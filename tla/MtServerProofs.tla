---------------------------- MODULE MtServerProofs ----------------------------
(***************************************************************************)
(* Proofs about MtServer, for every number of handlers, descriptors, slots *)
(* and accounts.                                                           *)
(***************************************************************************)
EXTENDS MtServer, TLAPS

\* Every open descriptor has one owner: a handler, or main() between accept()
\* and pthread_create().
OneOwner ==
  /\ \A h \in Handlers :
       pc[h] # "none" => fd[h] \in Fds /\ peer[fd[h]] # "free" /\ fd[h] # pending
  /\ \A g, h \in Handlers :
       pc[g] # "none" /\ pc[h] # "none" /\ fd[g] = fd[h] => g = h
  /\ pending # NoFd => peer[pending] # "free"

\* The flag and the name a handler keeps agree.
LocalAgree ==
  \A h \in Handlers :
    /\ pc[h] # "none" => (loggedIn[h] <=> current[h] # NoName)
    /\ pc[h] = "start" => ~loggedIn[h]

\* TableMirrorsHandlers is inductive once descriptors have one owner: it is the
\* owner who removes the session before close() lets accept() return the
\* descriptor again.
IInv == TypeOK /\ OneOwner /\ LocalAgree /\ TableMirrorsHandlers /\ UniqueLogin

-----------------------------------------------------------------------------
\* The program starts with every variable in its range.
LEMMA InitType == Init => TypeOK
BY MtAssumption DEF Init, TypeOK, PeerStates, Points, Codes, NoSession, SessionRecords

\* Taking a line consumes one and leaves the ranges.
LEMMA TakeLineType ==
  ASSUME TypeOK, NEW h \in Handlers, TakeLine(h)
  PROVE  pc' \in [Handlers -> Points] /\ unread' \in [Fds -> 0..MaxUnread]
<1>1. pc' \in [Handlers -> Points]
  BY DEF TypeOK, TakeLine, Goto, Points
<1>2. ASSUME fd[h] \in Fds PROVE unread' \in [Fds -> 0..MaxUnread]
  <2>1. unread[fd[h]] \in 0..MaxUnread /\ unread[fd[h]] > 0
    BY <1>2 DEF TypeOK, TakeLine
  <2>2. unread[fd[h]] - 1 \in 0..MaxUnread
    BY <2>1, MtAssumption
  <2> QED BY <1>2, <2>2 DEF TypeOK, TakeLine
<1>3. ASSUME fd[h] \notin Fds PROVE unread' \in [Fds -> 0..MaxUnread]
  BY <1>3 DEF TypeOK, TakeLine
<1> QED BY <1>1, <1>2, <1>3

\* Writing a name and a flag into a slot keeps the table a table of sessions.
LEMMA SetSlotType ==
  ASSUME TypeOK, NEW f, NEW name \in (Accounts \ Blocked) \cup {NoName},
         NEW flag \in BOOLEAN, SetSlotOf(f, name, flag)
  PROVE  sessions' \in [Slots -> SessionRecords]
BY DEF TypeOK, SetSlotOf, SessionRecords

\* No step of a handler, of main() or of a client leaves the ranges.
LEMMA NextType == TypeOK /\ [Next]_vars => TypeOK'
<1> SUFFICES ASSUME TypeOK, [Next]_vars PROVE TypeOK'
  OBVIOUS
<1> USE DEF TypeOK, PeerStates, Points, Codes, Goto
<1>1. ASSUME NEW h \in Handlers, AddSession(h) PROVE TypeOK'
  <2>1. PICK s \in Slots : sessions' = [sessions EXCEPT ![s] =
            [active |-> TRUE, sockfd |-> fd[h], username |-> NoName,
             logged_in |-> FALSE]]
    BY <1>1 DEF AddSession
  <2>2. sessions' \in [Slots -> SessionRecords]
    BY <2>1 DEF SessionRecords
  <2> QED BY <1>1, <2>2 DEF AddSession
<1>2. ASSUME NEW h \in Handlers, TableFull(h) PROVE TypeOK'
  BY <1>2 DEF TableFull
<1>3. ASSUME NEW h \in Handlers, Reject(h) PROVE TypeOK'
  BY <1>3 DEF Reject, Send
<1>4. ASSUME NEW h \in Handlers, Welcome(h) PROVE TypeOK'
  BY <1>4 DEF Welcome, Send
<1>5. ASSUME NEW h \in Handlers, User(h) PROVE TypeOK'
  <2>1. PICK name \in Names \cup {NoName} : LogIn(h, name) \/ RefuseLogIn(h, name)
    BY <1>5 DEF User
  <2>2. UserRefusal(h, name) \in {211, 212, 213, 214, 300}
    BY DEF UserRefusal
  <2>3. CASE LogIn(h, name)
    <3>1. name \in Accounts \ Blocked
      BY <2>3 DEF LogIn, MayLogIn
    <3>2. pc' \in [Handlers -> Points] /\ unread' \in [Fds -> 0..MaxUnread]
      BY <2>3, TakeLineType DEF LogIn
    <3>3. sessions' \in [Slots -> SessionRecords]
      BY <2>3, <3>1, SetSlotType DEF LogIn
    <3> QED BY <2>3, <3>1, <3>2, <3>3 DEF LogIn, Answer
  <2>4. CASE RefuseLogIn(h, name)
    <3>1. pc' \in [Handlers -> Points] /\ unread' \in [Fds -> 0..MaxUnread]
      BY <2>4, TakeLineType DEF RefuseLogIn
    <3>2. code' \in [Handlers -> Codes]
      BY <2>2, <2>4 DEF RefuseLogIn, Answer
    <3> QED BY <2>4, <3>1, <3>2 DEF RefuseLogIn
  <2> QED BY <2>1, <2>3, <2>4
<1>6. ASSUME NEW h \in Handlers, Post(h) PROVE TypeOK'
  BY <1>6, TakeLineType DEF Post, Answer
<1>7. ASSUME NEW h \in Handlers, Bye(h) PROVE TypeOK'
  <2>1. sessions' \in [Slots -> SessionRecords]
    BY <1>7, SetSlotType DEF Bye
  <2> QED BY <1>7, <2>1, TakeLineType DEF Bye, Answer
<1>8. ASSUME NEW h \in Handlers, ByeNotLoggedIn(h) \/ UnknownCommand(h) PROVE TypeOK'
  BY <1>8, TakeLineType DEF ByeNotLoggedIn, UnknownCommand, Answer
<1>9. ASSUME NEW h \in Handlers, Reply(h) PROVE TypeOK'
  BY <1>9 DEF Reply, Send
<1>10. ASSUME NEW h \in Handlers, RecvEnds(h) PROVE TypeOK'
  BY <1>10 DEF RecvEnds
<1>11. ASSUME NEW h \in Handlers, RemoveSession(h) PROVE TypeOK'
  <2>1. sessions' \in [Slots -> SessionRecords]
    <3>1. ASSUME NEW s \in Slots PROVE sessions'[s] \in SessionRecords
      <4>1. sessions[s] \in SessionRecords
        OBVIOUS
      <4>2. [sessions[s] EXCEPT !.active = FALSE, !.username = NoName,
                                !.logged_in = FALSE] \in SessionRecords
        BY <4>1 DEF SessionRecords
      <4> QED BY <1>11, <4>1, <4>2 DEF RemoveSession
    <3> QED BY <1>11, <3>1 DEF RemoveSession
  <2> QED BY <1>11, <2>1 DEF RemoveSession
<1>12. ASSUME NEW h \in Handlers, CloseAndExit(h) PROVE TypeOK'
  <2>1. unread' \in [Fds -> 0..MaxUnread]
    <3>1. 0 \in 0..MaxUnread
      BY MtAssumption
    <3> QED BY <1>12, <3>1 DEF CloseAndExit
  <2>2. peer' \in [Fds -> PeerStates] /\ fd' \in [Handlers -> Fds \cup {NoFd}]
    BY <1>12 DEF CloseAndExit
  <2> QED BY <1>12, <2>1, <2>2 DEF CloseAndExit
<1>13. CASE MainStep
  <2>1. ASSUME NEW f \in Fds, Accept(f) PROVE TypeOK'
    BY <2>1 DEF Accept
  <2>2. ASSUME NEW h \in Handlers, SpawnHandler(h) PROVE TypeOK'
    BY <2>2 DEF SpawnHandler
  <2>3. CASE SpawnFails
    BY <2>3, MtAssumption DEF SpawnFails
  <2> QED BY <1>13, <2>1, <2>2, <2>3 DEF MainStep
<1>14. CASE ClientStep
  <2>1. ASSUME NEW f \in Fds, ClientSends(f) PROVE TypeOK'
    <3>1. unread[f] + 1 \in 0..MaxUnread
      BY <2>1, MtAssumption DEF ClientSends
    <3> QED BY <2>1, <3>1 DEF ClientSends
  <2>2. ASSUME NEW f \in Fds, ClientCloses(f) PROVE TypeOK'
    BY <2>2 DEF ClientCloses
  <2> QED BY <1>14, <2>1, <2>2 DEF ClientStep
<1>15. CASE UNCHANGED vars
  BY <1>15 DEF vars
<1> QED
  BY <1>1, <1>2, <1>3, <1>4, <1>5, <1>6, <1>7, <1>8, <1>9, <1>10, <1>11, <1>12,
     <1>13, <1>14, <1>15 DEF Next, HandlerStep, Ended

\* TypeOK holds in every state of the server: no handler ever serves an account
\* that is unknown or blocked.
THEOREM Typing == Spec => []TypeOK
BY InitType, NextType, PTL DEF Spec

-----------------------------------------------------------------------------
\* No descriptor is open and no slot is active when the server starts.
LEMMA InitInv == Init => IInv
<1> SUFFICES ASSUME Init PROVE IInv
  OBVIOUS
<1>1. \A s \in Slots : ~sessions[s].active
  BY DEF Init, NoSession
<1>2. \A h \in Handlers : pc[h] = "none"
  BY DEF Init
<1>3. OneOwner /\ LocalAgree
  BY <1>2 DEF Init, OneOwner, LocalAgree
<1>4. TableMirrorsHandlers /\ UniqueLogin
  BY <1>1, <1>2 DEF TableMirrorsHandlers, UniqueLogin, Holds, Registered
<1> QED BY <1>3, <1>4, InitType DEF IInv

\* A step that opens and closes nothing and registers, logs in and removes
\* nobody disturbs no part of the invariant.
LEMMA QuietStep ==
  ASSUME IInv, TypeOK',
         UNCHANGED <<fd, loggedIn, current, sessions, pending>>,
         \A h \in Handlers :
           /\ pc'[h] = "none" <=> pc[h] = "none"
           /\ pc'[h] = "start" => pc[h] = "start"
           /\ Registered(h)' <=> Registered(h),
         \A f \in Fds : peer[f] # "free" => peer'[f] # "free"
  PROVE  IInv'
<1> USE DEF IInv
<1>1. OneOwner'
  BY DEF OneOwner, TypeOK
<1>2. LocalAgree'
  BY DEF LocalAgree
<1>3. \A s \in Slots, h \in Handlers : Mirrors(s, h)' <=> Mirrors(s, h)
  BY DEF Mirrors
<1>4. TableMirrorsHandlers'
  BY <1>3 DEF TableMirrorsHandlers
<1>5. UniqueLogin'
  BY DEF UniqueLogin, Holds
<1> QED BY <1>1, <1>2, <1>4, <1>5

\* The slot of a registered handler is the only active one with its descriptor,
\* so it is the one the loops over sessions[] stop at.
LEMMA OwnSlot ==
  ASSUME IInv, NEW h \in Handlers, Registered(h)
  PROVE  \E s \in Slots : /\ Mirrors(s, h)
                          /\ \A r \in Slots : IsSlotOf(r, fd[h]) <=> r = s
<1>1. PICK s \in Slots : Mirrors(s, h)
  BY DEF IInv, TableMirrorsHandlers
<1>2. \A r \in Slots : sessions[r].active /\ sessions[r].sockfd = fd[h] => r = s
  BY <1>1 DEF IInv, TableMirrorsHandlers, Mirrors
<1>3. s <= s
  BY MtAssumption DEF Slots
<1>4. IsSlotOf(s, fd[h])
  BY <1>1, <1>2, <1>3 DEF IsSlotOf, Mirrors
<1> QED BY <1>1, <1>2, <1>4 DEF IsSlotOf

-----------------------------------------------------------------------------
\* add_session() gives the handler a slot nobody else has.
LEMMA AddSessionInv ==
  ASSUME IInv, TypeOK', NEW h \in Handlers, AddSession(h)
  PROVE  IInv'
<1> USE DEF IInv
<1>1. PICK s \in Slots :
        /\ ~sessions[s].active
        /\ sessions' = [sessions EXCEPT ![s] =
             [active |-> TRUE, sockfd |-> fd[h], username |-> NoName,
              logged_in |-> FALSE]]
  BY DEF AddSession
<1>2. sessions'[s] = [active |-> TRUE, sockfd |-> fd[h], username |-> NoName,
                      logged_in |-> FALSE]
  BY <1>1 DEF TypeOK
<1>3. \A r \in Slots : r # s => sessions'[r] = sessions[r]
  BY <1>1 DEF TypeOK
<1>4. pc[h] = "start" /\ pc'[h] = "welcome"
      /\ \A g \in Handlers : g # h => pc'[g] = pc[g]
  BY DEF AddSession, Goto, TypeOK
<1>5. UNCHANGED <<peer, pending, fd, loggedIn, current>>
  BY DEF AddSession
<1>6. OneOwner' /\ LocalAgree'
  BY <1>4, <1>5 DEF OneOwner, LocalAgree
<1>7. ~loggedIn[h] /\ current[h] = NoName
  BY <1>4 DEF LocalAgree
<1>8. Mirrors(s, h)' /\ Registered(h)'
  <2>1. fd'[h] = fd[h] /\ current'[h] = NoName /\ ~loggedIn'[h]
    BY <1>5, <1>7 DEF TypeOK
  <2> QED BY <1>2, <1>4, <2>1 DEF Mirrors, Registered
<1>9. \A g \in Handlers : g # h => (Registered(g)' <=> Registered(g))
  BY <1>4 DEF Registered
<1>10. \A g \in Handlers, r \in Slots :
         r # s => (Mirrors(r, g)' <=> Mirrors(r, g))
  BY <1>3, <1>5 DEF Mirrors
<1>11. \A g \in Handlers : ~Mirrors(s, g)
  BY <1>1 DEF Mirrors
<1>12. ~Registered(h)
  BY <1>4 DEF Registered
<1>13. \A r \in Slots : sessions[r].active => sessions[r].sockfd # fd[h]
  BY <1>4, <1>12 DEF TableMirrorsHandlers, Mirrors, OneOwner, Registered
<1>14. TableMirrorsHandlers'
  <2>1. \A g \in Handlers : Registered(g)' => \E r \in Slots : Mirrors(r, g)'
    BY <1>8, <1>9, <1>10, <1>11 DEF TableMirrorsHandlers
  <2>2. \A r \in Slots : sessions'[r].active =>
          \E g \in Handlers : Registered(g)' /\ Mirrors(r, g)'
    BY <1>3, <1>8, <1>9, <1>10, <1>12 DEF TableMirrorsHandlers
  <2>3. \A q, r \in Slots : sessions'[q].active /\ sessions'[r].active
          /\ sessions'[q].sockfd = sessions'[r].sockfd => q = r
    BY <1>2, <1>3, <1>13 DEF TableMirrorsHandlers
  <2> QED BY <2>1, <2>2, <2>3 DEF TableMirrorsHandlers
<1>15. UniqueLogin'
  BY <1>5, <1>7, <1>9 DEF UniqueLogin, Holds
<1> QED BY <1>6, <1>14, <1>15

\* A USER that is granted or a BYE changes the handler's own slot and its local
\* variables to the same values.
LEMMA SetSlotInv ==
  ASSUME IInv, TypeOK', NEW h \in Handlers, NEW name, NEW flag \in BOOLEAN,
         Goto(h, "serve", "reply"), SetSlotOf(fd[h], name, flag),
         loggedIn' = [loggedIn EXCEPT ![h] = flag],
         current' = [current EXCEPT ![h] = name],
         flag <=> name # NoName,
         flag => \A g \in Handlers : g # h /\ Holds(g) => current[g] # name,
         UNCHANGED <<peer, pending, fd>>
  PROVE  IInv'
<1> USE DEF IInv
<1>1. pc[h] = "serve" /\ pc'[h] = "reply"
      /\ \A g \in Handlers : g # h => pc'[g] = pc[g]
  BY DEF Goto, TypeOK
<1>2. \A g \in Handlers : Registered(g)' <=> Registered(g)
  BY <1>1 DEF Registered
<1>3. Registered(h)
  BY <1>1 DEF Registered
<1>4. PICK s \in Slots : Mirrors(s, h) /\ \A r \in Slots : IsSlotOf(r, fd[h]) <=> r = s
  BY <1>3, OwnSlot
<1>5. loggedIn'[h] = flag /\ current'[h] = name
      /\ \A g \in Handlers : g # h => loggedIn'[g] = loggedIn[g] /\ current'[g] = current[g]
  BY DEF TypeOK
<1>6. \A r \in Slots : r # s => sessions'[r] = sessions[r]
  BY <1>4 DEF SetSlotOf
<1>7. sessions'[s] = [sessions[s] EXCEPT !.username = name, !.logged_in = flag]
  BY <1>4 DEF SetSlotOf
<1>8. /\ sessions'[s].active = sessions[s].active
      /\ sessions'[s].sockfd = sessions[s].sockfd
      /\ sessions'[s].username = name
      /\ sessions'[s].logged_in = flag
  BY <1>7 DEF TypeOK, SessionRecords
<1>9. OneOwner' /\ LocalAgree'
  BY <1>1, <1>5 DEF OneOwner, LocalAgree
<1>10. Mirrors(s, h)'
  BY <1>4, <1>5, <1>8 DEF Mirrors
<1>11. \A g \in Handlers, r \in Slots :
         g # h /\ Registered(g) /\ Mirrors(r, g) => Mirrors(r, g)'
  <2> SUFFICES ASSUME NEW g \in Handlers, NEW r \in Slots,
                      g # h, Registered(g), Mirrors(r, g)
               PROVE  Mirrors(r, g)'
    OBVIOUS
  <2>1. fd[g] # fd[h]
    BY <1>1 DEF OneOwner, Registered
  <2>2. r # s
    BY <1>4, <2>1 DEF Mirrors
  <2> QED BY <1>5, <1>6, <2>2 DEF Mirrors
<1>12. TableMirrorsHandlers'
  <2>1. \A g \in Handlers : Registered(g)' => \E r \in Slots : Mirrors(r, g)'
    BY <1>2, <1>10, <1>11 DEF TableMirrorsHandlers
  <2>2. \A r \in Slots : sessions'[r].active =>
          \E g \in Handlers : Registered(g)' /\ Mirrors(r, g)'
    <3> SUFFICES ASSUME NEW r \in Slots, sessions'[r].active
                 PROVE  \E g \in Handlers : Registered(g)' /\ Mirrors(r, g)'
      OBVIOUS
    <3>1. CASE r = s
      BY <3>1, <1>2, <1>3, <1>10
    <3>2. CASE r # s
      <4>1. PICK g \in Handlers : Registered(g) /\ Mirrors(r, g)
        BY <3>2, <1>6 DEF TableMirrorsHandlers
      <4>2. g # h
        BY <3>2, <4>1, <1>4 DEF TableMirrorsHandlers, Mirrors
      <4> QED BY <4>1, <4>2, <1>2, <1>11
    <3> QED BY <3>1, <3>2
  <2>3. \A q, r \in Slots : sessions'[q].active /\ sessions'[r].active
          /\ sessions'[q].sockfd = sessions'[r].sockfd => q = r
    BY <1>6, <1>8 DEF TableMirrorsHandlers
  <2> QED BY <2>1, <2>2, <2>3 DEF TableMirrorsHandlers
<1>13. UniqueLogin'
  BY <1>2, <1>5 DEF UniqueLogin, Holds
<1> QED BY <1>9, <1>12, <1>13

\* remove_session() empties the handler's own slot, the only one that names its
\* descriptor, before the descriptor is closed.
LEMMA RemoveSessionInv ==
  ASSUME IInv, TypeOK', NEW h \in Handlers, RemoveSession(h)
  PROVE  IInv'
<1> USE DEF IInv
<1>1. pc[h] = "leave" /\ pc'[h] = "close"
      /\ \A g \in Handlers : g # h => pc'[g] = pc[g]
  BY DEF RemoveSession, Goto, TypeOK
<1>2. UNCHANGED <<peer, pending, fd, loggedIn, current>>
  BY DEF RemoveSession
<1>3. Registered(h) /\ ~Registered(h)'
      /\ \A g \in Handlers : g # h => (Registered(g)' <=> Registered(g))
  BY <1>1 DEF Registered
<1>4. PICK s \in Slots : Mirrors(s, h) /\ \A r \in Slots : IsSlotOf(r, fd[h]) <=> r = s
  BY <1>3, OwnSlot
<1>5. \A r \in Slots : r # s => sessions'[r] = sessions[r]
  BY <1>4 DEF RemoveSession
<1>6. ~sessions'[s].active
  <2>1. sessions'[s] = [sessions[s] EXCEPT !.active = FALSE, !.username = NoName,
                                           !.logged_in = FALSE]
    BY <1>4 DEF RemoveSession
  <2> QED BY <2>1 DEF TypeOK, SessionRecords
<1>7. OneOwner' /\ LocalAgree'
  BY <1>1, <1>2 DEF OneOwner, LocalAgree
<1>8. \A g \in Handlers, r \in Slots :
        r # s => (Mirrors(r, g)' <=> Mirrors(r, g))
  BY <1>2, <1>5 DEF Mirrors
<1>9. \A g \in Handlers : g # h /\ Registered(g) => ~Mirrors(s, g)
  BY <1>3, <1>4 DEF OneOwner, Mirrors, Registered
<1>10. \A r \in Slots : Mirrors(r, h) => r = s
  BY <1>4 DEF TableMirrorsHandlers, Mirrors
<1>11. TableMirrorsHandlers'
  <2>1. \A g \in Handlers : Registered(g)' => \E r \in Slots : Mirrors(r, g)'
    BY <1>3, <1>8, <1>9 DEF TableMirrorsHandlers
  <2>2. \A r \in Slots : sessions'[r].active =>
          \E g \in Handlers : Registered(g)' /\ Mirrors(r, g)'
    BY <1>3, <1>5, <1>6, <1>8, <1>10 DEF TableMirrorsHandlers
  <2>3. \A q, r \in Slots : sessions'[q].active /\ sessions'[r].active
          /\ sessions'[q].sockfd = sessions'[r].sockfd => q = r
    BY <1>5, <1>6 DEF TableMirrorsHandlers
  <2> QED BY <2>1, <2>2, <2>3 DEF TableMirrorsHandlers
<1>12. UniqueLogin'
  BY <1>2, <1>3 DEF UniqueLogin, Holds
<1> QED BY <1>7, <1>11, <1>12

\* close(), pthread_create() and accept() move descriptors between the kernel,
\* main() and a handler that is not registered, and leave the table alone.
LEMMA DescriptorStepInv ==
  ASSUME IInv, TypeOK',
         (\E h \in Handlers : CloseAndExit(h)) \/ MainStep
  PROVE  IInv'
<1> USE DEF IInv
<1>1. sessions' = sessions
  BY DEF CloseAndExit, MainStep, Accept, SpawnHandler, SpawnFails
<1>2. \A h \in Handlers :
        /\ Registered(h)' <=> Registered(h)
        /\ Registered(h) => /\ fd'[h] = fd[h]
                            /\ (loggedIn'[h] <=> loggedIn[h])
                            /\ current'[h] = current[h]
  BY DEF CloseAndExit, MainStep, Accept, SpawnHandler, SpawnFails, Goto, TypeOK, Registered
<1>3. ASSUME NEW h \in Handlers, NEW s \in Slots, Registered(h)
      PROVE  Mirrors(s, h)' <=> Mirrors(s, h)
  <2>1. fd'[h] = fd[h] /\ (loggedIn'[h] <=> loggedIn[h]) /\ current'[h] = current[h]
    BY <1>2, <1>3
  <2> QED BY <1>1, <2>1 DEF Mirrors
<1>4. TableMirrorsHandlers'
  BY <1>1, <1>2, <1>3 DEF TableMirrorsHandlers
<1>5. UniqueLogin'
  <2>1. ASSUME NEW h \in Handlers, Holds(h)' PROVE Holds(h) /\ current'[h] = current[h]
    <3>1. Registered(h)
      BY <1>2, <2>1 DEF Holds
    <3>2. (loggedIn'[h] <=> loggedIn[h]) /\ current'[h] = current[h]
      BY <1>2, <3>1
    <3> QED BY <2>1, <3>1, <3>2 DEF Holds
  <2> QED BY <2>1 DEF UniqueLogin
<1>6. OneOwner' /\ LocalAgree'
  <2>1. ASSUME NEW h \in Handlers, CloseAndExit(h) PROVE OneOwner' /\ LocalAgree'
    <3>1. pc[h] = "close" /\ pc'[h] = "none"
          /\ \A g \in Handlers : g # h => pc'[g] = pc[g] /\ fd'[g] = fd[g]
      BY <2>1 DEF CloseAndExit, Goto, TypeOK
    <3>2. UNCHANGED <<pending, loggedIn, current>>
      BY <2>1 DEF CloseAndExit
    <3>3. \A f \in Fds : f # fd[h] => peer'[f] = peer[f]
      BY <2>1 DEF CloseAndExit, TypeOK
    <3>4. pending # NoFd => pending \in Fds /\ pending # fd[h]
      BY <3>1 DEF OneOwner, TypeOK
    <3> QED BY <3>1, <3>2, <3>3, <3>4 DEF OneOwner, LocalAgree
  <2>2. ASSUME NEW f \in Fds, Accept(f) PROVE OneOwner' /\ LocalAgree'
    <3>1. /\ pending' = f
          /\ peer[f] = "free"
          /\ peer'[f] = "up"
          /\ \A e \in Fds : e # f => peer'[e] = peer[e]
          /\ UNCHANGED <<pc, fd, loggedIn, current>>
      BY <2>2 DEF Accept, TypeOK
    <3> QED BY <3>1 DEF OneOwner, LocalAgree
  <2>3. ASSUME NEW h \in Handlers, SpawnHandler(h) PROVE OneOwner' /\ LocalAgree'
    <3>1. pc[h] = "none" /\ pc'[h] = "start"
          /\ \A g \in Handlers : g # h => pc'[g] = pc[g] /\ fd'[g] = fd[g]
               /\ loggedIn'[g] = loggedIn[g] /\ current'[g] = current[g]
      BY <2>3 DEF SpawnHandler, Goto, TypeOK
    <3>2. pending # NoFd /\ pending \in Fds /\ fd'[h] = pending /\ pending' = NoFd
          /\ ~loggedIn'[h] /\ current'[h] = NoName /\ peer' = peer
      BY <2>3 DEF SpawnHandler, TypeOK
    <3>3. OneOwner'
      BY <3>1, <3>2, MtAssumption DEF OneOwner
    <3>4. LocalAgree'
      BY <3>1, <3>2 DEF LocalAgree
    <3> QED BY <3>3, <3>4
  <2>4. CASE SpawnFails
    <3>1. /\ pending \in Fds
          /\ pending' = NoFd
          /\ \A e \in Fds : e # pending => peer'[e] = peer[e]
          /\ UNCHANGED <<pc, fd, loggedIn, current>>
      BY <2>4 DEF SpawnFails, TypeOK
    <3> QED BY <3>1, MtAssumption DEF OneOwner, LocalAgree
  <2> QED BY <2>1, <2>2, <2>3, <2>4 DEF MainStep
<1> QED BY <1>4, <1>5, <1>6

-----------------------------------------------------------------------------
\* Every step of the server preserves the invariant.
LEMMA NextInv == IInv /\ [Next]_vars => IInv'
<1> SUFFICES ASSUME IInv, [Next]_vars PROVE IInv'
  OBVIOUS
<1>0. TypeOK /\ TypeOK'
  BY NextType DEF IInv
<1>1. ASSUME NEW h \in Handlers, AddSession(h) PROVE IInv'
  BY <1>0, <1>1, AddSessionInv
<1>2. ASSUME NEW h \in Handlers, TableFull(h) PROVE IInv'
  BY <1>0, <1>2, QuietStep DEF TableFull, Goto, Registered, TypeOK
<1>3. ASSUME NEW h \in Handlers, Reject(h) \/ Welcome(h) \/ Reply(h) PROVE IInv'
  <2>1. UNCHANGED <<fd, loggedIn, current, sessions, pending>>
    BY <1>3 DEF Reject, Welcome, Reply
  <2>2. \A f \in Fds : peer[f] # "free" => peer'[f] # "free"
    BY <1>0, <1>3 DEF Reject, Welcome, Reply, Send, TypeOK
  <2>3. \A g \in Handlers :
          /\ pc'[g] = "none" <=> pc[g] = "none"
          /\ pc'[g] = "start" => pc[g] = "start"
          /\ Registered(g)' <=> Registered(g)
    BY <1>0, <1>3 DEF Reject, Welcome, Reply, Goto, Registered, TypeOK
  <2> QED BY <1>0, <2>1, <2>2, <2>3, QuietStep
<1>4. ASSUME NEW h \in Handlers, NEW name \in Names \cup {NoName}, LogIn(h, name)
      PROVE  IInv'
  <2>1. Goto(h, "serve", "reply") /\ SetSlotOf(fd[h], name, TRUE)
    BY <1>4 DEF LogIn, TakeLine
  <2>2. \A g \in Handlers : g # h /\ Holds(g) => current[g] # name
    <3> SUFFICES ASSUME NEW g \in Handlers, g # h, Holds(g) PROVE current[g] # name
      OBVIOUS
    <3>1. PICK s \in Slots : Mirrors(s, g)
      BY DEF IInv, TableMirrorsHandlers, Holds
    <3>2. fd[g] # fd[h]
      BY <2>1 DEF IInv, OneOwner, Holds, Registered, Goto
    <3> QED BY <1>4, <3>1, <3>2 DEF LogIn, MayLogIn, LoggedInElsewhere, Mirrors, Holds
  <2>3. loggedIn' = [loggedIn EXCEPT ![h] = TRUE] /\ current' = [current EXCEPT ![h] = name]
        /\ name # NoName /\ UNCHANGED <<peer, pending, fd>>
    BY <1>4 DEF LogIn, MayLogIn
  <2> QED BY <1>0, <2>1, <2>2, <2>3, SetSlotInv
<1>5. ASSUME NEW h \in Handlers, Bye(h) PROVE IInv'
  BY <1>0, <1>5, SetSlotInv DEF Bye, TakeLine
<1>6. ASSUME NEW h \in Handlers, TakeLine(h),
             UNCHANGED <<peer, pending, fd, loggedIn, current, sessions>>
      PROVE  IInv'
  BY <1>0, <1>6, QuietStep DEF TakeLine, Goto, Registered, TypeOK
<1>7. ASSUME NEW h \in Handlers, User(h) PROVE IInv'
  BY <1>4, <1>6, <1>7 DEF User, RefuseLogIn
<1>8. ASSUME NEW h \in Handlers, Post(h) \/ ByeNotLoggedIn(h) \/ UnknownCommand(h)
      PROVE  IInv'
  BY <1>6, <1>8 DEF Post, ByeNotLoggedIn, UnknownCommand
<1>9. ASSUME NEW h \in Handlers, RecvEnds(h) PROVE IInv'
  BY <1>0, <1>9, QuietStep DEF RecvEnds, Goto, Registered, TypeOK
<1>10. ASSUME NEW h \in Handlers, RemoveSession(h) PROVE IInv'
  BY <1>0, <1>10, RemoveSessionInv
<1>11. ASSUME (\E h \in Handlers : CloseAndExit(h)) \/ MainStep PROVE IInv'
  BY <1>0, <1>11, DescriptorStepInv
<1>12. ASSUME NEW f \in Fds, ClientSends(f) \/ ClientCloses(f) PROVE IInv'
  <2>1. UNCHANGED <<pc, fd, loggedIn, current, sessions, pending>>
    BY <1>12 DEF ClientSends, ClientCloses
  <2>2. \A e \in Fds : peer[e] # "free" => peer'[e] # "free"
    BY <1>0, <1>12 DEF ClientSends, ClientCloses, TypeOK
  <2> QED BY <1>0, <2>1, <2>2, QuietStep DEF Registered
<1>13. CASE UNCHANGED vars
  BY <1>0, <1>13, QuietStep DEF vars, Registered
<1> QED
  BY <1>1, <1>2, <1>3, <1>5, <1>7, <1>8, <1>9, <1>10, <1>11, <1>12, <1>13
  DEF Next, HandlerStep, ClientStep, Ended

\* The invariant holds in every state of the server.
THEOREM Invariant == Spec => []IInv
BY InitInv, NextInv, PTL DEF Spec

\* No two clients are ever logged in to one account.
THEOREM UniqueLoginHolds == Spec => []UniqueLogin
BY Invariant, PTL DEF IInv

\* The session table always agrees with the running handlers.
THEOREM TableAgrees == Spec => []TableMirrorsHandlers
BY Invariant, PTL DEF IInv

-----------------------------------------------------------------------------
(* The refinement of LoginRegistry. *)

Who == [h \in Handlers |-> IF Holds(h) THEN current[h] ELSE NoName]

\* A step that changes the login of handler h alone is a step of the registry.
LEMMA WhoStep ==
  ASSUME NEW h \in Handlers, \A g \in Handlers : g # h => Who'[g] = Who[g]
  PROVE  Who' = [Who EXCEPT ![h] = Who'[h]]
BY DEF Who

\* Every step of the server logs a connection in as LoginRegistry allows, logs
\* one out, or changes no login.
LEMMA StepRefines == IInv /\ IInv' /\ [Next]_vars => [Reg!Next]_Who
<1> SUFFICES ASSUME IInv, IInv', [Next]_vars PROVE [Reg!Next]_Who
  OBVIOUS
<1>0. TypeOK
  BY DEF IInv
<1>1. ASSUME NEW h \in Handlers, NEW name \in Names \cup {NoName}, LogIn(h, name)
      PROVE  Reg!Next
  <2>1. Who[h] = NoName
    BY <1>1 DEF LogIn, MayLogIn, Who, Holds
  <2>2. name \in Accounts \ Blocked /\ name # NoName
    BY <1>1 DEF LogIn, MayLogIn
  <2>3. Registered(h)' /\ \A g \in Handlers : Registered(g)' <=> Registered(g)
    BY <1>0, <1>1 DEF LogIn, TakeLine, Goto, Registered, TypeOK
  <2>4. Who'[h] = name /\ \A g \in Handlers : g # h => Who'[g] = Who[g]
    BY <1>0, <1>1, <2>3 DEF LogIn, Who, Holds, TypeOK
  <2>5. \A d \in Handlers : Who[d] # name
    <3> SUFFICES ASSUME NEW d \in Handlers, Who[d] = name PROVE FALSE
      OBVIOUS
    <3>1. d # h /\ Holds(d) /\ current[d] = name
      BY <2>1, <2>2 DEF Who
    <3>2. Holds(d)' /\ current'[d] = name /\ Holds(h)' /\ current'[h] = name
      BY <1>0, <1>1, <2>3, <3>1 DEF LogIn, Holds, TypeOK
    <3> QED BY <3>1, <3>2 DEF IInv, UniqueLogin
  <2>6. Who' = [Who EXCEPT ![h] = name]
    BY <2>4, WhoStep
  <2> QED BY <2>1, <2>2, <2>5, <2>6 DEF Reg!Next, Reg!Login, Who
<1>2. ASSUME NEW h \in Handlers, Bye(h) \/ RemoveSession(h) PROVE [Reg!Next]_Who
  <2>1. \A g \in Handlers : g # h => Who'[g] = Who[g]
    BY <1>0, <1>2 DEF Bye, RemoveSession, TakeLine, Goto, Who, Holds, Registered, TypeOK
  <2>2. Who'[h] = NoName
    BY <1>0, <1>2 DEF Bye, RemoveSession, TakeLine, Goto, Who, Holds, Registered, TypeOK
  <2>3. Who' = [Who EXCEPT ![h] = NoName]
    BY <2>1, <2>2, WhoStep
  <2>4. CASE Who[h] = NoName
    BY <2>3, <2>4 DEF Who
  <2>5. CASE Who[h] # NoName
    BY <2>3, <2>5 DEF Reg!Next, Reg!Logout, Who
  <2> QED BY <2>4, <2>5
<1>3. ASSUME \A h \in Handlers :
               /\ Registered(h)' <=> Registered(h)
               /\ Registered(h) => (loggedIn'[h] <=> loggedIn[h]) /\ current'[h] = current[h]
      PROVE  Who' = Who
  <2>1. ASSUME NEW h \in Handlers PROVE Who'[h] = Who[h]
    <3>1. CASE Registered(h)
      <4>1. Registered(h)' /\ (loggedIn'[h] <=> loggedIn[h]) /\ current'[h] = current[h]
        BY <1>3, <3>1
      <4> QED BY <3>1, <4>1 DEF Who, Holds
    <3>2. CASE ~Registered(h)
      BY <1>3, <3>2 DEF Who, Holds
    <3> QED BY <3>1, <3>2
  <2> QED BY <2>1 DEF Who
<1>4. ASSUME UNCHANGED <<loggedIn, current>>,
             \A h \in Handlers : ~loggedIn[h] \/ (Registered(h)' <=> Registered(h))
      PROVE  Who' = Who
  BY <1>4 DEF Who, Holds
<1>5. ASSUME NEW h \in Handlers, AddSession(h) PROVE Who' = Who
  <2>1. ~loggedIn[h]
    BY <1>5 DEF IInv, LocalAgree, AddSession, Goto
  <2>2. \A g \in Handlers : g # h => (Registered(g)' <=> Registered(g))
    BY <1>0, <1>5 DEF AddSession, Goto, Registered, TypeOK
  <2> QED BY <1>4, <1>5, <2>1, <2>2 DEF AddSession
<1>6. ASSUME NEW h \in Handlers,
             TableFull(h) \/ Reject(h) \/ Welcome(h) \/ Reply(h) \/ RecvEnds(h)
      PROVE  Who' = Who
  <2>1. UNCHANGED <<loggedIn, current>>
    BY <1>6 DEF TableFull, Reject, Welcome, Reply, RecvEnds
  <2>2. \A g \in Handlers : Registered(g)' <=> Registered(g)
    BY <1>0, <1>6 DEF TableFull, Reject, Welcome, Reply, RecvEnds, Goto, Registered, TypeOK
  <2> QED BY <1>4, <2>1, <2>2
<1>7. ASSUME NEW h \in Handlers, TakeLine(h), UNCHANGED <<loggedIn, current>>
      PROVE  Who' = Who
  <2>1. \A g \in Handlers : Registered(g)' <=> Registered(g)
    BY <1>0, <1>7 DEF TakeLine, Goto, Registered, TypeOK
  <2> QED BY <1>4, <1>7, <2>1
<1>8. ASSUME NEW h \in Handlers, User(h) PROVE [Reg!Next]_Who
  BY <1>1, <1>7, <1>8 DEF User, RefuseLogIn
<1>9. ASSUME NEW h \in Handlers, Post(h) \/ ByeNotLoggedIn(h) \/ UnknownCommand(h)
      PROVE  Who' = Who
  BY <1>7, <1>9 DEF Post, ByeNotLoggedIn, UnknownCommand
<1>10. ASSUME (\E h \in Handlers : CloseAndExit(h)) \/ MainStep PROVE Who' = Who
  <2>1. \A h \in Handlers :
          /\ Registered(h)' <=> Registered(h)
          /\ Registered(h) => (loggedIn'[h] <=> loggedIn[h]) /\ current'[h] = current[h]
    BY <1>0, <1>10
    DEF CloseAndExit, MainStep, Accept, SpawnHandler, SpawnFails, Goto, TypeOK, Registered
  <2> QED BY <1>3, <2>1
<1>11. ASSUME UNCHANGED <<pc, loggedIn, current>> PROVE Who' = Who
  BY <1>11 DEF Who, Holds, Registered
<1>12. CASE ClientStep \/ Ended \/ UNCHANGED vars
  BY <1>11, <1>12 DEF ClientStep, ClientSends, ClientCloses, Ended, vars
<1> QED
  BY <1>2, <1>5, <1>6, <1>8, <1>9, <1>10, <1>12 DEF Next, HandlerStep

\* The server with its threads, table and sockets implements the exclusive login
\* registry.
THEOREM RefinesRegistry == Spec => ImplementsRegistry
<1>1. Init => Reg!Init
  BY DEF Init, Reg!Init, Holds, Registered
<1>2. IInv /\ IInv' /\ [Next]_vars => [Reg!Next]_Who
  BY StepRefines
<1> QED BY <1>1, <1>2, Invariant, PTL DEF Spec, ImplementsRegistry, Reg!Spec, Who

-----------------------------------------------------------------------------
\* What GoneClientLeaves says of one handler.
Leaving(h) ==
  \/ pc'[h] = "none"
  \/ Gone(h)' /\ StepsLeft(h)' < StepsLeft(h)
  \/ Gone(h)' /\ pc'[h] = pc[h] /\ fd'[h] = fd[h] /\ StepsLeft(h)' = StepsLeft(h)

\* A step that does not touch a handler or its socket leaves it where it is.
LEMMA NotTouched ==
  ASSUME NEW h \in Handlers, Gone(h), pc'[h] = pc[h], fd'[h] = fd[h],
         peer'[fd[h]] = peer[fd[h]], unread'[fd[h]] = unread[fd[h]]
  PROVE  Leaving(h)
BY DEF Leaving, Gone, StepsLeft

\* A handler changes its own place and what lies behind its own descriptor.
Keeps(g) ==
  /\ pc[g] # "none"
  /\ \A k \in Handlers \ {g} : pc'[k] = pc[k] /\ fd'[k] = fd[k]
  /\ \A f \in Fds \ {fd[g]} : peer'[f] = peer[f] /\ unread'[f] = unread[f]

LEMMA HandlerKeeps ==
  ASSUME TypeOK, NEW g \in Handlers, HandlerStep(g)
  PROVE  Keeps(g)
<1>1. ASSUME AddSession(g) \/ TableFull(g) \/ RecvEnds(g) \/ RemoveSession(g)
      PROVE  Keeps(g)
  <2>1. /\ pc[g] # "none" /\ pc' = [pc EXCEPT ![g] = pc'[g]]
        /\ UNCHANGED <<peer, unread, fd>>
    <3>1. CASE AddSession(g)
      BY <3>1 DEF AddSession, Goto, TypeOK
    <3>2. CASE TableFull(g) \/ RecvEnds(g)
      BY <3>2 DEF TableFull, RecvEnds, Goto, TypeOK
    <3>3. CASE RemoveSession(g)
      <4>1. Goto(g, "leave", "close") /\ UNCHANGED <<peer, unread, fd>>
        BY <3>3 DEF RemoveSession
      <4> QED BY <4>1 DEF Goto, TypeOK
    <3> QED BY <1>1, <3>1, <3>2, <3>3
  <2> QED BY <2>1 DEF TypeOK, Keeps
<1>2. ASSUME Reject(g) \/ Welcome(g) \/ Reply(g) PROVE Keeps(g)
  BY <1>2 DEF Reject, Welcome, Reply, Send, Goto, TypeOK, Keeps
<1>3. ASSUME TakeLine(g), UNCHANGED <<peer, fd>> PROVE Keeps(g)
  BY <1>3 DEF TakeLine, Goto, TypeOK, Keeps
<1>4. ASSUME \/ User(g) \/ Post(g) \/ Bye(g) \/ ByeNotLoggedIn(g) \/ UnknownCommand(g)
      PROVE  Keeps(g)
  BY <1>3, <1>4 DEF User, LogIn, RefuseLogIn, Post, Bye, ByeNotLoggedIn, UnknownCommand
<1>5. ASSUME CloseAndExit(g) PROVE Keeps(g)
  BY <1>5 DEF CloseAndExit, Goto, TypeOK, Keeps
<1> QED BY <1>1, <1>2, <1>4, <1>5 DEF HandlerStep

\* No step of another thread, of main() or of a client touches the handler of a
\* client that has gone: its descriptor is its own until it closes it.
LEMMA OthersDoNotTouch ==
  ASSUME IInv, NEW h \in Handlers, Gone(h),
         \/ \E g \in Handlers : g # h /\ HandlerStep(g)
         \/ MainStep
         \/ ClientStep
  PROVE  Leaving(h)
<1>0. TypeOK /\ OneOwner /\ fd[h] \in Fds /\ fd[h] # pending
  BY DEF IInv, OneOwner, Gone
<1>1. ASSUME NEW g \in Handlers, g # h, HandlerStep(g) PROVE Leaving(h)
  <2>1. Keeps(g)
    BY <1>0, <1>1, HandlerKeeps
  <2>2. fd[g] # fd[h]
    BY <1>0, <1>1, <2>1 DEF OneOwner, Gone, Keeps
  <2> QED BY <1>0, <1>1, <2>1, <2>2, NotTouched DEF Keeps
<1>2. CASE MainStep
  <2>1. pc'[h] = pc[h] /\ fd'[h] = fd[h]
    BY <1>0, <1>2 DEF MainStep, Accept, SpawnHandler, SpawnFails, Goto, TypeOK, Gone
  <2>2. peer'[fd[h]] = peer[fd[h]] /\ unread'[fd[h]] = unread[fd[h]]
    BY <1>0, <1>2 DEF MainStep, Accept, SpawnHandler, SpawnFails, TypeOK, Gone
  <2> QED BY <2>1, <2>2, NotTouched
<1>3. CASE ClientStep
  <2>1. pc'[h] = pc[h] /\ fd'[h] = fd[h]
    BY <1>3 DEF ClientStep, ClientSends, ClientCloses
  <2>2. peer'[fd[h]] = peer[fd[h]] /\ unread'[fd[h]] = unread[fd[h]]
    BY <1>0, <1>3 DEF ClientStep, ClientSends, ClientCloses, TypeOK, Gone
  <2> QED BY <2>1, <2>2, NotTouched
<1> QED BY <1>1, <1>2, <1>3

\* send() does not bring a client back.
LEMMA SendToGone ==
  ASSUME TypeOK, NEW f \in Fds, peer[f] \in {"down", "reset"}, Send(f)
  PROVE  peer'[f] \in {"down", "reset"}
BY DEF Send, TypeOK

\* Every step of the handler itself brings it closer to its end.
LEMMA OwnStepLeaves ==
  ASSUME IInv, NEW h \in Handlers, Gone(h), HandlerStep(h)
  PROVE  Leaving(h)
<1>0. TypeOK /\ fd[h] \in Fds
  BY DEF IInv, OneOwner, Gone
<1>1. unread[fd[h]] \in Nat
  BY <1>0, MtAssumption DEF TypeOK
<1>2. ASSUME AddSession(h) \/ TableFull(h) \/ RecvEnds(h) \/ RemoveSession(h)
      PROVE  Leaving(h)
  <2>1. /\ UNCHANGED <<peer, unread, fd>>
        /\ \/ pc[h] = "start" /\ pc'[h] \in {"welcome", "reject"}
           \/ pc[h] = "serve" /\ pc'[h] = "leave"
           \/ pc[h] = "leave" /\ pc'[h] = "close"
    <3>1. CASE AddSession(h)
      BY <1>0, <3>1 DEF AddSession, Goto, TypeOK
    <3>2. CASE TableFull(h) \/ RecvEnds(h)
      BY <1>0, <3>2 DEF TableFull, RecvEnds, Goto, TypeOK
    <3>3. CASE RemoveSession(h)
      <4>1. Goto(h, "leave", "close") /\ UNCHANGED <<peer, unread, fd>>
        BY <3>3 DEF RemoveSession
      <4> QED BY <1>0, <4>1 DEF Goto, TypeOK
    <3> QED BY <1>2, <3>1, <3>2, <3>3
  <2> QED BY <1>1, <2>1 DEF Leaving, Gone, StepsLeft
<1>3. ASSUME Reject(h) \/ Welcome(h) \/ Reply(h) PROVE Leaving(h)
  <2>1. /\ peer'[fd[h]] \in {"down", "reset"}
        /\ fd'[h] = fd[h] /\ unread'[fd[h]] = unread[fd[h]]
    BY <1>0, <1>3, SendToGone DEF Reject, Welcome, Reply, Gone
  <2>2. \/ pc[h] = "reject" /\ pc'[h] = "close"
        \/ pc[h] \in {"welcome", "reply"} /\ pc'[h] = "serve"
    BY <1>0, <1>3 DEF Reject, Welcome, Reply, Goto, TypeOK
  <2> QED BY <1>1, <2>1, <2>2 DEF Leaving, Gone, StepsLeft
<1>4. ASSUME TakeLine(h), UNCHANGED <<peer, fd>> PROVE Leaving(h)
  <2>1. pc[h] = "serve" /\ pc'[h] = "reply"
    BY <1>0, <1>4 DEF TakeLine, Goto, TypeOK
  <2>2. unread'[fd[h]] = unread[fd[h]] - 1
    BY <1>0, <1>4 DEF TakeLine, TypeOK
  <2> QED BY <1>1, <1>4, <2>1, <2>2 DEF Leaving, Gone, StepsLeft
<1>5. ASSUME \/ User(h) \/ Post(h) \/ Bye(h) \/ ByeNotLoggedIn(h) \/ UnknownCommand(h)
      PROVE  Leaving(h)
  BY <1>4, <1>5 DEF User, LogIn, RefuseLogIn, Post, Bye, ByeNotLoggedIn, UnknownCommand
<1>6. ASSUME CloseAndExit(h) PROVE Leaving(h)
  BY <1>0, <1>6 DEF CloseAndExit, Goto, TypeOK, Leaving
<1> QED BY <1>2, <1>3, <1>5, <1>6 DEF HandlerStep

\* A client that has gone stays gone, and its handler comes closer to the end of
\* client_handler with each of its steps: it cannot go round for ever.
THEOREM GoneClientLeavesHolds == Spec => GoneClientLeaves
<1>1. ASSUME IInv, [Next]_vars, NEW h \in Handlers, Gone(h) PROVE Leaving(h)
  <2>1. CASE UNCHANGED <<peer, unread, pc, fd>>
    BY <1>1, <2>1, NotTouched
  <2>2. CASE Ended \/ UNCHANGED vars
    BY <2>1, <2>2 DEF Ended, vars
  <2>3. ASSUME NEW g \in Handlers, HandlerStep(g) PROVE Leaving(h)
    BY <1>1, <2>3, OwnStepLeaves, OthersDoNotTouch
  <2>4. CASE MainStep \/ ClientStep
    BY <1>1, <2>4, OthersDoNotTouch
  <2> QED BY <1>1, <2>2, <2>3, <2>4 DEF Next
<1>2. IInv /\ [Next]_vars =>
        [\A h \in Handlers : Gone(h) => Leaving(h)]_vars
  BY <1>1
<1>3. [][\A h \in Handlers : Gone(h) => Leaving(h)]_vars <=> GoneClientLeaves
  BY DEF GoneClientLeaves, Leaving
<1> QED BY <1>2, <1>3, Invariant, PTL DEF Spec

==============================================================================
