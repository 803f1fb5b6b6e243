-------------------------- MODULE ThreadServerProofs --------------------------
(***************************************************************************)
(* Proofs about ThreadServer, for every number of threads, descriptors,    *)
(* slots and accounts.                                                     *)
(***************************************************************************)
EXTENDS ThreadServer, SequenceTheorems, TLAPS

\* Where name[h] is an account that may log in: from the check to the copy.
Choosing == {"check", "scan", "compare", "grant", "swap", "alloc", "copy"}

\* Where the session is marked as logged in and has no name yet.
Renaming == {"swap", "alloc", "copy"}

\* Inside is_account_logged_in().
Scanning == {"scan", "compare"}

\* What a thread knows by where it is.
ThreadOK(h) ==
  /\ pc[h] \notin {"none", "gone"} => fd[h] \in Fds
  /\ pc[h] \in Choosing => name[h] \in Accounts \ Locked
  /\ pc[h] \in Choosing => (logged_in[h] <=> pc[h] \in Renaming)
  /\ pc[h] \in Renaming \/ (~logged_in[h] /\ pc[h] # "drop") => username[h] \notin Accounts
  /\ pc[h] \in Scanning <=> mutex = h
  /\ pc[h] = "scan" => pos[h] # 0
  /\ pc[h] = "compare" => pos[h] \in DOMAIN sessions

\* The part of the invariant that holds whatever an unassigned sockfd contains.
Base == TypeOK /\ ListIsExact /\ \A h \in Handlers : ThreadOK(h)

-----------------------------------------------------------------------------
(* The ranges. *)

\* Taking a line consumes one and leaves the ranges.
LEMMA TakeLineType ==
  ASSUME Base, NEW h \in Handlers, NEW to \in Points, TakeLine(h, to)
  PROVE  pc' \in [Handlers -> Points] /\ unread' \in [Fds -> 0..MaxUnread]
<1>1. pc' \in [Handlers -> Points]
  BY DEF Base, TypeOK, TakeLine, Goto
<1>2. fd[h] \in Fds
  BY DEF Base, ThreadOK, TakeLine, Goto
<1>3. unread[fd[h]] \in 0..MaxUnread /\ unread[fd[h]] > 0
  BY <1>2 DEF Base, TypeOK, TakeLine
<1>4. unread[fd[h]] - 1 \in 0..MaxUnread
  BY <1>3, ThreadAssumption
<1> QED BY <1>1, <1>2, <1>4 DEF Base, TypeOK, TakeLine

\* A response leaves the state of the connection and of the process in range.
LEMMA SendType ==
  ASSUME TypeOK, NEW f \in Fds, Send(f)
  PROVE  /\ fate' \in {"running", "sigpipe", "segv", "exit"}
         /\ peer' \in [Fds -> {"free", "up", "down", "reset"}]
BY DEF TypeOK, Send

\* A shorter list is a list.
LEMMA ShiftedType ==
  ASSUME NEW k \in DOMAIN sessions, sessions \in Seq(Handlers)
  PROVE  /\ Shifted(k) \in Seq(Handlers)
         /\ Len(Shifted(k)) = Len(sessions) - 1
<1>1. Len(sessions) \in Nat /\ k \in 1..Len(sessions)
  OBVIOUS
<1>2. Len(sessions) - 1 \in Nat
  BY <1>1
<1>3. \A j \in 1..Len(sessions) - 1 :
         (IF j < k THEN sessions[j] ELSE sessions[j + 1]) \in Handlers
  BY <1>1
<1> DEFINE m == Len(sessions) - 1
<1>4. Shifted(k) \in [1..m -> Handlers]
  BY <1>3 DEF Shifted
<1>5. m \in Nat
  BY <1>2
<1> HIDE DEF m
<1>6. Shifted(k) \in Seq(Handlers) /\ Len(Shifted(k)) = m
  BY <1>4, <1>5
<1> QED BY <1>6 DEF m

\* No step of a thread leaves the ranges.
LEMMA HandlerType ==
  ASSUME Base, NEW h \in Handlers, HandlerStep(h)
  PROVE  TypeOK'
<1> USE DEF TypeOK, Goto, mainVars, scanVars, sessionVars
<1>a. TypeOK /\ \A f, t : Goto(h, f, t) /\ t \in Points => pc' \in [Handlers -> Points]
  BY DEF Base
<1>b. \A c \in Codes : Answer(h, c) => code' \in [Handlers -> Codes]
  BY <1>a DEF Answer
<1>c. "refused" \in Codes
  BY DEF Codes
<1>0. pc[h] \notin {"none", "gone"} => fd[h] \in Fds
  BY DEF Base, ThreadOK
<1>1. CASE Register(h)
  <2>1. sessions' \in Seq(Handlers) /\ Len(sessions') <= MaxSessions
    BY <1>a, <1>1, ThreadAssumption DEF Register
  <2> QED BY <1>a, <1>1, <2>1, ThreadAssumption DEF Register, Pointees, Points
<1>2. CASE CannotRegister(h) \/ RecvEnds(h)
  <2>1. pc' \in [Handlers -> Points]
    BY <1>a, <1>2 DEF CannotRegister, RecvEnds, Points
  <2>2. UNCHANGED <<fate, peer, unread, code, mainVars, scanVars, sessionVars>>
    BY <1>2 DEF CannotRegister, RecvEnds
  <2> QED BY <1>a, <2>1, <2>2
<1>3. CASE Welcome(h) \/ Reply(h) \/ SendBye(h)
  <2>1. pc' \in [Handlers -> Points]
    BY <1>a, <1>3 DEF Welcome, Reply, SendBye, Points
  <2>2. fd[h] \in Fds /\ Send(fd[h])
    BY <1>0, <1>3 DEF Welcome, Reply, SendBye
  <2>3. code' \in [Handlers -> Codes]
    BY <1>a, <1>3 DEF Welcome, Reply, SendBye, Answer, Codes
  <2>4. UNCHANGED <<unread, mainVars, scanVars, sessionVars>>
    BY <1>3 DEF Welcome, Reply, SendBye
  <2> QED BY <1>a, <2>1, <2>2, <2>3, <2>4, SendType
<1>4. CASE Command(h)
  <2>1. pc' \in [Handlers -> Points] /\ unread' \in [Fds -> 0..MaxUnread]
    <3>1. PICK to \in {"reply", "check", "bye"} : TakeLine(h, to)
      BY <1>4 DEF Command, RefuseUser, CheckUser, Post, UnknownCommand, Bye, ByeNotLoggedIn
    <3>2. to \in Points
      BY DEF Points
    <3> QED BY <3>1, <3>2, TakeLineType
  <2>2. code' \in [Handlers -> Codes] /\ name' \in [Handlers -> Names]
    <3>1. CASE RefuseUser(h)
      BY <1>a, <1>b, <1>c, <3>1 DEF RefuseUser
    <3>2. CASE \E n \in Accounts : CheckUser(h, n)
      BY <1>a, <3>2 DEF CheckUser, Names
    <3>3. CASE Post(h)
      BY <1>a, <3>3 DEF Post, Answer, Codes
    <3>4. CASE UnknownCommand(h) \/ ByeNotLoggedIn(h)
      BY <1>a, <1>b, <1>c, <3>4 DEF UnknownCommand, ByeNotLoggedIn
    <3>5. CASE Bye(h)
      BY <1>a, <3>5 DEF Bye
    <3> QED BY <1>4, <3>1, <3>2, <3>3, <3>4, <3>5 DEF Command
  <2>3. UNCHANGED <<fate, peer, mutex, sessions, pos, mainVars, sessionVars>>
    BY <1>4 DEF Command, RefuseUser, CheckUser, Post, UnknownCommand, Bye,
       ByeNotLoggedIn, TakeLine
  <2> QED BY <1>a, <2>1, <2>2, <2>3
<1>5. CASE LockForScan(h)
  <2>1. 1 \in 0..MaxSessions + 1
    BY ThreadAssumption
  <2> QED BY <1>a, <1>5, <2>1 DEF LockForScan, Points
<1>6. CASE Scan(h)
  <2>1. 0 \in 0..MaxSessions + 1 /\ Unknown \in Names
    BY ThreadAssumption DEF Names
  <2>2. pc[h] \in Scanning /\ pos[h] <= Len(sessions) => pos[h] + 1 \in 0..MaxSessions + 1
    BY <1>a, ThreadAssumption
  <2>3. CASE ScanFlags(h)
    <3>1. pos[h] + 1 \in 0..MaxSessions + 1
      BY <2>2, <2>3 DEF ScanFlags, Scanning
    <3>2. pos' \in [Handlers -> 0..MaxSessions + 1]
      BY <1>a, <2>3, <3>1 DEF ScanFlags
    <3>3. pc' \in [Handlers -> Points]
      BY <1>a, <2>3 DEF ScanFlags, Points
    <3>4. window' \in [Handlers -> SUBSET Handlers]
      <4>1. pos[h] \in 1..Len(sessions)
        BY <2>3 DEF ScanFlags, Base, ThreadOK
      <4>2. sessions[pos[h]] \in Handlers
        BY <1>a, <4>1
      <4>3. window[h] \cup {sessions[pos[h]]} \in SUBSET Handlers
        BY <1>a, <4>2
      <4>4. CASE pos' = pos
        BY <1>a, <2>3, <3>1, <4>4 DEF ScanFlags
      <4>5. CASE pos' # pos /\ logged_in[sessions[pos[h]]]
        <5>1. window' = [window EXCEPT ![h] = @ \cup {sessions[pos[h]]}]
          BY <2>3, <4>5 DEF ScanFlags
        <5> QED BY <1>a, <4>3, <5>1
      <4>6. CASE pos' # pos /\ ~logged_in[sessions[pos[h]]]
        <5>1. window' = [window EXCEPT ![h] = @]
          BY <2>3, <4>6 DEF ScanFlags
        <5> QED BY <1>a, <5>1
      <4> QED BY <4>4, <4>5, <4>6
    <3> QED BY <1>a, <2>3, <3>2, <3>3, <3>4 DEF ScanFlags
  <2>4. CASE CompareName(h)
    <3>1. pos[h] \in 1..Len(sessions)
      BY <2>4 DEF CompareName, Base, ThreadOK
    <3>2. pos[h] + 1 \in 0..MaxSessions + 1
      BY <1>a, <3>1, <2>2, <2>4 DEF CompareName, Scanning
    <3>3. pos' \in [Handlers -> 0..MaxSessions + 1]
      BY <1>a, <2>1, <2>4, <3>2 DEF CompareName
    <3>4. pc' \in [Handlers -> Points]
      BY <1>a, <2>4 DEF CompareName, Points
    <3>5. code' \in [Handlers -> Codes] /\ name' \in [Handlers -> Names]
      <4>1. \/ Answer(h, "refused") /\ Returns(h)
            \/ UNCHANGED <<name, code>>
        BY <2>4 DEF CompareName
      <4>2. CASE Answer(h, "refused") /\ Returns(h)
        BY <1>a, <1>b, <1>c, <2>1, <4>2 DEF Returns
      <4>3. CASE UNCHANGED <<name, code>>
        BY <1>a, <4>3
      <4> QED BY <4>1, <4>2, <4>3
    <3> QED BY <1>a, <2>4, <3>3, <3>4, <3>5 DEF CompareName
  <2>5. CASE CompareNull(h)
    <3>1. UNCHANGED <<peer, unread, pc, code, mainVars, scanVars, sessionVars>> /\ fate' = "segv"
      BY <2>5 DEF CompareNull
    <3> QED BY <1>a, <3>1
  <2>6. CASE ScanEnds(h)
    <3>1. pc' \in [Handlers -> Points] /\ pos' \in [Handlers -> 0..MaxSessions + 1]
      BY <1>a, <2>1, <2>6 DEF ScanEnds, Points
    <3> QED BY <1>a, <2>6, <3>1 DEF ScanEnds
  <2> QED BY <1>6, <2>3, <2>4, <2>5, <2>6 DEF Scan
<1>7. CASE SetLoggedIn(h) \/ FreeOldName(h) \/ AllocName(h) \/ DropName(h)
           \/ RenewName(h) \/ ClearLoggedIn(h)
  <2>1. pc' \in [Handlers -> Points]
    BY <1>a, <1>7 DEF SetLoggedIn, FreeOldName, AllocName, DropName, RenewName,
       ClearLoggedIn, Points
  <2>2. {Empty, Uninit, Freed, Null} \subseteq Pointees \ Locked
    BY ThreadAssumption DEF Pointees
  <2>3. username' \in [Handlers -> Pointees \ Locked]
    BY <1>a, <1>7, <2>2 DEF SetLoggedIn, FreeOldName, AllocName, DropName, RenewName,
       ClearLoggedIn
  <2>4. logged_in' \in [Handlers -> BOOLEAN] /\ window' \in [Handlers -> SUBSET Handlers]
    BY <1>a, <1>7 DEF SetLoggedIn, FreeOldName, AllocName, DropName, RenewName,
       ClearLoggedIn
  <2>5. UNCHANGED <<fate, peer, unread, mainVars, mutex, sessions, pos, sockfd, name, code>>
    BY <1>7 DEF SetLoggedIn, FreeOldName, AllocName, DropName, RenewName, ClearLoggedIn,
       Unlocked
  <2> QED BY <1>a, <2>1, <2>3, <2>4, <2>5
<1>8. CASE AllocNameFails(h)
  BY <1>a, <1>8, ThreadAssumption DEF AllocNameFails, Answer, Codes, Points, Unlocked, Returns, Names, Pointees
<1>9. CASE CopyName(h)
  <2>1. name[h] \in Pointees \ Locked /\ Unknown \in Names
    BY <1>9, ThreadAssumption DEF CopyName, Base, ThreadOK, Choosing, Pointees, Names
  <2>2. window' \in [Handlers -> SUBSET Handlers]
    BY <1>a, <1>9 DEF CopyName
  <2> QED BY <1>a, <1>9, <2>1, <2>2 DEF CopyName, Unlocked, Returns, Answer, Codes, Points
<1>10. CASE Unregister(h)
  <2>1. PICK k \in DOMAIN sessions : sessions' = Shifted(k)
    BY <1>10 DEF Unregister
  <2>2. sessions' \in Seq(Handlers) /\ Len(sessions') <= MaxSessions
    BY <1>a, <2>1, ShiftedType, ThreadAssumption
  <2> QED BY <1>a, <1>10, <2>2 DEF Unregister, Points
<1>11. CASE FreeSession(h)
  BY <1>a, <1>11, ThreadAssumption DEF FreeSession, Pointees, Points
<1>12. CASE CloseAndExit(h)
  <2>1. 0 \in 0..MaxUnread
    BY ThreadAssumption
  <2> QED BY <1>a, <1>12, <2>1 DEF CloseAndExit, Points
<1> QED
  BY <1>1, <1>2, <1>3, <1>4, <1>5, <1>6, <1>7, <1>8, <1>9, <1>10, <1>11, <1>12
     DEF HandlerStep

\* No step of main() or of a client leaves them.
LEMMA OthersType ==
  ASSUME TypeOK, MainStep \/ ClientStep \/ UNCHANGED vars
  PROVE  TypeOK'
<1> USE DEF TypeOK, Points, Goto, mainVars, scanVars, sessionVars
<1>1. ASSUME NEW f \in Fds, Accept(f) PROVE TypeOK'
  BY <1>1 DEF Accept
<1>2. CASE AcceptFails
  BY <1>2 DEF AcceptFails
<1>3. ASSUME NEW h \in Handlers, SpawnHandler(h) PROVE TypeOK'
  BY <1>3 DEF SpawnHandler
<1>4. CASE SpawnFails
  BY <1>4, ThreadAssumption DEF SpawnFails
<1>5. ASSUME NEW f \in Fds, ClientSends(f) PROVE TypeOK'
  <2>1. unread[f] + 1 \in 0..MaxUnread
    BY <1>5, ThreadAssumption DEF ClientSends
  <2> QED BY <1>5, <2>1 DEF ClientSends
<1>6. ASSUME NEW f \in Fds, ClientCloses(f) PROVE TypeOK'
  BY <1>6 DEF ClientCloses
<1>7. CASE UNCHANGED vars
  BY <1>7 DEF vars
<1> QED BY <1>1, <1>2, <1>3, <1>4, <1>5, <1>6, <1>7 DEF MainStep, ClientStep

-----------------------------------------------------------------------------
(* The list. *)

\* Listing a thread that is not listed, or taking away the entry of one that is,
\* leaves the list exact; steps that do neither leave it alone.
LEMMA ListKeeps ==
  ASSUME Base, [Next]_vars
  PROVE  ListIsExact'
<1>1. /\ sessions \in Seq(Handlers) /\ pc \in [Handlers -> Points]
      /\ ListIsExact
  BY DEF Base, TypeOK
<1>2. ASSUME NEW h \in Handlers, Register(h) PROVE ListIsExact'
  <2>1. /\ DOMAIN sessions = 1..Len(sessions) /\ Len(sessions) \in Nat
        /\ DOMAIN sessions' = 1..Len(sessions) + 1
        /\ sessions'[Len(sessions) + 1] = h
        /\ \A k \in DOMAIN sessions : sessions'[k] = sessions[k]
    BY <1>1, <1>2 DEF Register
  <2>2. \A k \in DOMAIN sessions : sessions[k] # h
    BY <1>1, <1>2 DEF ListIsExact, Listed, Register, Goto
  <2>3. \A g \in Handlers : Listed(g)' <=> Listed(g) \/ g = h
    BY <1>1, <1>2 DEF Register, Goto, Listed
  <2>4. \A k \in DOMAIN sessions' : k \in DOMAIN sessions \/ k = Len(sessions) + 1
    BY <2>1
  <2>5. DOMAIN sessions \subseteq DOMAIN sessions' /\ Len(sessions) + 1 \in DOMAIN sessions'
    BY <2>1
  <2>6. \A g \in Handlers :
          Listed(g)' <=> \E k \in DOMAIN sessions' : sessions'[k] = g
    BY <1>1, <2>1, <2>3, <2>4, <2>5 DEF ListIsExact
  <2>7. \A j, k \in DOMAIN sessions' : sessions'[j] = sessions'[k] => j = k
    BY <1>1, <2>1, <2>2, <2>4 DEF ListIsExact
  <2> QED BY <2>6, <2>7 DEF ListIsExact
<1>3. ASSUME NEW h \in Handlers, Unregister(h) PROVE ListIsExact'
  <2>1. PICK i \in DOMAIN sessions : sessions[i] = h /\ sessions' = Shifted(i)
    BY <1>3 DEF Unregister
  <2>2. /\ DOMAIN sessions = 1..Len(sessions) /\ Len(sessions) \in Nat
        /\ DOMAIN sessions' = 1..Len(sessions) - 1
    BY <1>1, <2>1 DEF Shifted
  <2>3. \A k \in DOMAIN sessions' :
          /\ k < i => k \in DOMAIN sessions /\ sessions'[k] = sessions[k]
          /\ ~(k < i) => k + 1 \in DOMAIN sessions /\ sessions'[k] = sessions[k + 1]
    BY <2>1, <2>2 DEF Shifted
  <2>4. \A g \in Handlers : Listed(g)' <=> Listed(g) /\ g # h
    BY <1>1, <1>3 DEF Unregister, Goto, Listed
  <2>5. ASSUME NEW k \in DOMAIN sessions, k # i
        PROVE  \E j \in DOMAIN sessions' : sessions'[j] = sessions[k]
    <3>1. CASE k < i
      BY <2>2, <2>3, <3>1
    <3>2. CASE ~(k < i)
      <4>1. k - 1 \in DOMAIN sessions' /\ ~(k - 1 < i) /\ (k - 1) + 1 = k
        BY <2>2, <2>5, <3>2
      <4> QED BY <2>3, <4>1
    <3> QED BY <3>1, <3>2
  <2>6. \A k \in DOMAIN sessions' : sessions'[k] # h
    <3> TAKE k \in DOMAIN sessions'
    <3>1. CASE k < i
      BY <1>1, <2>1, <2>2, <2>3, <3>1 DEF ListIsExact
    <3>2. CASE ~(k < i)
      <4>1. k + 1 # i
        BY <2>2, <3>2
      <4> QED BY <1>1, <2>1, <2>3, <3>2, <4>1 DEF ListIsExact
    <3> QED BY <3>1, <3>2
  <2>7. \A g \in Handlers :
          Listed(g)' <=> \E k \in DOMAIN sessions' : sessions'[k] = g
    BY <1>1, <2>1, <2>3, <2>4, <2>5, <2>6 DEF ListIsExact
  <2>8. \A j, k \in DOMAIN sessions' : sessions'[j] = sessions'[k] => j = k
    <3> TAKE j, k \in DOMAIN sessions'
    <3> HAVE sessions'[j] = sessions'[k]
    <3> DEFINE old(m) == IF m < i THEN m ELSE m + 1
    <3>1. old(j) \in DOMAIN sessions /\ old(k) \in DOMAIN sessions
      BY <2>3
    <3>2. sessions[old(j)] = sessions[old(k)]
      BY <2>3
    <3>3. old(j) = old(k)
      BY <1>1, <3>1, <3>2 DEF ListIsExact
    <3> QED BY <2>2, <3>3
  <2> QED BY <2>7, <2>8 DEF ListIsExact
<1>4. ASSUME UNCHANGED sessions, \A g \in Handlers : Listed(g)' <=> Listed(g)
      PROVE  ListIsExact'
  BY <1>1, <1>4 DEF ListIsExact
<1>5. ASSUME NEW h \in Handlers, HandlerStep(h), ~Register(h), ~Unregister(h)
      PROVE  ListIsExact'
  <2>1. UNCHANGED sessions
    BY <1>5 DEF HandlerStep, CannotRegister, Welcome, Command, RefuseUser, CheckUser,
       Post, UnknownCommand, Bye, ByeNotLoggedIn, TakeLine, Reply, LockForScan, Scan,
       ScanFlags, CompareName, CompareNull, ScanEnds, SetLoggedIn, FreeOldName,
       AllocName, AllocNameFails, CopyName, SendBye, ClearLoggedIn, DropName,
       RenewName, RecvEnds, FreeSession, CloseAndExit, scanVars, Unlocked
  <2>2. \A g \in Handlers : Listed(g)' <=> Listed(g)
    <3>1. \A g \in Handlers \ {h} : pc'[g] = pc[g]
      BY <1>1, <1>5 DEF HandlerStep, CannotRegister, Welcome, Command, RefuseUser,
         CheckUser, Post, UnknownCommand, Bye, ByeNotLoggedIn, TakeLine, Reply,
         LockForScan, Scan, ScanFlags, CompareName, CompareNull, ScanEnds, SetLoggedIn,
         FreeOldName, AllocName, AllocNameFails, CopyName, SendBye, ClearLoggedIn,
         DropName, RenewName, RecvEnds, FreeSession, CloseAndExit, Goto
    <3>2. Listed(h)' <=> Listed(h)
      <4>1. CASE CannotRegister(h) \/ FreeSession(h) \/ CloseAndExit(h)
        BY <1>1, <4>1 DEF CannotRegister, FreeSession, CloseAndExit, Goto, Listed
      <4>2. CASE Command(h)
        BY <1>1, <4>2 DEF Command, RefuseUser, CheckUser, Post, UnknownCommand, Bye,
           ByeNotLoggedIn, TakeLine, Goto, Listed
      <4>3. CASE Scan(h)
        BY <1>1, <4>3 DEF Scan, ScanFlags, CompareName, CompareNull, ScanEnds, Goto, Listed
      <4>4. CASE Welcome(h) \/ Reply(h) \/ LockForScan(h) \/ SetLoggedIn(h)
                 \/ FreeOldName(h) \/ AllocName(h) \/ AllocNameFails(h) \/ CopyName(h)
        BY <1>1, <4>4 DEF Welcome, Reply, LockForScan, SetLoggedIn, FreeOldName,
           AllocName, AllocNameFails, CopyName, Goto, Listed
      <4>5. CASE SendBye(h) \/ ClearLoggedIn(h) \/ DropName(h) \/ RenewName(h)
                 \/ RecvEnds(h)
        BY <1>1, <4>5 DEF SendBye, ClearLoggedIn, DropName, RenewName, RecvEnds, Goto,
           Listed
      <4> QED BY <1>5, <4>1, <4>2, <4>3, <4>4, <4>5 DEF HandlerStep
    <3> QED BY <3>1, <3>2 DEF Listed
  <2> QED BY <1>4, <2>1, <2>2
<1>6. CASE MainStep \/ ClientStep \/ UNCHANGED vars
  <2>1. UNCHANGED sessions
    BY <1>6 DEF MainStep, ClientStep, Accept, AcceptFails, SpawnHandler, SpawnFails,
       ClientSends, ClientCloses, scanVars, vars
  <2>2. \A g \in Handlers : Listed(g)' <=> Listed(g)
    BY <1>1, <1>6 DEF MainStep, ClientStep, Accept, AcceptFails, SpawnHandler,
       SpawnFails, ClientSends, ClientCloses, vars, Goto, Listed
  <2> QED BY <1>4, <2>1, <2>2
<1> QED BY <1>2, <1>3, <1>5, <1>6 DEF Next, HandlerStep, Ended

-----------------------------------------------------------------------------
(* What a thread knows. *)

\* A step of one thread tells the others nothing: what a thread knows is about its own
\* variables, the mutex and, while it scans, a list that nobody may change.
SameThread(g) ==
  /\ pc'[g] = pc[g] /\ fd'[g] = fd[g] /\ name'[g] = name[g] /\ pos'[g] = pos[g]
  /\ logged_in'[g] = logged_in[g] /\ username'[g] = username[g]

\* A thread keeps what it knows when nothing of it changes, the mutex does not become
\* its own or stop to be, and the list stays while it scans.
LEMMA SameThreadKeeps ==
  ASSUME NEW g \in Handlers, ThreadOK(g), SameThread(g),
         mutex' = g <=> mutex = g,
         mutex = g => sessions' = sessions
  PROVE  ThreadOK(g)'
BY DEF ThreadOK, SameThread, Choosing, Renaming, Scanning

\* Each step leaves its thread where it knows what it has to know there.
LEMMA OwnKnowledge ==
  ASSUME Base, NEW h \in Handlers, HandlerStep(h)
  PROVE  ThreadOK(h)'
<1> USE DEF Goto
<1>1. /\ pc \in [Handlers -> Points] /\ name \in [Handlers -> Names]
      /\ fd \in [Handlers -> Fds \cup {NoFd}]
      /\ logged_in \in [Handlers -> BOOLEAN]
      /\ username \in [Handlers -> Pointees \ Locked]
      /\ pos \in [Handlers -> 0..MaxSessions + 1]
      /\ sessions \in Seq(Handlers)
      /\ ThreadOK(h)
  BY DEF Base, TypeOK
<1>2. h # Nobody /\ {Empty, Uninit, Freed, Null} \cap Accounts = {}
  BY ThreadAssumption
<1> USE DEF ThreadOK, Choosing, Renaming, Scanning, mainVars, scanVars, sessionVars
<1>3. CASE Register(h) \/ CannotRegister(h)
  BY <1>1, <1>2, <1>3 DEF Register, CannotRegister
<1>4. CASE Welcome(h) \/ Reply(h) \/ SendBye(h) \/ RecvEnds(h)
  BY <1>1, <1>2, <1>4 DEF Welcome, Reply, SendBye, RecvEnds
<1>5. CASE Command(h)
  <2>1. CASE \E n \in Accounts : CheckUser(h, n)
    BY <1>1, <1>2, <2>1 DEF CheckUser, TakeLine
  <2>2. CASE RefuseUser(h) \/ Post(h) \/ UnknownCommand(h) \/ Bye(h) \/ ByeNotLoggedIn(h)
    <3>1. /\ pc[h] = "serve" /\ pc'[h] \in {"reply", "bye"}
          /\ UNCHANGED <<mutex, sessions, pos, mainVars, sessionVars, name>>
      BY <1>1, <2>2 DEF RefuseUser, Post, UnknownCommand, Bye, ByeNotLoggedIn, TakeLine
    <3> QED BY <1>1, <3>1
  <2> QED BY <1>5, <2>1, <2>2 DEF Command
<1>6. CASE LockForScan(h)
  BY <1>1, <1>2, <1>6 DEF LockForScan
<1>7. CASE Scan(h)
  <2>1. CASE ScanFlags(h)
    <3>1. pos[h] \in Nat /\ pos[h] # 0 /\ Len(sessions) \in Nat
      BY <1>1, <2>1 DEF ScanFlags
    <3>2. pos[h] + 1 # 0
      BY <3>1
    <3>3. pos[h] <= Len(sessions) => pos[h] \in DOMAIN sessions
      BY <1>1, <3>1
    <3> QED BY <1>1, <2>1, <3>2, <3>3 DEF ScanFlags
  <2>2. CASE CompareName(h)
    <3>1. pos[h] + 1 # 0
      BY <1>1
    <3> QED BY <1>1, <1>2, <2>2, <3>1 DEF CompareName, Returns
  <2>3. CASE CompareNull(h)
    BY <1>1, <2>3 DEF CompareNull
  <2>4. CASE ScanEnds(h)
    BY <1>1, <1>2, <2>4 DEF ScanEnds
  <2> QED BY <1>7, <2>1, <2>2, <2>3, <2>4 DEF Scan
<1>8. CASE SetLoggedIn(h) \/ FreeOldName(h) \/ AllocName(h) \/ AllocNameFails(h)
  BY <1>1, <1>2, <1>8 DEF SetLoggedIn, FreeOldName, AllocName, AllocNameFails, Unlocked, Returns
<1>9. CASE CopyName(h)
  BY <1>1, <1>2, <1>9 DEF CopyName, Unlocked, Returns
<1>10. CASE ClearLoggedIn(h) \/ DropName(h) \/ RenewName(h)
  BY <1>1, <1>2, <1>10 DEF ClearLoggedIn, DropName, RenewName, Unlocked
<1>11. CASE Unregister(h) \/ FreeSession(h) \/ CloseAndExit(h)
  BY <1>1, <1>2, <1>11 DEF Unregister, FreeSession, CloseAndExit
<1> QED
  BY <1>3, <1>4, <1>5, <1>6, <1>7, <1>8, <1>9, <1>10, <1>11 DEF HandlerStep

\* And it leaves the others alone.
LEMMA OthersKnowledge ==
  ASSUME Base, NEW h \in Handlers, HandlerStep(h), NEW g \in Handlers, g # h
  PROVE  /\ ThreadOK(g)' /\ SameThread(g) /\ sockfd'[g] = sockfd[g]
         /\ mutex = g => sessions' = sessions
<1>1. /\ pc \in [Handlers -> Points] /\ name \in [Handlers -> Names]
      /\ fd \in [Handlers -> Fds \cup {NoFd}]
      /\ logged_in \in [Handlers -> BOOLEAN]
      /\ username \in [Handlers -> Pointees \ Locked]
      /\ pos \in [Handlers -> 0..MaxSessions + 1]
      /\ sockfd \in [Handlers -> HeapFds \cup {NoFd}]
      /\ ThreadOK(g) /\ ThreadOK(h)
  BY DEF Base, TypeOK
<1>2. Nobody # g
  BY ThreadAssumption
<1> USE DEF Goto, mainVars, scanVars, sessionVars, Unlocked, Returns
<1>3. /\ SameThread(g) /\ sockfd'[g] = sockfd[g]
      /\ mutex' = g <=> mutex = g
      /\ mutex = g => sessions' = sessions
  <2>1. CASE Register(h) \/ CannotRegister(h) \/ Unregister(h) \/ FreeSession(h)
             \/ CloseAndExit(h) \/ RecvEnds(h)
    BY <1>1, <1>2, <2>1 DEF Register, CannotRegister, Unregister, FreeSession,
       CloseAndExit, RecvEnds, SameThread
  <2>2. CASE Welcome(h) \/ Reply(h) \/ SendBye(h) \/ LockForScan(h)
    BY <1>1, <1>2, <2>2 DEF Welcome, Reply, SendBye, LockForScan, SameThread
  <2>3. CASE Command(h)
    <3>1. \E to : TakeLine(h, to)
      BY <2>3 DEF Command, RefuseUser, CheckUser, Post, UnknownCommand, Bye, ByeNotLoggedIn
    <3>2. name'[g] = name[g]
      BY <1>1, <2>3 DEF Command, RefuseUser, CheckUser, Post, UnknownCommand, Bye,
         ByeNotLoggedIn
    <3> QED BY <1>1, <3>1, <3>2 DEF TakeLine, SameThread
  <2>4. CASE Scan(h)
    <3>1. pc[h] \in Scanning
      BY <2>4 DEF Scan, ScanFlags, CompareName, CompareNull, ScanEnds, Scanning
    <3>2. mutex = h
      BY <1>1, <3>1 DEF ThreadOK
    <3>3. mutex # g /\ mutex' \in {mutex, Nobody}
      BY <2>4, <3>2 DEF Scan, ScanFlags, CompareName, CompareNull, ScanEnds
    <3>4. pc'[g] = pc[g]
      BY <1>1, <2>4 DEF Scan, ScanFlags, CompareName, CompareNull, ScanEnds
    <3>5. name'[g] = name[g] /\ pos'[g] = pos[g]
      BY <1>1, <2>4 DEF Scan, ScanFlags, CompareName, CompareNull, ScanEnds
    <3>6. UNCHANGED <<mainVars, logged_in, username, sockfd>>
      BY <2>4 DEF Scan, ScanFlags, CompareName, CompareNull, ScanEnds, sessionVars
    <3> QED BY <1>1, <1>2, <3>3, <3>4, <3>5, <3>6 DEF SameThread
  <2>5. CASE SetLoggedIn(h) \/ FreeOldName(h) \/ AllocName(h) \/ AllocNameFails(h)
             \/ CopyName(h)
    <3>1. CASE SetLoggedIn(h) \/ FreeOldName(h) \/ AllocName(h)
      BY <1>1, <3>1 DEF SetLoggedIn, FreeOldName, AllocName, SameThread
    <3>2. CASE AllocNameFails(h)
      BY <1>1, <3>2 DEF AllocNameFails, SameThread
    <3>3. CASE CopyName(h)
      BY <1>1, <3>3 DEF CopyName, SameThread
    <3> QED BY <2>5, <3>1, <3>2, <3>3
  <2>6. CASE ClearLoggedIn(h) \/ DropName(h) \/ RenewName(h)
    BY <1>1, <2>6 DEF ClearLoggedIn, DropName, RenewName, SameThread
  <2> QED BY <2>1, <2>2, <2>3, <2>4, <2>5, <2>6 DEF HandlerStep
<1> QED BY <1>1, <1>3, SameThreadKeeps

\* Neither main() nor a client tells a thread anything, but a new one its descriptor.
LEMMA MainKnowledge ==
  ASSUME Base, MainStep \/ ClientStep \/ UNCHANGED vars, NEW g \in Handlers
  PROVE  ThreadOK(g)'
<1>1. /\ pc \in [Handlers -> Points] /\ fd \in [Handlers -> Fds \cup {NoFd}]
      /\ pending \in Fds \cup {NoFd}
      /\ ThreadOK(g)
  BY DEF Base, TypeOK
<1> USE DEF mainVars, scanVars, sessionVars
<1>2. ASSUME NEW h \in Handlers, SpawnHandler(h) PROVE ThreadOK(g)'
  <2>1. CASE g = h
    BY <1>1, <1>2, <2>1 DEF SpawnHandler, Goto, ThreadOK, Choosing, Renaming, Scanning
  <2>2. CASE g # h
    <3>1. SameThread(g) /\ UNCHANGED <<mutex, sessions>>
      BY <1>1, <1>2, <2>2 DEF SpawnHandler, Goto, SameThread
    <3> QED BY <1>1, <3>1, SameThreadKeeps
  <2> QED BY <2>1, <2>2
<1>3. ASSUME ~\E h \in Handlers : SpawnHandler(h) PROVE ThreadOK(g)'
  <2>1. SameThread(g) /\ UNCHANGED <<mutex, sessions>>
    BY <1>3 DEF MainStep, ClientStep, Accept, AcceptFails, SpawnFails, ClientSends,
       ClientCloses, vars, SameThread
  <2> QED BY <1>1, <2>1, SameThreadKeeps
<1> QED BY <1>2, <1>3

-----------------------------------------------------------------------------
(* The theorems that hold whatever an unassigned sockfd contains. *)

\* At the start no thread is there and the list is empty.
LEMMA InitBase == Init => Base
<1> SUFFICES ASSUME Init PROVE Base
  OBVIOUS
<1>1. TypeOK
  <2>1. sessions \in Seq(Handlers) /\ Len(sessions) = 0
    BY DEF Init
  <2> QED BY <2>1, ThreadAssumption DEF Init, TypeOK, Points, Codes, Names, Pointees
<1>2. ListIsExact
  BY DEF Init, ListIsExact, Listed
<1>3. \A h \in Handlers : ThreadOK(h)
  BY ThreadAssumption DEF Init, ThreadOK, Choosing, Renaming, Scanning
<1> QED BY <1>1, <1>2, <1>3 DEF Base

\* Every step keeps it.
LEMMA NextBase == Base /\ [Next]_vars => Base'
<1> SUFFICES ASSUME Base, [Next]_vars PROVE Base'
  OBVIOUS
<1>1. CASE \E h \in Handlers : HandlerStep(h)
  BY <1>1, HandlerType, ListKeeps, OwnKnowledge, OthersKnowledge DEF Base
<1>2. CASE MainStep \/ ClientStep \/ UNCHANGED vars
  BY <1>2, OthersType, ListKeeps, MainKnowledge DEF Base
<1> QED BY <1>1, <1>2 DEF Next, Ended

\* Base is an invariant.
LEMMA BaseHolds == Spec => []Base
BY InitBase, NextBase, PTL DEF Spec

\* TypeOK holds in every state: sessions[] never grows past MAX_SESSIONS, and a
\* username is an account that is not locked, or memory that holds none.
THEOREM ThreadTyping == Spec => []TypeOK
BY BaseHolds, PTL DEF Base

\* sessions[] holds each live session once and no session that was freed.
THEOREM ListIsExactHolds == Spec => []ListIsExact
BY BaseHolds, PTL DEF Base

\* A thread that holds the mutex is in the loop of is_account_logged_in().
THEOREM MutexIsReleasedHolds == Spec => []MutexIsReleased
<1>1. Base => MutexIsReleased
  BY DEF Base, TypeOK, ThreadOK, Scanning, MutexIsReleased
<1> QED BY <1>1, BaseHolds, PTL

-----------------------------------------------------------------------------
(* Two logins to one account. *)

\* From the lock to the copy: where a login of somebody else is put on record.
Watching == Scanning \cup {"grant"} \cup Renaming

\* Client h has still to look at the session of g.
Ahead(g, h) ==
  pc[h] \in Scanning /\ \E k \in DOMAIN sessions : pos[h] <= k /\ sessions[k] = g

\* Whoever is logged in to the account that h is after came while h was at it, or was
\* taken for h itself, or h will meet him in its loop.
ScanFinds ==
  \A g, h \in Handlers :
    g # h /\ pc[h] \in Watching /\ LoggedInAs(g, name[h]) =>
      g \in window[h] \/ Ahead(g, h)

\* DoubleLoginNeedsOverlap is inductive with this and Base: the flag, the old name
\* and the new one are written in an order that shows no name of an earlier login.
OverlapInv == Base /\ ScanFinds /\ DoubleLoginNeedsOverlap

\* Only the copy of the name makes a login visible.
LEMMA LoginIsCopy ==
  ASSUME Base, NEW h \in Handlers, HandlerStep(h), NEW g \in Handlers, NEW n \in Accounts,
         LoggedInAs(g, n)', ~LoggedInAs(g, n)
  PROVE  g = h /\ CopyName(h) /\ n = name[h]
<1>1. g = h
  BY OthersKnowledge DEF LoggedInAs, Listed, SameThread
<1>2. /\ pc \in [Handlers -> Points] /\ logged_in \in [Handlers -> BOOLEAN]
      /\ username \in [Handlers -> Pointees \ Locked] /\ ThreadOK(h)
  BY DEF Base, TypeOK
<1>3. n \notin {Empty, Uninit, Freed, Null}
  BY ThreadAssumption
<1> USE DEF Goto, LoggedInAs, Listed, mainVars, scanVars, sessionVars, Unlocked
<1>4. ~(Register(h) \/ CannotRegister(h) \/ FreeSession(h) \/ CloseAndExit(h) \/ Unregister(h))
  BY <1>1, <1>2, <1>3 DEF Register, CannotRegister, FreeSession, CloseAndExit, Unregister
<1>5. ~(Welcome(h) \/ Reply(h) \/ SendBye(h) \/ RecvEnds(h) \/ LockForScan(h))
  BY <1>1, <1>2 DEF Welcome, Reply, SendBye, RecvEnds, LockForScan
<1>6. ~Command(h)
  <2>1. SUFFICES ASSUME Command(h) PROVE FALSE
    OBVIOUS
  <2>2. pc[h] = "serve" /\ UNCHANGED <<logged_in, username>>
    BY <2>1 DEF Command, RefuseUser, CheckUser, Post, UnknownCommand, Bye, ByeNotLoggedIn,
       TakeLine
  <2> QED BY <1>1, <2>2
<1>7. ~Scan(h)
  <2>1. SUFFICES ASSUME Scan(h) PROVE FALSE
    OBVIOUS
  <2>2. pc[h] \in {"scan", "compare"} /\ UNCHANGED <<logged_in, username>>
    BY <2>1 DEF Scan, ScanFlags, CompareName, CompareNull, ScanEnds
  <2> QED BY <1>1, <2>2
<1>8. ~(SetLoggedIn(h) \/ FreeOldName(h) \/ AllocName(h) \/ AllocNameFails(h))
  BY <1>1, <1>2, <1>3 DEF SetLoggedIn, FreeOldName, AllocName, AllocNameFails, ThreadOK,
     Choosing, Renaming
<1>9. ~(ClearLoggedIn(h) \/ DropName(h) \/ RenewName(h))
  BY <1>1, <1>2, <1>3 DEF ClearLoggedIn, DropName, RenewName
<1>10. CopyName(h)
  BY <1>4, <1>5, <1>6, <1>7, <1>8, <1>9 DEF HandlerStep
<1> QED BY <1>1, <1>2, <1>10 DEF CopyName

\* What was put on record stays there for as long as it is asked for.
LEMMA WindowGrows ==
  ASSUME Base, NEW h \in Handlers, HandlerStep(h), NEW x \in Handlers
  PROVE  \/ window[x] \subseteq window'[x]
         \/ x = h /\ \A n \in Accounts : ~LoggedInAs(h, n)'
<1>1. /\ window \in [Handlers -> SUBSET Handlers] /\ logged_in \in [Handlers -> BOOLEAN]
      /\ ThreadOK(h)
  BY DEF Base, TypeOK
<1>2. CASE UNCHANGED window
  BY <1>2
<1>3. CASE LockForScan(h)
  <2>1. ~logged_in'[h]
    BY <1>1, <1>3 DEF LockForScan, Goto, ThreadOK, Choosing, Renaming
  <2> QED BY <1>1, <1>3, <2>1 DEF LockForScan, LoggedInAs
<1>4. CASE ClearLoggedIn(h) \/ FreeSession(h)
  BY <1>1, <1>4 DEF ClearLoggedIn, FreeSession, LoggedInAs
<1>5. CASE CopyName(h)
  BY <1>1, <1>5 DEF CopyName
<1>6. CASE ScanFlags(h)
  BY <1>1, <1>6 DEF ScanFlags
<1>7. \/ UNCHANGED window
      \/ LockForScan(h) \/ ScanFlags(h) \/ ClearLoggedIn(h) \/ FreeSession(h) \/ CopyName(h)
  BY DEF HandlerStep, Register, CannotRegister, Welcome, Command, RefuseUser, CheckUser,
     Post, UnknownCommand, Bye, ByeNotLoggedIn, TakeLine, Reply, Scan,
     CompareName, CompareNull, ScanEnds, SetLoggedIn, FreeOldName, AllocName,
     AllocNameFails, SendBye, DropName, RenewName, RecvEnds, Unregister, CloseAndExit,
     sessionVars
<1> QED BY <1>2, <1>3, <1>4, <1>5, <1>6, <1>7

\* The loop of h leaves nobody out who is logged in to the account h is after: a session
\* whose sockfd happens to be the descriptor of h goes on record.
LEMMA LoopFinds ==
  ASSUME OverlapInv, NEW h \in Handlers, HandlerStep(h),
         NEW g \in Handlers, g # h, pc'[h] \in Watching, LoggedInAs(g, name[h])'
  PROVE  g \in window'[h] \/ Ahead(g, h)'
<1>1. /\ pc \in [Handlers -> Points] /\ name \in [Handlers -> Names]
      /\ pos \in [Handlers -> 0..MaxSessions + 1]
      /\ fd \in [Handlers -> Fds \cup {NoFd}]
      /\ sockfd \in [Handlers -> HeapFds \cup {NoFd}]
      /\ window \in [Handlers -> SUBSET Handlers]
      /\ sessions \in Seq(Handlers)
      /\ ThreadOK(h) /\ ThreadOK(h)' /\ ListIsExact
  BY OwnKnowledge DEF OverlapInv, Base, TypeOK
<1>2. name'[h] \in Accounts
  BY <1>1 DEF ThreadOK, Watching, Scanning, Renaming, Choosing
<1>3. LoggedInAs(g, name'[h])
  <2>1. PICK n \in Accounts : n = name'[h]
    BY <1>2
  <2>2. LoggedInAs(g, n)'
    BY <2>1 DEF LoggedInAs
  <2> QED BY <2>1, <2>2, LoginIsCopy DEF OverlapInv
<1> USE DEF Goto
<1>4. CASE LockForScan(h)
  <2>1. PICK k \in DOMAIN sessions : sessions[k] = g
    BY <1>1, <1>3 DEF ListIsExact, LoggedInAs
  <2>2. k \in Nat /\ 1 <= k
    BY <1>1
  <2> QED BY <1>1, <1>4, <2>1, <2>2 DEF LockForScan, Ahead, Scanning
<1>5. CASE ScanFlags(h)
  <2>1. name'[h] = name[h] /\ window[h] \subseteq window'[h] /\ sessions' = sessions
    BY <1>1, <1>5 DEF ScanFlags
  <2>2. g \in window[h] \/ Ahead(g, h)
    BY <1>3, <1>5, <2>1 DEF OverlapInv, ScanFinds, ScanFlags, Watching, Scanning
  <2>3. ASSUME NEW k \in DOMAIN sessions, pos[h] <= k, sessions[k] = g
        PROVE  g \in window'[h] \/ Ahead(g, h)'
    <3>1. CASE pos' = pos
      BY <1>1, <1>5, <2>1, <2>3, <3>1 DEF ScanFlags, Ahead, Scanning
    <3>2. CASE pos' # pos
      <4>1. pos'[h] = pos[h] + 1 /\ pc'[h] = "scan"
        BY <1>1, <1>5, <3>2 DEF ScanFlags
      <4>2. CASE k = pos[h]
        <5>1. logged_in[g]
          BY <1>3 DEF LoggedInAs
        <5> QED BY <1>1, <1>5, <2>3, <3>2, <4>2, <5>1 DEF ScanFlags
      <4>3. CASE k # pos[h]
        <5>1. pos'[h] <= k
          BY <1>1, <2>3, <4>1, <4>3
        <5> QED BY <2>1, <2>3, <4>1, <5>1 DEF Ahead, Scanning
      <4> QED BY <4>2, <4>3
    <3> QED BY <3>1, <3>2
  <2> QED BY <2>1, <2>2, <2>3 DEF Ahead
<1>6. CASE CompareName(h)
  <2>1. /\ name'[h] = name[h] /\ window'[h] = window[h] /\ sessions' = sessions
        /\ FALSE \in SameName(sessions[pos[h]], name[h])
        /\ pos'[h] = pos[h] + 1 /\ pc'[h] = "scan"
    BY <1>1, <1>6 DEF CompareName, sessionVars, Watching, Scanning, Renaming
  <2>2. g \in window[h] \/ Ahead(g, h)
    BY <1>3, <1>6, <2>1 DEF OverlapInv, ScanFinds, CompareName, Watching, Scanning
  <2>3. sessions[pos[h]] # g
    BY <1>2, <1>3, <2>1, ThreadAssumption DEF SameName, LoggedInAs
  <2>4. ASSUME NEW k \in DOMAIN sessions, pos[h] <= k, sessions[k] = g
        PROVE  Ahead(g, h)'
    <3>1. pos'[h] <= k
      BY <1>1, <2>1, <2>3, <2>4
    <3> QED BY <2>1, <2>4, <3>1 DEF Ahead, Scanning
  <2> QED BY <2>1, <2>2, <2>4 DEF Ahead
<1>7. CASE CompareNull(h)
  <2>1. UNCHANGED <<pc, scanVars, sessionVars>> /\ pc[h] = "compare"
    BY <1>7 DEF CompareNull
  <2> QED BY <1>3, <2>1 DEF OverlapInv, ScanFinds, Ahead, Watching, Scanning, scanVars,
                            sessionVars
<1>8. CASE ScanEnds(h)
  <2>1. name'[h] = name[h] /\ window'[h] = window[h] /\ pc[h] = "scan"
    BY <1>8 DEF ScanEnds, sessionVars
  <2>2. g \in window[h] \/ Ahead(g, h)
    BY <1>3, <2>1 DEF OverlapInv, ScanFinds, Watching, Scanning
  <2>3. ~Ahead(g, h)
    BY <1>1, <1>8 DEF ScanEnds, Ahead
  <2> QED BY <2>1, <2>2, <2>3
<1>9. CASE SetLoggedIn(h) \/ FreeOldName(h) \/ AllocName(h)
  <2>1. /\ name'[h] = name[h] /\ window'[h] = window[h]
        /\ pc[h] \in {"grant", "swap", "alloc"}
    BY <1>9 DEF SetLoggedIn, FreeOldName, AllocName
  <2> QED BY <1>3, <2>1 DEF OverlapInv, ScanFinds, Ahead, Watching, Scanning, Renaming
<1> USE DEF Watching, Scanning, Renaming
<1>10. ~Command(h)
  BY <1>1 DEF Command, RefuseUser, CheckUser, Post, UnknownCommand, Bye, ByeNotLoggedIn,
     TakeLine
<1>11. ~(Register(h) \/ CannotRegister(h) \/ Welcome(h) \/ Reply(h) \/ SendBye(h)
         \/ RecvEnds(h) \/ Unregister(h) \/ FreeSession(h) \/ CloseAndExit(h))
  BY <1>1 DEF Register, CannotRegister, Welcome, Reply, SendBye, RecvEnds, Unregister,
     FreeSession, CloseAndExit
<1>12. ~(AllocNameFails(h) \/ CopyName(h) \/ ClearLoggedIn(h) \/ DropName(h) \/ RenewName(h))
  BY <1>1 DEF AllocNameFails, CopyName, ClearLoggedIn, DropName, RenewName
<1> QED
  BY <1>4, <1>5, <1>6, <1>7, <1>8, <1>9, <1>10, <1>11, <1>12 DEF HandlerStep, Scan

\* A login elsewhere is put on record, and the list does not move under the loop.
LEMMA OthersFound ==
  ASSUME OverlapInv, NEW h \in Handlers, HandlerStep(h),
         NEW x \in Handlers, x # h, NEW g \in Handlers, g # x,
         pc'[x] \in Watching, LoggedInAs(g, name[x])'
  PROVE  g \in window'[x] \/ Ahead(g, x)'
<1>1. /\ SameThread(x) /\ ThreadOK(x)
      /\ mutex = x => sessions' = sessions
  BY OthersKnowledge DEF OverlapInv, Base
<1>2. window[x] \subseteq window'[x]
  BY WindowGrows DEF OverlapInv
<1>3. pc[x] \in Watching /\ name'[x] = name[x] /\ name[x] \in Accounts
  BY <1>1 DEF SameThread, ThreadOK, Watching, Scanning, Renaming, Choosing
<1>4. CASE LoggedInAs(g, name[x])
  <2>1. g \in window[x] \/ Ahead(g, x)
    BY <1>3, <1>4 DEF OverlapInv, ScanFinds
  <2>2. Ahead(g, x) => Ahead(g, x)'
    BY <1>1 DEF Ahead, SameThread, ThreadOK
  <2> QED BY <1>2, <2>1, <2>2
<1>5. CASE ~LoggedInAs(g, name[x])
  <2>1. PICK n \in Accounts : n = name[x]
    BY <1>3
  <2>2. LoggedInAs(g, n)' /\ ~LoggedInAs(g, n)
    BY <1>3, <1>5, <2>1 DEF LoggedInAs
  <2>3. g = h /\ CopyName(h)
    BY <2>2, LoginIsCopy DEF OverlapInv
  <2> QED BY <1>3, <2>3 DEF CopyName, Watching, Scanning, Renaming
<1> QED BY <1>4, <1>5

\* Two logins that were on record stay so, and a new one is on record when it is made.
LEMMA OverlapKeeps ==
  ASSUME OverlapInv, NEW h \in Handlers, HandlerStep(h)
  PROVE  DoubleLoginNeedsOverlap'
<1> SUFFICES ASSUME NEW g \in Handlers, NEW x \in Handlers, NEW n \in Accounts,
                    LoggedInAs(g, n)', LoggedInAs(x, n)', g # x
             PROVE  g \in window'[x] \/ x \in window'[g]
  BY DEF DoubleLoginNeedsOverlap
<1>1. window[g] \subseteq window'[g] /\ window[x] \subseteq window'[x]
  BY WindowGrows DEF OverlapInv
<1>2. CASE LoggedInAs(g, n) /\ LoggedInAs(x, n)
  BY <1>1, <1>2 DEF OverlapInv, DoubleLoginNeedsOverlap
<1>3. ASSUME NEW a \in {g, x}, NEW b \in {g, x}, a # b, ~LoggedInAs(a, n)
      PROVE  b \in window[a]
  <2>1. a = h /\ CopyName(h) /\ n = name[h]
    BY <1>3, LoginIsCopy DEF OverlapInv
  <2>2. LoggedInAs(b, n)
    BY <1>3, <2>1, LoginIsCopy DEF OverlapInv
  <2>3. pc[h] = "copy"
    BY <2>1 DEF CopyName, Goto
  <2> QED BY <1>3, <2>1, <2>2, <2>3
          DEF OverlapInv, ScanFinds, Ahead, Watching, Scanning, Renaming
<1> QED BY <1>1, <1>2, <1>3

\* main() and the clients log nobody in, and stop no loop.
LEMMA MainOverlap ==
  ASSUME OverlapInv, MainStep \/ ClientStep \/ UNCHANGED vars
  PROVE  ScanFinds' /\ DoubleLoginNeedsOverlap'
<1>1. UNCHANGED <<scanVars, sessionVars>>
  BY DEF MainStep, ClientStep, Accept, AcceptFails, SpawnHandler, SpawnFails, ClientSends,
     ClientCloses, vars, scanVars, sessionVars
<1>2. pc \in [Handlers -> Points]
  BY DEF OverlapInv, Base, TypeOK
<1>3. \A g \in Handlers : pc'[g] = pc[g] \/ (pc[g] = "none" /\ pc'[g] = "start")
  BY <1>2 DEF MainStep, ClientStep, Accept, AcceptFails, SpawnHandler, SpawnFails,
     ClientSends, ClientCloses, vars, Goto
<1>4. \A g \in Handlers : \A n : LoggedInAs(g, n)' <=> LoggedInAs(g, n)
  BY <1>1, <1>3 DEF LoggedInAs, Listed, sessionVars
<1>5. \A g \in Handlers : pc'[g] \in Watching => pc'[g] = pc[g]
  BY <1>3 DEF Watching, Scanning, Renaming
<1>6. \A g, h \in Handlers : pc'[h] = pc[h] /\ Ahead(g, h) => Ahead(g, h)'
  BY <1>1 DEF Ahead, scanVars
<1>7. ScanFinds'
  BY <1>1, <1>4, <1>5, <1>6
     DEF OverlapInv, ScanFinds, scanVars, sessionVars, Watching, Scanning, Renaming
<1>8. DoubleLoginNeedsOverlap'
  BY <1>1, <1>4 DEF OverlapInv, DoubleLoginNeedsOverlap, sessionVars
<1> QED BY <1>7, <1>8

\* OverlapInv holds at the start, when nobody is logged in, and every step keeps it.
LEMMA OverlapStep ==
  /\ Init => OverlapInv
  /\ OverlapInv /\ [Next]_vars => OverlapInv'
<1>1. ASSUME Init PROVE OverlapInv
  <2>1. \A h \in Handlers : pc[h] = "none"
    BY <1>1 DEF Init
  <2> QED BY <1>1, <2>1, InitBase DEF OverlapInv, ScanFinds, DoubleLoginNeedsOverlap, LoggedInAs, Listed
<1>2. ASSUME OverlapInv, [Next]_vars PROVE OverlapInv'
  <2>1. Base'
    BY <1>2, NextBase DEF OverlapInv
  <2>2. CASE MainStep \/ ClientStep \/ UNCHANGED vars
    BY <1>2, <2>1, <2>2, MainOverlap DEF OverlapInv
  <2>3. ASSUME NEW h \in Handlers, HandlerStep(h) PROVE OverlapInv'
    <3>1. ScanFinds'
      <4> SUFFICES ASSUME NEW g \in Handlers, NEW x \in Handlers,
                          g # x, pc'[x] \in Watching, LoggedInAs(g, name[x])'
                   PROVE  g \in window'[x] \/ Ahead(g, x)'
        BY DEF ScanFinds
      <4>1. CASE x = h
        BY <1>2, <2>3, <4>1, LoopFinds
      <4>2. CASE x # h
        BY <1>2, <2>3, <4>2, OthersFound
      <4> QED BY <4>1, <4>2
    <3> QED BY <1>2, <2>1, <2>3, <3>1, OverlapKeeps DEF OverlapInv
  <2> QED BY <1>2, <2>2, <2>3 DEF Next, Ended
<1> QED BY <1>1, <1>2

\* Two clients share an account only if one of them finished its login between the
\* other's check and the other's login, or if the check of one took the session of
\* the other for its own, whatever malloc() leaves in a sockfd that nobody assigns.
THEOREM DoubleLoginTheorem == Spec => []DoubleLoginNeedsOverlap
<1>1. Init => OverlapInv
  BY OverlapStep
<1>2. OverlapInv /\ [Next]_vars => OverlapInv'
  BY OverlapStep
<1>3. OverlapInv => DoubleLoginNeedsOverlap
  BY DEF OverlapInv
<1> QED BY <1>1, <1>2, <1>3, PTL DEF Spec
=============================================================================
