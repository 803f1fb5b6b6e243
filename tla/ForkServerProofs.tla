--------------------------- MODULE ForkServerProofs ---------------------------
(***************************************************************************)
(* Proofs about ForkServer and its clients, for every number of clients,   *)
(* names and descriptors.                                                  *)
(***************************************************************************)
EXTENDS ForkServer, SequenceTheorems, TLAPS

\* A request as the server splits it: a command, a name, and whether it is whole.
Lines == [cmd : {"USER", "POST", "BYE", "?"}, name : Names \cup {NoName}, whole : BOOLEAN]

\* The child has left, reaped or not.
Ended(c) == child[c] \in {"zombie", "reaped"}

\* The connection carries nothing.
Quiet(c) == requests[c] = <<>> /\ replies[c] = <<>>

\* It carries the last request, unanswered.
Asking(c) ==
  /\ replies[c] = <<>>
  /\ Len(requests[c]) = 1 /\ Head(requests[c]).cmd = asked[c]
  /\ Head(requests[c]).whole => Head(requests[c]).name = typed[c]

\* It carries one reply, which answers the last request.
Answering(c) ==
  /\ requests[c] = <<>>
  /\ Len(replies[c]) = 1 /\ Head(replies[c]) \in CodesFor(asked[c])

\* A child that has greeted its client and lives.
Serves(c) == child[c] \in {"serve", "bye"}

\* A child that serves, or has ended, or will never be forked for this client.
Begun(c) == Serves(c) \/ Ended(c) \/ (child[c] = "none" /\ holders[c] = {})

\* Client and server take turns: what is under way depends on where the client is.
Dialogue(c) ==
  /\ at[c] = "start" =>
       /\ Quiet(c) /\ asked[c] = "none" /\ told[c] = NoName
       /\ child[c] = "none" /\ holders[c] = {}
  /\ at[c] = "greeting" =>
       /\ asked[c] = "none" /\ told[c] = NoName
       /\ child[c] # "bye"
       /\ \/ Quiet(c) /\ child[c] # "serve"
          \/ Answering(c) /\ (child[c] = "serve" \/ Ended(c))
       /\ child[c] = "serve" => ~logged_in[c]
  /\ at[c] \in {"menu", "spin"} => Quiet(c) /\ Begun(c)
  /\ at[c] = "wait" => (Asking(c) \/ Answering(c)) /\ Begun(c) /\ asked[c] # "none"
  /\ at[c] = "left" => replies[c] = <<>> /\ Len(requests[c]) <= 1

\* Whom the child believes to serve, as the user can know it: after 130, nobody.
Believed(c) ==
  IF child[c] = "serve" /\ logged_in[c] /\ username[c] # NULL THEN username[c] ELSE NoName

\* What the user has been told, or is about to be told.
Views(c) ==
  Serves(c) /\ at[c] \in {"menu", "spin", "wait"} =>
    /\ replies[c] = <<>> => told[c] = Believed(c)
    /\ replies[c] # <<>> => Shown(c, Head(replies[c])) = Believed(c)

\* A session and the life of its child.
Session(c) ==
  /\ ~logged_in[c] => username[c] = NULL
  /\ ~Serves(c) => ~logged_in[c]
  /\ c \in holders[c] <=> child[c] \in {"start", "serve", "bye"}

\* Connections nobody has accepted.
Waiting == {c \in Clients : child[c] = "none" /\ holders[c] = {"kernel"}}

\* No entry occurs twice.
Distinct(s) == \A j, k \in 1..Len(s) : s[j] = s[k] => j = k

\* The parent holds what it is handing over, and the kernel what it has not
\* accepted yet, each once.
Handover ==
  /\ parent \in {"fork", "close"} => conn \in Clients /\ "parent" \in holders[conn]
  /\ parent = "fork" => child[conn] = "none" /\ holders[conn] = {"parent"}
  /\ parent = "close" => child[conn] # "none"
  /\ parent = "accept" => conn = NULL
  /\ backlog \in Seq(Waiting) /\ Distinct(backlog)

\* What each direction of a connection carries.
Streams ==
  /\ requests \in [Clients -> Seq(Lines)]
  /\ replies \in [Clients -> Seq(Nat)]

\* One client, its connection and its child.
ClientOK(c) == Session(c) /\ Dialogue(c) /\ Views(c)

\* ViewsAgree and RepliesMatch are not inductive: they speak of clients that can see
\* an answer, and what makes the answer right is what was under way before.
IInv ==
  /\ PostTypeOK
  /\ Streams
  /\ LeaksAreFailedForks
  /\ Handover
  /\ \A c \in Clients : ClientOK(c)
-----------------------------------------------------------------------------
(* One line, one reply. *)

\* A stream that was empty holds what is put into it.
LEMMA AppendOne ==
  ASSUME NEW S, NEW s \in Seq(S), s = <<>>, NEW x \in S
  PROVE  /\ Append(s, x) \in Seq(S)
         /\ Len(Append(s, x)) = 1
         /\ Head(Append(s, x)) = x
         /\ Append(s, x) # <<>>
OBVIOUS

\* A stream of one is empty when its head has been taken.
LEMMA TailOne ==
  ASSUME NEW S, NEW s \in Seq(S), Len(s) <= 1, s # <<>>
  PROVE  Len(s) = 1 /\ Head(s) \in S /\ Tail(s) = <<>> /\ Tail(s) \in Seq(S)
<1>0. \A q \in Seq(S) : q # <<>> => Len(q) \in Nat \ {0}
  BY EmptySeq, Zenon
<1>1. Len(s) \in Nat \ {0}
  BY <1>0, Zenon
<1>2. Len(s) = 1
  BY <1>1, SMT
<1>3. Head(s) \in S /\ Tail(s) \in Seq(S) /\ Len(Tail(s)) = Len(s) - 1
  BY HeadTailProperties, Zenon
<1>4. Len(Tail(s)) = 0
  BY <1>2, <1>3
<1>5. Tail(s) = <<>>
  <2>1. SUFFICES ASSUME Tail(s) # <<>> PROVE FALSE
    OBVIOUS
  <2>2. Len(Tail(s)) \in Nat \ {0}
    BY <1>0, <1>3, <2>1, Zenon
  <2> QED BY <1>4, <2>2
<1> QED BY <1>2, <1>3, <1>5

\* What is new goes to the end of a stream without repetition.
LEMMA AppendDistinct ==
  ASSUME NEW S, NEW s \in Seq(S), Distinct(s), NEW x, x \notin S
  PROVE  Append(s, x) \in Seq(S \cup {x}) /\ Distinct(Append(s, x))
<1> DEFINE t == Append(s, x)
<1>1. s \in Seq(S \cup {x}) /\ Len(s) \in Nat /\ \A k \in 1..Len(s) : s[k] \in S
  BY SeqMonotonic, LenProperties, ElementOfSeq
<1>2. /\ t \in Seq(S \cup {x}) /\ Len(t) = Len(s) + 1
      /\ \A k \in 1..Len(s) : t[k] = s[k]
      /\ t[Len(s) + 1] = x
  BY <1>1, AppendProperties
<1> HIDE DEF t
<1>3. ASSUME NEW j \in 1..Len(t), NEW k \in 1..Len(t), t[j] = t[k] PROVE j = k
  <2>1. j \in 1..Len(s) \/ j = Len(s) + 1
    BY <1>1, <1>2
  <2>2. k \in 1..Len(s) \/ k = Len(s) + 1
    BY <1>1, <1>2
  <2> QED BY <1>1, <1>2, <1>3, <2>1, <2>2 DEF Distinct
<1> QED BY <1>2, <1>3 DEF Distinct, t

\* And what is taken from its head does not come back.
LEMMA TailDistinct ==
  ASSUME NEW S, NEW s \in Seq(S), s # <<>>, Distinct(s)
  PROVE  Head(s) \in S /\ Tail(s) \in Seq(S \ {Head(s)}) /\ Distinct(Tail(s))
<1> DEFINE t == Tail(s)
<1>1. Len(s) \in Nat \ {0} /\ Head(s) = s[1] /\ \A k \in 1..Len(s) : s[k] \in S
  <2>1. Len(s) \in Nat \ {0}
    BY EmptySeq, Zenon
  <2>2. \A k \in 1..Len(s) : s[k] \in S
    BY ElementOfSeq
  <2> QED BY <2>1, <2>2
<1>2. t \in Seq(S) /\ Len(t) = Len(s) - 1 /\ \A k \in 1..Len(t) : t[k] = s[k + 1]
  BY HeadTailProperties, Zenon
<1>3. t \in [1..Len(t) -> S]
  BY <1>2, LenProperties, Zenon
<1> HIDE DEF t
<1>4. \A k \in 1..Len(t) : k + 1 \in 1..Len(s) /\ k + 1 # 1
  BY <1>1, <1>2
<1>5. \A k \in 1..Len(t) : t[k] \in S \ {s[1]}
  BY <1>1, <1>2, <1>4 DEF Distinct
<1>6. t \in [1..Len(t) -> S \ {s[1]}] /\ Len(t) \in Nat
  BY <1>1, <1>2, <1>3, <1>5
<1>7. t \in Seq(S \ {s[1]})
  BY <1>6, SeqDef
<1>8. Distinct(t)
  <2>1. ASSUME NEW j \in 1..Len(t), NEW k \in 1..Len(t), t[j] = t[k] PROVE j = k
    <3>1. s[j + 1] = s[k + 1]
      BY <1>2, <2>1
    <3>2. j + 1 = k + 1
      BY <1>4, <3>1 DEF Distinct
    <3> QED BY <3>2
  <2> QED BY <2>1 DEF Distinct
<1>9. Head(s) \in S
  BY HeadTailProperties, Zenon
<1> QED BY <1>1, <1>7, <1>8, <1>9 DEF t

\* Every code is a number.
LEMMA CodesAreNumbers == \A cmd : CodesFor(cmd) \subseteq Nat
BY DEF CodesFor

\* A stream starts empty.
LEMMA EmptyStream == \A S : <<>> \in Seq(S) /\ Len(<<>>) = 0
OBVIOUS

-----------------------------------------------------------------------------
(* What a step leaves alone. *)

\* Nothing of client d or its child changes, nor who of them holds the connection.
Same(d) ==
  /\ at'[d] = at[d] /\ asked'[d] = asked[d] /\ typed'[d] = typed[d] /\ told'[d] = told[d]
  /\ requests'[d] = requests[d] /\ replies'[d] = replies[d]
  /\ d \in holders'[d] <=> d \in holders[d]
  /\ holders[d] = {} => holders'[d] = {}
  /\ child'[d] = child[d]
  /\ logged_in'[d] = logged_in[d] /\ username'[d] = username[d]

\* A client is as it was when nothing of it changes.
LEMMA SameKeeps ==
  ASSUME NEW d \in Clients, ClientOK(d), Same(d)
  PROVE  ClientOK(d)'
<1>1. Session(d)'
  BY DEF ClientOK, Session, Serves, Same
<1>2. Dialogue(d)'
  BY DEF ClientOK, Dialogue, Quiet, Asking, Answering, Begun, Serves, Ended, Same
<1>3. Views(d)'
  BY DEF ClientOK, Views, Serves, Believed, Shown, Same
<1> QED BY <1>1, <1>2, <1>3 DEF ClientOK

\* A step of somebody else than the parent: what the parent and the kernel hold
\* stays theirs, and so does what they know about the children; and no child gets hold
\* of a connection.
ParentKept ==
  /\ UNCHANGED <<parent, conn, backlog>>
  /\ \A d \in Clients :
       /\ holders'[d] \subseteq holders[d]
       /\ \A p \in {"kernel", "parent"} : p \in holders'[d] <=> p \in holders[d]
       /\ child'[d] = "none" <=> child[d] = "none"

\* Such a step keeps the parent's part of the invariant.
LEMMA ParentKeptKeeps ==
  ASSUME Handover, LeaksAreFailedForks, ParentKept
  PROVE  Handover' /\ LeaksAreFailedForks'
<1>1. LeaksAreFailedForks'
  BY DEF LeaksAreFailedForks, HeldByParent, ParentKept
<1>2. \A d \in Clients, p \in {"kernel", "parent"} : holders[d] = {p} => holders'[d] = {p}
  BY DEF ParentKept
<1>3. Waiting \subseteq Waiting'
  BY <1>2 DEF Waiting, ParentKept
<1>4. backlog \in Seq(Waiting')
  BY <1>3, SeqMonotonic DEF Handover
<1>5. Handover'
  <2>1. parent' = "fork" => child'[conn'] = "none" /\ holders'[conn'] = {"parent"}
    BY <1>2 DEF Handover, ParentKept
  <2> QED BY <1>4, <2>1 DEF Handover, ParentKept, Distinct
<1> QED BY <1>1, <1>5

\* Together: a step of client c or of its child, which the parent does not notice.
LEMMA StepOf ==
  ASSUME IInv, NEW c \in Clients,
         PostTypeOK', Streams', ParentKept, ClientOK(c)',
         \A d \in Clients \ {c} : Same(d)
  PROVE  IInv'
<1>1. ASSUME NEW d \in Clients PROVE ClientOK(d)'
  <2>1. CASE d = c
    BY <2>1
  <2>2. CASE d # c
    BY <2>2, SameKeeps DEF IInv
  <2> QED BY <2>1, <2>2
<1>2. Handover' /\ LeaksAreFailedForks'
  BY ParentKeptKeeps DEF IInv
<1> QED BY <1>1, <1>2 DEF IInv

-----------------------------------------------------------------------------
(* The client. *)

\* A request goes out when nothing is under way.
LEMMA AskKeeps ==
  ASSUME IInv, NEW c \in Clients, NEW name \in Names \cup {NoName}, NEW line \in Lines,
         line.whole => line.name = name,
         Ask(c, name, line), UNCHANGED serverVars
  PROVE  IInv'
<1> USE DEF Ask, Goto, serverVars, parentVars, sessionVars
<1>1. at[c] = "menu" /\ Quiet(c) /\ Begun(c)
  BY DEF IInv, ClientOK, Dialogue
<1>2. /\ requests'[c] = Append(<<>>, line)
      /\ requests'[c] \in Seq(Lines) /\ Len(requests'[c]) = 1
      /\ Head(requests'[c]) = line
  <2>1. requests[c] = <<>> /\ requests[c] \in Seq(Lines)
    BY <1>1 DEF Quiet, IInv, Streams
  <2>2. requests'[c] = Append(requests[c], line)
    BY DEF IInv, Streams
  <2> QED BY <2>1, <2>2, AppendOne
<1>3. line.cmd \in {"USER", "POST", "BYE", "?"}
  BY DEF Lines
<1>4. PostTypeOK'
  BY <1>2, <1>3 DEF IInv, PostTypeOK, Streams
<1>5. Streams'
  BY <1>2 DEF IInv, Streams
<1>6. ClientOK(c)'
  <2>1. at'[c] = "wait" /\ asked'[c] = line.cmd /\ typed'[c] = name
    BY DEF IInv, PostTypeOK
  <2>2. Session(c)'
    BY DEF IInv, ClientOK, Session, Serves
  <2>3. Dialogue(c)'
    BY <1>1, <1>2, <1>3, <2>1 DEF Dialogue, Asking, Quiet, Begun, Serves, Ended
  <2>4. Views(c)'
    BY <1>1, <2>1 DEF IInv, ClientOK, Views, Serves, Quiet, Believed
  <2> QED BY <2>2, <2>3, <2>4 DEF ClientOK
<1>7. \A d \in Clients \ {c} : Same(d)
  BY DEF Same, IInv, PostTypeOK, Streams
<1>8. ParentKept
  BY DEF ParentKept
<1> QED BY <1>4, <1>5, <1>6, <1>7, <1>8, StepOf

\* A client may leave wherever it is.
LEMMA LeaveKeeps ==
  ASSUME IInv, NEW c \in Clients, Leave(c), UNCHANGED serverVars
  PROVE  IInv'
<1> USE DEF Leave, serverVars, parentVars, sessionVars
<1>1. PostTypeOK' /\ Streams'
  BY EmptyStream DEF IInv, PostTypeOK, Streams
<1>2. ClientOK(c)'
  <2>1. at'[c] = "left" /\ replies'[c] = <<>> /\ Len(requests'[c]) <= 1
    BY DEF IInv, PostTypeOK, Streams
  <2> QED BY <2>1 DEF IInv, ClientOK, Session, Serves, Dialogue, Views
<1>3. \A d \in Clients \ {c} : Same(d)
  BY DEF Same, IInv, PostTypeOK, Streams
<1>4. ParentKept
  BY DEF ParentKept
<1> QED BY <1>1, <1>2, <1>3, <1>4, StepOf

\* The menu comes up after the greeting, and without one when the server has hung up.
LEMMA GreetedKeeps ==
  ASSUME IInv, NEW c \in Clients, Greeted(c), UNCHANGED serverVars
  PROVE  IInv'
<1> USE DEF Greeted, Goto, serverVars, parentVars, sessionVars
<1>1. at[c] = "greeting" /\ at'[c] = "menu"
  BY DEF IInv, PostTypeOK
<1>2. requests[c] = <<>> /\ asked[c] = "none" /\ told[c] = NoName
  BY <1>1 DEF IInv, ClientOK, Dialogue, Quiet, Answering
<1>3. replies' \in [Clients -> Seq(Nat)] /\ replies'[c] = <<>> /\ Begun(c)
  <2>1. CASE NextReply(c)
    <3>1. Len(replies[c]) = 1 /\ (child[c] = "serve" \/ Ended(c))
      BY <1>1, <2>1 DEF IInv, ClientOK, Dialogue, Quiet, Answering, NextReply
    <3>2. Tail(replies[c]) = <<>> /\ Tail(replies[c]) \in Seq(Nat)
      <4>1. replies[c] \in Seq(Nat) /\ Len(replies[c]) <= 1 /\ replies[c] # <<>>
        BY <2>1, <3>1 DEF NextReply, IInv, Streams
      <4> QED BY <4>1, TailOne
    <3> QED BY <2>1, <3>1, <3>2 DEF NextReply, IInv, Streams, Begun, Serves
  <2>2. CASE HungUp(c) /\ UNCHANGED replies
    <3>1. child[c] \notin {"start", "serve", "bye"}
      BY <2>2 DEF HungUp, IInv, ClientOK, Session
    <3>2. child[c] \in {"none", "start", "serve", "bye", "zombie", "reaped"}
      BY DEF IInv, PostTypeOK
    <3>3. Begun(c)
      BY <2>2, <3>1, <3>2 DEF HungUp, Begun, Serves, Ended
    <3>4. replies' \in [Clients -> Seq(Nat)] /\ replies'[c] = <<>>
      BY <2>2 DEF HungUp, IInv, Streams
    <3> QED BY <3>3, <3>4
  <2> QED BY <2>1, <2>2
<1>4. PostTypeOK' /\ Streams'
  BY <1>3 DEF IInv, PostTypeOK, Streams
<1>5. ClientOK(c)'
  <2>1. Session(c)'
    BY DEF IInv, ClientOK, Session, Serves
  <2>2. Dialogue(c)'
    BY <1>1, <1>2, <1>3 DEF Dialogue, Quiet, Begun, Serves, Ended
  <2>3. Views(c)'
    BY <1>1, <1>2, <1>3 DEF IInv, ClientOK, Dialogue, Views, Serves, Believed
  <2> QED BY <2>1, <2>2, <2>3 DEF ClientOK
<1>6. \A d \in Clients \ {c} : Same(d)
  BY DEF Same, NextReply, IInv, PostTypeOK, Streams
<1>7. ParentKept
  BY DEF ParentKept
<1> QED BY <1>4, <1>5, <1>6, <1>7, StepOf

\* The answer is the one to the last request, and the user knows what it says.
LEMMA AnsweredKeeps ==
  ASSUME IInv, NEW c \in Clients, Answered(c), UNCHANGED serverVars
  PROVE  IInv'
<1> USE DEF Answered, NextReply, Goto, serverVars, parentVars, sessionVars
<1>1. at[c] = "wait" /\ at'[c] = "menu"
  BY DEF IInv, PostTypeOK
<1>2. Answering(c) /\ Begun(c)
  BY <1>1 DEF IInv, ClientOK, Dialogue, Asking
<1>3. Tail(replies[c]) = <<>> /\ Tail(replies[c]) \in Seq(Nat)
  <2>1. replies[c] \in Seq(Nat) /\ Len(replies[c]) <= 1 /\ replies[c] # <<>>
    BY <1>2 DEF Answering, IInv, Streams
  <2> QED BY <2>1, TailOne
<1>4. replies' \in [Clients -> Seq(Nat)] /\ replies'[c] = <<>>
  BY <1>3 DEF IInv, Streams
<1>5. /\ told' \in [Clients -> Names \cup {NoName}]
      /\ told'[c] = Shown(c, Head(replies[c]))
      /\ \A d \in Clients \ {c} : told'[d] = told[d]
  <2>1. Shown(c, Head(replies[c])) \in Names \cup {NoName}
    BY DEF IInv, PostTypeOK, Shown
  <2> QED BY <2>1 DEF IInv, PostTypeOK
<1>6. PostTypeOK' /\ Streams'
  BY <1>4, <1>5 DEF IInv, PostTypeOK, Streams
<1>7. ClientOK(c)'
  <2>1. Session(c)'
    BY DEF IInv, ClientOK, Session, Serves
  <2>2. Dialogue(c)'
    BY <1>1, <1>2, <1>4 DEF Dialogue, Quiet, Answering, Begun, Serves, Ended
  <2>3. Views(c)'
    <3>1. SUFFICES ASSUME Serves(c) PROVE told'[c] = Believed(c)
      BY <1>4 DEF Views, Serves, Believed
    <3>2. replies[c] # <<>>
      BY <1>2, EmptyStream DEF Answering
    <3> QED BY <1>1, <1>5, <3>1, <3>2 DEF IInv, ClientOK, Views
  <2> QED BY <2>1, <2>2, <2>3 DEF ClientOK
<1>8. \A d \in Clients \ {c} : Same(d)
  BY <1>5 DEF Same, IInv, PostTypeOK, Streams
<1>9. ParentKept
  BY DEF ParentKept
<1> QED BY <1>6, <1>7, <1>8, <1>9, StepOf

\* At the end of stdin the connection stays as it is.
LEMMA StdinEndsKeeps ==
  ASSUME IInv, NEW c \in Clients, StdinEnds(c), UNCHANGED serverVars
  PROVE  IInv'
<1> USE DEF StdinEnds, Goto, serverVars, parentVars, sessionVars
<1>1. at[c] = "menu" /\ at'[c] = "spin"
  BY DEF IInv, PostTypeOK
<1>2. PostTypeOK' /\ Streams'
  BY DEF IInv, PostTypeOK, Streams
<1>3. ClientOK(c)'
  BY <1>1 DEF IInv, ClientOK, Session, Dialogue, Views, Quiet, Begun, Serves, Ended, Believed
<1>4. \A d \in Clients \ {c} : Same(d)
  BY DEF Same, IInv, PostTypeOK
<1>5. ParentKept
  BY DEF ParentKept
<1> QED BY <1>2, <1>3, <1>4, <1>5, StepOf

-----------------------------------------------------------------------------
(* A child. *)

\* A command is answered once, with a code of its own, and the answer tells the
\* user what the session now is, or is about to be.
LEMMA TakeKeeps ==
  ASSUME IInv, NEW c \in Clients, NEW cmd, NEW code \in CodesFor(cmd), NEW to \in {"serve", "bye"},
         Take(c, cmd, code),
         child' = [child EXCEPT ![c] = to],
         logged_in' \in [Clients -> BOOLEAN],
         username' \in [Clients -> Active \cup {NULL}],
         \A d \in Clients \ {c} :
           logged_in'[d] = logged_in[d] /\ username'[d] = username[d],
         ~logged_in'[c] => username'[c] = NULL,
         typed[c] = Head(requests[c]).name /\ told[c] = Believed(c) =>
           Shown(c, code) = Believed(c)'
  PROVE  IInv'
<1> USE DEF Take, parentVars
<1>1. child[c] = "serve" /\ at[c] \in {"wait", "left"} /\ Len(requests[c]) = 1
  <2>1. child[c] = "serve" /\ requests[c] # <<>>
    OBVIOUS
  <2>2. at[c] \notin {"start", "greeting", "menu", "spin"}
    BY <2>1 DEF IInv, ClientOK, Dialogue, Quiet, Answering
  <2>3. requests[c] \in Seq(Lines) /\ Len(requests[c]) <= 1
    BY DEF IInv, PostTypeOK, Streams
  <2>4. at[c] \in {"wait", "left"}
    BY <2>2 DEF IInv, PostTypeOK
  <2> QED BY <2>1, <2>3, <2>4, TailOne
<1>2. requests' \in [Clients -> Seq(Lines)] /\ requests'[c] = <<>>
  <2>1. requests[c] \in Seq(Lines) /\ requests[c] # <<>> /\ Len(requests[c]) <= 1
    BY <1>1 DEF IInv, Streams
  <2>2. Tail(requests[c]) = <<>> /\ Tail(requests[c]) \in Seq(Lines)
    BY <2>1, TailOne
  <2> QED BY <2>2 DEF IInv, Streams
<1>3. /\ child' \in [Clients -> {"none", "start", "serve", "bye", "zombie", "reaped"}]
      /\ child'[c] = to /\ Serves(c) /\ Serves(c)'
      /\ \A d \in Clients \ {c} : child'[d] = child[d]
  BY <1>1 DEF IInv, PostTypeOK, Serves
<1>4. Session(c)'
  BY <1>1, <1>3 DEF IInv, ClientOK, Session
<1>5. ParentKept
  BY <1>1, <1>3 DEF ParentKept
<1>6. \A d \in Clients \ {c} : Same(d)
  BY <1>3 DEF Same, Send, IInv, PostTypeOK, Streams
<1>7. CASE at[c] = "wait"
  <2>1. Asking(c) /\ asked[c] = cmd /\ typed[c] = Head(requests[c]).name
    BY <1>1, <1>7 DEF IInv, ClientOK, Dialogue, Asking, Answering
  <2>2. /\ replies'[c] = Append(<<>>, code)
        /\ replies' \in [Clients -> Seq(Nat)] /\ Len(replies'[c]) = 1
        /\ Head(replies'[c]) = code
    <3>1. replies[c] = <<>> /\ replies[c] \in Seq(Nat) /\ code \in Nat
      BY <2>1, CodesAreNumbers DEF Asking, IInv, Streams
    <3>2. replies' = [replies EXCEPT ![c] = Append(<<>>, code)]
      BY <1>7, <3>1 DEF Send
    <3>3. /\ Append(<<>>, code) \in Seq(Nat) /\ Len(Append(<<>>, code)) = 1
          /\ Head(Append(<<>>, code)) = code
      BY <3>1, AppendOne
    <3> QED BY <3>2, <3>3 DEF IInv, Streams
  <2>3. PostTypeOK' /\ Streams'
    BY <1>2, <1>3, <2>2 DEF IInv, PostTypeOK, Streams
  <2>4. Dialogue(c)'
    BY <1>2, <1>3, <1>7, <2>1, <2>2 DEF IInv, ClientOK, Dialogue, Answering, Begun
  <2>5. Views(c)'
    <3>1. replies'[c] # <<>>
      BY <2>2, EmptyStream
    <3>2. told[c] = Believed(c)
      BY <1>3, <1>7, <2>1 DEF IInv, ClientOK, Views, Asking
    <3>3. Shown(c, code) = Believed(c)'
      BY <2>1, <3>2
    <3>4. Shown(c, code)' = Shown(c, code)
      BY DEF Shown
    <3> QED BY <2>2, <3>1, <3>3, <3>4 DEF Views, Shown
  <2> QED BY <1>4, <1>5, <1>6, <2>3, <2>4, <2>5, StepOf DEF ClientOK
<1>8. CASE at[c] = "left"
  <2>1. replies'[c] = replies[c] /\ replies' \in [Clients -> Seq(Nat)]
    BY <1>8 DEF Send, IInv, Streams
  <2>2. PostTypeOK' /\ Streams'
    BY <1>2, <1>3, <2>1, EmptyStream DEF IInv, PostTypeOK, Streams
  <2>3. Dialogue(c)'
    BY <1>2, <1>8, <2>1, EmptyStream DEF IInv, ClientOK, Dialogue
  <2>4. Views(c)'
    BY <1>8 DEF Views
  <2> QED BY <1>4, <1>5, <1>6, <2>2, <2>3, <2>4, StepOf DEF ClientOK
<1> QED BY <1>1, <1>7, <1>8

\* A child that serves on.
LEMMA ServeIsTake ==
  ASSUME IInv, NEW c \in Clients, NEW cmd, NEW code, Serve(c, cmd, code)
  PROVE  Take(c, cmd, code) /\ child' = [child EXCEPT ![c] = "serve"] /\ child[c] = "serve"
<1>1. Take(c, cmd, code) /\ UNCHANGED child
  BY DEF Serve
<1>2. child[c] = "serve"
  BY <1>1 DEF Take
<1> QED BY <1>1, <1>2 DEF IInv, PostTypeOK

\* A session that stays as it is may answer anything but 110 and 130.
LEMMA ServeSameSession ==
  ASSUME IInv, NEW c \in Clients, NEW cmd, NEW code \in CodesFor(cmd) \ {110, 130},
         Serve(c, cmd, code), UNCHANGED sessionVars
  PROVE  IInv'
<1>1. Take(c, cmd, code) /\ child' = [child EXCEPT ![c] = "serve"] /\ child[c] = "serve"
  BY ServeIsTake
<1>2. /\ logged_in' \in [Clients -> BOOLEAN]
      /\ username' \in [Clients -> Active \cup {NULL}]
      /\ \A d \in Clients \ {c} :
           logged_in'[d] = logged_in[d] /\ username'[d] = username[d]
      /\ ~logged_in'[c] => username'[c] = NULL
  BY DEF IInv, PostTypeOK, ClientOK, Session, sessionVars
<1>3. Believed(c)' = Believed(c) /\ Shown(c, code) = told[c]
  <2>1. UNCHANGED child
    BY DEF Serve
  <2> QED BY <2>1 DEF sessionVars, Believed, Shown
<1>4. typed[c] = Head(requests[c]).name /\ told[c] = Believed(c) =>
        Shown(c, code) = Believed(c)'
  BY <1>3
<1>5. code \in CodesFor(cmd)
  OBVIOUS
<1> QED BY <1>1, <1>2, <1>4, <1>5, TakeKeeps

\* The commands.
LEMMA CommandKeeps ==
  ASSUME IInv, NEW c \in Clients,
         \/ LogIn(c) \/ LogInWithoutName(c) \/ RefuseLogIn(c) \/ LoadFails(c)
         \/ TakePost(c) \/ Bye(c) \/ ByeRefused(c) \/ Unknown(c)
  PROVE  IInv'
<1>1. logged_in \in [Clients -> BOOLEAN] /\ username \in [Clients -> Active \cup {NULL}]
  BY DEF IInv, PostTypeOK
<1>2. CASE LogIn(c)
  <2> DEFINE name == Head(requests[c]).name
  <2>1. name \in Active /\ name # NULL
    BY <1>2, ForkAssumption DEF LogIn, MayLogIn
  <2>2. /\ Take(c, "USER", 110) /\ child' = [child EXCEPT ![c] = "serve"]
        /\ 110 \in CodesFor("USER")
    BY <1>2, ServeIsTake DEF LogIn, CodesFor
  <2>3. /\ logged_in' = [logged_in EXCEPT ![c] = TRUE]
        /\ username' = [username EXCEPT ![c] = name]
    BY <1>2 DEF LogIn
  <2>4. typed[c] = name => Shown(c, 110) = name
    BY DEF Shown
  <2> HIDE DEF name
  <2>5. /\ logged_in' \in [Clients -> BOOLEAN]
        /\ username' \in [Clients -> Active \cup {NULL}]
        /\ \A d \in Clients \ {c} :
             logged_in'[d] = logged_in[d] /\ username'[d] = username[d]
        /\ ~logged_in'[c] => username'[c] = NULL
        /\ Believed(c)' = name
    BY <1>1, <2>1, <2>2, <2>3 DEF Believed, IInv, PostTypeOK
  <2>6. typed[c] = Head(requests[c]).name => Shown(c, 110) = Believed(c)'
    BY <2>4, <2>5 DEF name
  <2> QED BY <2>2, <2>5, <2>6, TakeKeeps
<1>3. CASE LogInWithoutName(c)
  <2> DEFINE code == 500
  <2>1. /\ Take(c, "USER", code) /\ child' = [child EXCEPT ![c] = "serve"]
        /\ code \in CodesFor("USER")
    BY <1>3, ServeIsTake DEF LogInWithoutName, CodesFor
  <2>2. /\ logged_in' = [logged_in EXCEPT ![c] = TRUE]
        /\ username' = [username EXCEPT ![c] = NULL]
        /\ ~logged_in[c]
    BY <1>3 DEF LogInWithoutName
  <2>3. /\ logged_in' \in [Clients -> BOOLEAN]
        /\ username' \in [Clients -> Active \cup {NULL}]
        /\ \A d \in Clients \ {c} :
             logged_in'[d] = logged_in[d] /\ username'[d] = username[d]
        /\ ~logged_in'[c] => username'[c] = NULL
    BY <1>1, <2>2
  <2>4. typed[c] = Head(requests[c]).name /\ told[c] = Believed(c) =>
          Shown(c, code) = Believed(c)'
    BY <1>1, <2>2 DEF Believed, Shown
  <2> HIDE DEF code
  <2> QED BY <2>1, <2>3, <2>4, TakeKeeps
<1>4. CASE RefuseLogIn(c)
  <2> DEFINE code == Refusal(c, Head(requests[c]).name)
  <2>1. code \in {211, 212, 213, 300}
    BY DEF Refusal
  <2>2. code \in CodesFor("USER") \ {110, 130}
    BY <2>1 DEF CodesFor
  <2>3. Serve(c, "USER", code) /\ UNCHANGED sessionVars
    BY <1>4 DEF RefuseLogIn
  <2> HIDE DEF code
  <2> QED BY <2>2, <2>3, ServeSameSession
<1>5. CASE LoadFails(c)
  <2>1. 500 \in CodesFor("USER") \ {110, 130}
    BY DEF CodesFor
  <2> QED BY <1>5, <2>1, ServeSameSession DEF LoadFails
<1>6. CASE TakePost(c)
  <2> DEFINE code == IF logged_in[c] THEN 120 ELSE 221
  <2>1. code \in CodesFor("POST") \ {110, 130}
    BY DEF CodesFor
  <2>2. Serve(c, "POST", code) /\ UNCHANGED sessionVars
    BY <1>6 DEF TakePost
  <2> HIDE DEF code
  <2> QED BY <2>1, <2>2, ServeSameSession
<1>7. CASE Bye(c)
  <2>1. /\ Take(c, "BYE", 130) /\ 130 \in CodesFor("BYE")
        /\ child' = [child EXCEPT ![c] = "bye"] /\ UNCHANGED sessionVars
    BY <1>7 DEF Bye, CodesFor
  <2>2. /\ logged_in' \in [Clients -> BOOLEAN]
        /\ username' \in [Clients -> Active \cup {NULL}]
        /\ \A d \in Clients \ {c} :
             logged_in'[d] = logged_in[d] /\ username'[d] = username[d]
        /\ ~logged_in'[c] => username'[c] = NULL
    BY <1>1, <2>1 DEF sessionVars, IInv, ClientOK, Session
  <2>3. child'[c] = "bye"
    BY <2>1 DEF IInv, PostTypeOK
  <2>4. Shown(c, 130) = Believed(c)'
    BY <2>3 DEF Believed, Shown
  <2> QED BY <2>1, <2>2, <2>4, TakeKeeps
<1>8. CASE ByeRefused(c)
  <2>1. 221 \in CodesFor("BYE") \ {110, 130}
    BY DEF CodesFor
  <2> QED BY <1>8, <2>1, ServeSameSession DEF ByeRefused
<1>9. CASE Unknown(c)
  <2>1. 300 \in CodesFor("?") \ {110, 130}
    BY DEF CodesFor
  <2> QED BY <1>9, <2>1, ServeSameSession DEF Unknown
<1> QED BY <1>2, <1>3, <1>4, <1>5, <1>6, <1>7, <1>8, <1>9

\* The user is forgotten after 130, when the client may have been told already.
LEMMA ForgetUserKeeps ==
  ASSUME IInv, NEW c \in Clients, ForgetUser(c)
  PROVE  IInv'
<1> USE DEF ForgetUser, clientVars, parentVars
<1>1. /\ child[c] = "bye" /\ child'[c] = "serve" /\ ~logged_in'[c] /\ username'[c] = NULL
      /\ child' \in [Clients -> {"none", "start", "serve", "bye", "zombie", "reaped"}]
      /\ \A d \in Clients \ {c} : child'[d] = child[d]
      /\ Serves(c) /\ Serves(c)'
  BY DEF IInv, PostTypeOK, Serves
<1>2. PostTypeOK' /\ Streams'
  BY <1>1 DEF IInv, PostTypeOK, Streams
<1>3. ClientOK(c)'
  <2>1. Session(c)'
    BY <1>1 DEF IInv, ClientOK, Session
  <2>2. Dialogue(c)'
    BY <1>1 DEF IInv, ClientOK, Dialogue, Quiet, Asking, Answering, Begun
  <2>3. Believed(c) = NoName /\ Believed(c)' = NoName
    BY <1>1 DEF Believed
  <2>4. Views(c)'
    BY <1>1, <2>3 DEF IInv, ClientOK, Views, Shown
  <2> QED BY <2>1, <2>2, <2>4 DEF ClientOK
<1>4. \A d \in Clients \ {c} : Same(d)
  BY <1>1 DEF Same, IInv, PostTypeOK
<1>5. ParentKept
  BY <1>1 DEF ParentKept
<1> QED BY <1>2, <1>3, <1>4, <1>5, StepOf

\* The greeting goes to a client that waits for it, or to nobody.
LEMMA WelcomeKeeps ==
  ASSUME IInv, NEW c \in Clients, Welcome(c)
  PROVE  IInv'
<1> USE DEF Welcome, parentVars, sessionVars
<1>1. child[c] = "start" /\ child'[c] = "serve" /\ at[c] \in {"greeting", "left"}
  <2>1. child[c] = "start" /\ at[c] \notin {"start", "menu", "spin", "wait"}
    BY DEF IInv, ClientOK, Dialogue, Begun, Serves, Ended
  <2> QED BY <2>1 DEF IInv, PostTypeOK
<1>2. ~logged_in[c]
  BY <1>1 DEF IInv, ClientOK, Session, Serves
<1>3. Session(c)'
  BY <1>1, <1>2 DEF IInv, ClientOK, Session, Serves
<1>4. Views(c)'
  BY <1>1 DEF Views
<1>5. ParentKept
  BY <1>1 DEF ParentKept, IInv, PostTypeOK
<1>6. \A d \in Clients \ {c} : Same(d)
  BY DEF Same, Send, IInv, PostTypeOK, Streams
<1>7. CASE at[c] = "greeting"
  <2>1. Quiet(c) /\ asked[c] = "none" /\ told[c] = NoName
    BY <1>1, <1>7 DEF IInv, ClientOK, Dialogue, Ended
  <2>2. /\ replies' \in [Clients -> Seq(Nat)]
        /\ Len(replies'[c]) = 1 /\ Head(replies'[c]) = 100
    <3>1. replies[c] = <<>> /\ replies[c] \in Seq(Nat) /\ 100 \in Nat
      BY <2>1 DEF Quiet, IInv, Streams
    <3>2. replies' = [replies EXCEPT ![c] = Append(<<>>, 100)]
      BY <1>7, <3>1 DEF Send
    <3>3. /\ Append(<<>>, 100) \in Seq(Nat) /\ Len(Append(<<>>, 100)) = 1
          /\ Head(Append(<<>>, 100)) = 100
      BY <3>1, AppendOne
    <3> QED BY <3>2, <3>3 DEF IInv, Streams
  <2>3. Dialogue(c)'
    BY <1>1, <1>2, <1>7, <2>1, <2>2 DEF Dialogue, Quiet, Answering, CodesFor
  <2>4. PostTypeOK' /\ Streams'
    BY <2>2 DEF IInv, PostTypeOK, Streams
  <2> QED BY <1>3, <1>4, <1>5, <1>6, <2>3, <2>4, StepOf DEF ClientOK
<1>8. CASE at[c] = "left"
  <2>1. UNCHANGED replies
    BY <1>8 DEF Send, IInv, Streams
  <2>2. Dialogue(c)'
    BY <1>8, <2>1 DEF IInv, ClientOK, Dialogue
  <2>3. PostTypeOK' /\ Streams'
    BY <2>1 DEF IInv, PostTypeOK, Streams
  <2> QED BY <1>3, <1>4, <1>5, <1>6, <2>2, <2>3, StepOf DEF ClientOK
<1> QED BY <1>1, <1>7, <1>8

\* A child ends before its greeting, or after its client: it leaves nobody waiting
\* for an answer.
LEMMA EndChildKeeps ==
  ASSUME IInv, NEW c \in Clients, EndChild(c),
         child[c] = "start" \/ (child[c] = "serve" /\ at[c] = "left")
  PROVE  IInv'
<1> USE DEF EndChild, parentVars
<1>1. at[c] \in {"greeting", "left"}
  <2>1. at[c] \notin {"start", "menu", "spin", "wait"}
    BY DEF IInv, ClientOK, Dialogue, Begun, Serves, Ended
  <2> QED BY <2>1 DEF IInv, PostTypeOK
<1>2. /\ child' \in [Clients -> {"none", "start", "serve", "bye", "zombie", "reaped"}]
      /\ child'[c] \in {"zombie", "reaped"}
      /\ \A d \in Clients \ {c} : child'[d] = child[d]
      /\ sigchld' \in BOOLEAN
  BY DEF IInv, PostTypeOK
<1>3. \A d \in Clients : holders'[d] = holders[d] \ {c}
  OBVIOUS
<1>4. PostTypeOK'
  BY <1>2, EmptyStream DEF IInv, PostTypeOK, Streams
<1>5. Streams'
  BY EmptyStream DEF IInv, Streams
<1>6. ClientOK(c)'
  <2>1. Session(c)'
    BY <1>2, <1>3 DEF IInv, PostTypeOK, Session
  <2>2. Dialogue(c)'
    <3>1. requests'[c] = <<>> /\ Len(requests'[c]) <= 1
      BY EmptyStream DEF IInv, Streams
    <3> QED BY <1>1, <1>2, <3>1 DEF IInv, ClientOK, Dialogue, Quiet, Answering, Ended
  <2>3. Views(c)'
    BY <1>2 DEF Views, Serves
  <2> QED BY <2>1, <2>2, <2>3 DEF ClientOK
<1>7. \A d \in Clients \ {c} : Same(d)
  BY <1>2, <1>3 DEF Same, IInv, PostTypeOK, Streams
<1>8. ParentKept
  <2>1. c \notin {"kernel", "parent"}
    BY ForkAssumption
  <2> QED BY <1>2, <1>3, <2>1 DEF ParentKept, IInv, PostTypeOK
<1> QED BY <1>4, <1>5, <1>6, <1>7, <1>8, StepOf

\* Every step of a child.
LEMMA ChildStepKeeps ==
  ASSUME IInv, NEW c \in Clients, ChildStep(c)
  PROVE  IInv'
<1>1. CASE Welcome(c)
  BY <1>1, WelcomeKeeps
<1>2. CASE NoMemory(c)
  BY <1>2, EndChildKeeps DEF NoMemory
<1>3. CASE Disconnected(c)
  BY <1>3, EndChildKeeps DEF Disconnected
<1>4. CASE ForgetUser(c)
  BY <1>4, ForgetUserKeeps
<1> QED BY <1>1, <1>2, <1>3, <1>4, CommandKeeps DEF ChildStep

-----------------------------------------------------------------------------
(* The parent and its signal handler. *)

\* The handler only turns zombies into reaped children.
LEMMA HandlerKeeps ==
  ASSUME IInv, HandlerStep
  PROVE  IInv'
<1> USE DEF parentVars, clientVars, sessionVars
<1>1. CASE EnterHandler \/ LeaveHandler
  <2> USE <1>1 DEF EnterHandler, LeaveHandler
  <2>1. PostTypeOK' /\ Streams'
    BY DEF IInv, PostTypeOK, Streams
  <2>2. ParentKept
    BY DEF ParentKept
  <2>3. \A d \in Clients : Same(d)
    BY DEF Same
  <2>4. \A d \in Clients : ClientOK(d)'
    BY <2>3, SameKeeps DEF IInv
  <2>5. Handover' /\ LeaksAreFailedForks'
    BY <2>2, ParentKeptKeeps DEF IInv
  <2> QED BY <2>1, <2>4, <2>5 DEF IInv
<1>2. ASSUME NEW c \in Clients, Reap(c) PROVE IInv'
  <2> USE <1>2 DEF Reap
  <2>1. child[c] = "zombie" /\ child'[c] = "reaped"
    BY DEF IInv, PostTypeOK
  <2>2. PostTypeOK' /\ Streams'
    BY DEF IInv, PostTypeOK, Streams
  <2>3. ClientOK(c)'
    BY <2>1 DEF IInv, ClientOK, Session, Dialogue, Views, Quiet, Asking, Answering, Begun,
                Serves, Ended
  <2>4. \A d \in Clients \ {c} : Same(d)
    BY DEF Same, IInv, PostTypeOK
  <2>5. ParentKept
    BY <2>1 DEF ParentKept, IInv, PostTypeOK
  <2> QED BY <2>2, <2>3, <2>4, <2>5, StepOf
<1> QED BY <1>1, <1>2 DEF HandlerStep

\* A client that waits for its greeting, or has gone, is all the parent ever hands over.
LEMMA HeldClient ==
  ASSUME IInv, NEW c \in Clients, child[c] = "none", holders[c] # {}
  PROVE  at[c] \in {"greeting", "left"} /\ ~logged_in[c]
<1>1. at[c] \notin {"start", "menu", "spin", "wait"}
  BY DEF IInv, ClientOK, Dialogue, Begun, Serves, Ended
<1> QED BY <1>1 DEF IInv, PostTypeOK, ClientOK, Session, Serves

\* accept() takes the oldest connection over from the kernel.
LEMMA AcceptKeeps ==
  ASSUME IInv, Accept
  PROVE  IInv'
<1> USE DEF Accept, Proceed, sessionVars
<1>1. /\ Head(backlog) \in Waiting
      /\ Tail(backlog) \in Seq(Waiting \ {Head(backlog)})
      /\ Distinct(Tail(backlog))
  BY TailDistinct DEF IInv, Handover
<1> PICK c \in Clients : c = Head(backlog)
  BY <1>1 DEF Waiting
<1>2. child[c] = "none" /\ holders[c] = {"kernel"}
  BY <1>1 DEF Waiting
<1>3. /\ conn' = c /\ backlog' = Tail(backlog) /\ parent = "accept" /\ parent' = "fork"
      /\ holders' = [holders EXCEPT ![c] = {"parent"}]
      /\ UNCHANGED <<at, asked, typed, told, requests, replies, sigchld, handling, child,
                     logged_in, username>>
  OBVIOUS
<1>4. PostTypeOK' /\ Streams'
  BY <1>2, <1>3 DEF IInv, PostTypeOK, Streams
<1>5. \A d \in Clients : ClientOK(d)'
  <2>1. ClientOK(c)'
    <3>1. at[c] \in {"greeting", "left"}
      BY <1>2, HeldClient
    <3>2. c \notin holders'[c] /\ c \notin holders[c]
      BY <1>2, <1>3, ForkAssumption DEF IInv, PostTypeOK
    <3>3. Session(c)'
      BY <1>2, <1>3, <3>2 DEF IInv, ClientOK, Session, Serves
    <3>4. Dialogue(c)'
      BY <1>2, <1>3, <3>1 DEF IInv, ClientOK, Dialogue, Quiet, Answering, Ended
    <3>5. Views(c)'
      BY <1>2, <1>3 DEF Views, Serves
    <3> QED BY <3>3, <3>4, <3>5 DEF ClientOK
  <2>2. ASSUME NEW d \in Clients \ {c} PROVE ClientOK(d)'
    <3>1. Same(d)
      BY <1>3 DEF Same, IInv, PostTypeOK
    <3>2. ClientOK(d)
      BY DEF IInv
    <3> QED BY <3>1, <3>2, SameKeeps
  <2> QED BY <2>1, <2>2
<1>6. LeaksAreFailedForks'
  <2>1. holders'[c] = {"parent"} /\ \A d \in Clients \ {c} : holders'[d] = holders[d]
    BY <1>3 DEF IInv, PostTypeOK
  <2> QED BY <1>2, <1>3, <2>1 DEF IInv, LeaksAreFailedForks, HeldByParent
<1>7. Handover'
  <2>1. conn' \in Clients /\ holders'[conn'] = {"parent"} /\ child'[conn'] = "none"
    BY <1>2, <1>3 DEF IInv, PostTypeOK
  <2>2. Waiting \ {c} \subseteq Waiting'
    BY <1>3 DEF Waiting, IInv, PostTypeOK
  <2>3. backlog' \in Seq(Waiting') /\ Distinct(backlog)'
    BY <1>1, <1>3, <2>2, SeqMonotonic DEF Distinct
  <2> QED BY <1>3, <2>1, <2>3 DEF Handover
<1> QED BY <1>4, <1>5, <1>6, <1>7 DEF IInv

\* A connection that completes waits at the end of the backlog.
LEMMA ArriveKeeps ==
  ASSUME IInv, NEW c \in Clients, Arrive(c)
  PROVE  IInv'
<1>1. CASE ConnectFails(c) /\ UNCHANGED serverVars
  BY <1>1, LeaveKeeps DEF ConnectFails
<1>2. CASE /\ parent # "exited" /\ Connect(c) /\ backlog' = Append(backlog, c)
           /\ UNCHANGED <<parent, conn, sigchld, handling, child, sessionVars>>
  <2> USE <1>2 DEF Connect, Goto, sessionVars
  <2>1. /\ at[c] = "start" /\ at'[c] = "greeting" /\ holders[c] = {}
        /\ holders'[c] = {"kernel"} /\ child[c] = "none"
    BY DEF IInv, PostTypeOK, ClientOK, Dialogue
  <2>2. PostTypeOK' /\ Streams'
    BY DEF IInv, PostTypeOK, Streams
  <2>3. \A d \in Clients : ClientOK(d)'
    <3>1. ClientOK(c)'
      <4>1. c \notin holders'[c]
        BY <2>1, ForkAssumption
      <4> QED BY <2>1, <4>1 DEF IInv, ClientOK, Session, Serves, Dialogue, Views, Quiet
    <3>2. ASSUME NEW d \in Clients \ {c} PROVE ClientOK(d)'
      <4>1. Same(d)
        BY DEF Same, IInv, PostTypeOK
      <4> QED BY <4>1, SameKeeps DEF IInv
    <3> QED BY <3>1, <3>2
  <2>4. \A d \in Clients :
          /\ "parent" \in holders'[d] <=> "parent" \in holders[d]
          /\ holders'[d] = holders[d] \/ d = c
    BY <2>1 DEF IInv, PostTypeOK
  <2>5. LeaksAreFailedForks'
    BY <2>1, <2>4 DEF IInv, LeaksAreFailedForks, HeldByParent
  <2>6. Handover'
    <3>1. c \notin Waiting /\ Waiting \cup {c} \subseteq Waiting'
      BY <2>1 DEF Waiting, IInv, PostTypeOK
    <3>2. Append(backlog, c) \in Seq(Waiting \cup {c}) /\ Distinct(Append(backlog, c))
      BY <3>1, AppendDistinct DEF IInv, Handover
    <3>3. Append(backlog, c) \in Seq(Waiting')
      BY <3>1, <3>2, SeqMonotonic
    <3>4. backlog' \in Seq(Waiting') /\ Distinct(backlog)'
      BY <3>2, <3>3 DEF Distinct
    <3>5. /\ parent' \in {"fork", "close"} => conn' \in Clients /\ "parent" \in holders'[conn']
          /\ parent' = "fork" => child'[conn'] = "none" /\ holders'[conn'] = {"parent"}
          /\ parent' = "close" => child'[conn'] # "none"
          /\ parent' = "accept" => conn' = NULL
      BY <2>1, <2>4 DEF IInv, Handover
    <3> QED BY <3>4, <3>5 DEF Handover
  <2> QED BY <2>2, <2>3, <2>5, <2>6 DEF IInv
<1> QED BY <1>1, <1>2 DEF Arrive

\* With the parent, everything that waits is closed, and its children are reaped by
\* another.
LEMMA AcceptFailsKeeps ==
  ASSUME IInv, AcceptFails
  PROVE  IInv'
<1> USE DEF AcceptFails, Proceed, sessionVars
<1>1. \A d \in Clients :
        /\ child'[d] = IF child[d] = "zombie" THEN "reaped" ELSE child[d]
        /\ holders'[d] = holders[d] \ {"parent", "kernel"}
  OBVIOUS
<1>2. PostTypeOK' /\ Streams'
  BY DEF IInv, PostTypeOK, Streams
<1>3. ASSUME NEW d \in Clients PROVE ClientOK(d)'
  <2>1. Session(d)'
    BY <1>1, ForkAssumption DEF IInv, ClientOK, Session, Serves
  <2>2. Dialogue(d)'
    BY <1>1 DEF IInv, ClientOK, Dialogue, Quiet, Asking, Answering, Begun, Serves, Ended
  <2>3. Views(d)'
    BY <1>1 DEF IInv, ClientOK, Views, Serves, Believed, Shown
  <2> QED BY <2>1, <2>2, <2>3 DEF ClientOK
<1>4. LeaksAreFailedForks'
  BY <1>1 DEF IInv, LeaksAreFailedForks, HeldByParent
<1>5. Handover'
  BY EmptyStream DEF Handover, Distinct
<1> QED BY <1>2, <1>3, <1>4, <1>5 DEF IInv

\* fork() gives the connection a child that has not greeted yet.
LEMMA ForkKeeps ==
  ASSUME IInv, Fork
  PROVE  IInv'
<1> USE DEF Fork, Proceed, sessionVars
<1> PICK c \in Clients : c = conn
  BY DEF IInv, Handover
<1>1. "parent" \in holders[c] /\ child[c] = "none"
  BY DEF IInv, Handover
<1>2. at[c] \in {"greeting", "left"}
  BY <1>1, HeldClient
<1>3. /\ child'[c] = "start" /\ holders'[c] = {"parent", c}
      /\ \A d \in Clients \ {c} :
           /\ child'[d] = child[d]
           /\ holders'[d] = IF "parent" \in holders[d] THEN holders[d] \cup {c} ELSE holders[d]
  <2>1. holders[c] = {"parent"}
    BY DEF IInv, Handover
  <2> QED BY <2>1 DEF IInv, PostTypeOK, HeldByParent
<1>4. PostTypeOK' /\ Streams'
  BY DEF IInv, PostTypeOK, Streams
<1>5. ASSUME NEW d \in Clients PROVE ClientOK(d)'
  <2>1. CASE d = c
    <3>1. Session(c)'
      BY <1>1, <1>3 DEF IInv, ClientOK, Session, Serves
    <3>2. Dialogue(c)'
      BY <1>1, <1>2, <1>3 DEF IInv, ClientOK, Dialogue, Quiet, Answering, Ended
    <3>3. Views(c)'
      BY <1>3 DEF Views, Serves
    <3> QED BY <2>1, <3>1, <3>2, <3>3 DEF ClientOK
  <2>2. CASE d # c
    <3>1. Same(d) /\ ClientOK(d)
      BY <1>3, <2>2 DEF Same, IInv
    <3> QED BY <3>1, SameKeeps
  <2> QED BY <2>1, <2>2
<1>6. LeaksAreFailedForks'
  <2>1. ASSUME NEW d \in HeldByParent', child'[d] # "none" PROVE parent' = "close" /\ d = conn'
    <3>1. d \in HeldByParent
      BY <1>1, <1>3, <2>1, ForkAssumption DEF HeldByParent
    <3> QED BY <1>3, <2>1, <3>1 DEF IInv, LeaksAreFailedForks
  <2>2. ASSUME NEW d \in Clients, NEW e \in Clients, e \in holders'[d], e # d
        PROVE  child'[d] = "none"
    <3>1. d # c
      BY <1>3, <2>2, ForkAssumption
    <3>2. CASE e \in holders[d]
      BY <1>3, <2>2, <3>1, <3>2 DEF IInv, LeaksAreFailedForks
    <3>3. CASE e \notin holders[d]
      <4>1. d \in HeldByParent
        BY <1>3, <2>2, <3>1, <3>3 DEF HeldByParent
      <4> QED BY <1>3, <3>1, <4>1 DEF IInv, LeaksAreFailedForks
    <3> QED BY <3>2, <3>3
  <2> QED BY <2>1, <2>2 DEF LeaksAreFailedForks
<1>7. Handover'
  <2>1. Waiting \subseteq Waiting'
    BY <1>1, <1>3 DEF Waiting
  <2>2. backlog' \in Seq(Waiting')
    BY <2>1, SeqMonotonic DEF IInv, Handover
  <2> QED BY <1>1, <1>3, <2>2 DEF IInv, Handover, Distinct
<1> QED BY <1>4, <1>5, <1>6, <1>7 DEF IInv

\* A failed fork() leaves the connection with the parent.
LEMMA ForkFailsKeeps ==
  ASSUME IInv, ForkFails
  PROVE  IInv'
<1> USE DEF ForkFails, Proceed, sessionVars, clientVars
<1>1. PostTypeOK' /\ Streams'
  BY DEF IInv, PostTypeOK, Streams
<1>2. \A d \in Clients : ClientOK(d)'
  <2>1. \A d \in Clients : Same(d)
    BY DEF Same
  <2> QED BY <2>1, SameKeeps DEF IInv
<1>3. LeaksAreFailedForks'
  BY DEF IInv, LeaksAreFailedForks, HeldByParent
<1>4. Handover'
  <2>1. Waiting \subseteq Waiting'
    BY DEF Waiting
  <2>2. backlog' \in Seq(Waiting')
    BY <2>1, SeqMonotonic DEF IInv, Handover
  <2> QED BY <2>2 DEF IInv, Handover, Distinct
<1> QED BY <1>1, <1>2, <1>3, <1>4 DEF IInv

\* The parent closes its copy of a connection that has a child.
LEMMA CloseConnKeeps ==
  ASSUME IInv, CloseConn
  PROVE  IInv'
<1> USE DEF CloseConn, Proceed, sessionVars
<1> PICK c \in Clients : c = conn
  BY DEF IInv, Handover
<1>1. "parent" \in holders[c] /\ child[c] # "none"
  BY DEF IInv, Handover
<1>2. /\ holders'[c] = holders[c] \ {"parent"}
      /\ \A d \in Clients \ {c} : holders'[d] = holders[d]
  BY DEF IInv, PostTypeOK
<1>3. PostTypeOK' /\ Streams'
  BY DEF IInv, PostTypeOK, Streams
<1>4. ASSUME NEW d \in Clients PROVE ClientOK(d)'
  <2>1. CASE d = c
    <3>1. Session(c)'
      BY <1>2, ForkAssumption DEF IInv, ClientOK, Session, Serves
    <3>2. Dialogue(c)'
      BY <1>1, <1>2
         DEF IInv, ClientOK, Dialogue, Quiet, Asking, Answering, Begun, Serves, Ended
    <3>3. Views(c)'
      BY DEF IInv, ClientOK, Views, Serves, Believed, Shown
    <3> QED BY <2>1, <3>1, <3>2, <3>3 DEF ClientOK
  <2>2. CASE d # c
    <3>1. Same(d) /\ ClientOK(d)
      BY <1>2, <2>2 DEF Same, IInv
    <3> QED BY <3>1, SameKeeps
  <2> QED BY <2>1, <2>2
<1>5. LeaksAreFailedForks'
  BY <1>2 DEF IInv, LeaksAreFailedForks, HeldByParent
<1>6. Handover'
  <2>1. Waiting \subseteq Waiting'
    BY <1>1, <1>2 DEF Waiting
  <2>2. backlog' \in Seq(Waiting')
    BY <2>1, SeqMonotonic DEF IInv, Handover
  <2> QED BY <2>2 DEF IInv, Handover, Distinct
<1> QED BY <1>3, <1>4, <1>5, <1>6 DEF IInv

-----------------------------------------------------------------------------
(* The invariant and what follows from it. *)

\* It holds before the first client comes.
LEMMA InitInv == Init => IInv
<1> SUFFICES ASSUME Init PROVE IInv
  OBVIOUS
<1> USE DEF Init, ClientInit
<1>1. PostTypeOK /\ Streams
  <2>1. Streams
    BY EmptyStream DEF Streams
  <2>2. \A c \in Clients : Len(requests[c]) <= 1
    <3> TAKE c \in Clients
    <3>1. requests[c] = <<>>
      OBVIOUS
    <3>2. Len(requests[c]) = 0
      BY <3>1, EmptyStream, Zenon
    <3> QED BY <3>2, SMT
  <2> QED BY <2>1, <2>2 DEF PostTypeOK
<1>2. LeaksAreFailedForks
  BY DEF LeaksAreFailedForks, HeldByParent
<1>3. Handover
  BY EmptyStream DEF Handover, Distinct
<1>4. \A c \in Clients : ClientOK(c)
  BY DEF ClientOK, Session, Serves, Dialogue, Views, Quiet
<1> QED BY <1>1, <1>2, <1>3, <1>4 DEF IInv

\* The lines the menu can send are lines.
LEMMA UserStepKeeps ==
  ASSUME IInv, NEW c \in Clients, UserStep(c), UNCHANGED serverVars
  PROVE  IInv'
<1>1. CASE Login(c)
  <2>1. PICK u \in Names, len \in Lengths : Ask(c, u, Line("USER", u, len))
    BY <1>1 DEF Login
  <2>2. /\ Line("USER", u, len) \in Lines
        /\ Line("USER", u, len).whole => Line("USER", u, len).name = u
    BY DEF Line, Lines
  <2> QED BY <2>1, <2>2, AskKeeps
<1>2. CASE Post(c)
  <2>1. PICK len \in Lengths : Ask(c, NoName, Line("POST", NoName, len))
    BY <1>2 DEF Post
  <2>2. Line("POST", NoName, len) \in Lines /\ Line("POST", NoName, len).name = NoName
    BY DEF Line, Lines
  <2> QED BY <2>1, <2>2, AskKeeps
<1>3. CASE Logout(c)
  <2>1. [cmd |-> "BYE", name |-> NoName, whole |-> TRUE] \in Lines
    BY DEF Lines
  <2> QED BY <1>3, <2>1, AskKeeps DEF Logout
<1>4. CASE AskNonsense(c)
  <2>1. [cmd |-> "?", name |-> NoName, whole |-> TRUE] \in Lines
    BY DEF Lines
  <2> QED BY <1>4, <2>1, AskKeeps DEF AskNonsense
<1>5. CASE Exit(c) \/ Interrupt(c)
  BY <1>5, LeaveKeeps DEF Exit, Interrupt
<1>6. CASE StdinEnds(c)
  BY <1>6, StdinEndsKeeps
<1> QED BY <1>1, <1>2, <1>3, <1>4, <1>5, <1>6 DEF UserStep

\* No step of the parent, its handler, a child, a client or a user breaks it.
LEMMA NextInv == IInv /\ [Next]_vars => IInv'
<1> SUFFICES ASSUME IInv, [Next]_vars PROVE IInv'
  OBVIOUS
<1>1. CASE MainStep
  BY <1>1, AcceptKeeps, AcceptFailsKeeps, ForkKeeps, ForkFailsKeeps, CloseConnKeeps
     DEF MainStep
<1>2. CASE HandlerStep
  BY <1>2, HandlerKeeps
<1>3. ASSUME NEW c \in Clients, ProgramStep(c) PROVE IInv'
  BY <1>3, GreetedKeeps, AnsweredKeeps, LeaveKeeps
     DEF ProgramStep, ClientStep, ConnectionLost
<1>4. CASE UNCHANGED vars
  <2> USE <1>4 DEF vars, clientVars, parentVars, sessionVars
  <2>1. PostTypeOK' /\ Streams'
    BY DEF IInv, PostTypeOK, Streams
  <2>2. ParentKept /\ \A d \in Clients : Same(d)
    BY DEF ParentKept, Same
  <2>3. \A d \in Clients : ClientOK(d)'
    BY <2>2, SameKeeps DEF IInv
  <2>4. Handover' /\ LeaksAreFailedForks'
    BY <2>2, ParentKeptKeeps DEF IInv
  <2> QED BY <2>1, <2>3, <2>4 DEF IInv
<1> QED BY <1>1, <1>2, <1>3, <1>4, ChildStepKeeps, ArriveKeeps, UserStepKeeps DEF Next

\* So it always holds.
LEMMA InvHolds == Spec => []IInv
BY InitInv, NextInv, PTL DEF Spec

\* Every variable of the service stays in its range; in particular a session never
\* holds the name of an account that is locked or unknown.
THEOREM PostTyping == Spec => []PostTypeOK
<1>1. IInv => PostTypeOK
  BY DEF IInv
<1> QED BY <1>1, InvHolds, PTL

\* The parent loses a connection only to a failed fork(), however many clients come
\* and go, and a child keeps open no connection but its own and those lost before it.
THEOREM OnlyFailedForksLeak == Spec => []LeaksAreFailedForks
<1>1. IInv => LeaksAreFailedForks
  BY DEF IInv
<1> QED BY <1>1, InvHolds, PTL

\* The user at the menu was told which account the child has logged in, after any
\* sequence of commands, and told of the logout while the child is still at it.
THEOREM ViewsAgreeHolds == Spec => []ViewsAgree
<1>1. IInv => ViewsAgree
  <2> SUFFICES ASSUME IInv, NEW c \in Clients, at[c] = "menu", Serves(c)
               PROVE  told[c] = Believed(c)
    BY DEF ViewsAgree, Serves, Believed
  <2>1. replies[c] = <<>>
    BY DEF IInv, ClientOK, Dialogue, Quiet
  <2> QED BY <2>1 DEF IInv, ClientOK, Views
<1> QED BY <1>1, InvHolds, PTL

\* No client takes the reply to one request for the reply to another.
THEOREM RepliesMatchHolds == Spec => []RepliesMatch
<1>1. IInv => RepliesMatch
  <2> SUFFICES ASSUME IInv, NEW c \in Clients
               PROVE  /\ at[c] \in {"greeting", "wait"} /\ replies[c] # <<>> =>
                           Len(replies[c]) = 1 /\ Head(replies[c]) \in CodesFor(asked[c])
                      /\ at[c] = "menu" => requests[c] = <<>> /\ replies[c] = <<>>
    BY DEF RepliesMatch
  <2> QED BY DEF IInv, ClientOK, Dialogue, Quiet, Asking, Answering
<1> QED BY <1>1, InvHolds, PTL

-----------------------------------------------------------------------------
(* Why nobody waits for ever: somebody always has the next step to take. *)

\* A child that has ended is announced: SIGCHLD is pending, or its handler is still
\* in the loop over waitpid(), in a parent that lives.
ZombiesAreSignalled ==
  \A c \in Clients : child[c] = "zombie" => parent # "exited" /\ (sigchld \/ handling)

\* One pending signal is enough for any number of children: the handler leaves its
\* loop only when it finds none, so that a signal that merged into another, or came
\* while the handler ran, leaves no zombie behind.
THEOREM ZombiesAreSignalledHolds == Spec => []ZombiesAreSignalled
<1>1. Init => ZombiesAreSignalled
  BY DEF Init, ZombiesAreSignalled
<1>2. IInv /\ ZombiesAreSignalled /\ [Next]_vars => ZombiesAreSignalled'
  <2> SUFFICES ASSUME IInv, ZombiesAreSignalled, [Next]_vars,
                      NEW d \in Clients, child'[d] = "zombie"
               PROVE  parent' # "exited" /\ (sigchld' \/ handling')
    BY DEF ZombiesAreSignalled
  <2>0. child \in [Clients -> {"none", "start", "serve", "bye", "zombie", "reaped"}]
    BY DEF IInv, PostTypeOK
  <2>1. CASE MainStep
    BY <2>0, <2>1 DEF MainStep, Accept, AcceptFails, Fork, ForkFails, CloseConn, Proceed,
                ZombiesAreSignalled
  <2>2. CASE HandlerStep
    BY <2>0, <2>2 DEF HandlerStep, EnterHandler, Reap, LeaveHandler, parentVars,
                ZombiesAreSignalled
  <2>3. ASSUME NEW c \in Clients, EndChild(c)
        PROVE  parent' # "exited" /\ (sigchld' \/ handling')
    BY <2>0, <2>3 DEF EndChild, parentVars, ZombiesAreSignalled
  <2>4. ASSUME NEW c \in Clients, Welcome(c) \/ Bye(c) \/ ForgetUser(c)
        PROVE  parent' # "exited" /\ (sigchld' \/ handling')
    BY <2>0, <2>4 DEF Welcome, Bye, Take, ForgetUser, parentVars, ZombiesAreSignalled
  <2>5. ASSUME NEW c \in Clients, ChildStep(c), ~EndChild(c), ~Welcome(c), ~Bye(c),
               ~ForgetUser(c)
        PROVE  UNCHANGED <<parent, sigchld, handling, child>>
    BY <2>5 DEF ChildStep, NoMemory, Disconnected, LogIn, LogInWithoutName, RefuseLogIn,
                LoadFails, TakePost, ByeRefused, Unknown, Serve, Take, parentVars
  <2>6. ASSUME NEW c \in Clients,
               Arrive(c) \/ ProgramStep(c) \/ (UserStep(c) /\ UNCHANGED serverVars)
        PROVE  UNCHANGED <<parent, sigchld, handling, child>>
    BY <2>6 DEF Arrive, ProgramStep, serverVars, parentVars
  <2>7. ASSUME UNCHANGED <<parent, sigchld, handling, child>>
        PROVE  parent' # "exited" /\ (sigchld' \/ handling')
    BY <2>7 DEF ZombiesAreSignalled
  <2>8. CASE UNCHANGED vars
    BY <2>7, <2>8 DEF vars, parentVars
  <2>9. ASSUME NEW c \in Clients,
               \/ ChildStep(c)
               \/ Arrive(c) \/ ProgramStep(c) \/ (UserStep(c) /\ UNCHANGED serverVars)
        PROVE  parent' # "exited" /\ (sigchld' \/ handling')
    BY <2>3, <2>4, <2>5, <2>6, <2>7, <2>9
  <2> QED BY <2>1, <2>2, <2>8, <2>9 DEF Next
<1> QED BY <1>1, <1>2, InvHolds, PTL DEF Spec

InBacklog(c) == \E k \in 1..Len(backlog) : backlog[k] = c

\* What the kernel holds is a connection nobody has accepted, and it is in the backlog
\* of a parent that lives.
KernelHolds ==
  \A c \in Clients : "kernel" \in holders[c] =>
    parent # "exited" /\ child[c] = "none" /\ holders[c] = {"kernel"} /\ InBacklog(c)

\* A step that touches neither the backlog nor the holders, and ends no parent.
LEMMA KernelKept ==
  ASSUME KernelHolds, UNCHANGED <<holders, backlog>>, parent' = "exited" => parent = "exited",
         \A d \in Clients : child[d] = "none" => child'[d] = "none"
  PROVE  KernelHolds'
BY DEF KernelHolds, InBacklog

\* Neither the parent nor a child that takes over or gives up connections touches
\* what the kernel holds.
LEMMA KernelApart ==
  ASSUME KernelHolds, UNCHANGED backlog, parent' = "exited" => parent = "exited",
         \A d \in Clients :
           "kernel" \in holders'[d] => holders'[d] = holders[d] /\ child'[d] = child[d]
  PROVE  KernelHolds'
BY DEF KernelHolds, InBacklog

\* accept() takes the head of the backlog, and the rest stays in it.
LEMMA KernelAccept ==
  ASSUME IInv, KernelHolds, Accept
  PROVE  KernelHolds'
<1>1. backlog # <<>> /\ backlog \in Seq(Waiting)
  BY DEF Accept, IInv, Handover
<1>2. /\ Head(backlog) = backlog[1] /\ Head(backlog) \in Waiting
      /\ Len(backlog) \in Nat \ {0}
  <2>1. Head(backlog) \in Waiting
    BY <1>1, HeadTailProperties, Zenon
  <2>2. Len(backlog) \in Nat \ {0}
    BY <1>1, EmptySeq, Zenon
  <2> QED BY <1>1, <2>1, <2>2
<1>3. /\ Len(Tail(backlog)) = Len(backlog) - 1
      /\ \A k \in 1..Len(Tail(backlog)) : Tail(backlog)[k] = backlog[k + 1]
  BY <1>1, HeadTailProperties, Zenon
<1> PICK c \in Clients : c = Head(backlog)
  BY <1>2 DEF Waiting
<1>4. /\ backlog' = Tail(backlog) /\ parent' = "fork" /\ child' = child
      /\ holders' = [holders EXCEPT ![c] = {"parent"}]
  BY DEF Accept, Proceed
<1>5. holders \in [Clients -> SUBSET ({"kernel", "parent"} \cup Clients)]
  BY DEF IInv, PostTypeOK
<1>6. ASSUME NEW d \in Clients, "kernel" \in holders'[d]
      PROVE  child'[d] = "none" /\ holders'[d] = {"kernel"} /\ InBacklog(d)'
  <2>1. d # c /\ holders'[d] = holders[d]
    BY <1>4, <1>5, <1>6
  <2>2. child[d] = "none" /\ holders[d] = {"kernel"} /\ InBacklog(d)
    BY <1>6, <2>1 DEF KernelHolds
  <2>3. PICK k \in 1..Len(backlog) : backlog[k] = d
    BY <2>2 DEF InBacklog
  <2>4. k # 1
    BY <1>2, <2>1, <2>3
  <2>5. k - 1 \in 1..Len(Tail(backlog)) /\ (k - 1) + 1 = k
    BY <1>2, <1>3, <2>4
  <2>6. Tail(backlog)[k - 1] = d
    BY <1>3, <2>3, <2>5
  <2>7. \E j \in 1..Len(Tail(backlog)) : Tail(backlog)[j] = d
    BY <2>5, <2>6
  <2> QED BY <1>4, <2>1, <2>2, <2>7 DEF InBacklog
<1> QED BY <1>4, <1>6 DEF KernelHolds

\* A connection that completes is put at the end of the backlog.
LEMMA KernelConnect ==
  ASSUME IInv, KernelHolds, NEW c \in Clients, Arrive(c)
  PROVE  KernelHolds'
<1>1. CASE ConnectFails(c) /\ UNCHANGED serverVars
  BY <1>1, KernelKept DEF ConnectFails, Leave, serverVars, parentVars
<1>2. CASE /\ parent # "exited" /\ Connect(c) /\ backlog' = Append(backlog, c)
           /\ UNCHANGED <<parent, conn, sigchld, handling, child, sessionVars>>
  <2>1. child[c] = "none"
    BY <1>2 DEF Connect, Goto, IInv, ClientOK, Dialogue
  <2>2. holders' = [holders EXCEPT ![c] = {"kernel"}]
        /\ holders \in [Clients -> SUBSET ({"kernel", "parent"} \cup Clients)]
    BY <1>2 DEF Connect, IInv, PostTypeOK
  <2>3. backlog \in Seq(Clients) /\ Len(backlog) \in Nat
    <3>1. Waiting \subseteq Clients /\ backlog \in Seq(Waiting)
      BY DEF Waiting, IInv, Handover
    <3> QED BY <3>1, SeqMonotonic, LenProperties
  <2>4. /\ Len(backlog') = Len(backlog) + 1
        /\ \A k \in 1..Len(backlog) : backlog'[k] = backlog[k]
        /\ backlog'[Len(backlog) + 1] = c
    BY <1>2, <2>3, AppendProperties
  <2>5. ASSUME NEW d \in Clients, "kernel" \in holders'[d]
        PROVE  child[d] = "none" /\ holders'[d] = {"kernel"} /\ InBacklog(d)'
    <3>1. CASE d = c
      <4>1. Len(backlog) + 1 \in 1..Len(backlog')
        BY <2>3, <2>4
      <4>2. \E k \in 1..Len(backlog') : backlog'[k] = d
        BY <2>4, <3>1, <4>1
      <4> QED BY <2>1, <2>2, <3>1, <4>2 DEF InBacklog
    <3>2. CASE d # c
      <4>1. holders'[d] = holders[d]
        BY <2>2, <3>2
      <4>2. child[d] = "none" /\ holders[d] = {"kernel"} /\ InBacklog(d)
        BY <2>5, <4>1 DEF KernelHolds
      <4>3. PICK k \in 1..Len(backlog) : backlog[k] = d
        BY <4>2 DEF InBacklog
      <4>4. k \in 1..Len(backlog') /\ backlog'[k] = d
        BY <2>3, <2>4, <4>3
      <4>5. \E j \in 1..Len(backlog') : backlog'[j] = d
        BY <4>4
      <4> QED BY <4>1, <4>2, <4>5 DEF InBacklog
    <3> QED BY <3>1, <3>2
  <2> QED BY <1>2, <2>5 DEF KernelHolds
<1> QED BY <1>1, <1>2 DEF Arrive

LEMMA NextKernel == IInv /\ KernelHolds /\ [Next]_vars => KernelHolds'
<1> SUFFICES ASSUME IInv, KernelHolds, [Next]_vars PROVE KernelHolds'
  OBVIOUS
<1>0. /\ holders \in [Clients -> SUBSET ({"kernel", "parent"} \cup Clients)]
      /\ child \in [Clients -> {"none", "start", "serve", "bye", "zombie", "reaped"}]
  BY DEF IInv, PostTypeOK
<1>1. CASE Fork \/ CloseConn
  <2> PICK c \in Clients : c = conn
    BY <1>1 DEF Fork, CloseConn, Proceed, IInv, Handover
  <2>1. "parent" \in holders[c]
    BY <1>1 DEF Fork, CloseConn, Proceed, IInv, Handover
  <2>2. "kernel" \notin holders[c]
    BY <2>1 DEF KernelHolds
  <2>3. c # "kernel" /\ UNCHANGED backlog /\ parent' # "exited"
    BY <1>1, ForkAssumption DEF Fork, CloseConn, Proceed
  <2>4. ASSUME NEW d \in Clients, "kernel" \in holders'[d]
        PROVE  holders'[d] = holders[d] /\ child'[d] = child[d]
    <3>1. "kernel" \in holders[d]
      BY <1>0, <1>1, <2>3, <2>4 DEF Fork, CloseConn
    <3>2. d # c /\ "parent" \notin holders[d]
      BY <2>2, <3>1 DEF KernelHolds
    <3> QED BY <1>0, <1>1, <3>2 DEF Fork, CloseConn, HeldByParent
  <2> QED BY <2>3, <2>4, KernelApart
<1>2. CASE AcceptFails
  <2>1. \A d \in Clients : "kernel" \notin holders'[d]
    BY <1>2 DEF AcceptFails
  <2> QED BY <2>1 DEF KernelHolds
<1>3. CASE ForkFails
  BY <1>3, KernelKept DEF ForkFails, Proceed, clientVars
<1>4. CASE HandlerStep
  BY <1>0, <1>4, KernelKept
     DEF HandlerStep, EnterHandler, Reap, LeaveHandler, clientVars, parentVars
<1>5. ASSUME NEW c \in Clients, EndChild(c), child[c] \in {"start", "serve"}
      PROVE  KernelHolds'
  <2>1. "kernel" \notin holders[c]
    BY <1>5 DEF KernelHolds
  <2>2. /\ UNCHANGED <<backlog, parent>>
        /\ \A d \in Clients : holders'[d] = holders[d] \ {c}
        /\ \A d \in Clients \ {c} : child'[d] = child[d]
    BY <1>0, <1>5 DEF EndChild, parentVars
  <2>3. ASSUME NEW d \in Clients, "kernel" \in holders'[d]
        PROVE  holders'[d] = holders[d] /\ child'[d] = child[d]
    <3>1. "kernel" \in holders[d] /\ d # c
      BY <2>1, <2>2, <2>3
    <3>2. holders[d] = {"kernel"}
      BY <3>1 DEF KernelHolds
    <3> QED BY <2>2, <3>1, <3>2, ForkAssumption
  <2> QED BY <2>2, <2>3, KernelApart
<1>6. ASSUME NEW c \in Clients, ChildStep(c) PROVE KernelHolds'
  <2>1. CASE NoMemory(c) \/ Disconnected(c)
    BY <1>5, <2>1 DEF NoMemory, Disconnected
  <2>2. CASE Welcome(c) \/ Bye(c) \/ ForgetUser(c)
    BY <1>0, <2>2, KernelKept DEF Welcome, Bye, Take, ForgetUser, clientVars, parentVars
  <2>3. CASE /\ ~NoMemory(c) /\ ~Disconnected(c)
             /\ ~Welcome(c) /\ ~Bye(c) /\ ~ForgetUser(c)
    BY <1>6, <2>3, KernelKept
       DEF ChildStep, LogIn, LogInWithoutName, RefuseLogIn, LoadFails, TakePost,
           ByeRefused, Unknown, Serve, Take, parentVars
  <2> QED BY <2>1, <2>2, <2>3
<1>7. ASSUME NEW c \in Clients, ProgramStep(c) \/ (UserStep(c) /\ UNCHANGED serverVars)
      PROVE  KernelHolds'
  <2>1. UNCHANGED <<holders, backlog, parent, child>>
    BY <1>7 DEF ProgramStep, ClientStep, UserStep, Greeted, Answered, ConnectionLost,
                Login, Post, Logout, AskNonsense, Ask, Exit, StdinEnds, Interrupt, Leave,
                serverVars, parentVars
  <2> QED BY <2>1, KernelKept
<1>8. CASE UNCHANGED vars
  BY <1>8, KernelKept DEF vars, clientVars, parentVars
<1> QED BY <1>1, <1>2, <1>3, <1>4, <1>6, <1>7, <1>8, KernelAccept, KernelConnect
        DEF Next, MainStep

\* The client can read its answer or the end of the connection.
CanRead(c) == replies[c] # <<>> \/ holders[c] = {}

\* The child has to greet the client, or to come back to its lines, or has a whole line
\* to answer.
ChildOwes(c) ==
  \/ child[c] \in {"start", "bye"}
  \/ child[c] = "serve" /\ requests[c] # <<>> /\ Head(requests[c]).whole

\* The parent has to accept the connection, to fork for it, or to close its copy.
ParentOwes(c) ==
  /\ parent # "exited"
  /\ InBacklog(c) \/ (parent \in {"fork", "close"} /\ conn = c)

\* A client that waits has the next step itself, or its child or the parent has it:
\* what each of them waits for is never the client.  The exceptions are a line that
\* lost its end and a connection whose fork() failed, as long as the parent or a child
\* that inherited it keeps it open.
SomebodyOwes ==
  \A c \in Clients : at[c] \in {"greeting", "wait"} =>
    \/ CanRead(c)
    \/ ChildOwes(c)
    \/ ParentOwes(c)
    \/ Cut(c)
    \/ Leaked(c)

\* Parent, child and client never wait for each other in a circle, whatever fails and
\* in whatever order they run.
THEOREM SomebodyOwesHolds == Spec => []SomebodyOwes
<1>1. Init => KernelHolds
  BY DEF Init, ClientInit, KernelHolds
<1>2. IInv /\ KernelHolds => SomebodyOwes
  <2> SUFFICES ASSUME IInv, KernelHolds, NEW c \in Clients, at[c] \in {"greeting", "wait"},
                      ~CanRead(c), ~ChildOwes(c), ~ParentOwes(c), ~Cut(c)
               PROVE  Leaked(c)
    BY DEF SomebodyOwes
  <2>1. /\ Session(c) /\ Dialogue(c) /\ replies[c] = <<>> /\ holders[c] # {}
        /\ holders[c] \subseteq {"kernel", "parent"} \cup Clients
        /\ child[c] \in {"none", "start", "serve", "bye", "zombie", "reaped"}
    BY DEF IInv, ClientOK, CanRead, PostTypeOK
  <2>2. ~Answering(c)
    BY <2>1, EmptyStream DEF Answering
  <2>3. "kernel" \notin holders[c]
    BY DEF KernelHolds, ParentOwes
  <2>4. child[c] # "serve"
    <3> SUFFICES ASSUME child[c] = "serve" PROVE FALSE
      OBVIOUS
    <3>1. Asking(c)
      BY <2>1, <2>2 DEF Dialogue
    <3>2. requests[c] \in Seq(Lines) /\ Len(requests[c]) = 1
      BY <3>1 DEF Asking, IInv, Streams
    <3>3. requests[c] # <<>>
      <4> SUFFICES ASSUME requests[c] = <<>> PROVE FALSE
        OBVIOUS
      <4>1. Len(requests[c]) = 0
        BY EmptyStream, Zenon
      <4> QED BY <3>2, <4>1
    <3>4. Head(requests[c]) = requests[c][1] /\ 1 \in 1..Len(requests[c])
      BY <3>2, <3>3
    <3> QED BY <3>3, <3>4 DEF ChildOwes, Cut
  <2>5. c \notin holders[c]
    BY <2>1, <2>4 DEF Session, ChildOwes
  <2>6. PICK p \in holders[c] : p = "parent" \/ p \in Clients \ {c}
    BY <2>1, <2>3, <2>5
  <2>7. ~(parent \in {"fork", "close"} /\ conn = c)
    BY DEF ParentOwes
  <2>8. child[c] = "none"
    <3>1. CASE p = "parent"
      BY <2>6, <2>7, <3>1 DEF IInv, LeaksAreFailedForks, HeldByParent
    <3>2. CASE p \in Clients \ {c}
      BY <2>6, <3>2 DEF IInv, LeaksAreFailedForks
    <3> QED BY <2>6, <3>1, <3>2
  <2>9. holders[c] \ {"kernel"} # {}
    BY <2>3, <2>6
  <2> QED BY <2>7, <2>8, <2>9 DEF Leaked
<1> QED BY <1>1, <1>2, NextKernel, InvHolds, InitInv, NextInv, PTL DEF Spec
==============================================================================
