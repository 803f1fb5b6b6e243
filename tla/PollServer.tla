------------------------------ MODULE PollServer ------------------------------
(***************************************************************************)
(* The poll-and-thread-pool post server of HW7/TCP_Server: one main thread *)
(* polls the sockets, accepts, reads commands and puts them into the work  *)
(* queue (module WorkQueue); the workers take them out and answer.         *)
(*                                                                         *)
(* A work item holds a bare pointer to the Session of its client.  main()  *)
(* frees that Session when the client goes, and malloc() may hand the same *)
(* address to the next client; so a session is named by its address.       *)
(*                                                                         *)
(* A client's data is counted in half commands: recv() returns any part of *)
(* what has arrived, and may end in the middle of a command.               *)
(***************************************************************************)
EXTENDS WorkQueue, Sequences

CONSTANTS
  Conns,        \* connections clients make, in the life of the server
  Fds,          \* descriptors accept() can return
  NoFd,         \* fd of an unused poll slot
  Heap,         \* addresses malloc() may return for a Session
  PollSize,     \* INITIAL_POLL_SIZE
  MaxPollSize,  \* bound: the slots realloc() can provide
  MaxCommands   \* bound: commands a client sends on one connection

NoConn == "none"
NoSession == "NULL"

ASSUME PollAssumption ==
  /\ NoFd \notin Fds
  /\ NoConn \notin Conns
  /\ NoSession \notin Heap
  /\ PollSize \in Nat \ {0}
  /\ MaxPollSize \in Nat /\ PollSize <= MaxPollSize
  /\ MaxCommands \in Nat
  \* A work item: command number n of connection conn, and the session pointer.
  /\ Items = [session : Heap, conn : Conns, n : 1..MaxCommands]

VARIABLES
  fate,       \* "running", or "sigpipe", or "undefined" once the outcome is open
  peer,       \* state of the client end of each connection
  sent,       \* half commands each client has sent
  rcvd,       \* half commands recv() has taken from each connection
  behind,     \* connection behind each descriptor
  backlog,    \* connections completed and not accepted
  poll_size,
  poll_fds,   \* [fd, revents] of slots 1..MaxPollSize; slot 1 is the listener
  sessions,   \* session pointer of each slot
  poll_count,
  active_connections,
  heap,       \* which addresses are live sessions
  ses,        \* contents of each address: sockfd, and whose command logged it in
  at,         \* where main() is
  i,          \* its loop variable
  cur,        \* its local variable session
  buf,        \* half commands in out_buf
  locked,     \* the sessions whose session_lock is held
  step,       \* where each worker is with its item
  wfd,        \* sockfd, local to the function a worker runs
  answers     \* history: [conn, n] of the answers each connection received

mainVars == <<at, i, cur, buf>>
pollVars == <<poll_size, poll_fds, sessions, poll_count, active_connections>>
netVars == <<peer, sent, rcvd, behind, backlog>>
workVars == <<locked, step, wfd>>
vars == <<queueVars, fate, netVars, pollVars, heap, ses, mainVars, workVars, answers>>

Slots == 1..MaxPollSize
Listener == 1
Steps == {"idle", "check", "run", "locked", "granted", "answer", "bye"}

Init ==
  /\ QueueInit
  /\ fate = "running"
  /\ peer = [c \in Conns |-> "new"]
  /\ sent = [c \in Conns |-> 0]
  /\ rcvd = [c \in Conns |-> 0]
  /\ behind = [f \in Fds |-> NoConn]
  /\ backlog = {}
  /\ poll_size = PollSize
  /\ poll_fds = [k \in Slots |-> [fd |-> NoFd, revents |-> FALSE]]
  /\ sessions = [k \in Slots |-> NoSession]
  /\ poll_count = 1
  /\ active_connections = 0
  /\ heap = {}
  /\ ses = [s \in Heap |-> [sockfd |-> NoFd, logged_in |-> NoConn]]
  /\ at = "poll"
  /\ i = 1
  /\ cur = NoSession
  /\ buf = 0
  /\ locked = {}
  /\ step = [w \in Workers |-> "idle"]
  /\ wfd = [w \in Workers |-> NoFd]
  /\ answers = [c \in Conns |-> <<>>]

-----------------------------------------------------------------------------
(* Clients *)

Connect(c) ==
  /\ peer[c] = "new"
  /\ peer' = [peer EXCEPT ![c] = "up"]
  /\ backlog' = backlog \cup {c}
  /\ UNCHANGED <<queueVars, fate, sent, rcvd, behind, pollVars, heap, ses, mainVars,
                 workVars, answers>>

SendHalf(c) ==
  /\ peer[c] = "up"
  /\ sent[c] < 2 * MaxCommands
  /\ sent' = [sent EXCEPT ![c] = @ + 1]
  /\ UNCHANGED <<queueVars, fate, peer, rcvd, behind, backlog, pollVars, heap, ses,
                 mainVars, workVars, answers>>

Close(c) ==
  /\ peer[c] = "up"
  /\ peer' = [peer EXCEPT ![c] = "down"]
  /\ UNCHANGED <<queueVars, fate, sent, rcvd, behind, backlog, pollVars, heap, ses,
                 mainVars, workVars, answers>>

\* send() to connection c.  A peer that closed may already have reset the
\* connection: then SIGPIPE ends the process.
SendRaw(c) ==
  IF peer[c] = "down" THEN fate' \in {fate, "sigpipe"} ELSE UNCHANGED fate

\* A worker's answer on descriptor f: an error when f is closed.
Send(f, answer) ==
  \/ /\ behind[f] = NoConn
     /\ UNCHANGED <<fate, answers>>
  \/ /\ behind[f] # NoConn
     /\ SendRaw(behind[f])
     /\ answers' = IF peer[behind[f]] = "down" THEN answers
                   ELSE [answers EXCEPT ![behind[f]] = Append(@, answer)]

-----------------------------------------------------------------------------
(* main(): poll() and the loop over the slots *)

Readable(k) ==
  IF k = Listener
    THEN backlog # {}
    ELSE LET c == behind[poll_fds[k].fd]
         IN  sent[c] > rcvd[c] \/ peer[c] = "down"

\* poll() waits for an event and writes revents of the slots it was given.
Poll ==
  /\ at = "poll"
  /\ \E k \in 1..poll_count : Readable(k)
  /\ poll_fds' = [k \in Slots |-> IF k <= poll_count
                                    THEN [poll_fds[k] EXCEPT !.revents = Readable(k)]
                                    ELSE poll_fds[k]]
  /\ at' = "loop"
  /\ i' = 1
  /\ UNCHANGED <<queueVars, fate, netVars, poll_size, sessions, poll_count,
                 active_connections, heap, ses, cur, buf, workVars, answers>>

\* The for loop passes over the slots without an event.
LoopEnds ==
  /\ at = "loop"
  /\ \A k \in i..poll_count : ~poll_fds[k].revents
  /\ at' = "poll"
  /\ i' = 1
  /\ UNCHANGED <<queueVars, fate, netVars, pollVars, heap, ses, cur, buf, workVars, answers>>

SkipSlots ==
  /\ at = "loop"
  /\ \E k \in i + 1..poll_count :
       /\ poll_fds[k].revents
       /\ \A l \in i..k - 1 : ~poll_fds[l].revents
       /\ i' = k
  /\ UNCHANGED <<queueVars, fate, netVars, pollVars, heap, ses, at, cur, buf, workVars, answers>>

AtListener == at = "loop" /\ i = Listener /\ poll_fds[i].revents

FreeFds == {f \in Fds : behind[f] = NoConn}

\* accept() fails: no descriptor is left.
AcceptFails ==
  /\ AtListener
  /\ FreeFds = {}
  /\ i' = i + 1
  /\ UNCHANGED <<queueVars, fate, netVars, pollVars, heap, ses, at, cur, buf, workVars,
                 answers>>

\* expand_poll_arrays(): the new slots get no revents, so theirs is any value.
Expanded(n) ==
  {[k \in Slots |-> IF k \in DOMAIN r THEN [fd |-> NoFd, revents |-> r[k]]
                    ELSE poll_fds[k]]
     : r \in [poll_size + 1..n -> BOOLEAN]}

\* Mutant: "poll_count > poll_size" in place of ">=".
HasRoomForOneMore == poll_count <= poll_size

HasRoom == poll_count < poll_size

Grow ==
  /\ ~HasRoom
  /\ 2 * poll_size <= MaxPollSize
  /\ poll_size' = 2 * poll_size

\* malloc() has no memory for the session, after the arrays were full and realloc()
\* may have had some for them: "500", and the socket is closed.
RejectClient(c) ==
  /\ AtListener
  /\ c \in backlog
  /\ FreeFds # {}
  /\ \/ UNCHANGED <<poll_size, poll_fds>>
     \/ Grow /\ poll_fds' \in Expanded(poll_size')
  /\ backlog' = backlog \ {c}
  /\ i' = i + 1
  /\ SendRaw(c)
  /\ UNCHANGED <<queueVars, peer, sent, rcvd, behind, sessions, poll_count,
                 active_connections, heap, ses, at, cur, buf, workVars, answers>>

\* add_to_poll() and the welcome.  The revents of the slot are left as they are,
\* and the lock of the session is a new one.
AcceptClient(c, f, s) ==
  /\ AtListener
  /\ c \in backlog
  /\ f \in FreeFds
  /\ s \in Heap \ heap
  /\ \/ /\ HasRoom
        /\ poll_fds' = [poll_fds EXCEPT ![poll_count + 1].fd = f]
        /\ UNCHANGED poll_size
     \/ /\ Grow
        /\ \E p \in Expanded(poll_size') :
             poll_fds' = [p EXCEPT ![poll_count + 1].fd = f]
  /\ backlog' = backlog \ {c}
  /\ behind' = [behind EXCEPT ![f] = c]
  /\ heap' = heap \cup {s}
  /\ ses' = [ses EXCEPT ![s] = [sockfd |-> f, logged_in |-> NoConn]]
  /\ locked' = locked \ {s}
  /\ sessions' = [sessions EXCEPT ![poll_count + 1] = s]
  /\ poll_count' = poll_count + 1
  /\ active_connections' = active_connections + 1
  /\ i' = i + 1
  /\ SendRaw(c)
  /\ UNCHANGED <<queueVars, peer, sent, rcvd, at, cur, buf, step, wfd, answers>>

\* realloc() may fail: expand_poll_arrays() returns without room, and add_to_poll()
\* writes past the end of the arrays.
AcceptOverrun ==
  /\ AtListener
  /\ backlog # {}
  /\ FreeFds # {}
  /\ Heap # heap
  /\ ~HasRoom
  /\ poll_count' = poll_count + 1
  /\ fate' = "undefined"
  /\ UNCHANGED <<queueVars, netVars, poll_size, poll_fds, sessions, active_connections,
                 heap, ses, mainVars, workVars, answers>>

-----------------------------------------------------------------------------
(* main(): recv_until_delim() and what follows it *)

ReadSlot ==
  /\ at = "loop"
  /\ i # Listener
  /\ i <= poll_count
  /\ poll_fds[i].revents
  /\ at' = "recv"
  /\ cur' = sessions[i]
  /\ UNCHANGED <<queueVars, fate, netVars, pollVars, heap, ses, i, buf, workVars, answers>>

Conn == behind[ses[cur].sockfd]

\* recv() has neither data nor an end of file to return: it blocks.
NothingToRecv == buf < 2 /\ sent[Conn] = rcvd[Conn] /\ peer[Conn] = "up"

Recv ==
  /\ at = "recv"
  /\ buf < 2
  /\ \E k \in 1..sent[Conn] - rcvd[Conn] :
       /\ buf' = buf + k
       /\ rcvd' = [rcvd EXCEPT ![Conn] = @ + k]
  /\ UNCHANGED <<queueVars, fate, peer, sent, behind, backlog, pollVars, heap, ses, at,
                 i, cur, workVars, answers>>

\* Mutant: the session of the last slot.
WorkItemOfLast ==
  [session |-> sessions[poll_count], conn |-> Conn, n |-> (rcvd[Conn] - buf) \div 2 + 1]

\* What main() enqueues: its pointer, and the command that buf begins with.
WorkItem == [session |-> cur, conn |-> Conn, n |-> (rcvd[Conn] - buf) \div 2 + 1]

\* A whole command.  The rest goes to session->leftover, and as long as there is
\* a rest main() stays with the session, whose leftover it takes back at once.
Command ==
  /\ at = "recv"
  /\ buf >= 2
  /\ Enqueue(WorkItem) \/ Drop
  /\ IF buf = 2
       THEN /\ at' = "loop"
            /\ i' = i + 1
            /\ cur' = NoSession
            /\ buf' = 0
       ELSE /\ buf' = buf - 2
            /\ UNCHANGED <<at, i, cur>>
  /\ UNCHANGED <<fate, netVars, pollVars, heap, ses, workVars, answers>>

\* Mutant: the last slot is not moved.
ShiftedShort(a) == [k \in Slots |-> IF k \in i..poll_count - 2 THEN a[k + 1] ELSE a[k]]

Shifted(a) == [k \in Slots |-> IF k \in i..poll_count - 1 THEN a[k + 1] ELSE a[k]]

\* Mutant: "bytes < 0" in place of "bytes <= 0".
RecvFails == FALSE

RecvEnds == buf < 2 /\ sent[Conn] = rcvd[Conn] /\ peer[Conn] = "down"

\* recv() ended or failed, or the command was empty: the socket is closed, and
\* remove_from_poll() frees the session and moves the slots behind it down.
Disconnect ==
  /\ at = "recv"
  /\ \/ RecvEnds /\ buf' = 0
     \/ buf >= 2 /\ buf' = buf - 2
  /\ behind' = [behind EXCEPT ![ses[cur].sockfd] = NoConn]
  /\ heap' = heap \ {cur}
  /\ poll_fds' = Shifted(poll_fds)
  /\ sessions' = Shifted(sessions)
  /\ poll_count' = poll_count - 1
  /\ active_connections' = active_connections - 1
  /\ at' = "freed"
  /\ UNCHANGED <<queueVars, fate, peer, sent, rcvd, backlog, poll_size, ses, i, cur,
                 workVars, answers>>

\* session->leftover_len is read after the session was freed.  When the memory
\* still holds 0, main() goes on with the slot that moved to i.
ReadFreed ==
  /\ at = "freed"
  /\ \/ buf = 0 /\ at' = "loop" /\ cur' = NoSession /\ UNCHANGED <<fate, buf>>
     \/ fate' = "undefined" /\ UNCHANGED <<at, cur, buf>>
  /\ UNCHANGED <<queueVars, netVars, pollVars, heap, ses, i, workVars, answers>>

-----------------------------------------------------------------------------
(* worker_thread() *)

GetWork(w) ==
  /\ Dequeue(w)
  /\ step' = [step EXCEPT ![w] = "check"]
  /\ UNCHANGED <<fate, netVars, pollVars, heap, ses, mainVars, locked, wfd, answers>>

Sleep(w) ==
  /\ Wait(w)
  /\ UNCHANGED <<fate, netVars, pollVars, heap, ses, mainVars, workVars, answers>>

WakeUp(w) ==
  /\ SpuriousWakeup(w)
  /\ UNCHANGED <<fate, netVars, pollVars, heap, ses, mainVars, workVars, answers>>

\* "item.session->active": of freed memory it is any value.
CheckActive(w) ==
  /\ step[w] = "check"
  /\ step' = [step EXCEPT ![w] = "run"]
  /\ UNCHANGED <<queueVars, fate, netVars, pollVars, heap, ses, mainVars, locked, wfd,
                 answers>>

Inactive(w) ==
  /\ step[w] = "check"
  /\ item[w].session \notin heap
  /\ Finish(w)
  /\ step' = [step EXCEPT ![w] = "idle"]
  /\ UNCHANGED <<fate, netVars, pollVars, heap, ses, mainVars, locked, wfd, answers>>

\* What process_command() does is undefined once main() has freed the session, or
\* works on whatever is left there: each of the steps below goes on in both cases.
Freed(w) == item[w].session \notin heap

\* USER, POST and BYE take session_lock and then read sockfd; an unknown command
\* reads sockfd without the lock.
ReadSockfd(w, to) ==
  /\ step[w] = "run"
  /\ step' = [step EXCEPT ![w] = to]
  /\ wfd' = [wfd EXCEPT ![w] = ses[item[w].session].sockfd]
  /\ UNCHANGED <<queueVars, fate, netVars, pollVars, heap, ses, mainVars, answers>>

LockSession(w) ==
  /\ ReadSockfd(w, "locked")
  /\ Freed(w) \/ item[w].session \notin locked
  /\ locked' = locked \cup {item[w].session}

UnknownCommand(w) == ReadSockfd(w, "answer") /\ UNCHANGED locked

\* USER logs the session in before it answers.
LogIn(w) ==
  LET s == item[w].session IN
  /\ step[w] = "locked"
  /\ Freed(w) \/ ses[s].logged_in = NoConn
  /\ ses' = [ses EXCEPT ![s].logged_in = item[w].conn]
  /\ step' = [step EXCEPT ![w] = "granted"]
  /\ UNCHANGED <<queueVars, fate, netVars, pollVars, heap, mainVars, locked, wfd,
                 answers>>

\* The end of process_command(): the lock is given back, if it was taken.
Return(w) ==
  /\ Finish(w)
  /\ step' = [step EXCEPT ![w] = "idle"]
  /\ wfd' = [wfd EXCEPT ![w] = NoFd]
  /\ locked' = IF step[w] = "answer" THEN locked ELSE locked \ {item[w].session}

Answer(w) == Send(wfd[w], [conn |-> item[w].conn, n |-> item[w].n])

\* The answer to everything but a BYE of a client that is logged in.
Reply(w) ==
  /\ step[w] \in {"locked", "granted", "answer"}
  /\ Answer(w)
  /\ Return(w)
  /\ UNCHANGED <<netVars, pollVars, heap, ses, mainVars>>

\* BYE answers first,
ReplyBye(w) ==
  /\ step[w] = "locked"
  /\ Freed(w) \/ ses[item[w].session].logged_in # NoConn
  /\ Answer(w)
  /\ step' = [step EXCEPT ![w] = "bye"]
  /\ UNCHANGED <<queueVars, netVars, pollVars, heap, ses, mainVars, locked, wfd>>

\* and then logs the session out.
LogOut(w) ==
  /\ step[w] = "bye"
  /\ ses' = [ses EXCEPT ![item[w].session].logged_in = NoConn]
  /\ Return(w)
  /\ UNCHANGED <<fate, netVars, pollVars, heap, mainVars, answers>>

UseFreed(w) ==
  /\ step[w] \notin {"idle", "check"}
  /\ Freed(w)
  /\ fate' = "undefined"
  /\ UNCHANGED <<queueVars, netVars, pollVars, heap, ses, mainVars, workVars, answers>>

-----------------------------------------------------------------------------
MainStep ==
  /\ fate = "running"
  /\ \/ Poll
     \/ LoopEnds
     \/ SkipSlots
     \/ AcceptFails
     \/ \E c \in Conns : RejectClient(c)
     \/ \E c \in Conns, f \in Fds, s \in Heap : AcceptClient(c, f, s)
     \/ AcceptOverrun
     \/ ReadSlot
     \/ Recv
     \/ Command
     \/ Disconnect
     \/ ReadFreed

WorkerMoves(w) ==
  /\ fate = "running"
  /\ \/ GetWork(w)
     \/ Sleep(w)
     \/ WakeUp(w)
     \/ CheckActive(w)
     \/ Inactive(w)
     \/ LockSession(w)
     \/ UnknownCommand(w)
     \/ LogIn(w)
     \/ Reply(w)
     \/ ReplyBye(w)
     \/ LogOut(w)
     \/ UseFreed(w)

ClientStep ==
  /\ fate = "running"
  /\ \E c \in Conns : Connect(c) \/ SendHalf(c) \/ Close(c)

\* The process has ended, or what it does is open.
Ended == fate # "running" /\ UNCHANGED vars

PollNext == MainStep \/ (\E w \in Workers : WorkerMoves(w)) \/ ClientStep \/ Ended

PollSpec == Init /\ [][PollNext]_vars

\* main() is scheduled whenever it is not blocked, and so is a worker that looks for
\* work; workers may block in send(), and clients owe nothing.
FairPollSpec ==
  /\ PollSpec
  /\ WF_vars(MainStep)
  /\ \A w \in Workers : WF_vars(fate = "running" /\ (GetWork(w) \/ Sleep(w)))

-----------------------------------------------------------------------------
(* Properties *)

Alive == fate = "running"

Used == 2..poll_count

\* Every variable stays in its range while the process runs; in particular no
\* slot past the end of the arrays is written, and buf never holds more than was
\* received.
PollTypeOK == Alive =>
  /\ QueueTypeOK
  /\ peer \in [Conns -> {"new", "up", "down"}]
  /\ sent \in [Conns -> 0..2 * MaxCommands]
  /\ \A c \in Conns : rcvd[c] \in 0..sent[c]
  /\ behind \in [Fds -> Conns \cup {NoConn}]
  /\ backlog \subseteq Conns
  /\ poll_size \in PollSize..MaxPollSize
  /\ poll_count \in 1..poll_size
  /\ poll_fds \in [Slots -> [fd : Fds \cup {NoFd}, revents : BOOLEAN]]
  /\ sessions \in [Slots -> Heap \cup {NoSession}]
  /\ heap \subseteq Heap
  /\ ses \in [Heap -> [sockfd : Fds \cup {NoFd}, logged_in : Conns \cup {NoConn}]]
  /\ i \in 1..poll_count + 1
  /\ cur \in Heap \cup {NoSession}
  /\ (at = "recv" => buf \in 0..rcvd[Conn]) /\ (at \in {"poll", "loop"} => buf = 0)
  /\ locked \subseteq Heap
  /\ step \in [Workers -> Steps]
  /\ wfd \in [Workers -> Fds \cup {NoFd}]
  /\ \A w \in Workers : step[w] = "idle" <=> item[w] = NoItem

\* poll_fds, sessions, the open descriptors and the live sessions tell the same
\* story after any sequence of arrivals, departures and array shifts: a slot's
\* descriptor is that of its session, each open descriptor and each live session
\* has exactly one slot, and active_connections counts them.
ArraysAgree == Alive =>
  /\ \A k \in Used : sessions[k] \in heap /\ poll_fds[k].fd = ses[sessions[k]].sockfd
  /\ \A k, l \in Used : poll_fds[k].fd = poll_fds[l].fd => k = l
  /\ {poll_fds[k].fd : k \in Used} = Fds \ FreeFds
  /\ {sessions[k] : k \in Used} = heap
  /\ active_connections = poll_count - 1
  /\ at = "recv" => i \in Used /\ cur = sessions[i]

\* Where the commands of the clients are: in the queue, with a worker that is still to
\* answer, or answered.
Places ==
  {<<"queued", k>> : k \in 1..queue_count} \cup {<<"held", w>> : w \in Workers}
    \cup UNION {{<<"answered", k, c>> : k \in 1..Len(answers[c])} : c \in Conns}

CommandAt(p) ==
  CASE p[1] = "queued" -> [conn |-> Queued[p[2]].conn, n |-> Queued[p[2]].n]
    [] p[1] = "held" ->
         IF item[p[2]] = NoItem \/ step[p[2]] = "bye" THEN NoItem
         ELSE [conn |-> item[p[2]].conn, n |-> item[p[2]].n]
    [] OTHER -> answers[p[3]][p[2]]

\* Each command a client sent is run at most once, and the commands of one client
\* enter the queue in the order in which it sent them, however recv() cut them.
CommandsRunOnce == Alive =>
  /\ \A p, q \in Places : CommandAt(p) = CommandAt(q) /\ CommandAt(p) # NoItem => p = q
  /\ \A j, k \in 1..queue_count :
       j < k /\ Queued[j].conn = Queued[k].conn => Queued[j].n < Queued[k].n

\* A connection that was made and that the server has closed.
Over(c) == peer[c] # "new" /\ c \notin backlog /\ \A f \in Fds : behind[f] # c

\* Clients that are connected at the same time never meet: a session is logged in,
\* and an answer received, by a command of another client only when that client's
\* connection is over, however the array shifts and descriptors and addresses are
\* used again.  What goes wrong with stale session pointers is confined to commands
\* left behind in the queue.
ClientsAreApart == Alive =>
  /\ \A s \in heap :
       LET who == ses[s].logged_in IN
       who = NoConn \/ who = behind[ses[s].sockfd] \/ Over(who)
  /\ \A c \in Conns : \A k \in DOMAIN answers[c] :
       LET who == answers[c][k].conn IN who = c \/ Over(who)

\* A client that closed is forgotten: main() reads what it sent, closes its
\* descriptor and frees its session, unless main() is blocked in the recv() of
\* another client, or the process ends.
GoneClientIsRemoved ==
  \A c \in Conns :
    peer[c] = "down" /\ (\E f \in Fds : behind[f] = c)
      ~> \/ \A f \in Fds : behind[f] # c
         \/ at = "recv" /\ NothingToRecv
         \/ ~Alive

\* A command that reached the front of the queue is taken unless the whole pool is
\* busy: none waits for ever while workers sleep on the condition variable.
CommandIsTaken ==
  \A k \in Indices :
    queue_count > 0 /\ queue_front = k
      ~> queue_front # k \/ ~Alive \/ \A w \in Workers : item[w] # NoItem

(* What the comments promise and the code does not keep *)

\* "Session validation: prevents use-after-free if session disconnected"
\* (server.c:422): a session is logged in only by a command of its own client.
LoggedInByOwnClient == Alive =>
  \A s \in heap : ses[s].logged_in \in {NoConn, behind[ses[s].sockfd]}
==============================================================================
