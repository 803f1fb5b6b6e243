------------------------------- MODULE MtServer -------------------------------
(***************************************************************************)
(* The thread-per-client post server of HW7/TCP-multithread-main.          *)
(*                                                                         *)
(* main() accepts a connection and starts a detached client_handler        *)
(* thread.  The handler registers the socket in the shared sessions[]      *)
(* table, answers USER, POST and BYE until recv() fails or ends, removes   *)
(* its session and closes the socket.  Every access to sessions[] is made  *)
(* under session_mutex, so a critical section is one step here; what       *)
(* happens outside (replies, close, the kernel reusing a descriptor) is a  *)
(* step of its own.                                                        *)
(*                                                                         *)
(* The client and the kernel are external: a client may queue command      *)
(* lines and may close; a send() to a peer that closed makes it answer     *)
(* with a reset, and a send() after the reset raises SIGPIPE, which this   *)
(* program leaves at its default: the process ends.                        *)
(***************************************************************************)
EXTENDS Naturals

CONSTANTS
  Handlers,     \* client_handler threads that may exist at one time
  Fds,          \* descriptors accept() can return
  NoFd,         \* no descriptor
  MaxSessions,  \* MAX_SESSIONS
  Names,        \* user names a client may send
  Accounts,     \* the names loaded from account.txt
  Blocked,      \* the accounts whose status is 0
  NoName,       \* the empty user name, and "no current user"
  MaxUnread     \* bound: command lines a client has sent and recv() has not taken

ASSUME MtAssumption ==
  /\ NoFd \notin Fds
  /\ MaxSessions \in Nat
  /\ MaxUnread \in Nat
  /\ Accounts \subseteq Names
  /\ Blocked \subseteq Accounts
  /\ NoName \notin Names

VARIABLES
  alive,      \* FALSE once SIGPIPE has ended the process
  peer,       \* state of the connection behind each descriptor
  unread,     \* command lines waiting in each socket
  pending,    \* descriptor main() accepted and has not handed to a thread
  pc,         \* where each handler is
  fd,         \* connfd of each handler
  loggedIn,   \* logged_in, local to handle_protocol_with_session
  current,    \* current_user_index, as the name it indexes
  code,       \* the response code a handler is about to send
  sessions    \* the shared session table

vars == <<alive, peer, unread, pending, pc, fd, loggedIn, current, code, sessions>>

Slots == 1..MaxSessions
PeerStates == {"free", "up", "down", "reset"}
Points == {"none", "start", "reject", "welcome", "serve", "reply", "leave", "close"}
Codes == {0, 110, 120, 130, 211, 212, 213, 214, 221, 300}

SessionRecords == [active : BOOLEAN, sockfd : Fds \cup {NoFd},
                   username : (Accounts \ Blocked) \cup {NoName}, logged_in : BOOLEAN]

NoSession == [active |-> FALSE, sockfd |-> NoFd, username |-> NoName,
              logged_in |-> FALSE]

Init ==
  /\ alive = TRUE
  /\ peer = [f \in Fds |-> "free"]
  /\ unread = [f \in Fds |-> 0]
  /\ pending = NoFd
  /\ pc = [h \in Handlers |-> "none"]
  /\ fd = [h \in Handlers |-> NoFd]
  /\ loggedIn = [h \in Handlers |-> FALSE]
  /\ current = [h \in Handlers |-> NoName]
  /\ code = [h \in Handlers |-> 0]
  /\ sessions = [s \in Slots |-> NoSession]

Goto(h, from, to) == pc[h] = from /\ pc' = [pc EXCEPT ![h] = to]

-----------------------------------------------------------------------------
(* Clients and the kernel. *)

ClientSends(f) ==
  /\ peer[f] = "up"
  /\ unread[f] < MaxUnread
  /\ unread' = [unread EXCEPT ![f] = @ + 1]
  /\ UNCHANGED <<alive, peer, pending, pc, fd, loggedIn, current, code, sessions>>

\* close() in the client: an end of file for the server, or a reset at once when
\* the client leaves responses unread.
ClientCloses(f) ==
  /\ peer[f] = "up"
  /\ \E p \in {"down", "reset"} : peer' = [peer EXCEPT ![f] = p]
  /\ UNCHANGED <<alive, unread, pending, pc, fd, loggedIn, current, code, sessions>>

\* send() on a connected socket.  A peer that has closed answers with a reset,
\* which may or may not have come back before the next send().  On a socket that
\* was reset, send() fails with ECONNRESET or raises SIGPIPE.  For a peer that is
\* there and does not read, send() may block: then this step does not come, and
\* nothing here says that it has to.  No handler blocks in it with session_mutex
\* held.
Send(f) ==
  \/ /\ peer[f] = "up"
     /\ UNCHANGED <<alive, peer>>
  \/ /\ peer[f] = "down"
     /\ peer' \in {peer, [peer EXCEPT ![f] = "reset"]}
     /\ UNCHANGED alive
  \/ /\ peer[f] = "reset"
     /\ alive' \in BOOLEAN
     /\ UNCHANGED peer

-----------------------------------------------------------------------------
(* main() *)

\* accept() returns a descriptor that is not open.
Accept(f) ==
  /\ pending = NoFd
  /\ peer[f] = "free"
  /\ pending' = f
  /\ peer' = [peer EXCEPT ![f] = "up"]
  /\ UNCHANGED <<alive, unread, pc, fd, loggedIn, current, code, sessions>>

SpawnHandler(h) ==
  /\ pending # NoFd
  /\ Goto(h, "none", "start")
  /\ fd' = [fd EXCEPT ![h] = pending]
  /\ pending' = NoFd
  /\ loggedIn' = [loggedIn EXCEPT ![h] = FALSE]
  /\ current' = [current EXCEPT ![h] = NoName]
  /\ UNCHANGED <<alive, peer, unread, code, sessions>>

\* pthread_create() fails: the descriptor is closed.
SpawnFails ==
  /\ pending # NoFd
  /\ peer' = [peer EXCEPT ![pending] = "free"]
  /\ unread' = [unread EXCEPT ![pending] = 0]
  /\ pending' = NoFd
  /\ UNCHANGED <<alive, pc, fd, loggedIn, current, code, sessions>>

-----------------------------------------------------------------------------
(* client_handler(): registration *)

\* add_session(): the first inactive slot.
AddSession(h) ==
  /\ Goto(h, "start", "welcome")
  /\ \E s \in Slots :
       /\ ~sessions[s].active
       /\ \A r \in Slots : r < s => sessions[r].active
       /\ sessions' = [sessions EXCEPT ![s] =
            [active |-> TRUE, sockfd |-> fd[h], username |-> NoName,
             logged_in |-> FALSE]]
  /\ UNCHANGED <<alive, peer, unread, pending, fd, loggedIn, current, code>>

TableFull(h) ==
  /\ Goto(h, "start", "reject")
  /\ \A s \in Slots : sessions[s].active
  /\ UNCHANGED <<alive, peer, unread, pending, fd, loggedIn, current, code, sessions>>

\* "500 Server full", then close without a session.
Reject(h) ==
  /\ Goto(h, "reject", "close")
  /\ Send(fd[h])
  /\ UNCHANGED <<unread, pending, fd, loggedIn, current, code, sessions>>

Welcome(h) ==
  /\ Goto(h, "welcome", "serve")
  /\ Send(fd[h])
  /\ UNCHANGED <<unread, pending, fd, loggedIn, current, code, sessions>>

-----------------------------------------------------------------------------
(* handle_protocol_with_session(): one command line *)

\* Mutant: the line stays in the buffer.
TakeLineAgain(h) ==
  /\ Goto(h, "serve", "reply")
  /\ unread[fd[h]] > 0
  /\ UNCHANGED unread

\* recv() hands the handler a line; the answer to it is still to be sent.
TakeLine(h) ==
  /\ Goto(h, "serve", "reply")
  /\ unread[fd[h]] > 0
  /\ unread' = [unread EXCEPT ![fd[h]] = @ - 1]

Answer(h, c) == code' = [code EXCEPT ![h] = c]

\* Mutant: the loop stops one slot early.
LoggedInBeforeLast(name, sockfd) ==
  \E s \in 1..MaxSessions - 1 :
    /\ sessions[s].active
    /\ sessions[s].logged_in
    /\ sessions[s].sockfd # sockfd
    /\ sessions[s].username = name

\* is_username_logged_in_nolock()
LoggedInElsewhere(name, sockfd) ==
  \E s \in Slots :
    /\ sessions[s].active
    /\ sessions[s].logged_in
    /\ sessions[s].sockfd # sockfd
    /\ sessions[s].username = name

\* The first active slot of a socket: the loops of processUSER, processBYE and
\* find_session_by_sockfd stop at it.
IsSlotOf(s, f) ==
  /\ sessions[s].active /\ sessions[s].sockfd = f
  /\ \A r \in Slots : sessions[r].active /\ sessions[r].sockfd = f => s <= r

\* Mutant: the name is written and the flag is not.
SetNameOf(f, name, flag) ==
  sessions' = [s \in Slots |->
                 IF IsSlotOf(s, f) THEN [sessions[s] EXCEPT !.username = name]
                                   ELSE sessions[s]]

SetSlotOf(f, name, flag) ==
  sessions' = [s \in Slots |->
                 IF IsSlotOf(s, f)
                   THEN [sessions[s] EXCEPT !.username = name, !.logged_in = flag]
                   ELSE sessions[s]]

UserRefusal(h, name) ==
  CASE name = NoName -> 300
    [] name # NoName /\ loggedIn[h] -> 213
    [] name # NoName /\ ~loggedIn[h] /\ name \notin Accounts -> 212
    [] name # NoName /\ ~loggedIn[h] /\ name \in Blocked -> 211
    [] OTHER -> 214

\* Mutant: findUser() and the status are not consulted.
MayLogInUnchecked(h, name) ==
  /\ name # NoName
  /\ ~loggedIn[h]
  /\ ~LoggedInElsewhere(name, fd[h])

MayLogIn(h, name) ==
  /\ name # NoName
  /\ ~loggedIn[h]
  /\ name \in Accounts \ Blocked
  /\ ~LoggedInElsewhere(name, fd[h])

LogIn(h, name) ==
  /\ TakeLine(h)
  /\ MayLogIn(h, name)
  /\ loggedIn' = [loggedIn EXCEPT ![h] = TRUE]
  /\ current' = [current EXCEPT ![h] = name]
  /\ SetSlotOf(fd[h], name, TRUE)
  /\ Answer(h, 110)
  /\ UNCHANGED <<alive, peer, pending, fd>>

RefuseLogIn(h, name) ==
  /\ TakeLine(h)
  /\ ~MayLogIn(h, name)
  /\ Answer(h, UserRefusal(h, name))
  /\ UNCHANGED <<alive, peer, pending, fd, loggedIn, current, sessions>>

Post(h) ==
  /\ TakeLine(h)
  /\ Answer(h, IF loggedIn[h] THEN 120 ELSE 221)
  /\ UNCHANGED <<alive, peer, pending, fd, loggedIn, current, sessions>>

Bye(h) ==
  /\ TakeLine(h)
  /\ loggedIn[h]
  /\ loggedIn' = [loggedIn EXCEPT ![h] = FALSE]
  /\ current' = [current EXCEPT ![h] = NoName]
  /\ SetSlotOf(fd[h], NoName, FALSE)
  /\ Answer(h, 130)
  /\ UNCHANGED <<alive, peer, pending, fd>>

ByeNotLoggedIn(h) ==
  /\ TakeLine(h)
  /\ ~loggedIn[h]
  /\ Answer(h, 221)
  /\ UNCHANGED <<alive, peer, pending, fd, loggedIn, current, sessions>>

UnknownCommand(h) ==
  /\ TakeLine(h)
  /\ Answer(h, 300)
  /\ UNCHANGED <<alive, peer, pending, fd, loggedIn, current, sessions>>

Reply(h) ==
  /\ Goto(h, "reply", "serve")
  /\ Send(fd[h])
  /\ code' = [code EXCEPT ![h] = 0]
  /\ UNCHANGED <<unread, pending, fd, loggedIn, current, sessions>>

\* recv() returns 0 or -1: the client closed, the connection was reset, or a
\* line without a newline has filled the buffer and recv() was asked for 0 bytes.
RecvEnds(h) ==
  /\ Goto(h, "serve", "leave")
  /\ \/ peer[fd[h]] = "down" /\ unread[fd[h]] = 0
     \/ peer[fd[h]] = "reset"
     \/ unread[fd[h]] > 0
  /\ UNCHANGED <<alive, peer, unread, pending, fd, loggedIn, current, code, sessions>>

\* Mutant: the slot is cleared and stays active.
ClearSession(h) ==
  /\ Goto(h, "leave", "close")
  /\ sessions' = [s \in Slots |->
                    IF IsSlotOf(s, fd[h])
                      THEN [sessions[s] EXCEPT !.username = NoName, !.logged_in = FALSE]
                      ELSE sessions[s]]
  /\ UNCHANGED <<alive, peer, unread, pending, fd, loggedIn, current, code>>

\* remove_session()
RemoveSession(h) ==
  /\ Goto(h, "leave", "close")
  /\ sessions' = [s \in Slots |->
                    IF IsSlotOf(s, fd[h])
                      THEN [sessions[s] EXCEPT !.active = FALSE, !.username = NoName,
                                               !.logged_in = FALSE]
                      ELSE sessions[s]]
  /\ UNCHANGED <<alive, peer, unread, pending, fd, loggedIn, current, code>>

\* close(): the kernel may give the descriptor to the next accept().
CloseAndExit(h) ==
  /\ Goto(h, "close", "none")
  /\ peer' = [peer EXCEPT ![fd[h]] = "free"]
  /\ unread' = [unread EXCEPT ![fd[h]] = 0]
  /\ fd' = [fd EXCEPT ![h] = NoFd]
  /\ UNCHANGED <<alive, pending, loggedIn, current, code, sessions>>

-----------------------------------------------------------------------------
User(h) == \E name \in Names \cup {NoName} : LogIn(h, name) \/ RefuseLogIn(h, name)

HandlerStep(h) ==
  /\ alive
  /\ \/ AddSession(h)
     \/ TableFull(h)
     \/ Reject(h)
     \/ Welcome(h)
     \/ User(h)
     \/ Post(h)
     \/ Bye(h)
     \/ ByeNotLoggedIn(h)
     \/ UnknownCommand(h)
     \/ Reply(h)
     \/ RecvEnds(h)
     \/ RemoveSession(h)
     \/ CloseAndExit(h)

MainStep ==
  /\ alive
  /\ \/ \E f \in Fds : Accept(f)
     \/ \E h \in Handlers : SpawnHandler(h)
     \/ SpawnFails

ClientStep ==
  /\ alive
  /\ \E f \in Fds : ClientSends(f) \/ ClientCloses(f)

\* The process has ended.
Ended == ~alive /\ UNCHANGED vars

Next == (\E h \in Handlers : HandlerStep(h)) \/ MainStep \/ ClientStep \/ Ended

Spec == Init /\ [][Next]_vars

-----------------------------------------------------------------------------
(* Properties *)

\* Every variable stays in its range; in particular current_user_index never
\* names an account that is unknown or blocked (the order of the checks in
\* processUSER).
TypeOK ==
  /\ alive \in BOOLEAN
  /\ peer \in [Fds -> PeerStates]
  /\ unread \in [Fds -> 0..MaxUnread]
  /\ pending \in Fds \cup {NoFd}
  /\ pc \in [Handlers -> Points]
  /\ fd \in [Handlers -> Fds \cup {NoFd}]
  /\ loggedIn \in [Handlers -> BOOLEAN]
  /\ current \in [Handlers -> (Accounts \ Blocked) \cup {NoName}]
  /\ code \in [Handlers -> Codes]
  /\ sessions \in [Slots -> SessionRecords]

Registered(h) == pc[h] \in {"welcome", "serve", "reply", "leave"}

Holds(h) == Registered(h) /\ loggedIn[h]

\* "Unique login enforcement" (README): two clients are never logged in to one
\* account at the same time, whatever the order in which handlers log in, log
\* out, lose their client and have their descriptor reused.
UniqueLogin ==
  \A g, h \in Handlers :
    Holds(g) /\ Holds(h) /\ current[g] = current[h] => g = h

\* Slot s tells the other handlers what handler h keeps in its local variables.
Mirrors(s, h) ==
  /\ sessions[s].active
  /\ sessions[s].sockfd = fd[h]
  /\ sessions[s].logged_in <=> loggedIn[h]
  /\ sessions[s].username = current[h]

\* The table agrees with the threads at every step: each registered handler has
\* its slot, that slot repeats the handler's own login state, and no slot is
\* left behind by a handler that has gone, even when its descriptor has been
\* closed and returned by accept() again.
TableMirrorsHandlers ==
  /\ \A h \in Handlers : Registered(h) => \E s \in Slots : Mirrors(s, h)
  /\ \A s \in Slots : sessions[s].active =>
       \E h \in Handlers : Registered(h) /\ Mirrors(s, h)
  /\ \A s, r \in Slots :
       /\ sessions[s].active
       /\ sessions[r].active
       /\ sessions[s].sockfd = sessions[r].sockfd
       => s = r

\* What the service promises, with no table: the connection of handler h is
\* logged in as current[h] from the 110 to the BYE or the end of the connection.
Reg == INSTANCE LoginRegistry WITH
         Conns <- Handlers,
         Users <- Accounts \ Blocked,
         NoUser <- NoName,
         who <- [h \in Handlers |-> IF Holds(h) THEN current[h] ELSE NoName]

\* Threads, table and sockets implement the exclusive login registry.
ImplementsRegistry == Reg!Spec

\* The client of handler h has closed or was reset.
Gone(h) == pc[h] # "none" /\ peer[fd[h]] \in {"down", "reset"}

\* How far handler h is from the end of client_handler when nothing more arrives.
StepsLeft(h) ==
  2 * unread[fd[h]] +
    CASE pc[h] = "start" -> 5
      [] pc[h] \in {"welcome", "reply"} -> 4
      [] pc[h] = "serve" -> 3
      [] pc[h] \in {"reject", "leave"} -> 2
      [] OTHER -> 1

\* A client that has gone stays gone, and every step of its handler brings the
\* handler closer to its end, also while other clients come and use what it frees: it
\* serves a client that is not there only the lines that client has sent, and no
\* other thread's step ever takes it back, gives its descriptor away or adds to its
\* lines.  (A send() to it ends, if with an error: its side is closed, and answers
\* with a reset.)
GoneClientLeaves ==
  [][\A h \in Handlers : Gone(h) =>
       \/ pc'[h] = "none"
       \/ Gone(h)' /\ StepsLeft(h)' < StepsLeft(h)
       \/ Gone(h)' /\ pc'[h] = pc[h] /\ fd'[h] = fd[h]
            /\ StepsLeft(h)' = StepsLeft(h)]_vars
==============================================================================
