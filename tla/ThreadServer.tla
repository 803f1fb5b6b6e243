----------------------------- MODULE ThreadServer -----------------------------
(***************************************************************************)
(* The thread-per-client post server of HW6/TCP_Server.                    *)
(*                                                                         *)
(* Each handle_client thread allocates a Session and lists it in the       *)
(* shared sessions[] array.  The array is changed under session_mutex, but *)
(* a thread writes the fields of its own Session with no lock while others *)
(* read them in is_account_logged_in.  So every write of a shared field,   *)
(* and the two reads of the scan, are steps of their own; a session is     *)
(* named by the thread that owns it.                                       *)
(*                                                                         *)
(* The content of memory that was not written or was freed is not known:   *)
(* comparing such a name has either outcome, and session->sockfd, which    *)
(* nobody assigns, is any member of HeapFds for the life of the session.   *)
(***************************************************************************)
EXTENDS Naturals, Sequences

CONSTANTS
  Handlers,     \* threads the process can create: nobody joins or detaches them
  Fds,          \* descriptors accept() can return
  NoFd,         \* no descriptor
  HeapFds,      \* what an unassigned sockfd may hold
  MaxSessions,  \* MAX_SESSIONS
  Accounts,     \* names in account.txt
  Locked,       \* accounts whose status is 0
  Unknown,      \* a name that is in no line of the file
  Nobody,       \* no thread holds session_mutex
  MaxUnread     \* bound: command lines a client has sent and recv() has not taken

\* What session->username points to when it is no account name.
Empty == "empty"    \* ""
Uninit == "uninit"  \* allocated, never written
Freed == "freed"    \* given back to malloc()
Null == "null"      \* malloc() failed

Names == Accounts \cup {Unknown}
Pointees == Accounts \cup {Empty, Uninit, Freed, Null}

ASSUME ThreadAssumption ==
  /\ NoFd \notin Fds
  /\ MaxSessions \in Nat
  /\ MaxUnread \in Nat
  /\ Unknown \notin Accounts
  /\ Locked \subseteq Accounts
  /\ Accounts \cap {Empty, Uninit, Freed, Null} = {}
  /\ Nobody \notin Handlers

VARIABLES
  fate,       \* "running", or how the process ended: "sigpipe", "segv", "exit"
  peer,       \* state of the connection behind each descriptor
  unread,     \* command lines waiting in each socket
  pending,    \* descriptor main() accepted and has not handed to a thread
  mutex,      \* the thread inside is_account_logged_in
  sessions,   \* sessions[0..session_count - 1]
  pc,         \* where each thread is
  fd,         \* its sockfd argument
  name,       \* acc.username in process_user_command
  code,       \* response about to be sent
  pos,        \* loop variable of the scan
  logged_in,  \* session fields
  username,
  sockfd,
  window      \* history: who logged in between a thread's check and its login, and
              \* whom its check passed over

vars == <<fate, peer, unread, pending, mutex, sessions, pc, fd, name, code, pos,
          logged_in, username, sockfd, window>>

sessionVars == <<logged_in, username, sockfd, window>>
mainVars == <<pending, fd>>
scanVars == <<mutex, sessions, name, pos>>

Points == {"none", "start", "welcome", "serve", "reply", "check", "scan", "compare",
           "grant", "swap", "alloc", "copy", "bye", "logout", "drop", "renew",
           "leave", "free", "close", "gone"}

\* The codes of the protocol: what was asked for was done (110, 120), or was not.
Codes == {"none", "done", "refused"}

Init ==
  /\ fate = "running"
  /\ peer = [f \in Fds |-> "free"]
  /\ unread = [f \in Fds |-> 0]
  /\ pending = NoFd
  /\ mutex = Nobody
  /\ sessions = <<>>
  /\ pc = [h \in Handlers |-> "none"]
  /\ fd = [h \in Handlers |-> NoFd]
  /\ name = [h \in Handlers |-> Unknown]
  /\ code = [h \in Handlers |-> "none"]
  /\ pos = [h \in Handlers |-> 0]
  /\ logged_in = [h \in Handlers |-> FALSE]
  /\ username = [h \in Handlers |-> Null]
  /\ sockfd = [h \in Handlers |-> NoFd]
  /\ window = [h \in Handlers |-> {}]

Goto(h, from, to) == pc[h] = from /\ pc' = [pc EXCEPT ![h] = to]
Answer(h, c) == code' = [code EXCEPT ![h] = c]

-----------------------------------------------------------------------------
(* Clients and the kernel. *)

ClientSends(f) ==
  /\ peer[f] = "up"
  /\ unread[f] < MaxUnread
  /\ unread' = [unread EXCEPT ![f] = @ + 1]
  /\ UNCHANGED <<fate, peer, pc, code>>
  /\ UNCHANGED <<mainVars, scanVars, sessionVars>>

\* An end of file for the server, or a reset when responses were left unread.
ClientCloses(f) ==
  /\ peer[f] = "up"
  /\ \E p \in {"down", "reset"} : peer' = [peer EXCEPT ![f] = p]
  /\ UNCHANGED <<fate, unread, pc, code>>
  /\ UNCHANGED <<mainVars, scanVars, sessionVars>>

\* send() to a peer that closed is answered by a reset; after the reset it
\* fails, or raises SIGPIPE, which nothing in the program catches.
Send(f) ==
  \/ peer[f] = "up" /\ UNCHANGED <<fate, peer>>
  \/ /\ peer[f] = "down"
     /\ peer' \in {peer, [peer EXCEPT ![f] = "reset"]}
     /\ UNCHANGED fate
  \/ peer[f] = "reset" /\ fate' \in {fate, "sigpipe"} /\ UNCHANGED peer

-----------------------------------------------------------------------------
(* main() *)

Accept(f) ==
  /\ pending = NoFd
  /\ peer[f] = "free"
  /\ pending' = f
  /\ peer' = [peer EXCEPT ![f] = "up"]
  /\ UNCHANGED <<fate, unread, pc, code, fd, scanVars, sessionVars>>

\* accept() fails for want of descriptors, and main() calls exit(1).
AcceptFails ==
  /\ pending = NoFd
  /\ \A f \in Fds : peer[f] # "free"
  /\ fate' = "exit"
  /\ UNCHANGED <<peer, unread, pc, code, mainVars, scanVars, sessionVars>>

SpawnHandler(h) ==
  /\ pending # NoFd
  /\ Goto(h, "none", "start")
  /\ fd' = [fd EXCEPT ![h] = pending]
  /\ pending' = NoFd
  /\ UNCHANGED <<fate, peer, unread, code, scanVars, sessionVars>>

\* malloc(), inet_ntop() or pthread_create() fails: the descriptor is closed.
SpawnFails ==
  /\ pending # NoFd
  /\ peer' = [peer EXCEPT ![pending] = "free"]
  /\ unread' = [unread EXCEPT ![pending] = 0]
  /\ pending' = NoFd
  /\ UNCHANGED <<fate, pc, code, fd, scanVars, sessionVars>>

-----------------------------------------------------------------------------
(* handle_client(): registration.  A critical section that is one step needs *)
(* the mutex to be free.                                                     *)

Register(h) ==
  /\ Goto(h, "start", "welcome")
  /\ mutex = Nobody
  /\ Len(sessions) < MaxSessions
  /\ sessions' = Append(sessions, h)
  /\ logged_in' = [logged_in EXCEPT ![h] = FALSE]
  /\ \E p \in {Uninit, Null} : username' = [username EXCEPT ![h] = p]
  /\ \E f \in HeapFds : sockfd' = [sockfd EXCEPT ![h] = f]
  /\ UNCHANGED <<fate, peer, unread, code, name, pos, mutex, mainVars, window>>

\* No memory for a session, or the array is full: closed without a reply.
CannotRegister(h) ==
  /\ Goto(h, "start", "close")
  /\ \/ TRUE \* malloc(sizeof(Session)) failed
     \/ mutex = Nobody /\ Len(sessions) = MaxSessions
  /\ UNCHANGED <<fate, peer, unread, code, mainVars, scanVars, sessionVars>>

Welcome(h) ==
  /\ Goto(h, "welcome", "serve")
  /\ Send(fd[h])
  /\ UNCHANGED <<unread, code, mainVars, scanVars, sessionVars>>

-----------------------------------------------------------------------------
(* One command line. *)

TakeLine(h, next) ==
  /\ Goto(h, "serve", next)
  /\ unread[fd[h]] > 0
  /\ unread' = [unread EXCEPT ![fd[h]] = @ - 1]
  /\ UNCHANGED <<fate, peer, mutex, sessions, pos, mainVars, sessionVars>>

\* What process_user_command refuses before it looks at other sessions: a client that
\* is logged in (213), no name (300), a name that is not in account.txt (212) or is
\* locked (211), and any name when the file cannot be read (500).
RefuseUser(h) ==
  /\ TakeLine(h, "reply")
  /\ Answer(h, "refused")
  /\ UNCHANGED name

\* Mutant: the status of the account is not looked at.
CheckUserLocked(h, n) ==
  /\ TakeLine(h, "check")
  /\ ~logged_in[h]
  /\ n \in Accounts
  /\ name' = [name EXCEPT ![h] = n]
  /\ UNCHANGED code

CheckUser(h, n) ==
  /\ TakeLine(h, "check")
  /\ ~logged_in[h]
  /\ n \in Accounts \ Locked
  /\ name' = [name EXCEPT ![h] = n]
  /\ UNCHANGED code

Post(h) ==
  /\ TakeLine(h, "reply")
  /\ Answer(h, IF logged_in[h] THEN "done" ELSE "refused")
  /\ UNCHANGED name

UnknownCommand(h) ==
  /\ TakeLine(h, "reply")
  /\ Answer(h, "refused")
  /\ UNCHANGED name

Bye(h) ==
  /\ logged_in[h]
  /\ TakeLine(h, "bye")
  /\ UNCHANGED <<name, code>>

ByeNotLoggedIn(h) ==
  /\ ~logged_in[h]
  /\ TakeLine(h, "reply")
  /\ Answer(h, "refused")
  /\ UNCHANGED name

Reply(h) ==
  /\ Goto(h, "reply", "serve")
  /\ Send(fd[h])
  /\ Answer(h, "none")
  /\ UNCHANGED <<unread, mainVars, scanVars, sessionVars>>

-----------------------------------------------------------------------------
(* is_account_logged_in() *)

LockForScan(h) ==
  /\ Goto(h, "check", "scan")
  /\ mutex = Nobody
  /\ mutex' = h
  /\ pos' = [pos EXCEPT ![h] = 1]
  /\ window' = [window EXCEPT ![h] = {}]
  /\ UNCHANGED <<fate, peer, unread, code, sessions, name, mainVars>>
  /\ UNCHANGED <<logged_in, username, sockfd>>

\* "sessions[i]->sockfd != sockfd": the loop of h takes the session of g for its own
\* when the sockfd that nobody assigned happens to be the descriptor of h.
PassesOver(h, g) == sockfd[g] = fd[h]

\* The flags of sessions[i].  A session that is logged in and passed over goes on
\* record.
ScanFlags(h) ==
  /\ pc[h] = "scan"
  /\ pos[h] <= Len(sessions)
  /\ LET s == sessions[pos[h]]
     IN  IF logged_in[s] /\ ~PassesOver(h, s)
           THEN /\ pc' = [pc EXCEPT ![h] = "compare"]
                /\ UNCHANGED <<pos, window>>
           ELSE /\ pos' = [pos EXCEPT ![h] = @ + 1]
                /\ window' = [window EXCEPT ![h] = IF logged_in[s] THEN @ \cup {s} ELSE @]
                /\ UNCHANGED pc
  /\ UNCHANGED <<fate, peer, unread, code, mutex, sessions, name, mainVars>>
  /\ UNCHANGED <<logged_in, username, sockfd>>

\* name[h] is a local of process_user_command.
Returns(h) == name' = [name EXCEPT ![h] = Unknown]

\* strcmp(sessions[i]->username, username)
SameName(s, n) ==
  IF username[s] \in {Freed, Uninit} THEN BOOLEAN ELSE {username[s] = n}

\* Mutant: the early return keeps the mutex.
CompareNameKeepsLock(h) ==
  LET s == sessions[pos[h]] IN
  /\ pc[h] = "compare"
  /\ username[s] # Null
  /\ TRUE \in SameName(s, name[h])
  /\ pc' = [pc EXCEPT ![h] = "reply"]
  /\ Answer(h, "refused")
  /\ Returns(h)
  /\ pos' = [pos EXCEPT ![h] = 0]
  /\ UNCHANGED <<fate, peer, unread, mutex, sessions, mainVars, sessionVars>>

CompareName(h) ==
  LET s == sessions[pos[h]] IN
  /\ pc[h] = "compare"
  /\ username[s] # Null
  /\ \/ /\ TRUE \in SameName(s, name[h])
        /\ pc' = [pc EXCEPT ![h] = "reply"]
        /\ mutex' = Nobody
        /\ Answer(h, "refused")
        /\ Returns(h)
        /\ pos' = [pos EXCEPT ![h] = 0]
     \/ /\ FALSE \in SameName(s, name[h])
        /\ pc' = [pc EXCEPT ![h] = "scan"]
        /\ pos' = [pos EXCEPT ![h] = @ + 1]
        /\ UNCHANGED <<mutex, name, code>>
  /\ UNCHANGED <<fate, peer, unread, sessions, mainVars, sessionVars>>

\* strcmp() of a null pointer.
CompareNull(h) ==
  /\ pc[h] = "compare"
  /\ username[sessions[pos[h]]] = Null
  /\ fate' = "segv"
  /\ UNCHANGED <<peer, unread, pc, code, mainVars, scanVars, sessionVars>>

\* Mutant: the last session is not looked at.
ScanEndsEarly(h) ==
  /\ Goto(h, "scan", "grant")
  /\ pos[h] >= Len(sessions)
  /\ mutex' = Nobody
  /\ pos' = [pos EXCEPT ![h] = 0]
  /\ UNCHANGED <<fate, peer, unread, code, sessions, name, mainVars, sessionVars>>

ScanEnds(h) ==
  /\ Goto(h, "scan", "grant")
  /\ pos[h] > Len(sessions)
  /\ mutex' = Nobody
  /\ pos' = [pos EXCEPT ![h] = 0]
  /\ UNCHANGED <<fate, peer, unread, code, sessions, name, mainVars, sessionVars>>

-----------------------------------------------------------------------------
(* The rest of process_user_command and of process_bye_command: the session  *)
(* is written with no lock.                                                  *)

Unlocked == UNCHANGED <<fate, peer, unread, mainVars, mutex, sessions, pos, sockfd>>

SetLoggedIn(h) ==
  /\ Goto(h, "grant", "swap")
  /\ logged_in' = [logged_in EXCEPT ![h] = TRUE]
  /\ Unlocked
  /\ UNCHANGED <<name, code, username, window>>

FreeOldName(h) ==
  /\ Goto(h, "swap", "alloc")
  /\ username' = [username EXCEPT ![h] = Freed]
  /\ Unlocked
  /\ UNCHANGED <<name, code, logged_in, window>>

AllocName(h) ==
  /\ Goto(h, "alloc", "copy")
  /\ username' = [username EXCEPT ![h] = Uninit]
  /\ Unlocked
  /\ UNCHANGED <<name, code, logged_in, window>>

\* malloc() fails: the answer is 500, and the session stays logged in.
AllocNameFails(h) ==
  /\ Goto(h, "alloc", "reply")
  /\ username' = [username EXCEPT ![h] = Null]
  /\ Answer(h, "refused")
  /\ Returns(h)
  /\ Unlocked
  /\ UNCHANGED <<logged_in, window>>

CopyName(h) ==
  /\ Goto(h, "copy", "reply")
  /\ username' = [username EXCEPT ![h] = name[h]]
  /\ window' = [g \in Handlers |->
                  IF pc[g] \in {"scan", "compare", "grant", "swap", "alloc", "copy"}
                    THEN window[g] \cup {h} ELSE window[g]]
  /\ Answer(h, "done")
  /\ Returns(h)
  /\ Unlocked
  /\ UNCHANGED logged_in

\* BYE: 130 is sent first.
SendBye(h) ==
  /\ Goto(h, "bye", "logout")
  /\ Send(fd[h])
  /\ UNCHANGED <<unread, code, mainVars, scanVars, sessionVars>>

ClearLoggedIn(h) ==
  /\ Goto(h, "logout", "drop")
  /\ logged_in' = [logged_in EXCEPT ![h] = FALSE]
  /\ Unlocked
  /\ window' = [window EXCEPT ![h] = {}]
  /\ UNCHANGED <<name, code, username>>

DropName(h) ==
  /\ Goto(h, "drop", "renew")
  /\ username' = [username EXCEPT ![h] = Freed]
  /\ Unlocked
  /\ UNCHANGED <<name, code, logged_in, window>>

RenewName(h) ==
  /\ Goto(h, "renew", "serve")
  /\ \E p \in {Empty, Null} : username' = [username EXCEPT ![h] = p]
  /\ Unlocked
  /\ UNCHANGED <<name, code, logged_in, window>>

-----------------------------------------------------------------------------
(* The end of handle_client(). *)

\* recv() ends or fails, or an empty line makes recv_until_delim return 0.
RecvEnds(h) ==
  /\ Goto(h, "serve", "leave")
  /\ \/ peer[fd[h]] = "down" /\ unread[fd[h]] = 0
     \/ peer[fd[h]] = "reset"
     \/ unread[fd[h]] > 0
  /\ UNCHANGED <<fate, peer, unread, code, mainVars, scanVars, sessionVars>>

\* Mutant: the array is cut at its end.
UnregisterLast(h) ==
  /\ Goto(h, "leave", "free")
  /\ mutex = Nobody
  /\ sessions' = SubSeq(sessions, 1, Len(sessions) - 1)
  /\ UNCHANGED <<fate, peer, unread, code, name, pos, mutex, mainVars, sessionVars>>

\* The session leaves the array, and those behind it move down.
Shifted(k) ==
  [j \in 1..Len(sessions) - 1 |-> IF j < k THEN sessions[j] ELSE sessions[j + 1]]

Unregister(h) ==
  /\ Goto(h, "leave", "free")
  /\ mutex = Nobody
  /\ \E k \in DOMAIN sessions : sessions[k] = h /\ sessions' = Shifted(k)
  /\ UNCHANGED <<fate, peer, unread, code, name, pos, mutex, mainVars, sessionVars>>

FreeSession(h) ==
  /\ Goto(h, "free", "close")
  /\ logged_in' = [logged_in EXCEPT ![h] = FALSE]
  /\ username' = [username EXCEPT ![h] = Freed]
  /\ sockfd' = [sockfd EXCEPT ![h] = NoFd]
  /\ window' = [window EXCEPT ![h] = {}]
  /\ UNCHANGED <<fate, peer, unread, code, mainVars, scanVars>>

\* close().  The thread is never joined, so what it occupies is not given back.
CloseAndExit(h) ==
  /\ Goto(h, "close", "gone")
  /\ peer' = [peer EXCEPT ![fd[h]] = "free"]
  /\ unread' = [unread EXCEPT ![fd[h]] = 0]
  /\ fd' = [fd EXCEPT ![h] = NoFd]
  /\ UNCHANGED <<fate, code, pending, scanVars, sessionVars>>

-----------------------------------------------------------------------------
Command(h) ==
  \/ RefuseUser(h)
  \/ \E n \in Accounts : CheckUser(h, n)
  \/ Post(h)
  \/ UnknownCommand(h)
  \/ Bye(h)
  \/ ByeNotLoggedIn(h)

Scan(h) == ScanFlags(h) \/ CompareName(h) \/ CompareNull(h) \/ ScanEnds(h)

HandlerStep(h) ==
  /\ fate = "running"
  /\ \/ Register(h)
     \/ CannotRegister(h)
     \/ Welcome(h)
     \/ Command(h)
     \/ Reply(h)
     \/ LockForScan(h)
     \/ Scan(h)
     \/ SetLoggedIn(h)
     \/ FreeOldName(h)
     \/ AllocName(h)
     \/ AllocNameFails(h)
     \/ CopyName(h)
     \/ SendBye(h)
     \/ ClearLoggedIn(h)
     \/ DropName(h)
     \/ RenewName(h)
     \/ RecvEnds(h)
     \/ Unregister(h)
     \/ FreeSession(h)
     \/ CloseAndExit(h)

MainStep ==
  /\ fate = "running"
  /\ \/ \E f \in Fds : Accept(f)
     \/ AcceptFails
     \/ \E h \in Handlers : SpawnHandler(h)
     \/ SpawnFails

ClientStep ==
  /\ fate = "running"
  /\ \E f \in Fds : ClientSends(f) \/ ClientCloses(f)

Ended == fate # "running" /\ UNCHANGED vars

Next == (\E h \in Handlers : HandlerStep(h)) \/ MainStep \/ ClientStep \/ Ended

Spec == Init /\ [][Next]_vars

-----------------------------------------------------------------------------
(* Properties *)

\* Every variable stays in its range: in particular sessions[] never grows past
\* MAX_SESSIONS, and a username points to an account that is not
\* locked, or to what is empty, unwritten, freed or null.
TypeOK ==
  /\ fate \in {"running", "sigpipe", "segv", "exit"}
  /\ peer \in [Fds -> {"free", "up", "down", "reset"}]
  /\ unread \in [Fds -> 0..MaxUnread]
  /\ pending \in Fds \cup {NoFd}
  /\ mutex \in Handlers \cup {Nobody}
  /\ sessions \in Seq(Handlers) /\ Len(sessions) <= MaxSessions
  /\ pc \in [Handlers -> Points]
  /\ fd \in [Handlers -> Fds \cup {NoFd}]
  /\ name \in [Handlers -> Names]
  /\ code \in [Handlers -> Codes]
  /\ pos \in [Handlers -> 0..MaxSessions + 1]
  /\ logged_in \in [Handlers -> BOOLEAN]
  /\ username \in [Handlers -> Pointees \ Locked]
  /\ sockfd \in [Handlers -> HeapFds \cup {NoFd}]
  /\ window \in [Handlers -> SUBSET Handlers]

Listed(h) == pc[h] \notin {"none", "start", "free", "close", "gone"}

\* sessions[] holds each live session once and no session that was freed,
\* whatever the order in which threads come and go.
ListIsExact ==
  /\ \A h \in Handlers : Listed(h) <=> \E k \in DOMAIN sessions : sessions[k] = h
  /\ \A j, k \in DOMAIN sessions : sessions[j] = sessions[k] => j = k

LoggedInAs(h, n) == Listed(h) /\ logged_in[h] /\ username[h] = n

\* "Checks if account is already logged in on another client (sends 214)."
UniqueLogin ==
  \A g, h \in Handlers, n \in Accounts :
    LoggedInAs(g, n) /\ LoggedInAs(h, n) => g = h

\* Two clients share an account only if one of them finished its login between
\* the other's check and the other's login, or if the check of one passed over the
\* session of the other, which was logged in, for what malloc() left in its sockfd.
DoubleLoginNeedsOverlap ==
  \A g, h \in Handlers, n \in Accounts :
    LoggedInAs(g, n) /\ LoggedInAs(h, n) /\ g # h =>
      g \in window[h] \/ h \in window[g]

\* The mutex is given back on every path out of is_account_logged_in: a thread
\* that holds it is inside the loop, which waits for nothing.
MutexIsReleased ==
  mutex # Nobody => pc[mutex] \in {"scan", "compare"}
==============================================================================
