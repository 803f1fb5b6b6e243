------------------------------ MODULE ForkServer ------------------------------
(***************************************************************************)
(* The fork-per-client post server of HW5, with the clients of module      *)
(* PostClient.  The parent accepts, forks and closes its copy of the       *)
(* connection; a child serves one client out of its own memory and exits;  *)
(* SIGCHLD interrupts the parent, and sig_chld() reaps the children that   *)
(* have ended.  A child is named by its client.                            *)
(*                                                                         *)
(* A child closes listen_sock, and no other descriptor of its parent's: it *)
(* also holds every connection that an earlier failed fork() left open.    *)
(*                                                                         *)
(* A SIGCHLD that is pending is not counted: two children that end before  *)
(* the handler runs leave one signal.                                      *)
(***************************************************************************)
EXTENDS PostClient, FiniteSets

CONSTANTS
  Active,   \* accounts in ACCOUNT_FILE with status 1
  Locked,   \* accounts with another status
  Blank,    \* a name of blanks, which sscanf() skips
  NULL,     \* no user name in the session
  FdLimit   \* bound: connections the parent may hold open

ASSUME ForkAssumption ==
  /\ Active \cup Locked \cup {Blank} \subseteq Names
  /\ Active \cap Locked = {}
  /\ Blank \notin Active \cup Locked
  /\ NULL \notin Names
  /\ FdLimit \in Nat \ {0}
  /\ {"kernel", "parent"} \cap Clients = {}

VARIABLES
  parent,     \* where main() of the parent is
  conn,       \* the client behind its conn_sock
  backlog,    \* connections completed and not accepted, oldest first
  sigchld,    \* SIGCHLD is pending in the parent
  handling,   \* the parent is in sig_chld()
  child,      \* life of each client's child
  logged_in,  \* session.logged_in of each child
  username    \* session.username of each child; NULL stands for the empty name, too

parentVars == <<parent, conn, backlog>>
sessionVars == <<logged_in, username>>
vars == <<clientVars, parentVars, sigchld, handling, child, sessionVars>>

Init ==
  /\ ClientInit
  /\ parent = "accept"
  /\ conn = NULL
  /\ backlog = <<>>
  /\ sigchld = FALSE
  /\ handling = FALSE
  /\ child = [c \in Clients |-> "none"]
  /\ logged_in = [c \in Clients |-> FALSE]
  /\ username = [c \in Clients |-> NULL]

-----------------------------------------------------------------------------
(* main(): the parent.  Its steps pause while sig_chld() runs. *)

HeldByParent == {c \in Clients : "parent" \in holders[c]}

Proceed(from, to) == parent = from /\ ~handling /\ parent' = to

Accept ==
  /\ Proceed("accept", "fork")
  /\ backlog # <<>>
  /\ Cardinality(HeldByParent) < FdLimit
  /\ conn' = Head(backlog)
  /\ backlog' = Tail(backlog)
  /\ holders' = [holders EXCEPT ![conn'] = {"parent"}]
  /\ UNCHANGED <<at, asked, typed, told, requests, replies, sigchld, handling, child,
                 sessionVars>>

\* accept() fails with another error than EINTR: no descriptor is left, or the kernel
\* cannot hand out the connection that waits.  exit(1) closes what the parent holds
\* and what waits; the children stay.
AcceptFails ==
  /\ Proceed("accept", "exited")
  /\ Cardinality(HeldByParent) >= FdLimit \/ backlog # <<>>
  /\ backlog' = <<>>
  /\ holders' = [c \in Clients |-> holders[c] \ {"parent", "kernel"}]
  /\ child' = [c \in Clients |-> IF child[c] = "zombie" THEN "reaped" ELSE child[c]]
  /\ sigchld' = FALSE
  /\ UNCHANGED <<at, asked, typed, told, requests, replies, conn, handling, sessionVars>>

\* The child has every connection that the parent has open.
Fork ==
  /\ Proceed("fork", "close")
  /\ child' = [child EXCEPT ![conn] = "start"]
  /\ holders' = [c \in Clients |->
                   IF c \in HeldByParent THEN holders[c] \cup {conn} ELSE holders[c]]
  /\ UNCHANGED <<at, asked, typed, told, requests, replies, conn, backlog, sigchld,
                 handling, sessionVars>>

\* fork() returns -1: conn_sock stays open, and the next accept() overwrites it.
ForkFails ==
  /\ Proceed("fork", "accept")
  /\ conn' = NULL
  /\ UNCHANGED <<clientVars, backlog, sigchld, handling, child, sessionVars>>

\* Mutant: the parent keeps its copy of the connection.
ForgetConn ==
  /\ Proceed("close", "accept")
  /\ conn' = NULL
  /\ UNCHANGED <<clientVars, backlog, sigchld, handling, child, sessionVars>>

CloseConn ==
  /\ Proceed("close", "accept")
  /\ holders' = [holders EXCEPT ![conn] = @ \ {"parent"}]
  /\ conn' = NULL
  /\ UNCHANGED <<at, asked, typed, told, requests, replies, backlog, sigchld, handling,
                 child, sessionVars>>

MainStep == Accept \/ AcceptFails \/ Fork \/ ForkFails \/ CloseConn

-----------------------------------------------------------------------------
(* sig_chld() *)

EnterHandler ==
  /\ parent # "exited"
  /\ sigchld
  /\ ~handling
  /\ sigchld' = FALSE
  /\ handling' = TRUE
  /\ UNCHANGED <<clientVars, parentVars, child, sessionVars>>

\* waitpid(-1, &stat, WNOHANG) returns the pid of a child that has ended.
Reap(c) ==
  /\ handling
  /\ child[c] = "zombie"
  /\ child' = [child EXCEPT ![c] = "reaped"]
  /\ UNCHANGED <<clientVars, parentVars, sigchld, handling, sessionVars>>

\* Mutant: one waitpid() for one signal.
LeaveHandlerAfterOne ==
  /\ handling
  /\ handling' = FALSE
  /\ \/ \A c \in Clients : child[c] # "zombie" /\ UNCHANGED child
     \/ \E c \in Clients :
          /\ child[c] = "zombie"
          /\ child' = [child EXCEPT ![c] = "reaped"]
  /\ UNCHANGED <<clientVars, parentVars, sigchld, sessionVars>>

\* waitpid() returns 0 or -1: no child has ended.
LeaveHandler ==
  /\ handling
  /\ \A c \in Clients : child[c] # "zombie"
  /\ handling' = FALSE
  /\ UNCHANGED <<clientVars, parentVars, sigchld, child, sessionVars>>

HandlerStep == EnterHandler \/ (\E c \in Clients : Reap(c)) \/ LeaveHandler

-----------------------------------------------------------------------------
(* handle_client(): a child *)

\* The child's return from handle_client() and exit(0), or its end by SIGPIPE: all
\* its descriptors are closed.
EndChild(c) ==
  /\ holders' = [d \in Clients |-> holders[d] \ {c}]
  /\ IF parent = "exited"
       THEN child' = [child EXCEPT ![c] = "reaped"] /\ UNCHANGED sigchld
       ELSE child' = [child EXCEPT ![c] = "zombie"] /\ sigchld' = TRUE
  /\ requests' = [requests EXCEPT ![c] = <<>>]
  /\ logged_in' = [logged_in EXCEPT ![c] = FALSE]
  /\ username' = [username EXCEPT ![c] = NULL]
  /\ UNCHANGED <<at, asked, typed, told, replies, parentVars, handling>>

\* send_response(): to a client that has gone it is lost.
Send(c, code) ==
  replies' = [replies EXCEPT ![c] = IF at[c] = "left" THEN @ ELSE Append(@, code)]

Welcome(c) ==
  /\ child[c] = "start"
  /\ child' = [child EXCEPT ![c] = "serve"]
  /\ Send(c, 100)
  /\ UNCHANGED <<at, asked, typed, told, requests, holders, parentVars, sigchld, handling,
                 sessionVars>>

\* malloc() of the empty user name fails.
NoMemory(c) == child[c] = "start" /\ EndChild(c)

\* recv_until_delim() returns a line, and the child takes and answers it.
Take(c, cmd, code) ==
  /\ child[c] = "serve"
  /\ requests[c] # <<>>
  /\ Head(requests[c]).whole
  /\ Head(requests[c]).cmd = cmd
  /\ requests' = [requests EXCEPT ![c] = Tail(@)]
  /\ Send(c, code)
  /\ UNCHANGED <<at, asked, typed, told, holders, parentVars, sigchld, handling>>

\* The answer is the last thing it does with the line.
Serve(c, cmd, code) == Take(c, cmd, code) /\ UNCHANGED child

\* Mutant: the status is not looked at.
KnownName(name) == name \in Active \cup Locked

MayLogIn(name) == name \in Active

LogIn(c) ==
  LET name == Head(requests[c]).name IN
  /\ Serve(c, "USER", 110)
  /\ ~logged_in[c]
  /\ MayLogIn(name)
  /\ logged_in' = [logged_in EXCEPT ![c] = TRUE]
  /\ username' = [username EXCEPT ![c] = name]

\* malloc() of the session's name fails after logged_in was set.
LogInWithoutName(c) ==
  LET name == Head(requests[c]).name IN
  /\ Serve(c, "USER", 500)
  /\ ~logged_in[c]
  /\ MayLogIn(name)
  /\ logged_in' = [logged_in EXCEPT ![c] = TRUE]
  /\ username' = [username EXCEPT ![c] = NULL]

Refusal(c, name) ==
  CASE logged_in[c] -> 213
    [] ~logged_in[c] /\ name = Blank -> 300
    [] ~logged_in[c] /\ name \in Locked -> 211
    [] OTHER -> 212

RefuseLogIn(c) ==
  LET name == Head(requests[c]).name IN
  /\ Serve(c, "USER", Refusal(c, name))
  /\ logged_in[c] \/ ~MayLogIn(name)
  /\ UNCHANGED sessionVars

\* load_account() cannot open the file or has no memory.
LoadFails(c) ==
  /\ Serve(c, "USER", 500)
  /\ ~logged_in[c]
  /\ Head(requests[c]).name # Blank
  /\ UNCHANGED sessionVars

\* Mutant: a post without a login is dropped silently.
TakePostIfLoggedIn(c) ==
  /\ logged_in[c]
  /\ Serve(c, "POST", 120)
  /\ UNCHANGED sessionVars

TakePost(c) ==
  /\ Serve(c, "POST", IF logged_in[c] THEN 120 ELSE 221)
  /\ UNCHANGED sessionVars

\* 130 is sent while the session is still logged in,
Bye(c) ==
  /\ logged_in[c]
  /\ Take(c, "BYE", 130)
  /\ child' = [child EXCEPT ![c] = "bye"]
  /\ UNCHANGED sessionVars

\* Mutant: logged_in is not reset.
KeepUser(c) ==
  /\ child[c] = "bye"
  /\ child' = [child EXCEPT ![c] = "serve"]
  /\ UNCHANGED <<clientVars, parentVars, sigchld, handling, sessionVars>>

\* and the user forgotten after that.
ForgetUser(c) ==
  /\ child[c] = "bye"
  /\ child' = [child EXCEPT ![c] = "serve"]
  /\ logged_in' = [logged_in EXCEPT ![c] = FALSE]
  /\ username' = [username EXCEPT ![c] = NULL]
  /\ UNCHANGED <<clientVars, parentVars, sigchld, handling>>

ByeRefused(c) ==
  /\ ~logged_in[c]
  /\ Serve(c, "BYE", 221)
  /\ UNCHANGED sessionVars

\* Mutant: the name of the command is checked twice, and answered twice.
UnknownTwice(c) ==
  /\ child[c] = "serve"
  /\ requests[c] # <<>>
  /\ Head(requests[c]).cmd = "?"
  /\ requests' = [requests EXCEPT ![c] = Tail(@)]
  /\ replies' = [replies EXCEPT ![c] = @ \o <<300, 300>>]
  /\ UNCHANGED <<at, asked, typed, told, holders, parentVars, sigchld, handling, child,
                 sessionVars>>

Unknown(c) == Serve(c, "?", 300) /\ UNCHANGED sessionVars

\* The client has gone: recv() returns 0, or fails after a reset, which also loses
\* what was not read yet.
Disconnected(c) ==
  /\ child[c] = "serve"
  /\ at[c] = "left"
  /\ EndChild(c)

ChildStep(c) ==
  \/ Welcome(c)
  \/ NoMemory(c)
  \/ LogIn(c)
  \/ LogInWithoutName(c)
  \/ RefuseLogIn(c)
  \/ LoadFails(c)
  \/ TakePost(c)
  \/ Bye(c)
  \/ ForgetUser(c)
  \/ ByeRefused(c)
  \/ Unknown(c)
  \/ Disconnected(c)

-----------------------------------------------------------------------------
serverVars == <<parentVars, sigchld, handling, child, sessionVars>>

Arrive(c) ==
  \/ /\ parent # "exited"
     /\ Connect(c)
     /\ backlog' = Append(backlog, c)
     /\ UNCHANGED <<parent, conn, sigchld, handling, child, sessionVars>>
  \/ /\ parent = "exited"
     /\ ConnectFails(c)
     /\ UNCHANGED serverVars

ProgramStep(c) == ClientStep(c) /\ UNCHANGED serverVars

Next ==
  \/ MainStep
  \/ HandlerStep
  \/ \E c \in Clients :
       \/ ChildStep(c)
       \/ Arrive(c)
       \/ ProgramStep(c)
       \/ UserStep(c) /\ UNCHANGED serverVars

Spec == Init /\ [][Next]_vars

\* The kernel delivers a pending signal and runs every process that is ready.
\* Users owe nothing, and neither do fork() and malloc().
FairSpec ==
  /\ Spec
  /\ WF_vars(MainStep)
  /\ WF_vars(HandlerStep)
  /\ \A c \in Clients : WF_vars(ChildStep(c)) /\ WF_vars(ProgramStep(c))

-----------------------------------------------------------------------------
(* Properties *)

\* Every variable stays in its range; in particular a session never holds the name
\* of an account that is locked or unknown.
PostTypeOK ==
  /\ at \in [Clients -> {"start", "greeting", "menu", "wait", "spin", "left"}]
  /\ asked \in [Clients -> {"none", "USER", "POST", "BYE", "?"}]
  /\ typed \in [Clients -> Names \cup {NoName}]
  /\ told \in [Clients -> Names \cup {NoName}]
  /\ \A c \in Clients : Len(requests[c]) <= 1
  /\ holders \in [Clients -> SUBSET ({"kernel", "parent"} \cup Clients)]
  /\ parent \in {"accept", "fork", "close", "exited"}
  /\ conn \in Clients \cup {NULL}
  /\ sigchld \in BOOLEAN /\ handling \in BOOLEAN
  /\ child \in [Clients -> {"none", "start", "serve", "bye", "zombie", "reaped"}]
  /\ logged_in \in [Clients -> BOOLEAN]
  /\ username \in [Clients -> Active \cup {NULL}]

\* What the user was told is what the child believes: while the menu is up, the
\* client has shown the login of a name, and no logout since, exactly when its child
\* has that account logged in.  A child that has sent 130 and not yet forgotten its
\* user is on the way to it (ForgetUser needs nobody else), and does nothing before
\* that.  The exception is the session that was logged in and told 500, which has no
\* name (process_user_command sets logged_in before the malloc() that may fail).
ViewsAgree ==
  \A c \in Clients : at[c] = "menu" =>
    /\ child[c] = "serve" =>
         told[c] = IF logged_in[c] /\ username[c] # NULL THEN username[c] ELSE NoName
    /\ child[c] = "bye" => told[c] = NoName

\* The codes the server sends for each command.
CodesFor(cmd) ==
  CASE cmd = "none" -> {100}
    [] cmd = "USER" -> {110, 211, 212, 213, 300, 500}
    [] cmd = "POST" -> {120, 221}
    [] cmd = "BYE" -> {130, 221}
    [] OTHER -> {300}

\* The client never takes the reply to one request for the reply to another: there
\* is at most one reply under way, it answers the last request, and nothing is
\* under way while the user chooses, for ever so many requests.
RepliesMatch ==
  \A c \in Clients :
    /\ at[c] \in {"greeting", "wait"} /\ replies[c] # <<>> =>
         Len(replies[c]) = 1 /\ Head(replies[c]) \in CodesFor(asked[c])
    /\ at[c] = "menu" => requests[c] = <<>> /\ replies[c] = <<>>

\* The parent holds a connection beyond the one it is handing over only because
\* fork() failed for it; children that come and go cost it nothing.  Nor does a child
\* keep a connection open but its own and those for which fork() failed.
LeaksAreFailedForks ==
  /\ \A c \in HeldByParent : child[c] # "none" => parent = "close" /\ c = conn
  /\ \A c, d \in Clients : d \in holders[c] /\ d # c => child[c] = "none"

\* "Prevents zombie processes from accumulating" (sig_chld): a child that ended is
\* reaped, also when several end while one signal is pending or being handled.
ZombiesAreReaped ==
  \A c \in Clients : child[c] = "zombie" ~> child[c] = "reaped"

\* The line the client waits for an answer to has lost its end.
Cut(c) == \E k \in 1..Len(requests[c]) : ~requests[c][k].whole

\* fork() failed for this client, and its connection is still open in the parent, or
\* in a child that inherited it.
Leaked(c) ==
  /\ child[c] = "none"
  /\ holders[c] \ {"kernel"} # {}
  /\ ~(parent = "fork" /\ conn = c)

\* A client that waits gets its greeting, its answer or the end of the connection,
\* whatever fails in the server, unless fork() failed for it (its connection stays
\* open and nobody uses it) or its line was too long (the server waits for the
\* delimiter, and the client for the server).
ClientIsNotStuck ==
  \A c \in Clients :
    at[c] \in {"greeting", "wait"} ~> at[c] \in {"menu", "left"} \/ Cut(c) \/ Leaked(c)
==============================================================================
