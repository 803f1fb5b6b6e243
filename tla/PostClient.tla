------------------------------ MODULE PostClient ------------------------------
(***************************************************************************)
(* The menu client of HW5, HW6 and HW7 (the same program up to the layout  *)
(* of main() and one response text), with the connection it opens.  It     *)
(* sends one line, waits for one reply, and shows the menu again.          *)
(*                                                                         *)
(* A connection is the lines and replies under way and the set of          *)
(* processes that hold its server end open: recv() in the client returns 0 *)
(* when that set is empty and every reply is read.                         *)
(***************************************************************************)
EXTENDS Naturals, Sequences

CONSTANTS
  Clients,   \* runs of the client program, each with one connection
  Names,     \* user names a user types
  NoName,    \* a request without a name
  BuffSize,  \* BUFF_SIZE
  Lengths    \* lengths of the messages the clients build, without "\r\n"

ASSUME ClientAssumption ==
  /\ NoName \notin Names
  /\ BuffSize \in Nat \ {0}
  \* snprintf() of the message has cut it already.
  /\ Lengths \subseteq 1..BuffSize - 1

VARIABLES
  at,        \* where each client is
  asked,     \* the command of its last request
  typed,     \* the user name of its last request
  told,      \* the name it has shown logged in, and not logged out since
  requests,  \* lines under way to the server
  replies,   \* codes under way to the client
  holders    \* processes that hold the server end of the connection

clientVars == <<at, asked, typed, told, requests, replies, holders>>

ClientInit ==
  /\ at = [c \in Clients |-> "start"]
  /\ asked = [c \in Clients |-> "none"]
  /\ typed = [c \in Clients |-> NoName]
  /\ told = [c \in Clients |-> NoName]
  /\ requests = [c \in Clients |-> <<>>]
  /\ replies = [c \in Clients |-> <<>>]
  /\ holders = [c \in Clients |-> {}]

Goto(c, from, to) == at[c] = from /\ at' = [at EXCEPT ![c] = to]

\* The program ends; the kernel drops what it would have read.
Leave(c) ==
  /\ at' = [at EXCEPT ![c] = "left"]
  /\ asked' = [asked EXCEPT ![c] = "none"]
  /\ typed' = [typed EXCEPT ![c] = NoName]
  /\ told' = [told EXCEPT ![c] = NoName]
  /\ replies' = [replies EXCEPT ![c] = <<>>]
  /\ UNCHANGED <<requests, holders>>

\* connect(): the kernel completes the connection before accept() returns it.
Connect(c) ==
  /\ Goto(c, "start", "greeting")
  /\ holders' = [holders EXCEPT ![c] = {"kernel"}]
  /\ UNCHANGED <<asked, typed, told, requests, replies>>

\* Nobody listens: exit(1).
ConnectFails(c) == at[c] = "start" /\ Leave(c)

NextReply(c) ==
  /\ replies[c] # <<>>
  /\ replies' = [replies EXCEPT ![c] = Tail(@)]

\* Nothing is left to read, and no process can send any more.
HungUp(c) == replies[c] = <<>> /\ holders[c] = {}

\* The first recv_until_delim() of main().  Its result is not checked: the menu
\* comes up without a greeting, too.
Greeted(c) ==
  /\ Goto(c, "greeting", "menu")
  /\ \/ NextReply(c)
     \/ HungUp(c) /\ UNCHANGED replies
  /\ UNCHANGED <<asked, typed, told, requests, holders>>

\* send_message(): snprintf() writes at most BuffSize - 1 bytes, and what does not
\* fit is the end of the line, the delimiter.
Line(cmd, name, len) ==
  IF len + 2 <= BuffSize - 1
    THEN [cmd |-> cmd, name |-> name, whole |-> TRUE]
    ELSE [cmd |-> cmd, name |-> NoName, whole |-> FALSE]

Ask(c, name, line) ==
  /\ Goto(c, "menu", "wait")
  /\ asked' = [asked EXCEPT ![c] = line.cmd]
  /\ typed' = [typed EXCEPT ![c] = name]
  /\ requests' = [requests EXCEPT ![c] = Append(@, line)]
  /\ UNCHANGED <<told, replies, holders>>

Login(c) == \E u \in Names, len \in Lengths : Ask(c, u, Line("USER", u, len))

Post(c) == \E len \in Lengths : Ask(c, NoName, Line("POST", NoName, len))

Logout(c) == Ask(c, NoName, [cmd |-> "BYE", name |-> NoName, whole |-> TRUE])

\* A client other than client.c sends a line that is no command.
AskNonsense(c) == Ask(c, NoName, [cmd |-> "?", name |-> NoName, whole |-> TRUE])

\* What the user knows after a code is shown: 110 speaks of the name just typed.
Shown(c, code) ==
  CASE code = 110 -> typed[c]
    [] code = 130 -> NoName
    [] OTHER -> told[c]

\* handle_server_response(): the code is shown, and the menu comes up.
Answered(c) ==
  /\ Goto(c, "wait", "menu")
  /\ NextReply(c)
  /\ told' = [told EXCEPT ![c] = Shown(c, Head(replies[c]))]
  /\ typed' = [typed EXCEPT ![c] = NoName]
  /\ UNCHANGED <<asked, requests, holders>>

\* "Connection lost!" and the end of main().
ConnectionLost(c) == at[c] = "wait" /\ HungUp(c) /\ Leave(c)

\* Choice 4.
Exit(c) == at[c] = "menu" /\ Leave(c)

\* stdin ends: the loop over getchar() that looks for a newline reads EOF for ever,
\* with the connection open.
StdinEnds(c) ==
  /\ Goto(c, "menu", "spin")
  /\ UNCHANGED <<asked, typed, told, requests, replies, holders>>

\* The user interrupts the program.
Interrupt(c) == at[c] \in {"greeting", "menu", "wait", "spin"} /\ Leave(c)

\* What the program does by itself, and what its user does.
ClientStep(c) == Greeted(c) \/ Answered(c) \/ ConnectionLost(c)

UserStep(c) ==
  \/ Login(c)
  \/ Post(c)
  \/ Logout(c)
  \/ AskNonsense(c)
  \/ Exit(c)
  \/ StdinEnds(c)
  \/ Interrupt(c)
==============================================================================
