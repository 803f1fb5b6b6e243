----------------------------- MODULE UdpResolver -----------------------------
(***************************************************************************)
(* The UDP resolver of HW3: a server that answers one datagram after the   *)
(* other, and clients that send a query and wait for an answer, with no    *)
(* number to match the two and no timeout.                                 *)
(*                                                                         *)
(* The network may lose, duplicate and reorder datagrams, and recvfrom()   *)
(* may fail on both sides.  n numbers the queries of a client for the      *)
(* properties; the datagrams of the program carry no such number.          *)
(***************************************************************************)
EXTENDS Validation, Bags

CONSTANTS
  Clients,     \* runs of the client program
  NoQuery,     \* the server has received nothing yet
  Queries,     \* texts the users type
  Samples,     \* texts on which the checks are compared
  MaxQueries,  \* bound: queries of a client
  MaxFaults    \* bound: datagrams lost or duplicated, and failed recvfrom()

\* What a client sends.
Query == [client : Clients, n : 1..MaxQueries, text : Queries]

ASSUME ResolverAssumption ==
  /\ Queries \subseteq Texts /\ Samples \subseteq Texts
  /\ MaxQueries \in Nat /\ MaxFaults \in Nat
  /\ NoQuery \notin Query

VARIABLES
  at,        \* where each client is
  asked,     \* queries each client has sent
  shown,     \* number of the query whose answer each client showed last
  toServer,  \* datagrams under way to the server, a bag
  toClient,  \* datagrams under way to the clients, a bag
  serving,   \* the server is in a lookup
  current,   \* what buffer and client_addr of the server hold
  surplus,   \* datagrams for each client beyond one for each query
  lost,      \* datagrams for each client that got lost
  faults

vars == <<at, asked, shown, toServer, toClient, serving, current, surplus, lost, faults>>

Init ==
  /\ at = [c \in Clients |-> "prompt"]
  /\ asked = [c \in Clients |-> 0]
  /\ shown = [c \in Clients |-> 0]
  /\ toServer = EmptyBag
  /\ toClient = EmptyBag
  /\ serving = FALSE
  /\ current = NoQuery
  /\ surplus = [c \in Clients |-> 0]
  /\ lost = [c \in Clients |-> 0]
  /\ faults = 0

Count(f, c) == f' = [f EXCEPT ![c] = @ + 1]

Fault == faults < MaxFaults /\ faults' = faults + 1

-----------------------------------------------------------------------------
(* The client.  A sendto() that fails leaves it at its prompt. *)

Ask(c, q) ==
  /\ at[c] = "prompt"
  /\ asked[c] < MaxQueries
  /\ at' = [at EXCEPT ![c] = "wait"]
  /\ Count(asked, c)
  /\ toServer' = toServer (+) SetToBag({[client |-> c, n |-> asked[c] + 1, text |-> q]})
  /\ UNCHANGED <<shown, toClient, serving, current, surplus, lost, faults>>

\* recvfrom() takes whatever comes first.
Show(c, r) ==
  /\ at[c] = "wait"
  /\ r.client = c
  /\ at' = [at EXCEPT ![c] = "prompt"]
  /\ shown' = [shown EXCEPT ![c] = r.n]
  /\ toClient' = toClient (-) SetToBag({r})
  /\ UNCHANGED <<asked, toServer, serving, current, surplus, lost, faults>>

\* recvfrom() fails: the client is ready for the next query, and the answer to this
\* one may still come.
ShowFails(c) ==
  /\ Fault
  /\ at[c] = "wait"
  /\ at' = [at EXCEPT ![c] = "prompt"]
  /\ Count(surplus, c)
  /\ UNCHANGED <<asked, shown, toServer, toClient, serving, current, lost>>

\* An empty line, or the end of the input.
Quit(c) ==
  /\ at[c] = "prompt"
  /\ at' = [at EXCEPT ![c] = "done"]
  /\ UNCHANGED <<asked, shown, toServer, toClient, serving, current, surplus, lost,
                 faults>>

-----------------------------------------------------------------------------
(* The server *)

\* Mutant: the address of the first client is kept.
ReceiveFrom(d) ==
  /\ ~serving
  /\ serving' = TRUE
  /\ current' = IF current = NoQuery THEN d ELSE [d EXCEPT !.client = current.client]
  /\ toServer' = toServer (-) SetToBag({d})
  /\ UNCHANGED <<at, asked, shown, toClient, surplus, lost, faults>>

Receive(d) ==
  /\ ~serving
  /\ serving' = TRUE
  /\ current' = d
  /\ toServer' = toServer (-) SetToBag({d})
  /\ UNCHANGED <<at, asked, shown, toClient, surplus, lost, faults>>

\* recvfrom() fails: the error is printed, and the loop goes on with the query and
\* the address that are still in buffer and client_addr.
ReceiveFails ==
  /\ Fault
  /\ ~serving
  /\ serving' = TRUE
  /\ IF current = NoQuery THEN UNCHANGED surplus ELSE Count(surplus, current.client)
  /\ UNCHANGED <<at, asked, shown, toServer, toClient, current, lost>>

Reply(answer) == [client |-> current.client, n |-> current.n, answer |-> answer]

\* Mutant: a lookup that finds nothing is not answered.
RespondIfFound ==
  /\ serving
  /\ serving' = FALSE
  /\ current # NoQuery
  /\ \E answer \in Answers(current.text, IsValidIPv4(current.text)) :
       toClient' = IF answer = "not found" THEN toClient ELSE toClient (+) SetToBag({Reply(answer)})
  /\ UNCHANGED <<at, asked, shown, toServer, current, surplus, lost, faults>>

\* The answer goes to client_addr.  Before the first query that is no client.
Respond ==
  /\ serving
  /\ serving' = FALSE
  /\ IF current = NoQuery
       THEN UNCHANGED toClient
       ELSE \E answer \in Answers(current.text, IsValidIPv4(current.text)) :
              toClient' = toClient (+) SetToBag({Reply(answer)})
  /\ UNCHANGED <<at, asked, shown, toServer, current, surplus, lost, faults>>

-----------------------------------------------------------------------------
(* The network *)

LoseQuery(d) ==
  /\ Fault
  /\ toServer' = toServer (-) SetToBag({d})
  /\ Count(lost, d.client)
  /\ UNCHANGED <<at, asked, shown, toClient, serving, current, surplus>>

LoseAnswer(r) ==
  /\ Fault
  /\ toClient' = toClient (-) SetToBag({r})
  /\ Count(lost, r.client)
  /\ UNCHANGED <<at, asked, shown, toServer, serving, current, surplus>>

DuplicateQuery(d) ==
  /\ Fault
  /\ toServer' = toServer (+) SetToBag({d})
  /\ Count(surplus, d.client)
  /\ UNCHANGED <<at, asked, shown, toClient, serving, current, lost>>

DuplicateAnswer(r) ==
  /\ Fault
  /\ toClient' = toClient (+) SetToBag({r})
  /\ Count(surplus, r.client)
  /\ UNCHANGED <<at, asked, shown, toServer, serving, current, lost>>

NetworkStep ==
  \/ \E d \in BagToSet(toServer) : LoseQuery(d) \/ DuplicateQuery(d)
  \/ \E r \in BagToSet(toClient) : LoseAnswer(r) \/ DuplicateAnswer(r)

-----------------------------------------------------------------------------
ServerStep == (\E d \in BagToSet(toServer) : Receive(d)) \/ Respond

ClientShows(c) == \E r \in BagToSet(toClient) : Show(c, r)

Next ==
  \/ ServerStep
  \/ ReceiveFails
  \/ NetworkStep
  \/ \E c \in Clients :
       \/ \E q \in Queries : Ask(c, q)
       \/ ClientShows(c)
       \/ ShowFails(c)
       \/ Quit(c)

Spec == Init /\ [][Next]_vars

\* The server and the clients run; a datagram that is not lost is delivered, and a
\* lookup ends (the resolver library has its own timeouts).
FairSpec ==
  /\ Spec
  /\ WF_vars(ServerStep)
  /\ \A c \in Clients : WF_vars(ClientShows(c))

-----------------------------------------------------------------------------
(* Properties *)

ZeroInFront(t) == \E k \in DOMAIN t : Len(t[k]) > 1 /\ t[k][1] = 0

TooLong(t) == \E k \in DOMAIN t : Len(t[k]) > 3

RightVerdict(t) ==
  /\ Pton(t) => IsValidIPv4(t)
  /\ IsValidIPv4(t) => Pton(t) \/ ZeroInFront(t) \/ TooLong(t)
  /\ IsValidDomain(t) => ~IsNumberOrDot(t)
  /\ Verdict(t, IsValidIPv4Tokens(t)) # Verdict(t, IsValidIPv4(t)) =>
       \E k \in DOMAIN t : t[k] = <<>>

SamplesAgree == \A t \in Samples : RightVerdict(t)

\* The verdicts are right, on the samples and on every query under way.  An address
\* inet_pton() knows is looked up as one; what is taken for an address and is none
\* has a zero in front of a number, or a number so long that atoi() wraps, and is
\* answered "Not found" instead of "Invalid"; no name is also a number, so the order
\* of the checks does not matter; and the resolver of HW2 differs only where two
\* dots meet, or a dot is first or last.
VerdictsAgree == SamplesAgree /\ \A d \in DOMAIN toServer : RightVerdict(d.text)

\* The copies of datagrams for client c that a bag holds.
Copies(c, bag) == UNION {{d} \X (1..bag[d]) : d \in {e \in DOMAIN bag : e.client = c}}

Under(c, bag) == Cardinality(Copies(c, bag))

One(holds) == IF holds THEN 1 ELSE 0

Served(c) == serving /\ current # NoQuery /\ current.client = c

\* Nothing that is sent gets forgotten or multiplied by the programs: for each client
\* that waits there is one datagram under way or in the server's lookup, except for
\* those the network lost or made, and those a failed recvfrom() made, when the
\* server answers the last query once more.
DatagramsAddUp ==
  \A c \in Clients :
    Under(c, toServer) + Under(c, toClient) + One(Served(c))
      = One(at[c] = "wait") + surplus[c] - lost[c]

\* The answer a client shows is the answer to the query it has just made, also
\* with many clients, until a surplus datagram for it has come up; then every
\* later answer may be the one before.
AnswerIsOwn ==
  \A c \in Clients :
    at[c] = "prompt" /\ shown[c] # asked[c] => surplus[c] > 0

\* A client that waits gets an answer, unless a datagram for it was lost: the server
\* answers whatever it is sent, and the client has no timeout.
AnsweredUnlessLost ==
  \A c \in Clients : at[c] = "wait" ~> at[c] # "wait" \/ lost[c] > 0
==============================================================================
