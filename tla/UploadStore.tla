------------------------------ MODULE UploadStore ------------------------------
(***************************************************************************)
(* What the file server of HW4 promises: a client is told of a successful  *)
(* upload only while its whole file is stored under its name.  A new       *)
(* upload takes the name, whether it succeeds or not.                      *)
(***************************************************************************)
CONSTANTS Clients, Names, NoClient

VARIABLES
  job,       \* the name each client uploads to
  stored,    \* whose whole file each name holds, or NoClient
  reported   \* clients that were told of a successful upload

vars == <<job, stored, reported>>

Init ==
  /\ job \in [Clients -> Names]
  /\ stored = [n \in Names |-> NoClient]
  /\ reported = {}

\* An upload to name n begins, and what the name held is given up.
GiveUp(n) ==
  /\ stored' = [stored EXCEPT ![n] = NoClient]
  /\ UNCHANGED <<job, reported>>

Store(c) ==
  /\ stored[job[c]] = NoClient
  /\ stored' = [stored EXCEPT ![job[c]] = c]
  /\ UNCHANGED <<job, reported>>

Report(c) ==
  /\ stored[job[c]] = c
  /\ reported' = reported \cup {c}
  /\ UNCHANGED <<job, stored>>

Next ==
  \/ \E n \in Names : GiveUp(n)
  \/ \E c \in Clients : Store(c) \/ Report(c)

Spec == Init /\ [][Next]_vars
==============================================================================
