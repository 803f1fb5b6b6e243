---------------------------- MODULE LoginRegistry ----------------------------
(***************************************************************************)
(* What the login service of HW7/TCP-multithread-main promises its         *)
(* clients, with no sockets, threads or session tables: which connection   *)
(* is logged in as which account, with one login for each account.         *)
(***************************************************************************)
CONSTANTS
  Conns,      \* connections
  Users,      \* accounts that may log in: they exist and are not blocked
  NoUser      \* "not logged in": no member of Users

VARIABLE who  \* who[c] is the account connection c is logged in as

Init == who = [c \in Conns |-> NoUser]

Login(c, u) ==
  /\ who[c] = NoUser
  /\ \A d \in Conns : who[d] # u
  /\ who' = [who EXCEPT ![c] = u]

\* A BYE, or the end of the connection.
Logout(c) ==
  /\ who[c] # NoUser
  /\ who' = [who EXCEPT ![c] = NoUser]

Next == \E c \in Conns : Logout(c) \/ \E u \in Users : Login(c, u)

Spec == Init /\ [][Next]_who
==============================================================================
