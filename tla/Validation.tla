------------------------------ MODULE Validation ------------------------------
(***************************************************************************)
(* The checks that the UDP resolver of HW3 (validation.c) and the resolver *)
(* of HW2 (resolver.c) make of what a user typed.                          *)
(*                                                                         *)
(* A text is the sequence of its segments, what stands between the dots:   *)
(* ".1" is <<"", "1">>, and the empty text is <<"">>.  A segment is a      *)
(* sequence of characters, and a character its class, or its digit.        *)
(***************************************************************************)
EXTENDS Integers, Sequences, FiniteSets

CONSTANTS
  MaxAddress,  \* MAX_LENGTH_IPv4: room for an address and its null byte
  MaxLabel,    \* longest label of a name, 63
  MaxName,     \* longest name, 253
  IntRange     \* number of values of an int, 2^32

ASSUME ValidationAssumption ==
  /\ MaxAddress \in Nat /\ MaxLabel \in Nat /\ MaxName \in Nat
  /\ IntRange \in Nat \ {0}

\* An address fits into its array, and the number of a segment that is not too long
\* fits into an int.
ASSUME SizesAssumption == MaxAddress > 15 /\ IntRange >= 1000

Digits == 0..9
Letter == 10
Hyphen == 11
Other == 12
Characters == 0..12

Texts == Seq(Seq(Characters)) \ {<<>>}

\* strlen(): the segments, and a dot in front of each but the first.
Length(t) ==
  LET length[k \in 0..Len(t)] == IF k = 0 THEN -1 ELSE length[k - 1] + 1 + Len(t[k])
  IN  length[Len(t)]

IsEmpty(t) == t = << <<>> >>

AllDigits(w) == \A k \in DOMAIN w : w[k] \in Digits

\* The number a row of digits stands for.
Value(w) ==
  LET value[k \in 0..Len(w)] == IF k = 0 THEN 0 ELSE 10 * value[k - 1] + w[k]
  IN  value[Len(w)]

\* atoi(): the value is truncated to an int, the upper half of which is negative.
Atoi(w) ==
  LET n == Value(w) % IntRange IN IF 2 * n < IntRange THEN n ELSE n - IntRange

\* Mutant: one too many.
IsByteOrMore(w) == AllDigits(w) /\ Atoi(w) \in 0..256

IsByte(w) == AllDigits(w) /\ Atoi(w) \in 0..255

\* is_valid_ipv4() of HW3: a dot first, last or after a dot is refused, so that
\* strtok() sees every segment.
IsValidIPv4(t) ==
  /\ ~IsEmpty(t)
  /\ Length(t) < MaxAddress
  /\ \A k \in DOMAIN t : t[k] # <<>> /\ IsByte(t[k])
  /\ Len(t) = 4

\* is_valid_ipv4() of HW2: strtok() takes several dots for one.
IsValidIPv4Tokens(t) ==
  LET tokens == {k \in DOMAIN t : t[k] # <<>>} IN
  /\ ~IsEmpty(t)
  /\ Length(t) < MaxAddress
  /\ \A k \in tokens : IsByte(t[k])
  /\ Cardinality(tokens) = 4

\* The empty text is one, too.
IsNumberOrDot(t) == \A k \in DOMAIN t : AllDigits(t[k])

IsValidLabel(w) ==
  /\ Len(w) \in 1..MaxLabel
  /\ w[1] # Hyphen /\ w[Len(w)] # Hyphen
  /\ \A k \in DOMAIN w : w[k] # Other

IsValidDomain(t) ==
  /\ Length(t) \in 1..MaxName
  /\ Len(t) >= 2
  /\ \A k \in DOMAIN t : IsValidLabel(t[k])
  /\ Len(t[Len(t)]) >= 2
  /\ ~AllDigits(t[Len(t)])

-----------------------------------------------------------------------------
\* inet_pton() takes four bytes in decimal, with no zero in front.
Pton(t) ==
  /\ Len(t) = 4
  /\ \A k \in DOMAIN t :
       /\ Len(t[k]) \in 1..3 /\ AllDigits(t[k])
       /\ Value(t[k]) <= 255
       /\ t[k][1] = 0 => Len(t[k]) = 1

\* What the program does with a text: main() of both.
Verdict(t, isAddress) ==
  CASE isAddress -> "reverse"
    [] ~isAddress /\ IsNumberOrDot(t) -> "bad address"
    [] ~isAddress /\ ~IsNumberOrDot(t) /\ IsValidDomain(t) -> "forward"
    [] OTHER -> "bad name"

\* What may come of it: a lookup finds something or nothing, and reverse_lookup()
\* finds nothing for what inet_pton() does not take.
Answers(t, isAddress) ==
  LET v == Verdict(t, isAddress) IN
  CASE v = "forward" -> {"found", "not found"}
    [] v = "reverse" /\ Pton(t) -> {"found", "not found"}
    [] v = "reverse" /\ ~Pton(t) -> {"not found"}
    [] OTHER -> {v}
==============================================================================
