--------------------------- MODULE UdpResolverProofs ---------------------------
(***************************************************************************)
(* The checks of HW2 and HW3 judge every text as VerdictsAgree says, by    *)
(* the arithmetic of addresses of at most fifteen characters; and the      *)
(* datagrams of the resolver add up for each client (UdpInv), from which   *)
(* it follows whose answer a client shows.                                 *)
(***************************************************************************)
EXTENDS UdpResolver, FiniteSetTheorems, SequenceTheorems, TLAPS

-----------------------------------------------------------------------------
(* The verdicts, for every text *)

\* A recursive function has the values its equation gives as soon as some function
\* solves the equation: here for rows of up to three digits.
LEMMA ValueUpToThree ==
  ASSUME NEW w \in Seq(Digits), Len(w) \in 1..3
  PROVE  /\ Len(w) = 1 => Value(w) = w[1]
         /\ Len(w) = 2 => Value(w) = 10 * w[1] + w[2]
         /\ Len(w) = 3 => Value(w) = 100 * w[1] + 10 * w[2] + w[3]
<1> DEFINE value == CHOOSE v :
       v = [k \in 0..Len(w) |-> IF k = 0 THEN 0 ELSE 10 * v[k - 1] + w[k]]
<1>0. \A k \in 1..Len(w) : w[k] \in Nat
  BY DEF Digits
<1>1. \E v : v = [k \in 0..Len(w) |-> IF k = 0 THEN 0 ELSE 10 * v[k - 1] + w[k]]
  <2> DEFINE v == [k \in 0..Len(w) |->
                     IF k = 0 THEN 0
                     ELSE IF k = 1 THEN w[1]
                     ELSE IF k = 2 THEN 10 * w[1] + w[2]
                     ELSE 100 * w[1] + 10 * w[2] + w[3]]
  <2>1. ASSUME NEW k \in 0..Len(w) PROVE v[k] = IF k = 0 THEN 0 ELSE 10 * v[k - 1] + w[k]
    <3>1. CASE k = 0
      BY <3>1
    <3>2. CASE k = 1
      <4>1. 0 \in 0..Len(w) /\ 1 \in 1..Len(w)
        BY <3>2
      <4>2. v[1] = w[1] /\ v[0] = 0
        BY <3>2, <4>1
      <4> QED BY <1>0, <3>2, <4>1, <4>2
    <3>3. CASE k = 2
      <4>1. 1 \in 0..Len(w) /\ 1 \in 1..Len(w) /\ 2 \in 1..Len(w)
        BY <3>3
      <4>2. v[1] = w[1] /\ v[2] = 10 * w[1] + w[2]
        BY <3>3, <4>1
      <4> QED BY <1>0, <3>3, <4>1, <4>2
    <3>4. CASE k = 3
      <4>1. 2 \in 0..Len(w) /\ 1 \in 1..Len(w) /\ 2 \in 1..Len(w) /\ 3 \in 1..Len(w)
        BY <3>4
      <4>2. v[2] = 10 * w[1] + w[2] /\ v[3] = 100 * w[1] + 10 * w[2] + w[3]
        BY <3>4, <4>1
      <4> QED BY <1>0, <3>4, <4>1, <4>2
    <3> QED BY <3>1, <3>2, <3>3, <3>4
  <2>2. v = [k \in 0..Len(w) |-> IF k = 0 THEN 0 ELSE 10 * v[k - 1] + w[k]]
    BY <2>1
  <2> QED BY <2>2
<1>2. value = [k \in 0..Len(w) |-> IF k = 0 THEN 0 ELSE 10 * value[k - 1] + w[k]]
  BY <1>1
<1>3. Value(w) = value[Len(w)]
  BY DEF Value
<1> HIDE DEF value
<1>4. \A k \in 0..Len(w) : value[k] = IF k = 0 THEN 0 ELSE 10 * value[k - 1] + w[k]
  BY <1>2
<1>5. value[0] = 0 /\ value[1] = w[1]
  BY <1>0, <1>4
<1>6. Len(w) >= 2 => value[2] = 10 * w[1] + w[2]
  <2>1. Len(w) >= 2 => value[2] = 10 * value[1] + w[2]
    BY <1>4
  <2> QED BY <1>5, <2>1
<1>7. Len(w) >= 3 => value[3] = 100 * w[1] + 10 * w[2] + w[3]
  <2>1. Len(w) >= 3 => value[3] = 10 * value[2] + w[3]
    BY <1>4
  <2> QED BY <1>0, <1>6, <2>1
<1>8. CASE Len(w) = 1
  BY <1>3, <1>5, <1>8
<1>9. CASE Len(w) = 2
  BY <1>3, <1>6, <1>9
<1>10. CASE Len(w) = 3
  BY <1>3, <1>7, <1>10
<1> QED BY <1>8, <1>9, <1>10

\* The same for the length of four segments.
LEMMA LengthOfFour ==
  ASSUME NEW t \in Texts, Len(t) = 4
  PROVE  Length(t) = 3 + Len(t[1]) + Len(t[2]) + Len(t[3]) + Len(t[4])
<1> DEFINE length == CHOOSE v :
       v = [k \in 0..Len(t) |-> IF k = 0 THEN -1 ELSE v[k - 1] + 1 + Len(t[k])]
<1>0. \A k \in 1..4 : Len(t[k]) \in Nat
  BY DEF Texts
<1>1. \E v : v = [k \in 0..Len(t) |-> IF k = 0 THEN -1 ELSE v[k - 1] + 1 + Len(t[k])]
  <2> DEFINE v == [k \in 0..Len(t) |->
                     IF k = 0 THEN -1
                     ELSE IF k = 1 THEN Len(t[1])
                     ELSE IF k = 2 THEN 1 + Len(t[1]) + Len(t[2])
                     ELSE IF k = 3 THEN 2 + Len(t[1]) + Len(t[2]) + Len(t[3])
                     ELSE 3 + Len(t[1]) + Len(t[2]) + Len(t[3]) + Len(t[4])]
  <2>1. ASSUME NEW k \in 0..Len(t)
        PROVE  v[k] = IF k = 0 THEN -1 ELSE v[k - 1] + 1 + Len(t[k])
    <3>1. k \in {0, 1, 2, 3, 4}
      OBVIOUS
    <3>2. /\ v[0] = -1 /\ v[1] = Len(t[1]) /\ v[2] = 1 + Len(t[1]) + Len(t[2])
          /\ v[3] = 2 + Len(t[1]) + Len(t[2]) + Len(t[3])
          /\ v[4] = 3 + Len(t[1]) + Len(t[2]) + Len(t[3]) + Len(t[4])
      OBVIOUS
    <3>3. /\ v[0] = -1 /\ v[1] = v[0] + 1 + Len(t[1]) /\ v[2] = v[1] + 1 + Len(t[2])
          /\ v[3] = v[2] + 1 + Len(t[3]) /\ v[4] = v[3] + 1 + Len(t[4])
      <4>1. /\ Len(t[1]) \in Nat /\ Len(t[2]) \in Nat /\ Len(t[3]) \in Nat
            /\ Len(t[4]) \in Nat
        BY <1>0
      <4> HIDE DEF v
      <4> QED BY <3>2, <4>1
    <3> HIDE DEF v
    <3>4. CASE k = 0
      BY <3>3, <3>4
    <3>5. CASE k = 1
      BY <3>3, <3>5
    <3>6. CASE k = 2
      BY <3>3, <3>6
    <3>7. CASE k = 3
      BY <3>3, <3>7
    <3>8. CASE k = 4
      BY <3>3, <3>8
    <3> QED BY <3>1, <3>4, <3>5, <3>6, <3>7, <3>8
  <2>2. v = [k \in 0..Len(t) |-> IF k = 0 THEN -1 ELSE v[k - 1] + 1 + Len(t[k])]
    BY <2>1
  <2> QED BY <2>2
<1>2. length = [k \in 0..Len(t) |-> IF k = 0 THEN -1 ELSE length[k - 1] + 1 + Len(t[k])]
  BY <1>1
<1>3. Length(t) = length[4]
  BY DEF Length
<1> HIDE DEF length
<1>4. \A k \in 0..4 : length[k] = IF k = 0 THEN -1 ELSE length[k - 1] + 1 + Len(t[k])
  BY <1>2
<1>5. length[0] = -1 /\ length[1] = Len(t[1])
  BY <1>0, <1>4
<1>6. length[2] = length[1] + 1 + Len(t[2]) /\ length[3] = length[2] + 1 + Len(t[3])
  BY <1>4
<1>7. length[4] = length[3] + 1 + Len(t[4])
  BY <1>4
<1> QED BY <1>0, <1>3, <1>5, <1>6, <1>7

\* atoi() does not wrap on three digits.
LEMMA ByteOfThree ==
  ASSUME NEW w \in Seq(Digits), Len(w) \in 1..3
  PROVE  IsByte(w) <=> Value(w) <= 255
<1>1. \A k \in 1..Len(w) : w[k] \in 0..9
  BY DEF Digits
<1>2. Value(w) \in 0..999
  <2>1. CASE Len(w) = 1
    <3>1. w[1] \in 0..9
      BY <1>1, <2>1
    <3>2. Value(w) = w[1]
      BY <2>1, ValueUpToThree
    <3> QED BY <3>1, <3>2
  <2>2. CASE Len(w) = 2
    <3>1. w[1] \in 0..9 /\ w[2] \in 0..9
      BY <1>1, <2>2
    <3>2. Value(w) = 10 * w[1] + w[2]
      BY <2>2, ValueUpToThree
    <3>3. \A a, b \in 0..9 : 10 * a + b \in 0..999
      OBVIOUS
    <3>4. 10 * w[1] + w[2] \in 0..999
      BY <3>1, <3>3, Zenon
    <3> QED BY <3>2, <3>4, Zenon
  <2>3. CASE Len(w) = 3
    <3>1. w[1] \in 0..9 /\ w[2] \in 0..9 /\ w[3] \in 0..9
      BY <1>1, <2>3
    <3>2. Value(w) = 100 * w[1] + 10 * w[2] + w[3]
      BY <2>3, ValueUpToThree
    <3> DEFINE a == w[1]  b == w[2]  c == w[3]
    <3>3. a \in 0..9 /\ b \in 0..9 /\ c \in 0..9
      BY <3>1
    <3>4. Value(w) = 100 * a + 10 * b + c
      BY <3>2
    <3> HIDE DEF a, b, c
    <3>5. 100 * a + 10 * b + c \in 0..999
      BY <3>3
    <3> QED BY <3>4, <3>5
  <2> QED BY <2>1, <2>2, <2>3
<1>3. IntRange \in Nat /\ IntRange >= 1000
  BY ValidationAssumption, SizesAssumption
<1>4. \A n \in 0..999, m \in Nat : m >= 1000 =>
        /\ n % m = n
        /\ (IF 2 * n < m THEN n ELSE n - m) \in 0..255 <=> n <= 255
  OBVIOUS
<1>5. /\ Value(w) % IntRange = Value(w)
      /\ (IF 2 * Value(w) < IntRange THEN Value(w) ELSE Value(w) - IntRange) \in 0..255
           <=> Value(w) <= 255
  BY <1>2, <1>3, <1>4
<1>6. AllDigits(w)
  BY DEF AllDigits
<1>7. Atoi(w) \in 0..255 <=> Value(w) <= 255
  BY <1>5 DEF Atoi
<1> QED BY <1>6, <1>7 DEF IsByte

\* The segments of a text.
LEMMA SegmentType ==
  ASSUME NEW t \in Texts, NEW k \in DOMAIN t
  PROVE  /\ t[k] \in Seq(Characters) /\ Len(t[k]) \in Nat
         /\ AllDigits(t[k]) => t[k] \in Seq(Digits)
         /\ t[k] # <<>> <=> Len(t[k]) > 0
<1>1. t[k] \in Seq(Characters)
  BY DEF Texts
<1>2. AllDigits(t[k]) => t[k] \in Seq(Digits)
  <2>1. ASSUME AllDigits(t[k]) PROVE t[k] \in [1..Len(t[k]) -> Digits]
    BY <1>1, <2>1 DEF AllDigits
  <2> QED BY <1>1, <2>1
<1> QED BY <1>1, <1>2

\* What inet_pton() takes, is_valid_ipv4() takes.
LEMMA PtonIsValid ==
  ASSUME NEW t \in Texts, Pton(t)
  PROVE  IsValidIPv4(t)
<1>1. Len(t) = 4 /\ DOMAIN t = 1..4
  BY DEF Pton, Texts
<1>2. ASSUME NEW k \in 1..4
      PROVE  Len(t[k]) \in 1..3 /\ t[k] # <<>> /\ IsByte(t[k])
  <2>1. Len(t[k]) \in 1..3 /\ AllDigits(t[k]) /\ Value(t[k]) <= 255
    BY <1>1 DEF Pton
  <2>2. t[k] \in Seq(Digits) /\ t[k] # <<>>
    <3>1. k \in DOMAIN t
      BY <1>1
    <3>2. t[k] \in Seq(Digits) /\ Len(t[k]) > 0
      <4>1. \A n \in 1..3 : n > 0
        OBVIOUS
      <4> QED BY <2>1, <3>1, <4>1, SegmentType
    <3> QED BY <2>1, <3>1, <3>2, SegmentType
  <2> QED BY <2>1, <2>2, ByteOfThree
<1>3. Length(t) = 3 + Len(t[1]) + Len(t[2]) + Len(t[3]) + Len(t[4])
  BY <1>1, LengthOfFour
<1>4. Length(t) \in 0..15
  <2>1. Len(t[1]) \in 1..3 /\ Len(t[2]) \in 1..3 /\ Len(t[3]) \in 1..3 /\ Len(t[4]) \in 1..3
    BY <1>2
  <2>2. \A a, b, c, d \in 1..3 : 3 + a + b + c + d \in 0..15
    OBVIOUS
  <2> QED BY <1>3, <2>1, <2>2
<1>5. Length(t) < MaxAddress
  BY <1>4, ValidationAssumption, SizesAssumption
<1>6. ~IsEmpty(t)
  BY <1>1 DEF IsEmpty
<1> QED BY <1>1, <1>2, <1>5, <1>6 DEF IsValidIPv4

\* What is_valid_ipv4() takes and inet_pton() does not.
LEMMA ValidIsPton ==
  ASSUME NEW t \in Texts, IsValidIPv4(t), ~ZeroInFront(t), ~TooLong(t)
  PROVE  Pton(t)
<1>1. Len(t) = 4 /\ DOMAIN t = 1..4
  BY DEF IsValidIPv4, Texts
<1>2. ASSUME NEW k \in DOMAIN t
      PROVE  /\ Len(t[k]) \in 1..3 /\ AllDigits(t[k])
             /\ Value(t[k]) <= 255
             /\ t[k][1] = 0 => Len(t[k]) = 1
  <2>1. t[k] # <<>> /\ IsByte(t[k]) /\ AllDigits(t[k])
    BY DEF IsValidIPv4, IsByte
  <2>2. t[k] \in Seq(Digits) /\ Len(t[k]) \in Nat /\ Len(t[k]) > 0
    BY <2>1, SegmentType
  <2>3. ~(Len(t[k]) > 3) /\ ~(Len(t[k]) > 1 /\ t[k][1] = 0)
    BY DEF TooLong, ZeroInFront
  <2>4. /\ Len(t[k]) > 3 \/ Len(t[k]) \in 1..3
        /\ Len(t[k]) > 1 \/ Len(t[k]) = 1
    <3>1. \A n \in Nat : n > 0 => (n > 3 \/ n \in 1..3) /\ (n > 1 \/ n = 1)
      OBVIOUS
    <3> QED BY <2>2, <3>1
  <2>5. Len(t[k]) \in 1..3 /\ (t[k][1] = 0 => Len(t[k]) = 1)
    BY <2>3, <2>4
  <2>6. Value(t[k]) <= 255
    BY <2>1, <2>2, <2>5, ByteOfThree
  <2> QED BY <2>1, <2>5, <2>6
<1> QED BY <1>1, <1>2 DEF Pton

\* Without an empty segment strtok() sees what the check of HW3 sees.
LEMMA TokensAgree ==
  ASSUME NEW t \in Texts, \A k \in DOMAIN t : t[k] # <<>>
  PROVE  IsValidIPv4Tokens(t) <=> IsValidIPv4(t)
<1> DEFINE tokens == {k \in DOMAIN t : t[k] # <<>>}
<1>1. tokens = 1..Len(t) /\ DOMAIN t = 1..Len(t) /\ Len(t) \in Nat
  BY DEF Texts
<1>2. Cardinality(tokens) = Len(t)
  <2>1. Cardinality(1..Len(t)) = Len(t)
    BY <1>1, FS_Interval
  <2> HIDE DEF tokens
  <2> QED BY <1>1, <2>1
<1>3. IsValidIPv4Tokens(t) <=> /\ ~IsEmpty(t)
                               /\ Length(t) < MaxAddress
                               /\ \A k \in tokens : IsByte(t[k])
                               /\ Cardinality(tokens) = 4
  BY Zenon DEF IsValidIPv4Tokens
<1> HIDE DEF tokens
<1> QED BY <1>1, <1>2, <1>3 DEF IsValidIPv4

\* The verdicts are right on every text, not only on the samples of a run.
THEOREM VerdictsRight == \A t \in Texts : RightVerdict(t)
<1> SUFFICES ASSUME NEW t \in Texts PROVE RightVerdict(t)
  OBVIOUS
<1>1. IsValidDomain(t) => ~IsNumberOrDot(t)
  <2>1. Len(t) \in DOMAIN t
    BY DEF Texts
  <2> QED BY <2>1 DEF IsValidDomain, IsNumberOrDot
<1>2. Verdict(t, IsValidIPv4Tokens(t)) # Verdict(t, IsValidIPv4(t)) =>
        \E k \in DOMAIN t : t[k] = <<>>
  BY TokensAgree DEF Verdict
<1> QED BY <1>1, <1>2, PtonIsValid, ValidIsPton DEF RightVerdict

-----------------------------------------------------------------------------
(* The network *)

\* A bag of datagrams, with finitely many for each client.
IsNetwork(bag) ==
  /\ bag \in [DOMAIN bag -> Nat \ {0}]
  /\ \A c \in Clients : IsFiniteSet(Copies(c, bag))

LEMMA CopiesMember ==
  ASSUME NEW c, NEW bag, NEW x
  PROVE  x \in Copies(c, bag) <=>
           \E d \in DOMAIN bag : \E k \in 1..bag[d] : d.client = c /\ x = <<d, k>>
BY DEF Copies

LEMMA UnderType ==
  ASSUME NEW bag, IsNetwork(bag), NEW c \in Clients
  PROVE  Under(c, bag) \in Nat
BY FS_CardinalityType DEF IsNetwork, Under

\* Who has a datagram under way has a copy of one.
LEMMA UnderPositive ==
  ASSUME NEW bag, IsNetwork(bag), NEW d \in DOMAIN bag, d.client \in Clients
  PROVE  Under(d.client, bag) > 0
<1>1. bag[d] \in Nat \ {0}
  BY DEF IsNetwork
<1>2. 1 \in 1..bag[d]
  BY <1>1
<1>3. <<d, 1>> \in Copies(d.client, bag)
  BY <1>2, CopiesMember
<1>4. Cardinality(Copies(d.client, bag)) # 0
  BY <1>3, FS_EmptySet DEF IsNetwork
<1> QED BY <1>4, UnderType DEF Under

LEMMA EmptyNetwork ==
  /\ DOMAIN EmptyBag = {} /\ IsNetwork(EmptyBag)
  /\ \A c \in Clients : Under(c, EmptyBag) = 0
<1>1. DOMAIN EmptyBag = {}
  BY DEF EmptyBag, SetToBag
<1>2. ASSUME NEW c \in Clients
      PROVE  IsFiniteSet(Copies(c, EmptyBag)) /\ Under(c, EmptyBag) = 0
  <2>1. Copies(c, EmptyBag) = {}
    BY <1>1, CopiesMember
  <2> QED BY <2>1, FS_EmptySet DEF Under
<1> QED BY <1>1, <1>2 DEF IsNetwork, EmptyBag, SetToBag

\* One datagram more.
LEMMA OneMore ==
  ASSUME NEW bag, IsNetwork(bag), NEW d
  PROVE  /\ DOMAIN (bag (+) SetToBag({d})) = DOMAIN bag \cup {d}
         /\ IsNetwork(bag (+) SetToBag({d}))
         /\ \A c \in Clients :
              Under(c, bag (+) SetToBag({d})) = Under(c, bag) + One(d.client = c)
<1> DEFINE more == bag (+) SetToBag({d})
           had == IF d \in DOMAIN bag THEN bag[d] ELSE 0
<1>1. \A e \in DOMAIN bag : bag[e] \in Nat \ {0}
  BY DEF IsNetwork
<1>2. DOMAIN more = DOMAIN bag \cup {d}
  BY DEF (+), SetToBag
<1>3. had \in Nat
  BY <1>1
<1>4. more[d] = had + 1
  BY <1>1, <1>2, <1>3 DEF (+), SetToBag
<1>5. \A e \in DOMAIN bag : e # d => more[e] = bag[e]
  BY <1>1, <1>2 DEF (+), SetToBag
<1>6. more \in [DOMAIN more -> Nat \ {0}]
  <2>1. more = [e \in DOMAIN more |-> more[e]]
    BY DEF (+)
  <2>2. \A e \in DOMAIN more : more[e] \in Nat \ {0}
    BY <1>1, <1>2, <1>3, <1>4, <1>5
  <2> HIDE DEF more
  <2> QED BY <2>1, <2>2
<1> HIDE DEF more
<1>7. 1..more[d] = 1..had \cup {had + 1} /\ had + 1 \notin 1..had
  BY <1>3, <1>4
<1>8. ASSUME NEW c \in Clients
      PROVE  /\ IsFiniteSet(Copies(c, more))
             /\ Under(c, more) = Under(c, bag) + One(d.client = c)
  <2>1. IsFiniteSet(Copies(c, bag)) /\ Under(c, bag) \in Nat
    BY UnderType DEF IsNetwork
  <2>2. CASE d.client # c
    <3>1. \A x : x \in Copies(c, more) <=> x \in Copies(c, bag)
      BY <1>2, <1>5, <2>2, CopiesMember
    <3>2. Copies(c, more) = Copies(c, bag)
      BY <3>1
    <3> QED BY <2>1, <2>2, <3>2 DEF Under, One
  <2>3. CASE d.client = c
    <3>1. ASSUME NEW x \in Copies(c, more) PROVE x \in Copies(c, bag) \cup {<<d, had + 1>>}
      <4>1. PICK e \in DOMAIN more : \E k \in 1..more[e] : e.client = c /\ x = <<e, k>>
        BY <3>1, CopiesMember
      <4>2. PICK k \in 1..more[e] : e.client = c /\ x = <<e, k>>
        BY <4>1
      <4>3. CASE e # d
        <5>1. e \in DOMAIN bag /\ k \in 1..bag[e]
          BY <1>2, <1>5, <4>2, <4>3
        <5> QED BY <4>2, <5>1, CopiesMember
      <4>4. CASE e = d /\ k \in 1..had
        <5>1. d \in DOMAIN bag /\ k \in 1..bag[d]
          BY <4>4
        <5> QED BY <4>2, <4>4, <5>1, CopiesMember
      <4>5. CASE e = d /\ k = had + 1
        BY <4>2, <4>5
      <4> QED BY <1>7, <4>3, <4>4, <4>5
    <3>2. ASSUME NEW x \in Copies(c, bag) PROVE x \in Copies(c, more)
      <4>1. PICK e \in DOMAIN bag : \E k \in 1..bag[e] : e.client = c /\ x = <<e, k>>
        BY <3>2, CopiesMember
      <4>2. PICK k \in 1..bag[e] : e.client = c /\ x = <<e, k>>
        BY <4>1
      <4>3. k \in 1..more[e]
        <5>1. CASE e = d
          BY <1>7, <5>1
        <5>2. CASE e # d
          BY <1>5, <5>2
        <5> QED BY <5>1, <5>2
      <4> QED BY <1>2, <4>2, <4>3, CopiesMember
    <3>3. <<d, had + 1>> \in Copies(c, more)
      BY <1>2, <1>7, <2>3, CopiesMember
    <3>4. <<d, had + 1>> \notin Copies(c, bag)
      <4> SUFFICES ASSUME <<d, had + 1>> \in Copies(c, bag) PROVE FALSE
        OBVIOUS
      <4>1. d \in DOMAIN bag /\ had + 1 \in 1..bag[d]
        BY CopiesMember
      <4> QED BY <1>7, <4>1
    <3>5. Copies(c, more) = Copies(c, bag) \cup {<<d, had + 1>>}
      BY <3>1, <3>2, <3>3
    <3>6. /\ IsFiniteSet(Copies(c, more))
          /\ Cardinality(Copies(c, more)) = Cardinality(Copies(c, bag)) + 1
      <4> DEFINE S == Copies(c, bag)  x == <<d, had + 1>>
      <4>1. IsFiniteSet(S) /\ x \notin S
        BY <2>1, <3>4
      <4> HIDE DEF S, x
      <4>2. IsFiniteSet(S \cup {x}) /\ Cardinality(S \cup {x}) = Cardinality(S) + 1
        BY <4>1, FS_AddElement
      <4> QED BY <3>5, <4>2 DEF S, x
    <3> QED BY <2>3, <3>6 DEF Under, One
  <2> QED BY <2>2, <2>3
<1> QED BY <1>1, <1>2, <1>6, <1>8 DEF IsNetwork, more

\* One datagram less.
LEMMA OneLess ==
  ASSUME NEW bag, IsNetwork(bag), NEW d \in DOMAIN bag
  PROVE  /\ DOMAIN (bag (-) SetToBag({d})) \subseteq DOMAIN bag
         /\ IsNetwork(bag (-) SetToBag({d}))
         /\ \A c \in Clients :
              Under(c, bag (-) SetToBag({d})) = Under(c, bag) - One(d.client = c)
<1> DEFINE less == bag (-) SetToBag({d})
<1>1. \A e \in DOMAIN bag : bag[e] \in Nat \ {0}
  BY DEF IsNetwork
<1>2. less = [e \in {f \in DOMAIN bag : f # d \/ bag[d] > 1} |->
                IF e = d THEN bag[d] - 1 ELSE bag[e]]
  BY <1>1 DEF (-), SetToBag
<1> HIDE DEF less
<1>3. /\ \A e \in DOMAIN bag : e # d => e \in DOMAIN less /\ less[e] = bag[e]
      /\ d \in DOMAIN less => bag[d] > 1 /\ less[d] = bag[d] - 1
      /\ d \notin DOMAIN less => bag[d] = 1
      /\ DOMAIN less \subseteq DOMAIN bag
  BY <1>1, <1>2
<1>4. less \in [DOMAIN less -> Nat \ {0}]
  <2>1. \A e \in DOMAIN less : less[e] \in Nat \ {0}
    BY <1>1, <1>3
  <2> QED BY <1>2, <2>1
<1>5. ASSUME NEW c \in Clients
      PROVE  /\ IsFiniteSet(Copies(c, less))
             /\ Under(c, less) = Under(c, bag) - One(d.client = c)
  <2>1. IsFiniteSet(Copies(c, bag)) /\ Under(c, bag) \in Nat
    BY UnderType DEF IsNetwork
  <2>2. CASE d.client # c
    <3>1. \A x : x \in Copies(c, less) <=> x \in Copies(c, bag)
      BY <1>3, <2>2, CopiesMember
    <3>2. Copies(c, less) = Copies(c, bag)
      BY <3>1
    <3> QED BY <2>1, <2>2, <3>2 DEF Under, One
  <2>3. CASE d.client = c
    <3>1. ASSUME NEW x \in Copies(c, less) PROVE x \in Copies(c, bag) \ {<<d, bag[d]>>}
      <4>1. PICK e \in DOMAIN less : \E k \in 1..less[e] : e.client = c /\ x = <<e, k>>
        BY <3>1, CopiesMember
      <4>2. PICK k \in 1..less[e] : e.client = c /\ x = <<e, k>>
        BY <4>1
      <4>3. e \in DOMAIN bag /\ k \in 1..bag[e] /\ (e = d => k # bag[d])
        <5>1. CASE e = d
          BY <1>1, <1>3, <5>1
        <5>2. CASE e # d
          BY <1>3, <5>2
        <5> QED BY <5>1, <5>2
      <4> QED BY <4>2, <4>3, CopiesMember
    <3>2. ASSUME NEW x \in Copies(c, bag), x # <<d, bag[d]>> PROVE x \in Copies(c, less)
      <4>1. PICK e \in DOMAIN bag : \E k \in 1..bag[e] : e.client = c /\ x = <<e, k>>
        BY <3>2, CopiesMember
      <4>2. PICK k \in 1..bag[e] : e.client = c /\ x = <<e, k>>
        BY <4>1
      <4>3. e \in DOMAIN less /\ k \in 1..less[e]
        <5>1. CASE e = d
          <6>1. k \in 1..bag[d] /\ k # bag[d] /\ bag[d] \in Nat \ {0}
            BY <1>1, <3>2, <4>2, <5>1
          <6>2. bag[d] # 1 /\ k \in 1..(bag[d] - 1)
            BY <6>1
          <6> QED BY <1>3, <5>1, <6>2
        <5>2. CASE e # d
          BY <1>3, <5>2
        <5> QED BY <5>1, <5>2
      <4> QED BY <4>2, <4>3, CopiesMember
    <3>3. <<d, bag[d]>> \in Copies(c, bag)
      <4>1. bag[d] \in 1..bag[d]
        BY <1>1
      <4> QED BY <2>3, <4>1, CopiesMember
    <3>4. Copies(c, less) = Copies(c, bag) \ {<<d, bag[d]>>}
      BY <3>1, <3>2
    <3>5. /\ IsFiniteSet(Copies(c, less))
          /\ Cardinality(Copies(c, less)) = Cardinality(Copies(c, bag)) - 1
      BY <2>1, <3>3, <3>4, FS_RemoveElement
    <3> QED BY <2>3, <3>5 DEF Under, One
  <2> QED BY <2>2, <2>3
<1> QED BY <1>1, <1>3, <1>4, <1>5 DEF IsNetwork, less

\* The same, said of the bag after the step, and with a sum.
LEMMA Removed ==
  ASSUME NEW bag, NEW new, IsNetwork(bag), NEW d \in DOMAIN bag, new = bag (-) SetToBag({d})
  PROVE  /\ DOMAIN new \subseteq DOMAIN bag
         /\ IsNetwork(new)
         /\ \A c \in Clients : Under(c, new) = Under(c, bag) + (0 - One(d.client = c))
<1>1. /\ DOMAIN (bag (-) SetToBag({d})) \subseteq DOMAIN bag
      /\ IsNetwork(bag (-) SetToBag({d}))
      /\ \A c \in Clients :
           Under(c, bag (-) SetToBag({d})) = Under(c, bag) - One(d.client = c)
  BY OneLess
<1>2. \A u, o \in Int : u - o = u + (0 - o)
  OBVIOUS
<1>3. \A c \in Clients : Under(c, bag) \in Int /\ One(d.client = c) \in Int
  BY UnderType DEF One
<1>4. \A c \in Clients : Under(c, bag) - One(d.client = c) = Under(c, bag) + (0 - One(d.client = c))
  BY <1>2, <1>3
<1> QED BY <1>1, <1>4

-----------------------------------------------------------------------------
(* The ledger of the datagrams *)

Ranges ==
  /\ at \in [Clients -> {"prompt", "wait", "done"}]
  /\ asked \in [Clients -> 0..MaxQueries]
  /\ surplus \in [Clients -> Nat]
  /\ lost \in [Clients -> Nat]
  /\ shown \in [Clients -> Nat]
  /\ serving \in BOOLEAN
  /\ current \in Query \cup {NoQuery}
  /\ IsNetwork(toServer) /\ \A d \in DOMAIN toServer : d \in Query
  /\ IsNetwork(toClient) /\ \A r \in DOMAIN toClient : r.client \in Clients /\ r.n \in Nat

\* The equation of DatagramsAddUp for client c.
AddsUp(c) ==
  Under(c, toServer) + Under(c, toClient) + One(Served(c))
    = One(at[c] = "wait") + surplus[c] - lost[c]

\* Why AnswerIsOwn holds: until a surplus datagram has come up, whatever is under way
\* for a client belongs to its last query.
Current ==
  \A c \in Clients : surplus[c] = 0 =>
    /\ \A d \in DOMAIN toServer : d.client = c => d.n = asked[c]
    /\ \A r \in DOMAIN toClient : r.client = c => r.n = asked[c]
    /\ Served(c) => current.n = asked[c]
    /\ at[c] = "prompt" => shown[c] = asked[c]

UdpInv == Ranges /\ DatagramsAddUp /\ Current

LEMMA UdpInit == Init => UdpInv
<1> SUFFICES ASSUME Init PROVE UdpInv
  OBVIOUS
<1>1. MaxQueries \in Nat
  BY ResolverAssumption
<1>2. Ranges
  <2>1. IsNetwork(toServer) /\ DOMAIN toServer = {} /\ IsNetwork(toClient) /\ DOMAIN toClient = {}
    BY EmptyNetwork DEF Init
  <2>2. 0 \in 0..MaxQueries
    BY <1>1
  <2> QED BY <2>1, <2>2 DEF Init, Ranges
<1>3. DatagramsAddUp
  BY EmptyNetwork DEF Init, DatagramsAddUp, Served, One
<1>4. Current
  BY EmptyNetwork DEF Init, Current, Served
<1> QED BY <1>2, <1>3, <1>4 DEF UdpInv

LEMMA PresentType ==
  ASSUME Ranges, NEW c \in Clients
  PROVE  /\ Under(c, toServer) \in Nat /\ Under(c, toClient) \in Nat
         /\ One(Served(c)) \in {0, 1} /\ One(at[c] = "wait") \in {0, 1}
         /\ surplus[c] \in Nat /\ lost[c] \in Nat
BY UnderType DEF Ranges, One

\* A client that does not wait, and for which there was no surplus, has nothing under
\* way.
LEMMA NothingLeft ==
  ASSUME Ranges, DatagramsAddUp, NEW c \in Clients, at[c] # "wait", surplus[c] = 0
  PROVE  /\ \A d \in DOMAIN toServer : d.client # c
         /\ \A r \in DOMAIN toClient : r.client # c
         /\ ~Served(c)
<1>1. Under(c, toServer) + Under(c, toClient) + One(Served(c))
        = One(at[c] = "wait") + surplus[c] - lost[c]
  BY DEF DatagramsAddUp
<1>2. One(at[c] = "wait") = 0
  BY DEF One
<1>3. Under(c, toServer) = 0 /\ Under(c, toClient) = 0 /\ One(Served(c)) = 0
  <2>1. \A a, b, l \in Nat : \A o \in {0, 1} :
          a + b + o = 0 + 0 - l => a = 0 /\ b = 0 /\ o = 0
    OBVIOUS
  <2>2. Under(c, toServer) + Under(c, toClient) + One(Served(c)) = 0 + 0 - lost[c]
    BY <1>1, <1>2
  <2>3. /\ Under(c, toServer) \in Nat /\ Under(c, toClient) \in Nat /\ lost[c] \in Nat
        /\ One(Served(c)) \in {0, 1}
    BY PresentType
  <2> QED BY <2>1, <2>2, <2>3
<1>4. IsNetwork(toServer) /\ IsNetwork(toClient)
  BY DEF Ranges
<1>5. \A d \in DOMAIN toServer : d.client # c
  <2> SUFFICES ASSUME NEW d \in DOMAIN toServer, d.client = c PROVE FALSE
    OBVIOUS
  <2>1. Under(d.client, toServer) > 0
    BY <1>4, UnderPositive
  <2> QED BY <1>3, <2>1
<1>6. \A r \in DOMAIN toClient : r.client # c
  <2> SUFFICES ASSUME NEW r \in DOMAIN toClient, r.client = c PROVE FALSE
    OBVIOUS
  <2>1. Under(r.client, toClient) > 0
    BY <1>4, UnderPositive
  <2> QED BY <1>3, <2>1
<1>7. ~Served(c)
  BY <1>3 DEF One
<1> QED BY <1>5, <1>6, <1>7

\* What a step adds to the terms of AddsUp for client c: to what is under way to the
\* server and to the client, served, waited for, surplus and lost.
Adds(c, x, y, z, w, s, l) ==
  /\ Under(c, toServer)' = Under(c, toServer) + x
  /\ Under(c, toClient)' = Under(c, toClient) + y
  /\ One(Served(c))' = One(Served(c)) + z
  /\ One(at[c] = "wait")' = One(at[c] = "wait") + w
  /\ surplus'[c] = surplus[c] + s
  /\ lost'[c] = lost[c] + l
  /\ x \in Int /\ y \in Int /\ z \in Int /\ w \in Int /\ s \in Int /\ l \in Int
  /\ x + y + z = w + s - l

\* What it adds on the one side it adds on the other.
LEMMA KeepsSum ==
  ASSUME Ranges, NEW c \in Clients, AddsUp(c),
         NEW x, NEW y, NEW z, NEW w, NEW s, NEW l, Adds(c, x, y, z, w, s, l)
  PROVE  AddsUp(c)'
<1>1. /\ Under(c, toServer) \in Nat /\ Under(c, toClient) \in Nat
      /\ One(Served(c)) \in {0, 1} /\ One(at[c] = "wait") \in {0, 1}
      /\ surplus[c] \in Nat /\ lost[c] \in Nat
  BY PresentType
<1>2. \A a, b, u, t \in Nat : \A o, v \in {0, 1} :
        a + b + o = v + u - t =>
          (a + x) + (b + y) + (o + z) = (v + w) + (u + s) - (t + l)
  BY DEF Adds
<1>3. Under(c, toServer) + Under(c, toClient) + One(Served(c))
        = One(at[c] = "wait") + surplus[c] - lost[c]
  BY DEF AddsUp
<1>4. (Under(c, toServer) + x) + (Under(c, toClient) + y) + (One(Served(c)) + z)
        = (One(at[c] = "wait") + w) + (surplus[c] + s) - (lost[c] + l)
  BY <1>1, <1>2, <1>3
<1> QED BY <1>4 DEF AddsUp, Adds

LEMMA AllAddUp == DatagramsAddUp <=> \A c \in Clients : AddsUp(c)
BY DEF DatagramsAddUp, AddsUp

\* Ask: the client did not wait, so nothing older is under way unless there was a
\* surplus.
LEMMA AskKeeps ==
  ASSUME UdpInv, NEW c \in Clients, NEW q \in Queries, Ask(c, q)
  PROVE  UdpInv'
<1> DEFINE d == [client |-> c, n |-> asked[c] + 1, text |-> q]
<1> USE DEF UdpInv
<1>1. MaxQueries \in Nat /\ asked[c] \in Nat /\ asked[c] + 1 \in 1..MaxQueries
  BY ResolverAssumption DEF Ranges, Ask
<1>2. d \in Query /\ d.client = c /\ d.n = asked[c] + 1
  BY <1>1 DEF Query
<1> HIDE DEF d
<1>3. /\ at[c] = "prompt"
      /\ at' = [at EXCEPT ![c] = "wait"]
      /\ asked' = [asked EXCEPT ![c] = asked[c] + 1]
      /\ toServer' = toServer (+) SetToBag({d})
      /\ UNCHANGED <<shown, toClient, serving, current, surplus, lost>>
  BY DEF Ask, Count, d
<1>4. /\ DOMAIN toServer' = DOMAIN toServer \cup {d}
      /\ IsNetwork(toServer')
      /\ \A b \in Clients : Under(b, toServer') = Under(b, toServer) + One(d.client = b)
  <2>1. IsNetwork(toServer)
    BY DEF Ranges
  <2>2. /\ DOMAIN (toServer (+) SetToBag({d})) = DOMAIN toServer \cup {d}
        /\ IsNetwork(toServer (+) SetToBag({d}))
        /\ \A b \in Clients :
             Under(b, toServer (+) SetToBag({d})) = Under(b, toServer) + One(d.client = b)
    BY <2>1, OneMore
  <2> QED BY <1>3, <2>2
<1>5. Ranges'
  <2>1. /\ at' \in [Clients -> {"prompt", "wait", "done"}]
        /\ asked' \in [Clients -> 0..MaxQueries]
    BY <1>1, <1>3 DEF Ranges
  <2>2. \A e \in DOMAIN toServer' : e \in Query
    BY <1>2, <1>4 DEF Ranges
  <2>3. IsNetwork(toClient)'
    BY <1>3 DEF Ranges, IsNetwork, Copies
  <2> QED BY <1>3, <1>4, <2>1, <2>2, <2>3 DEF Ranges
<1>6. ASSUME NEW b \in Clients PROVE AddsUp(b)'
  <2>1. AddsUp(b)
    BY AllAddUp
  <2>2. One(at[b] = "wait")' = One(at[b] = "wait") + One(c = b)
    BY <1>3 DEF One, Ranges
  <2>3. One(Served(b))' = One(Served(b)) + 0
    BY <1>3 DEF Served, One
  <2>4. Under(b, toServer)' = Under(b, toServer) + One(c = b)
    BY <1>2, <1>4
  <2>5. Under(b, toClient)' = Under(b, toClient) + 0
    BY <1>3, PresentType
  <2>6. surplus'[b] = surplus[b] + 0 /\ lost'[b] = lost[b] + 0
    BY <1>3, PresentType
  <2>7. One(c = b) \in Int /\ 0 \in Int /\ One(c = b) + 0 + 0 = One(c = b) + 0 - 0
    BY DEF One
  <2>8. Adds(b, One(c = b), 0, 0, One(c = b), 0, 0)
    BY <2>2, <2>3, <2>4, <2>5, <2>6, <2>7 DEF Adds
  <2> QED BY <2>1, <2>8, KeepsSum
<1>7. Current'
  <2> SUFFICES ASSUME NEW b \in Clients, surplus'[b] = 0
               PROVE  /\ \A e \in DOMAIN toServer' : e.client = b => e.n = asked'[b]
                      /\ \A r \in DOMAIN toClient' : r.client = b => r.n = asked'[b]
                      /\ Served(b)' => current'.n = asked'[b]
                      /\ at'[b] = "prompt" => shown'[b] = asked'[b]
    BY DEF Current
  <2>1. CASE b = c
    <3>1. /\ \A e \in DOMAIN toServer : e.client # c
          /\ \A r \in DOMAIN toClient : r.client # c
          /\ ~Served(c)
      BY <1>3, <2>1, NothingLeft
    <3>2. ~Served(c)' /\ at'[c] = "wait" /\ asked'[c] = asked[c] + 1
      BY <1>3, <3>1 DEF Served, Ranges
    <3> QED BY <1>2, <1>3, <1>4, <2>1, <3>1, <3>2
  <2>2. CASE b # c
    <3>1. asked'[b] = asked[b] /\ at'[b] = at[b] /\ (Served(b)' <=> Served(b))
      BY <1>3, <2>2 DEF Served, Ranges
    <3>2. /\ \A e \in DOMAIN toServer : e.client = b => e.n = asked[b]
          /\ \A r \in DOMAIN toClient : r.client = b => r.n = asked[b]
          /\ Served(b) => current.n = asked[b]
          /\ at[b] = "prompt" => shown[b] = asked[b]
      BY <1>3 DEF Current
    <3> QED BY <1>2, <1>3, <1>4, <2>2, <3>1, <3>2
  <2> QED BY <2>1, <2>2
<1> QED BY <1>5, <1>6, <1>7 DEF DatagramsAddUp, AddsUp

\* Show: without a surplus the answer is the one to the last query.
LEMMA ShowKeeps ==
  ASSUME UdpInv, NEW c \in Clients, NEW r \in DOMAIN toClient, Show(c, r)
  PROVE  UdpInv'
<1> USE DEF UdpInv
<1>1. /\ at[c] = "wait" /\ r.client = c /\ r.n \in Nat
      /\ at' = [at EXCEPT ![c] = "prompt"]
      /\ shown' = [shown EXCEPT ![c] = r.n]
      /\ toClient' = toClient (-) SetToBag({r})
      /\ UNCHANGED <<asked, toServer, serving, current, surplus, lost>>
  BY DEF Show, Ranges
<1>2. /\ DOMAIN toClient' \subseteq DOMAIN toClient
      /\ IsNetwork(toClient')
      /\ \A b \in Clients : Under(b, toClient') = Under(b, toClient) + (0 - One(r.client = b))
  <2>1. IsNetwork(toClient)
    BY DEF Ranges
  <2> QED BY <1>1, <2>1, Removed
<1>3. Ranges'
  <2>1. /\ at' \in [Clients -> {"prompt", "wait", "done"}]
        /\ shown' \in [Clients -> Nat]
    BY <1>1 DEF Ranges
  <2>2. \A s \in DOMAIN toClient' : s.client \in Clients /\ s.n \in Nat
    BY <1>2 DEF Ranges
  <2>3. IsNetwork(toServer)'
    BY <1>1 DEF Ranges, IsNetwork, Copies
  <2> QED BY <1>1, <1>2, <2>1, <2>2, <2>3 DEF Ranges
<1>4. ASSUME NEW b \in Clients PROVE AddsUp(b)'
  <2>1. AddsUp(b)
    BY AllAddUp
  <2> DEFINE x == 0 - One(c = b)
  <2>2. One(c = b) \in Int /\ x \in Int /\ 0 + x + 0 = x + 0 - 0
    BY DEF One
  <2>3. One(at[b] = "wait")' = One(at[b] = "wait") + x
    BY <1>1 DEF One, Ranges
  <2>4. One(Served(b))' = One(Served(b)) + 0
    BY <1>1 DEF Served, One
  <2>5. Under(b, toClient)' = Under(b, toClient) + x
    BY <1>1, <1>2
  <2>6. Under(b, toServer)' = Under(b, toServer) + 0
    BY <1>1, PresentType
  <2>7. surplus'[b] = surplus[b] + 0 /\ lost'[b] = lost[b] + 0
    BY <1>1, PresentType
  <2> HIDE DEF x
  <2>8. Adds(b, 0, x, 0, x, 0, 0)
    BY <2>2, <2>3, <2>4, <2>5, <2>6, <2>7 DEF Adds
  <2> QED BY <2>1, <2>8, KeepsSum
<1>5. Current'
  <2> SUFFICES ASSUME NEW b \in Clients, surplus'[b] = 0
               PROVE  /\ \A e \in DOMAIN toServer' : e.client = b => e.n = asked'[b]
                      /\ \A s \in DOMAIN toClient' : s.client = b => s.n = asked'[b]
                      /\ Served(b)' => current'.n = asked'[b]
                      /\ at'[b] = "prompt" => shown'[b] = asked'[b]
    BY DEF Current
  <2>1. /\ \A e \in DOMAIN toServer : e.client = b => e.n = asked[b]
        /\ \A s \in DOMAIN toClient : s.client = b => s.n = asked[b]
        /\ Served(b) => current.n = asked[b]
        /\ at[b] = "prompt" => shown[b] = asked[b]
    BY <1>1 DEF Current
  <2>2. asked'[b] = asked[b] /\ (Served(b)' <=> Served(b))
    BY <1>1 DEF Served
  <2>3. at'[b] = "prompt" => shown'[b] = asked[b]
    <3>1. CASE b = c
      <4>1. shown'[c] = r.n
        BY <1>1 DEF Ranges
      <4> QED BY <1>1, <2>1, <3>1, <4>1
    <3>2. CASE b # c
      BY <1>1, <2>1, <3>2 DEF Ranges
    <3> QED BY <3>1, <3>2
  <2> QED BY <1>1, <1>2, <2>1, <2>2, <2>3
<1> QED BY <1>3, <1>4, <1>5 DEF DatagramsAddUp, AddsUp

\* A step that leaves the network and the server alone.
LEMMA QuietRanges ==
  ASSUME Ranges, UNCHANGED <<asked, shown, toServer, toClient, current, lost>>,
         at' \in [Clients -> {"prompt", "wait", "done"}],
         surplus' \in [Clients -> Nat], serving' \in BOOLEAN
  PROVE  Ranges'
<1>1. IsNetwork(toServer)' /\ IsNetwork(toClient)'
  BY DEF Ranges, IsNetwork, Copies
<1> QED BY <1>1 DEF Ranges

\* ShowFails: the client goes on and its answer becomes a surplus.
LEMMA ShowFailsKeeps ==
  ASSUME UdpInv, NEW c \in Clients, ShowFails(c)
  PROVE  UdpInv'
<1> USE DEF UdpInv
<1>1. /\ at[c] = "wait"
      /\ at' = [at EXCEPT ![c] = "prompt"]
      /\ surplus' = [surplus EXCEPT ![c] = surplus[c] + 1]
      /\ UNCHANGED <<asked, shown, toServer, toClient, serving, current, lost>>
  BY DEF ShowFails, Count
<1>2. Ranges'
  BY <1>1, QuietRanges DEF Ranges
<1>3. ASSUME NEW b \in Clients PROVE AddsUp(b)'
  <2>1. AddsUp(b)
    BY AllAddUp
  <2> DEFINE x == 0 - One(c = b)
  <2>2. One(c = b) \in Int /\ x \in Int /\ 0 + 0 + 0 = x + One(c = b) - 0
    BY DEF One
  <2>3. One(at[b] = "wait")' = One(at[b] = "wait") + x
    BY <1>1 DEF One, Ranges
  <2>4. One(Served(b))' = One(Served(b)) + 0
    BY <1>1 DEF Served, One
  <2>5. Under(b, toClient)' = Under(b, toClient) + 0 /\ Under(b, toServer)' = Under(b, toServer) + 0
    BY <1>1, PresentType
  <2>6. surplus'[b] = surplus[b] + One(c = b) /\ lost'[b] = lost[b] + 0
    BY <1>1, PresentType DEF One, Ranges
  <2> HIDE DEF x
  <2>7. Adds(b, 0, 0, 0, x, One(c = b), 0)
    BY <2>2, <2>3, <2>4, <2>5, <2>6 DEF Adds
  <2> QED BY <2>1, <2>7, KeepsSum
<1>4. Current'
  <2> SUFFICES ASSUME NEW b \in Clients, surplus'[b] = 0
               PROVE  /\ \A e \in DOMAIN toServer' : e.client = b => e.n = asked'[b]
                      /\ \A s \in DOMAIN toClient' : s.client = b => s.n = asked'[b]
                      /\ Served(b)' => current'.n = asked'[b]
                      /\ at'[b] = "prompt" => shown'[b] = asked'[b]
    BY DEF Current
  <2>1. b # c /\ surplus[b] = 0
    BY <1>1 DEF Ranges
  <2>2. /\ \A e \in DOMAIN toServer : e.client = b => e.n = asked[b]
        /\ \A s \in DOMAIN toClient : s.client = b => s.n = asked[b]
        /\ Served(b) => current.n = asked[b]
        /\ at[b] = "prompt" => shown[b] = asked[b]
    BY <2>1 DEF Current
  <2>3. at'[b] = at[b] /\ (Served(b)' <=> Served(b))
    BY <1>1, <2>1 DEF Served, Ranges
  <2> QED BY <1>1, <2>2, <2>3
<1> QED BY <1>2, <1>3, <1>4 DEF DatagramsAddUp, AddsUp

LEMMA QuitKeeps ==
  ASSUME UdpInv, NEW c \in Clients, Quit(c)
  PROVE  UdpInv'
<1> USE DEF UdpInv
<1>1. /\ at[c] = "prompt"
      /\ at' = [at EXCEPT ![c] = "done"]
      /\ UNCHANGED <<asked, shown, toServer, toClient, serving, current, surplus, lost>>
  BY DEF Quit
<1>2. Ranges'
  BY <1>1, QuietRanges DEF Ranges
<1>3. \A b \in Clients : (at'[b] = "wait" <=> at[b] = "wait") /\ (at'[b] = "prompt" => at[b] = "prompt")
  BY <1>1 DEF Ranges
<1>4. \A b \in Clients : Served(b)' <=> Served(b)
  BY <1>1 DEF Served
<1>5. DatagramsAddUp'
  BY <1>1, <1>3, <1>4 DEF DatagramsAddUp, One
<1>6. Current'
  BY <1>1, <1>3, <1>4 DEF Current
<1> QED BY <1>2, <1>5, <1>6

\* Receive: a datagram moves into the lookup.
LEMMA ReceiveKeeps ==
  ASSUME UdpInv, NEW d \in DOMAIN toServer, Receive(d)
  PROVE  UdpInv'
<1> USE DEF UdpInv
<1>1. /\ ~serving /\ serving' = TRUE
      /\ current' = d
      /\ toServer' = toServer (-) SetToBag({d})
      /\ UNCHANGED <<at, asked, shown, toClient, surplus, lost>>
  BY DEF Receive
<1>2. /\ DOMAIN toServer' \subseteq DOMAIN toServer
      /\ IsNetwork(toServer')
      /\ \A b \in Clients : Under(b, toServer') = Under(b, toServer) + (0 - One(d.client = b))
  <2>1. IsNetwork(toServer)
    BY DEF Ranges
  <2> QED BY <1>1, <2>1, Removed
<1>3. d \in Query /\ d # NoQuery
  BY ResolverAssumption DEF Ranges
<1>4. Ranges'
  <2>1. IsNetwork(toClient)'
    BY <1>1 DEF Ranges, IsNetwork, Copies
  <2>2. \A e \in DOMAIN toServer' : e \in Query
    BY <1>2 DEF Ranges
  <2> QED BY <1>1, <1>2, <1>3, <2>1, <2>2 DEF Ranges
<1>5. \A b \in Clients : ~Served(b) /\ (Served(b)' <=> d.client = b)
  BY <1>1, <1>3 DEF Served
<1>6. ASSUME NEW b \in Clients PROVE AddsUp(b)'
  <2>1. AddsUp(b)
    BY AllAddUp
  <2> DEFINE x == 0 - One(d.client = b)
  <2>2. One(d.client = b) \in Int /\ x \in Int /\ x + 0 + One(d.client = b) = 0 + 0 - 0
    BY DEF One
  <2>3. One(at[b] = "wait")' = One(at[b] = "wait") + 0
    BY <1>1, PresentType
  <2>4. One(Served(b))' = One(Served(b)) + One(d.client = b)
    BY <1>5 DEF One
  <2>5. Under(b, toServer)' = Under(b, toServer) + x
    BY <1>2
  <2>6. Under(b, toClient)' = Under(b, toClient) + 0
    BY <1>1, PresentType
  <2>7. surplus'[b] = surplus[b] + 0 /\ lost'[b] = lost[b] + 0
    BY <1>1, PresentType
  <2> HIDE DEF x
  <2>8. Adds(b, x, 0, One(d.client = b), 0, 0, 0)
    BY <2>2, <2>3, <2>4, <2>5, <2>6, <2>7 DEF Adds
  <2> QED BY <2>1, <2>8, KeepsSum
<1>7. Current'
  BY <1>1, <1>2, <1>5 DEF Current
<1> QED BY <1>4, <1>6, <1>7 DEF DatagramsAddUp, AddsUp

\* ReceiveFails: the last query is served once more, a surplus for its client.
LEMMA ReceiveFailsKeeps ==
  ASSUME UdpInv, ReceiveFails
  PROVE  UdpInv'
<1> USE DEF UdpInv
<1>1. /\ ~serving /\ serving' = TRUE
      /\ UNCHANGED <<at, asked, shown, toServer, toClient, current, lost>>
  BY DEF ReceiveFails
<1>2. CASE current = NoQuery
  <2>1. UNCHANGED surplus
    BY <1>2 DEF ReceiveFails
  <2>2. Ranges'
    BY <1>1, <2>1, QuietRanges DEF Ranges
  <2>3. \A b \in Clients : ~Served(b) /\ ~Served(b)'
    BY <1>1, <1>2 DEF Served
  <2>4. DatagramsAddUp'
    BY <1>1, <2>1, <2>3 DEF DatagramsAddUp, One
  <2>5. Current'
    BY <1>1, <2>1, <2>3 DEF Current
  <2> QED BY <2>2, <2>4, <2>5
<1>3. CASE current # NoQuery
  <2>1. surplus' = [surplus EXCEPT ![current.client] = surplus[current.client] + 1]
    BY <1>3 DEF ReceiveFails, Count
  <2>2. current.client \in Clients
    BY <1>3 DEF Ranges, Query
  <2>3. Ranges'
    BY <1>1, <2>1, <2>2, QuietRanges DEF Ranges
  <2>4. \A b \in Clients : ~Served(b) /\ (Served(b)' <=> current.client = b)
    BY <1>1, <1>3 DEF Served
  <2>5. ASSUME NEW b \in Clients PROVE AddsUp(b)'
    <3>1. AddsUp(b)
      BY AllAddUp
    <3> DEFINE x == One(current.client = b)
    <3>2. x \in Int /\ 0 + 0 + x = 0 + x - 0
      BY DEF One
    <3>3. One(at[b] = "wait")' = One(at[b] = "wait") + 0
      BY <1>1, PresentType
    <3>4. One(Served(b))' = One(Served(b)) + x
      BY <2>4 DEF One
    <3>5. Under(b, toClient)' = Under(b, toClient) + 0 /\ Under(b, toServer)' = Under(b, toServer) + 0
      BY <1>1, PresentType
    <3>6. surplus'[b] = surplus[b] + x /\ lost'[b] = lost[b] + 0
      BY <1>1, <2>1, PresentType DEF One, Ranges
    <3> HIDE DEF x
    <3>7. Adds(b, 0, 0, x, 0, x, 0)
      BY <3>2, <3>3, <3>4, <3>5, <3>6 DEF Adds
    <3> QED BY <3>1, <3>7, KeepsSum
  <2>6. Current'
    <3>1. \A b \in Clients : surplus'[b] = 0 => surplus[b] = 0 /\ current.client # b
      BY <2>1 DEF Ranges
    <3> QED BY <1>1, <2>4, <3>1 DEF Current
  <2> QED BY <2>3, <2>5, <2>6 DEF DatagramsAddUp, AddsUp
<1> QED BY <1>2, <1>3

\* Respond: what was served is under way to its client.
LEMMA RespondKeeps ==
  ASSUME UdpInv, Respond
  PROVE  UdpInv'
<1> USE DEF UdpInv
<1>1. /\ serving /\ serving' = FALSE
      /\ UNCHANGED <<at, asked, shown, toServer, current, surplus, lost>>
  BY DEF Respond
<1>2. \A b \in Clients : ~Served(b)'
  BY <1>1 DEF Served
<1>3. CASE current = NoQuery
  <2>1. UNCHANGED toClient
    BY <1>3 DEF Respond
  <2>2. Ranges'
    BY <1>1, <2>1, QuietRanges DEF Ranges
  <2>3. \A b \in Clients : ~Served(b)
    BY <1>3 DEF Served
  <2>4. DatagramsAddUp'
    BY <1>1, <1>2, <2>1, <2>3 DEF DatagramsAddUp, One
  <2>5. Current'
    BY <1>1, <1>2, <2>1 DEF Current
  <2> QED BY <2>2, <2>4, <2>5
<1>4. CASE current # NoQuery
  <2>1. current.client \in Clients /\ current.n \in Nat
    BY <1>4 DEF Ranges, Query
  <2>2. PICK answer : toClient' = toClient (+) SetToBag({Reply(answer)})
    BY <1>4 DEF Respond
  <2> DEFINE r == Reply(answer)
  <2>3. r.client = current.client /\ r.n = current.n
    BY DEF Reply
  <2>4. toClient' = toClient (+) SetToBag({r})
    BY <2>2
  <2> HIDE DEF r
  <2>5. /\ DOMAIN toClient' = DOMAIN toClient \cup {r}
        /\ IsNetwork(toClient')
        /\ \A b \in Clients : Under(b, toClient') = Under(b, toClient) + One(r.client = b)
    <3>1. IsNetwork(toClient)
      BY DEF Ranges
    <3>2. /\ DOMAIN (toClient (+) SetToBag({r})) = DOMAIN toClient \cup {r}
          /\ IsNetwork(toClient (+) SetToBag({r}))
          /\ \A b \in Clients :
               Under(b, toClient (+) SetToBag({r})) = Under(b, toClient) + One(r.client = b)
      BY <3>1, OneMore
    <3> QED BY <2>4, <3>2
  <2>6. Ranges'
    <3>1. IsNetwork(toServer)'
      BY <1>1 DEF Ranges, IsNetwork, Copies
    <3>2. \A s \in DOMAIN toClient' : s.client \in Clients /\ s.n \in Nat
      BY <2>1, <2>3, <2>5 DEF Ranges
    <3> QED BY <1>1, <2>5, <3>1, <3>2 DEF Ranges
  <2>7. \A b \in Clients : Served(b) <=> current.client = b
    BY <1>1, <1>4 DEF Served
  <2>8. ASSUME NEW b \in Clients PROVE AddsUp(b)'
    <3>1. AddsUp(b)
      BY AllAddUp
    <3> DEFINE x == One(current.client = b)
               y == 0 - x
    <3>2. x \in Int /\ y \in Int /\ 0 + x + y = 0 + 0 - 0
      BY DEF One
    <3>3. One(at[b] = "wait")' = One(at[b] = "wait") + 0
      BY <1>1, PresentType
    <3>4. One(Served(b))' = One(Served(b)) + y
      BY <1>2, <2>7 DEF One
    <3>5. Under(b, toClient)' = Under(b, toClient) + x
      BY <2>3, <2>5
    <3>6. Under(b, toServer)' = Under(b, toServer) + 0
      BY <1>1, PresentType
    <3>7. surplus'[b] = surplus[b] + 0 /\ lost'[b] = lost[b] + 0
      BY <1>1, PresentType
    <3> HIDE DEF x, y
    <3>8. Adds(b, 0, x, y, 0, 0, 0)
      BY <3>2, <3>3, <3>4, <3>5, <3>6, <3>7 DEF Adds
    <3> QED BY <3>1, <3>8, KeepsSum
  <2>9. Current'
    BY <1>1, <1>2, <2>3, <2>5, <2>7 DEF Current
  <2> QED BY <2>6, <2>8, <2>9 DEF DatagramsAddUp, AddsUp
<1> QED BY <1>3, <1>4

\* What a lost or doubled datagram d does to the counters: a client's lost or surplus
\* grows with it.
LEMMA CountType ==
  ASSUME NEW f \in [Clients -> Nat], NEW g, NEW c \in Clients, g = [f EXCEPT ![c] = @ + 1]
  PROVE  /\ g \in [Clients -> Nat]
         /\ \A b \in Clients : g[b] = f[b] + One(c = b)
         /\ \A b \in Clients : g[b] = 0 => f[b] = 0 /\ c # b
BY DEF One

\* A loss.
LEMMA LoseQueryKeeps ==
  ASSUME UdpInv, NEW d \in DOMAIN toServer, LoseQuery(d)
  PROVE  UdpInv'
<1> USE DEF UdpInv
<1>1. /\ toServer' = toServer (-) SetToBag({d})
      /\ lost' = [lost EXCEPT ![d.client] = @ + 1]
      /\ UNCHANGED <<at, asked, shown, toClient, serving, current, surplus>>
  BY DEF LoseQuery, Count
<1>2. /\ DOMAIN toServer' \subseteq DOMAIN toServer
      /\ IsNetwork(toServer')
      /\ \A b \in Clients : Under(b, toServer') = Under(b, toServer) + (0 - One(d.client = b))
  <2>1. IsNetwork(toServer)
    BY DEF Ranges
  <2> QED BY <1>1, <2>1, Removed
<1>3. /\ lost' \in [Clients -> Nat]
      /\ \A b \in Clients : lost'[b] = lost[b] + One(d.client = b)
  <2>1. d.client \in Clients
    BY DEF Ranges, Query
  <2> QED BY <1>1, <2>1, CountType DEF Ranges
<1>4. Ranges'
  <2>1. IsNetwork(toClient)'
    BY <1>1 DEF Ranges, IsNetwork, Copies
  <2>2. \A e \in DOMAIN toServer' : e \in Query
    BY <1>2 DEF Ranges
  <2> QED BY <1>1, <1>2, <1>3, <2>1, <2>2 DEF Ranges
<1>5. ASSUME NEW b \in Clients PROVE AddsUp(b)'
  <2>1. AddsUp(b)
    BY AllAddUp
  <2> DEFINE x == One(d.client = b)
             y == 0 - x
  <2>2. x \in Int /\ y \in Int /\ y + 0 + 0 = 0 + 0 - x
    BY DEF One
  <2>3. One(at[b] = "wait")' = One(at[b] = "wait") + 0 /\ One(Served(b))' = One(Served(b)) + 0
    BY <1>1, PresentType DEF Served
  <2>4. Under(b, toServer)' = Under(b, toServer) + y
    BY <1>2
  <2>5. Under(b, toClient)' = Under(b, toClient) + 0
    BY <1>1, PresentType
  <2>6. surplus'[b] = surplus[b] + 0 /\ lost'[b] = lost[b] + x
    BY <1>1, <1>3, PresentType
  <2> HIDE DEF x, y
  <2>7. Adds(b, y, 0, 0, 0, 0, x)
    BY <2>2, <2>3, <2>4, <2>5, <2>6 DEF Adds
  <2> QED BY <2>1, <2>7, KeepsSum
<1>6. Current'
  BY <1>1, <1>2 DEF Current, Served
<1> QED BY <1>4, <1>5, <1>6 DEF DatagramsAddUp, AddsUp

LEMMA LoseAnswerKeeps ==
  ASSUME UdpInv, NEW r \in DOMAIN toClient, LoseAnswer(r)
  PROVE  UdpInv'
<1> USE DEF UdpInv
<1>1. /\ toClient' = toClient (-) SetToBag({r})
      /\ lost' = [lost EXCEPT ![r.client] = @ + 1]
      /\ UNCHANGED <<at, asked, shown, toServer, serving, current, surplus>>
  BY DEF LoseAnswer, Count
<1>2. /\ DOMAIN toClient' \subseteq DOMAIN toClient
      /\ IsNetwork(toClient')
      /\ \A b \in Clients : Under(b, toClient') = Under(b, toClient) + (0 - One(r.client = b))
  <2>1. IsNetwork(toClient)
    BY DEF Ranges
  <2> QED BY <1>1, <2>1, Removed
<1>3. /\ lost' \in [Clients -> Nat]
      /\ \A b \in Clients : lost'[b] = lost[b] + One(r.client = b)
  <2>1. r.client \in Clients
    BY DEF Ranges
  <2> QED BY <1>1, <2>1, CountType DEF Ranges
<1>4. Ranges'
  <2>1. IsNetwork(toServer)'
    BY <1>1 DEF Ranges, IsNetwork, Copies
  <2>2. \A s \in DOMAIN toClient' : s.client \in Clients /\ s.n \in Nat
    BY <1>2 DEF Ranges
  <2> QED BY <1>1, <1>2, <1>3, <2>1, <2>2 DEF Ranges
<1>5. ASSUME NEW b \in Clients PROVE AddsUp(b)'
  <2>1. AddsUp(b)
    BY AllAddUp
  <2> DEFINE x == One(r.client = b)
             y == 0 - x
  <2>2. x \in Int /\ y \in Int /\ 0 + y + 0 = 0 + 0 - x
    BY DEF One
  <2>3. One(at[b] = "wait")' = One(at[b] = "wait") + 0 /\ One(Served(b))' = One(Served(b)) + 0
    BY <1>1, PresentType DEF Served
  <2>4. Under(b, toClient)' = Under(b, toClient) + y
    BY <1>2
  <2>5. Under(b, toServer)' = Under(b, toServer) + 0
    BY <1>1, PresentType
  <2>6. surplus'[b] = surplus[b] + 0 /\ lost'[b] = lost[b] + x
    BY <1>1, <1>3, PresentType
  <2> HIDE DEF x, y
  <2>7. Adds(b, 0, y, 0, 0, 0, x)
    BY <2>2, <2>3, <2>4, <2>5, <2>6 DEF Adds
  <2> QED BY <2>1, <2>7, KeepsSum
<1>6. Current'
  BY <1>1, <1>2 DEF Current, Served
<1> QED BY <1>4, <1>5, <1>6 DEF DatagramsAddUp, AddsUp

\* A copy: its client has a surplus from now on.
LEMMA DuplicateQueryKeeps ==
  ASSUME UdpInv, NEW d \in DOMAIN toServer, DuplicateQuery(d)
  PROVE  UdpInv'
<1> USE DEF UdpInv
<1>1. /\ toServer' = toServer (+) SetToBag({d})
      /\ surplus' = [surplus EXCEPT ![d.client] = @ + 1]
      /\ UNCHANGED <<at, asked, shown, toClient, serving, current, lost>>
  BY DEF DuplicateQuery, Count
<1>2. /\ DOMAIN toServer' = DOMAIN toServer
      /\ IsNetwork(toServer')
      /\ \A b \in Clients : Under(b, toServer') = Under(b, toServer) + One(d.client = b)
  <2>1. IsNetwork(toServer)
    BY DEF Ranges
  <2>2. /\ DOMAIN (toServer (+) SetToBag({d})) = DOMAIN toServer \cup {d}
        /\ IsNetwork(toServer (+) SetToBag({d}))
        /\ \A b \in Clients :
             Under(b, toServer (+) SetToBag({d})) = Under(b, toServer) + One(d.client = b)
    BY <2>1, OneMore
  <2> QED BY <1>1, <2>2
<1>3. /\ surplus' \in [Clients -> Nat]
      /\ \A b \in Clients : surplus'[b] = surplus[b] + One(d.client = b)
      /\ \A b \in Clients : surplus'[b] = 0 => surplus[b] = 0
  <2>1. d.client \in Clients
    BY DEF Ranges, Query
  <2> QED BY <1>1, <2>1, CountType DEF Ranges
<1>4. Ranges'
  <2>1. IsNetwork(toClient)'
    BY <1>1 DEF Ranges, IsNetwork, Copies
  <2>2. \A e \in DOMAIN toServer' : e \in Query
    BY <1>2 DEF Ranges
  <2> QED BY <1>1, <1>2, <1>3, <2>1, <2>2 DEF Ranges
<1>5. ASSUME NEW b \in Clients PROVE AddsUp(b)'
  <2>1. AddsUp(b)
    BY AllAddUp
  <2> DEFINE x == One(d.client = b)
  <2>2. x \in Int /\ x + 0 + 0 = 0 + x - 0
    BY DEF One
  <2>3. One(at[b] = "wait")' = One(at[b] = "wait") + 0 /\ One(Served(b))' = One(Served(b)) + 0
    BY <1>1, PresentType DEF Served
  <2>4. Under(b, toServer)' = Under(b, toServer) + x
    BY <1>2
  <2>5. Under(b, toClient)' = Under(b, toClient) + 0
    BY <1>1, PresentType
  <2>6. surplus'[b] = surplus[b] + x /\ lost'[b] = lost[b] + 0
    BY <1>1, <1>3, PresentType
  <2> HIDE DEF x
  <2>7. Adds(b, x, 0, 0, 0, x, 0)
    BY <2>2, <2>3, <2>4, <2>5, <2>6 DEF Adds
  <2> QED BY <2>1, <2>7, KeepsSum
<1>6. Current'
  BY <1>1, <1>2, <1>3 DEF Current, Served
<1> QED BY <1>4, <1>5, <1>6 DEF DatagramsAddUp, AddsUp

LEMMA DuplicateAnswerKeeps ==
  ASSUME UdpInv, NEW r \in DOMAIN toClient, DuplicateAnswer(r)
  PROVE  UdpInv'
<1> USE DEF UdpInv
<1>1. /\ toClient' = toClient (+) SetToBag({r})
      /\ surplus' = [surplus EXCEPT ![r.client] = @ + 1]
      /\ UNCHANGED <<at, asked, shown, toServer, serving, current, lost>>
  BY DEF DuplicateAnswer, Count
<1>2. /\ DOMAIN toClient' = DOMAIN toClient
      /\ IsNetwork(toClient')
      /\ \A b \in Clients : Under(b, toClient') = Under(b, toClient) + One(r.client = b)
  <2>1. IsNetwork(toClient)
    BY DEF Ranges
  <2>2. /\ DOMAIN (toClient (+) SetToBag({r})) = DOMAIN toClient \cup {r}
        /\ IsNetwork(toClient (+) SetToBag({r}))
        /\ \A b \in Clients :
             Under(b, toClient (+) SetToBag({r})) = Under(b, toClient) + One(r.client = b)
    BY <2>1, OneMore
  <2> QED BY <1>1, <2>2
<1>3. /\ surplus' \in [Clients -> Nat]
      /\ \A b \in Clients : surplus'[b] = surplus[b] + One(r.client = b)
      /\ \A b \in Clients : surplus'[b] = 0 => surplus[b] = 0
  <2>1. r.client \in Clients
    BY DEF Ranges
  <2> QED BY <1>1, <2>1, CountType DEF Ranges
<1>4. Ranges'
  <2>1. IsNetwork(toServer)'
    BY <1>1 DEF Ranges, IsNetwork, Copies
  <2>2. \A s \in DOMAIN toClient' : s.client \in Clients /\ s.n \in Nat
    BY <1>2 DEF Ranges
  <2> QED BY <1>1, <1>2, <1>3, <2>1, <2>2 DEF Ranges
<1>5. ASSUME NEW b \in Clients PROVE AddsUp(b)'
  <2>1. AddsUp(b)
    BY AllAddUp
  <2> DEFINE x == One(r.client = b)
  <2>2. x \in Int /\ 0 + x + 0 = 0 + x - 0
    BY DEF One
  <2>3. One(at[b] = "wait")' = One(at[b] = "wait") + 0 /\ One(Served(b))' = One(Served(b)) + 0
    BY <1>1, PresentType DEF Served
  <2>4. Under(b, toClient)' = Under(b, toClient) + x
    BY <1>2
  <2>5. Under(b, toServer)' = Under(b, toServer) + 0
    BY <1>1, PresentType
  <2>6. surplus'[b] = surplus[b] + x /\ lost'[b] = lost[b] + 0
    BY <1>1, <1>3, PresentType
  <2> HIDE DEF x
  <2>7. Adds(b, 0, x, 0, 0, x, 0)
    BY <2>2, <2>3, <2>4, <2>5, <2>6 DEF Adds
  <2> QED BY <2>1, <2>7, KeepsSum
<1>6. Current'
  BY <1>1, <1>2, <1>3 DEF Current, Served
<1> QED BY <1>4, <1>5, <1>6 DEF DatagramsAddUp, AddsUp

-----------------------------------------------------------------------------
LEMMA UdpInvHolds == Spec => []UdpInv
<1>1. ASSUME UdpInv, [Next]_vars PROVE UdpInv'
  <2>1. ASSUME NEW d \in BagToSet(toServer), Receive(d) \/ LoseQuery(d) \/ DuplicateQuery(d)
        PROVE  UdpInv'
    <3>1. d \in DOMAIN toServer
      BY DEF BagToSet
    <3> QED BY <1>1, <2>1, <3>1, ReceiveKeeps, LoseQueryKeeps, DuplicateQueryKeeps
  <2>2. ASSUME NEW r \in BagToSet(toClient), LoseAnswer(r) \/ DuplicateAnswer(r)
        PROVE  UdpInv'
    <3>1. r \in DOMAIN toClient
      BY DEF BagToSet
    <3> QED BY <1>1, <2>2, <3>1, LoseAnswerKeeps, DuplicateAnswerKeeps
  <2>3. ASSUME NEW c \in Clients, ClientShows(c) PROVE UdpInv'
    <3>1. PICK r \in DOMAIN toClient : Show(c, r)
      BY <2>3 DEF ClientShows, BagToSet
    <3> QED BY <1>1, <3>1, ShowKeeps
  <2>4. ASSUME NEW c \in Clients,
               (\E q \in Queries : Ask(c, q)) \/ ShowFails(c) \/ Quit(c)
        PROVE  UdpInv'
    BY <1>1, <2>4, AskKeeps, ShowFailsKeeps, QuitKeeps
  <2>5. CASE Respond
    BY <1>1, <2>5, RespondKeeps
  <2>6. CASE ReceiveFails
    BY <1>1, <2>6, ReceiveFailsKeeps
  <2>7. CASE UNCHANGED vars
    <3>1. Ranges'
      BY <1>1, <2>7, QuietRanges DEF vars, UdpInv, Ranges
    <3>2. DatagramsAddUp' /\ Current'
      BY <1>1, <2>7 DEF vars, UdpInv, DatagramsAddUp, Current, Served
    <3> QED BY <3>1, <3>2 DEF UdpInv
  <2> QED BY <1>1, <2>1, <2>2, <2>3, <2>4, <2>5, <2>6, <2>7 DEF Next, ServerStep, NetworkStep
<1> QED BY <1>1, UdpInit, PTL DEF Spec

-----------------------------------------------------------------------------
(* The theorems *)

\* recvfrom(), sendto() and the lookup neither forget nor multiply a datagram: every
\* difference between what is under way for a client and what it waits for is a loss
\* or a surplus that has been counted.
THEOREM NothingForgotten == Spec => []DatagramsAddUp
<1>1. UdpInv => DatagramsAddUp
  BY DEF UdpInv
<1> QED BY <1>1, UdpInvHolds, PTL

\* A client that shows an answer shows the one to the query it has just made, until a
\* duplicate or a failed recvfrom() has left an answer over for it.
THEOREM OwnAnswer == Spec => []AnswerIsOwn
<1>1. UdpInv => AnswerIsOwn
  <2> SUFFICES ASSUME UdpInv, NEW c \in Clients, at[c] = "prompt", shown[c] # asked[c]
               PROVE  surplus[c] > 0
    BY DEF AnswerIsOwn
  <2>1. surplus[c] \in Nat /\ surplus[c] # 0
    BY DEF UdpInv, Ranges, Current
  <2> QED BY <2>1
<1> QED BY <1>1, UdpInvHolds, PTL

\* is_valid_ipv4(), is_number_or_dot() and is_valid_domain() judge every text rightly:
\* those of the samples and those of the queries under way.
THEOREM VerdictsAlwaysAgree == Spec => []VerdictsAgree
<1>1. UdpInv => VerdictsAgree
  <2> SUFFICES ASSUME UdpInv PROVE VerdictsAgree
    OBVIOUS
  <2>1. SamplesAgree
    BY ResolverAssumption, VerdictsRight DEF SamplesAgree
  <2>2. \A d \in DOMAIN toServer : d.text \in Texts
    BY ResolverAssumption DEF UdpInv, Ranges, Query
  <2> QED BY <2>1, <2>2, VerdictsRight DEF VerdictsAgree
<1> QED BY <1>1, UdpInvHolds, PTL

\* What a client waits for is on its way to it: its query has not reached the server,
\* the server is looking it up, or the answer has not been taken from the socket.
AnswerIsUnderWay ==
  \A c \in Clients : at[c] = "wait" /\ lost[c] = 0 =>
    \/ \E d \in BagToSet(toServer) : d.client = c
    \/ Served(c)
    \/ \E r \in BagToSet(toClient) : r.client = c

\* The server never sits in recvfrom() with nothing coming while a client sits in its
\* own, unless the network lost a datagram of that client: every one of the three
\* places is left by a step of the server or of the client.
THEOREM AnswerIsUnderWayHolds == Spec => []AnswerIsUnderWay
<1>1. UdpInv => AnswerIsUnderWay
  <2> SUFFICES ASSUME UdpInv, NEW c \in Clients, at[c] = "wait", lost[c] = 0,
                      ~ (\E d \in BagToSet(toServer) : d.client = c),
                      ~ Served(c),
                      ~ (\E r \in BagToSet(toClient) : r.client = c)
               PROVE  FALSE
    BY DEF AnswerIsUnderWay
  <2>1. Copies(c, toServer) = {} /\ Copies(c, toClient) = {}
    BY DEF Copies, BagToSet
  <2>2. Under(c, toServer) = 0 /\ Under(c, toClient) = 0
    BY <2>1, FS_EmptySet DEF Under
  <2>3. One(Served(c)) = 0 /\ One(at[c] = "wait") = 1
    BY DEF One
  <2>4. Under(c, toServer) + Under(c, toClient) + One(Served(c))
          = One(at[c] = "wait") + surplus[c] - lost[c]
    BY DEF UdpInv, DatagramsAddUp
  <2>5. surplus[c] \in Nat
    BY DEF UdpInv, Ranges
  <2> QED BY <2>2, <2>3, <2>4, <2>5
<1> QED BY <1>1, UdpInvHolds, PTL
==============================================================================
