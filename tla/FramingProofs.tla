----------------------------- MODULE FramingProofs -----------------------------
(***************************************************************************)
(* recv_until_delim() never leaves its buffer once it has written to it,   *)
(* whatever the client sends, however TCP cuts it and whatever the size of *)
(* the buffer; and it returns the lines of the stream as long as           *)
(* LinesArrive says.                                                       *)
(*                                                                         *)
(* That there is a NUL in the buffer is not inductive: memcpy() of the     *)
(* leftover could overwrite it.  What is kept by every step is that there  *)
(* is one at or behind the end of the bytes the call has, or will have     *)
(* taken back: each return keeps fewer bytes than the call had             *)
(* (FramingInv).  That the lines come out right rests on what strstr()     *)
(* reads behind those bytes (NothingBehind), and on there being no NUL in  *)
(* what has been returned (CleanUsed).                                     *)
(***************************************************************************)
EXTENDS Framing, FiniteSetTheorems, SequenceTheorems, TLAPS

\* The bytes at the front of out_buf that are not a string of an earlier call.
InFront == IF at = "call" THEN Len(leftover) ELSE total_len

NulBehindFront == \E i \in Indices : i >= InFront /\ out_buf[i] = NUL

\* Before anything is written to the buffer there is nothing to take back either.
NothingBefore == total_len = 0 /\ leftover = <<>>

FramingInv ==
  /\ FramingTypeOK
  /\ ~Fresh => NulBehindFront
  /\ Fresh => NothingBefore
  /\ at = "undefined" => Fresh

-----------------------------------------------------------------------------

\* memcpy() into the buffer leaves a buffer.
LEMMA CopiedType ==
  ASSUME NEW b \in [Indices -> Bytes], NEW n \in Nat, NEW s \in Seq(Bytes)
  PROVE  Copied(b, n, s) \in [Indices -> Bytes]
<1>1. ASSUME NEW i \in Indices, i \in n .. n + Len(s) - 1
      PROVE  s[i - n + 1] \in Bytes
  <2>1. i - n + 1 \in 1..Len(s)
    BY <1>1 DEF Indices
  <2>. QED  BY <2>1
<1>2. \A i \in Indices : b[i] \in Bytes
  OBVIOUS
<1>. QED  BY <1>1, <1>2 DEF Copied

\* Bytes taken from a buffer are a message.
LEMMA TakenType ==
  ASSUME NEW b \in [Indices -> Bytes], NEW n \in Nat, NEW k \in Nat,
         n + k <= MaxLen
  PROVE  Taken(b, n, k) \in Seq(Bytes) /\ Len(Taken(b, n, k)) = k
<1>1. MaxLen \in Nat
  BY FramingAssumption
<1>2. \A j \in 1..k : b[n + j - 1] \in Bytes
  <2>. TAKE j \in 1..k
  <2>1. n + j - 1 \in Indices
    BY <1>1 DEF Indices
  <2>. QED  BY <2>1
<1>3. Taken(b, n, k) \in [1..k -> Bytes]
  BY <1>2 DEF Taken
<1>. QED  BY <1>3

LEMMA InitHolds == Init => FramingInv
<1>. SUFFICES ASSUME Init
              PROVE  FramingInv
  OBVIOUS
<1>1. MaxLen \in Nat \ {0, 1} /\ wire \in Seq(Bytes) /\ out_buf \in [Indices -> Bytes]
  BY FramingAssumption DEF Init
<1>2. FramingTypeOK
  BY <1>1 DEF Init, FramingTypeOK, Indices
<1>3. Fresh /\ NothingBefore /\ at # "undefined"
  BY DEF Init, Fresh, NothingBefore
<1>. QED  BY <1>2, <1>3 DEF FramingInv

\* Call: the leftover goes in front of the NUL.
LEMMA CallKeeps == FramingInv /\ Call => FramingInv'
<1>. SUFFICES ASSUME FramingInv, Call
              PROVE  FramingInv'
  OBVIOUS
<1>1. MaxLen \in Nat
  BY FramingAssumption
<1>2. out_buf \in [Indices -> Bytes] /\ leftover \in Seq(Bytes)
  BY DEF FramingInv, FramingTypeOK
<1>3. Len(leftover) \in Nat /\ Len(leftover) < MaxLen
  BY <1>2 DEF FramingInv, FramingTypeOK
<1>4. out_buf' \in [Indices -> Bytes]
  BY <1>2, CopiedType DEF Call
<1>5. FramingTypeOK'
  BY <1>1, <1>3, <1>4 DEF FramingInv, FramingTypeOK, Call, Indices
<1>6. Fresh' <=> Fresh
  BY DEF Fresh, Call
<1>7. ASSUME ~Fresh PROVE NulBehindFront'
  <2>1. PICK i \in Indices : i >= Len(leftover) /\ out_buf[i] = NUL
    BY <1>7 DEF FramingInv, NulBehindFront, InFront, Call
  <2>2. i \notin 0 .. 0 + Len(leftover) - 1
    BY <1>1, <1>3, <2>1 DEF Indices
  <2>3. out_buf'[i] = NUL
    BY <2>1, <2>2 DEF Call, Copied
  <2>. QED  BY <2>1, <2>3 DEF NulBehindFront, InFront, Call
<1>8. ASSUME Fresh PROVE NothingBefore'
  BY <1>8 DEF FramingInv, NothingBefore, Call
<1>. QED  BY <1>5, <1>6, <1>7, <1>8 DEF FramingInv, Call

\* FoundDelim: what is left over is shorter than what the call had; from a fresh
\* buffer nothing is left over, and the NUL of the message is the first one.
LEMMA FoundKeeps ==
  ASSUME FramingInv, NEW i \in Indices, FoundDelim(i)
  PROVE  FramingInv'
<1>1. MaxLen \in Nat /\ i \in Nat /\ i + 1 \in Indices
  BY FramingAssumption DEF FoundDelim, FirstDelimAt, DelimAt, InString, Indices
<1>2. out_buf \in [Indices -> Bytes] /\ total_len \in Nat /\ total_len < MaxLen
  BY <1>1 DEF FramingInv, FramingTypeOK, Indices
<1>3. Taken(out_buf, 0, i) \in Seq(Bytes)
  <2>1. 0 + i <= MaxLen
    BY <1>1 DEF Indices
  <2>. QED  BY <1>1, <1>2, <2>1, TakenType
<1>4. /\ RestBehind(i) \in Seq(Bytes)
      /\ Len(RestBehind(i)) <= total_len
      /\ total_len = 0 => RestBehind(i) = <<>>
  <2>1. CASE total_len > i + 2
    <3> DEFINE k == total_len - (i + 2)
    <3>1. i + 2 \in Nat /\ k \in Nat /\ i + 2 + k <= MaxLen
      BY <1>1, <1>2, <2>1
    <3>2. Taken(out_buf, i + 2, k) \in Seq(Bytes) /\ Len(Taken(out_buf, i + 2, k)) = k
      <4>. HIDE DEF k
      <4>. QED  BY <1>2, <3>1, TakenType
    <3>3. RestBehind(i) = Taken(out_buf, i + 2, k)
      BY <2>1 DEF RestBehind
    <3>4. k <= total_len /\ total_len # 0
      BY <1>1, <1>2, <2>1
    <3>. QED  BY <3>2, <3>3, <3>4
  <2>2. CASE ~(total_len > i + 2)
    BY <1>2, <2>2 DEF RestBehind
  <2>. QED  BY <2>1, <2>2
<1>5. out_buf' \in [Indices -> Bytes]
  <2>1. NUL \in Bytes
    BY DEF Bytes
  <2>. QED  BY <1>2, <2>1 DEF FoundDelim
<1>6. msgs' \in Seq(Seq(Bytes)) /\ at' \in {"call", "ended"}
  <2>1. msgs \in Seq(Seq(Bytes))
    BY DEF FramingInv, FramingTypeOK
  <2>2. Append(msgs, Taken(out_buf, 0, i)) \in Seq(Seq(Bytes))
    BY <1>3, <2>1
  <2>. QED  BY <2>1, <2>2 DEF FoundDelim
<1>7. FramingTypeOK'
  <2>1. intact' \in BOOLEAN /\ covered' \in BOOLEAN
    <3>1. intact' = (intact /\ got # <<>>) /\ covered' = (covered /\ Covers(i))
      BY DEF FoundDelim
    <3>2. (intact /\ got # <<>>) \in BOOLEAN /\ (covered /\ Covers(i)) \in BOOLEAN
      OBVIOUS
    <3>. QED  BY <3>1, <3>2
  <2>2. leftover' \in Seq(Bytes) /\ Len(leftover') < MaxLen
    BY <1>1, <1>2, <1>4 DEF FoundDelim
  <2>3. UNCHANGED <<wire, got, total_len>>
    BY DEF FoundDelim
  <2>. QED  BY <1>5, <1>6, <2>1, <2>2, <2>3 DEF FramingInv, FramingTypeOK
<1>8. NulBehindFront'
  <2>0. /\ Len(leftover') \in Nat /\ Len(leftover') <= total_len /\ total_len' = total_len
        /\ total_len = 0 => Len(leftover') = 0
    BY <1>2, <1>4 DEF FoundDelim
  <2>1. CASE ~Fresh
    <3>1. PICK j \in Indices : j >= total_len /\ out_buf[j] = NUL
      BY <2>1 DEF FramingInv, NulBehindFront, InFront, FoundDelim
    <3>2. out_buf'[j] = NUL
      BY <1>2, <3>1 DEF FoundDelim
    <3>3. j >= InFront'
      <4>1. j \in Nat
        BY <1>1, <3>1 DEF Indices
      <4>. QED  BY <1>2, <2>0, <3>1, <4>1 DEF InFront
    <3>. QED  BY <3>2, <3>3 DEF NulBehindFront
  <2>2. CASE Fresh
    <3>1. total_len = 0
      BY <2>2 DEF FramingInv, NothingBefore
    <3>2. InFront' = 0
      BY <2>0, <3>1 DEF InFront
    <3>3. out_buf'[i] = NUL /\ i >= 0
      BY <1>1, <1>2 DEF FoundDelim
    <3>. QED  BY <3>2, <3>3 DEF NulBehindFront
  <2>. QED  BY <2>1, <2>2
<1>9. ASSUME Fresh' PROVE NothingBefore'
  <2>1. Fresh
    <3>1. CASE i = 0
      BY <1>9, <3>1 DEF Fresh, FoundDelim
    <3>2. CASE i # 0
      <4>1. msgs' = Append(msgs, Taken(out_buf, 0, i)) /\ msgs \in Seq(Seq(Bytes))
        BY <3>2 DEF FoundDelim, FramingInv, FramingTypeOK
      <4>2. msgs' # <<>>
        BY <1>3, <4>1
      <4>. QED  BY <1>9, <4>2 DEF Fresh
    <3>. QED  BY <3>1, <3>2
  <2>2. total_len = 0
    BY <2>1 DEF FramingInv, NothingBefore
  <2>. QED  BY <1>4, <2>2 DEF NothingBefore, FoundDelim
<1>. QED  BY <1>6, <1>7, <1>8, <1>9 DEF FramingInv

\* Recv: the bytes kept end before the last place of the buffer, which leaves room
\* for the NUL.
LEMMA RecvKeeps ==
  ASSUME FramingInv, NEW k \in 1..MaxLen, Recv(k)
  PROVE  FramingInv'
<1>1. MaxLen \in Nat /\ NUL \in Bytes /\ k \in Nat /\ k > 0
  BY FramingAssumption DEF Bytes
<1>2. /\ out_buf \in [Indices -> Bytes]
      /\ wire \in Seq(Bytes) /\ got \in Seq(Bytes) /\ k \in 1..Len(wire)
      /\ total_len \in Nat /\ total_len < MaxLen
  BY <1>1 DEF FramingInv, FramingTypeOK, Indices, Recv
<1>3. /\ Kept(k) \in Nat /\ Kept(k) <= k
      /\ total_len' = total_len + Kept(k) /\ total_len' \in Indices
  BY <1>1, <1>2 DEF Kept, Indices, Recv
<1> DEFINE s == SubSeq(wire, 1, Kept(k))
<1>4. s \in Seq(Bytes) /\ Len(s) = Kept(k)
  BY <1>2, <1>3
<1> DEFINE b == Copied(out_buf, total_len, s)
<1>5. b \in [Indices -> Bytes]
  BY <1>2, <1>4, CopiedType
<1>6. out_buf' = [b EXCEPT ![total_len'] = NUL]
  BY DEF Recv, Terminated
<1> DEFINE t == SubSeq(wire, 1, k)
<1>7. t \in Seq(Bytes) /\ Len(t) = k /\ got' = got \o t
  BY <1>1, <1>2 DEF Recv
<1>8. FramingTypeOK'
  <2>1. out_buf' \in [Indices -> Bytes]
    BY <1>1, <1>5, <1>6
  <2>2. wire' \in Seq(Bytes)
    BY <1>2 DEF Recv
  <2>3. got' \in Seq(Bytes)
    <3> HIDE DEF t
    <3>. QED  BY <1>2, <1>7
  <2>. QED  BY <1>3, <2>1, <2>2, <2>3 DEF FramingInv, FramingTypeOK, Recv
<1>9. NulBehindFront'
  <2>1. out_buf'[total_len'] = NUL
    BY <1>3, <1>5, <1>6
  <2>2. InFront' = total_len' /\ total_len' >= total_len'
    BY <1>3 DEF InFront, Recv, Indices
  <2>. QED  BY <1>3, <2>1, <2>2 DEF NulBehindFront
<1>10. ~Fresh'
  <2>1. got' # <<>>
    <3> HIDE DEF t
    <3>1. t \in Seq(Bytes) /\ Len(t) = k
      BY <1>7
    <3>2. Len(got \o t) = Len(got) + Len(t) /\ Len(got) \in Nat
      BY <1>2, <3>1
    <3>3. Len(got \o t) # 0
      BY <1>1, <3>1, <3>2
    <3>. QED  BY <1>7, <3>3
  <2>. QED  BY <2>1 DEF Fresh
<1>. QED  BY <1>8, <1>9, <1>10 DEF FramingInv, Recv

\* ScanRunsOut: once something has been written, there is a NUL to stop at.
LEMMA RunsOutKeeps == FramingInv /\ ScanRunsOut => FramingInv'
<1>. SUFFICES ASSUME FramingInv, ScanRunsOut
              PROVE  FramingInv'
  OBVIOUS
<1>1. Fresh
  BY DEF FramingInv, NulBehindFront, ScanRunsOut
<1>2. FramingTypeOK'
  BY DEF FramingInv, FramingTypeOK, ScanRunsOut
<1>3. Fresh' /\ NothingBefore'
  BY <1>1 DEF FramingInv, Fresh, NothingBefore, ScanRunsOut
<1>. QED  BY <1>2, <1>3 DEF FramingInv

\* The other steps change neither the buffer nor its front.
LEMMA OthersKeep ==
  ASSUME FramingInv, NoDelim \/ RecvEnds \/ UNCHANGED vars
  PROVE  FramingInv'
<1>1. UNCHANGED <<wire, got, out_buf, total_len, leftover, msgs, intact, covered>>
  BY DEF NoDelim, RecvEnds, vars
<1>2. /\ at \in {"scan", "recv"} /\ at' \in {"recv", "ended"}
      \/ at' = at
  BY DEF NoDelim, RecvEnds, vars
<1>3. FramingTypeOK'
  BY <1>1, <1>2 DEF FramingInv, FramingTypeOK
<1>4. NulBehindFront' <=> NulBehindFront
  BY <1>1, <1>2 DEF NulBehindFront, InFront
<1>5. (Fresh' <=> Fresh) /\ (NothingBefore' <=> NothingBefore)
  BY <1>1 DEF Fresh, NothingBefore
<1>. QED  BY <1>2, <1>3, <1>4, <1>5 DEF FramingInv

LEMMA FramingInvHolds == Spec => []FramingInv
<1>1. FramingInv /\ [Next]_vars => FramingInv'
  <2>. SUFFICES ASSUME FramingInv, [Next]_vars
                PROVE  FramingInv'
    OBVIOUS
  <2>1. CASE Call
    BY <2>1, CallKeeps
  <2>2. ASSUME NEW i \in Indices, FoundDelim(i)
        PROVE  FramingInv'
    BY <2>2, FoundKeeps
  <2>3. ASSUME NEW k \in 1..MaxLen, Recv(k)
        PROVE  FramingInv'
    BY <2>3, RecvKeeps
  <2>4. CASE ScanRunsOut
    BY <2>4, RunsOutKeeps
  <2>5. CASE NoDelim \/ RecvEnds \/ UNCHANGED vars
    BY <2>5, OthersKeep
  <2>. QED  BY <2>1, <2>2, <2>3, <2>4, <2>5 DEF Next, Ended
<1>. QED  BY InitHolds, <1>1, PTL DEF Spec

\* Every write of recv_until_delim() falls into the caller's buffer, and what it
\* leaves over fits into the session's, for every size of the two.
THEOREM FramingTyping == Spec => []FramingTypeOK
<1>1. FramingInv => FramingTypeOK
  BY DEF FramingInv
<1>. QED  BY FramingInvHolds, <1>1, PTL

\* From the first byte received or message returned on, strstr() finds a NUL to stop
\* at; only the very first scan, of a buffer nobody wrote to, can leave the buffer.
THEOREM ScanIsBounded == Spec => []ScanStaysInside
<1>1. FramingInv => ScanStaysInside
  BY DEF FramingInv, NulBehindFront, ScanStaysInside
<1>. QED  BY FramingInvHolds, <1>1, PTL

-----------------------------------------------------------------------------
(* The lines *)

\* How much of what recv() returned has been given to the caller as messages.
Used == Len(got) - InFront

\* The byte at position k of the part of a line, or the lines, that wait.
Waiting(k) == IF at = "call" THEN leftover[k + 1] ELSE out_buf[k]

\* What waits is the end of what recv() returned.
FrontOfGot ==
  /\ InFront <= Len(got)
  /\ \A k \in 0 .. InFront - 1 : Waiting(k) = got[Used + k + 1]

\* It starts where a line starts.
AtLineStart(s, u) == u = 0 \/ (u >= 2 /\ s[u - 1] = CR /\ s[u] = LF)

\* The lines in front of it have been returned.
LinesWithin(m, s, u) ==
  /\ Len(m) = Cardinality(EndsWithin(s, u))
  /\ \A e \in EndsWithin(s, u) :
       m[Cardinality(EndsWithin(s, e + 1))] = SubSeq(s, LineStart(s, e), e - 1)

StartsInside(s, u) == \A e \in EndsWithin(s, u) : LineStart(s, e) \in Nat \ {0}

\* What has been returned holds no NUL: strstr() does not get past one.
CleanUsed == \A k \in 1 .. Used : got[k] # NUL

LineWaits == \E e \in LineEnds(got) : e > Used

NulWaits == \E k \in Used + 1 .. Len(got) : got[k] = NUL

\* Behind the leftover the buffer holds a NUL, with no delimiter in front of it.
EndsHere(z) ==
  /\ out_buf[z] = NUL
  /\ z >= Len(leftover)
  /\ \A j \in Len(leftover) .. z - 1 : ~(out_buf[j] = CR /\ out_buf[j + 1] = LF)
  /\ ~(Len(leftover) > 0 /\ leftover[Len(leftover)] = CR /\ out_buf[Len(leftover)] = LF)

\* Why strstr() finds no delimiter but those of the stream: one of the stream comes
\* first, or a NUL of the stream does, or there is none in what it reads behind the
\* bytes of the call.
NothingBehind ==
  /\ at = "call" /\ got # <<>> =>
       LineWaits \/ NulWaits \/ \E z \in Indices : EndsHere(z)
  /\ at = "scan" /\ got # <<>> =>
       LineWaits \/ \A j \in Indices : DelimAt(j) => j + 2 <= total_len
  /\ at = "recv" => ~LineWaits

Lines ==
  at \notin {"ended", "undefined"} /\ intact /\ covered =>
    /\ FrontOfGot /\ CleanUsed
    /\ AtLineStart(got, Used) /\ StartsInside(got, Used)
    /\ LinesWithin(msgs, got, Used)
    /\ NothingBehind

-----------------------------------------------------------------------------
LEMMA EndsAreFinite ==
  ASSUME NEW s, NEW n \in Nat
  PROVE  IsFiniteSet(EndsWithin(s, n)) /\ Cardinality(EndsWithin(s, n)) \in Nat
<1>1. EndsWithin(s, n) \subseteq 1 .. n - 1
  BY DEF EndsWithin
<1>2. IsFiniteSet(1 .. n - 1)
  BY FS_Interval
<1>. QED  BY <1>1, <1>2, FS_Subset, FS_CardinalityType

\* The next line of s behind u, where a line starts: it ends at e.
LEMMA NextLine ==
  ASSUME NEW s \in Seq(Bytes), NEW u \in Nat, NEW e \in Nat,
         AtLineStart(s, u), u < e, e < Len(s), s[e] = CR, s[e + 1] = LF,
         \A j \in u + 1 .. e - 1 : ~(s[j] = CR /\ s[j + 1] = LF)
  PROVE  /\ EndsWithin(s, e) = EndsWithin(s, u)
         /\ EndsWithin(s, e + 1) = EndsWithin(s, u) \cup {e}
         /\ Cardinality(EndsWithin(s, e + 1)) = Cardinality(EndsWithin(s, u)) + 1
         /\ LineStart(s, e) = u + 1
<1>1. CR # LF
  BY FramingAssumption
<1>2. u # 0 => s[u] # CR
  BY <1>1 DEF AtLineStart
<1>3. EndsWithin(s, e) = EndsWithin(s, u)
  <2>1. ASSUME NEW j \in EndsWithin(s, e) PROVE j \in EndsWithin(s, u)
    <3>1. j \in 1 .. e - 1 /\ s[j] = CR /\ s[j + 1] = LF
      BY <2>1 DEF EndsWithin
    <3>2. j \notin u + 1 .. e - 1 /\ j # u
      BY <1>2, <3>1
    <3>3. j \in 1 .. u - 1
      BY <3>1, <3>2
    <3>. QED  BY <3>1, <3>3 DEF EndsWithin
  <2>2. EndsWithin(s, u) \subseteq EndsWithin(s, e)
    BY DEF EndsWithin
  <2>. QED  BY <2>1, <2>2
<1>4. EndsWithin(s, e + 1) = EndsWithin(s, e) \cup {e}
  <2>1. 1 .. (e + 1) - 1 = (1 .. e - 1) \cup {e}
    OBVIOUS
  <2>. QED  BY <2>1 DEF EndsWithin
<1>5. e \notin EndsWithin(s, u)
  BY DEF EndsWithin
<1>6. Cardinality(EndsWithin(s, u) \cup {e}) = Cardinality(EndsWithin(s, u)) + 1
  <2> DEFINE S == EndsWithin(s, u)
  <2>1. IsFiniteSet(S) /\ e \notin S
    BY <1>5, EndsAreFinite
  <2> HIDE DEF S
  <2>2. Cardinality(S \cup {e}) = Cardinality(S) + 1
    BY <2>1, FS_AddElement
  <2>. QED  BY <2>2 DEF S
<1>7. LineStart(s, e) = u + 1
  <2>1. CASE u = 0
    <3>1. EndsWithin(s, e) = {}
      BY <1>3, <2>1 DEF EndsWithin
    <3>. QED  BY <2>1, <3>1 DEF LineStart
  <2>2. CASE u # 0
    <3> DEFINE B == EndsWithin(s, u)
    <3>1. u - 1 \in B
      BY <2>2 DEF AtLineStart, EndsWithin
    <3>2. \A j \in B : j \in Int /\ j <= u - 1
      BY DEF EndsWithin
    <3> DEFINE c == CHOOSE j \in B : \A k \in B : k <= j
    <3>3. LineStart(s, e) = 2 + c
      BY <1>3, <3>1 DEF LineStart
    <3> HIDE DEF B
    <3>4. \E j \in B : \A k \in B : k <= j
      BY <3>1, <3>2
    <3>5. c \in B /\ \A k \in B : k <= c
      BY <3>4
    <3> HIDE DEF c
    <3>6. c = u - 1
      BY <3>1, <3>2, <3>5
    <3>. QED  BY <3>3, <3>6
  <2>. QED  BY <2>1, <2>2
<1>. QED  BY <1>3, <1>4, <1>6, <1>7

\* A part of a sequence, byte by byte.
LEMMA PartOf ==
  ASSUME NEW s \in Seq(Bytes), NEW b \in Nat \ {0}, NEW n \in Nat, n <= Len(s),
         NEW q \in Seq(Bytes),
         Len(q) = IF b <= n THEN n - b + 1 ELSE 0,
         \A k \in 1 .. n - b + 1 : q[k] = s[b + k - 1]
  PROVE  SubSeq(s, b, n) = q
<1> DEFINE p == SubSeq(s, b, n)
<1>1. \A k \in b .. n : s[k] \in Bytes
  OBVIOUS
<1>2. /\ p \in Seq(Bytes) /\ Len(p) = IF b <= n THEN n - b + 1 ELSE 0
      /\ \A k \in 1 .. n - b + 1 : p[k] = s[b + k - 1]
  BY <1>1, SubSeqProperties
<1> HIDE DEF p
<1>4. Len(p) = Len(q) /\ Len(p) \in Nat /\ (b <= n => Len(p) = n - b + 1) /\ (b > n => Len(p) = 0)
  BY <1>2
<1>5. \A k \in 1 .. Len(p) : p[k] = q[k]
  BY <1>2, <1>4
<1>6. p = q
  BY <1>2, <1>4, <1>5, SeqEqual
<1>. QED  BY <1>6 DEF p

\* More bytes behind s change nothing in front of them.
LEMMA MoreBytes ==
  ASSUME NEW s \in Seq(Bytes), NEW t \in Seq(Bytes), NEW u \in 0 .. Len(s), NEW m,
         StartsInside(s, u)
  PROVE  /\ AtLineStart(s, u) => AtLineStart(s \o t, u)
         /\ StartsInside(s \o t, u)
         /\ LinesWithin(m, s, u) => LinesWithin(m, s \o t, u)
<1> DEFINE r == s \o t
<1>1. /\ r \in Seq(Bytes) /\ Len(r) = Len(s) + Len(t)
      /\ \A k \in 1 .. Len(s) : r[k] = s[k]
  OBVIOUS
<1> HIDE DEF r
<1>2. ASSUME NEW n \in 0 .. Len(s) PROVE EndsWithin(r, n) = EndsWithin(s, n)
  <2>1. \A k \in 1 .. n - 1 : r[k] = s[k] /\ r[k + 1] = s[k + 1]
    BY <1>1
  <2>. QED  BY <2>1 DEF EndsWithin
<1>3. ASSUME NEW e \in EndsWithin(s, u)
      PROVE  /\ EndsWithin(r, e + 1) = EndsWithin(s, e + 1)
             /\ LineStart(r, e) = LineStart(s, e)
             /\ SubSeq(r, LineStart(r, e), e - 1) = SubSeq(s, LineStart(s, e), e - 1)
  <2>1. e \in 1 .. u - 1 /\ e \in 0 .. Len(s) /\ e + 1 \in 0 .. Len(s)
    BY DEF EndsWithin
  <2>2. EndsWithin(r, e) = EndsWithin(s, e) /\ EndsWithin(r, e + 1) = EndsWithin(s, e + 1)
    BY <1>2, <2>1
  <2>3. LineStart(r, e) = LineStart(s, e)
    BY <2>2 DEF LineStart
  <2> DEFINE b == LineStart(s, e)
  <2>4. b \in Nat \ {0}
    BY DEF StartsInside
  <2> HIDE DEF b
  <2>5. SubSeq(r, b, e - 1) = SubSeq(s, b, e - 1)
    <3>1. \A k \in 1 .. (e - 1) - b + 1 : b + k - 1 \in 1 .. Len(s)
      BY <2>1, <2>4
    <3>2. \A k \in 1 .. (e - 1) - b + 1 : r[b + k - 1] = s[b + k - 1]
      BY <1>1, <3>1
    <3> DEFINE q == SubSeq(s, b, e - 1)
    <3>3. \A k \in b .. e - 1 : s[k] \in Bytes
      BY <2>1, <2>4
    <3>4. e - 1 \in Nat /\ e - 1 \in Int /\ b \in Int /\ e - 1 <= Len(r)
      BY <1>1, <2>1, <2>4
    <3>5. /\ q \in Seq(Bytes) /\ Len(q) = IF b <= e - 1 THEN (e - 1) - b + 1 ELSE 0
          /\ \A k \in 1 .. (e - 1) - b + 1 : q[k] = s[b + k - 1]
      BY <3>3, <3>4, SubSeqProperties
    <3> HIDE DEF q
    <3>6. \A k \in 1 .. (e - 1) - b + 1 : q[k] = r[b + k - 1]
      BY <3>2, <3>5
    <3>7. SubSeq(r, b, e - 1) = q
      BY <1>1, <2>4, <3>4, <3>5, <3>6, PartOf
    <3>. QED  BY <3>7 DEF q
  <2>. QED  BY <2>2, <2>3, <2>5 DEF b
<1>4. AtLineStart(s, u) => AtLineStart(r, u)
  BY <1>1 DEF AtLineStart
<1>5. (LinesWithin(m, s, u) => LinesWithin(m, r, u)) /\ StartsInside(r, u)
  <2>1. EndsWithin(r, u) = EndsWithin(s, u)
    BY <1>2
  <2>. QED  BY <1>3, <2>1 DEF LinesWithin, StartsInside
<1>. QED  BY <1>4, <1>5 DEF r

\* What the type invariant and the front say of the numbers.
LEMMA FrontType ==
  ASSUME FramingInv, FrontOfGot
  PROVE  /\ InFront \in Nat /\ Len(got) \in Nat /\ Used \in Nat
         /\ Len(got) = Used + InFront /\ InFront < MaxLen /\ MaxLen \in Nat
<1>1. MaxLen \in Nat
  BY FramingAssumption
<1>2. Len(leftover) \in Nat /\ total_len \in Nat /\ Len(got) \in Nat
      /\ Len(leftover) < MaxLen /\ total_len < MaxLen
  BY <1>1 DEF FramingInv, FramingTypeOK, Indices
<1>3. InFront \in Nat /\ InFront < MaxLen
  BY <1>2 DEF InFront
<1>. QED  BY <1>1, <1>2, <1>3 DEF FrontOfGot, Used

LEMMA LinesInit == Init => Lines
<1>. SUFFICES ASSUME Init PROVE Lines
  OBVIOUS
<1>1. InFront = 0 /\ Len(got) = 0 /\ Used = 0
  BY DEF Init, InFront, Used
<1>2. FrontOfGot
  BY <1>1 DEF FrontOfGot
<1>3. EndsWithin(got, Used) = {}
  BY <1>1 DEF EndsWithin
<1>4. Cardinality({}) = 0
  BY FS_EmptySet
<1>5. LinesWithin(msgs, got, Used) /\ StartsInside(got, Used) /\ AtLineStart(got, Used)
  BY <1>1, <1>3, <1>4 DEF Init, LinesWithin, StartsInside, AtLineStart
<1>6. NothingBehind /\ CleanUsed
  BY <1>1 DEF Init, NothingBehind, CleanUsed
<1>. QED  BY <1>2, <1>5, <1>6 DEF Lines

\* A line of the stream that waits is found by strstr().
LEMMA WaitingIsFound ==
  ASSUME FramingInv, FrontOfGot, at = "scan", LineWaits
  PROVE  \E k \in Indices : k + 2 <= total_len /\ DelimAt(k)
<1>1. PICK e \in LineEnds(got) : e > Used
  BY DEF LineWaits
<1>2. /\ e \in 1 .. Len(got) - 1 /\ got[e] = CR /\ got[e + 1] = LF
      /\ \A j \in 1 .. e : got[j] # NUL
  BY DEF LineEnds, EndsWithin
<1>3. /\ InFront = total_len /\ Used \in Nat /\ Len(got) = Used + total_len
      /\ total_len \in Nat /\ total_len < MaxLen /\ MaxLen \in Nat
  BY FrontType DEF InFront
<1> DEFINE k == e - Used - 1
<1>4. /\ k \in Nat /\ k + 1 \in 0 .. total_len - 1 /\ k \in 0 .. total_len - 1
      /\ Used + k + 1 = e /\ Used + (k + 1) + 1 = e + 1
  BY <1>1, <1>2, <1>3
<1>5. k \in Indices /\ k + 1 \in Indices /\ k + 2 <= total_len
  BY <1>3, <1>4 DEF Indices
<1> HIDE DEF k
<1>6. out_buf[k] = got[Used + k + 1] /\ out_buf[k + 1] = got[Used + (k + 1) + 1]
  BY <1>3, <1>4 DEF FrontOfGot, Waiting
<1>7. out_buf[k] = CR /\ out_buf[k + 1] = LF
  BY <1>2, <1>4, <1>6
<1>8. \A j \in 0 .. k + 1 : out_buf[j] # NUL
  <2> SUFFICES ASSUME NEW j \in 0 .. k + 1 PROVE out_buf[j] # NUL
    OBVIOUS
  <2> DEFINE p == Used + j + 1
  <2>1. /\ j \in 0 .. total_len - 1 /\ j \in 0 .. InFront - 1
        /\ p \in 1 .. e \/ p = e + 1
    BY <1>2, <1>3, <1>4, <1>5
  <2>2. out_buf[j] = got[p]
    BY <2>1 DEF FrontOfGot, Waiting
  <2> HIDE DEF p
  <2>3. got[e + 1] # NUL
    BY <1>2, FramingAssumption
  <2>. QED  BY <1>2, <2>1, <2>2, <2>3
<1>. QED  BY <1>5, <1>7, <1>8 DEF DelimAt, InString

\* Call: the leftover moves to the front of the buffer.
LEMMA CallLines ==
  ASSUME FramingInv, Lines, Call
  PROVE  Lines'
<1>. SUFFICES ASSUME intact, covered PROVE Lines'
  BY DEF Lines, Call
<1>1. /\ FrontOfGot /\ AtLineStart(got, Used) /\ StartsInside(got, Used)
      /\ LinesWithin(msgs, got, Used) /\ NothingBehind /\ CleanUsed
  BY DEF Lines, Call
<1>2. /\ at = "call" /\ at' = "scan"
      /\ out_buf' = Copied(out_buf, 0, leftover) /\ total_len' = Len(leftover)
      /\ UNCHANGED <<got, msgs>>
  BY DEF Call
<1> DEFINE L == Len(leftover)
<1>3. /\ L \in Nat /\ L < MaxLen /\ MaxLen \in Nat
      /\ out_buf \in [Indices -> Bytes] /\ leftover \in Seq(Bytes)
  BY FramingAssumption DEF FramingInv, FramingTypeOK
<1>4. InFront = L /\ InFront' = L /\ Used' = Used
  BY <1>2 DEF InFront, Used
<1>5. \A j \in Indices : j < L => out_buf'[j] = leftover[j + 1]
  <2> SUFFICES ASSUME NEW j \in Indices, j < L PROVE out_buf'[j] = leftover[j + 1]
    OBVIOUS
  <2>1. j \in 0 .. 0 + L - 1 /\ j - 0 + 1 = j + 1
    BY <1>3 DEF Indices
  <2>. QED  BY <1>2, <2>1 DEF Copied
<1>6. \A j \in Indices : j >= L => out_buf'[j] = out_buf[j]
  <2> SUFFICES ASSUME NEW j \in Indices, j >= L PROVE out_buf'[j] = out_buf[j]
    OBVIOUS
  <2>1. j \notin 0 .. 0 + L - 1
    BY <1>3 DEF Indices
  <2>. QED  BY <1>2, <2>1 DEF Copied
<1>7. FrontOfGot'
  <2>1. \A k \in 0 .. L - 1 : out_buf'[k] = got[Used + k + 1]
    <3> SUFFICES ASSUME NEW k \in 0 .. L - 1 PROVE out_buf'[k] = got[Used + k + 1]
      OBVIOUS
    <3>1. k \in Indices /\ k < L
      BY <1>3 DEF Indices
    <3>2. leftover[k + 1] = got[Used + k + 1]
      BY <1>1, <1>2, <1>4 DEF FrontOfGot, Waiting
    <3>. QED  BY <1>5, <3>1, <3>2
  <2>. QED  BY <1>1, <1>2, <1>4, <2>1 DEF FrontOfGot, Waiting
<1>8. LineWaits' <=> LineWaits
  BY <1>2, <1>4 DEF LineWaits
<1>9. NothingBehind'
  <2> SUFFICES ASSUME got # <<>>, ~LineWaits, NEW j \in Indices, DelimAt(j)'
               PROVE  j + 2 <= L
    BY <1>2, <1>8 DEF NothingBehind
  <2>1. /\ j \in Nat /\ j + 1 \in Indices
        /\ out_buf'[j] = CR /\ out_buf'[j + 1] = LF
        /\ \A k \in 0 .. j + 1 : out_buf'[k] # NUL
    BY DEF DelimAt, InString, Indices
  <2>2. ASSUME NEW z \in Indices, EndsHere(z) PROVE j + 2 <= L
    <3>1. out_buf'[z] = NUL /\ z >= L /\ z \in Nat
      BY <1>6, <2>2 DEF EndsHere, Indices
    <3>2. z > j + 1
      BY <2>1, <3>1
    <3>3. CASE j >= L
      <4>1. out_buf[j] = CR /\ out_buf[j + 1] = LF
        BY <1>3, <1>6, <2>1, <3>3
      <4>2. j \in L .. z - 1
        BY <1>3, <2>1, <3>1, <3>2, <3>3
      <4>. QED  BY <2>2, <4>1, <4>2 DEF EndsHere
    <3>4. CASE j + 1 = L
      <4>1. out_buf'[j] = leftover[L] /\ out_buf'[j + 1] = out_buf[L]
        BY <1>3, <1>5, <1>6, <2>1, <3>4
      <4>. QED  BY <1>3, <2>1, <2>2, <3>4, <4>1 DEF EndsHere
    <3>. QED  BY <1>3, <2>1, <3>3, <3>4
  <2>3. CASE NulWaits
    <3>1. PICK p \in Used + 1 .. Len(got) : got[p] = NUL
      BY <2>3 DEF NulWaits
    <3> DEFINE q == p - Used - 1
    <3>2. /\ q \in Nat /\ q \in 0 .. L - 1 /\ Used + q + 1 = p
          /\ q \in 0 .. InFront' - 1
      BY <1>1, <1>3, <1>4, <3>1, FrontType
    <3> HIDE DEF q
    <3>3. out_buf'[q] = got[p]
      BY <1>2, <1>4, <1>7, <3>2 DEF FrontOfGot, Waiting
    <3>4. q \notin 0 .. j + 1
      BY <2>1, <3>1, <3>3
    <3>. QED  BY <1>3, <2>1, <3>2, <3>4
  <2>. QED  BY <1>1, <1>2, <2>2, <2>3 DEF NothingBehind
<1>10. AtLineStart(got, Used)' /\ StartsInside(got, Used)' /\ LinesWithin(msgs, got, Used)'
  <2>1. AtLineStart(got', Used') /\ StartsInside(got', Used') /\ LinesWithin(msgs', got', Used')
    BY <1>1, <1>2, <1>4
  <2>. QED  BY <2>1
<1>11. CleanUsed'
  BY <1>1, <1>2, <1>4 DEF CleanUsed
<1>. QED  BY <1>7, <1>9, <1>10, <1>11 DEF Lines

\* NoDelim: what waits holds no whole line.
LEMMA NoDelimLines ==
  ASSUME FramingInv, Lines, NoDelim
  PROVE  Lines'
<1>. SUFFICES ASSUME intact, covered PROVE Lines'
  BY DEF Lines, NoDelim
<1>1. /\ at = "scan" /\ at' = "recv" /\ \A k \in Indices : ~DelimAt(k)
      /\ UNCHANGED <<got, out_buf, total_len, leftover, msgs>>
  BY DEF NoDelim
<1>2. FrontOfGot /\ ~LineWaits
  BY <1>1, WaitingIsFound DEF Lines
<1>3. InFront' = InFront /\ Used' = Used
  BY <1>1 DEF InFront, Used
<1>4. NothingBehind'
  BY <1>1, <1>2, <1>3 DEF NothingBehind, LineWaits
<1>5. FrontOfGot'
  BY <1>1, <1>2, <1>3 DEF FrontOfGot, Waiting
<1>6. AtLineStart(got, Used)' /\ StartsInside(got, Used)' /\ LinesWithin(msgs, got, Used)'
  BY <1>1, <1>3 DEF Lines
<1>7. CleanUsed'
  BY <1>1, <1>3 DEF Lines, CleanUsed
<1>. QED  BY <1>4, <1>5, <1>6, <1>7 DEF Lines

\* Recv: the bytes go behind those that wait, and a NUL behind them.
LEMMA RecvLines ==
  ASSUME FramingInv, Lines, NEW k \in 1..MaxLen, Recv(k)
  PROVE  Lines'
<1>. SUFFICES ASSUME intact', covered PROVE Lines'
  BY DEF Lines, Recv
<1>1. /\ at = "recv" /\ at' = "scan" /\ k \in 1 .. Len(wire) /\ Kept(k) = k /\ intact
      /\ total_len' = total_len + k
      /\ out_buf' = Terminated(Copied(out_buf, total_len, SubSeq(wire, 1, k)), total_len + k)
      /\ got' = got \o SubSeq(wire, 1, k) /\ UNCHANGED <<leftover, msgs>>
  BY DEF Recv
<1>2. /\ FrontOfGot /\ AtLineStart(got, Used) /\ StartsInside(got, Used)
      /\ LinesWithin(msgs, got, Used) /\ CleanUsed
  BY <1>1 DEF Lines
<1> DEFINE t == SubSeq(wire, 1, k)
<1>3. wire \in Seq(Bytes) /\ got \in Seq(Bytes) /\ out_buf \in [Indices -> Bytes]
  BY DEF FramingInv, FramingTypeOK
<1>4. t \in Seq(Bytes) /\ Len(t) = k
  BY <1>1, <1>3
<1>5. out_buf' = Terminated(Copied(out_buf, total_len, t), total_len + k) /\ got' = got \o t
  BY <1>1
<1> HIDE DEF t
<1>6. /\ InFront = total_len /\ Used \in Nat /\ Len(got) = Used + total_len
      /\ total_len \in Nat /\ MaxLen \in Nat /\ k \in Nat /\ k > 0
  BY <1>1, <1>2, FrontType DEF InFront
<1>7. total_len + k \in Indices /\ total_len + k < MaxLen
  BY <1>1, <1>6 DEF Kept, Indices
<1>8. Len(got') = Len(got) + k /\ InFront' = total_len + k /\ Used' = Used
  <2>1. Len(got') = Len(got) + k
    <3>1. Len(got \o t) = Len(got) + Len(t)
      BY <1>3, <1>4
    <3>. QED  BY <1>4, <1>5, <3>1
  <2>2. InFront' = total_len + k
    BY <1>1 DEF InFront
  <2>. QED  BY <1>6, <2>1, <2>2 DEF Used
<1>9. \A j \in 1 .. Len(got) : got'[j] = got[j]
  BY <1>3, <1>4, <1>5
<1>10. \A j \in 1 .. k : got'[Len(got) + j] = t[j]
  <2>1. \A j \in 1 .. Len(t) : (got \o t)[Len(got) + j] = t[j]
    BY <1>3, <1>4
  <2>. QED  BY <1>4, <1>5, <2>1
<1>11. FrontOfGot'
  <2>1. ASSUME NEW j \in 0 .. total_len + k - 1 PROVE out_buf'[j] = got'[Used + j + 1]
    <3>1. j \in Indices /\ j # total_len + k /\ j \in Nat
      BY <1>6, <1>7 DEF Indices
    <3>2. out_buf'[j] = IF j \in total_len .. total_len + k - 1 THEN t[j - total_len + 1] ELSE out_buf[j]
      BY <1>4, <1>5, <3>1 DEF Terminated, Copied
    <3>3. CASE j < total_len
      <4>1. out_buf'[j] = out_buf[j] /\ Used + j + 1 \in 1 .. Len(got) /\ j \in 0 .. total_len - 1
        BY <1>6, <3>1, <3>2, <3>3
      <4>2. out_buf[j] = got[Used + j + 1]
        BY <1>1, <1>2, <1>6, <4>1 DEF FrontOfGot, Waiting
      <4>. QED  BY <1>9, <4>1, <4>2
    <3>4. CASE j >= total_len
      <4> DEFINE n == j - total_len + 1
      <4>1. n \in 1 .. k /\ j \in total_len .. total_len + k - 1 /\ Used + j + 1 = Len(got) + n
        BY <1>6, <3>1, <3>4
      <4>2. out_buf'[j] = t[n]
        BY <3>2, <4>1
      <4> HIDE DEF n
      <4>. QED  BY <1>10, <4>1, <4>2
    <3>. QED  BY <1>6, <3>1, <3>3, <3>4
  <2>2. InFront' <= Len(got')
    BY <1>6, <1>8
  <2>3. \A j \in 0 .. InFront' - 1 : out_buf'[j] = got'[Used' + j + 1]
    <3>1. \A j \in 0 .. (total_len + k) - 1 : out_buf'[j] = got'[Used + j + 1]
      BY <1>6, <2>1
    <3>. QED  BY <1>8, <3>1
  <2>. QED  BY <1>1, <2>2, <2>3 DEF FrontOfGot, Waiting
<1>12. NothingBehind'
  <2> SUFFICES ASSUME NEW j \in Indices, DelimAt(j)' PROVE j + 2 <= total_len + k
    BY <1>1 DEF NothingBehind
  <2>1. out_buf'[total_len + k] = NUL
    BY <1>5, <1>7 DEF Terminated, Copied
  <2>2. j \in Nat /\ \A n \in 0 .. j + 1 : out_buf'[n] # NUL
    BY DEF DelimAt, InString, Indices
  <2>3. total_len + k \notin 0 .. j + 1
    BY <2>1, <2>2
  <2>. QED  BY <1>6, <2>2, <2>3
<1>13. AtLineStart(got, Used)' /\ StartsInside(got, Used)' /\ LinesWithin(msgs, got, Used)'
  <2>1. Used \in 0 .. Len(got)
    BY <1>6
  <2>2. /\ AtLineStart(got \o t, Used) /\ StartsInside(got \o t, Used)
        /\ LinesWithin(msgs, got \o t, Used)
    BY <1>2, <1>3, <1>4, <2>1, MoreBytes
  <2>3. AtLineStart(got', Used') /\ StartsInside(got', Used') /\ LinesWithin(msgs', got', Used')
    BY <1>1, <1>5, <1>8, <2>2
  <2>. QED  BY <2>3
<1>14. CleanUsed'
  <2>1. \A j \in 1 .. Used : j \in 1 .. Len(got)
    BY <1>6
  <2>. QED  BY <1>2, <1>8, <1>9, <2>1 DEF CleanUsed
<1>. QED  BY <1>11, <1>12, <1>13, <1>14 DEF Lines

\* FoundDelim: the delimiter is the one behind the first line that waits.
LEMMA FoundLines ==
  ASSUME FramingInv, Lines, NEW i \in Indices, FoundDelim(i)
  PROVE  Lines'
<1>. SUFFICES ASSUME intact', covered', at' = "call" PROVE Lines'
  BY DEF Lines, FoundDelim
<1>1. /\ at = "scan" /\ i # 0 /\ FirstDelimAt(i) /\ got # <<>> /\ intact /\ covered /\ Covers(i)
      /\ out_buf' = [out_buf EXCEPT ![i] = NUL] /\ leftover' = RestBehind(i)
      /\ msgs' = Append(msgs, Taken(out_buf, 0, i))
      /\ UNCHANGED <<got, total_len>>
  BY DEF FoundDelim
<1>2. /\ FrontOfGot /\ AtLineStart(got, Used) /\ StartsInside(got, Used)
      /\ LinesWithin(msgs, got, Used) /\ NothingBehind /\ CleanUsed
  BY <1>1 DEF Lines
<1>3. /\ InFront = total_len /\ Used \in Nat /\ Len(got) = Used + total_len
      /\ total_len \in Nat /\ total_len < MaxLen /\ MaxLen \in Nat /\ i \in Nat
      /\ got \in Seq(Bytes) /\ out_buf \in [Indices -> Bytes]
      /\ NUL # LF /\ NUL # CR /\ CR # LF
  BY <1>1, <1>2, FrontType, FramingAssumption DEF InFront, FramingInv, FramingTypeOK, Indices, Bytes
<1>4. /\ i + 1 \in Indices /\ out_buf[i] = CR /\ out_buf[i + 1] = LF
      /\ \A j \in 0 .. i + 1 : out_buf[j] # NUL
      /\ \A j \in 0 .. i - 1 : ~(out_buf[j] = CR /\ out_buf[j + 1] = LF)
  <2>1. /\ i + 1 \in Indices /\ out_buf[i] = CR /\ out_buf[i + 1] = LF
        /\ \A j \in 0 .. i + 1 : out_buf[j] # NUL
    BY <1>1 DEF FirstDelimAt, DelimAt, InString
  <2>2. ASSUME NEW j \in 0 .. i - 1 PROVE ~(out_buf[j] = CR /\ out_buf[j + 1] = LF)
    <3>1. j + 1 \in Indices /\ \A n \in 0 .. j + 1 : n \in 0 .. i + 1
      BY <1>3, <2>1 DEF Indices
    <3>2. ~DelimAt(j)
      BY <1>1 DEF FirstDelimAt
    <3>. QED  BY <2>1, <3>1, <3>2 DEF DelimAt, InString
  <2>. QED  BY <2>1, <2>2
<1>5. i + 2 <= total_len
  <2>1. CASE LineWaits
    <3>1. PICK k \in Indices : k + 2 <= total_len /\ DelimAt(k)
      BY <1>1, <1>2, <2>1, WaitingIsFound
    <3>2. k \in Nat /\ k \notin 0 .. i - 1
      BY <1>1, <1>3, <3>1 DEF FirstDelimAt, Indices
    <3>. QED  BY <1>3, <3>1, <3>2
  <2>2. CASE \A j \in Indices : DelimAt(j) => j + 2 <= total_len
    BY <1>1, <2>2 DEF FirstDelimAt
  <2>. QED  BY <1>1, <1>2, <2>1, <2>2 DEF NothingBehind
<1> DEFINE e == Used + i + 1
<1>6. e \in Nat /\ Used < e /\ e < Len(got)
  BY <1>3, <1>5
<1>7. \A k \in 0 .. total_len - 1 : out_buf[k] = got[Used + k + 1]
  BY <1>1, <1>2, <1>3 DEF FrontOfGot, Waiting
<1>8. got[e] = CR /\ got[e + 1] = LF
  <2>1. i \in 0 .. total_len - 1 /\ i + 1 \in 0 .. total_len - 1 /\ Used + (i + 1) + 1 = e + 1
    BY <1>3, <1>5
  <2>. QED  BY <1>4, <1>7, <2>1
<1>9. \A j \in Used + 1 .. e - 1 : ~(got[j] = CR /\ got[j + 1] = LF)
  <2> SUFFICES ASSUME NEW j \in Used + 1 .. e - 1 PROVE ~(got[j] = CR /\ got[j + 1] = LF)
    OBVIOUS
  <2> DEFINE k == j - Used - 1
  <2>1. /\ k \in 0 .. i - 1 /\ k \in 0 .. total_len - 1 /\ k + 1 \in 0 .. total_len - 1
        /\ Used + k + 1 = j /\ Used + (k + 1) + 1 = j + 1
    BY <1>3, <1>5
  <2> HIDE DEF k
  <2>. QED  BY <1>4, <1>7, <2>1
<1>10. /\ EndsWithin(got, e) = EndsWithin(got, Used)
       /\ EndsWithin(got, e + 1) = EndsWithin(got, Used) \cup {e}
       /\ Cardinality(EndsWithin(got, e + 1)) = Cardinality(EndsWithin(got, Used)) + 1
       /\ LineStart(got, e) = Used + 1
  <2> HIDE DEF e
  <2>. QED  BY <1>2, <1>3, <1>6, <1>8, <1>9, NextLine
<1>11. /\ Len(leftover') = total_len - (i + 2)
       /\ \A k \in 0 .. total_len - (i + 2) - 1 : leftover'[k + 1] = out_buf[i + 2 + k]
  <2>1. CASE total_len > i + 2
    <3> DEFINE n == total_len - (i + 2)
    <3>1. n \in Nat /\ leftover' = [j \in 1 .. n |-> out_buf[i + 2 + j - 1]]
      BY <1>1, <1>3, <2>1 DEF RestBehind, Taken
    <3> HIDE DEF n
    <3>2. Len(leftover') = n
      BY <3>1
    <3>3. \A k \in 0 .. n - 1 : leftover'[k + 1] = out_buf[i + 2 + k]
      <4> SUFFICES ASSUME NEW k \in 0 .. n - 1 PROVE leftover'[k + 1] = out_buf[i + 2 + k]
        OBVIOUS
      <4>1. k + 1 \in 1 .. n /\ i + 2 + (k + 1) - 1 = i + 2 + k
        BY <1>3, <3>1
      <4>. QED  BY <3>1, <4>1
    <3>. QED  BY <3>2, <3>3 DEF n
  <2>2. CASE total_len = i + 2
    BY <1>1, <1>3, <2>2 DEF RestBehind
  <2>. QED  BY <1>3, <1>5, <2>1, <2>2
<1>12. InFront' = total_len - (i + 2) /\ Used' = e + 1
  <2>1. InFront' = total_len - (i + 2)
    BY <1>11 DEF InFront
  <2>. QED  BY <1>1, <1>3, <2>1 DEF Used
<1>13. FrontOfGot'
  <2>1. ASSUME NEW k \in 0 .. total_len - (i + 2) - 1 PROVE leftover'[k + 1] = got[e + 1 + k + 1]
    <3> DEFINE n == i + 2 + k
    <3>1. n \in 0 .. total_len - 1 /\ Used + n + 1 = e + 1 + k + 1
      BY <1>3, <1>5
    <3>2. leftover'[k + 1] = out_buf[n]
      BY <1>11
    <3> HIDE DEF n, e
    <3>. QED  BY <1>7, <3>1, <3>2
  <2>2. InFront' <= Len(got')
    BY <1>1, <1>3, <1>5, <1>12
  <2>. QED  BY <1>1, <1>12, <2>1, <2>2 DEF FrontOfGot, Waiting
<1>14. Taken(out_buf, 0, i) = SubSeq(got, Used + 1, e - 1)
  <2> DEFINE q == Taken(out_buf, 0, i)
  <2>1. q \in Seq(Bytes) /\ Len(q) = i
    <3>1. 0 + i <= MaxLen
      BY <1>3, <1>5
    <3>. QED  BY <1>3, <3>1, TakenType
  <2>2. \A k \in 1 .. i : q[k] = got[(Used + 1) + k - 1]
    <3> SUFFICES ASSUME NEW k \in 1 .. i PROVE q[k] = got[(Used + 1) + k - 1]
      OBVIOUS
    <3>1. 0 + k - 1 \in 0 .. total_len - 1 /\ Used + (0 + k - 1) + 1 = (Used + 1) + k - 1
      BY <1>3, <1>5
    <3>2. q[k] = out_buf[0 + k - 1]
      BY DEF Taken
    <3>. QED  BY <1>7, <3>1, <3>2
  <2>3. /\ Used + 1 \in Nat \ {0} /\ e - 1 \in Nat /\ e - 1 <= Len(got)
        /\ (e - 1) - (Used + 1) + 1 = i /\ Used + 1 <= e - 1
    BY <1>1, <1>3, <1>5
  <2> HIDE DEF q, e
  <2>4. SubSeq(got, Used + 1, e - 1) = q
    BY <1>3, <2>1, <2>2, <2>3, PartOf
  <2>. QED  BY <2>4 DEF q
<1> HIDE DEF e
<1>15. LinesWithin(msgs', got, e + 1) /\ StartsInside(got, e + 1)
  <2> DEFINE S == EndsWithin(got, Used)
             m == Taken(out_buf, 0, i)
  <2>1. msgs \in Seq(Seq(Bytes)) /\ Len(msgs) = Cardinality(S) /\ msgs' = Append(msgs, m)
    BY <1>1, <1>2 DEF LinesWithin, FramingInv, FramingTypeOK
  <2>2. /\ Len(msgs') = Cardinality(S) + 1 /\ msgs'[Cardinality(S) + 1] = m
        /\ \A k \in 1 .. Cardinality(S) : msgs'[k] = msgs[k]
    BY <2>1
  <2>3. Len(msgs') = Cardinality(EndsWithin(got, e + 1))
    BY <1>10, <2>2
  <2>4. ASSUME NEW d \in EndsWithin(got, e + 1)
        PROVE  /\ msgs'[Cardinality(EndsWithin(got, d + 1))] = SubSeq(got, LineStart(got, d), d - 1)
               /\ LineStart(got, d) \in Nat \ {0}
    <3>1. CASE d = e
      BY <1>3, <1>10, <1>14, <2>2, <3>1
    <3>2. CASE d \in S
      <4> DEFINE n == Cardinality(EndsWithin(got, d + 1))
      <4>1. msgs[n] = SubSeq(got, LineStart(got, d), d - 1) /\ LineStart(got, d) \in Nat \ {0}
        BY <1>2, <3>2 DEF LinesWithin, StartsInside
      <4>2. n \in 1 .. Cardinality(S)
        <5>1. d \in 1 .. Used - 1 /\ got[d] = CR /\ got[d + 1] = LF
          BY <3>2 DEF EndsWithin
        <5>2. d \in EndsWithin(got, d + 1) /\ EndsWithin(got, d + 1) \subseteq S
          BY <1>3, <5>1 DEF EndsWithin
        <5>3. IsFiniteSet(S) /\ IsFiniteSet(EndsWithin(got, d + 1)) /\ n \in Nat
          BY <1>3, <5>1, EndsAreFinite
        <5>4. n <= Cardinality(S)
          BY <5>2, <5>3, FS_Subset
        <5>5. n # 0
          BY <5>2, <5>3, FS_EmptySet
        <5>6. Cardinality(S) \in Nat
          BY <1>3, EndsAreFinite
        <5> HIDE DEF n, S
        <5>. QED  BY <5>3, <5>4, <5>5, <5>6
      <4> HIDE DEF n, S
      <4>3. msgs'[n] = msgs[n]
        BY <2>2, <4>2
      <4>. QED  BY <4>1, <4>3 DEF n
    <3>. QED  BY <1>10, <3>1, <3>2
  <2>. QED  BY <2>3, <2>4 DEF LinesWithin, StartsInside
<1>16. AtLineStart(got, e + 1)
  BY <1>3, <1>6, <1>8 DEF AtLineStart
<1>17. CleanUsed'
  <2>1. ASSUME NEW k \in 1 .. e + 1 PROVE got[k] # NUL
    <3>1. CASE k <= Used
      BY <1>2, <1>3, <3>1 DEF CleanUsed
    <3>2. CASE k > Used
      <4> DEFINE q == k - Used - 1
      <4>1. q \in 0 .. i + 1 /\ q \in 0 .. total_len - 1 /\ Used + q + 1 = k
        BY <1>3, <1>5, <3>2 DEF e
      <4> HIDE DEF q
      <4>. QED  BY <1>4, <1>7, <4>1
    <3>. QED  BY <1>3, <3>1, <3>2
  <2>. QED  BY <1>1, <1>12, <2>1 DEF CleanUsed
<1>18. NothingBehind'
  <2> DEFINE r == leftover'
             n == Len(r)
  <2>1. n \in Nat /\ r \in Seq(Bytes) /\ n = total_len - (i + 2)
    BY <1>3, <1>5, <1>11, FoundKeeps DEF FramingInv, FramingTypeOK
  <2>2. /\ Len(got) = e + 1 + n /\ Used' = e + 1
        /\ \A k \in 1 .. n : r[k] = got[e + 1 + k]
    <3>1. \A k \in 0 .. n - 1 : r[k + 1] = got[e + 1 + k + 1]
      BY <1>1, <1>12, <1>13, <2>1 DEF FrontOfGot, Waiting
    <3> HIDE DEF r, n
    <3>2. ASSUME NEW k \in 1 .. n PROVE r[k] = got[e + 1 + k]
      <4>1. k - 1 \in 0 .. n - 1 /\ (k - 1) + 1 = k /\ e + 1 + (k - 1) + 1 = e + 1 + k
        BY <1>6, <2>1
      <4>. QED  BY <3>1, <4>1
    <3>3. Len(got) = e + 1 + n
      BY <1>3, <2>1 DEF e
    <3>. QED  BY <1>12, <3>2, <3>3
  <2>3. CASE ~NoNul(r)
    <3>1. PICK k \in 1 .. n : r[k] = NUL
      BY <2>3 DEF NoNul
    <3> HIDE DEF r, n
    <3>2. e + 1 + k \in (e + 1) + 1 .. Len(got) /\ got[e + 1 + k] = NUL
      BY <1>6, <2>1, <2>2, <3>1
    <3>3. NulWaits'
      BY <1>1, <2>2, <3>2 DEF NulWaits
    <3>. QED  BY <3>3 DEF NothingBehind
  <2>4. CASE NoNul(r) /\ LineEnds(r) # {}
    <3>1. PICK d \in LineEnds(r) : TRUE
      BY <2>4
    <3>2. d \in 1 .. n - 1 /\ r[d] = CR /\ r[d + 1] = LF
      BY DEF LineEnds, EndsWithin
    <3>3. /\ d \in 1 .. n /\ d + 1 \in 1 .. n
          /\ e + 1 + (d + 1) = (e + 1 + d) + 1
          /\ e + 1 + d \in 1 .. Len(got) - 1 /\ e + 1 + d > e + 1
      BY <1>6, <2>1, <2>2, <3>2
    <3>4. got[e + 1 + d] = CR /\ got[(e + 1 + d) + 1] = LF
      BY <2>2, <3>2, <3>3
    <3>5. ASSUME NEW k \in 1 .. e + 1 + d PROVE got[k] # NUL
      <4>1. CASE k <= e + 1
        BY <1>1, <1>6, <1>17, <2>2, <4>1 DEF CleanUsed
      <4>2. CASE k > e + 1
        <5>1. k - e - 1 \in 1 .. n /\ e + 1 + (k - e - 1) = k
          BY <1>6, <2>1, <3>2, <4>2
        <5>. QED  BY <2>2, <2>4, <5>1 DEF NoNul
      <4>. QED  BY <1>6, <3>3, <4>1, <4>2
    <3>6. e + 1 + d \in LineEnds(got)
      BY <3>3, <3>4, <3>5 DEF LineEnds, EndsWithin
    <3>7. LineWaits'
      BY <1>1, <2>2, <3>3, <3>6 DEF LineWaits
    <3>. QED  BY <3>7 DEF NothingBehind
  <2>5. CASE NoNul(r) /\ LineEnds(r) = {}
    <3>1. (n <= i \/ out_buf[total_len] = NUL) /\ LineEnds(Append(r, out_buf[n])) = {}
      BY <1>1, <2>5 DEF Covers
    <3>2. /\ out_buf'[i] = NUL /\ \A j \in Indices : j # i => out_buf'[j] = out_buf[j]
          /\ n \in Indices /\ total_len \in Indices
      BY <1>1, <1>3, <1>5, <2>1 DEF Indices
    <3>4. ~(n > 0 /\ r[n] = CR /\ out_buf'[n] = LF)
      <4> SUFFICES ASSUME n > 0, r[n] = CR, out_buf'[n] = LF PROVE FALSE
        OBVIOUS
      <4>1. n # i /\ n \in Indices
        BY <1>3, <3>2
      <4> DEFINE a == Append(r, out_buf[n])
      <4>2. Len(a) = n + 1 /\ a[n] = CR /\ a[n + 1] = LF /\ \A k \in 1 .. n : a[k] # NUL
        BY <2>1, <2>5, <3>2, <4>1 DEF NoNul
      <4> HIDE DEF a
      <4>3. n \in LineEnds(a)
        BY <2>1, <4>2 DEF LineEnds, EndsWithin
      <4>. QED  BY <3>1, <4>3 DEF a
    <3>5. CASE n <= i
      <4>1. ASSUME NEW j \in n .. i - 1, out_buf'[j] = CR, out_buf'[j + 1] = LF
            PROVE  FALSE
        <5>1. j \in Indices /\ j + 1 \in Indices /\ j # i /\ j \in 0 .. i - 1
          BY <1>3, <2>1, <1>4 DEF Indices
        <5>2. j + 1 # i
          BY <1>3, <3>2, <4>1
        <5>. QED  BY <1>4, <3>2, <4>1, <5>1, <5>2
      <4>2. EndsHere(i)'
        <5>1. /\ out_buf'[i] = NUL /\ i >= Len(leftover')
              /\ \A j \in Len(leftover') .. i - 1 : ~(out_buf'[j] = CR /\ out_buf'[j + 1] = LF)
              /\ ~(Len(leftover') > 0 /\ leftover'[Len(leftover')] = CR /\ out_buf'[Len(leftover')] = LF)
          BY <1>3, <2>1, <3>2, <3>4, <3>5, <4>1
        <5>. QED  BY <5>1 DEF EndsHere
      <4>. QED  BY <4>2 DEF NothingBehind
    <3>6. CASE n > i /\ out_buf[total_len] = NUL
      <4>1. ASSUME NEW j \in n .. total_len - 1, out_buf'[j] = CR, out_buf'[j + 1] = LF
            PROVE  FALSE
        <5>1. /\ j \in Indices /\ j + 1 \in Indices /\ j # i /\ j + 1 # i
              /\ j >= i + 1 /\ j + 1 <= total_len
          BY <1>3, <2>1, <3>6 DEF Indices
        <5>2. out_buf[j] = CR /\ out_buf[j + 1] = LF
          BY <3>2, <4>1, <5>1
        <5>3. j # i + 1 /\ j + 1 # total_len
          BY <1>3, <1>4, <3>6, <5>2
        <5> DEFINE d == j - i - 1
        <5>4. /\ d \in 1 .. n - 1 /\ d - 1 \in 0 .. n - 1 /\ (d - 1) + 1 = d
              /\ i + 2 + (d - 1) = j /\ i + 2 + d = j + 1 /\ d \in 0 .. n - 1
          BY <1>3, <2>1, <5>1, <5>3
        <5> HIDE DEF d
        <5>5. r[d] = CR /\ r[d + 1] = LF
          BY <1>11, <2>1, <5>2, <5>4
        <5>6. d \in LineEnds(r)
          BY <2>1, <2>5, <5>4, <5>5 DEF LineEnds, EndsWithin, NoNul
        <5>. QED  BY <2>5, <5>6
      <4>2. PICK z \in Indices : z = total_len
        BY <3>2
      <4>3. EndsHere(z)'
        <5>1. /\ out_buf'[z] = NUL /\ z >= Len(leftover')
              /\ \A j \in Len(leftover') .. z - 1 : ~(out_buf'[j] = CR /\ out_buf'[j + 1] = LF)
              /\ ~(Len(leftover') > 0 /\ leftover'[Len(leftover')] = CR /\ out_buf'[Len(leftover')] = LF)
          BY <1>3, <1>5, <2>1, <3>2, <3>4, <3>6, <4>1, <4>2
        <5>. QED  BY <5>1 DEF EndsHere
      <4>. QED  BY <4>3 DEF NothingBehind
    <3>7. n <= i \/ n > i
      BY <1>3, <2>1
    <3>. QED  BY <3>1, <3>5, <3>6, <3>7
  <2>. QED  BY <2>3, <2>4, <2>5
<1>19. AtLineStart(got, Used)' /\ StartsInside(got, Used)' /\ LinesWithin(msgs, got, Used)'
  <2>1. AtLineStart(got', Used') /\ StartsInside(got', Used') /\ LinesWithin(msgs', got', Used')
    BY <1>1, <1>12, <1>15, <1>16
  <2>. QED  BY <2>1
<1>. QED  BY <1>13, <1>18, <1>19, <1>17 DEF Lines

LEMMA LinesHold == Spec => []Lines
<1>1. ASSUME FramingInv, Lines, [Next]_vars PROVE Lines'
  <2>1. ASSUME NEW i \in Indices, FoundDelim(i) PROVE Lines'
    BY <1>1, <2>1, FoundLines
  <2>2. ASSUME NEW k \in 1..MaxLen, Recv(k) PROVE Lines'
    BY <1>1, <2>2, RecvLines
  <2>3. CASE RecvEnds
    BY <2>3 DEF RecvEnds, Lines
  <2>4. CASE ScanRunsOut
    BY <2>4 DEF ScanRunsOut, Lines
  <2>5. CASE UNCHANGED vars
    <3>1. InFront' = InFront /\ Used' = Used
      BY <2>5 DEF vars, InFront, Used
    <3>2. FrontOfGot' <=> FrontOfGot
      BY <2>5, <3>1 DEF vars, FrontOfGot, Waiting
    <3>3. NothingBehind' <=> NothingBehind
      BY <2>5, <3>1 DEF vars, NothingBehind, LineWaits, NulWaits, EndsHere, DelimAt, InString
    <3>5. CleanUsed' <=> CleanUsed
      BY <2>5, <3>1 DEF vars, CleanUsed
    <3>4. /\ AtLineStart(got, Used)' <=> AtLineStart(got, Used)
          /\ StartsInside(got, Used)' <=> StartsInside(got, Used)
          /\ LinesWithin(msgs, got, Used)' <=> LinesWithin(msgs, got, Used)
      BY <2>5, <3>1 DEF vars
    <3>. QED  BY <1>1, <2>5, <3>2, <3>3, <3>4, <3>5 DEF vars, Lines
  <2>. QED  BY <1>1, <2>1, <2>2, <2>3, <2>4, <2>5, CallLines, NoDelimLines DEF Next, Ended
<1>. QED  BY <1>1, LinesInit, FramingInvHolds, PTL DEF Spec

\* However TCP cuts the stream, recv_until_delim() returns the lines received in front of
\* the first NUL, whole, in order and once each, and nothing else, while nothing is
\* dropped and each part of a line that is left over ends inside the message in front
\* of it.
THEOREM LinesArriveHolds == Spec => []LinesArrive
<1>1. FramingInv /\ Lines => LinesArrive
  <2>. SUFFICES ASSUME FramingInv, Lines, at = "recv", intact, covered
                PROVE  AreLinesOf(msgs, got)
    BY DEF LinesArrive
  <2>1. /\ FrontOfGot /\ ~LineWaits /\ AtLineStart(got, Used) /\ LinesWithin(msgs, got, Used)
        /\ CleanUsed
    BY DEF Lines, NothingBehind
  <2>2. Used \in Nat /\ Len(got) \in Nat /\ Used <= Len(got) /\ CR # LF
    BY <2>1, FrontType, FramingAssumption
  <2>3. LineEnds(got) = EndsWithin(got, Used)
    <3>1. ASSUME NEW e \in LineEnds(got) PROVE e \in EndsWithin(got, Used)
      <4>1. e \in 1 .. Len(got) - 1 /\ got[e] = CR /\ got[e + 1] = LF /\ e <= Used
        BY <2>1, <2>2 DEF LineWaits, LineEnds, EndsWithin
      <4>2. e # Used
        BY <2>1, <2>2, <4>1 DEF AtLineStart
      <4>3. e \in 1 .. Used - 1
        BY <2>2, <4>1, <4>2
      <4>. QED  BY <4>1, <4>3 DEF EndsWithin
    <3>2. EndsWithin(got, Used) \subseteq LineEnds(got)
      BY <2>1, <2>2 DEF CleanUsed, LineEnds, EndsWithin
    <3>. QED  BY <3>1, <3>2
  <2>. QED  BY <2>1, <2>3 DEF LinesWithin, AreLinesOf
<1>. QED  BY <1>1, FramingInvHolds, LinesHold, PTL
==============================================================================
