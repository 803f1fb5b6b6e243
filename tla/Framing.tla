-------------------------------- MODULE Framing --------------------------------
(***************************************************************************)
(* recv_until_delim(), by which the servers of HW5, HW6 and HW7, and their *)
(* clients, cut the TCP stream of one connection into messages.            *)
(*                                                                         *)
(* The caller passes the same buffer to every call.  A call takes back the *)
(* leftover of the last one, looks for CR LF with strstr(), and otherwise  *)
(* receives more bytes and looks again.  memcpy() of the leftover writes   *)
(* no NUL behind it: what strstr() reads there is what the last message    *)
(* left in the buffer.                                                     *)
(***************************************************************************)
EXTENDS Naturals, Sequences, FiniteSets

CONSTANTS
  Letters,    \* what a message is written with
  CR, LF,     \* the two bytes of the delimiter
  NUL,        \* the byte that ends a C string
  MaxLen,     \* BUFF_SIZE
  Streams,    \* what a client may send before it closes
  FreshBuffs  \* what the caller's buffer may hold before the first call

Bytes == Letters \cup {CR, LF, NUL}
Indices == 0 .. MaxLen - 1

\* Nothing is assumed of the stream, which may hold a NUL, nor of the buffer, which is
\* not initialised before the first call and need not hold one.
ASSUME FramingAssumption ==
  /\ {CR, LF, NUL} \cap Letters = {}
  /\ CR # LF /\ NUL # CR /\ NUL # LF
  /\ MaxLen \in Nat \ {0, 1}
  /\ Streams \subseteq Seq(Bytes)
  /\ FreshBuffs \subseteq [Indices -> Bytes]

VARIABLES
  wire,       \* bytes of the stream that recv() has not returned
  got,        \* history: the bytes recv() has returned
  out_buf,    \* the caller's buffer, kept from call to call
  total_len,
  leftover,   \* the first leftover_len bytes of leftover
  at,         \* "call", "scan" (at strstr()), "recv", "ended" or "undefined"
  msgs,       \* history: the messages returned to the caller
  intact,     \* history: no byte was dropped, no message made of a fresh buffer
  covered     \* history: a NUL stood right behind each part of a line left over

vars == <<wire, got, out_buf, total_len, leftover, at, msgs, intact, covered>>

Init ==
  /\ wire \in Streams
  /\ got = <<>>
  /\ out_buf \in FreshBuffs
  /\ total_len = 0
  /\ leftover = <<>>
  /\ at = "call"
  /\ msgs = <<>>
  /\ intact = TRUE
  /\ covered = TRUE

\* memcpy() of the sequence s to position n of buffer b.
Copied(b, n, s) ==
  [i \in Indices |-> IF i \in n .. n + Len(s) - 1 THEN s[i - n + 1] ELSE b[i]]

\* The bytes of buffer b from position n on, k of them.
Taken(b, n, k) == [j \in 1..k |-> b[n + j - 1]]

\* memcpy(out_buf, leftover, leftover_len), without a NUL behind it.
Call ==
  /\ at = "call"
  /\ at' = "scan"
  /\ out_buf' = Copied(out_buf, 0, leftover)
  /\ total_len' = Len(leftover)
  /\ leftover' = <<>>
  /\ UNCHANGED <<wire, got, msgs, intact, covered>>

NoNul(s) == \A k \in 1..Len(s) : s[k] # NUL

\* Where the lines within the first n bytes of s end,
EndsWithin(s, n) == {e \in 1 .. n - 1 : s[e] = CR /\ s[e + 1] = LF}

\* and where those do that have no NUL in front of them.
LineEnds(s) == {e \in EndsWithin(s, Len(s)) : \A k \in 1..e : s[k] # NUL}

\* The string strstr() searches ends before the first NUL.
InString(i) == i \in Indices /\ \A j \in 0..i : out_buf[j] # NUL

\* Where the string has a delimiter.
DelimAt(i) == InString(i + 1) /\ out_buf[i] = CR /\ out_buf[i + 1] = LF

FirstDelimAt(i) == DelimAt(i) /\ \A j \in 0 .. i - 1 : ~DelimAt(j)

\* Mutant: the delimiter counts for one byte.
RestFromLF(i) ==
  IF total_len > i + 1 THEN Taken(out_buf, i + 1, total_len - (i + 1)) ELSE <<>>

\* remain_len bytes behind the delimiter at i; none when remain_len is negative,
\* as it is when part of the delimiter is not of this call.
RestBehind(i) ==
  IF total_len > i + 2 THEN Taken(out_buf, i + 2, total_len - (i + 2)) ELSE <<>>

\* Nothing older completes what is left over behind the message that ends at i: it
\* holds a line, or a NUL of its own; or the NUL of this message, or the one that
\* recv() wrote behind the message and its rest, stands where it still ends the
\* string, and the byte behind the rest does not complete a CR at its end.
Covers(i) ==
  LET r == RestBehind(i) IN
  LineEnds(r) = {} /\ NoNul(r) =>
    /\ Len(r) <= i \/ out_buf[total_len] = NUL
    /\ LineEnds(Append(r, out_buf[Len(r)])) = {}

\* strstr() finds the delimiter: the message is returned, the rest kept.  An empty
\* message returns 0, which every caller takes for the end of the connection.
FoundDelim(i) ==
  /\ at = "scan"
  /\ FirstDelimAt(i)
  /\ out_buf' = [out_buf EXCEPT ![i] = NUL]
  /\ leftover' = RestBehind(i)
  /\ IF i = 0
       THEN at' = "ended" /\ UNCHANGED msgs
       ELSE at' = "call" /\ msgs' = Append(msgs, Taken(out_buf, 0, i))
  /\ intact' = (intact /\ got # <<>>)
  /\ covered' = (covered /\ Covers(i))
  /\ UNCHANGED <<wire, got, total_len>>

\* strstr() comes to a NUL first; without one in the buffer, to one behind it.
NoDelim ==
  /\ at = "scan"
  /\ \A i \in Indices : ~DelimAt(i)
  /\ at' = "recv"
  /\ UNCHANGED <<wire, got, out_buf, total_len, leftover, msgs, intact, covered>>

\* The buffer holds neither: what strstr() finds behind it, or whether it returns at
\* all, is open.
ScanRunsOut ==
  /\ at = "scan"
  /\ \A i \in Indices : out_buf[i] # NUL /\ ~DelimAt(i)
  /\ at' = "undefined"
  /\ UNCHANGED <<wire, got, out_buf, total_len, leftover, msgs, intact, covered>>

\* Mutant: "total_len + bytes_recv > max_len".
KeptToTheBrim(k) == IF total_len + k > MaxLen THEN MaxLen - total_len - 1 ELSE k

\* Of k bytes received, those that are kept; the others are dropped.
Kept(k) == IF total_len + k >= MaxLen THEN MaxLen - total_len - 1 ELSE k

\* Mutant: no NUL is written behind the bytes received.
Unterminated(b, n) == b

Terminated(b, n) == [b EXCEPT ![n] = NUL]

\* recv() returns any number of the bytes that wait, up to sizeof(temp_buf).
Recv(k) ==
  /\ at = "recv"
  /\ k \in 1..Len(wire)
  /\ k <= MaxLen
  /\ got' = got \o SubSeq(wire, 1, k)
  /\ wire' = SubSeq(wire, k + 1, Len(wire))
  /\ total_len' = total_len + Kept(k)
  /\ out_buf' = Terminated(Copied(out_buf, total_len, SubSeq(wire, 1, Kept(k))), total_len')
  /\ intact' = (intact /\ Kept(k) = k)
  /\ at' = "scan"
  /\ UNCHANGED <<leftover, msgs, covered>>

\* recv() returns 0 or -1: the client closed, or the connection was reset.
RecvEnds ==
  /\ at = "recv"
  /\ at' = "ended"
  /\ UNCHANGED <<wire, got, out_buf, total_len, leftover, msgs, intact, covered>>

\* The caller has closed the connection, or what it does is open.
Ended ==
  /\ at \in {"ended", "undefined"}
  /\ UNCHANGED vars

Next ==
  \/ Call
  \/ \E i \in Indices : FoundDelim(i)
  \/ NoDelim
  \/ ScanRunsOut
  \/ \E k \in 1..MaxLen : Recv(k)
  \/ RecvEnds
  \/ Ended

Spec == Init /\ [][Next]_vars

-----------------------------------------------------------------------------
(* Properties *)

\* total_len stays below max_len, so every write of recv_until_delim() falls into
\* out_buf, and what is left over fits into session->leftover.
FramingTypeOK ==
  /\ wire \in Seq(Bytes)
  /\ got \in Seq(Bytes)
  /\ out_buf \in [Indices -> Bytes]
  /\ total_len \in Indices
  /\ leftover \in Seq(Bytes) /\ Len(leftover) < MaxLen
  /\ at \in {"call", "scan", "recv", "ended", "undefined"}
  /\ msgs \in Seq(Seq(Bytes))
  /\ intact \in BOOLEAN /\ covered \in BOOLEAN

\* recv_until_delim() has written nothing to the caller's buffer.
Fresh == got = <<>> /\ msgs = <<>>

\* strstr() runs out of the buffer only in the very first scan, which reads what was
\* there before recv() was ever called.  From then on there is a NUL for it to stop
\* at, even right after memcpy() has overwritten the front of the last message.
ScanStaysInside ==
  /\ at = "scan" /\ ~Fresh => \E i \in Indices : out_buf[i] = NUL
  /\ at = "undefined" => Fresh

\* Where the line of s that ends at e begins.
LineStart(s, e) ==
  LET before == EndsWithin(s, e) IN
  IF before = {} THEN 1 ELSE 2 + CHOOSE j \in before : \A k \in before : k <= j

\* The sequence m holds the lines of s in front of its first NUL, each at its place.
AreLinesOf(m, s) ==
  /\ Len(m) = Cardinality(LineEnds(s))
  /\ \A e \in LineEnds(s) :
       m[Cardinality(EndsWithin(s, e + 1))] = SubSeq(s, LineStart(s, e), e - 1)

\* Whenever the server waits for more bytes, it has returned the lines received so
\* far, whole, in order and none twice, however TCP cut the stream; a NUL among them
\* ends that for good: the lines in front of it are returned, and none behind it,
\* for strstr() never gets past it.  It holds while no byte is dropped, until a line
\* is empty, and until several lines and a part of another are received at once and
\* this part is longer than the line in front of it, or a line feed of the line in
\* front completes a CR at the end of a part.
LinesArrive == at = "recv" /\ intact /\ covered => AreLinesOf(msgs, got)

\* A line feed that was taken for the end of one message opens the next one.
Stripped(m) == IF m[1] = LF THEN Tail(m) ELSE m

\* "Extracts one complete message and stores remainder in client->leftover."
\* (HW6/TCP_Server/server.c:131): the messages are the lines received, up to line
\* feeds that open a message and a last line whose line feed is still to come.
MessagesAreLines ==
  LET m == [k \in DOMAIN msgs |-> Stripped(msgs[k])] IN
  at = "recv" /\ intact => AreLinesOf(m, got) \/ AreLinesOf(m, Append(got, LF))
==============================================================================
