-------------------------- MODULE FileTransferProofs --------------------------
(***************************************************************************)
(* Proofs about FileTransfer, for every number of clients and names and    *)
(* every size of a file.                                                   *)
(***************************************************************************)
EXTENDS FileTransfer, SequenceTheorems, TLAPS

\* The first m bytes of an upload, in order.
First(m) == [k \in 1..m |-> k]

\* The name and the size of the upload that is served.
Name == job[cur].name
Size == job[cur].size

\* The range of every variable.
Types ==
  /\ job \in [Clients -> [name : Names, size : 0..MaxSize]]
  /\ cpc \in [Clients -> {"new", "welcome", "prompt", "reply", "upload", "result",
                          "foreign", "leave", "gone"}]
  /\ out \in [Clients -> Nat]
  /\ shut \in [Clients -> BOOLEAN]
  /\ link \in [Clients -> {"open", "closed", "reset"}]
  /\ down \in [Clients -> Seq(Messages)]
  /\ spc \in {"accept", "welcome", "line", "invalid", "confirm", "open", "receive",
              "result", "close", "dead"}
  /\ spc \notin {"accept", "dead"} => cur \in Clients
  /\ taken \in Nat /\ used \in 0..taken
  /\ filesize \in 0..MaxSize
  /\ res \in {0, -1}
  /\ disk \in [Names -> [of : Clients \cup {NoClient}, bytes : Seq(Int)]]

\* A file holds bytes of the upload it was opened for, unless some were lost.
Contents ==
  \A n \in Names : disk[n] # NoFile =>
    /\ disk[n].of \in Clients
    /\ disk[n].of \notin lossy => \A k \in DOMAIN disk[n].bytes :
                                    disk[n].bytes[k] \in 1..job[disk[n].of].size

\* A client is served once: it waits once, and is not told before it was served.
ServedOnce ==
  /\ backlog \in Seq(Clients)
  /\ \A j, k \in 1..Len(backlog) : backlog[j] = backlog[k] => j = k
  /\ \A k \in 1..Len(backlog) :
       cpc[backlog[k]] # "new" /\ backlog[k] \notin told /\ backlog[k] # cur
  /\ \A c \in Clients : cpc[c] = "new" => c \notin told /\ c # cur
  /\ spc \notin {"accept", "close", "dead"} => cur \notin told

\* A client that has ended its direction of the stream sends no more.
EndsAreFinal ==
  \A c \in Clients : shut[c] => cpc[c] \in {"result", "foreign", "leave", "gone"}

\* The stream has ended inside the command line, and nothing of the file will come.
CutShort == taken = out[cur] /\ shut[cur] /\ (filesize = 0 => Size = 0)

\* The file is the beginning of the upload, and recv() goes on behind it.
InStep(len) ==
  /\ file.bytes = First(len)
  /\ \/ filesize = Size /\ len <= Size /\ (len < Size => taken = 2 + len)
     \/ len = 0 /\ CutShort

\* How far the server is with the upload.
Upload ==
  /\ spc \in {"welcome", "line"} => used = 0
  /\ spc \in {"confirm", "open"} =>
       \/ used = 2 /\ filesize = Size
       \/ used = 1 /\ taken = 1 /\ CutShort
  /\ spc = "receive" \/ (spc = "result" /\ res = 0) => file.of = cur
  /\ spc = "receive" /\ cur \notin lossy => \E len \in Nat : InStep(len)
  /\ spc = "result" /\ res = 0 /\ cur \notin lossy => IsWhole(Name, cur)

\* WholeFiles is not inductive: it says nothing of the file that is being written.
IInv == Types /\ Contents /\ ServedOnce /\ EndsAreFinal /\ Upload /\ WholeFiles

-----------------------------------------------------------------------------
(* Bytes. *)

\* The beginning of an upload has as many bytes as it says.
LEMMA FirstIs ==
  ASSUME NEW m \in Nat
  PROVE  /\ First(m) \in Seq(Int) /\ Len(First(m)) = m /\ DOMAIN First(m) = 1..m
         /\ \A k \in 1..m : First(m)[k] = k
BY DEF First

\* The next bytes make a longer beginning.
LEMMA FirstAndNext ==
  ASSUME NEW m \in Nat, NEW n \in Nat
  PROVE  First(m) \o [k \in 1..(m + n) - (m + 1) + 1 |-> (m + 1) + k - 1] = First(m + n)
<1> DEFINE more == [k \in 1..n |-> m + k]
<1>1. [k \in 1..(m + n) - (m + 1) + 1 |-> (m + 1) + k - 1] = more
  OBVIOUS
<1>2. more \in Seq(Int) /\ Len(more) = n /\ DOMAIN more = 1..n
  OBVIOUS
<1>3. \A k \in 1..n : more[k] = m + k
  OBVIOUS
<1> HIDE DEF more
<1>0. First(m) \in Seq(Int) /\ Len(First(m)) = m
  BY FirstIs
<1>8. /\ First(m) \o more \in Seq(Int)
      /\ Len(First(m) \o more) = Len(First(m)) + Len(more)
      /\ \A k \in 1..Len(First(m)) + Len(more) : (First(m) \o more)[k] =
            IF k <= Len(First(m)) THEN First(m)[k] ELSE more[k - Len(First(m))]
  BY <1>0, <1>2, ConcatProperties, Zenon
<1>4. /\ First(m) \o more \in Seq(Int) /\ Len(First(m) \o more) = m + n
      /\ \A k \in 1..m + n : (First(m) \o more)[k] =
            IF k <= m THEN First(m)[k] ELSE more[k - m]
  BY <1>0, <1>2, <1>8, Zenon
<1>5. First(m + n) \in Seq(Int) /\ Len(First(m + n)) = m + n
  BY FirstIs
<1>6. \A k \in 1..m + n : (First(m) \o more)[k] = First(m + n)[k]
  <2> TAKE k \in 1..m + n
  <2>1. First(m + n)[k] = k
    BY FirstIs
  <2>2. CASE k <= m
    <3>1. First(m)[k] = k
      BY <2>2, FirstIs
    <3> QED BY <1>4, <2>1, <2>2, <3>1
  <2>3. CASE ~(k <= m)
    <3>1. k - m \in 1..n /\ m + (k - m) = k
      BY <2>3
    <3>2. (First(m) \o more)[k] = more[k - m]
      BY <1>4, <2>3
    <3> QED BY <1>3, <2>1, <3>1, <3>2
  <2> QED BY <2>2, <2>3
<1>7. First(m) \o more = First(m + n)
  BY <1>4, <1>5, <1>6, SeqEqual
<1> QED BY <1>1, <1>7

\* As an int, a size is not more than it is.
LEMMA AsIntAtMost ==
  ASSUME NEW n \in Nat
  PROVE  AsInt(n) \in Int /\ AsInt(n) <= n
<1>1. 2 * IntHalf \in Nat \ {0}
  BY TransferAssumption
<1> DEFINE m == 2 * IntHalf
<1>2. \A d \in Nat \ {0} : n % d <= n /\ n % d \in 0..d - 1
  OBVIOUS
<1>3. n % m <= n /\ n % m \in 0..m - 1
  BY <1>1, <1>2
<1> QED BY <1>1, <1>3, TransferAssumption DEF AsInt

-----------------------------------------------------------------------------
(* Clients. *)

\* A client's step leaves the server where it is and its files as they are.
LEMMA ClientKeeps ==
  ASSUME IInv, NEW c \in Clients, ClientStep(c) \/ UserStep(c)
  PROVE  IInv'
<1> USE DEF clientVars, netVars, serverVars, CloseSocket
<1>1. /\ Types
      /\ UNCHANGED <<job, hungup, spc, cur, taken, used, filesize, res, disk, told, lossy>>
  BY DEF IInv, ClientStep, UserStep, ReadWelcome, ReadReply, ReadResult, ReadLine,
     ReadNothing, SendData, FinishUpload, Leave, Connect, SendCommand, Quit, SendForeign
<1>2. Types'
  <2>1. CASE ReadWelcome(c) \/ ReadReply(c) \/ ReadResult(c)
    <3>1. PICK from \in {"welcome", "reply", "result"},
               to \in {"prompt", "upload", "leave"} : ReadLine(c, from, to)
      BY <2>1 DEF ReadWelcome, ReadReply, ReadResult
    <3>2. Tail(down[c]) \in Seq(Messages)
      BY <1>1, <3>1 DEF Types, ReadLine
    <3> QED BY <1>1, <3>1, <3>2 DEF Types, ReadLine
  <2>2. CASE ReadNothing(c) \/ SendCommand(c) \/ FinishUpload(c) \/ Connect(c)
    <3>1. cpc' \in [Clients -> {"new", "welcome", "prompt", "reply", "upload", "result",
                                "foreign", "leave", "gone"}]
      BY <1>1, <2>2 DEF Types, ReadNothing, SendCommand, FinishUpload, Connect
    <3>2. out' \in [Clients -> Nat] /\ shut' \in [Clients -> BOOLEAN]
      <4>1. CASE SendCommand(c)
        BY <1>1, <4>1 DEF Types, SendCommand
      <4>2. CASE FinishUpload(c)
        BY <1>1, <4>2 DEF Types, FinishUpload
      <4>3. CASE ReadNothing(c) \/ Connect(c)
        BY <1>1, <4>3 DEF Types, ReadNothing, Connect
      <4> QED BY <2>2, <4>1, <4>2, <4>3
    <3>3. UNCHANGED netVars
      BY <2>2 DEF ReadNothing, SendCommand, FinishUpload, Connect
    <3> QED BY <1>1, <3>1, <3>2, <3>3 DEF Types
  <2>3. CASE SendData(c) \/ SendForeign(c)
    <3>1. out' \in [Clients -> Nat] /\ shut' \in [Clients -> BOOLEAN]
      <4>1. out[c] + 1 \in Nat
        BY <1>1 DEF Types
      <4>2. out' \in {out, [out EXCEPT ![c] = out[c] + 1]}
        BY <1>1, <2>3 DEF SendData, SendForeign
      <4>3. shut' \in {shut, [shut EXCEPT ![c] = TRUE]}
        BY <2>3 DEF SendData, SendForeign
      <4> QED BY <1>1, <4>1, <4>2, <4>3 DEF Types
    <3>2. UNCHANGED <<cpc, netVars>>
      BY <2>3 DEF SendData, SendForeign
    <3> QED BY <1>1, <3>1, <3>2 DEF Types
  <2>4. CASE Leave(c) \/ Quit(c)
    BY <1>1, <2>4 DEF Types, Leave, Quit
  <2> QED BY <2>1, <2>2, <2>3, <2>4 DEF ClientStep, UserStep
<1>3. Contents' /\ WholeFiles'
  BY <1>1 DEF IInv, Contents, WholeFiles, Unsettled, IsWhole
<1>4. ServedOnce'
  <2>1. CASE Connect(c)
    <3>1. /\ cpc'[c] # "new" /\ cpc[c] = "new"
          /\ \A d \in Clients : cpc'[d] = "new" => cpc[d] = "new"
      BY <1>1, <2>1 DEF Connect, Types
    <3>2. /\ backlog' \in Seq(Clients) /\ Len(backlog') = Len(backlog) + 1
          /\ Len(backlog) \in Nat
          /\ backlog'[Len(backlog) + 1] = c
          /\ \A k \in 1..Len(backlog) : backlog'[k] = backlog[k] /\ backlog[k] \in Clients
      BY <2>1 DEF Connect, IInv, ServedOnce
    <3>3. \A k \in 1..Len(backlog') : k \in 1..Len(backlog) \/ k = Len(backlog) + 1
      BY <3>2
    <3>4. \A k \in 1..Len(backlog) : backlog[k] # c
      BY <3>1 DEF IInv, ServedOnce
    <3>5. \A j, k \in 1..Len(backlog') : backlog'[j] = backlog'[k] => j = k
      BY <3>2, <3>3, <3>4 DEF IInv, ServedOnce
    <3>6. \A k \in 1..Len(backlog') :
            cpc'[backlog'[k]] # "new" /\ backlog'[k] \notin told /\ backlog'[k] # cur
      BY <3>1, <3>2, <3>3 DEF IInv, ServedOnce
    <3> QED BY <1>1, <3>1, <3>2, <3>5, <3>6 DEF IInv, ServedOnce
  <2>2. CASE ~Connect(c)
    <3>1. UNCHANGED backlog
      BY <2>2 DEF ClientStep, UserStep, ReadWelcome, ReadReply, ReadResult, ReadLine,
         ReadNothing, SendData, FinishUpload, Leave, SendCommand, Quit, SendForeign
    <3>2. \A d \in Clients : cpc'[d] = "new" => cpc[d] = "new"
      BY <1>1, <2>2 DEF Types, ClientStep, UserStep, ReadWelcome, ReadReply, ReadResult,
         ReadLine, ReadNothing, SendData, FinishUpload, Leave, SendCommand, Quit,
         SendForeign
    <3>3. \A k \in 1..Len(backlog) : backlog[k] \in Clients
      BY DEF IInv, ServedOnce
    <3> QED BY <1>1, <3>1, <3>2, <3>3 DEF IInv, ServedOnce
  <2> QED BY <2>1, <2>2
<1>5. /\ EndsAreFinal'
      /\ \A d \in Clients : shut[d] => shut'[d] /\ out'[d] = out[d]
  <2>1. CASE ReadWelcome(c) \/ ReadReply(c) \/ ReadResult(c)
    <3>1. PICK from \in {"welcome", "reply", "result"},
               to \in {"prompt", "upload", "leave"} :
            ReadLine(c, from, to) /\ (from = "result" => to = "leave")
      BY <2>1 DEF ReadWelcome, ReadReply, ReadResult
    <3> QED BY <1>1, <3>1 DEF Types, ReadLine, IInv, EndsAreFinal
  <2>2. CASE ReadNothing(c) \/ SendCommand(c) \/ FinishUpload(c) \/ Connect(c)
    BY <1>1, <2>2 DEF Types, ReadNothing, SendCommand, FinishUpload, Connect, IInv,
       EndsAreFinal
  <2>3. CASE SendData(c) \/ SendForeign(c)
    BY <1>1, <2>3 DEF Types, SendData, SendForeign, IInv, EndsAreFinal
  <2>4. CASE Leave(c) \/ Quit(c)
    BY <1>1, <2>4 DEF Types, Leave, Quit, IInv, EndsAreFinal
  <2> QED BY <2>1, <2>2, <2>3, <2>4 DEF ClientStep, UserStep
<1>6. Upload'
  <2>1. spc \notin {"accept", "dead"} /\ CutShort => CutShort'
    BY <1>1, <1>5 DEF Types, CutShort, Size
  <2>2. ASSUME NEW len \in Nat, spc = "receive", InStep(len) PROVE InStep(len)'
    BY <1>1, <2>1, <2>2 DEF InStep, file, Size
  <2> QED BY <1>1, <2>1, <2>2 DEF IInv, Upload, IsWhole, Name, Size, file
<1> QED BY <1>2, <1>3, <1>4, <1>5, <1>6 DEF IInv

-----------------------------------------------------------------------------
(* The server: what its steps have in common. *)

\* The files are as good as they were when nothing of them changes and none that was
\* unsettled is taken for settled.
LEMMA FilesKeep ==
  ASSUME IInv, UNCHANGED <<job, disk, lossy>>, \A n \in Names : Unsettled(n) => Unsettled(n)'
  PROVE  Contents' /\ WholeFiles'
BY DEF IInv, Contents, WholeFiles, IsWhole

\* The server goes on with the client it serves.
LEMMA ServiceKeeps ==
  ASSUME IInv, UNCHANGED <<clientVars, backlog, cur, told>>,
         spc \notin {"accept", "close", "dead"}
  PROVE  ServedOnce' /\ EndsAreFinal'
BY DEF IInv, ServedOnce, EndsAreFinal, clientVars

\* What may come of a send().
LEMMA SendsType ==
  ASSUME Types, cur \in Clients, NEW m \in Messages, NEW next, Sends(m, next)
  PROVE  /\ link' \in [Clients -> {"open", "closed", "reset"}]
         /\ down' \in [Clients -> Seq(Messages)]
         /\ spc' \in {next, "close", "dead"}
<1>1. CASE SendMessage(m) /\ spc' = next
  <2>1. Append(down[cur], m) \in Seq(Messages)
    BY DEF Types
  <2> QED BY <1>1, <2>1 DEF Types, SendMessage
<1>2. CASE SendFails /\ spc' \in {"close", "dead"}
  BY <1>2 DEF Types, SendFails, netVars
<1> QED BY <1>1, <1>2 DEF Sends, Killed

-----------------------------------------------------------------------------
(* The server: from accept() to the file. *)

\* The next client in the queue has not been served.
LEMMA AcceptKeeps ==
  ASSUME IInv, Accept
  PROVE  IInv'
<1> USE DEF Accept, clientVars, netVars
<1>1. /\ backlog \in Seq(Clients) /\ backlog # <<>> /\ Len(backlog) \in Nat
      /\ cur' = backlog[1] /\ backlog[1] \in Clients
      /\ backlog' \in Seq(Clients) /\ Len(backlog') = Len(backlog) - 1
      /\ \A k \in 1..Len(backlog) - 1 : backlog'[k] = backlog[k + 1]
  <2>1. backlog \in Seq(Clients)
    BY DEF IInv, ServedOnce
  <2> QED BY <2>1
<1>2. Types'
  BY <1>1 DEF IInv, Types
<1>3. ServedOnce'
  <2>1. \A k \in 1..Len(backlog') : k + 1 \in 1..Len(backlog) /\ k + 1 # 1
    BY <1>1
  <2>2. 1 \in 1..Len(backlog)
    BY <1>1
  <2>3. \A j, k \in 1..Len(backlog') : backlog'[j] = backlog'[k] => j = k
    <3> TAKE j, k \in 1..Len(backlog')
    <3> HAVE backlog'[j] = backlog'[k]
    <3>1. j + 1 = k + 1
      BY <1>1, <2>1 DEF IInv, ServedOnce
    <3> QED BY <1>1, <3>1
  <2>4. \A k \in 1..Len(backlog') :
          cpc[backlog'[k]] # "new" /\ backlog'[k] \notin told /\ backlog'[k] # cur'
    <3> TAKE k \in 1..Len(backlog')
    <3>1. backlog'[k] = backlog[k + 1]
      BY <1>1
    <3>2. backlog[k + 1] # backlog[1]
      BY <2>1, <2>2 DEF IInv, ServedOnce
    <3> QED BY <1>1, <2>1, <3>1, <3>2 DEF IInv, ServedOnce
  <2>5. cpc[cur'] # "new" /\ cur' \notin told
    BY <1>1, <2>2 DEF IInv, ServedOnce
  <2> QED BY <1>1, <2>3, <2>4, <2>5 DEF IInv, ServedOnce
<1>4. Contents' /\ WholeFiles'
  BY FilesKeep DEF Unsettled
<1>5. Upload' /\ EndsAreFinal'
  BY DEF IInv, Upload, EndsAreFinal
<1> QED BY <1>2, <1>3, <1>4, <1>5 DEF IInv

\* The greeting, and the answers to a command line.
LEMMA AnswerKeeps ==
  ASSUME IInv, Welcome \/ RejectCommand \/ Confirm
  PROVE  IInv'
<1> USE DEF clientVars, netVars
<1>1. PICK m \in Messages, next \in {"line", "close", "open"} :
        /\ Sends(m, next)
        /\ \/ spc = "welcome" /\ next = "line"
           \/ spc = "invalid" /\ next = "close"
           \/ spc = "confirm" /\ next = "open"
  BY DEF Welcome, RejectCommand, Confirm, Messages
<1>2. UNCHANGED <<clientVars, hungup, backlog, cur, taken, used, filesize, res, disk,
                  told, lossy>>
  BY DEF Welcome, RejectCommand, Confirm
<1>3. cur \in Clients /\ Types
  BY <1>1 DEF IInv, Types
<1>4. Types' /\ spc' \in {next, "close", "dead"}
  BY <1>1, <1>2, <1>3, SendsType DEF Types
<1>5. Contents' /\ WholeFiles'
  BY <1>1, <1>2, FilesKeep DEF Unsettled
<1>6. ServedOnce' /\ EndsAreFinal'
  BY <1>1, <1>2, ServiceKeeps
<1>7. Upload'
  BY <1>1, <1>2, <1>4 DEF IInv, Upload, CutShort, Size
<1> QED BY <1>4, <1>5, <1>6, <1>7 DEF IInv

\* The command line is read, in parts and up to its end.
LEMMA LineKeeps ==
  ASSUME IInv, FillBuf \/ TakeLine \/ LineEnds
  PROVE  IInv'
<1> USE DEF clientVars, netVars
<1>1. /\ spc = "line" /\ cur \in Clients /\ used = 0 /\ Types
      /\ UNCHANGED <<clientVars, netVars, hungup, backlog, cur, res, disk, told, lossy>>
  BY DEF IInv, Types, Upload, FillBuf, TakeLine, LineEnds
<1>2. taken \in Nat /\ job[cur].size \in 0..MaxSize /\ out[cur] \in Nat
  BY <1>1 DEF Types
<1>3. CASE FillBuf
  <2>1. taken' \in Nat /\ UNCHANGED <<spc, used, filesize>>
    BY <1>2, <1>3 DEF FillBuf
  <2>2. Types'
    BY <1>1, <2>1 DEF Types
  <2>3. Upload'
    BY <1>1, <2>1 DEF Upload
  <2> QED BY <1>1, <2>1, <2>2, <2>3, FilesKeep, ServiceKeeps DEF IInv, Unsettled
<1>4. CASE TakeLine
  <2>1. taken >= 2 /\ used' = 2 /\ UNCHANGED taken
    BY <1>1, <1>2, <1>4 DEF TakeLine, Avail
  <2>2. \/ spc' = "invalid" /\ UNCHANGED filesize
        \/ spc' = "confirm" /\ filesize' = Size
    BY <1>4 DEF TakeLine, Parse, Size
  <2>3. Types'
    BY <1>1, <1>2, <2>1, <2>2 DEF Types, Size
  <2>4. Upload'
    BY <1>1, <2>1, <2>2 DEF Upload, Size
  <2> QED BY <1>1, <2>2, <2>3, <2>4, FilesKeep, ServiceKeeps DEF IInv, Unsettled
<1>5. CASE LineEnds
  <2>1. used' = taken /\ UNCHANGED taken /\ taken = out[cur] /\ shut[cur]
    BY <1>5 DEF LineEnds, AtEnd
  <2>2. \/ spc' \in {"close", "invalid"} /\ UNCHANGED filesize
        \/ /\ spc' = "confirm" /\ taken = 1
           /\ filesize' \in 0..MaxSize /\ (filesize' = 0 => Size = 0)
    <3>1. CASE spc' = "close" /\ UNCHANGED filesize
      BY <3>1
    <3>2. CASE Avail = 1 /\ spc' = "invalid" /\ UNCHANGED filesize
      BY <3>2
    <3>3. CASE Avail = 1 /\ \E s \in 0..job[cur].size :
                 (s = 0 => job[cur].size = 0) /\ Parse(s)
      <4>1. taken = 1
        BY <1>1, <1>2, <3>3 DEF Avail
      <4>2. PICK s \in 0..job[cur].size : (s = 0 => job[cur].size = 0) /\ Parse(s)
        BY <3>3
      <4>3. s \in 0..MaxSize
        BY <1>2, TransferAssumption
      <4> QED BY <4>1, <4>2, <4>3 DEF Parse, Size
    <3> QED BY <1>5, <3>1, <3>2, <3>3 DEF LineEnds
  <2>3. Types'
    BY <1>1, <1>2, <2>1, <2>2 DEF Types
  <2>4. Upload'
    BY <1>1, <2>1, <2>2 DEF Upload, CutShort, Size
  <2> QED BY <1>1, <2>2, <2>3, <2>4, FilesKeep, ServiceKeeps DEF IInv, Unsettled
<1> QED BY <1>3, <1>4, <1>5

-----------------------------------------------------------------------------
(* The server: the file. *)

\* What WithBytes makes of a file: bytes i to i + n - 1 come behind those it has.
LEMMA WithBytesIs ==
  ASSUME NEW f \in [of : Clients \cup {NoClient}, bytes : Seq(Int)],
         NEW i \in Int, NEW j \in Int, j - i + 1 \in Nat
  PROVE  /\ WithBytes(f, i, j) \in [of : Clients \cup {NoClient}, bytes : Seq(Int)]
         /\ WithBytes(f, i, j).of = f.of
         /\ WithBytes(f, i, j).bytes = f.bytes \o [k \in 1..j - i + 1 |-> i + k - 1]
<1> DEFINE n == j - i + 1
<1> DEFINE more == [k \in 1..n |-> i + k - 1]
<1>1. more \in Seq(Int)
  <2>1. more \in [1..n -> Int]
    OBVIOUS
  <2>2. n \in Nat
    OBVIOUS
  <2> HIDE DEF n
  <2> QED BY <2>1, <2>2
<1> HIDE DEF more
<1>2. f.bytes \o more \in Seq(Int)
  BY <1>1
<1>3. WithBytes(f, i, j) = [f EXCEPT !.bytes = f.bytes \o more]
  BY DEF WithBytes, more
<1>4. WithBytes(f, i, j).bytes = f.bytes \o more
  BY <1>3
<1> QED BY <1>2, <1>3, <1>4 DEF more

\* The file is opened, and what was received with the command line goes into it.
LEMMA OpenFileKeeps ==
  ASSUME IInv, OpenFile
  PROVE  IInv'
<1> USE DEF clientVars, netVars
<1> DEFINE n == IF ToWrite > 0 THEN ToWrite ELSE 0
           new == WithBytes([of |-> cur, bytes |-> <<>>], FirstLeft, FirstLeft + n - 1)
<1>1. /\ spc = "open" /\ cur \in Clients /\ Types /\ Name \in Names
      /\ Size \in 0..MaxSize /\ MaxSize \in Nat
      /\ taken \in Nat /\ used \in Nat /\ used <= taken /\ filesize \in Nat
      /\ UNCHANGED <<clientVars, netVars, hungup, backlog, cur, taken, filesize, told>>
  BY TransferAssumption DEF OpenFile, IInv, Types, Name, Size
<1>2. /\ disk' = [disk EXCEPT ![Name] = new] /\ used' = used + n
      /\ lossy' = IF n < Avail /\ n < filesize THEN lossy \cup {cur} ELSE lossy
      /\ spc' = "receive" \/ (spc' = "result" /\ res' = -1)
      /\ res' \in {res, -1}
  BY DEF OpenFile, Name
<1>3. ToWrite \in Int /\ ToWrite <= Avail /\ ToWrite <= filesize
  <2>1. AsInt(filesize) \in Int /\ AsInt(filesize) <= filesize
    BY <1>1, AsIntAtMost
  <2> QED BY <1>1, <2>1 DEF ToWrite, Avail
<1>4. n \in Nat /\ n <= Avail /\ n <= filesize
  BY <1>1, <1>3 DEF Avail
<1> HIDE DEF n
<1>5. \/ used = 2 /\ filesize = Size
      \/ used = 1 /\ taken = 1 /\ CutShort
  BY <1>1 DEF IInv, Upload
<1>6. /\ new \in [of : Clients \cup {NoClient}, bytes : Seq(Int)]
      /\ new.of = cur
      /\ new.bytes = First(n)
  <2> DEFINE f == [of |-> cur, bytes |-> <<>>]
  <2>1. f \in [of : Clients \cup {NoClient}, bytes : Seq(Int)]
    BY <1>1
  <2>2. /\ FirstLeft \in Int /\ FirstLeft + n - 1 \in Int
        /\ (FirstLeft + n - 1) - FirstLeft + 1 = n
    BY <1>1, <1>4 DEF FirstLeft
  <2>3. /\ new \in [of : Clients \cup {NoClient}, bytes : Seq(Int)]
        /\ new.of = f.of
        /\ new.bytes = f.bytes \o
             [k \in 1..(FirstLeft + n - 1) - FirstLeft + 1 |-> FirstLeft + k - 1]
    BY <1>4, <2>1, <2>2, WithBytesIs, Zenon
  <2>4. [k \in 1..(FirstLeft + n - 1) - FirstLeft + 1 |-> FirstLeft + k - 1] = First(n)
    <3>1. CASE used = 2
      BY <1>4, <2>2, <3>1 DEF First, FirstLeft
    <3>2. CASE used = 1 /\ taken = 1
      BY <1>4, <2>2, <3>2 DEF First, FirstLeft, Avail
    <3> QED BY <1>5, <3>1, <3>2
  <2>5. <<>> \o First(n) = First(n)
    BY <1>4, FirstIs, ConcatEmptySeq
  <2> QED BY <2>3, <2>4, <2>5
<1> HIDE DEF new
<1>7. used' \in 0..taken
  BY <1>1, <1>2, <1>4 DEF Avail
<1>8. Types'
  BY <1>1, <1>2, <1>6, <1>7 DEF Types
<1>9. disk'[Name] = new /\ \A m \in Names \ {Name} : disk'[m] = disk[m]
  BY <1>1, <1>2 DEF Types
<1>10. cur \notin lossy' =>
         /\ n <= Size
         /\ \/ filesize = Size /\ (n < Size => taken = 2 + n)
            \/ n = 0 /\ CutShort
  <2>1. CASE used = 2 /\ filesize = Size
    BY <1>1, <1>2, <1>4, <2>1 DEF Avail
  <2>2. CASE used = 1 /\ taken = 1 /\ CutShort
    BY <1>1, <1>4, <2>2 DEF Avail
  <2> QED BY <1>5, <2>1, <2>2
<1>11. Contents'
  <2> SUFFICES ASSUME NEW m \in Names, disk'[m] # NoFile
               PROVE  /\ disk'[m].of \in Clients
                      /\ disk'[m].of \notin lossy' => \A k \in DOMAIN disk'[m].bytes :
                             disk'[m].bytes[k] \in 1..job[disk'[m].of].size
    BY <1>1 DEF Contents
  <2>1. CASE m = Name
    <3>1. DOMAIN new.bytes = 1..n /\ \A k \in 1..n : new.bytes[k] = k
      BY <1>4, <1>6, FirstIs
    <3> QED BY <1>1, <1>4, <1>6, <1>9, <1>10, <2>1, <3>1 DEF Size
  <2>2. CASE m # Name
    BY <1>2, <1>9, <2>2 DEF IInv, Contents
  <2> QED BY <2>1, <2>2
<1>12. WholeFiles'
  <2>1. \A m \in Names : ~Unsettled(m)
    BY <1>1 DEF Unsettled
  <2>2. ASSUME NEW m \in Names, m = Name PROVE Unsettled(m)'
    BY <1>1, <1>2, <2>2, TransferAssumption DEF Unsettled, Name
  <2>3. \A m \in Names \ {Name}, c \in Clients : IsWhole(m, c) => IsWhole(m, c)'
    BY <1>1, <1>9 DEF IsWhole
  <2>4. lossy \subseteq lossy'
    BY <1>2
  <2>5. ASSUME NEW m \in Names \ {Name}
        PROVE  \/ disk'[m] = NoFile \/ disk'[m].of \in lossy'
               \/ \E c \in Clients : job'[c].name = m /\ IsWhole(m, c)'
    BY <1>1, <1>9, <2>1, <2>3, <2>4, <2>5 DEF IInv, WholeFiles
  <2> QED BY <2>2, <2>5 DEF WholeFiles
<1>13. ServedOnce' /\ EndsAreFinal'
  BY <1>1, ServiceKeeps
<1>14. Upload'
  <2>1. file' = new
    BY <1>1, <1>9 DEF file, Name
  <2>2. CutShort' = CutShort /\ Size' = Size
    BY <1>1 DEF CutShort, Size
  <2>3. ASSUME cur \notin lossy' PROVE \E len \in Nat : InStep(len)'
    <3>1. PICK len \in Nat : len = n
      BY <1>4
    <3>2. InStep(len)'
      BY <1>1, <1>6, <1>10, <2>1, <2>2, <2>3, <3>1 DEF InStep
    <3> QED BY <3>2
  <2> QED BY <1>1, <1>2, <1>4, <1>6, <2>1, <2>3 DEF Upload
<1> QED BY <1>8, <1>11, <1>12, <1>13, <1>14 DEF IInv

\* An upload that fails is unsettled until its file is removed.
LEMMA FailureKeeps ==
  ASSUME IInv, OpenFails \/ ReceiveEnds \/ WriteFails
  PROVE  IInv'
<1> USE DEF clientVars, netVars
<1>1. /\ spc \in {"open", "receive"} /\ spc' = "result" /\ res' = -1
      /\ cur \in Clients /\ taken' \in {taken, taken + 1}
      /\ UNCHANGED <<clientVars, netVars, hungup, backlog, cur, used, filesize, disk, told,
                     lossy>>
  BY DEF OpenFails, ReceiveEnds, WriteFails, IInv, Types
<1>2. Types'
  <2>1. taken' \in Nat /\ used \in 0..taken'
    BY <1>1 DEF IInv, Types
  <2> QED BY <1>1, <2>1 DEF IInv, Types
<1>3. Contents' /\ WholeFiles'
  BY <1>1, FilesKeep DEF Unsettled
<1>4. ServedOnce' /\ EndsAreFinal'
  BY <1>1, ServiceKeeps
<1>5. Upload'
  BY <1>1 DEF Upload
<1> QED BY <1>2, <1>3, <1>4, <1>5 DEF IInv

\* recv() brings the bytes that follow.
LEMMA ReceiveKeeps ==
  ASSUME IInv, NEW k \in 1..MaxSize, Receive(k)
  PROVE  IInv'
<1> USE DEF clientVars, netVars
<1> DEFINE new == WithBytes(file, taken - 1, taken + k - 2)
<1>1. /\ spc = "receive" /\ cur \in Clients /\ Types /\ Name \in Names
      /\ Size \in Nat /\ k \in Nat /\ k >= 1
      /\ taken \in Nat /\ used \in 0..taken /\ filesize \in Nat
      /\ file \in [of : Clients \cup {NoClient}, bytes : Seq(Int)]
      /\ UNCHANGED <<clientVars, netVars, hungup, backlog, spc, cur, used, filesize, res,
                     told, lossy>>
  <2>1. spc = "receive" /\ cur \in Clients /\ Types
    BY DEF Receive, IInv, Types
  <2>2. Name \in Names /\ Size \in 0..MaxSize
    BY <2>1 DEF Types, Name, Size
  <2>3. file \in [of : Clients \cup {NoClient}, bytes : Seq(Int)]
    BY <2>1, <2>2 DEF Types, Name, file
  <2>4. UNCHANGED <<clientVars, netVars, hungup, backlog, spc, cur, used, filesize, res,
                    told, lossy>>
    BY DEF Receive
  <2>5. Size \in Nat /\ k \in Nat /\ k >= 1 /\ filesize \in Nat
    BY <2>1, <2>2, TransferAssumption DEF Types
  <2> QED BY <2>1, <2>2, <2>3, <2>4, <2>5 DEF Types
<1>2. disk' = [disk EXCEPT ![Name] = new] /\ taken' = taken + k
  BY DEF Receive, file, Name
<1>3. /\ new \in [of : Clients \cup {NoClient}, bytes : Seq(Int)]
      /\ new.of = file.of
      /\ new.bytes = file.bytes \o
           [x \in 1..(taken + k - 2) - (taken - 1) + 1 |-> (taken - 1) + x - 1]
  <2>1. taken - 1 \in Int /\ taken + k - 2 \in Int /\ (taken + k - 2) - (taken - 1) + 1 = k
    BY <1>1
  <2> QED BY <1>1, <2>1, WithBytesIs, Zenon
<1>4. file.of = cur
  BY <1>1 DEF IInv, Upload
<1>5. ASSUME cur \notin lossy
      PROVE  \E len \in Nat : /\ new.bytes = First(len) /\ len <= Size /\ filesize = Size
                              /\ taken + k = 2 + len
  <2>1. PICK len \in Nat : InStep(len)
    BY <1>1, <1>5 DEF IInv, Upload
  <2>2. Len(file.bytes) = len
    BY <2>1, FirstIs DEF InStep
  <2>3. taken # out[cur] /\ len < filesize /\ k <= filesize - len
    BY <1>1, <2>2 DEF Receive, ToRecv, IInv, Types
  <2>4. filesize = Size /\ taken = 2 + len
    BY <2>1, <2>3 DEF InStep, CutShort
  <2>5. taken - 1 = len + 1 /\ taken + k - 2 = len + k
    BY <1>1, <2>4
  <2>6. new.bytes = First(len) \o [x \in 1..(len + k) - (len + 1) + 1 |-> (len + 1) + x - 1]
    BY <1>3, <2>1, <2>5 DEF InStep
  <2>7. new.bytes = First(len + k)
    BY <1>1, <2>6, FirstAndNext
  <2>8. len + k \in Nat /\ len + k <= Size /\ taken + k = 2 + (len + k)
    BY <1>1, <2>3, <2>4
  <2> QED BY <2>4, <2>7, <2>8
<1> HIDE DEF new
<1>6. Types'
  <2>1. taken + k \in Nat /\ used \in 0..taken + k
    BY <1>1
  <2> QED BY <1>1, <1>2, <1>3, <2>1 DEF Types
<1>7. disk'[Name] = new /\ \A m \in Names \ {Name} : disk'[m] = disk[m]
  BY <1>1, <1>2 DEF Types
<1>8. Contents'
  <2> SUFFICES ASSUME NEW m \in Names, disk'[m] # NoFile
               PROVE  /\ disk'[m].of \in Clients
                      /\ disk'[m].of \notin lossy => \A x \in DOMAIN disk'[m].bytes :
                             disk'[m].bytes[x] \in 1..job[disk'[m].of].size
    BY <1>1 DEF Contents
  <2>1. CASE m = Name
    <3>1. ASSUME cur \notin lossy
          PROVE  \A x \in DOMAIN new.bytes : new.bytes[x] \in 1..Size
      <4>1. PICK len \in Nat : new.bytes = First(len) /\ len <= Size
        BY <1>5, <3>1
      <4>2. DOMAIN new.bytes = 1..len /\ \A x \in 1..len : new.bytes[x] = x
        BY <4>1, FirstIs
      <4> QED BY <1>1, <4>1, <4>2
    <3> QED BY <1>1, <1>3, <1>4, <1>7, <2>1, <3>1 DEF Size
  <2>2. CASE m # Name
    BY <1>7, <2>2 DEF IInv, Contents
  <2> QED BY <2>1, <2>2
<1>9. WholeFiles'
  <2>1. \A m \in Names \ {Name} : ~Unsettled(m)
    BY DEF Unsettled, Name
  <2>2. ASSUME NEW m \in Names, m = Name PROVE Unsettled(m)'
    BY <1>1, <2>2, TransferAssumption DEF Unsettled, Name
  <2>3. \A m \in Names \ {Name}, c \in Clients : IsWhole(m, c) => IsWhole(m, c)'
    BY <1>1, <1>7 DEF IsWhole
  <2>4. ASSUME NEW m \in Names \ {Name}
        PROVE  \/ disk'[m] = NoFile \/ disk'[m].of \in lossy'
               \/ \E c \in Clients : job'[c].name = m /\ IsWhole(m, c)'
    BY <1>1, <1>7, <2>1, <2>3, <2>4 DEF IInv, WholeFiles
  <2> QED BY <2>2, <2>4 DEF WholeFiles
<1>10. ServedOnce' /\ EndsAreFinal'
  BY <1>1, ServiceKeeps
<1>11. Upload'
  <2>1. file' = new
    BY <1>1, <1>7 DEF file, Name
  <2>2. ASSUME cur \notin lossy PROVE \E len \in Nat : InStep(len)'
    <3>1. PICK len \in Nat : /\ new.bytes = First(len) /\ len <= Size /\ filesize = Size
                             /\ taken + k = 2 + len
      BY <1>5, <2>2
    <3>2. InStep(len)'
      BY <1>1, <1>2, <2>1, <3>1 DEF InStep, Size
    <3> QED BY <3>2
  <2> QED BY <1>1, <1>3, <1>4, <2>1, <2>2 DEF Upload
<1> QED BY <1>6, <1>8, <1>9, <1>10, <1>11 DEF IInv

\* The file is complete, or some bytes of it are lost in fclose().
LEMMA ReceiveAllKeeps ==
  ASSUME IInv, ReceiveAll
  PROVE  IInv'
<1> USE DEF clientVars, netVars
<1>1. /\ spc = "receive" /\ cur \in Clients /\ Types
      /\ Name \in Names /\ Size \in Nat
      /\ file \in [of : Clients \cup {NoClient}, bytes : Seq(Int)] /\ file.of = cur
  <2>1. spc = "receive" /\ cur \in Clients /\ Types
    BY DEF ReceiveAll, IInv, Types
  <2>2. Name \in Names /\ Size \in 0..MaxSize
    BY <2>1 DEF Types, Name, Size
  <2>3. file \in [of : Clients \cup {NoClient}, bytes : Seq(Int)]
    BY <2>1, <2>2 DEF Types, Name, file
  <2>4. file.of = cur
    BY <2>1 DEF IInv, Upload
  <2> QED BY <2>1, <2>2, <2>3, <2>4
<1>2. /\ spc' = "result" /\ res' = IF Len(file.bytes) = filesize THEN 0 ELSE -1
      /\ UNCHANGED <<clientVars, netVars, hungup, backlog, cur, taken, used, filesize, told>>
  BY DEF ReceiveAll
<1>3. /\ disk'[Name].of = cur
      /\ \A m \in Names \ {Name} : disk'[m] = disk[m]
      /\ disk' \in [Names -> [of : Clients \cup {NoClient}, bytes : Seq(Int)]]
      /\ lossy \subseteq lossy'
      /\ cur \notin lossy' => disk' = disk /\ lossy' = lossy
  <2>1. CASE UNCHANGED <<disk, lossy>>
    BY <1>1, <2>1 DEF Types, file, Name
  <2>2. CASE ~UNCHANGED <<disk, lossy>>
    <3>1. PICK n \in 0..Len(file.bytes) - 1 :
             disk' = [disk EXCEPT ![Name].bytes = SubSeq(file.bytes, 1, n)]
      BY <2>2 DEF ReceiveAll, file, Name
    <3>2. lossy' = lossy \cup {cur}
      BY <2>2 DEF ReceiveAll
    <3>3. SubSeq(file.bytes, 1, n) \in Seq(Int)
      BY <1>1
    <3>4. [disk[Name] EXCEPT !.bytes = SubSeq(file.bytes, 1, n)]
             \in [of : Clients \cup {NoClient}, bytes : Seq(Int)]
      BY <1>1, <3>3 DEF file, Name
    <3>5. disk' = [disk EXCEPT ![Name] = [disk[Name] EXCEPT !.bytes = SubSeq(file.bytes, 1, n)]]
      BY <3>1
    <3>6. disk'[Name].of = cur
      BY <1>1, <3>5 DEF Types, file, Name
    <3> QED BY <1>1, <3>2, <3>4, <3>5, <3>6 DEF Types
  <2> QED BY <2>1, <2>2
<1>4. Types'
  BY <1>1, <1>2, <1>3 DEF Types
<1>5. cur \notin lossy' /\ res' = 0 => IsWhole(Name, cur) /\ disk' = disk
  <2> SUFFICES ASSUME cur \notin lossy', res' = 0 PROVE IsWhole(Name, cur) /\ disk' = disk
    OBVIOUS
  <2>1. cur \notin lossy /\ disk' = disk
    BY <1>3
  <2>2. PICK len \in Nat : InStep(len)
    BY <1>1, <2>1 DEF IInv, Upload
  <2>3. Len(file.bytes) = len /\ Len(file.bytes) = filesize
    BY <1>2, <2>2, FirstIs DEF InStep
  <2>4. len = Size
    BY <1>1, <2>2, <2>3 DEF InStep, CutShort
  <2>5. file = [of |-> cur, bytes |-> First(Size)]
    BY <1>1, <2>2, <2>4 DEF InStep
  <2> QED BY <2>1, <2>5 DEF IsWhole, First, Size, file, Name
<1>6. Contents'
  <2> SUFFICES ASSUME NEW m \in Names, disk'[m] # NoFile
               PROVE  /\ disk'[m].of \in Clients
                      /\ disk'[m].of \notin lossy' => \A k \in DOMAIN disk'[m].bytes :
                             disk'[m].bytes[k] \in 1..job[disk'[m].of].size
    BY <1>2 DEF Contents
  <2>1. CASE m = Name
    BY <1>1, <1>3, <2>1 DEF IInv, Contents
  <2>2. CASE m # Name
    BY <1>3, <2>2 DEF IInv, Contents
  <2> QED BY <2>1, <2>2
<1>7. WholeFiles'
  <2>1. ASSUME NEW m \in Names, m = Name
        PROVE  \/ Unsettled(m)' \/ disk'[m].of \in lossy'
               \/ \E c \in Clients : job'[c].name = m /\ IsWhole(m, c)'
    <3>1. CASE res' # 0
      BY <1>1, <1>2, <2>1, <3>1, TransferAssumption DEF Unsettled, Name
    <3>2. CASE cur \in lossy'
      BY <1>3, <2>1, <3>2
    <3>3. CASE res' = 0 /\ cur \notin lossy'
      BY <1>1, <1>2, <1>5, <2>1, <3>3 DEF IsWhole, Name
    <3> QED BY <3>1, <3>2, <3>3
  <2>2. ASSUME NEW m \in Names \ {Name}
        PROVE  \/ disk'[m] = NoFile \/ disk'[m].of \in lossy'
               \/ \E c \in Clients : job'[c].name = m /\ IsWhole(m, c)'
    <3>1. ~Unsettled(m)
      BY DEF Unsettled, Name
    <3>2. \A c \in Clients : IsWhole(m, c) => IsWhole(m, c)'
      BY <1>2, <1>3 DEF IsWhole
    <3> QED BY <1>2, <1>3, <3>1, <3>2 DEF IInv, WholeFiles
  <2> QED BY <2>1, <2>2 DEF WholeFiles
<1>8. ServedOnce' /\ EndsAreFinal'
  BY <1>1, <1>2, ServiceKeeps
<1>9. Upload'
  <2>1. file'.of = cur
    BY <1>2, <1>3 DEF file, Name
  <2>2. res' = 0 /\ cur \notin lossy' => IsWhole(Name, cur)'
    BY <1>2, <1>5 DEF IsWhole, Name
  <2> QED BY <1>2, <2>1, <2>2 DEF Upload
<1> QED BY <1>4, <1>6, <1>7, <1>8, <1>9 DEF IInv

\* The client is told, and the file of a failed upload is removed.
LEMMA ResultKeeps ==
  ASSUME IInv, Result
  PROVE  IInv'
<1> USE DEF clientVars, netVars
<1>1. /\ spc = "result" /\ cur \in Clients /\ Types /\ Name \in Names
      /\ UNCHANGED <<clientVars, hungup, backlog, cur, taken, used, filesize, res, lossy>>
      /\ disk' = IF res = 0 THEN disk ELSE [disk EXCEPT ![Name] = NoFile]
      /\ told' = IF res = 0 THEN told \cup {cur} ELSE told
  BY DEF Result, RemovedFile, IInv, Types, Name
<1>2. PICK m \in Messages : Sends(m, "close")
  BY DEF Result, Messages
<1>3. /\ link' \in [Clients -> {"open", "closed", "reset"}]
      /\ down' \in [Clients -> Seq(Messages)]
      /\ spc' \in {"close", "dead"}
  BY <1>1, <1>2, SendsType
<1>4. NoFile \in [of : Clients \cup {NoClient}, bytes : Seq(Int)]
  BY DEF NoFile
<1>5. Types'
  BY <1>1, <1>3, <1>4 DEF Types
<1>6. \A n \in Names : disk'[n] = disk[n] \/ disk'[n] = NoFile
  BY <1>1 DEF Types
<1>7. Contents'
  BY <1>1, <1>6 DEF IInv, Contents
<1>8. WholeFiles'
  <2> SUFFICES ASSUME NEW n \in Names, disk'[n] # NoFile
               PROVE  \/ disk'[n].of \in lossy'
                      \/ \E c \in Clients : job'[c].name = n /\ IsWhole(n, c)'
    BY DEF WholeFiles
  <2>1. disk'[n] = disk[n]
    BY <1>6
  <2>2. ~Unsettled(n)
    BY <1>1, <2>1 DEF Unsettled, Name, Types
  <2>3. \A c \in Clients : IsWhole(n, c) => IsWhole(n, c)'
    BY <1>1, <2>1 DEF IsWhole
  <2> QED BY <1>1, <2>1, <2>2, <2>3 DEF IInv, WholeFiles
<1>9. ServedOnce'
  <2>1. told' \subseteq told \cup {cur}
    BY <1>1
  <2>2. \A c \in Clients : cpc[c] = "new" => c \notin told' /\ c # cur
    BY <2>1 DEF IInv, ServedOnce
  <2>3. \A k \in 1..Len(backlog) : backlog[k] \notin told'
    BY <2>1 DEF IInv, ServedOnce
  <2> QED BY <1>1, <1>3, <2>2, <2>3 DEF IInv, ServedOnce
<1>10. EndsAreFinal' /\ Upload'
  BY <1>1, <1>3 DEF IInv, EndsAreFinal, Upload
<1> QED BY <1>5, <1>7, <1>8, <1>9, <1>10 DEF IInv

\* The connection is closed.
LEMMA CloseKeeps ==
  ASSUME IInv, Close
  PROVE  IInv'
<1> USE DEF clientVars, netVars
<1>1. /\ spc = "close" /\ spc' = "accept" /\ cur' = NoClient /\ res' = 0 /\ filesize' = 0
      /\ UNCHANGED <<clientVars, link, backlog, taken, used, disk, told, lossy>>
      /\ down' \in {down, [down EXCEPT ![cur] = <<>>]}
      /\ Types
  BY DEF Close, IInv
<1>2. Types'
  <2>1. down' \in [Clients -> Seq(Messages)]
    <3>1. <<>> \in Seq(Messages)
      OBVIOUS
    <3> QED BY <1>1, <3>1 DEF Types
  <2>2. filesize' \in 0..MaxSize /\ res' \in {0, -1}
    BY <1>1, TransferAssumption
  <2> QED BY <1>1, <2>1, <2>2 DEF Types
<1>3. Contents' /\ WholeFiles'
  BY <1>1, FilesKeep DEF Unsettled
<1>4. ServedOnce'
  <2>1. \A k \in 1..Len(backlog) : backlog[k] # NoClient
    BY TransferAssumption DEF IInv, ServedOnce
  <2> QED BY <1>1, <2>1, TransferAssumption DEF IInv, ServedOnce
<1>5. EndsAreFinal' /\ Upload'
  BY <1>1 DEF IInv, EndsAreFinal, Upload
<1> QED BY <1>2, <1>3, <1>4, <1>5 DEF IInv

-----------------------------------------------------------------------------
(* The invariant, and what follows from it. *)

\* There are no files and no clients at the start.
LEMMA InitInv == Init => IInv
<1> SUFFICES ASSUME Init PROVE IInv
  OBVIOUS
<1>1. Types
  <2>1. /\ job \in [Clients -> [name : Names, size : 0..MaxSize]]
        /\ cpc = [c \in Clients |-> "new"] /\ out = [c \in Clients |-> 0]
        /\ shut = [c \in Clients |-> FALSE]
        /\ link = [c \in Clients |-> "open"]
        /\ spc = "accept" /\ taken = 0 /\ used = 0 /\ res = 0
    BY DEF Init
  <2>2. down \in [Clients -> Seq(Messages)]
    <3>1. <<>> \in Seq(Messages)
      OBVIOUS
    <3> QED BY <3>1 DEF Init
  <2>3. disk \in [Names -> [of : Clients \cup {NoClient}, bytes : Seq(Int)]]
    <3>1. NoFile \in [of : Clients \cup {NoClient}, bytes : Seq(Int)]
      BY DEF NoFile
    <3> QED BY <3>1 DEF Init
  <2>4. filesize \in 0..MaxSize
    BY TransferAssumption DEF Init
  <2> QED BY <2>1, <2>2, <2>3, <2>4 DEF Types
<1>2. Contents /\ WholeFiles
  BY DEF Init, Contents, WholeFiles
<1>3. ServedOnce
  <2>1. backlog \in Seq(Clients) /\ Len(backlog) = 0
    BY DEF Init
  <2>2. 1..Len(backlog) = {}
    BY <2>1
  <2> QED BY <2>1, <2>2, TransferAssumption DEF Init, ServedOnce
<1>4. EndsAreFinal /\ Upload
  BY DEF Init, EndsAreFinal, Upload
<1> QED BY <1>1, <1>2, <1>3, <1>4 DEF IInv

\* Every step keeps the invariant.
LEMMA NextInv == IInv /\ [Next]_vars => IInv'
<1> SUFFICES ASSUME IInv, [Next]_vars PROVE IInv'
  OBVIOUS
<1>1. CASE \E c \in Clients : ClientStep(c) \/ UserStep(c)
  BY <1>1, ClientKeeps
<1>2. CASE ServerStep
  BY <1>2, AcceptKeeps, AnswerKeeps, LineKeeps, OpenFileKeeps, FailureKeeps, ReceiveKeeps,
     ReceiveAllKeeps, ResultKeeps, CloseKeeps DEF ServerStep
<1>3. CASE UNCHANGED vars
  BY <1>3 DEF vars, clientVars, netVars, serverVars, IInv, Types, Contents, ServedOnce,
     EndsAreFinal, Upload, WholeFiles, InStep, CutShort, IsWhole, Unsettled, Name, Size, file
<1> QED BY <1>1, <1>2, <1>3 DEF Next, Quiet

\* IInv is an invariant.
LEMMA InvHolds == Spec => []IInv
BY InitInv, NextInv, PTL DEF Spec

\* The type invariant: in particular a file holds none but bytes of the upload it was
\* opened for, whoever breaks off and whatever fails.
THEOREM TransferTyping == Spec => []TransferTypeOK
<1>1. IInv => TransferTypeOK
  BY DEF IInv, Types, Contents, TransferTypeOK
<1> QED BY <1>1, InvHolds, PTL

\* A file in the directory is a whole upload, unless it is being written, or the
\* server lost bytes of it unnoticed.
THEOREM WholeFilesHolds == Spec => []WholeFiles
BY InvHolds, PTL DEF IInv

-----------------------------------------------------------------------------
(* The server implements UploadStore. *)

\* Whose whole file a name holds.
Stored ==
  [n \in Names |->
     IF \E c \in Clients : IsWhole(n, c) /\ ~Unsettled(n) THEN disk[n].of ELSE NoClient]

\* What Stored holds is the client whose whole file it is.
LEMMA StoredIs ==
  ASSUME NEW n \in Names
  PROVE  /\ \A c \in Clients : IsWhole(n, c) /\ ~Unsettled(n) => Stored[n] = c
         /\ Unsettled(n) => Stored[n] = NoClient
         /\ (\A c \in Clients : ~IsWhole(n, c)) => Stored[n] = NoClient
<1>1. Stored[n] = IF \E c \in Clients : IsWhole(n, c) /\ ~Unsettled(n)
                    THEN disk[n].of ELSE NoClient
  BY DEF Stored
<1>2. \A c \in Clients : IsWhole(n, c) => disk[n].of = c
  BY DEF IsWhole
<1> QED BY <1>1, <1>2

\* A file that is left as it is, is stored as it was.
LEMMA SameStored ==
  ASSUME NEW n \in Names, UNCHANGED job, disk'[n] = disk[n], Unsettled(n)' <=> Unsettled(n)
  PROVE  Stored'[n] = Stored[n]
BY DEF Stored, IsWhole

\* When at most one name is stored differently, it is that name that changes.
LEMMA StoredAt ==
  ASSUME NEW n \in Names, \A m \in Names \ {n} : Stored'[m] = Stored[m]
  PROVE  Stored' = [Stored EXCEPT ![n] = Stored'[n]]
<1>1. Stored = [m \in Names |-> Stored[m]] /\ Stored' = [m \in Names |-> Stored'[m]]
  BY DEF Stored
<1> HIDE DEF Stored
<1> QED BY <1>1

\* A stutter of the store.
LEMMA Stutters ==
  ASSUME UNCHANGED job, \A m \in Names : Stored'[m] = Stored[m],
         told' \ lossy' = told \ lossy
  PROVE  [Store!Next]_(Store!vars)
<1>1. Stored = [m \in Names |-> Stored[m]] /\ Stored' = [m \in Names |-> Stored'[m]]
  BY DEF Stored
<1>2. Stored' = Stored
  <2> HIDE DEF Stored
  <2> QED BY <1>1
<1> QED BY <1>2 DEF Store!vars, Stored

\* A step that leaves the files and what the clients were told as they are, and begins
\* and ends no upload, is a stutter of the store.
LEMMA Unseen ==
  ASSUME UNCHANGED <<job, disk, told, lossy>>,
         \A m \in Names : Unsettled(m)' <=> Unsettled(m)
  PROVE  [Store!Next]_(Store!vars)
<1>1. \A m \in Names : Stored'[m] = Stored[m]
  BY SameStored
<1> QED BY <1>1, Stutters

\* What name n held is given up.
LEMMA GivesUp ==
  ASSUME UNCHANGED job, NEW n \in Names, \A m \in Names \ {n} : Stored'[m] = Stored[m],
         Stored'[n] = NoClient, told' \ lossy' = told \ lossy
  PROVE  [Store!Next]_(Store!vars)
<1>1. Stored' = [Stored EXCEPT ![n] = NoClient]
  BY StoredAt
<1>2. Store!GiveUp(n)
  BY <1>1 DEF Store!GiveUp, Stored
<1> QED BY <1>2 DEF Store!Next

\* The upload of client c is stored.
LEMMA Stores ==
  ASSUME UNCHANGED job, NEW c \in Clients, NEW n \in Names, n = job[c].name,
         \A m \in Names \ {n} : Stored'[m] = Stored[m],
         Stored[n] = NoClient, Stored'[n] = c, told' \ lossy' = told \ lossy
  PROVE  [Store!Next]_(Store!vars)
<1>1. Stored' = [Stored EXCEPT ![n] = c]
  BY StoredAt
<1>2. Store!Store(c)
  BY <1>1 DEF Store!Store, Stored
<1> QED BY <1>2 DEF Store!Next

\* Client c is told that its upload is stored.
LEMMA Reports ==
  ASSUME UNCHANGED job, NEW c \in Clients, NEW n \in Names, n = job[c].name,
         \A m \in Names : Stored'[m] = Stored[m],
         Stored[n] = c, told' \ lossy' = (told \ lossy) \cup {c}
  PROVE  [Store!Next]_(Store!vars)
<1>1. Stored = [m \in Names |-> Stored[m]] /\ Stored' = [m \in Names |-> Stored'[m]]
  BY DEF Stored
<1>2. Stored' = Stored
  <2> HIDE DEF Stored
  <2> QED BY <1>1
<1>3. Store!Report(c)
  BY <1>2 DEF Store!Report, Stored
<1> QED BY <1>3 DEF Store!Next

\* Clients, and the steps in which the server talks to them, are not seen.
LEMMA TalkIsUnseen ==
  ASSUME IInv, \/ \E c \in Clients : ClientStep(c) \/ UserStep(c)
               \/ UNCHANGED vars
               \/ Accept \/ Welcome \/ FillBuf \/ TakeLine \/ LineEnds
               \/ RejectCommand \/ Confirm \/ Close
  PROVE  [Store!Next]_(Store!vars)
<1> USE DEF vars, clientVars, netVars, serverVars, Unsettled
<1>1. CASE \E c \in Clients : ClientStep(c) \/ UserStep(c)
  <2>1. UNCHANGED <<job, disk, told, lossy, cur, spc, res>>
    BY <1>1 DEF ClientStep, UserStep, ReadWelcome, ReadReply, ReadResult, ReadLine,
       ReadNothing, SendData, FinishUpload, Leave, Connect, SendCommand, Quit, SendForeign
  <2> QED BY <2>1, Unseen
<1>2. CASE UNCHANGED vars
  BY <1>2, Unseen
<1>3. CASE \/ Accept \/ Welcome \/ FillBuf \/ TakeLine \/ LineEnds
           \/ RejectCommand \/ Confirm \/ Close
  <2>1. /\ UNCHANGED <<job, disk, told, lossy>>
        /\ spc \notin {"receive", "result"} /\ spc' \notin {"receive", "result"}
    <3>1. CASE Accept \/ Close
      BY <3>1 DEF Accept, Close
    <3>2. CASE Welcome \/ RejectCommand \/ Confirm
      BY <3>2 DEF Welcome, RejectCommand, Confirm, Sends, Killed
    <3>3. CASE FillBuf \/ TakeLine \/ LineEnds
      BY <3>3 DEF FillBuf, TakeLine, LineEnds, Parse
    <3> QED BY <1>3, <3>1, <3>2, <3>3
  <2> QED BY <2>1, Unseen
<1> QED BY <1>1, <1>2, <1>3

\* Opening the file, or failing to, gives up what its name held.
LEMMA OpenGivesUp ==
  ASSUME IInv, IInv', OpenFile \/ OpenFails
  PROVE  [Store!Next]_(Store!vars)
<1> DEFINE n == job[cur].name
<1> USE DEF clientVars, netVars
<1>1. /\ spc = "open" /\ (spc' = "receive" \/ (spc' = "result" /\ res' = -1))
      /\ UNCHANGED <<job, cur, told>>
      /\ cur \in Clients /\ n \in Names /\ cur \notin told
      /\ lossy' \in {lossy, lossy \cup {cur}}
      /\ disk \in [Names -> [of : Clients \cup {NoClient}, bytes : Seq(Int)]]
  BY DEF OpenFile, OpenFails, IInv, Types, ServedOnce
<1>2. \A m \in Names \ {n} : disk'[m] = disk[m]
  BY <1>1 DEF OpenFile, OpenFails
<1>3. \A m \in Names \ {n} : ~Unsettled(m) /\ ~Unsettled(m)'
  BY <1>1 DEF Unsettled
<1>4. \A m \in Names \ {n} : Stored'[m] = Stored[m]
  BY <1>1, <1>2, <1>3, SameStored
<1>5. ASSUME NEW m \in Names, m = n PROVE Stored'[m] = NoClient
  <2>1. Unsettled(m)'
    BY <1>1, <1>5, TransferAssumption DEF Unsettled
  <2> QED BY <2>1 DEF Stored
<1>6. told' \ lossy' = told \ lossy
  BY <1>1
<1> QED BY <1>1, <1>4, <1>5, <1>6, GivesUp

\* While the upload goes on its name holds nothing.
LEMMA ReceivingIsUnseen ==
  ASSUME IInv, (\E k \in 1..MaxSize : Receive(k)) \/ ReceiveEnds \/ WriteFails
  PROVE  [Store!Next]_(Store!vars)
<1> DEFINE n == job[cur].name
<1> USE DEF clientVars, netVars
<1>1. /\ spc = "receive" /\ (spc' = "receive" \/ (spc' = "result" /\ res' = -1))
      /\ UNCHANGED <<job, cur, told, lossy>>
      /\ cur \in Clients /\ n \in Names
      /\ disk \in [Names -> [of : Clients \cup {NoClient}, bytes : Seq(Int)]]
  BY DEF Receive, ReceiveEnds, WriteFails, IInv, Types
<1>2. \A m \in Names \ {n} : disk'[m] = disk[m]
  BY <1>1 DEF Receive, ReceiveEnds, WriteFails
<1>3. \A m \in Names : Unsettled(m) <=> m = n
  BY <1>1, TransferAssumption DEF Unsettled
<1>4. \A m \in Names : Unsettled(m)' <=> m = n
  BY <1>1, TransferAssumption DEF Unsettled
<1>5. \A m \in Names : Stored'[m] = Stored[m]
  <2> TAKE m \in Names
  <2>1. CASE m = n
    BY <1>3, <1>4, <2>1 DEF Stored
  <2>2. CASE m # n
    BY <1>1, <1>2, <1>3, <1>4, <2>2, SameStored
  <2> QED BY <2>1, <2>2
<1> QED BY <1>1, <1>5, Stutters

\* The end of the upload stores it, unless bytes were lost or the size is wrong.
LEMMA ReceiveAllStores ==
  ASSUME IInv, IInv', ReceiveAll
  PROVE  [Store!Next]_(Store!vars)
<1> DEFINE n == job[cur].name
<1> USE DEF clientVars, netVars
<1>1. /\ spc = "receive" /\ spc' = "result" /\ res' \in {0, -1}
      /\ UNCHANGED <<job, cur, told>>
      /\ cur \in Clients /\ n \in Names /\ cur \notin told
      /\ lossy' \in {lossy, lossy \cup {cur}}
      /\ disk \in [Names -> [of : Clients \cup {NoClient}, bytes : Seq(Int)]]
  BY DEF ReceiveAll, IInv, Types, ServedOnce
<1>2. \A m \in Names \ {n} : disk'[m] = disk[m]
  BY <1>1 DEF ReceiveAll
<1>3. \A m \in Names : Unsettled(m) <=> m = n
  BY <1>1, TransferAssumption DEF Unsettled
<1>4. \A m \in Names : m # n => ~Unsettled(m)'
  BY <1>1 DEF Unsettled
<1>5. \A m \in Names \ {n} : Stored'[m] = Stored[m]
  BY <1>1, <1>2, <1>3, <1>4, SameStored
<1>6. Stored[n] = NoClient
  BY <1>1, <1>3 DEF Stored
<1>7. told' \ lossy' = told \ lossy
  BY <1>1
<1>8. ASSUME NEW m \in Names, m = n PROVE Stored'[m] \in {NoClient, cur}
  <2>1. CASE res' = 0
    <3>1. disk'[m].of = cur
      BY <1>1, <1>8, <2>1 DEF IInv, Upload, file
    <3> QED BY <3>1 DEF Stored
  <2>2. CASE res' # 0
    <3>1. Unsettled(m)'
      BY <1>1, <1>8, <2>2, TransferAssumption DEF Unsettled
    <3> QED BY <3>1 DEF Stored
  <2> QED BY <2>1, <2>2
<1>9. CASE Stored'[n] = NoClient
  <2>1. \A m \in Names : Stored'[m] = Stored[m]
    BY <1>5, <1>6, <1>9
  <2> QED BY <1>1, <1>7, <2>1, Stutters
<1>10. CASE Stored'[n] = cur
  <2> HIDE DEF Stored
  <2> QED BY <1>1, <1>5, <1>6, <1>7, <1>10, Stores
<1> QED BY <1>1, <1>8, <1>9, <1>10

\* SUCCESS_MSG is a report of an upload that is stored; the file of a failed one, that
\* is removed, was not.
LEMMA ResultReports ==
  ASSUME IInv, Result
  PROVE  [Store!Next]_(Store!vars)
<1> DEFINE n == job[cur].name
<1> USE DEF clientVars, netVars
<1>1. /\ spc = "result" /\ spc' \in {"close", "dead"} /\ res \in {0, -1}
      /\ UNCHANGED <<job, cur, lossy>>
      /\ cur \in Clients /\ n \in Names
      /\ disk' = IF res = 0 THEN disk ELSE RemovedFile
      /\ told' = IF res = 0 THEN told \cup {cur} ELSE told
      /\ disk \in [Names -> [of : Clients \cup {NoClient}, bytes : Seq(Int)]]
  BY DEF Result, Sends, Killed, IInv, Types
<1>2. \A m \in Names : ~Unsettled(m)'
  BY <1>1 DEF Unsettled
<1>3. CASE res # 0
  <2>1. \A m \in Names : Unsettled(m) <=> m = n
    BY <1>1, <1>3, TransferAssumption DEF Unsettled
  <2>2. \A m \in Names \ {n} : disk'[m] = disk[m]
    BY <1>1, <1>3 DEF RemovedFile
  <2>3. \A m \in Names : Stored'[m] = Stored[m]
    <3> TAKE m \in Names
    <3>1. CASE m = n
      <4>1. Stored[m] = NoClient
        BY <2>1, <3>1 DEF Stored
      <4>2. disk'[m] = NoFile
        BY <1>1, <1>3, <3>1 DEF RemovedFile
      <4>3. disk'[m].of = NoClient
        BY <4>2 DEF NoFile
      <4>4. Stored'[m] = NoClient
        BY <4>3 DEF Stored
      <4> QED BY <4>1, <4>4
    <3>2. CASE m # n
      BY <1>1, <1>2, <2>1, <2>2, <3>2, SameStored
    <3> QED BY <3>1, <3>2
  <2> QED BY <1>1, <1>3, <2>3, Stutters
<1>4. CASE res = 0
  <2>1. \A m \in Names : Stored'[m] = Stored[m]
    <3>1. \A m \in Names : ~Unsettled(m)
      BY <1>1, <1>4 DEF Unsettled
    <3> QED BY <1>1, <1>2, <1>4, <3>1, SameStored
  <2>2. CASE cur \in lossy
    <3>1. told' \ lossy' = told \ lossy
      BY <1>1, <1>4, <2>2
    <3> QED BY <1>1, <2>1, <3>1, Stutters
  <2>3. CASE cur \notin lossy
    <3>1. IsWhole(n, cur)
      BY <1>1, <1>4, <2>3 DEF IInv, Upload, Name
    <3>2. ~Unsettled(n)
      BY <1>1, <1>4 DEF Unsettled
    <3>3. Stored[n] = cur
      BY <1>1, <3>1, <3>2, StoredIs
    <3>4. told' \ lossy' = (told \ lossy) \cup {cur}
      BY <1>1, <1>4, <2>3
    <3> HIDE DEF Stored
    <3> QED BY <1>1, <2>1, <3>3, <3>4, Reports
  <2> QED BY <2>2, <2>3
<1> QED BY <1>3, <1>4

\* Opening the file gives up what its name held, storing it whole is Store, telling the
\* client is Report, and nothing else is seen of the store.
LEMMA StepRefines ==
  ASSUME IInv, IInv', [Next]_vars
  PROVE  [Store!Next]_(Store!vars)
<1>1. CASE \/ \E c \in Clients : ClientStep(c) \/ UserStep(c)
           \/ UNCHANGED vars
  BY <1>1, TalkIsUnseen
<1>2. CASE ServerStep
  BY <1>2, TalkIsUnseen, OpenGivesUp, ReceivingIsUnseen, ReceiveAllStores, ResultReports
     DEF ServerStep
<1> QED BY <1>1, <1>2 DEF Next, Quiet

\* A client is told of success only while its whole file is stored under its name, and
\* only the next upload to that name takes it away.  Clients some bytes of whose file
\* the server lost unnoticed are not promised anything.
THEOREM TransferRefinesStore == Spec => ImplementsStore
<1>1. Init => Store!Init
  <2> SUFFICES ASSUME Init PROVE Store!Init
    OBVIOUS
  <2>1. /\ job \in [Clients -> [name : Names, size : 0..MaxSize]]
        /\ told = {} /\ lossy = {}
        /\ \A n \in Names : disk[n].of = NoClient
    BY DEF Init, NoFile
  <2> QED BY <2>1 DEF Store!Init
<1>2. IInv /\ IInv' /\ [Next]_vars => [Store!Next]_(Store!vars)
  BY StepRefines
<1> QED BY <1>1, <1>2, InvHolds, PTL DEF Spec, ImplementsStore, Store!Spec

-----------------------------------------------------------------------------
(* Server and clients do not wait for each other. *)

Queued(c) == \E k \in 1..Len(backlog) : backlog[k] = c

\* What the client that is served has sent and has been sent, from one state of the
\* server to the next.
Turn(c) ==
  /\ taken \in 0..out[c]
  /\ spc = "welcome" =>
       /\ cpc[c] \in {"welcome", "foreign", "gone"}
       /\ cpc[c] = "welcome" => down[c] = <<>>
  /\ spc = "line" =>
       \/ cpc[c] = "welcome" /\ down[c] = <<"welcome">>
       \/ cpc[c] = "prompt" /\ down[c] = <<>>
       \/ cpc[c] = "reply" /\ out[c] = 2 /\ down[c] = <<>>
       \/ cpc[c] \in {"foreign", "gone"}
  /\ spc \in {"invalid", "confirm"} =>
       /\ cpc[c] \in {"reply", "foreign", "gone"}
       /\ cpc[c] = "reply" => down[c] = <<>>
  /\ spc \in {"open", "receive", "result"} =>
       \/ cpc[c] = "reply" /\ down[c] # <<>>
       \/ cpc[c] \in {"upload", "result", "leave", "foreign", "gone"}

\* A client comes, waits, is served and hung up on.
Place(c) ==
  /\ cpc[c] = "new" => down[c] = <<>> /\ ~Queued(c) /\ c # cur /\ c \notin hungup
  /\ Queued(c) =>
       /\ c # cur /\ c \notin hungup
       /\ cpc[c] \in {"welcome", "foreign", "gone"}
       /\ cpc[c] = "welcome" => down[c] = <<>>
  /\ cpc[c] # "new" => Queued(c) \/ c = cur \/ c \in hungup
  /\ c = cur => c \notin hungup /\ Turn(c)
  /\ cpc[c] \in {"new", "welcome", "prompt"} => out[c] = 0
  /\ cpc[c] # "gone" => link[c] = "open"
  /\ cpc[c] = "result" => shut[c]

InPlace ==
  spc # "dead" =>
    /\ spc = "accept" <=> cur = NoClient
    /\ \A c \in Clients : Place(c)

\* The part of Place that a step of another client, or of the server for another
\* client, does not touch.
Unmoved(d) ==
  /\ cpc'[d] = cpc[d] /\ out'[d] = out[d] /\ shut'[d] = shut[d]
  /\ down'[d] = down[d] /\ link'[d] = link[d]
  /\ Queued(d)' <=> Queued(d)
  /\ d \in hungup' <=> d \in hungup

LEMMA PlaceKept ==
  ASSUME NEW d \in Clients, Place(d), Unmoved(d),
         \/ UNCHANGED <<spc, cur, taken>>
         \/ d # cur /\ d # cur'
  PROVE  Place(d)'
BY DEF Place, Unmoved, Turn

\* A step of client c.
LEMMA ClientMoves ==
  ASSUME IInv, InPlace, spc # "dead", NEW c \in Clients, ClientStep(c) \/ UserStep(c)
  PROVE  InPlace'
<1> USE DEF clientVars, netVars, serverVars
<1>0. /\ spc = "accept" <=> cur = NoClient
      /\ \A d \in Clients : Place(d)
      /\ Place(c) /\ Types
      /\ cpc \in [Clients -> {"new", "welcome", "prompt", "reply", "upload", "result",
                              "foreign", "leave", "gone"}]
      /\ out \in [Clients -> Nat] /\ shut \in [Clients -> BOOLEAN]
      /\ link \in [Clients -> {"open", "closed", "reset"}]
      /\ down \in [Clients -> Seq(Messages)]
      /\ taken \in Nat /\ out[c] \in Nat
      /\ c = cur => spc \notin {"accept", "dead"}
      /\ spc \in {"accept", "welcome", "line", "invalid", "confirm", "open", "receive",
                  "result", "close", "dead"}
  BY TransferAssumption DEF IInv, Types, InPlace
<1>1. UNCHANGED <<spc, cur, taken, hungup>>
  BY DEF ClientStep, UserStep, ReadWelcome, ReadReply, ReadResult, ReadLine, ReadNothing,
         SendData, FinishUpload, Leave, Connect, SendCommand, Quit, SendForeign
<1>2. ASSUME NEW d \in Clients \ {c}, Queued(d)' <=> Queued(d) PROVE Place(d)'
  <2>1. /\ cpc'[d] = cpc[d] /\ out'[d] = out[d] /\ shut'[d] = shut[d]
        /\ down'[d] = down[d] /\ link'[d] = link[d]
    BY <1>0 DEF ClientStep, UserStep, ReadWelcome, ReadReply, ReadResult, ReadLine,
         ReadNothing, SendData, FinishUpload, Leave, Connect, SendCommand, Quit,
         SendForeign, CloseSocket
  <2>2. Unmoved(d)
    BY <1>1, <1>2, <2>1 DEF Unmoved
  <2> QED BY <1>0, <1>1, <2>2, PlaceKept
<1>3. ASSUME UNCHANGED backlog, Place(c)' PROVE InPlace'
  <2>1. \A d \in Clients : Queued(d)' <=> Queued(d)
    BY <1>3 DEF Queued
  <2>2. \A d \in Clients : Place(d)'
    BY <1>2, <1>3, <2>1
  <2> QED BY <1>0, <1>1, <2>2 DEF InPlace
<1>4. UNCHANGED backlog => (Queued(c)' <=> Queued(c))
  BY DEF Queued
<1>5. CASE ReadWelcome(c)
  <2>1. /\ cpc[c] = "welcome" /\ cpc'[c] = "prompt" /\ down[c] # <<>>
        /\ down'[c] = Tail(down[c]) /\ out' = out /\ link' = link /\ UNCHANGED backlog
    BY <1>0, <1>5 DEF ReadWelcome, ReadLine
  <2>2. Tail(<<"welcome">>) = <<>>
    OBVIOUS
  <2>3. Place(c)'
    BY <1>0, <1>1, <1>4, <2>1, <2>2 DEF Place, Turn
  <2> QED BY <1>3, <2>1, <2>3
<1>6. CASE ReadReply(c) \/ ReadResult(c)
  <2>1. /\ \/ cpc[c] = "reply" /\ cpc'[c] \in {"upload", "leave"}
           \/ cpc[c] = "result" /\ cpc'[c] = "leave"
        /\ down[c] # <<>> /\ out' = out /\ link' = link /\ UNCHANGED backlog
    BY <1>0, <1>6 DEF ReadReply, ReadResult, ReadLine
  <2>2. Place(c)'
    BY <1>0, <1>1, <1>4, <2>1 DEF Place, Turn
  <2> QED BY <1>3, <2>1, <2>2
<1>7. CASE ReadNothing(c)
  <2>1. /\ c \in hungup /\ cpc'[c] = "leave" /\ cpc[c] \in {"welcome", "reply", "result"}
        /\ UNCHANGED <<out, link, backlog>>
    BY <1>0, <1>7 DEF ReadNothing
  <2>2. Place(c)'
    BY <1>0, <1>1, <1>4, <2>1 DEF Place
  <2> QED BY <1>3, <2>1, <2>2
<1>8. CASE SendData(c) \/ SendForeign(c)
  <2>1. /\ cpc[c] \in {"upload", "foreign"} /\ cpc' = cpc
        /\ out'[c] \in {out[c], out[c] + 1}
        /\ UNCHANGED <<down, link, backlog>>
    BY <1>0, <1>8 DEF SendData, SendForeign
  <2>2. Place(c)'
    BY <1>0, <1>1, <1>4, <2>1 DEF Place, Turn
  <2> QED BY <1>3, <2>1, <2>2
<1>9. CASE FinishUpload(c)
  <2>1. /\ cpc[c] = "upload" /\ cpc'[c] = "result" /\ shut'[c]
        /\ UNCHANGED <<out, down, link, backlog>>
    BY <1>0, <1>9 DEF FinishUpload
  <2>2. Place(c)'
    BY <1>0, <1>1, <1>4, <2>1 DEF Place, Turn
  <2> QED BY <1>3, <2>1, <2>2
<1>10. CASE Leave(c) \/ Quit(c)
  <2>1. /\ cpc[c] # "new" /\ cpc'[c] = "gone" /\ UNCHANGED <<out, down, backlog>>
    BY <1>0, <1>10 DEF Leave, Quit, CloseSocket
  <2>2. Place(c)'
    BY <1>0, <1>1, <1>4, <2>1 DEF Place, Turn
  <2> QED BY <1>3, <2>1, <2>2
<1>11. CASE SendCommand(c)
  <2>1. /\ cpc[c] = "prompt" /\ cpc'[c] = "reply" /\ out[c] = 0 /\ out'[c] = 2
        /\ UNCHANGED <<down, link, backlog>>
    BY <1>0, <1>11 DEF SendCommand, Place
  <2>2. Place(c)'
    BY <1>0, <1>1, <1>4, <2>1 DEF Place, Turn
  <2> QED BY <1>3, <2>1, <2>2
<1>12. CASE Connect(c)
  <2>1. /\ cpc[c] = "new" /\ cpc'[c] \in {"foreign", "welcome"}
        /\ UNCHANGED <<out, down, link>>
        /\ backlog' = Append(backlog, c)
        /\ backlog \in Seq(Clients)
    BY <1>0, <1>12 DEF Connect, IInv, ServedOnce
  <2>2. /\ Len(backlog) \in Nat /\ Len(backlog') = Len(backlog) + 1
        /\ \A k \in 1..Len(backlog) : backlog'[k] = backlog[k]
        /\ backlog'[Len(backlog) + 1] = c
    BY <2>1
  <2>3. Queued(c)'
    <3>1. Len(backlog) + 1 \in 1..Len(backlog')
      BY <2>2
    <3> QED BY <2>2, <3>1 DEF Queued
  <2>4. ASSUME NEW d \in Clients \ {c} PROVE Queued(d)' <=> Queued(d)
    <3>1. 1..Len(backlog') = 1..Len(backlog) \cup {Len(backlog) + 1}
      BY <2>2
    <3> QED BY <2>2, <3>1 DEF Queued
  <2>5. Place(c)'
    BY <1>0, <1>1, <2>1, <2>3 DEF Place
  <2>6. \A d \in Clients : Place(d)'
    BY <1>2, <2>4, <2>5
  <2> QED BY <1>0, <1>1, <2>6 DEF InPlace
<1> QED BY <1>5, <1>6, <1>7, <1>8, <1>9, <1>10, <1>11, <1>12 DEF ClientStep, UserStep

\* A step of the server for the client it serves.
LEMMA ServiceMoves ==
  ASSUME IInv, InPlace, spc \notin {"accept", "dead"},
         UNCHANGED <<clientVars, backlog, cur, hungup>>, spc' # "accept",
         \A d \in Clients \ {cur} : down'[d] = down[d] /\ link'[d] = link[d],
         spc' # "dead" => Turn(cur)' /\ (cpc[cur] # "gone" => link'[cur] = "open")
  PROVE  InPlace'
<1> USE DEF clientVars
<1>1. cur \in Clients /\ \A d \in Clients : Place(d)
  BY DEF InPlace, IInv, Types
<1>2. \A d \in Clients : Queued(d)' <=> Queued(d)
  BY DEF Queued
<1>3. ASSUME NEW d \in Clients, d # cur PROVE Place(d)'
  <2>1. Unmoved(d)
    BY <1>2, <1>3 DEF Unmoved
  <2> QED BY <1>1, <1>3, <2>1, PlaceKept
<1>4. ASSUME NEW d \in Clients, d = cur, spc' # "dead" PROVE Place(d)'
  <2>1. Turn(d)'
    BY <1>4
  <2> QED BY <1>1, <1>2, <1>4, <2>1 DEF Place
<1> QED BY <1>1, <1>3, <1>4, TransferAssumption DEF InPlace

\* What the server sends is there for the client, unless it has gone.
LEMMA AnswerMoves ==
  ASSUME IInv, InPlace, Welcome \/ RejectCommand \/ Confirm \/ Result
  PROVE  InPlace'
<1> USE DEF clientVars, netVars
<1>1. PICK m \in Messages, next \in {"line", "close", "open"} :
        /\ Sends(m, next)
        /\ \/ spc = "welcome" /\ next = "line" /\ m = "welcome"
           \/ spc = "invalid" /\ next = "close"
           \/ spc = "confirm" /\ next = "open"
           \/ spc = "result" /\ next = "close"
  BY DEF Welcome, RejectCommand, Confirm, Result, Messages
<1>2. UNCHANGED <<clientVars, hungup, backlog, cur, taken>>
  BY DEF Welcome, RejectCommand, Confirm, Result
<1>3. /\ cur \in Clients /\ Turn(cur)
      /\ cpc[cur] # "gone" => link[cur] = "open"
      /\ link \in [Clients -> {"open", "closed", "reset"}]
      /\ down \in [Clients -> Seq(Messages)]
  BY <1>1 DEF InPlace, Place, IInv, Types
<1>4. \A d \in Clients \ {cur} : down'[d] = down[d] /\ link'[d] = link[d]
  BY <1>1, <1>3 DEF Sends, Killed, SendMessage, SendFails
<1>5. cpc[cur] # "gone" =>
        /\ link'[cur] = "open" /\ spc' = next
        /\ down'[cur] = Append(down[cur], m)
  BY <1>1, <1>3 DEF Sends, Killed, SendMessage, SendFails
<1>6. /\ down'[cur] = Append(down[cur], m) => down'[cur] # <<>>
      /\ down[cur] = <<>> => Append(down[cur], m) = <<m>>
  <2>1. down[cur] \in Seq(Messages) /\ m \in Messages
    BY <1>1, <1>3
  <2>2. Append(down[cur], m) # <<>>
    BY <2>1
  <2>3. Append(<<>>, m) = <<m>>
    OBVIOUS
  <2> QED BY <2>2, <2>3
<1>7. spc' \in {next, "close", "dead"}
  BY <1>1 DEF Sends, Killed
<1>8. Turn(cur)'
  <2>1. CASE cpc[cur] = "gone"
    BY <1>1, <1>2, <1>3, <1>7, <2>1 DEF Turn
  <2>2. CASE cpc[cur] # "gone" /\ spc = "welcome"
    BY <1>1, <1>2, <1>3, <1>5, <1>6, <1>7, <2>2 DEF Turn
  <2>3. CASE cpc[cur] # "gone" /\ spc # "welcome"
    BY <1>1, <1>2, <1>3, <1>5, <1>6, <1>7, <2>3 DEF Turn
  <2> QED BY <2>1, <2>2, <2>3
<1> QED BY <1>1, <1>2, <1>4, <1>5, <1>7, <1>8, ServiceMoves

\* What it reads of the line and of the file.
LEMMA ReadingMoves ==
  ASSUME IInv, InPlace,
         \/ FillBuf \/ TakeLine \/ LineEnds \/ OpenFile \/ OpenFails
         \/ (\E k \in 1..MaxSize : Receive(k)) \/ ReceiveEnds \/ WriteFails \/ ReceiveAll
  PROVE  InPlace'
<1> USE DEF clientVars, netVars
<1>1. UNCHANGED <<clientVars, netVars, hungup, backlog, cur>>
  BY DEF FillBuf, TakeLine, LineEnds, OpenFile, OpenFails, Receive, ReceiveEnds,
         WriteFails, ReceiveAll
<1>2. /\ spc \in {"line", "open", "receive"} /\ spc' # "dead" /\ spc' # "accept"
  BY DEF FillBuf, TakeLine, LineEnds, OpenFile, OpenFails, Receive, ReceiveEnds,
         WriteFails, ReceiveAll, Parse
<1>3. /\ cur \in Clients /\ Turn(cur)
      /\ cpc[cur] # "gone" => link[cur] = "open"
      /\ taken \in 0..out[cur] /\ taken \in Nat /\ out[cur] \in Nat
      /\ shut[cur] => cpc[cur] \in {"result", "foreign", "leave", "gone"}
      /\ cpc[cur] \in {"new", "welcome", "prompt"} => out[cur] = 0
  BY <1>2 DEF InPlace, Place, Turn, IInv, Types, EndsAreFinal
<1>4. taken' \in 0..out[cur]
  BY <1>3 DEF FillBuf, TakeLine, LineEnds, OpenFile, OpenFails, Receive, ReceiveEnds,
              WriteFails, ReceiveAll
<1>5. CASE FillBuf
  BY <1>1, <1>3, <1>4, <1>5, <1>2, ServiceMoves DEF FillBuf, Turn
<1>6. CASE TakeLine
  <2>1. spc = "line" /\ spc' \in {"invalid", "confirm"} /\ Avail >= 2
    BY <1>6 DEF TakeLine, Parse
  <2>2. out[cur] >= 2
    BY <1>3, <2>1 DEF Avail, IInv, Upload, Types
  <2>3. cpc[cur] \in {"reply", "foreign", "gone"} /\ (cpc[cur] = "reply" => down[cur] = <<>>)
    BY <1>3, <2>1, <2>2 DEF Turn
  <2>4. Turn(cur)'
    BY <1>1, <1>4, <2>1, <2>3 DEF Turn
  <2> QED BY <1>1, <1>2, <1>3, <2>4, ServiceMoves
<1>7. CASE LineEnds
  <2>1. spc = "line" /\ spc' \in {"invalid", "confirm", "close"} /\ shut[cur]
    BY <1>7 DEF LineEnds, Parse, AtEnd
  <2>2. cpc[cur] \in {"foreign", "gone"}
    BY <1>3, <2>1 DEF Turn
  <2>3. Turn(cur)'
    BY <1>1, <1>4, <2>1, <2>2 DEF Turn
  <2> QED BY <1>1, <1>2, <1>3, <2>3, ServiceMoves
<1>8. CASE \/ OpenFile \/ OpenFails
           \/ (\E k \in 1..MaxSize : Receive(k)) \/ ReceiveEnds \/ WriteFails \/ ReceiveAll
  <2>1. spc \in {"open", "receive"} /\ spc' \in {"receive", "result"}
    BY <1>8 DEF OpenFile, OpenFails, Receive, ReceiveEnds, WriteFails, ReceiveAll
  <2>2. Turn(cur)'
    BY <1>1, <1>3, <1>4, <2>1 DEF Turn
  <2> QED BY <1>1, <1>2, <1>3, <2>2, ServiceMoves
<1> QED BY <1>5, <1>6, <1>7, <1>8

\* accept() and close() pass from one client to the next.
LEMMA NextClientMoves ==
  ASSUME IInv, IInv', InPlace, Accept \/ Close
  PROVE  InPlace'
<1> USE DEF clientVars, netVars
<1>0. \A d \in Clients : Place(d)
  BY DEF InPlace, Accept, Close
<1>1. CASE Accept
  <2> USE <1>1 DEF Accept
  <2>1. /\ backlog \in Seq(Clients) /\ backlog # <<>> /\ Len(backlog) \in Nat
        /\ cur' = backlog[1] /\ backlog[1] \in Clients /\ 1 \in 1..Len(backlog)
        /\ Len(backlog') = Len(backlog) - 1
        /\ \A k \in 1..Len(backlog) - 1 : backlog'[k] = backlog[k + 1]
    <3>1. backlog \in Seq(Clients)
      BY DEF IInv, ServedOnce
    <3> QED BY <3>1
  <2>2. spc' = "welcome" /\ cur = NoClient /\ taken' = 0
        /\ UNCHANGED <<clientVars, netVars, hungup>>
    BY DEF InPlace
  <2>3. ASSUME NEW d \in Clients, d # cur' PROVE Queued(d)' <=> Queued(d)
    <3>1. ASSUME NEW k \in 1..Len(backlog), backlog[k] = d PROVE Queued(d)'
      <4>1. k # 1
        BY <2>1, <2>3, <3>1
      <4>2. k - 1 \in 1..Len(backlog') /\ backlog'[k - 1] = d
        BY <2>1, <3>1, <4>1
      <4> QED BY <4>2 DEF Queued
    <3>2. ASSUME NEW k \in 1..Len(backlog'), backlog'[k] = d PROVE Queued(d)
      <4>1. k + 1 \in 1..Len(backlog) /\ backlog[k + 1] = d
        BY <2>1, <3>2
      <4> QED BY <4>1 DEF Queued
    <3> QED BY <3>1, <3>2 DEF Queued
  <2>4. ASSUME NEW d \in Clients, d # cur' PROVE Place(d)'
    <3>1. Unmoved(d)
      BY <2>2, <2>3, <2>4 DEF Unmoved
    <3>2. d # cur
      BY <2>2, TransferAssumption
    <3> QED BY <1>0, <2>4, <3>1, <3>2, PlaceKept
  <2>5. ASSUME NEW d \in Clients, d = cur' PROVE Place(d)'
    <3>1. Queued(d)
      BY <2>1, <2>5 DEF Queued
    <3>2. ~Queued(d)'
      BY <2>5 DEF IInv, ServedOnce, Queued
    <3>3. out[d] \in Nat
      BY DEF IInv, Types
    <3>4. Turn(d)'
      BY <1>0, <2>2, <3>1, <3>3 DEF Place, Turn
    <3> QED BY <1>0, <2>2, <2>5, <3>1, <3>2, <3>4 DEF Place
  <2>6. cur' # NoClient
    BY <2>1, TransferAssumption
  <2> QED BY <2>2, <2>4, <2>5, <2>6 DEF InPlace
<1>2. CASE Close
  <2> USE <1>2 DEF Close
  <2>1. /\ spc' = "accept" /\ cur' = NoClient /\ hungup' = hungup \cup {cur}
        /\ UNCHANGED <<clientVars, link, backlog>>
        /\ \A d \in Clients \ {cur} : down'[d] = down[d]
        /\ cur \in Clients
    BY DEF IInv, Types
  <2>2. \A d \in Clients : Queued(d)' <=> Queued(d)
    BY <2>1 DEF Queued
  <2>3. ASSUME NEW d \in Clients, d # cur PROVE Place(d)'
    <3>1. Unmoved(d) /\ d # cur'
      BY <2>1, <2>2, <2>3, TransferAssumption DEF Unmoved
    <3> QED BY <1>0, <2>3, <3>1, PlaceKept
  <2>4. ASSUME NEW d \in Clients, d = cur PROVE Place(d)'
    <3>1. cpc[d] # "new" /\ ~Queued(d)
      BY <1>0, <2>4 DEF Place
    <3> QED BY <1>0, <2>1, <2>2, <2>4, <3>1, TransferAssumption DEF Place
  <2> QED BY <2>1, <2>3, <2>4 DEF InPlace
<1> QED BY <1>1, <1>2

LEMMA InitPlace == Init => InPlace
<1> SUFFICES ASSUME Init PROVE InPlace
  OBVIOUS
<1>1. Len(backlog) = 0
  BY DEF Init
<1>2. 1..Len(backlog) = {}
  BY <1>1
<1> QED BY <1>2, TransferAssumption DEF Init, InPlace, Place, Queued

LEMMA NextPlace == IInv /\ IInv' /\ InPlace /\ [Next]_vars => InPlace'
<1> SUFFICES ASSUME IInv, IInv', InPlace, [Next]_vars PROVE InPlace'
  OBVIOUS
<1>1. CASE \E c \in Clients : ClientStep(c) \/ UserStep(c)
  <2>1. CASE spc = "dead"
    <3>1. spc' = "dead"
      BY <1>1, <2>1 DEF ClientStep, UserStep, ReadWelcome, ReadReply, ReadResult, ReadLine,
         ReadNothing, SendData, FinishUpload, Leave, Connect, SendCommand, Quit,
         SendForeign, serverVars
    <3> QED BY <3>1 DEF InPlace
  <2>2. CASE spc # "dead"
    BY <1>1, <2>2, ClientMoves
  <2> QED BY <2>1, <2>2
<1>2. CASE ServerStep
  BY <1>2, AnswerMoves, ReadingMoves, NextClientMoves DEF ServerStep
<1>3. CASE UNCHANGED vars
  BY <1>3 DEF vars, clientVars, netVars, serverVars, InPlace, Place, Turn, Queued
<1> QED BY <1>1, <1>2, <1>3 DEF Next, Quiet

\* The server sits in recv() for the client it serves.
ServerAwaits ==
  /\ taken = out[cur] /\ ~shut[cur]
  /\ \/ spc = "line" /\ Avail < 2
     \/ spc = "receive" /\ Len(file.bytes) < filesize

\* Client c sits in recv() for the server.
Awaits(c) ==
  /\ cpc[c] \in {"welcome", "reply", "result"}
  /\ down[c] = <<>> /\ c \notin hungup /\ spc # "dead"

\* A client that waits for the server waits for accept(), or is the one that is served,
\* and then the server does not wait for it.
NobodyAwaitsEachOther ==
  \A c \in Clients : Awaits(c) =>
    \/ Queued(c)
    \/ c = cur /\ spc \notin {"accept", "dead"} /\ ~ServerAwaits

\* The server and a client never sit in recv() for each other, wherever a message is
\* cut in two and whatever the server keeps in its buffer from one read to the next;
\* and a client that is not served any more has been hung up on.
THEOREM NobodyAwaitsEachOtherHolds == Spec => []NobodyAwaitsEachOther
<1>1. IInv /\ InPlace => NobodyAwaitsEachOther
  <2> SUFFICES ASSUME IInv, InPlace, NEW c \in Clients, Awaits(c), ~Queued(c)
               PROVE  c = cur /\ spc \notin {"accept", "dead"} /\ ~ServerAwaits
    BY DEF NobodyAwaitsEachOther
  <2>1. spc # "dead" /\ Place(c) /\ (spc = "accept" <=> cur = NoClient)
    BY DEF Awaits, InPlace
  <2>2. c = cur /\ spc # "accept"
    BY <2>1, TransferAssumption DEF Awaits, Place
  <2>3. ~ServerAwaits
    <3> SUFFICES ASSUME ServerAwaits PROVE FALSE
      OBVIOUS
    <3>1. Turn(c) /\ cpc[c] # "result"
      BY <2>1, <2>2 DEF Place, ServerAwaits
    <3>2. spc = "line" /\ cpc[c] = "reply" /\ out[c] = 2
      BY <3>1 DEF Turn, Awaits, ServerAwaits
    <3>3. used = 0 /\ taken = 2
      BY <2>2, <3>2 DEF IInv, Upload, ServerAwaits
    <3> QED BY <3>2, <3>3 DEF ServerAwaits, Avail
  <2> QED BY <2>1, <2>2, <2>3
<1> QED BY <1>1, InitPlace, NextPlace, InvHolds, InitInv, NextInv, PTL DEF Spec
==============================================================================
