------------------------------ MODULE FileTransfer ------------------------------
(***************************************************************************)
(* The file transfer of HW4: a server that serves one connection at a      *)
(* time, and its clients.                                                  *)
(*                                                                         *)
(* What a client sends is counted in units: the two halves of its command  *)
(* line, then the bytes of its file.  recv() takes any number of them.     *)
(* Each member of Clients is one connection; a foreign client is one that  *)
(* is not client.c: it sends without waiting and stops where it likes.     *)
(*                                                                         *)
(* The log file and the messages on the terminal are left out.             *)
(***************************************************************************)
EXTENDS Integers, Sequences

CONSTANTS
  Clients,   \* connections made in the life of the server
  Foreign,   \* those of them not made by client.c
  NoClient,
  Names,     \* file names
  BadNames,  \* names that parse_upload_command() takes for a malformed command
  MaxSize,   \* bound: the bytes of a file
  IntHalf    \* the first size whose conversion to int is negative (2^31)

ASSUME TransferAssumption ==
  /\ Foreign \subseteq Clients
  /\ NoClient \notin Clients
  /\ BadNames \subseteq Names
  /\ MaxSize \in Nat
  /\ IntHalf \in Nat \ {0}

VARIABLES
  job,       \* [name, size] of the file of each client
  cpc,       \* where each client is
  out,       \* units each client has sent
  shut,      \* the client has ended its direction of the stream
  link,      \* the client's end of the connection: "open", "closed" or "reset"
  down,      \* messages of the server the client has not read
  hungup,    \* connections the server has closed
  backlog,   \* connections that wait for accept()
  spc,       \* where the server is
  cur,       \* the client it serves
  taken,     \* units recv() has returned of that client
  used,      \* of those, the units read_line() or the file have consumed
  filesize,
  res,       \* what receive_file_with_buf() has returned
  disk,      \* content of each file: whose it is, and which of its bytes
  told,      \* history: clients that were sent SUCCESS_MSG
  lossy      \* history: clients some bytes of whose file the server lost unnoticed

clientVars == <<job, cpc, out, shut>>
netVars == <<link, down>>
serverVars == <<hungup, backlog, spc, cur, taken, used, filesize, res, disk, told, lossy>>
vars == <<clientVars, netVars, serverVars>>

NoFile == [of |-> NoClient, bytes |-> <<>>]
Messages == {"welcome", "confirm", "success", "invalid", "failed"}

Init ==
  /\ job \in [Clients -> [name : Names, size : 0..MaxSize]]
  /\ cpc = [c \in Clients |-> "new"]
  /\ out = [c \in Clients |-> 0]
  /\ shut = [c \in Clients |-> FALSE]
  /\ link = [c \in Clients |-> "open"]
  /\ down = [c \in Clients |-> <<>>]
  /\ hungup = {}
  /\ backlog = <<>>
  /\ spc = "accept"
  /\ cur = NoClient
  /\ taken = 0
  /\ used = 0
  /\ filesize = 0
  /\ res = 0
  /\ disk = [n \in Names |-> NoFile]
  /\ told = {}
  /\ lossy = {}

-----------------------------------------------------------------------------
(* The client *)

\* The client's socket is closed, or reset when it leaves messages unread.
CloseSocket(c) ==
  /\ cpc' = [cpc EXCEPT ![c] = "gone"]
  /\ shut' = [shut EXCEPT ![c] = TRUE]
  /\ link' = [link EXCEPT ![c] = IF down[c] = <<>> THEN "closed" ELSE "reset"]

Connect(c) ==
  /\ cpc[c] = "new"
  /\ spc # "dead"
  /\ cpc' = [cpc EXCEPT ![c] = IF c \in Foreign THEN "foreign" ELSE "welcome"]
  /\ backlog' = Append(backlog, c)
  /\ UNCHANGED <<job, out, shut, netVars, hungup, spc, cur, taken, used, filesize, res,
                 disk, told, lossy>>

\* read_line() returns a line of the server.
ReadLine(c, from, to) ==
  /\ cpc[c] = from
  /\ down[c] # <<>>
  /\ cpc' = [cpc EXCEPT ![c] = to]
  /\ down' = [down EXCEPT ![c] = Tail(@)]
  /\ UNCHANGED <<job, out, shut, link, serverVars>>

ReadWelcome(c) == ReadLine(c, "welcome", "prompt")

\* "Expect +OK ... before sending file".
ReadReply(c) ==
  /\ down[c] # <<>>
  /\ ReadLine(c, "reply", IF Head(down[c]) = "confirm" THEN "upload" ELSE "leave")

ReadResult(c) == ReadLine(c, "result", "leave")

\* read_line() returns nothing: the server has closed, or is no more.
ReadNothing(c) ==
  /\ cpc[c] \in {"welcome", "reply", "result"}
  /\ down[c] = <<>>
  /\ c \in hungup \/ spc = "dead"
  /\ cpc' = [cpc EXCEPT ![c] = "leave"]
  /\ UNCHANGED <<job, out, shut, netVars, serverVars>>

SendCommand(c) ==
  /\ cpc[c] = "prompt"
  /\ cpc' = [cpc EXCEPT ![c] = "reply"]
  /\ out' = [out EXCEPT ![c] = 2]
  /\ UNCHANGED <<job, shut, netVars, serverVars>>

SendData(c) ==
  /\ cpc[c] = "upload"
  /\ out[c] < 2 + job[c].size
  /\ out' = [out EXCEPT ![c] = @ + 1]
  /\ UNCHANGED <<job, cpc, shut, netVars, serverVars>>

\* "Tell server we finished sending (half-close write side)".
FinishUpload(c) ==
  /\ cpc[c] = "upload"
  /\ out[c] = 2 + job[c].size
  /\ cpc' = [cpc EXCEPT ![c] = "result"]
  /\ shut' = [shut EXCEPT ![c] = TRUE]
  /\ UNCHANGED <<job, out, netVars, serverVars>>

Leave(c) ==
  /\ cpc[c] = "leave"
  /\ CloseSocket(c)
  /\ UNCHANGED <<job, out, down, serverVars>>

\* The user enters no path or one that cannot be opened, or the client is killed.
Quit(c) ==
  /\ cpc[c] \notin {"new", "leave", "gone"}
  /\ CloseSocket(c)
  /\ UNCHANGED <<job, out, down, serverVars>>

\* A foreign client sends one unit more, or ends its direction of the stream.  It
\* may send a byte more than its file has.
SendForeign(c) ==
  /\ cpc[c] = "foreign" /\ ~shut[c]
  /\ \/ out[c] < 3 + job[c].size /\ out' = [out EXCEPT ![c] = @ + 1] /\ UNCHANGED shut
     \/ shut' = [shut EXCEPT ![c] = TRUE] /\ UNCHANGED out
  /\ UNCHANGED <<job, cpc, netVars, serverVars>>

\* What a client does of itself, and what depends on a user or on bad luck.
ClientStep(c) ==
  \/ ReadWelcome(c) \/ ReadReply(c) \/ ReadResult(c) \/ ReadNothing(c)
  \/ SendData(c) \/ FinishUpload(c) \/ Leave(c)

UserStep(c) == Connect(c) \/ SendCommand(c) \/ Quit(c) \/ SendForeign(c)

-----------------------------------------------------------------------------
(* The server *)

\* send_message().  A client that has closed answers with a reset, sooner or later;
\* after the reset send() fails, or SIGPIPE ends the process.
SendMessage(m) ==
  \/ /\ link[cur] = "open"
     /\ down' = [down EXCEPT ![cur] = Append(@, m)]
     /\ UNCHANGED link
  \/ /\ link[cur] = "closed"
     /\ link' \in {link, [link EXCEPT ![cur] = "reset"]}
     /\ UNCHANGED down

SendFails == link[cur] = "reset" /\ UNCHANGED netVars

\* SIGPIPE: the process ends, and the kernel closes what it had open.
Killed ==
  /\ SendFails
  /\ spc' = "dead"

\* The server sends m and goes to "next"; or to "close" when the send() failed.
Sends(m, next) ==
  \/ SendMessage(m) /\ spc' = next
  \/ SendFails /\ spc' = "close"
  \/ Killed

Accept ==
  /\ spc = "accept"
  /\ backlog # <<>>
  /\ cur' = Head(backlog)
  /\ backlog' = Tail(backlog)
  /\ spc' = "welcome"
  /\ taken' = 0
  /\ used' = 0
  /\ UNCHANGED <<clientVars, netVars, hungup, filesize, res, disk, told, lossy>>

Welcome ==
  /\ spc = "welcome"
  /\ Sends("welcome", "line")
  /\ UNCHANGED <<clientVars, hungup, backlog, cur, taken, used, filesize, res, disk, told,
                 lossy>>

\* Mutant: "r < 0" in place of "r <= 0".
AtReset == taken = out[cur] /\ link[cur] = "reset"

\* recv() has returned everything there will be.
AtEnd == taken = out[cur] /\ shut[cur]

\* The bytes of ConnBuf that are not consumed.
Avail == taken - used

\* fill_buf()
FillBuf ==
  /\ spc = "line"
  /\ Avail < 2
  /\ \E k \in 1 .. out[cur] - taken : taken' = taken + k
  /\ UNCHANGED <<clientVars, netVars, hungup, backlog, spc, cur, used, filesize, res, disk,
                 told, lossy>>

\* parse_upload_command(): s is the size it reads.
Parse(s) ==
  IF job[cur].name \in BadNames
    THEN spc' = "invalid" /\ UNCHANGED filesize
    ELSE spc' = "confirm" /\ filesize' = s

\* read_line() returns the line.
TakeLine ==
  /\ spc = "line"
  /\ Avail >= 2
  /\ used' = 2
  /\ Parse(job[cur].size)
  /\ UNCHANGED <<clientVars, netVars, hungup, backlog, cur, taken, res, disk, told, lossy>>

\* read_line() returns what is left at the end of the stream: nothing, or a part of
\* the line, in which the size may have lost digits.  At a reset it returns -1.
LineEnds ==
  /\ spc = "line"
  /\ AtEnd
  /\ Avail < 2
  /\ used' = taken
  /\ \/ /\ Avail = 0 \/ link[cur] = "reset"
        /\ spc' = "close"
        /\ UNCHANGED filesize
     \/ /\ Avail = 1
        /\ link[cur] # "reset"
        /\ \/ spc' = "invalid" /\ UNCHANGED filesize
           \/ \E s \in 0..job[cur].size : (s = 0 => job[cur].size = 0) /\ Parse(s)
  /\ UNCHANGED <<clientVars, netVars, hungup, backlog, cur, taken, res, disk, told, lossy>>

RejectCommand ==
  /\ spc = "invalid"
  /\ Sends("invalid", "close")
  /\ UNCHANGED <<clientVars, hungup, backlog, cur, taken, used, filesize, res, disk, told,
                 lossy>>

Confirm ==
  /\ spc = "confirm"
  /\ Sends("confirm", "open")
  /\ UNCHANGED <<clientVars, hungup, backlog, cur, taken, used, filesize, res, disk, told,
                 lossy>>

\* The file of the upload, and its content with bytes i..j of the client added.
file == disk[job[cur].name]
WithBytes(f, i, j) == [f EXCEPT !.bytes = @ \o [k \in 1 .. j - i + 1 |-> i + k - 1]]

AsInt(n) == IF n % (2 * IntHalf) < IntHalf THEN n % (2 * IntHalf)
            ELSE (n % (2 * IntHalf)) - 2 * IntHalf

ToWrite == IF Avail > AsInt(filesize) THEN AsInt(filesize) ELSE Avail

\* Mutant: "cb->buf" in place of "cb->buf + cb->start".
FirstOfBuf == 0 - 1

\* The number of the file byte at cb->buf + cb->start.
FirstLeft == used - 1

\* fopen(filepath, "wb"), and the leftover of ConnBuf goes into the file; none of it
\* when the size is negative as an int: the bytes left in ConnBuf are never looked
\* at again, and bytes sent behind the file take their place.  fwrite() may fail.
OpenFile ==
  /\ spc = "open"
  /\ LET n == IF ToWrite > 0 THEN ToWrite ELSE 0 IN
       /\ disk' = [disk EXCEPT ![job[cur].name] =
                     WithBytes([of |-> cur, bytes |-> <<>>], FirstLeft, FirstLeft + n - 1)]
       /\ used' = used + n
       /\ lossy' = IF n < Avail /\ n < filesize THEN lossy \cup {cur} ELSE lossy
       /\ \/ spc' = "receive" /\ UNCHANGED res
          \/ n > 0 /\ spc' = "result" /\ res' = -1
  /\ UNCHANGED <<clientVars, netVars, hungup, backlog, cur, taken, filesize, told>>

\* fopen() fails: the old file is as it was.
OpenFails ==
  /\ spc = "open"
  /\ spc' = "result"
  /\ res' = -1
  /\ UNCHANGED <<clientVars, netVars, hungup, backlog, cur, taken, used, filesize, disk,
                 told, lossy>>

\* Mutant: recv() is asked for a whole buffer.
ToRecvAny == out[cur] - taken

\* recv() is asked for no more than remains of the file.
ToRecv == filesize - Len(file.bytes)

Receive(k) ==
  /\ spc = "receive"
  /\ Len(file.bytes) < filesize
  /\ k <= ToRecv
  /\ k \in 1 .. out[cur] - taken
  /\ taken' = taken + k
  /\ disk' = [disk EXCEPT ![job[cur].name] = WithBytes(@, taken - 1, taken + k - 2)]
  /\ UNCHANGED <<clientVars, netVars, hungup, backlog, spc, cur, used, filesize, res, told,
                 lossy>>

\* recv() returns 0 or -1.
ReceiveEnds ==
  /\ spc = "receive"
  /\ Len(file.bytes) < filesize
  /\ AtEnd
  /\ spc' = "result"
  /\ res' = -1
  /\ UNCHANGED <<clientVars, netVars, hungup, backlog, cur, taken, used, filesize, disk,
                 told, lossy>>

\* fwrite() has no space for what recv() returned.
WriteFails ==
  /\ spc = "receive"
  /\ Len(file.bytes) < filesize
  /\ taken < out[cur]
  /\ taken' = taken + 1
  /\ spc' = "result"
  /\ res' = -1
  /\ UNCHANGED <<clientVars, netVars, hungup, backlog, cur, used, filesize, disk, told,
                 lossy>>

\* "total_received != filesize" is false: 0.  The result of fclose() is not looked
\* at: bytes still in its buffer may be lost.
ReceiveAll ==
  /\ spc = "receive"
  /\ Len(file.bytes) >= filesize
  /\ spc' = "result"
  /\ res' = IF Len(file.bytes) = filesize THEN 0 ELSE -1
  /\ \/ UNCHANGED <<disk, lossy>>
     \/ /\ file.bytes # <<>>
        /\ \E n \in 0 .. Len(file.bytes) - 1 :
             disk' = [disk EXCEPT ![job[cur].name].bytes = SubSeq(@, 1, n)]
        /\ lossy' = lossy \cup {cur}
  /\ UNCHANGED <<clientVars, netVars, hungup, backlog, cur, taken, used, filesize, told>>

\* Mutant: the file of a failed upload is kept.
Removed == disk

\* remove(filepath): also the older file that fopen() could not replace.
RemovedFile == [disk EXCEPT ![job[cur].name] = NoFile]

\* The result is sent, and the server closes whether send() fails or not.
Result ==
  /\ spc = "result"
  /\ disk' = IF res = 0 THEN disk ELSE RemovedFile
  /\ Sends(IF res = 0 THEN "success" ELSE "failed", "close")
  /\ told' = IF res = 0 THEN told \cup {cur} ELSE told
  /\ UNCHANGED <<clientVars, hungup, backlog, cur, taken, used, filesize, res, lossy>>

\* close(): with bytes unread the client is sent a reset, which may overtake what
\* it was sent before.
Close ==
  /\ spc = "close"
  /\ spc' = "accept"
  /\ cur' = NoClient
  /\ res' = 0
  /\ filesize' = 0
  /\ hungup' = hungup \cup {cur}
  /\ \/ UNCHANGED down
     \/ taken < out[cur] /\ down' = [down EXCEPT ![cur] = <<>>]
  /\ UNCHANGED <<clientVars, link, backlog, taken, used, disk, told, lossy>>

ServerStep ==
  \/ Accept \/ Welcome
  \/ FillBuf \/ TakeLine \/ LineEnds \/ RejectCommand \/ Confirm
  \/ OpenFile \/ OpenFails
  \/ \E k \in 1..MaxSize : Receive(k)
  \/ ReceiveEnds \/ WriteFails \/ ReceiveAll
  \/ Result \/ Close

\* All clients have come and gone, and the server waits for more or is no more.
Quiet ==
  /\ spc \in {"accept", "dead"} /\ (spc = "accept" => backlog = <<>>)
  /\ \A c \in Clients : cpc[c] = "gone" \/ (cpc[c] = "new" /\ spc = "dead")
  /\ UNCHANGED vars

Next ==
  \/ \E c \in Clients : ClientStep(c) \/ UserStep(c)
  \/ ServerStep
  \/ Quiet

Spec == Init /\ [][Next]_vars

(***************************************************************************)
(* The programs run on when they can; users and foreign clients owe        *)
(* nothing.                                                                *)
(***************************************************************************)
FairSpec ==
  /\ Spec
  /\ WF_vars(ServerStep)
  /\ \A c \in Clients : WF_vars(ClientStep(c))

-----------------------------------------------------------------------------
(* Properties *)

\* Every variable stays in its range: a file holds none but bytes of the upload it
\* was opened for (unless some were lost unnoticed), and the server waits for no client it is not serving.
TransferTypeOK ==
  /\ cpc \in [Clients -> {"new", "welcome", "prompt", "reply", "upload", "result",
                          "foreign", "leave", "gone"}]
  /\ link \in [Clients -> {"open", "closed", "reset"}]
  /\ \A c \in Clients : \A k \in DOMAIN down[c] : down[c][k] \in Messages
  /\ spc \in {"accept", "welcome", "line", "invalid", "confirm", "open", "receive",
              "result", "close", "dead"}
  /\ spc \notin {"accept", "dead"} => cur \in Clients
  /\ used \in 0..taken
  /\ filesize \in 0..MaxSize
  /\ res \in {0, -1}
  /\ \A n \in Names : disk[n] # NoFile =>
       /\ disk[n].of \in Clients
       /\ \A k \in DOMAIN disk[n].bytes :
            disk[n].bytes[k] \in 1..job[disk[n].of].size \/ disk[n].of \in lossy

\* The file is being written, or waits to be removed.
Unsettled(n) ==
  /\ cur # NoClient
  /\ n = job[cur].name
  /\ spc = "receive" \/ (spc = "result" /\ res # 0)

\* File n is the whole upload of client c.
IsWhole(n, c) == disk[n] = [of |-> c, bytes |-> [k \in 1..job[c].size |-> k]]

\* Whatever clients break off, send early or send too much, whatever fails and even
\* after SIGPIPE has ended the server: a file in the directory is a whole upload,
\* unless the server lost bytes of it unnoticed.
WholeFiles ==
  \A n \in Names :
    disk[n] = NoFile \/ Unsettled(n) \/ disk[n].of \in lossy
      \/ \E c \in Clients : job[c].name = n /\ IsWhole(n, c)

\* The server implements the store: success is reported only of a file that is
\* stored whole, and only the next upload to its name takes it away.  Reports of
\* files of which bytes were lost unnoticed are left out.
Store == INSTANCE UploadStore WITH
  job <- [c \in Clients |-> job[c].name],
  stored <- [n \in Names |->
               IF \E c \in Clients : IsWhole(n, c) /\ ~Unsettled(n)
                 THEN disk[n].of ELSE NoClient],
  reported <- told \ lossy

ImplementsStore == Store!Spec

\* A client that waits for accept() is served, unless the server is no more, or
\* waits for the user of another client or for a foreign one.
NextIsServed ==
  \A c \in Clients :
    (\E k \in DOMAIN backlog : backlog[k] = c)
      ~> \/ \A k \in DOMAIN backlog : backlog[k] # c
         \/ spc = "dead"
         \/ /\ spc \in {"line", "receive"}
            /\ cpc[cur] \in {"prompt", "foreign"}
            /\ ~shut[cur]
==============================================================================
