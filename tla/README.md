# A verification project for NetworkPrograming

The repository holds eight homeworks of a network-programming course, written in
C: single programs (HW1, HW2), a UDP service (HW3), a file server (HW4), and a
"post" service that is built four times, with `fork()` (HW5), with a thread per
client (HW6, and again in `HW7/TCP-multithread-main`) and with `poll()` and a
thread pool (HW7). This directory models the parts of it in which the order of
events matters, checks them with TLC, and proves the most important facts with
TLAPS for every size of the system.

Read a module together with the source it names; `PROJECT.json` maps every
definition to the lines it stands for.

## 1. The parts of the system

### Inventory

| part | source | state | operations |
|---|---|---|---|
| Thread-per-client post server, second version | `HW7/TCP-multithread-main/TCP_Server` | `sessions[]` under `session_mutex`; per thread `logged_in`, `current_user_index`; the accounts, read once | accept, `add_session`, USER, POST, BYE, `remove_session`, close |
| Poll-and-pool post server | `HW7/TCP_Server/server.c` | `poll_fds[]`, `sessions[]`, `poll_count`, `poll_size`; heap of `Session`; ring `work_queue`; `work_mutex`, `work_cond` | poll, accept, `add_to_poll`, `expand_poll_arrays`, `recv_until_delim`, `enqueue_work`, `remove_from_poll`; `worker_thread`, `process_command` |
| Thread-per-client post server, first version | `HW6/TCP_Server/server.c` | `sessions[]` of pointers under `session_mutex`; `Session` fields written with no lock | accept, register, USER (`is_account_logged_in`), POST, BYE, unregister |
| Producers and consumer | `HW6/sync_thread.c` | `put`, `nready`, `buff[]` | `produce`, `consume`, joins |
| Message framing | `recv_until_delim` in HW5, HW6, HW7, servers and clients | caller's buffer, `leftover`, `total_len` | one call |
| File transfer | `HW4/TCP_Server`, `HW4/TCP_Client` | the directory; `ConnBuf`; one connection at a time | welcome, UPLD, confirm, receive, result |
| Fork-per-client post server | `HW5/TCP_Server/server.c` | the parent's `conn_sock` and pending SIGCHLD; in each child `session.logged_in`, `session.username` | accept, fork, close, `sig_chld`, the three commands |
| Post client | `HW5/TCP_Client`, `HW6/TCP_Client`, `HW7/TCP_Client` | the place in `main()`, leftover | connect, menu, USER, POST, BYE, reply, exit |
| Line client | `HW7/TCP-multithread-main/TCP_Client` | none | send a line, receive once |
| Account manager | `HW1/account_manager.c` | list of accounts, the user logged in, the log file | menu loop, login, post, logout |
| Resolver | `HW2/resolver.c` | none | validation, `getaddrinfo` |
| UDP resolver | `HW3/UDP_Server`, `HW3/UDP_Client` | the last datagram (`buffer`, `client_addr`); the log file | recvfrom, validate, resolve, sendto |
| Lecture template | `HW7/poll_server.c` | – | does not compile (line 34) |
| Tests | `tcp_test.c`, `stress_test.c`, `udp_test.c` | – | drive the servers |

### How they interact

Nothing is shared between the homeworks: each server meets only its own clients,
over one TCP connection each. Inside a server the parts share memory:

* **TCP-multithread**: `main()` hands a descriptor to a detached thread; threads
  meet in `sessions[]`, keyed by descriptor, and in the kernel's reuse of
  descriptor numbers.
* **HW7**: `main()` owns the sockets, the arrays and the life of every
  `Session`; workers get bare `Session` pointers through the ring, and use them,
  and the descriptor in them, whenever they come to it.
* **HW6**: every thread reads the `Session` of every other one in
  `is_account_logged_in`; the owner writes it.
* **HW5**: parent and children share the open connection (it ends for the client
  only when both have closed it) and the SIGCHLD that interrupts the parent; each
  child has a session of its own, and its client knows of it only by the replies.
* **HW3**: server and clients share nothing but datagrams, which carry no number.
* **HW4**: the server reads the client's stream first through `ConnBuf` and then
  directly; client and server wait for each other's lines.

### What is hard about it

Check-then-act on shared login state; descriptors and heap addresses that are used
again while somebody still holds the old meaning; sends to clients that have gone
(SIGPIPE is left at its default everywhere); a stream that TCP cuts anywhere; single
steps of several that fail (`malloc`, `realloc`, `pthread_create`, `fwrite`,
`fclose`); wake-ups of a condition variable; blocking calls in a loop that serves
everybody; signals that are pending but not counted; datagrams that are lost, doubled
or late where nothing times out and nothing is numbered. `PROJECT.json` lists these
hazards at their lines.

### What makes each part correct

* post servers: one connection per account; the session table tells the truth
  about the threads, whoever comes, goes or fails; a client that has gone is
  forgotten; a command is run once, for the client that sent it.
* work queue: a bounded FIFO from which no item waits while a worker sleeps.
* sync_thread: the consumer finds every item in place and both sides return.
* framing: the messages are the lines of the stream, however it is cut, and no
  access leaves a buffer.
* file transfer: files are whole uploads; success is reported only of what is
  stored; the next client is served.
* fork server and menu client: children are reaped, descriptors are not leaked,
  what the user was told is what the child believes, nobody waits for ever.
* UDP resolver: a client shows the answer to its own query, and gets one.
* validators: an address that `inet_pton()` takes is accepted, what else is accepted
  is known, and no text is both a name and a number.

## 2. Modules

| module | models | abstract counterpart | proofs |
|---|---|---|---|
| `MtServer` | `HW7/TCP-multithread-main/TCP_Server` | `LoginRegistry` | `MtServerProofs` |
| `WorkQueue` | the ring of `HW7/TCP_Server` | `BoundedFifo` | `PollServerProofs` |
| `PollServer` (EXTENDS `WorkQueue`) | the rest of `HW7/TCP_Server` | – | `PollServerProofs` |
| `ThreadServer` | `HW6/TCP_Server` | – | `ThreadServerProofs` |
| `PostClient` | the client of HW5, HW6 and HW7, and its connection | – | – |
| `ForkServer` (EXTENDS `PostClient`) | `HW5/TCP_Server`, composed with its clients | – | `ForkServerProofs` |
| `Validation` | the checks of HW2 and HW3, `main()` of HW2 | `Pton` (a reference function) | `UdpResolverProofs` |
| `UdpResolver` (EXTENDS `Validation`) | HW3, server, clients and network | – | `UdpResolverProofs` |
| `SyncThread` | `HW6/sync_thread.c` | – | `SyncThreadProofs` |
| `Framing` | `recv_until_delim` | `AreLinesOf` (a reference definition) | `FramingProofs` |
| `FileTransfer` | HW4, server and client | `UploadStore` | `FileTransferProofs` |

An `MC` module of the same name gives TLC its instance (`MCPostService` for
`ForkServer` with its clients). Only `MtServer` promises one login for each account
and implements `LoginRegistry`. The children of `ForkServer` know nothing of each
other, so that what a registry would say of them is what their type says; what
matters there is stated of a child and its client together (`ViewsAgree`).

### How state and actions correspond to the code

Conventions. A critical section of a mutex is one action, because nobody else
can look inside it; memory that is used without its lock gets one action per
access. A blocking call is a guard. A client and the kernel are external: a client
sends, closes or is killed at any time, and the kernel hands out any free
descriptor. A `send()` to a client that has gone provokes a reset, now or later;
after the reset `send()` fails or SIGPIPE ends the process. Once the process is
ended, or the outcome of an undefined access is open, the model stutters
(`Ended`). History variables are marked as such.

* **MtServer.** `sessions`, `logged_in` (`loggedIn`) and `current_user_index`
  (`current`) are the code's; `pc` names the place in `client_handler` and
  `handle_protocol_with_session`, `code` the answer about to be sent, and `peer`
  and `unread` the socket. `MayLogIn`, `UserRefusal` and `LogIn` are
  `processUSER` in the order of its checks, in one critical section as in
  `auth.c`. A `send()` to a client that is connected and does not read may block: the
  step of the handler then does not come, which no property says it does. Command
  lines are counted in the socket (`unread`); how this
  server cuts them (at `\n`, in a buffer of 4096 bytes) is left out, except that a
  line that fills the buffer ends the connection.
* **WorkQueue.** `work_queue`, `queue_front`, `queue_rear`, `queue_count` are the
  code's. `waiting` is who sleeps in `pthread_cond_wait()`; `Signal` wakes one of
  them, `SpuriousWakeup` any. A worker whose `item` is `NoItem` is before
  its critical section.
* **PollServer.** `at`, `i`, `cur`, `buf` are the locals of `main()`; `poll_fds`,
  `sessions`, `poll_count`, `poll_size`, `active_connections` its arrays and
  counters. `heap` and `ses` are the sessions `malloc()` has given out, by
  address, so that a pointer in the queue may outlive its session. Data is
  counted in half commands: that is enough to end a `recv()` inside one, and takes
  it that `recv_until_delim()` returns the lines of the stream, which it does under
  the conditions of `LinesArrive` in `Framing`. `process_command()` is cut where
  `main()`, which takes no `session_lock`, may come in between: after the lock is
  taken and `sockfd` read (`LockSession`, which keeps it in `wfd`), after `logged_in`
  is set (`LogIn`), after an answer that still has a logout behind it (`ReplyBye`,
  `LogOut`). `locked` is the set of sessions whose lock is held; `UseFreed` is a step
  of a worker whose session has been freed. A client turned away for want of memory
  may leave the arrays larger (`RejectClient`).
  `revents` survives in the slot as it does in the code.
* **ThreadServer.** One action per access to a `Session` that is made without the
  mutex: `SetLoggedIn`, `FreeOldName`, `AllocName`, `CopyName` on one side,
  `ScanFlags`, `CompareName` on the other. `username` ranges over names and over
  what a pointer may point to otherwise (`Uninit`, `Freed`, `Null`); comparing
  freed or unwritten memory has any result. `sockfd` is what `malloc()` left
  there, since the code never assigns it (`HeapFds`); when that is the descriptor of
  a client, his check passes over the session (`PassesOver`). `window` is history: whose
  login a thread's check could not see, because it came later or was passed over. Of
  the answers the model keeps whether what was asked for was done.
* **SyncThread.** `put` is `nput`, `nval`; a pass of `produce` is `Store` or
  `ArrayFull`, then `Announce`; `consume` is wait, take, check.
* **Framing.** The buffer is a function from 0..`MaxLen`-1 to bytes and keeps what
  earlier calls left in it, which is what decides where `strstr()` stops. Any byte may
  come, a NUL too, and the buffer of the first call holds anything, also no NUL at
  all: then `strstr()` runs out of it (`ScanRunsOut`) and what follows is open. `Kept`
  is the truncation at `max_len`, `RestBehind` the new leftover. Two history
  variables say how far a run has gone well: `intact` that no byte was dropped and
  no garbage used, `covered` that behind each part of a line left over a NUL still
  stood, with no delimiter in front of it: the one of the message before, the one
  `recv()` wrote, or one of the part itself.
* **PostClient.** `at` is the place in `main()`: "menu" in front of `scanf()`,
  "wait" in `handle_server_response()`, "spin" in the loop over `getchar()` that
  does not know EOF. A connection is the lines and codes under way and the set of
  processes that hold its server end open (`holders`), so that the client reads
  the end of it only when all of them have closed. `Line` is the `snprintf()` of
  `send_message()`: a text too long loses its delimiter. `typed` is the name the user
  last asked for, `told` the name he was shown logged in and not logged out since.
* **ForkServer.** `parent` and `conn` are `main()` and its `conn_sock`; a child is
  named by its client. `sigchld` is the pending signal, one bit, and `handling` the
  activation of `sig_chld()`, during which the parent stands still and the kernel
  holds back the next signal. A command whose answer is the last thing done for it is
  one action (`Serve`), the failing `malloc()` an action of its own
  (`LogInWithoutName`); a BYE is two, since 130 is sent before the session is reset
  (`Bye`, `ForgetUser`). `Fork` gives the child every connection the parent has open,
  those included that a failed `fork()` left behind: a child closes `listen_sock` and
  nothing else of its parent's. A child exits, its descriptors close and it becomes a
  zombie in one step.
* **Validation.** A text is the sequence of what stands between its dots, so that
  `strtok()`, which skips empty segments, is a selection, and `strchr`, `".."` and a
  dot at either end are questions about empty segments. `Atoi` wraps at `IntRange`.
* **UdpResolver.** `current` is what `buffer` and `client_addr` hold, from one round
  of the loop to the next. Datagrams are bags, so that they may be doubled and
  overtake each other. `asked`, `shown`, `surplus` and `lost` are history: they
  number queries and count what the network did.
* **FileTransfer.** A client's stream is counted in units: the two halves of the
  command, then the bytes of the file. `taken` and `used` are how far `recv()`
  and the program have come; what lies between is in `ConnBuf`. A file's content
  says whose bytes it holds, and which. `AsInt` is the conversion `(int)filesize`
  with `IntHalf` in place of 2^31. `Foreign` clients send and stop where they
  like; the others follow `client.c`.

## 3. Runs

Every run finishes within a few minutes with two workers. Deadlock is checked in
all of them but two: in `post_service` every client runs once, and then the parent
waits in `accept()`; in `udp_resolver` every client makes a bounded number of
queries, and then all is quiet.

| run | asks | bounds, and why they are enough |
|---|---|---|
| `mt_server` | types, `UniqueLogin`, `TableMirrorsHandlers`, `ImplementsRegistry`, `GoneClientLeaves` | 3 threads, 3 descriptors, 2 slots, one account, one blocked, one unknown name, 1 line in flight: the table is full, a descriptor is used again while two clients live, two compete for one account, and others come and go while the handler of a client that has left is on its way out. Threads and descriptors are symmetric. |
| `poll_commands` | `NoLostWakeup`, `CommandsRunOnce`, `ImplementsFifo`, `CommandIsTaken` | 1 client with 4 commands, 2 workers, a ring of 2: the ring fills, empties and is gone round twice, so that its front moves while a worker wakes up and finds its item taken by the other; commands are cut, batched, dropped and overtaken. What two clients do to each other is the question of the next run. |
| `poll_server` | `PollTypeOK`, `ArraysAgree`, `ClientsAreApart`, `GoneClientIsRemoved` | 2 clients with a command each, 2 descriptors, 2 addresses, arrays of 2 that grow once to 4, 1 worker: slots shift, are used again, `realloc()` and `malloc()` may fail, and `main()` closes, frees and accepts between any two steps of a command. |
| `thread_server` | types, `ListIsExact`, `MutexIsReleased`, `DoubleLoginNeedsOverlap` | 3 threads, 2 descriptors, 2 slots, one account and one locked one, and an unassigned `sockfd` that holds the descriptor of one client and not of the other: two threads race, or one's check passes over the other's session, while a third takes over the descriptor of one of them. With two descriptors the array never fills; a refused registration has the effect of a failed `malloc()`, which is always possible. |
| `sync_thread` | types, `ItemInPlace`, `NoLostWakeup`, `CountsAddUp`, `Termination` | 3 producers, 4 items: announcements overtake each other, and producers meet a full array. |
| `framing` | types, `ScanStaysInside`, `LinesArrive` | all streams of up to 4 lines of 0 to 3 bytes, one with a line feed and one with a NUL of its own, whole or cut short, every cut by `recv()`, 5 kinds of garbage before the first call, 2 of them with no NUL, and a buffer of 12 bytes: bursts overflow it, and yet three lines fit into one `recv()`. In a buffer of 9 the fault of `framing_split` cannot happen, since a burst long enough for it has lost bytes. |
| `file_transfer` | types, `WholeFiles`, `ImplementsStore`, `NextIsServed` | a `client.c` and a foreign client, one good name and one rejected, sizes 0 to 2, `IntHalf` 2: they collide on a name, in both orders. |
| `post_service` | types, `ViewsAgree`, `RepliesMatch`, `LeaksAreFailedForks`, `ZombiesAreReaped`, `ClientIsNotStuck` | 2 clients with any number of requests each, an active, a locked and an unknown name and one of blanks, a line one byte too long, two descriptors for the parent: two children end while one signal is pending, the child of one client inherits the connection of the other and keeps it when the parent has ended, and the parent ends in `accept()`, after two failed `fork()` or for another reason. |
| `udp_resolver` | `VerdictsAgree`, `DatagramsAddUp`, `AnswerIsOwn`, `AnsweredUnlessLost` | 2 clients, 2 queries each, 2 faults: the answer to the first query is shown for the second, the server answers an old query after a failed `recvfrom()`, to either client. The checks are compared on all 271 452 texts of one to five of twelve segments (dots everywhere, zeros in front, 255, 256, numbers that wrap, hyphens, labels too long), with a label of 3, a name of 12 and an `int` of 1024 values, where four digits wrap as ten do in the code. |
| `poll_reuse` | **violation** of `LoggedInByOwnClient` | 2 clients, one address |
| `thread_server_race` | **violation** of `UniqueLogin` | 2 clients, one account; no unassigned `sockfd` is a client's descriptor, so that it is the race alone that breaks it |
| `framing_split` | **violation** of `MessagesAreLines` | as `framing` |

### What they show

* The second thread-per-client server keeps its promise: one connection per
  account, and a table that is true at every step. It implements `LoginRegistry`,
  in which there is no table, no thread and no descriptor.
* The first one does not. `thread_server_race`: the check for another login and
  the login are separate, and two clients get 110 for one account. What does hold
  is weaker, and `thread_server` shows it (`DoubleLoginNeedsOverlap`): two clients
  share an account only if one logged in between the other's check and the other's
  login, or if one's check took the other's session for its own. The second needs no
  race at all: `session->sockfd` is never assigned, and when `malloc()` happens to
  leave the caller's descriptor there, the loop passes over a session that is logged
  in to the account.
* The ring of the poll server is a correct bounded queue, although it signals
  once per item and a woken worker may find the item gone.
* What is put into it is not safe. `poll_reuse`: a queued command outlives its
  session, `malloc()` gives the address to the next client, and the old client's
  USER logs the new one in; the `active` flag, read from that memory, does not
  help. `ClientsAreApart` says how far this goes: only commands of clients whose
  connection is over stray, so that two clients that are connected at the same time
  never get each other's sessions or answers. That holds although a worker keeps the
  session pointer, and the descriptor it read from it, over several steps in which
  `main()` may close the one and free the other.
* `framing_split`: the leftover is copied to the front of the buffer without a NUL,
  and `strstr()` reads on behind it. When several lines and a part of another come in
  one `recv()` and the part is longer than the line before it, the NUL of that message
  is overwritten, and what `strstr()` meets next is the rest of the burst, delimiters
  included. In the run one `recv()` brings `"ab\r\n"`, `"a\r\n"` and the beginning
  `"ab"` of a third line; the program takes `"ab\nab"` for the third message, and the
  end of the third line, when it comes, for a fourth. The C function, compiled and
  fed a burst of this shape, does the same. There is a milder form: a part that ends
  in CR and finds the LF of the message before it right behind is
  returned early, and the late LF opens the next message, where the servers'
  `sscanf` skips it; `MessagesAreLines` allows that. `LinesArrive` says that in
  all other cases (`covered`) the messages are exactly the lines in front of the first
  NUL: a client that sends one is never answered again, since `strstr()` does not get
  past it and the lines behind it stay in the buffer.
  A client that waits for each answer, as the menu client does, never has two lines
  under way. The six copies of the function, in servers and clients, share this.
* The fork server and its client agree. Whatever else fails, a client's user was told
  which account his child has logged in (`ViewsAgree`), up to the moment in which the
  child has sent 130 and not reset its session yet, and with one exception: a
  `malloc()` that fails after `logged_in` was set leaves a session that is logged in,
  has no name and answered 500. Replies never get out of step with requests
  (`RepliesMatch`), although nothing but their order connects the two. The loop of
  `sig_chld()` is needed and enough: children that end together leave one signal
  (`ZombiesAreReaped`). A client waits for ever in two cases only
  (`ClientIsNotStuck`): `fork()` failed for it and its connection is open in the
  parent, or in a child that inherited it, or `snprintf()` cut the delimiter off its
  line.
* The UDP client shows the answer to the query before as soon as one datagram has
  been doubled, or a `recvfrom()` has failed, and from then on for the rest of its
  run (`AnswerIsOwn` says that nothing else brings it about, and `DatagramsAddUp`
  that programs and network together account for every datagram). One lost datagram
  leaves the client waiting (`AnsweredUnlessLost`).
* The checks of addresses (`VerdictsAgree`): whatever `inet_pton()` takes is taken;
  what is taken beyond that has a zero in front of a number or a number so long
  that `atoi()` wraps, and is answered "Not found" where "Invalid" is meant; HW2
  also takes texts with two dots in a row or a dot at an end.
* Files of the file server are whole uploads whatever happens to its clients,
  and even after SIGPIPE has ended it: it sends nothing while a file is open.

Behaviours that are in the models, that TLC reaches, and that no property forbids
because the stated property has to except them; each is a hazard in
`PROJECT.json`:

* HW7: a new client inherits `revents` of the slot's last one, and `main()` blocks
  in its `recv()`; half a command does the same, and stops every client
  (`GoneClientIsRemoved` excepts a `main()` that is blocked in `recv()`). After a
  failed `realloc()` the arrays are written past their end, and `leftover_len` is
  read from a freed session: from there on `fate` is `"undefined"` and the
  properties speak only of what comes before. Commands of one client are run in
  any order by different workers.
* HW7, and any of the servers with threads: `send()` to a client that is connected and
  does not read may block its thread for as long as that lasts.
* HW6: `strcmp()` of a name that another thread has freed or not yet written; a
  login that is answered 500 for want of memory and yet recorded, with a null name
  that ends the process at the next comparison.
* Framing: bytes beyond `max_len` are dropped without notice, and a line of that
  length makes the connection deaf; an empty line ends the connection; garbage in
  the first buffer may be taken for a message, and without a NUL in it the first
  `strstr()` runs out of it (`ScanStaysInside` says that no later one does).
  `LinesArrive` speaks of the streams before that (`intact`), and before the fault
  above (`covered`).
* HW4: the result of `fclose()` is not looked at, and a size of 2^31 or more makes
  the server skip what `ConnBuf` holds and store bytes sent behind the file; in
  both cases success may be reported of a file that is not whole (`lossy`). A
  failed upload deletes the older file of its name.

### Fairness

* `MtServer`: none is stated, and nothing is said of a client that is connected, whose
  handler may block in `send()`. Of a client that has gone, `GoneClientLeaves` says
  that each step of its handler brings it nearer to its end and that nobody else's
  takes it back; `send()` to such a client ends, and no handler blocks in it with the
  mutex. That the steps come is left to the scheduler.
* `SyncThread`: weak fairness of each thread: the scheduler runs every runnable
  thread, and mutexes are held for bounded sections.
* `PollServer`: weak fairness of `main()`, and of each worker's waiting and taking;
  none of finishing a command, since a worker may block in `send()` for as long as
  its client does not read, and none of clients.
* `ForkServer`: weak fairness of the parent, of the signal handler (the kernel
  delivers a pending signal), of each child and of what a client does by itself;
  none of users, who may sit at the menu for ever, and none that `fork()` or
  `malloc()` succeeds.
* `UdpResolver`: weak fairness of the server (a lookup ends, since the resolver
  library has timeouts) and of a client that has a datagram to read; none of users,
  and none of the faults.
* `FileTransfer`: weak fairness of the server, and of the steps a client takes by
  itself; none of the user at the prompt, of connecting, of being killed, or of
  foreign clients. That is why `NextIsServed` excepts a server that waits for one
  of those: it serves one connection at a time, with no timeout.

## 4. Proofs

All for every value of the constants, from the named assumptions of the modules
(which TLC evaluates in each run).

* **`MtServerProofs`** – `Typing`, `UniqueLoginHolds`, `TableAgrees`,
  `RefinesRegistry`, `GoneClientLeavesHolds`.
  `TableMirrorsHandlers` is not inductive: a slot is found by
  descriptor, so one needs that every open descriptor has one owner (`OneOwner`),
  a handler or `main()` between `accept()` and `pthread_create()`, and that a
  handler's flag and name agree (`LocalAgree`). With these, `IInv` is inductive:
  a handler's slot is the only one with its descriptor, `remove_session()` runs
  before `close()`, and the check and the login are one step. The refinement
  follows step by step: LogIn is Login, Bye and RemoveSession are Logout, the rest
  stutters. `GoneClientLeavesHolds` is about steps, not states: a handler's own step
  lowers `StepsLeft`, and a step of anybody else leaves its `pc`, its socket and
  its queue of lines alone.
* **`PollServerProofs`** – of the ring `QueueTyping`, `WakeupTheorem`,
  `QueueRefinesFifo`; of the server `PollTyping`, `ArraysAgreeHolds`,
  `CommandsRunOnceHolds`, `PollUsesQueue`, `PollWakesWorkers`, `PollQueueIsFifo`,
  `ClientsAreApartHolds`, `MainMissesNothingHolds`. The typing of the ring holds
  `queue_rear = (queue_front + queue_count) % Size`, from which the ring seen as a
  sequence (`Queued`) grows at its end and shrinks at its front. No wake-up is lost
  because every item that arrives while somebody sleeps adds a worker that is awake,
  and a worker sleeps only when the queue is empty. The theorems about the server hold
  while the process runs and what it does is defined (`Alive`): an overrun of the
  arrays or a read of a freed session ends what can be said. `ArraysAgree` is
  inductive together with the ranges and the place of `main()` (`Good`); the work is
  in `DisconnectKeeps`, where the slots behind the removed one move down and `Old`
  says where each came from, and in `AcceptKeeps`, where the arrays may grow. The
  server's steps are steps of `WorkQueue` (`QueueSteps`: what `main()` enqueues is a
  work item, since the session it reads from is a live one), so that the theorems
  about the queue hold in the server. `CommandsRunOnce` needs more: a command's number
  is above those of its client's commands anywhere, because all of them lie below the
  half commands `main()` is done with (`Below`, `Done`), and these never go back
  (`DoneGrows`); and an item that passes from the ring to a worker to the answers
  leaves the place it was in (`TakeOnce`, `AnswerOnce`). A BYE is answered before it
  is done, and its item no longer counts from then on (`Unanswered`).
  `ClientsAreApart` is proved by `Apart`: each open descriptor has a connection of its
  own (`Links`), and whoever goes by a session pointer (a command in the queue, one
  that a worker holds, the user logged in) does so for the connection the session now
  belongs to, or for one that is over (`Own`); the same goes for a descriptor that a
  worker has read from its session and not used yet (`OwnSocket`). A step that frees a
  session and closes its descriptor makes the second of the first, and a connection
  that is over stays so (`LinksKeep`). `MainMissesNothing` says that `main()` sits in
  `poll()` only when there is nothing for it: by `ArraysAgree` no open descriptor is
  missing from the slots `poll()` is given, however they were shifted, and no bytes
  stay behind in a leftover; and that `accept()`, which would block, is called with
  the `revents` that `poll()` has just written (`Fresh`).
* **`ThreadServerProofs`** – `ThreadTyping`, `ListIsExactHolds`,
  `MutexIsReleasedHolds`, `DoubleLoginTheorem`. The first three follow from `Base`:
  what each thread knows by where it is (`ThreadOK`), which a step of another thread
  cannot change, since the list stands still while somebody holds the mutex.
  `DoubleLoginTheorem` assumes nothing of an unassigned `sockfd`. It rests on
  `ScanFinds`: whoever is logged in to the account a thread is after is on record in
  its `window`, for a login while the thread was at it or because the thread passed
  over his session, or is still ahead of the thread in its loop; and on the order
  in which the flag, the old name and the new one are written, in which only the
  copy of the name makes a login visible (`LoginIsCopy`).
* **`SyncThreadProofs`** – `Typing`, `ItemInPlaceHolds`, `NoLostWakeupHolds`,
  `CountsAddUpHolds`, `ProducerIsAwaitedHolds`, `StepsRunOutHolds`. The invariant
  is a ledger: items stored = taken + announced and not taken + stored and not yet
  announced. Hence an announced item is in place, whichever producer announced. That
  the producers' own counts add up to the number of items follows from two parts more:
  what is counted is what was announced, whoever counted it (`CountsAgree`), and the
  consumer leaves its loop only after the last item (`DoneAtEnd`). The last two are
  the parts of `Termination` that need no fairness: while the consumer sleeps some
  producer is still at work (with at least one producer, and because a producer
  returns only from a full array, `LoopsEnd`), and every step but going to sleep and
  waking up without a signal lowers `StepsLeft`, a natural number.
* **`FramingProofs`** – `FramingTyping`, `ScanIsBounded`, `LinesArriveHolds`. Nothing is
  assumed of the stream or of what the buffer holds before the first call. That the
  buffer holds a NUL is not inductive, since `memcpy()` of the leftover may overwrite
  it; that it holds one at or behind the end of the call's bytes is
  (`NulBehindFront`), because each return keeps fewer bytes than the call had. It
  begins with the first byte received or message returned: before that, nothing is
  there to be taken back (`NothingBefore`), and the first scan may leave the buffer.
  `LinesArriveHolds` rests on `Lines`: what a call has in front of it is the end of
  the stream received (`FrontOfGot`), which begins at the beginning of a line
  (`AtLineStart`); the messages are the lines before that (`LinesWithin`), with no NUL
  among them (`CleanUsed`), so that the first NUL of the stream is still to come;
  and a whole line waits, or a NUL of the stream does (`NulWaits`), or a NUL stops
  `strstr()` before it completes a delimiter out of older bytes (`NothingBehind`).
  The last one is where a first
  statement of `LinesArrive`, which excepted only the milder form of the fault,
  failed: TLC found nothing against it with a buffer of 9 bytes, and from 10 on it is
  false. `covered` is what the step that keeps `NothingBehind` needs.
* **`ForkServerProofs`** – `PostTyping`, `OnlyFailedForksLeak`, `ViewsAgreeHolds`,
  `RepliesMatchHolds`, `ZombiesAreSignalledHolds`, `SomebodyOwesHolds`. `ViewsAgree`
  and `RepliesMatch` are not inductive: they look at a client when the answer is
  there, and what makes the answer right is what was under way before. `IInv` says
  that client and server take turns (`Dialogue`: what the connection may carry at each
  place of the client, and how far the child is then), what the user was told or is
  about to be told (`Views`), that a child without a login has no user name
  (`Session`), and that the backlog holds distinct connections of which only the
  kernel knows, while the parent holds what it hands over (`Handover`). What a child
  holds open besides its own connection was lost before it was forked, which `Fork`
  keeps because the parent holds nothing else. `ZombiesAreSignalled` is kept by each
  step: a child that ends leaves the signal pending, and the handler leaves its loop
  only when it finds no zombie, so that a signal merged into another is not missed.
  `SomebodyOwes` says whose turn it is while a client waits: the answer or the end of
  the connection is there, its child has a request to serve, or the parent has the
  connection to hand over. It needs that a connection only the kernel holds is in the
  backlog of a parent that lives (`KernelHolds`), and excepts what `ClientIsNotStuck`
  excepts, for any number of descriptors and whoever inherited the lost ones
  (`Leaked`).
* **`FileTransferProofs`** – `TransferTyping`, `WholeFilesHolds`,
  `TransferRefinesStore`, `NobodyAwaitsEachOtherHolds`. `WholeFiles` is not inductive:
  it says nothing of the file that is being written. `IInv` adds how far the server is
  with it (`Upload`): the file is the beginning of the upload and `recv()` goes on
  right behind it (`InStep`), or the stream ended inside the command line and nothing
  will come (`CutShort`), which stays so because a client that ended its direction of
  the stream sends no more (`EndsAreFinal`). That the leftover in `ConnBuf` is cut at
  `(int)filesize` is harmless below 2^31 since a size as an int is never more than it
  is (`AsIntAtMost`); from there on the upload counts as lossy. The refinement needs
  that nobody is served twice (`ServedOnce`): a client whose file is given up was not
  told of it before. Opening the file is GiveUp, the last byte Store, the answer
  Report, the rest stutters. `NobodyAwaitsEachOther` says that the server and a client
  that follows `client.c` never sit in `recv()` for each other, although the server
  reads ahead into `ConnBuf`. The invariant is `InPlace`: each client is ahead of
  `connect()`, in the backlog, served or hung up on (`Place`), and for the one that is
  served `Turn` says which messages and units may be under way at each line of the
  server.
* **`UdpResolverProofs`** – `VerdictsRight`, `VerdictsAlwaysAgree`,
  `NothingForgotten`, `OwnAnswer`, `AnswerIsUnderWayHolds`. `VerdictsRight` is about
  every text, not the samples of the run. A number of up to three digits is what its
  digits say (`ValueUpToThree`) and fits into an `int`, so that `atoi()` and
  `inet_pton()` agree on it but for zeros in front; and four such numbers with their
  dots fit into the array. That is what it assumes of the sizes (`SizesAssumption`:
  `MAX_LENGTH_IPv4` above 15, an `int` of 1000 values or more; the code has 17 and
  2^32). The invariant `UdpInv` is the ledger `DatagramsAddUp` itself, the ranges, and
  `Current`: until a surplus datagram for a client has come up, whatever is under way
  for it belongs to its last query. That a new query keeps `Current` is where the
  ledger is needed: a client at its prompt with no surplus has nothing under way. The
  work is in the bags: a datagram put in or taken out is one copy more or less for its
  client and none for anybody else, and copies are counted as a finite set of pairs.
  The ledger also says that a client waits for something (`AnswerIsUnderWayHolds`):
  with no datagram of its own lost, its query is on the way or in the lookup, or an
  answer is on its way back.

Only model-checked: liveness under fairness (`GoneClientIsRemoved`, `CommandIsTaken`,
`NextIsServed`, `Termination`, `ZombiesAreReaped`, `ClientIsNotStuck`,
`AnsweredUnlessLost`), which is out of the prover's reach. Every other property of a
passing run is stated by a theorem. What fairness and the scheduler act on is proved,
for every value of the constants, as a fact about states or steps:

| checked by TLC | what is proved of it | what is left to TLC |
|---|---|---|
| `Termination` | while the consumer sleeps, a producer is at work (`ProducerIsAwaitedHolds`); steps run out (`StepsRunOutHolds`) | that the consumer does not wake up for nothing for ever while nobody else runs |
| `CommandIsTaken` | while items wait, workers are awake for them (`PollWakesWorkers`) | that one of them gets there |
| `GoneClientIsRemoved` | `main()` does not sit in `poll()` while a client that has gone has a descriptor open (`MainMissesNothingHolds`) | that the loop comes round to its slot |
| `ZombiesAreReaped` | a zombie is announced or the handler is at work (`ZombiesAreSignalledHolds`) | that the signal is delivered and the loop ends |
| `ClientIsNotStuck` | somebody has the next step (`SomebodyOwesHolds`) | that it is taken |
| `AnsweredUnlessLost` | query or answer is under way (`AnswerIsUnderWayHolds`) | that the server gets to it |
| `NextIsServed` | server and client do not wait for each other (`NobodyAwaitsEachOtherHolds`) | that each client comes to its end |

## 5. Not modelled, and the plan

Not modelled:

* the account manager (HW1): one user, one thread, a list and a file; each operation
  ends before the next prompt, so that there is no order of events to explore;
* the line client of `TCP-multithread-main`: it has no state; what it may send is
  among what the clients of `MtServer` send;
* `HW7/poll_server.c`, which does not compile; the test programs and data;
* log files and terminal output, arguments (`validate_port`, `inet_addr()`) and the
  set-up of sockets, the contents of posts, the file of accounts beyond its set of
  names;
* in HW3: the byte in front of `buffer` that a failed `recvfrom()` overwrites, and the
  `memset()` of the set-up that runs over `sin_zero` (nothing that is used later is
  taken to lie there); a datagram from somebody else than the server, after which
  the client's next query goes to its sender;
* in the menu client: a `send()` to a connection that has been reset, which ends the
  client by SIGPIPE where the model has it read the end of the connection.

Left of the plan: nothing of the models. `PollServer` and the post clients take
whole commands for granted; composing them with `Framing`, byte by byte, is beyond
what TLC can explore, and `LinesArriveHolds` states under which conditions it is
right to do so.
