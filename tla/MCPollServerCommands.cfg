\* One client with four commands, a pool of two workers and a ring of two slots,
\* which the commands go round twice.
CONSTANTS
  w1 = w1  w2 = w2  c1 = c1  c2 = c2  f1 = f1  f2 = f2  s1 = s1  s2 = s2
  Workers = {w1, w2}
  Items <- AllItems
  NoItem = NoItem
  Size = 2
  Conns = {c1}
  Fds = {f1}
  NoFd = NoFd
  Heap = {s1}
  PollSize = 2
  MaxPollSize = 2
  MaxCommands = 4
SPECIFICATION FairPollSpec
INVARIANTS NoLostWakeup CommandsRunOnce
PROPERTIES ImplementsFifo CommandIsTaken
