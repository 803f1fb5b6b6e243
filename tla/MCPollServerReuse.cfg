\* A command runs in the session of the next client.
CONSTANTS
  w1 = w1  w2 = w2  c1 = c1  c2 = c2  f1 = f1  f2 = f2  s1 = s1  s2 = s2
  Workers = {w1}
  Items <- AllItems
  NoItem = NoItem
  Size = 1
  Conns = {c1, c2}
  Fds = {f1}
  NoFd = NoFd
  Heap = {s1}
  PollSize = 2
  MaxPollSize = 2
  MaxCommands = 1
SPECIFICATION PollSpec
INVARIANT LoggedInByOwnClient
