\* An unassigned sockfd holds the descriptor f1: the check of the client that has f1
\* passes over every session but its own, that of the other client over none.
CONSTANTS
  h1 = h1  h2 = h2  h3 = h3
  f1 = f1  f2 = f2  f3 = f3
  stdin = stdin  alice = alice  bob = bob
  Handlers = {h1, h2, h3}
  Fds = {f1, f2}
  NoFd = NoFd
  HeapFds = {f1}
  MaxSessions = 2
  Accounts = {alice, bob}
  Locked = {bob}
  Unknown = Unknown
  Nobody = Nobody
  MaxUnread = 1
SYMMETRY Symmetry
SPECIFICATION Spec
INVARIANTS TypeOK ListIsExact MutexIsReleased DoubleLoginNeedsOverlap
