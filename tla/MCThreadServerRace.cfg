\* No unassigned sockfd holds a client's descriptor: what is left is the race.
CONSTANTS
  h1 = h1  h2 = h2  h3 = h3
  f1 = f1  f2 = f2  f3 = f3
  stdin = stdin  alice = alice  bob = bob
  Handlers = {h1, h2}
  Fds = {f1, f2}
  NoFd = NoFd
  HeapFds = {stdin}
  MaxSessions = 2
  Accounts = {alice}
  Locked = {}
  Unknown = Unknown
  Nobody = Nobody
  MaxUnread = 1
SYMMETRY Symmetry
SPECIFICATION Spec
INVARIANT UniqueLogin
