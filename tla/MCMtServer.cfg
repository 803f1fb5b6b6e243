CONSTANTS
  h1 = h1  h2 = h2  h3 = h3
  f1 = f1  f2 = f2  f3 = f3
  alice = alice  bob = bob  mallory = mallory
  Handlers = {h1, h2, h3}
  Fds = {f1, f2, f3}
  NoFd = NoFd
  MaxSessions = 2
  Names = {alice, bob, mallory}
  Accounts = {alice, bob}
  Blocked = {bob}
  NoName = NoName
  MaxUnread = 1
SYMMETRY Symmetry
SPECIFICATION Spec
INVARIANTS TypeOK UniqueLogin TableMirrorsHandlers
PROPERTIES ImplementsRegistry GoneClientLeaves
