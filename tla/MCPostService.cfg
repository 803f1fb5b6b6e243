\* Two clients; a message one byte too long loses the end of its delimiter; a
\* child may inherit the connection of one failed fork(), and two of them use up the
\* parent's descriptors, if accept() has not failed before.
CONSTANTS
  c1 = c1  c2 = c2
  alice = alice  bob = bob  mallory = mallory
  Clients = {c1, c2}
  Blank = Blank
  NULL = NULL
  NoName = NoName
  Names = {alice, bob, mallory, Blank}
  Active = {alice}
  Locked = {bob}
  BuffSize = 8
  Lengths = {5, 6}
  FdLimit = 2
SPECIFICATION FairSpec
INVARIANTS PostTypeOK ViewsAgree RepliesMatch LeaksAreFailedForks
PROPERTIES ZombiesAreReaped ClientIsNotStuck
\* Every client runs once; then the parent waits in accept() for ever.
CHECK_DEADLOCK FALSE
