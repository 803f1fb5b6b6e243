\* Two clients with two queries each, and two faults of the network or of recvfrom().
CONSTANTS
  c1 = c1  c2 = c2
  Clients = {c1, c2}
  NoQuery = NoQuery
  MaxAddress = 17
  MaxLabel = 3
  MaxName = 12
  IntRange = 1024
  Samples <- AllSamples
  Queries <- SomeQueries
  MaxQueries = 2
  MaxFaults = 2
SPECIFICATION FairSpec
INVARIANTS VerdictsAgree DatagramsAddUp AnswerIsOwn
PROPERTY AnsweredUnlessLost
\* Every client makes a bounded number of queries; then nobody sends any more.
CHECK_DEADLOCK FALSE
