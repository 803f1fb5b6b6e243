\* A client.c and a foreign client upload files of up to two bytes, to one name
\* or to a name the server rejects; an int is negative from a size of two on.
CONSTANTS
  c1 = c1  c2 = c2  notes = notes  bad = bad
  Clients = {c1, c2}
  Foreign = {c2}
  NoClient = NoClient
  Names = {notes, bad}
  BadNames = {bad}
  MaxSize = 2
  IntHalf = 2
SPECIFICATION FairSpec
INVARIANTS TransferTypeOK WholeFiles
PROPERTIES ImplementsStore NextIsServed
