\* Up to four lines of at most three bytes, cut by recv() in every way; a buffer of
\* twelve bytes, which a burst of four lines overflows and one of three need not.
CONSTANTS
  a = a  b = b
  Letters = {a, b}
  CR = CR
  LF = LF
  NUL = NUL
  MaxLen = 12
  MaxLines = 4
  Streams <- SomeStreams
  FreshBuffs <- SomeBuffs
SPECIFICATION Spec
INVARIANTS FramingTypeOK ScanStaysInside LinesArrive
