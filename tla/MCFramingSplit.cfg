\* Three lines in one recv(), the last cut short.
CONSTANTS
  a = a  b = b
  Letters = {a, b}
  CR = CR
  LF = LF
  NUL = NUL
  MaxLen = 12
  MaxLines = 4
  Streams <- SomeStreams
  FreshBuffs <- SomeBuffs
SPECIFICATION Spec
INVARIANT MessagesAreLines
