CONSTANTS
  r1 = r1
  r2 = r2
  Names <- MCNames
  Content <- MCContent
  Readers = {r1, r2}
  MaxChunk = 2
  NoHolder = NoHolder
SPECIFICATION Spec
INVARIANT TypeOK
INVARIANT DirectoryMatchesSources
INVARIANT SubFileRoundTrip
CHECK_DEADLOCK FALSE
