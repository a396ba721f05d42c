SPECIFICATION Spec
CONSTANTS
  Null = Null
  BufBytes = 2
  MaxLines = 3
  Settings <- FramesSettings
INVARIANTS
  FramedAsWritten
  RefusedForCause
  Bounded
