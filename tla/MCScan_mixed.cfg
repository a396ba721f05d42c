SPECIFICATION FairSpec
CONSTANTS
  none = none
  NoRequest = none
  NFiles = 3
  VectorSize = 2
  Parallelism = 2
  FileKinds <- MixedKinds
  Requests <- DefaultOrOne
INVARIANTS
  TypeOK
  OneReaderPerFile
  BatchesInFlight
  BatchFits
PROPERTIES
  Implements
  QueryEnds
  ThreadsExit
