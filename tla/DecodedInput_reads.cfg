SPECIFICATION FairSpec
CONSTANTS
  MaxBytes = 6
  PrefixBytes = 2
  StagingBytes = 3
  BufBytes = 2
PROPERTIES
  Implements
  ReadsReturn
