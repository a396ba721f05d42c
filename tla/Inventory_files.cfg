SPECIFICATION Spec
CONSTANTS
  Null = Null
  Riches = {"names", "contents", "addresses"}
  SubtreeCap = 1
  Containers = {"FIToFICstmrCdtTrf", "MndtAmdmntReq", "BkToCstmrStmt"}
  MaxMessages = 2
  MaxRecords = 2
  MaxParties = 2
  MaxLeaves = 7
  LineChars = 2
  Note = Note
INVARIANTS
  PartiesAreTheMessages
  NumberedAsCounted
  NamedForWhatItIs
  FindingsAreTheRule
