SPECIFICATION Spec
CONSTANTS
  null = null
  Null = null
  Layouts <- TwoMessages
  Grains <- EntriesOnly
  Idents <- SomeIdents
  SubtreeCap = 3
  MaxDepth = 6
  MaxStatements = 2
  MaxHeaders = 2
  MaxRecords = 2
INVARIANTS
  MessagesAgree
