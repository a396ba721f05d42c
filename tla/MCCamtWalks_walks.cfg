SPECIFICATION Spec
CONSTANTS
  null = null
  Null = null
  Layouts <- AllLayouts
  Grains <- AllGrains
  Idents <- SomeIdents
  SubtreeCap = 3
  MaxDepth = 6
  MaxStatements = 2
  MaxHeaders = 2
  MaxRecords = 2
INVARIANTS
  JoinKeysAgree
  KeysAreThePlace
  ContextIsTheirOwn
  EndsForCause
