SPECIFICATION Spec
CONSTANTS
  Null = Null
  Family <- Families
  Layout <- Layouts
  SubtreeCap = 3
  MaxMessages = 2
  MaxOpens = 5
  MaxTexts = 2
  Irregular = FALSE
INVARIANTS
  RowsAreDue
  ColumnsInScope
  ReasonsAreWhole
PROPERTY EndsAsItShould
