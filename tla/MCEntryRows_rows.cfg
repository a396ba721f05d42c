SPECIFICATION Spec
CONSTANTS
  Null = Null
  Refused = Refused
  Scale = 2
  Width = 4
  Files <- SmallFiles
INVARIANTS
  RowsAreTheContents
  AmountsAreExact
  CountsAreRows
  ConvenienceIsNoGuess
  LinesAreSliced
