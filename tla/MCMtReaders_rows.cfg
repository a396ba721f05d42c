SPECIFICATION CountedSpec
CONSTANTS
  null = null
  Null = null
  MaxLines = 5
  Corpora <- Files
INVARIANTS
  NarrativesKeepTheirPlace
  ColumnsKeepToTheirSequence
  RowsAreTheTransactions
  InventoryCountsTheRows
  AuditNamesTheColumns
PROPERTIES
  RowsAreTheEntries
