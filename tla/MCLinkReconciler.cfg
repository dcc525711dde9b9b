CONSTANTS
  Names <- MCNames
  Indexes <- MCIndexes
  HwAddrs <- MCHwAddrs
  NoName = NoName
  KeepIndexOnDelete = FALSE
SPECIFICATION Spec
INVARIANTS TypeOK IndexUnique ViewMatchesTable
