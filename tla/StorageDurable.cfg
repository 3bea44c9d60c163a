SPECIFICATION Spec
CONSTANTS
  LineCount = 3
  LinesPerChunk = 2
  CacheLimit = 1
  Banks = {0}
  NoRow = NoRow
  BankOf <- MCBankOf
  RowOf <- MCRowOf
  Setups <- SafeSetups
  MaxWrites = 2
  MaxStarts = 2
INVARIANTS
  ReadsSeeWrites
  CountersCountLines
  FlushedFilesAreComplete
  ErrorsAreCorrectable
CHECK_DEADLOCK FALSE
