SPECIFICATION Spec
CONSTANTS
  LineCount = 3
  LinesPerChunk = 2
  CacheLimit = 1
  Banks = {0}
  NoRow = NoRow
  BankOf <- MCBankOf
  RowOf <- MCRowOf
  Setups <- MaskedSetups
  MaxWrites = 2
  MaxStarts = 2
INVARIANT
  ErrorsAreCorrectable
CHECK_DEADLOCK FALSE
