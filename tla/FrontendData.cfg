SPECIFICATION Spec
CONSTANT Setups <- PassSetups
INVARIANTS
  ReadsReturnLastWrite
  NeverThrows
  MergedTraceLegal
  DfiAccepts
  DfiFaultsSeen
  RemainingAddsUp
CHECK_DEADLOCK FALSE
