SPECIFICATION Spec
CONSTANT Setups <- UnevenSetups
INVARIANTS
  RemainingAddsUp
CHECK_DEADLOCK FALSE
