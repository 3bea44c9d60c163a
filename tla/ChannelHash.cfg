SPECIFICATION Spec
CONSTANT Setups <- HashSetups
INVARIANT ReadsReturnLastWrite
CHECK_DEADLOCK FALSE
