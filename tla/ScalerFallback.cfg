CONSTANT Calls <- MCCalls
SPECIFICATION Spec
INVARIANT AskedIsStored
CHECK_DEADLOCK FALSE
