CONSTANT Calls <- MCCalls
SPECIFICATION Spec
INVARIANTS Scaled KeepsToLine
PROPERTY Finishes
CHECK_DEADLOCK FALSE
