CONSTANT Readers = {m, n}
SPECIFICATION Spec
INVARIANT RefusalByteThere
CHECK_DEADLOCK FALSE
