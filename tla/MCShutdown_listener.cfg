SPECIFICATION ProcessSpec
CONSTANT Conns = {"c1"}
PROPERTIES ExitsAfterSignal
CHECK_DEADLOCK FALSE
