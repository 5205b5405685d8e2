SPECIFICATION ProcessSpec
CONSTANT Conns = {"c1", "c2", "c3"}
INVARIANTS OrderlyExit
PROPERTIES ExitsWithLiveListener
CHECK_DEADLOCK FALSE
