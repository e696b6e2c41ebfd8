CONSTANTS
  conn1 = conn1  conn2 = conn2  conn3 = conn3
  Conn = {conn1, conn2, conn3}
  Block <- MCBlocks
  Initial <- MCInitial
SPECIFICATION ConfigureFairSpec
INVARIANTS Coherent IdenticalAppliedOnce
PROPERTIES NoLostUpdate ReportsChanges ConfiguresReturn
CHECK_DEADLOCK FALSE
