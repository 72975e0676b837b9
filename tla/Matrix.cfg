\* The program with the shares of matrix.c; guests that cause every exit, and calls that may fail.
CONSTANTS
  FRAC_A = 7
  FRAC_B = 3
  GuestExits = {"IO", "MMIO", "SHUTDOWN", "OTHER"}
  KvmErrors = TRUE
SPECIFICATION MatrixSpec
INVARIANTS IInv GuestsRunMade CleanUpCloses
PROPERTIES
  ImplementsFairShare
  NoStarvation
  QuantumCostsTwoTicks
CHECK_DEADLOCK FALSE
