CONSTANTS
  GuestExits = {"IO", "MMIO", "SHUTDOWN", "OTHER"}
  KvmErrors = TRUE
SPECIFICATION FairSpec
INVARIANT IInv
PROPERTIES
  ImplementsFairShare
  NoStarvation
CHECK_DEADLOCK FALSE
