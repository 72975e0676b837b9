CONSTANTS
  GuestExits = {"IO", "MMIO", "SHUTDOWN", "OTHER"}
  KvmErrors = TRUE
SPECIFICATION FairSpec
INVARIANTS IInv BlameIsRight
PROPERTIES
  ImplementsFairShare
  NoStarvation
CHECK_DEADLOCK FALSE
