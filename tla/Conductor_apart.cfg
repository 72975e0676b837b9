\* Overlapping invocations, of which no two work on the same container; an image may go while it is copied.
CONSTANTS
  Proc = {p1, p2}
  Name = {a, b}
  Image = {i}
  MaxSession = 2
  MaxPrefix = 1
  NetOptions = {"plain"}
  Commands = {"rmi", "run", "stop", "addnetwork"}
  Overlap = FALSE
SPECIFICATION Spec
INVARIANTS
  TypeOK
  DevSafe NoOrphans StoppedIsGone LinkIntoOwnContainer
SYMMETRY Symmetry
