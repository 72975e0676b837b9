\* Two overlapping invocations on the same container.
CONSTANTS
  Proc = {p1, p2}
  Name = {a}
  Image = {i}
  MaxSession = 2
  MaxPrefix = 1
  NetOptions = {"plain"}
  Commands = {"run", "stop"}
  Overlap = TRUE
SPECIFICATION Spec
INVARIANT DevSafe
SYMMETRY Symmetry
