\* One invocation after the other; containers start and end by themselves.
CONSTANTS
  Proc = {p1}
  Name = {a, b}
  Image = {i}
  MaxSession = 3
  MaxPrefix = 2
  NetOptions = {"expose", "expose_only"}
  Commands = {"build", "run", "exec", "stop", "addnetwork", "peer"}
  Overlap = FALSE
SPECIFICATION Spec
INVARIANTS UniqueNumbers PortsLeadToAsker
PROPERTIES
  RulesOfOthersStay
SYMMETRY Symmetry
