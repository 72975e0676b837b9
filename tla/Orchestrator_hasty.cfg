\* The script alone; ten seconds are not enough for a container to start.
CONSTANTS
  Proc = {p1, p2}
  Name = {c1, c2}
  Image = {deb_img}
  c1 = c1
  c2 = c2
  deb_img = deb_img
  MaxSession = 2
  MaxPrefix = 2
  NetOptions = {"internet", "expose"}
  Commands = {"build", "run", "exec", "addnetwork", "peer"}
  AdminCommands = {}
  Overlap = TRUE
  Patience = {FALSE}
SPECIFICATION OrchestratorSpec
PROPERTY ExecInRoot
