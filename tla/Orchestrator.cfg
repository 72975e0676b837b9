\* The script, and then somebody who keeps asking for both containers to be stopped.
CONSTANTS
  Proc = {p1, p2}
  Name = {c1, c2}
  Image = {deb_img}
  c1 = c1
  c2 = c2
  deb_img = deb_img
  MaxSession = 2
  MaxPrefix = 2
  NetOptions = {"internet", "expose"}
  Commands = {"build", "rmi", "run", "exec", "stop", "addnetwork", "peer"}
  Overlap = TRUE
  Patience = {TRUE, FALSE}
  AdminCommands = {"rmi"}
SPECIFICATION OrchestratorSpec
INVARIANT DeploymentStands
PROPERTY
  StopWorksInTheEnd
