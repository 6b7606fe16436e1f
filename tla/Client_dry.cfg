\* Two callers making any client call under --dry.
CONSTANTS
  c1 = c1
  c2 = c2
  g1 = g1
  g2 = g2
  NoOne = NoOne
  Containers <- MCContainers
  Callers <- MCCallers
  AutoRemove <- MCAutoRemove
  Ops = {"kill", "stop", "pause", "rm", "netem"}
  Filters = {FALSE, TRUE}
  DryRun = TRUE
SYMMETRY CallerSymmetry
SPECIFICATION Spec
PROPERTY DryRunInert
