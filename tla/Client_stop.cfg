\* Stop calls: is an error reported only for a container left running?
CONSTANTS
  c1 = c1
  c2 = c2
  g1 = g1
  g2 = g2
  NoOne = NoOne
  Containers <- MCContainers
  Callers <- MCCallers
  AutoRemove <- MCAutoRemove
  Ops = {"stop"}
  Filters = {FALSE}
  DryRun = FALSE
SYMMETRY CallerSymmetry
SPECIFICATION Spec
INVARIANT StopReportsTruth
