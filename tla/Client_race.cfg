\* Two callers making any client call on two containers, real (not dry) run, any interleaving.
CONSTANTS
  c1 = c1
  c2 = c2
  g1 = g1
  g2 = g2
  NoOne = NoOne
  Containers <- MCContainers
  Callers <- MCCallers
  AutoRemove <- MCAutoRemove
  Ops = {"kill", "stop", "pause", "rm", "netem"}
  Filters = {FALSE, TRUE}
  DryRun = FALSE
SPECIFICATION Spec
INVARIANT PauseExclusive
SYMMETRY CallerSymmetry
