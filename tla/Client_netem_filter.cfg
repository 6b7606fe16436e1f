\* Netem calls with a target IP: does the teardown remove what the start built?
CONSTANTS
  c1 = c1
  c2 = c2
  g1 = g1
  g2 = g2
  NoOne = NoOne
  Containers <- MCContainers
  Callers <- MCCallers
  AutoRemove <- MCAutoRemove
  Ops = {"netem"}
  Filters = {TRUE}
  DryRun = FALSE
SYMMETRY CallerSymmetry
SPECIFICATION Spec
INVARIANT NetemReverted
