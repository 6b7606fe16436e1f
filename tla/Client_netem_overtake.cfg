\* Netem calls without a target IP, the duration abstracted (any parsed duration, 1ms included): can the teardown tc run before the setup tc?
CONSTANTS
  c1 = c1
  c2 = c2
  g1 = g1
  g2 = g2
  NoOne = NoOne
  Containers <- MCContainers
  Callers <- MCCallers
  AutoRemove <- MCAutoRemove
  Ops = {"netem"}
  Filters = {FALSE}
  DryRun = FALSE
SYMMETRY CallerSymmetry
SPECIFICATION Spec
INVARIANT NetemReverted
