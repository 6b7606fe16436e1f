\* Remove calls: are volumes removed only when --volumes is given?
CONSTANTS
  c1 = c1
  c2 = c2
  g1 = g1
  g2 = g2
  NoOne = NoOne
  Containers <- MCContainers
  Callers <- MCCallers
  AutoRemove <- MCAutoRemove
  Ops = {"rm"}
  Filters = {FALSE}
  DryRun = FALSE
SYMMETRY CallerSymmetry
SPECIFICATION Spec
INVARIANT VolumesOnlyIfAsked
