\* Pause under --random on two containers, ticks without end, up to two cycles live at once, fair goroutines: SignalLeadsToExit.
CONSTANTS
  c1 = c1
  c2 = c2
  Containers <- MCContainers
  AutoRemove <- MCAutoRemove
  Callers <- MCCallers
  MaxCycles = 2
  Selected = {c1, c2}
  Ops = {"pause"}
  Filters = {FALSE}
  DryRun = FALSE
  Random = TRUE
SPECIFICATION PumbaFairSpec
PROPERTY SignalLeadsToExit
