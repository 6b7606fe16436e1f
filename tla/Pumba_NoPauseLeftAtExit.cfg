\* Pause on two containers, ticks without end, up to two cycles live at once, a signal at any time: NoPauseLeftAtExit.
CONSTANTS
  c1 = c1
  c2 = c2
  Containers <- MCContainers
  AutoRemove <- MCAutoRemove
  Callers <- MCCallers
  MaxCycles = 2
  Selected = {c1, c2}
  Ops = {"pause"}
  Filters = {FALSE}
  DryRun = FALSE
  Random = FALSE
SPECIFICATION PumbaSpec
INVARIANT NoPauseLeftAtExit
