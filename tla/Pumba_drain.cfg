\* Any command (netem without a target IP) under --random on two selected containers, ticks without end, up to two cycles live at once, a signal at any time.
CONSTANTS
  c1 = c1
  c2 = c2
  Containers <- MCContainers
  AutoRemove <- MCAutoRemove
  Callers <- MCCallers
  MaxCycles = 2
  Selected = {c1, c2}
  Ops = {"kill", "stop", "pause", "rm", "netem"}
  Filters = {FALSE}
  DryRun = FALSE
  Random = TRUE
SPECIFICATION PumbaSpec
INVARIANT DrainBeforeExit
