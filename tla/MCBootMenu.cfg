SPECIFICATION MenuSpec
CONSTANTS
  Targets <- AllTargets
  Rngs = {h1, h2}
  Labels = {"a", "b", "c"}
  Cmdline <- MCCmdline
  MaxEntries = 3
  Timeouts = {0, 1, 3}
  PerSecond = 2
  Half = 4
  Keys = {"up", "down", "home", "end", "enter", "esc", "other"}
  MaxKeys = 2
  MaxTime = 4
  MaxErrors = 1
INVARIANTS StartedAsConfigured ImageReleased BootedIsChosen
PROPERTY AutoBoots
