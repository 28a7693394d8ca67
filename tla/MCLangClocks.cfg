CONSTANTS
  Clocks = {k1, k2}
  Default = k1
  Sys = sysk
  Main = mainthread
  Nil = nilval
  BeatDurs <- MCBeatDurs
  Beats = {0, 2}
  Deltas = {1}
  QueueSize = 2
  MaxTime = 2
  Programs <- MCPrograms

SPECIFICATION FairSpec

INVARIANTS
  SleepersAreNotNeeded
  ClocksAccounted

PROPERTIES
  DueIsServed
  StopEnds
