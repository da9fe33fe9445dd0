\* Two branches; commits, merges and kills as in the bounds.
SPECIFICATION BMSpec
CONSTANTS
  NodeId = {1, 2}
  Value = {1, 2}
  EdgeId = {1}
  EdgeBlock = {1, 2}
  Src <- MCSrc
  Dst <- MCDst
  Branch = {main, feat}
  Main = main
  NoBranch = none
  MaxCommits = 3
  MaxMerges = 2
  MaxCrashes = 1
INVARIANTS    OwnConflicts
CHECK_DEADLOCK FALSE
