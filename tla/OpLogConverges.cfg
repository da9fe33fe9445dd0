\* From an empty store: one process runs commands for ever, the other may stop anywhere.
SPECIFICATION FairSpec
CONSTANTS
  OpId = {r, o1, o2, o3, o4, o5, o6}
  Root = r
  Proc = {p1, p2}
  Commands = {p1}
  NoOp = NoOp
  Seeded = FALSE
  Serial = FALSE
  MaxEdits = 3
INVARIANTS OneRoot OnlyMergesComeBack
PROPERTY Converges
CHECK_DEADLOCK FALSE
