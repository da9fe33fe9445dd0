\* Trees of one leaf each.
SPECIFICATION RevertSpec
CONSTANTS
  Key = {1, 2}
  Value = {1, 2}
  EdgeKey = {1}
  EdgeBlock = {1, 2}
  Ends <- MCEnds
  MinEntries = 8
  MaxEntries = 8
  Hashes = {1}
  Below <- MCBelow
  Changes <- MCChanges
  MaxLog = 6
INVARIANTS RevertUndoes OthersKept  SecondFindsNothing
CHECK_DEADLOCK FALSE
