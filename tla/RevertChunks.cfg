\* Trees of several chunks that do not line up.
SPECIFICATION RevertSpec
CONSTANTS
  Key = {1, 2, 3, 4, 5}
  Value = {1}
  EdgeKey = {}
  EdgeBlock = {}
  Ends <- MCEnds
  MinEntries = 2
  MaxEntries = 3
  Hashes = {1, 4, 6}
  Below <- MCBelow
  Changes <- MCChanges
  MaxLog = 4
INVARIANT RevertUndoes
CHECK_DEADLOCK FALSE
