\* Chunks of 2 or 3 entries; trees of up to three levels that differ in two keys.
SPECIFICATION ProllySpec
CONSTANTS
  Key = {1, 2, 3, 4, 5, 6}
  Value = {1, 2}
  MinEntries = 2
  MaxEntries = 3
  Hashes = {1, 4, 6}
  Below <- MCBelow
  MaxEdits = 2
INVARIANTS LookupFinds CursorReadsAll SharesTheRest DiffMissesNone
CHECK_DEADLOCK FALSE
