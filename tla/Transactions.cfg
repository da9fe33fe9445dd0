\* One writer on any version; calls and commits as in the bounds.
SPECIFICATION TxSpec
CONSTANTS
  NodeId = {1, 2}
  Value = {1, 2}
  EdgeId = {1}
  EdgeBlock = {1, 2}
  Src <- MCSrc
  Dst <- MCDst
  Writer = {w}
  MaxVersions = 3
  MaxCalls = 4
INVARIANTS  IndexServes ResolvedExists  LossesListed
 
CHECK_DEADLOCK FALSE
