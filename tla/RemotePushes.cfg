\* Two clients push, pull and merge; the server writes and restarts.
SPECIFICATION Spec
CONSTANTS
  Op = {r, o1, o2}
  Root = r
  Commit = {a1, a2, a3, a4}
  Client = {c1, c2}
  None = None
SYMMETRY Symmetric
INVARIANT PushesKept
CHECK_DEADLOCK FALSE
