\* Every handler that writes, and handlers that keep the mutex beside garbage collections.
SPECIFICATION HttpFairSpec
CONSTANTS
  OpId = {r, o1, o2, o3, o4, o5}
  Root = r
  Proc = {s, q1, q2, q3}
  Commands = {}
  NoOp = NoOp
  Seeded = FALSE
  Serial = FALSE
  MaxEdits = 3
  Server = s
  Nobody = Nobody
  Mixes <- MCMixes
INVARIANTS AckedVisible AckedKept
PROPERTIES RestartRecovers MutexReleased
CHECK_DEADLOCK FALSE
