\* Everyone joins and leaves; the calls of o1 and o2 fall anywhere.
CONSTANTS
  c1 = c1
  c2 = c2
  c3 = c3
  i1 = i1
  i2 = i2
  mainJoin = mainJoin
  mainLeave = mainLeave
  run = run
  o1 = o1
  o2 = o2
  Conns = {c1, c2, c3}
  Identities = {i1, i2}
  Identity <- MCIdentity
  Main <- MCMain
  Others = {o1, o2}
  Event <- MCEvent
  NoConn = NoConn
SPECIFICATION Spec
CHECK_DEADLOCK FALSE
INVARIANTS
  TypeOK
  HandlersKept
  FoundWhileOnline
  GoneAfterLeave
