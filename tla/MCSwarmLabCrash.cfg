CONSTANTS
  local = local
  remote = remote
  t1 = t1
  t2 = t2
  svc = svc
  net = net
  Daemon = {local, remote}
  Claimable = {local}
  Tool = {t1, t2}
  Resource = {svc, net}
  Kinds = 2
  KindOf <- OneOfEach
  Context = Context
  MaxSwarms = 1
SYMMETRY Interchangeable
SPECIFICATION Spec
PROPERTIES DownTakesItsOwn
CHECK_DEADLOCK FALSE
