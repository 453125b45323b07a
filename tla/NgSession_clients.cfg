SPECIFICATION Spec
CONSTANTS
  Clients = {k1, k2}
  Paths = {root, home}
  Root = root
  NoPath = nopath
  Nobody = nobody
  MaxFiles = 2
  Capacity = 2
INVARIANTS TypeOK ListedIsAskedFor
PROPERTY EveryClientEnds
