CONSTANTS
  Parts = {"lifecycle", "sessions", "one session", "handshake", "odd handshake",
           "frames", "compact", "any compact", "catch up", "mining", "rpc",
           "rpc pool", "rpc chain", "writers", "readers", "serving"}
  Roots = {accept, reconnect}
  Workers = {w1, w2}
  Resolvers = {d1, d2}
  Callbacks = {k1, k2}
  MaxWorkers = 1
  MAX_DNS_RESOLVER_THREADS = 1
  None = None
  NoBlock = NoBlock
  a1 = a1
  a2 = a2
  b1 = b1
  b2 = b2
  c1 = c1
  c2 = c2
  far = far
  g0 = g0
  host = host
  i1 = i1
  i2 = i2
  m1 = m1
  n1 = n1
  n2 = n2
  n3 = n3
  name = name
  near = near
  p1 = p1
  p2 = p2
  t1 = t1
  t2 = t2
  x1 = x1
SPECIFICATION PartsSpec
SYMMETRY NodeSymmetry
INVARIANTS LeasesAreExact ClosedIsQuiet
PROPERTIES NothingStartsAfterCutoff   DirectoryHasOneOwner
CHECK_DEADLOCK FALSE
