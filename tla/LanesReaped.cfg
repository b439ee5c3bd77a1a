\* The reaper may evict either lane.
SPECIFICATION FairSpec
CONSTANTS
  d1 = d1  d2 = d2  k1 = k1  k2 = k2  k3 = k3  h1 = h1  h2 = h2
  Slots = {i1, i2}
  Drivers = {d1, d2}
  Sockets = {k1}
  Handshakes = {h1}
  DriverOf <- FewDrivers
  None = None
  Reaping = TRUE
INVARIANT OneSession
PROPERTY NameFreed
