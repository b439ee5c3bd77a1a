\* Both lanes contend for one Name; no reaper.
SPECIFICATION Spec
CONSTANTS
  d1 = d1  d2 = d2  k1 = k1  k2 = k2  k3 = k3  h1 = h1  h2 = h2
  Slots = {i1, i2}
  Drivers = {d1, d2}
  Sockets = {k1, k2, k3}
  Handshakes = {h1, h2}
  DriverOf <- DriversOf
  None = None
  Reaping = FALSE
INVARIANTS TypeOK LaneAccounted
PROPERTIES LockSpec AttachedNotReclaimed
