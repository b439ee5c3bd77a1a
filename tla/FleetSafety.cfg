\* Two Names contend for one slot while Docker fails once, in any way.
SPECIFICATION Spec
CONSTANTS
  n1 = n1  n2 = n2  c1 = c1  c2 = c2  c3 = c3
  Names = {n1, n2}
  Instances = {n1}
  Callers = {c1, c2}
  NameOf <- OnePerName
  Drivers = {c2}
  Sweeps = {s1}
  MaxFleet = 1
  ReapAttached = TRUE
  VolumeGc = TRUE
  Faults = {"list", "inspect", "create", "start", "stop", "remove", "unhealthy", "vanish", "exit"}
  MaxFaults = 1
  MaxRebuilds = 0
  MaxRestarts = 0
  Resetters = {c1}
  Clients = {n1}
INVARIANT MountedProfileReady
PROPERTY StoreSpec
