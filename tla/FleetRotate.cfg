\* Two provisions of one Name, the image rebuilt, a crash, a remove, a list
\* or a wait for the seed copy that may fail.
SPECIFICATION Spec
CONSTANTS
  n1 = n1  n2 = n2  c1 = c1  c2 = c2  c3 = c3
  Names = {n1}
  Instances = {n1}
  Callers = {c1, c3}
  NameOf <- TwoForOne
  Drivers = {c3}
  Sweeps = {s1}
  MaxFleet = 1
  ReapAttached = TRUE
  VolumeGc = TRUE
  Faults = {"list", "remove", "wait"}
  MaxFaults = 1
  MaxRebuilds = 1
  MaxRestarts = 1
  Resetters = {c1}
  Clients = {n1}
INVARIANT ProvisionsDeclared
PROPERTY ProfilePreserved
