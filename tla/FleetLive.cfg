\* Liveness under fairness, and the cap, with a failing create and a crash of the
\* gateway.
SPECIFICATION FairSpec
CONSTANTS
  n1 = n1  n2 = n2  c1 = c1  c2 = c2  c3 = c3
  Names = {n1, n2}
  Instances = {n1}
  Callers = {c1, c2}
  NameOf <- OnePerName
  Drivers = {c2}
  Sweeps = {s1}
  MaxFleet = 1
  ReapAttached = TRUE
  VolumeGc = TRUE
  Faults = {"create"}
  MaxFaults = 1
  MaxRebuilds = 0
  MaxRestarts = 1
  Resetters = {}
  Clients = {}
INVARIANT CapRespected
PROPERTIES ProvisionEnds SlotReclaimed
