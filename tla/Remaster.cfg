CONSTANTS
  m1 = m1
  m2 = m2
  m3 = m3
  r1 = r1
  r2 = r2
  p = p
  q = q
  s = s
  a1 = a1
  a2 = a2
  Machine = {m1, m2, m3}
  Replica = {r1, r2}
  ReplicaOf <- TwoAndOne
  Path = {p, q, s}
  Default <- OtherOfR2
  Action = {a1, a2}
  Client <- Clients
  Workload <- Workloads
SPECIFICATION FairSpec
CHECK_DEADLOCK FALSE
INVARIANTS Consistent OldMasterIsToldFirst OneReplicaIsToldFirst
PROPERTIES Settles
