CONSTANTS
  m1 = m1
  m2 = m2
  m3 = m3
  m4 = m4
  r1 = r1
  r2 = r2
  r3 = r3
  a1 = a1
  a2 = a2
  a3 = a3
  Machine = {m1, m2, m3, m4}
  Replica = {r1, r2, r3}
  Leader = m1
  ReplicaOf <- TwoInFirst
  Blucket = {1}
  BlucketMachine <- FirstBlucket
  Shard = {1, 2}
  ShardMachine <- TwoShards
  Action = {a1, a2, a3}
  ShardsOf <- SomeShards
  Client <- TwoClients
  Scheduled = {m3}
  Late = {m2}
  IntLimit = 64
  UintLimit = 4096
  Mortal = {m4}
  MaxActions = 2
SPECIFICATION FairSpec
CHECK_DEADLOCK FALSE
INVARIANTS Consistent SequencedIsStored
PROPERTIES HandsOutOneLog UsesMetalogOnce AppendedIsHanded
