CONSTANTS
  k1 = k1
  k2 = k2
  k3 = k3
  Keys <- ThreeKeys
  Hashes <- SomeHashes
  ShardCount = 2
  Capacity = 2
  Expirations = {0, 1}
  ExpireAts <- SomeExpireAts
  MaxTime = 3
SPECIFICATION Spec
INVARIANTS
  Consistent
  HitIsRight
  EvictsOldest
