SPECIFICATION FairSpec
CONSTANTS
  k1 = k1
  k2 = k2
  k3 = k3
  k4 = k4
  r1 = r1
  r2 = r2
  Key = {k1, k2, k3, k4}
  Record = {r1, r2}
  Never = Never
  Hash <- MCHash
  MINSIZE = 2
  Primes <- MCPrimes
  MAX_DENSITY = 0
  MaxChain = 2
INVARIANTS
  TypeOK
  Placement
  UniqueKeys
  CountMatches
PROPERTIES
  ImplementsDictionary
  LoopsEnd
