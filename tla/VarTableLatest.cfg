SPECIFICATION VSpec
CONSTANTS
  k1 = k1
  k2 = k2
  k3 = k3
  r1 = r1
  r2 = r2
  Key = {k1, k2, k3}
  Record = {r1, r2}
  Never = Never
  Hash <- MCHash
  MINSIZE = 2
  Primes <- MCPrimes
  MAX_DENSITY = 0
  MaxChain = 4
  MaxWrites = 7
INVARIANT
  LatestWins
CHECK_DEADLOCK FALSE
