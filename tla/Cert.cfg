SPECIFICATION CertificateFairSpec
CONSTANTS
  KeyPair = {k1, k2, k3}
  MaxOpenFiles = 4
  MaxFaults = 3
INVARIANTS
  ExitsFree
  PairMatches
PROPERTY EventuallyLoaded
