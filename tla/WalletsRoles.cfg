\* Sign-in, linking and bans overlapping: each request runs once, so the system stops.
SPECIFICATION Spec
CONSTANTS
  eth1 = eth1
  eth2 = eth2
  sol = sol
  n1 = n1
  n2 = n2
  n3 = n3
  r1 = r1
  r2 = r2
  r3 = r3
  r4 = r4
  None = None
  EthAddresses = {eth1, eth2}
  SolWallets = {sol}
  Nonces = {n1, n2}
  Requests = {r1, r2, r3, r4}
INVARIANTS TypeOK OneOwner BothOnlyByRace SessionIsReady MirrorAgrees
SYMMETRY Symmetry
CHECK_DEADLOCK FALSE
