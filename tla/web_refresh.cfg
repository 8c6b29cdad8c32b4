\* The page and the sequencer agree in the end, though connections break.
CONSTANTS
  alice = alice
  bob = bob
  None = None
  Address = {alice, bob}
  MaxU64 = 7
  Verifier = "mock"
  ProofMode = "mock"
  Genesis <- MCGenesis
  Txs <- MCFirstTx
  Request = {r1}
  Faults = {"disconnect"}
  Refresh = {f1, f2}
  OneByOne = FALSE
  Offline = TRUE
SPECIFICATION WebFairSpec
PROPERTY ViewCatchesUp
