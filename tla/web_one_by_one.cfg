\* One click at a time, refreshes that overlap.
CONSTANTS
  alice = alice
  bob = bob
  None = None
  Address = {alice, bob}
  MaxU64 = 7
  Verifier = "mock"
  ProofMode = "mock"
  Genesis <- MCGenesis
  Txs <- MCTxs
  Request = {r1, r2}
  Faults = {"prove", "send", "sendLost", "receipt", "revert"}
  Refresh = {f1, f2}
  OneByOne = TRUE
  Offline = FALSE
SPECIFICATION WebSpec
INVARIANT SubmittedNoncesDiffer
INVARIANT BatchNumberIsOwn
