\* prover-svc returns bytes that do not decode.
CONSTANTS
  a = 1
  b = 3
  c = 2
  Address = {1, 2, 3}
  MaxU64 = 7
  Verifier = "mock"
  ProofMode = "mock"
  Genesis <- MCGenesis
  Txs <- MCTxs
  Request = {r1, r2}
  Faults = {"malformed"}
SPECIFICATION Spec
INVARIANT NoAcceptedTxIsLost
