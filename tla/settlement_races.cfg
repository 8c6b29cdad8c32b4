\* Concurrent batches and transactions; proving and sending may fail.
CONSTANTS
  a = 1
  b = 3
  c = 2
  Address = {1, 2, 3}
  MaxU64 = 7
  Verifier = "mock"
  ProofMode = "mock"
  Genesis <- MCGenesis
  Txs <- MCTxs
  Request = {r1, r2, r3}
  Faults = {"prove", "send", "revert"}
SYMMETRY RequestSymmetry
SPECIFICATION Spec
INVARIANT CanonicalMirrorsL1
INVARIANT NoAcceptedTxIsLost
INVARIANT AnswersAreTrue
