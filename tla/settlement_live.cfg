\* Under every fault, requests are answered and the canonical state catches up.
CONSTANTS
  a = 1
  b = 3
  c = 2
  Address = {1, 2, 3}
  MaxU64 = 7
  Verifier = "mock"
  ProofMode = "mock"
  Genesis <- MCGenesis
  Txs <- MCRivalTxs
  Request = {r1, r2}
  Faults = {"prove", "malformed", "send", "sendLost", "receipt", "evict", "revert", "disconnect", "crash"}
SPECIFICATION FairSpec
INVARIANT VectorImplementsState
PROPERTY EveryBatchIsAnswered
PROPERTY CanonicalCatchesUp
