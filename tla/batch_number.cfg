\* Another batch commits between a commit and its answer.
CONSTANTS
  a = 1
  b = 3
  c = 2
  Address = {1, 2, 3}
  MaxU64 = 7
  Verifier = "mock"
  ProofMode = "mock"
  Genesis <- MCGenesis
  Txs <- MCTxs
  Request = {r1, r2}
  Faults = {}
SPECIFICATION Spec
INVARIANT BatchNumberIsOwn
