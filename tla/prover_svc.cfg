\* A prover service that dies, restarts in another mode, panics or hangs.
CONSTANTS
  a = a
  b = b
  Address = {a, b}
  MaxU64 = 7
  Verifier = "mock"
  ProofMode = "mock"
  Genesis <- MCGenesis
  Txs <- MCTxs
  Request = {r1, r2}
  Faults = {"prove", "revert", "disconnect", "crash"}
  Modes = {"mock", "groth16"}
SPECIFICATION ProverSpec
INVARIANT SentIsProved
PROPERTY ImplementsSettlement
