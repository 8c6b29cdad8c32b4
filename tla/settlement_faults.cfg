\* Every fault, two batch requests.
CONSTANTS
  a = 1
  b = 3
  c = 2
  Address = {1, 2, 3}
  MaxU64 = 7
  Verifier = "mock"
  ProofMode = "mock"
  Genesis <- MCRichGenesis
  Txs <- MCProbingTxs
  Request = {r1, r2}
  Faults = {"prove", "malformed", "send", "sendLost", "receipt", "evict", "revert", "disconnect", "crash"}
SPECIFICATION Spec
INVARIANT TypeOK
INVARIANT CanonicalTrailsL1
INVARIANT CommitNeverDiverges
INVARIANT SpeculativeIsCanonicalPlusMempool
INVARIANT DrainedBatchIsProvable
INVARIANT NoNonceSettledTwice
INVARIANT NoRootComesBack
INVARIANT SupplyIsConserved
PROPERTY ImplementsValidityRollup
