\* A PROOF_MODE that the three readings know differently.
CONSTANTS
  MaxRuns = 1
  Spellings <- MCOddSpellings
  Backends = {"unset", "mock"}
  Presets = {"unset"}
  SignalAt = {"parked"}
SPECIFICATION Spec
INVARIANT PairsProverWithVerifier
