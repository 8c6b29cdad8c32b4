\* Two runs in any two environments; Ctrl-C once the batch has settled.
CONSTANTS
  MaxRuns = 2
  Spellings <- MCSpellings
  Backends = {"unset", "mock", "cpu"}
  Presets = {"unset", "sepolia"}
  SignalAt = {"parked"}
SPECIFICATION FairSpec
INVARIANT PairsProverWithVerifier
INVARIANT SettledOnOwnRollup
INVARIANT NoOrphans
PROPERTY EveryRunEnds
