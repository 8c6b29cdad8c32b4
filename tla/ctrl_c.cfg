\* Ctrl-C at any await.
CONSTANTS
  MaxRuns = 1
  Spellings = {"unset"}
  Backends = {"unset"}
  Presets = {"unset"}
  SignalAt <- MCAwaits
SPECIFICATION Spec
INVARIANT NoOrphans
