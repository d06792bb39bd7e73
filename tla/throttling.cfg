\* Two kinds of events, at most two a tick, in windows of seven ticks.
SPECIFICATION Spec
CONSTANTS
  Actions = {"start", "photo_receipt"}
  Rate = 2
  WarnGap = 4
  Window = 7
  FloodLimit = 4
  MaxBurst = 2
INVARIANTS TypeOK HandledBound SilenceForgives
