SPECIFICATION Spec
CONSTANTS
  Contexts = {c1, c2, c3}
  NULL = NULL
  Timeouts = {1, 2, 3, 5}
  Ticks = {1, 2, 4}
INVARIANTS TypeOK WellLinked SafeRemovalIsExact
PROPERTY IsCountdown
