SPECIFICATION Spec
CONSTANTS
  Contexts = {c1, c2}
  Threads = {t1, t2}
  Size = 4
  NULL = NULL
INVARIANTS TypeOK NotificationsKept
PROPERTIES EntriesSurvive PendingIsTaken IsFifo
