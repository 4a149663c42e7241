CONSTANTS
  MAXPENDING = 3
  Slack = 1
  MaxPush = 4
  Handlers = {h1, h2}
  OsSignals = {Sig_int, Sig_term}
  Mutex = TRUE
  Preempt = FALSE
SPECIFICATION Spec
INVARIANTS InBounds
CHECK_DEADLOCK FALSE
SYMMETRY Symmetry
