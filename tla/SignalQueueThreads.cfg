CONSTANTS
  MAXPENDING = 4
  Slack = 1
  MaxPush = 4
  Handlers = {h1, h2}
  OsSignals = {Sig_int, Sig_term}
  Mutex = TRUE
  Preempt = FALSE
SPECIFICATION FairSpec
INVARIANTS PendingInSync
PROPERTIES IsBuffer SignalDispatched UrgeAnswered
CHECK_DEADLOCK FALSE
