SPECIFICATION Spec
CONSTANTS
  Invocations = {i1, i2}
  Schedule <- MCSchedule
  StableSamples = 2
  NamedWorker = TRUE
  MonitorRequired = TRUE
  FailFast = TRUE
INVARIANTS
  FailedRowsRetained
\* Every invocation may have ended.
CHECK_DEADLOCK FALSE
