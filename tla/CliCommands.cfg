SPECIFICATION Spec
CONSTANTS
  Clients = {u1, u2}
  Readers = {u1}
  Commands <- MixedCommands
  MaxVersion = 4
INVARIANT TypeOK
INVARIANT AutoscalerHasMetric
PROPERTY AutoscaleOnlyHpa
PROPERTY UpdateKeeps
PROPERTY ScheduleReported
CHECK_DEADLOCK FALSE
