SPECIFICATION Spec
CONSTANTS
  Clients = {u1, u2}
  Readers = {u1, u2}
  Commands <- HpaCommands
  MaxVersion = 3
PROPERTY UpdateMaintainsHpa
CHECK_DEADLOCK FALSE
