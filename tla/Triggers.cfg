SPECIFICATION Spec
CONSTANTS
  Clients = {u1, u2}
  Functions = {"f1", "f2"}
  Commands <- AllCommands
  MaxVersion = 3
  MaxKinds = 1
  MaxRecords = 2
INVARIANT TypeOK
PROPERTY NoLostUpdate
PROPERTY FunctionLookedUp
CHECK_DEADLOCK FALSE
