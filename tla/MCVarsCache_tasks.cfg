CONSTANTS
  Threads <- Two
  Hosts <- Three
  Initial <- Two
  Localhost = 3
  Reloads <- Found
  Ops <- AllOps
  MaxTasks = 2
SPECIFICATION Spec
INVARIANTS
  LaterTasksSee
CHECK_DEADLOCK FALSE
