SPECIFICATION Spec
CONSTANTS
  NHosts = 3
  NHandlers = 0
  Plays <- BatchPlays
INVARIANTS ForksBound LockStep NoHostLeftBehind AnyErrorsFatalStops AnyErrorsFatalReported
PROPERTIES MaxFailStops
