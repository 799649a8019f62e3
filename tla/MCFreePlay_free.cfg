CONSTANTS
  NHosts = 2
  NHandlers = 2
  Plays <- FreePlays
SPECIFICATION Spec
INVARIANTS
  NotificationsKept
  NoHostLeftBehind
  FailuresCount
PROPERTIES
  AlwaysRun
  PlayReturns
