SPECIFICATION FairSpec
CONSTANTS
  NHosts = 2
  NHandlers = 2
  Plays <- HandlerPlays
INVARIANTS HandlersSettled
PROPERTIES PlayReturns
