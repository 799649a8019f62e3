SPECIFICATION WaitSpec
CONSTANTS
  Asks <- MCAsks
  CommandTimeout = 2
  MaxLag = 1
  MaxBoots = 3
  MaxTurns = 2
  MaxDrops = 1
INVARIANTS WaitsTell JobVerdictIsReal
PROPERTY WaitEnds
