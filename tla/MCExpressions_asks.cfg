SPECIFICATION Spec
CONSTANTS
  Words <- MCWords
  Numbers <- MCNumbers
  Paths <- MCPaths
  Asks <- MCAsks
  Stores <- MCStores
  Filterings <- MCFilterings
  MaxFilters = 2
INVARIANT AnswersMean
PROPERTY FiltersMean
