SPECIFICATION Spec
CONSTANTS
  Owners = {"root", "app"}
  Valid <- MCValid
  Cases <- MCCases
  MaxRuns = 3
PROPERTIES AsAsked CutsShow NoChangeIsTrue SecondRunIsQuiet DryRunsAreDry OthersStay
CHECK_DEADLOCK FALSE
