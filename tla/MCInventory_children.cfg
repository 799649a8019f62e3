SPECIFICATION Spec
CONSTANTS
  HostNames <- MCHosts
  GroupNames <- MCGroups
  Runs <- MCRuns
  Globs <- MCGlobs
  Patterns <- MCPatterns
  Limits <- MCLimits
  GroupLists <- MCLists
INVARIANT ChildWins
