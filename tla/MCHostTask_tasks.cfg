SPECIFICATION Spec
CONSTANTS
  Tasks <- MCTasks
  Outcomes <- MCOutcomes
  Objects <- MCObjects
  MaxRedos = 1
INVARIANTS FailuresTold FailuresMeant RetriesHonest ResultsAgree SecretsKept DryRunsAreDry
