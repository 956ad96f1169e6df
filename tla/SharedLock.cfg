SPECIFICATION Spec
CONSTANTS
  Tasks <- MCTasks
  Ops <- MCOps
INVARIANTS
  TypeOK
  DeadlockOnlyByReentry
