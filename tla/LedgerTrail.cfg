SPECIFICATION Spec
CONSTANTS
  Jobs <- OneJob
  Attempts = 2
  EventErrors = TRUE
  ProjectionErrors = TRUE
  Backlog = 2
INVARIANTS FinishedHasEffects TrailTruthful EffectsAreTold
CHECK_DEADLOCK FALSE
