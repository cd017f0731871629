SPECIFICATION Spec
CONSTANTS
    Gate = 4
    StepKey <- ShortSteps
    DependsOn <- ShortDependsOn
    Listed = TRUE
    Actors = {"promote", "demote", "archive", "restore", "requeue", "cancel", "retry", "resume"}
    MaxOps = 2
    MaxAttempts = 1
    MaxReruns = 2
    MaxRefunds = 1
INVARIANT ScreenedFromStart
 
PROPERTY WorkflowFollowsStage
