SPECIFICATION Spec
CONSTANTS
    Gate = 12
    StepKey <- WORKFLOW_STEPS
    DependsOn <- WorkflowDependsOn
    Listed = TRUE
    Actors = {"crash", "bump"}
    MaxOps = 2
    MaxAttempts = 1
    MaxReruns = 2
    MaxRefunds = 1
INVARIANT TypeOK
INVARIANT BudgetHonest
PROPERTY PaperEarned
PROPERTY MeritNeedsVerdict
PROPERTY NoZombie
