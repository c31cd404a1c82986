SPECIFICATION Spec
CONSTANTS
    MaxPlans = 3
    Delays <- MCDelays
    Budgets <- MCBudgets
    Failures <- MCFailures
    None = None
INVARIANTS
    TypeOK
    ChainOrder
    SuccessIsLastAttempt
    VerdictMatchesResult
    ExhaustedMeansExhausted
    AssertsOnlyBeforeFirstAttempt
    OneAttemptOverrun
PROPERTIES
    Termination
    Refinement
