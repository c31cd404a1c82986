SPECIFICATION Spec
CONSTANTS
    MaxPlans = 3
    Delays <- MCDelays
    Budgets <- MCBudgets
    Failures <- MCFailures
    None = None
INVARIANT
    LastExceptionIsSet
