CONSTANTS
    UNKNOWN_STATE = UNKNOWN_STATE
    PENDING_STATE = PENDING_STATE
    RUNNING_STATE = RUNNING_STATE
    FAILED_STATE = FAILED_STATE
    TERMINATED_STATE = TERMINATED_STATE
    LifeCycleStates <- MCLifeCycleStates
    MaxSteps <- MCMaxSteps
SPECIFICATION Spec
INVARIANT TypeOK
