\* Transactions of at most two inputs and two outputs.
SPECIFICATION Spec

CONSTANTS
    MaxInputs = 2
    MaxOutputs = 2
    OutputValues <- MCOutputValues
    StakingValue = 2
    UnbondingFees <- MCUnbondingFees

INVARIANTS
    ClassifiedByPath
    NoPanic
    FailuresPushNothing

\* A handler returns.
CHECK_DEADLOCK FALSE
