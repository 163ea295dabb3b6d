\* One delegation, faults and a restart.
SPECIFICATION Spec

CONSTANTS
    Delegations = {1}
    StakingStart <- MCStakingStart
    StakingTime <- MCStakingTime
    UnbondingTime <- MCUnbondingTime
    StartTip = 2
    MaxTip = 5
    TimelockIds = {1, 2, 3, 4}
    MaxFindLimit = 2
    MaxPaginationLimit = 2
    FaultsAllowed = TRUE
    ChanCap = 2
    MaxRestarts = 1

INVARIANTS
    TypeOK
    UnbondedAfterExpiry
    WithdrawnOnlyIfGone
    UnbondingTxOnChain
    ActiveHasTimelock
    UnbondingHasTimelock
    BatchIsQueued
    OneWatcherPerOutput
    HandledIsEligible
    UnbondingEntriesBounded
PROPERTIES
    ImplementsLifecycle
