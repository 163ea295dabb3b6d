\* Three delegations, batches and pages of two, one block, one restart.
SPECIFICATION CoverageSpec

CONSTANTS
    Delegations = {1, 2, 3}
    StakingStart <- MCStakingStart
    StakingTime <- MCStakingTime
    UnbondingTime <- MCUnbondingTime
    StartTip = 2
    MaxTip = 3
    TimelockIds = {1, 2, 3, 4}
    MaxFindLimit = 2
    MaxPaginationLimit = 2
    FaultsAllowed = FALSE
    ChanCap = 1
    MaxRestarts = 1

INVARIANTS
    IInv
    PollMissesNothing
PROPERTIES
    ImplementsLifecycle
