\* One delegation, one slot per channel, an undone block, a restart, no faults.
SPECIFICATION ReorgFairSpec

CONSTANTS
    Delegations = {1}
    StakingStart <- MCStakingStart
    StakingTime <- MCStakingTime
    UnbondingTime <- MCUnbondingTime
    StartTip = 2
    MaxTip = 5
    TimelockIds = {1, 2, 3}
    MaxFindLimit = 2
    MaxPaginationLimit = 2
    FaultsAllowed = FALSE
    ChanCap = 1
    MaxRestarts = 1
    MaxReorgs = 1

INVARIANTS
    RecordedWasMined
    ExpiredWasFree
    WithdrawnWasGone
    ActiveHasTimelock
PROPERTIES
    ImplementsReorgLifecycle
    ExpiredIsUnbondedOrUndone
    QueueDrains
