\* One delegation, one slot per channel, a restart, faults that pass.
SPECIFICATION RetrySpec

CONSTANTS
    Delegations = {1}
    StakingStart <- MCStakingStart
    StakingTime <- MCStakingTime
    UnbondingTime <- MCUnbondingTime
    StartTip = 2
    MaxTip = 4
    TimelockIds = {1, 2}
    MaxFindLimit = 2
    MaxPaginationLimit = 2
    FaultsAllowed = TRUE
    ChanCap = 1
    MaxRestarts = 1

PROPERTIES
    ExpiredIsUnbonded
    QueueDrains
    SpentOutputIsRetried
