\* Three delegations, two per page, one slot in the withdrawn channel.
SPECIFICATION Spec

CONSTANTS
    Delegations = {1, 2, 3}
    StakingStart <- MCStakingStart
    StakingTime <- MCStakingTime
    UnbondingTime <- MCUnbondingTime
    StartTip = 3
    MaxTip = 3
    TimelockIds = {1, 2, 3}
    MaxFindLimit = 1
    MaxPaginationLimit = 2
    FaultsAllowed = TRUE
    ChanCap = 1

INVARIANTS
    ScanCoversWaiting
