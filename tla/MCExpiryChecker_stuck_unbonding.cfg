\* One delegation, no faults, no restart.
SPECIFICATION FairSpec

CONSTANTS
    Delegations = {1}
    StakingStart <- MCStakingStart
    StakingTime <- MCStakingTime
    UnbondingTime <- MCUnbondingTime
    StartTip = 2
    MaxTip = 5
    TimelockIds = {1, 2, 3}
    MaxFindLimit = 2
    MaxPaginationLimit = 2
    FaultsAllowed = FALSE
    ChanCap = 2
    MaxRestarts = 0

PROPERTIES
    UnbondingIsUnbonded
