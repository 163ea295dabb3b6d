\* One delegation, one slot per channel, a restart, no faults.
SPECIFICATION FairSpec

CONSTANTS
    Delegations = {1}
    StakingStart <- MCStakingStart
    StakingTime <- MCStakingTime
    UnbondingTime <- MCUnbondingTime
    StartTip = 2
    MaxTip = 5
    TimelockIds = {1, 2, 3}
    MaxFindLimit = 2
    MaxPaginationLimit = 2
    FaultsAllowed = FALSE
    ChanCap = 1
    MaxRestarts = 1

INVARIANTS
    NoSpendIsLost
PROPERTIES
    ExpiredIsUnbonded
    RequestedUnbondingNoticed
    LateWithdrawalNoticed
    UntrackedWithdrawalNoticed
    ChannelsDrain
