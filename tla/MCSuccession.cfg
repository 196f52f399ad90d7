SPECIFICATION ChSpec
CONSTANTS
    Cids = {c1, c2, c3, c4}
    NoClient = NoClient
    Nicks <- MCNicks
    NoNick = NoNick
    Fold <- MCFold
    ChanNames = {"#a", "#A", "#b"}
    NoName = NoName
    FoldName <- MCFoldName
    Flags = {"i"}
    ChanKeys = {}
    NoChanKey = NoChanKey
    Limits = {}
    Masks = {m1, m2}
    Topics = {}
    NoTopic = NoTopic
    MaxChannelsPerUser = 1
    MaxUsersPerChannel = 3
    MaxBanList = 1
    MaxInvites = 1
    MaxJoinSeq = 4
    MaxUsed = 4
CONSTRAINT FewJoins
SYMMETRY CidSymmetry
INVARIANTS
    ChannelTablesAgree
    LimitsHold
    RolesFollowMembership
PROPERTIES
    DepartureLeavesOperator
    SuccessorIsSenior
    SeniorityIsStable
    OplessChannelIsFrozen
