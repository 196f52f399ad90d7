SPECIFICATION ModeSpec
CONSTANTS
    c1 = c1
    c2 = c2
    Cids = {c1, c2}
    NoClient = NoClient
    Nicks <- MCNicks
    NoNick = NoNick
    Fold <- MCFold
    ChanNames = {"#a"}
    NoName = NoName
    FoldName <- MCFoldName
    Flags = {"i"}
    ChanKeys <- MCTyped
    NoChanKey = NoChanKey
    Limits = {1}
    Masks <- MCMasks
    Topics = {}
    NoTopic = NoTopic
    MaxChannelsPerUser = 1
    MaxUsersPerChannel = 2
    MaxBanList = 1
    MaxInvites = 0
    MaxJoinSeq = 2
    Args <- MCArgs
    Typed <- MCTyped
    Words <- MCWords
    HeardAs <- MCHeardAs
    NickAs <- MCNickAs
    NoArg = NoArg
    TargetOf <- MCTargetOf
    KeyOf <- MCKeyOf
    LimitOf <- MCLimitOf
    MaskOf <- MCMaskOf
    MaxLetters = 3
    MaxArgs = 2
CONSTRAINT FewSettings
INVARIANTS
    AnnouncementReplays
PROPERTIES
    ModeIsOneStep
