SPECIFICATION ViewsSpec
CONSTANTS
    Cids = {c1, c2, c3}
    NoClient = NoClient
    Nicks = {n1, n2, n3}
    NoNick = NoNick
    Fold <- MCFold
    Passwords = {}
    NoPass = NoPass
    PasswordRequired = FALSE
    Accepted = {}
    Caps = {}
    StickyCaps = {}
    MaxConnections = 3
    ChanNames = {a, b}
    NoName = NoName
    FoldName <- MCFoldName
    Flags = {}
    ChanKeys = {}
    NoChanKey = NoChanKey
    Limits = {}
    Masks = {}
    Topics = {}
    NoTopic = NoTopic
    MaxChannelsPerUser = 2
    MaxUsersPerChannel = 3
    MaxBanList = 0
    MaxInvites = 1
    MaxJoinSeq = 3
    MaxUsed = 3
    MaxPerNick = 1
    MaxTotal = 1
    MatchedBy <- MCMatchedBy
SYMMETRY ViewsSymmetry
CONSTRAINTS PlainHandshake FewJoins
VIEW WhatMatters
INVARIANTS
    GovordTypeOK
    ChannelsHoldClients
    ViewsMissNobody
    SpeakersAreSeen
PROPERTIES
    GhostsAreLostClients
