SPECIFICATION ClientSpec
CONSTANTS
    Cids = {c1, c2}
    NoClient = NoClient
    Nicks = {"alice", "bob"}
    NoNick = NoNick
    Fold <- MCFold
    Passwords = {}
    NoPass = NoPass
    PasswordRequired = FALSE
    Accepted = {}
    Caps = {}
    StickyCaps = {}
    MaxConnections = 3
    ChanNames = {"#a", "#b"}
    NoName = NoName
    FoldName <- MCFoldName
    Flags = {}
    ChanKeys = {}
    NoChanKey = NoChanKey
    Limits = {}
    Masks = {}
    Topics = {}
    NoTopic = NoTopic
    MaxChannelsPerUser = 2
    MaxUsersPerChannel = 3
    MaxBanList = 0
    MaxInvites = 1
    MaxJoinSeq = 99
    MaxPerNick = 1
    MaxTotal = 1
    MatchedBy <- MCMatchedBy
    Me = c1
    FirstName = "alice"
    NoTarget = NoTarget
    MaxTyped = 1
    MaxInbox = 1
    MaxAddrs = 2
    MaxFlights = 2
    MaxHeld = 2
    MaxSending = 2
    MaxIncoming = 2
    Kinds = {"session", "thread"}
CONSTRAINTS PlainHandshake FewLines FirstNickWasFree
VIEW WhatMatters
CHECK_DEADLOCK FALSE
INVARIANTS
    UsedWhileLive
PROPERTIES
    StaysInStep
    OnlyJoinMisleads
    StopIsObeyed
    LostPeerIsNoticed
