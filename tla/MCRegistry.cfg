SPECIFICATION NicksSpec
CONSTANTS
    Cids = {c1, c2}
    NoClient = NoClient
    Nicks <- MCNicks
    NoNick = NoNick
    Fold <- MCFold
    Passwords = {"good", "bad"}
    NoPass = NoPass
    PasswordRequired = TRUE
    Accepted = {"good"}
    Caps = {"capNotify"}
    StickyCaps = {"capNotify"}
    MaxConnections = 2
    ChanNames = {}
    NoName = NoName
    FoldName <- MCFoldName
    Flags = {"i"}
    ChanKeys = {}
    NoChanKey = NoChanKey
    Limits = {}
    Masks = {}
    Topics = {}
    NoTopic = NoTopic
    MaxChannelsPerUser = 1
    MaxUsersPerChannel = 2
    MaxBanList = 1
    MaxInvites = 1
    MaxJoinSeq = 2
    MaxPerNick = 2
    MaxTotal = 3
    MatchedBy <- MCMatchedBy
    Kinds = {"handshake", "whowas"}
SYMMETRY CidSymmetry
CONSTRAINT PlainHandshake
VIEW WhatMatters
INVARIANTS
    NickTableExact
    RegistrationNeverHangs
    StoreIsBounded
PROPERTIES
    RegistrationChecksPassword
    NicksAreOwned
    StickyCapsStay
    ForgetsOldestFirst
    GivenUpIsRecorded
