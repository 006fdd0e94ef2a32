SPECIFICATION SessionFairSpec
CONSTANTS
    Inputs <- MCInputs
    MaxParses = 2
    InfoKey <- MCInfoKey
    LengthKey <- MCLengthKey
    IntModulus = 16
    Int64Modulus = 256
    TorrentFiles <- MCTorrentFiles
    Replies <- MCReplies
    Refusals <- MCRefusals
    BitfieldFiles <- MCBitfieldFiles
    MaxRuns = 2
    MaxFaults = 2
    AnnounceKey <- MCAnnounceKey
    PieceLengthKey <- MCPieceLengthKey
    FailureKey <- MCFailureKey
    CompleteKey <- MCCompleteKey
    IncompleteKey <- MCIncompleteKey
    IntervalKey <- MCIntervalKey
    PeersKey <- MCPeersKey
    IpKey <- MCIpKey
    PortKey <- MCPortKey
INVARIANTS NoDoubleFree ReplyValid SInv AnnouncesAgree SuccessIsClean
PROPERTIES NothingForged KeptUnlessFault EveryRunEnds
CHECK_DEADLOCK FALSE
