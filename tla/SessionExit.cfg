SPECIFICATION SessionFairSpec
CONSTANTS
    Inputs <- MCInputs
    MaxParses = 2
    InfoKey <- MCInfoKey
    LengthKey <- MCLengthKey
    IntModulus = 16
    Int64Modulus = 256
    TorrentFiles <- MCTorrentFiles
    Replies <- MCReplies
    Refusals <- MCRefusals
    BitfieldFiles <- MCBitfieldFiles
    MaxRuns = 2
    MaxFaults = 0
    AnnounceKey <- MCAnnounceKey
    PieceLengthKey <- MCPieceLengthKey
    FailureKey <- MCFailureKey
    CompleteKey <- MCCompleteKey
    IncompleteKey <- MCIncompleteKey
    IntervalKey <- MCIntervalKey
    PeersKey <- MCPeersKey
    IpKey <- MCIpKey
    PortKey <- MCPortKey
PROPERTIES StopBeforeExit
CHECK_DEADLOCK FALSE
