SPECIFICATION MetainfoSpec
CONSTANTS
    BLOCK_BYTES = 4
    LengthBytes = 2
    Bytes = {0, 128}
    MaxMessage = 8
    Words <- MCWords
    HexDigits = 4
    DigestWords = 2
    Urls <- MCUrls
    ObjectBytes <- MCObjectBytes
    Rand <- MCRand
    SizeModulus = 256
    UIntModulus = 256
    InfoDict <- MCInfoDict
    total_length = 33
    piece_length = 2
    Arriving = {0, 1, 7, 8, 15, 16}
    Found <- MCFound
    MaxFaults = 2
CHECK_DEADLOCK FALSE
INVARIANTS NothingLost FinalHashesMessage TrackerReadsHash UrlKeptWhole
PROPERTY IsPieceSet
