SPECIFICATION TextsSpec
CONSTANTS
    Inputs <- AllTexts
    MaxParses = 2
    InfoKey <- MCInfoKey
    LengthKey <- MCLengthKey
    IntModulus = 16
    Int64Modulus = 64
INVARIANTS HeapForest NoWildPointer WildRootOnlyIfEmpty IInv
INVARIANTS CanonicalRoundTrip InfoDictExact
PROPERTIES InfoDictClosed ParseTerminates LengthTotal
CHECK_DEADLOCK FALSE
