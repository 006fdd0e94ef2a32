SPECIFICATION Spec
CONSTANTS
    Inputs <- NestedInfoTexts
    MaxParses = 1
    InfoKey <- MCInfoKey
    LengthKey <- MCLengthKey
    IntModulus = 16
    Int64Modulus = 1024
INVARIANTS InfoDictOfRoot
CHECK_DEADLOCK FALSE
