SPECIFICATION Spec
CONSTANTS
    Inputs <- DocumentedTexts
    MaxParses = 1
    InfoKey <- MCInfoKey
    LengthKey <- MCLengthKey
    IntModulus = 16
    Int64Modulus = 1024
INVARIANTS GrammarAsDocumented
CHECK_DEADLOCK FALSE
