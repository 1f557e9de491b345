SPECIFICATION Spec
CONSTANTS
    Formats <- MCFormats
    Alphabet <- MCAlphabet
    UINT = 65536
    BF_SIZE = 8
    SIZE = 12
INVARIANTS
    PrintsFormat
    FitsBuffer
CHECK_DEADLOCK FALSE
