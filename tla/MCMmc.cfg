SPECIFICATION FairSpec
CONSTANTS
    Cards <- MCCards
    Flips <- MCFlips
    Capacity = 4
    WORD = 8
    Bytes = {1, 255}
    Counts = {1, 2}
    Moves = {1, 4}
    Errors = {"silent", "illegal", "ocr", "reject", "crc", "status", "token", "data"}
    MayBeBusy = TRUE
INVARIANTS
    GeometryDecoded
PROPERTIES
    StoresExactly
    ReadsExactly
    OpenReturns
    TransferReturns
