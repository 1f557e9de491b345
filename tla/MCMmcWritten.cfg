SPECIFICATION Spec
CONSTANTS
    Cards <- MCOneCard
    Flips = {}
    Capacity = 2
    WORD = 8
    Bytes = {1, 2}
    Counts = {1}
    Moves = {0, 1, 2}
    Errors = {"status"}
    MayBeBusy = FALSE
PROPERTIES
    FullCountIsStored
