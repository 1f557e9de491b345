SPECIFICATION Spec
CONSTANTS
    Size = 3
    Modulus = 8
    Elements = {1, 2}
    Nothing = 0
INVARIANTS
    CountersConsistent
PROPERTIES
    ImplementsFifo
