SPECIFICATION FairSpec
CONSTANTS
    Words = 2
    Lanes = 2
    Byte = {1, 2}
    Ones = 1
INVARIANTS TypeOK LateBeatIsMarked
PROPERTIES SeesAtomicMemory AlwaysAnswered
