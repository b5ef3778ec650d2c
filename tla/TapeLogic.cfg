SPECIFICATION Spec
CONSTANTS
    SlowPeriod = 10
    FastPeriod = 7
    Registers <- MCRegisters
    Values <- MCValues
    Flags <- MCFlags
    Depth = 3
    TapeWord <- MCWords
    Idle = 1
INVARIANTS TypeOK NeverOverflows PulsesInOrder
PROPERTIES WritesDeliveredOnce ReadsAreFresh ImplementsPulseQueue GoesOn
