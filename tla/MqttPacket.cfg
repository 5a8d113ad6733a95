SPECIFICATION Spec
CONSTANTS
    Base = 16
    Max = 16
    LengthMod = 1024
    LastTopic = 9
    Memory = 200
    Packets <- MCPackets
    MaxIn = 2
INVARIANTS
    InStep
    HandedWhole
    FittingNotIgnored
    SpillIsHarmless
