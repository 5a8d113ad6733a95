SPECIFICATION FairSpec
CONSTANTS
    RAWBUF = 7
    GAP_TICKS = 3
    TimerMod = 6
    MaxMark = 2
    Reenables = FALSE
PROPERTY
    HearsAgain
