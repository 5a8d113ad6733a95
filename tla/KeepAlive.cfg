SPECIFICATION KeepAliveFairSpec
CONSTANTS
    K = 3
    MaxRx = 2
    Limit = 9
INVARIANTS
    StampsHonest
PROPERTIES
    KeepsPromise
    NoticesSilence
    GivesUpOnlyUnanswered
    DeadIsReplaced
