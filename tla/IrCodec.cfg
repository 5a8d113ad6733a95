SPECIFICATION Spec
CONSTANTS
    Keys <- MCKeys
    Excess <- MCExcess
    RoundedUp <- MCRoundedUp
    Junk <- MCJunk
INVARIANTS
    PulseRoundTrip
    BiphaseRoundTrip
    RepeatsRecognised
    SameKeySameCode
