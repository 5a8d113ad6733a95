SPECIFICATION Spec
CONSTANTS
    Outlets <- MCOutlets
    Commands <- MCCommands
    Junk <- MCJunk
    Repeats = 2
INVARIANTS
    AddressedSwitches
PROPERTY
    OthersStay
