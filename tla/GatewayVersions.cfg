SPECIFICATION Spec
CONSTANTS
    Fleets <- MCFleets
    None = None
    MaxIn = 1
INVARIANTS
    LateSubscribersToldRight
    MeantTransmitter
PROPERTIES
    Settles
    ImplementChannels
