SPECIFICATION FairSpec
CONSTANTS
    Payloads = {p1}
    None = None
    Messages <- MCMessages
    MaxIn = 3
    MaxOut = 3
    MaxFaults = 2
INVARIANTS
    ServingMeansSubscribed
    StatusFollowsSession
PROPERTIES
    ImplementsChannel
    EventuallyServesOrWedged
