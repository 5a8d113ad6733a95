SPECIFICATION SetupSpec
CONSTANTS
    Requests <- MCRequests
    Cuts <- MCCuts
    Methods <- MCMethods
    ContentLength <- MCContentLength
    Authorization <- MCAuthorization
    EndOfHeaders <- MCEndOfHeaders
    Commands <- MCCommands
    PushbackSize = 32
    BuffLen = 200
    CredentialsLen = 51
    NameLen = 5
    ValueLen = 7
    MaxEvents = 2
    MaxLosses = 1
INVARIANTS
    StreamKept
    CredentialsOwn
    DispatchedRight
    NotGivenUp
    SettingsStored
    FormUnchanged
PROPERTIES
    RoundsEnd
CHECK_DEADLOCK FALSE
