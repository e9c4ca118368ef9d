\* Two bridges in every mode, and the connection to the bus in its event loop.
CONSTANTS
    BRIDGE_DBUS = GXdbus
    BRIDGE_RPC = GXrpc
    Texts = {Disappeared}
    Pending = Pending
    Disappeared = Disappeared
    Deactivated = Deactivated
    do_online_registration = TRUE
    Null = Null
    NotWritten = NotWritten
    Refusable = {}
    MaxCalls = 2
    Full <- MCFull
SPECIFICATION BridgeLoopSpec
INVARIANTS
    WrittenIsLatest
    OneRegistration
    LoopAwake
PROPERTIES
    RegistrationEnds
