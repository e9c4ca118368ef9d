\* The portal mode changes while the bridges stay as they are, and a call of a
\* write may fail.
CONSTANTS
    BRIDGE_DBUS = GXdbus
    BRIDGE_RPC = GXrpc
    Texts = {Connected, Disappeared}
    Pending = Pending
    Disappeared = Disappeared
    Deactivated = Deactivated
    do_online_registration = TRUE
    Null = Null
    NotWritten = NotWritten
    Refusable <- MCRefusable
    MaxCalls = 2
SPECIFICATION Spec
INVARIANTS
    ToldIsCurrent
