\* Two connections under two ids, one user of each kind, and limits that are
\* reached.
CONSTANTS
    Clients = {c1, c2}
    ClientIds = {i1, i2}
    LanUsers = {""}
    TokenUsers = {"token/evcharger/1"}
    Passwords = {p1, p2, p3}
    LOGIN_TOKENS_SHORT_TERM = 1
    LOGIN_TOKENS_LONG_TERM = 3
    Window = 2
    Device <- MCDevice
    Topics <- MCTopics
    ModesOfVrm <- MCModes
SPECIFICATION Spec
SYMMETRY Symmetry
INVARIANTS
    TypeOK
    FailuresPaid
    GuessRate
    AccessAsLoggedIn
    DevicesApart
    BridgeKeptOut
    RemovedUserLeaves
    TokensOnlyEnforced
PROPERTIES
    LanOffEnforced
    ImplementsPolicy
