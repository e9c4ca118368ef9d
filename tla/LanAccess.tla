------------------------------ MODULE LanAccess ------------------------------
(***************************************************************************)
(* LoginSessions with AccessControl: what a connection may do follows from *)
(* how it logged in. The access checks ask the state who a client is, by   *)
(* FlashMQ's session of its id and user (is_privileged_user and            *)
(* localhost_client in src/src/state.cpp).                                 *)
(***************************************************************************)
EXTENDS LoginSessions, AccessControl

CONSTANTS
    Topics,     \* the topics that are looked at; those of one level are anyone's
    ModesOfVrm  \* enum class VrmPortalMode

ASSUME LanAccessAssumption ==
    /\ \A t \in Topics : t.levels \in Nat \ {0, 1}
    /\ DOMAIN Device \cap (LanUsers \cup {Integrations}) = {}
    /\ \A user, other \in DOMAIN Device : Device[user] = Device[other] => user = other
    /\ \A user \in Users \cup DOMAIN Device : ~username_is_bridge(user)

\* flashmq_get_session_pointer and flashmq_get_client_pointer.
ClientOf(id, user) == {k \in connections : k.id = id /\ <<id, user>> \in sessions}

is_privileged_user(id, user) ==
    \/ username_is_bridge(user)
    \/ \E k \in ClientOf(id, user) : k.client \in privileged_network_clients

\* The addresses of the other two kinds are not local.
localhost_client(id, user) ==
    \E k \in ClientOf(id, user) : k.kind \in {"local", "integrations"}

Who(id, user) == [id         |-> id,
                  user       |-> user,
                  privileged |-> is_privileged_user(id, user),
                  localhost  |-> localhost_client(id, user)]

\* The portal mode and the interest of VRM concern the bridge only.
Permits(access, who, t) == acl_check(access, who, t, "Unknown", FALSE)

Bridge == [id |-> "GXdbus", user |-> "GXdbus", privileged |-> TRUE, localhost |-> FALSE]

\* A connection of a user on the LAN that has logged in with a token.
OnLan(user) == [id |-> "some id", user |-> user, privileged |-> FALSE, localhost |-> FALSE]

----------------------------------------------------------------------------
(* Properties *)

\* What needs a privilege is permitted to a connection from its login to its
\* end exactly if it came from the device itself or with the password, and
\* integrations over VRM exactly to connections of the device itself, whatever
\* is cleared, expires or is taken over meanwhile.
AccessAsLoggedIn ==
    \A k \in connections :
        LET who == Who(k.id, k.user)
        IN  /\ \A t \in {u \in Topics : ProtectedPath(u)} :
                 Permits("write", who, t) <=> k.kind \in {"local", "password"}
            /\ \A t \in {u \in Topics : u.action = "I" /\ u.system = "own"},
                  access \in {"read", "write"} :
                 Permits(access, who, t) <=> k.kind \in {"local", "integrations"}

\* What a paired device may write is not shown to any other device, and not to
\* itself either if it has a direction. Who has logged in with the password
\* has no part in it.
DevicesApart ==
    \A k \in connections, t \in {u \in Topics : u.action = "I"} :
        LET who == Who(k.id, k.user)
        IN  /\ k.kind = "token" /\ Permits("write", who, t) =>
                 /\ \A user \in DOMAIN Device \ {k.user} : ~Permits("read", OnLan(user), t)
                 /\ t.third \in {"in", "out"} => ~Permits("read", who, t)
            /\ k.kind = "password" => ~Permits("write", who, t) /\ ~Permits("read", who, t)

\* While VRM may not write, no command for this system or for its paired devices
\* that comes over the bridge is shown to anyone.
BridgeKeptOut ==
    \A t \in {u \in Topics : Command(u) /\ \/ u.system = "own"
                                           \/ u.system = "local" /\ u.action = "I"},
       mode \in ModesOfVrm \ {"Full"} :
        acl_check("write", Bridge, t, mode, TRUE) =>
            \A k \in connections : ~Permits("read", Who(k.id, k.user), t)

=============================================================================
