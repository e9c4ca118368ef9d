------------------------------ MODULE LanPolicy ------------------------------
(***************************************************************************)
(* What LoginSessions promises about the connections that are open: who    *)
(* may open one, and whom a change of the LAN setting or the removal of a  *)
(* token user puts out. There are no maps, sessions or rate limits here.   *)
(***************************************************************************)

CONSTANTS
    Connections, \* records with an id, a user and a kind
    Users,       \* those whose removal is told
    Modes

VARIABLES
    mode,
    open,
    leaving, \* ids whose connection is to be closed
    tokens,  \* the users that may log in with a token
    removed  \* the users whose removal has still to be told

vars == <<mode, open, leaving, tokens, removed>>

\* The kinds of connections that a setting does not leave open.
Forbidden(m) ==
    CASE m = "TokensOnly" -> {"password"}
      [] m = "Off"        -> {"password", "token"}
      [] OTHER            -> {}

Ids(conns) == {k.id : k \in conns}

Init ==
    /\ mode = "Unknown"
    /\ open = {} /\ leaving = {}
    /\ tokens \in SUBSET Users /\ removed = {}

LogIn(k) ==
    /\ k.id \notin Ids(open)
    /\ k.kind = "password" => mode = "On"
    /\ k.kind = "token" => k.user \in tokens
    /\ open' = open \cup {k}
    /\ UNCHANGED <<mode, leaving, tokens, removed>>

Close(k) ==
    /\ k \in open
    /\ open' = open \ {k}
    /\ leaving' = leaving \ {k.id}
    /\ UNCHANGED <<mode, tokens, removed>>

\* All connections of a kind that is forbidden now are put out, and no others.
SetMode(m) ==
    /\ mode' = m
    /\ leaving' = leaving \cup Ids({k \in open : k.kind \in Forbidden(m)})
    /\ UNCHANGED <<open, tokens, removed>>

AddToken(user) ==
    /\ tokens' = tokens \cup {user}
    /\ UNCHANGED <<mode, open, leaving, removed>>

RemoveToken(user) ==
    /\ tokens' = tokens \ {user} /\ removed' = removed \cup {user}
    /\ UNCHANGED <<mode, open, leaving>>

\* All connections under the name of the user are put out, and no others.
TellRemoval(user) ==
    /\ user \in removed
    /\ removed' = removed \ {user}
    /\ leaving' = leaving \cup Ids({k \in open : k.user = user})
    /\ UNCHANGED <<mode, open, tokens>>

Next ==
    \/ open' # open /\ \E k \in Connections : LogIn(k)
    \/ \E k \in open : Close(k)
    \/ \E m \in Modes : SetMode(m)
    \/ \E user \in Users : AddToken(user) \/ RemoveToken(user) \/ TellRemoval(user)

Spec == Init /\ [][Next]_vars

=============================================================================
