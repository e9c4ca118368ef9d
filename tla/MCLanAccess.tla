----------------------------- MODULE MCLanAccess -----------------------------
(***************************************************************************)
(* LanAccess with the symmetry of its instances. GuessRate looks a few     *)
(* seconds back; clients, ids and passwords are interchangeable.           *)
(***************************************************************************)
EXTENDS LanAccess, TLC

Symmetry == Permutations(Clients) \cup Permutations(ClientIds) \cup Permutations(Passwords)

\* One device that logs in, one of another role with the same id, and another.
MCDevice ==
       "token/evcharger/1" :> [role |-> "evcharger", unique |-> "1"]
    @@ "token/heatpump/1"  :> [role |-> "heatpump",  unique |-> "1"]
    @@ "token/evcharger/2" :> [role |-> "evcharger", unique |-> "2"]

Topic(levels, action, system, third, word) ==
    [levels |-> levels, action |-> action, system |-> system, third |-> third,
     role |-> "", unique |-> "", word |-> word]

MCTopics ==
    {[Topic(6, "I", "local", direction, "") EXCEPT !.role = d.role, !.unique = d.unique] :
        direction \in {"in", "out", "else"}, d \in {MCDevice[u] : u \in DOMAIN MCDevice}}
    \cup {Topic(3, "I", "local", "in", "")}
    \cup {Topic(5, "I", system, "in", "") : system \in {"own", "foreign"}}
    \cup {Topic(5, "W", "own", "platform", word) : word \in {"/Security/Api", "/Tokens", ""}}
    \cup {Topic(5, "W", "foreign", "platform", "/Tokens"), Topic(5, "P", "own", "in", "")}
    \cup {Topic(5, action, "own", "settings", "") : action \in {"R", "W", "N"}}

\* The checks tell Full from the others.
MCModes == {"ReadOnly", "Full"}

=============================================================================
