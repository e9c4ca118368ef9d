---------------------------- MODULE LoginSessions ----------------------------
(***************************************************************************)
(* Who is let in and who is put out again: the login check with its two    *)
(* rate limits, the clients it remembers, and what a change of the LAN     *)
(* setting or the removal of a token user disconnects                      *)
(* (src/src/flashmq-dbus-plugin.cpp and State in src/src/state.cpp).       *)
(*                                                                         *)
(* A connection is a Client object of FlashMQ, which keeps a session per   *)
(* client id. FlashMQ is external. It uses an id for one connection at a   *)
(* time, and for the next one after it has called client_disconnected.     *)
(***************************************************************************)
EXTENDS Integers, FiniteSets

CONSTANTS
    Clients,    \* Client objects
    ClientIds,
    LanUsers,   \* user names of the password login; any will do
    TokenUsers, \* user names that start with "token/"
    Passwords,
    LOGIN_TOKENS_SHORT_TERM,
    LOGIN_TOKENS_LONG_TERM,
    Window      \* seconds over which failures are counted, for GuessRate

Anonymous    == ""
Integrations == "dbus-mqtt-integrations"
Users        == LanUsers \cup TokenUsers \cup {Integrations}

ASSUME LoginAssumption ==
    /\ LOGIN_TOKENS_SHORT_TERM \in Nat /\ LOGIN_TOKENS_LONG_TERM \in Nat
    /\ Window \in Nat \ {0}
    /\ Anonymous \notin TokenUsers /\ Integrations \notin TokenUsers
    /\ LanUsers \cap TokenUsers = {} /\ Integrations \notin LanUsers

VARIABLES
    mqtt_local_mode,
    loginTokensShortTerm,
    loginTokensLongTerm,
    passwordHistory,
    privileged_network_clients,
    security_profile_password_clients, \* maps, as sets of <<client id, user>>
    lan_clients,
    users_to_clientids,
    connections, \* external: the logins that succeeded and are open
    waiting,     \* external: clients whose delayed denial is under way
    leaving,     \* external: ids whose connection is queued for removal
    sessions,    \* external: FlashMQ's sessions, <<client id, user>>
    tokens,      \* external: the users in tokens.json
    removed,     \* external: UserRemoved signals under way
    recent       \* auxiliary: unseen wrong passwords in the last i seconds

limitVars  == <<loginTokensShortTerm, loginTokensLongTerm, passwordHistory, recent>>
clientVars == <<privileged_network_clients, security_profile_password_clients,
                lan_clients, users_to_clientids>>
brokerVars == <<connections, waiting, leaving, sessions>>
tokenVars  == <<tokens, removed>>
vars       == <<mqtt_local_mode, limitVars, clientVars, brokerVars, tokenVars>>

MqttLocalMode == {"Unknown", "Off", "On", "TokensOnly"}
Kinds         == {"integrations", "local", "token", "password"}
Connections   == [client : Clients, id : ClientIds, user : Users, kind : Kinds]

TypeOK ==
    /\ mqtt_local_mode \in MqttLocalMode
    /\ loginTokensShortTerm \in 0 .. LOGIN_TOKENS_SHORT_TERM
    /\ loginTokensLongTerm \in 0 .. LOGIN_TOKENS_LONG_TERM
    /\ passwordHistory \in SUBSET Passwords
    /\ privileged_network_clients \in SUBSET Clients
    /\ security_profile_password_clients \in SUBSET (ClientIds \X Users)
    /\ lan_clients \in SUBSET (ClientIds \X Users)
    /\ users_to_clientids \in SUBSET (ClientIds \X Users)
    /\ connections \in SUBSET Connections
    /\ waiting \in SUBSET Clients
    /\ leaving \in SUBSET ClientIds
    /\ sessions \in SUBSET (ClientIds \X Users)
    /\ tokens \in SUBSET TokenUsers /\ removed \in SUBSET TokenUsers
    /\ recent \in [1 .. Window -> Nat]

\* What FlashMQ has after a restart of the device: persisted sessions.
Init ==
    /\ mqtt_local_mode = "Unknown"
    /\ loginTokensShortTerm = LOGIN_TOKENS_SHORT_TERM
    /\ loginTokensLongTerm = LOGIN_TOKENS_LONG_TERM
    /\ passwordHistory = {}
    /\ privileged_network_clients = {}
    /\ security_profile_password_clients = {} /\ lan_clients = {}
    /\ users_to_clientids = {}
    /\ connections = {} /\ waiting = {} /\ leaving = {}
    /\ sessions \in {S \in SUBSET (ClientIds \X Users) :
                       \A s, t \in S : s[1] = t[1] => s = t}
    /\ tokens \in SUBSET TokenUsers
    /\ removed = {}
    /\ recent = [i \in 1 .. Window |-> 0]

----------------------------------------------------------------------------
(* The end of a login check *)

Of(map, id) == {e \in map : e[1] = id}

try_emplace(map, id, user) ==
    IF Of(map, id) = {} THEN map \cup {<<id, user>>} ELSE map

erase(map, id) == map \ Of(map, id)

register_user_and_clientid(user, id) ==
    users_to_clientids' =
        IF user = Anonymous THEN users_to_clientids
        ELSE users_to_clientids \cup {<<id, user>>}

\* FlashMQ, when the check succeeds: the session of the id is this user's.
Opened(c, id, user, kind) ==
    /\ connections' = connections \cup {[client |-> c, id |-> id, user |-> user, kind |-> kind]}
    /\ sessions' = erase(sessions, id) \cup {<<id, user>>}
    /\ UNCHANGED <<waiting, leaving>>

\* auth_success_or_delayed_fail, with success
Success(c, id, user, kind, lan) ==
    /\ lan_clients' = IF lan THEN try_emplace(lan_clients, id, user) ELSE lan_clients
    /\ register_user_and_clientid(user, id)
    /\ Opened(c, id, user, kind)

\* ... with anything else: a task will tell FlashMQ, after a random delay.
DelayedFail(c) ==
    /\ waiting' = waiting \cup {c}
    /\ UNCHANGED <<connections, leaving, sessions>>

Privilege(c) == privileged_network_clients' = privileged_network_clients \cup {c}

----------------------------------------------------------------------------
(* The login check. What the two password files say is a set of results,   *)
(* any of which it may be: they are read at each login.                    *)

\* Whether the password is right, if the user has a row in tokens.json.
do_token_auth(user) == IF user \in tokens THEN BOOLEAN ELSE {}

\* Whether the password is right, or none is asked for.
do_vnc_auth == BOOLEAN

\* FlashMQ calls the check for an object without history and an id not in use.
Connecting(c, id) ==
    /\ c \notin waiting /\ c \notin privileged_network_clients
    /\ \A k \in connections : k.client # c /\ k.id # id

IntegrationsLogin(c, id, localhost) ==
    /\ IF localhost THEN Success(c, id, Integrations, "integrations", FALSE)
       ELSE DelayedFail(c) /\ UNCHANGED <<lan_clients, users_to_clientids>>
    /\ UNCHANGED <<limitVars, privileged_network_clients, security_profile_password_clients>>

LocalhostLogin(c, id, user) ==
    /\ user # Integrations
    /\ Privilege(c)
    /\ Success(c, id, user, "local", FALSE)
    /\ UNCHANGED <<limitVars, security_profile_password_clients>>

TokenLogin(c, id, user, matches) ==
    /\ IF matches THEN Success(c, id, user, "token", TRUE)
       ELSE DelayedFail(c) /\ UNCHANGED <<lan_clients, users_to_clientids>>
    /\ UNCHANGED <<limitVars, privileged_network_clients, security_profile_password_clients>>

\* A token user that has no row.
UnknownToken(c, user) ==
    /\ user \in TokenUsers /\ do_token_auth(user) = {}
    /\ DelayedFail(c)
    /\ UNCHANGED <<limitVars, clientVars>>

\* Mutant of PasswordsAllowed: only an installation that is off refuses them.
AllowedUnlessOff == mqtt_local_mode # "Off"

PasswordsAllowed == mqtt_local_mode = "On"

\* Mutant of RateLimited: the limit of the day only.
DayLimitOnly == loginTokensLongTerm <= 0

RateLimited == loginTokensShortTerm <= 0 \/ loginTokensLongTerm <= 0

RefusedPassword(c, user) ==
    /\ user \in LanUsers
    /\ ~PasswordsAllowed \/ RateLimited
    /\ DelayedFail(c)
    /\ UNCHANGED <<limitVars, clientVars>>

PasswordLogin(c, id, user) ==
    /\ user \in LanUsers
    /\ PasswordsAllowed /\ ~RateLimited
    /\ Privilege(c)
    /\ security_profile_password_clients' =
           try_emplace(security_profile_password_clients, id, user)
    /\ Success(c, id, user, "password", TRUE)
    /\ UNCHANGED limitVars

decrement_login_tokens ==
    /\ loginTokensShortTerm' = IF loginTokensShortTerm > 0 THEN loginTokensShortTerm - 1
                               ELSE loginTokensShortTerm
    /\ loginTokensLongTerm' = IF loginTokensLongTerm > 0 THEN loginTokensLongTerm - 1
                              ELSE loginTokensLongTerm

\* Mutant of CountFailure: every failure is counted, also one that was seen.
CountsEveryFailure(password) ==
    /\ decrement_login_tokens
    /\ passwordHistory' = passwordHistory \cup {password}
    /\ recent' = [i \in 1 .. Window |-> recent[i] + 1]

\* Only a password that was not seen before costs tokens.
CountFailure(password) ==
    IF password \in passwordHistory THEN UNCHANGED limitVars
    ELSE /\ decrement_login_tokens
         /\ passwordHistory' =
                IF Cardinality(passwordHistory) < LOGIN_TOKENS_LONG_TERM
                THEN passwordHistory \cup {password} ELSE passwordHistory
         /\ recent' = [i \in 1 .. Window |-> recent[i] + 1]

WrongPassword(c, user, password) ==
    /\ user \in LanUsers
    /\ PasswordsAllowed /\ ~RateLimited
    /\ CountFailure(password)
    /\ DelayedFail(c)
    /\ UNCHANGED clientVars

\* The user names of the bridge are refused at once, without a trace.
login_check(c, id, user) ==
    /\ Connecting(c, id)
    /\ \/ user = Integrations /\ \E localhost \in BOOLEAN : IntegrationsLogin(c, id, localhost)
       \/ LocalhostLogin(c, id, user)
       \/ \E matches \in do_token_auth(user) : TokenLogin(c, id, user, matches)
       \/ UnknownToken(c, user)
       \/ RefusedPassword(c, user)
       \/ TRUE \in do_vnc_auth /\ PasswordLogin(c, id, user)
       \/ FALSE \in do_vnc_auth /\ \E password \in Passwords : WrongPassword(c, user, password)
    /\ UNCHANGED <<mqtt_local_mode, tokenVars>>

----------------------------------------------------------------------------
(* The ends of connections and sessions *)

\* flashmq_continue_async_authentication of a denied client, or the client
\* has gone before.
Denied(c) ==
    /\ c \in waiting
    /\ waiting' = waiting \ {c}
    /\ UNCHANGED <<mqtt_local_mode, limitVars, clientVars, connections, leaving, sessions,
                   tokenVars>>

\* Mutant of client_disconnected: the two maps keep their entries.
LeavesEntries(k) ==
    /\ k \in connections
    /\ connections' = connections \ {k}
    /\ leaving' = leaving \ {k.id}
    /\ sessions' \in {sessions, erase(sessions, k.id)}
    /\ UNCHANGED <<mqtt_local_mode, limitVars, clientVars, waiting, tokenVars>>

\* A connection ends, for whatever reason; FlashMQ keeps its session or not.
client_disconnected(k) ==
    /\ k \in connections
    /\ connections' = connections \ {k}
    /\ leaving' = leaving \ {k.id}
    /\ sessions' \in {sessions, erase(sessions, k.id)}
    /\ security_profile_password_clients' = erase(security_profile_password_clients, k.id)
    /\ lan_clients' = erase(lan_clients, k.id)
    /\ UNCHANGED <<mqtt_local_mode, limitVars, privileged_network_clients,
                   users_to_clientids, waiting, tokenVars>>

SessionExpires(id) ==
    /\ Of(sessions, id) # {}
    /\ \A k \in connections : k.id # id
    /\ sessions' = erase(sessions, id)
    /\ UNCHANGED <<mqtt_local_mode, limitVars, clientVars, connections, waiting, leaving,
                   tokenVars>>

\* Mutant of clear_expired_privileged_clients: it clears them all.
ClearsAll == {}

\* What is left of the privileged clients: the objects that still exist.
clear_expired_privileged_clients ==
    {c \in privileged_network_clients : c \in waiting \/ \E k \in connections : k.client = c}

periodic_event ==
    /\ privileged_network_clients' = clear_expired_privileged_clients
    /\ UNCHANGED <<mqtt_local_mode, limitVars, security_profile_password_clients,
                   lan_clients, users_to_clientids, brokerVars, tokenVars>>

\* Mutant of Purged: a user who has lost one session is forgotten.
ForgetsUser == {e \in users_to_clientids :
                  \A f \in users_to_clientids : f[2] = e[2] => f \in sessions}

\* purge_old_usernames_to_clientids
Purged == users_to_clientids \cap sessions

per_minute_action ==
    /\ users_to_clientids' = Purged
    /\ UNCHANGED <<mqtt_local_mode, limitVars, privileged_network_clients,
                   security_profile_password_clients, lan_clients, brokerVars, tokenVars>>

----------------------------------------------------------------------------
(* The limits with time *)

\* Mutant of Refilled: tokens that were left are kept.
Accumulated == loginTokensShortTerm + 1

Refilled == IF loginTokensShortTerm < LOGIN_TOKENS_SHORT_TERM
            THEN loginTokensShortTerm + 1 ELSE LOGIN_TOKENS_SHORT_TERM

per_second_action(dayIsOver) ==
    /\ loginTokensShortTerm' = Refilled
    /\ IF dayIsOver
       THEN loginTokensLongTerm' = LOGIN_TOKENS_LONG_TERM /\ passwordHistory' = {}
       ELSE UNCHANGED <<loginTokensLongTerm, passwordHistory>>
    /\ recent' = [i \in 1 .. Window |-> IF i = 1 THEN 0 ELSE recent[i - 1]]
    /\ UNCHANGED <<mqtt_local_mode, clientVars, brokerVars, tokenVars>>

----------------------------------------------------------------------------
(* The setting and the token users *)

\* flashmq_plugin_remove_client_v4 of the sessions that are found: FlashMQ will
\* remove their connections.
Removal(found) == {k.id : k \in {l \in connections : <<l.id, l.user>> \in found \cap sessions}}

\* Mutant of OnMode: off puts out the clients of the password only.
OffForgetsTokens(m) ==
    IF m \in {"Off", "TokensOnly"}
    THEN [out |-> security_profile_password_clients, password |-> {}, lan |-> lan_clients]
    ELSE [out |-> {}, password |-> security_profile_password_clients, lan |-> lan_clients]

\* disconnect_all_applicable_lan_clients: who is put out, and what is left of
\* the two maps.
OnMode(m) ==
    CASE m = "TokensOnly" ->
           [out |-> security_profile_password_clients, password |-> {}, lan |-> lan_clients]
      [] m = "Off" ->
           [out |-> lan_clients, password |-> security_profile_password_clients, lan |-> {}]
      [] OTHER ->
           [out |-> {}, password |-> security_profile_password_clients, lan |-> lan_clients]

\* The setting is read or changes (the end of add_dbus_to_mqtt_mapping).
MqttLocal(m) ==
    /\ mqtt_local_mode' = m
    /\ leaving' = leaving \cup Removal(OnMode(m).out)
    /\ security_profile_password_clients' = OnMode(m).password
    /\ lan_clients' = OnMode(m).lan
    /\ UNCHANGED <<limitVars, privileged_network_clients, users_to_clientids,
                   connections, waiting, sessions, tokenVars>>

\* The process that pairs devices writes the file, and then tells a removal.
TokenAdded(user) ==
    /\ user \notin tokens
    /\ tokens' = tokens \cup {user}
    /\ UNCHANGED <<mqtt_local_mode, limitVars, clientVars, brokerVars, removed>>

TokenRemoved(user) ==
    /\ user \in tokens
    /\ tokens' = tokens \ {user} /\ removed' = removed \cup {user}
    /\ UNCHANGED <<mqtt_local_mode, limitVars, clientVars, brokerVars>>

\* Their sessions go with them; those with a connection when it ends.
disconnect_all_connections_of_user(user) ==
    LET found == {e \in users_to_clientids : e[2] = user}
    IN  /\ leaving' = leaving \cup Removal(found)
        /\ sessions' = {s \in sessions : s \in found => \E k \in connections : k.id = s[1]}
        /\ users_to_clientids' = users_to_clientids \ found

UserRemoved(user) ==
    /\ user \in removed
    /\ removed' = removed \ {user}
    /\ disconnect_all_connections_of_user(user)
    /\ UNCHANGED <<mqtt_local_mode, limitVars, privileged_network_clients,
                   security_profile_password_clients, lan_clients, connections, waiting, tokens>>

Next ==
    \/ \E c \in Clients, id \in ClientIds, user \in Users : login_check(c, id, user)
    \/ \E c \in Clients : Denied(c)
    \/ \E k \in connections : client_disconnected(k)
    \/ \E id \in ClientIds : SessionExpires(id)
    \/ periodic_event
    \/ per_minute_action
    \/ \E dayIsOver \in BOOLEAN : per_second_action(dayIsOver)
    \/ \E m \in MqttLocalMode : MqttLocal(m)
    \/ \E user \in TokenUsers : TokenAdded(user) \/ TokenRemoved(user) \/ UserRemoved(user)

Spec == Init /\ [][Next]_vars

----------------------------------------------------------------------------
(* Properties *)

\* Every token of the day that is gone was paid for one password that is
\* remembered: no failure is counted twice or forgotten, on either side of the
\* day's end, and the history never outgrows its limit.
FailuresPaid ==
    loginTokensLongTerm + Cardinality(passwordHistory) = LOGIN_TOKENS_LONG_TERM

\* Over any run of seconds no more unseen wrong passwords are tried than the
\* short-term limit plus one for each second that has passed.
GuessRate == \A i \in 1 .. Window : recent[i] <= LOGIN_TOKENS_SHORT_TERM + i - 1

\* A connection is privileged from its login to its end exactly if it came
\* from the device itself or with the password, whatever is cleared meanwhile.
PrivilegedAsLoggedIn ==
    \A k \in connections :
        k.client \in privileged_network_clients <=> k.kind \in {"local", "password"}

\* A token user who was taken out of the file has no open connection, unless
\* the signal or the removal it asked for is still under way.
RemovedUserLeaves ==
    \A k \in connections :
        k.kind = "token" => k.user \in tokens \cup removed \/ k.id \in leaving

\* While only tokens are allowed, no connection made with the password stays,
\* whatever the order of logins, changes of the setting and disconnects.
TokensOnlyEnforced ==
    mqtt_local_mode = "TokensOnly" =>
        \A k \in connections : k.kind = "password" => k.id \in leaving

\* When the setting changes to off, every connection from the LAN is put out,
\* the ones of token users as well.
LanOffEnforced ==
    [][mqtt_local_mode # "Off" /\ mqtt_local_mode' = "Off" =>
         \A k \in connections : k.kind \in {"password", "token"} => k.id \in leaving']_vars

\* The connections, their ends and the reasons for them are those of LanPolicy:
\* nobody is put out who may stay, and nobody stays who is to be put out.
Policy == INSTANCE LanPolicy WITH
    Users <- TokenUsers, Modes <- MqttLocalMode, mode <- mqtt_local_mode, open <- connections

ImplementsPolicy == Policy!Spec

=============================================================================
