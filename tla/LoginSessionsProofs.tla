------------------------- MODULE LoginSessionsProofs -------------------------
(***************************************************************************)
(* Proofs about LoginSessions, for any clients, ids, users, passwords and  *)
(* limits: its type invariant, that every failure is paid for once, and    *)
(* that a change of the setting or of the token users reaches every        *)
(* connection it is about.                                                 *)
(*                                                                         *)
(* The last is proved from SessionInv: what the setting and the signal     *)
(* look up are the maps of the plugin and the sessions of FlashMQ, so each *)
(* connection that may have to leave has to be in them (Remembered), and   *)
(* no entry of an earlier connection may stand in its way (NoLeftover).    *)
(*                                                                         *)
(* The last part is about LanAccess: what a connection may do follows from *)
(* how it logged in, for any devices and topics.                           *)
(***************************************************************************)
EXTENDS LanAccess, FiniteSetTheorems, TLAPS

\* The type invariant: no handler leaves a variable outside its type, for any
\* limits and sets of clients, ids, users and passwords.
THEOREM TypeCorrect == Spec => []TypeOK
<1>1. Init => TypeOK
  BY LoginAssumption DEF Init, TypeOK, MqttLocalMode
<1>2. TypeOK /\ [Next]_vars => TypeOK'
  <2> SUFFICES ASSUME TypeOK, [Next]_vars PROVE TypeOK'
    OBVIOUS
  <2> USE LoginAssumption DEF TypeOK
  <2>1. ASSUME NEW c \in Clients, NEW id \in ClientIds, NEW user \in Users,
               login_check(c, id, user)
        PROVE  TypeOK'
    <3> USE <2>1
    <3>0. UNCHANGED <<mqtt_local_mode, tokenVars>>
      BY DEF login_check
    <3> DEFINE SuccessTyped == /\ lan_clients' \in SUBSET (ClientIds \X Users)
                               /\ users_to_clientids' \in SUBSET (ClientIds \X Users)
                               /\ connections' \in SUBSET Connections
                               /\ sessions' \in SUBSET (ClientIds \X Users)
                               /\ UNCHANGED <<waiting, leaving>>
    <3>1. ASSUME NEW kind \in Kinds, NEW lan \in BOOLEAN, Success(c, id, user, kind, lan)
          PROVE  SuccessTyped
      BY <3>1 DEF Success, Opened, register_user_and_clientid, try_emplace, erase, Of, Connections
    <3>2. ASSUME DelayedFail(c)
          PROVE  /\ waiting' \in SUBSET Clients
                 /\ UNCHANGED <<connections, leaving, sessions>>
      BY <3>2 DEF DelayedFail
    <3>3. ASSUME NEW localhost \in BOOLEAN, user = Integrations,
                 IntegrationsLogin(c, id, localhost)
          PROVE  TypeOK'
      <4>1. CASE localhost
        BY <3>0, <3>1, <3>3, <4>1 DEF IntegrationsLogin, Kinds, limitVars, tokenVars
      <4>2. CASE ~localhost
        BY <3>0, <3>2, <3>3, <4>2 DEF IntegrationsLogin, limitVars, tokenVars
      <4> QED BY <4>1, <4>2
    <3>4. ASSUME LocalhostLogin(c, id, user) PROVE TypeOK'
      BY <3>0, <3>1, <3>4 DEF LocalhostLogin, Privilege, Kinds, limitVars, tokenVars
    <3>5. ASSUME NEW matches \in do_token_auth(user), TokenLogin(c, id, user, matches)
          PROVE  TypeOK'
      <4>1. CASE matches
        BY <3>0, <3>1, <3>5, <4>1 DEF TokenLogin, Kinds, limitVars, tokenVars
      <4>2. CASE ~matches
        BY <3>0, <3>2, <3>5, <4>2 DEF TokenLogin, limitVars, tokenVars
      <4> QED BY <4>1, <4>2
    <3>6. ASSUME UnknownToken(c, user) \/ RefusedPassword(c, user) PROVE TypeOK'
      BY <3>0, <3>2, <3>6 DEF UnknownToken, RefusedPassword, limitVars, clientVars, tokenVars
    <3>7. ASSUME PasswordLogin(c, id, user) PROVE TypeOK'
      <4>1. security_profile_password_clients' \in SUBSET (ClientIds \X Users)
        BY <3>7 DEF PasswordLogin, try_emplace
      <4> QED BY <3>0, <3>1, <3>7, <4>1 DEF PasswordLogin, Privilege, Kinds, limitVars, tokenVars
    <3>8. ASSUME NEW password \in Passwords, WrongPassword(c, user, password)
          PROVE  TypeOK'
      <4>1. CountFailure(password)
        BY <3>8 DEF WrongPassword
      <4>2. /\ loginTokensShortTerm' \in 0 .. LOGIN_TOKENS_SHORT_TERM
            /\ loginTokensLongTerm' \in 0 .. LOGIN_TOKENS_LONG_TERM
        BY <4>1 DEF CountFailure, decrement_login_tokens, limitVars
      <4>3. passwordHistory' \in SUBSET Passwords
        BY <4>1 DEF CountFailure, limitVars
      <4>4. recent' \in [1 .. Window -> Nat]
        BY <4>1 DEF CountFailure, limitVars
      <4> QED BY <3>0, <3>2, <3>8, <4>2, <4>3, <4>4 DEF WrongPassword, clientVars, tokenVars
    <3> QED BY <3>3, <3>4, <3>5, <3>6, <3>7, <3>8 DEF login_check
  <2>2. ASSUME NEW c \in Clients, Denied(c) PROVE TypeOK'
    BY <2>2 DEF Denied, limitVars, clientVars, tokenVars
  <2>3. ASSUME NEW k \in connections, client_disconnected(k) PROVE TypeOK'
    BY <2>3 DEF client_disconnected, erase, limitVars, tokenVars
  <2>4. ASSUME NEW id \in ClientIds, SessionExpires(id) PROVE TypeOK'
    BY <2>4 DEF SessionExpires, erase, limitVars, clientVars, tokenVars
  <2>5. ASSUME periodic_event PROVE TypeOK'
    BY <2>5 DEF periodic_event, clear_expired_privileged_clients, limitVars, brokerVars, tokenVars
  <2>6. ASSUME per_minute_action PROVE TypeOK'
    BY <2>6 DEF per_minute_action, Purged, limitVars, brokerVars, tokenVars
  <2>7. ASSUME NEW dayIsOver \in BOOLEAN, per_second_action(dayIsOver) PROVE TypeOK'
    <3>1. /\ loginTokensShortTerm' \in 0 .. LOGIN_TOKENS_SHORT_TERM
          /\ loginTokensLongTerm' \in 0 .. LOGIN_TOKENS_LONG_TERM
          /\ passwordHistory' \in SUBSET Passwords
      BY <2>7 DEF per_second_action, Refilled
    <3>2. recent' \in [1 .. Window -> Nat]
      BY <2>7 DEF per_second_action
    <3> QED BY <2>7, <3>1, <3>2 DEF per_second_action, clientVars, brokerVars, tokenVars
  <2>8. ASSUME NEW m \in MqttLocalMode, MqttLocal(m) PROVE TypeOK'
    <3>1. Removal(OnMode(m).out) \in SUBSET ClientIds
      BY DEF Removal, Connections
    <3>2. /\ OnMode(m).password \in SUBSET (ClientIds \X Users)
          /\ OnMode(m).lan \in SUBSET (ClientIds \X Users)
      BY DEF OnMode, MqttLocalMode
    <3> QED BY <2>8, <3>1, <3>2 DEF MqttLocal, limitVars, tokenVars
  <2>9. ASSUME NEW user \in TokenUsers,
               TokenAdded(user) \/ TokenRemoved(user)
        PROVE  TypeOK'
    BY <2>9 DEF TokenAdded, TokenRemoved, limitVars, clientVars, brokerVars
  <2>10. ASSUME NEW user \in TokenUsers, UserRemoved(user) PROVE TypeOK'
    BY <2>10 DEF UserRemoved, disconnect_all_connections_of_user, Removal, Connections, limitVars
  <2>11. CASE UNCHANGED vars
    BY <2>11 DEF vars, limitVars, clientVars, brokerVars, tokenVars
  <2> QED BY <2>1, <2>2, <2>3, <2>4, <2>5, <2>6, <2>7, <2>8, <2>9, <2>10, <2>11 DEF Next
<1> QED BY <1>1, <1>2, PTL DEF Spec

----------------------------------------------------------------------------
(* The limit of the day *)

LimitInv == IsFiniteSet(passwordHistory) /\ FailuresPaid

\* Every failure is paid for once: the tokens of the day and the passwords
\* that are remembered always add up to the limit.  A password is therefore
\* never left out of the history for want of room.
THEOREM FailuresArePaid == Spec => []FailuresPaid
<1>1. Init => LimitInv
  BY FS_EmptySet, LoginAssumption DEF Init, LimitInv, FailuresPaid
<1>2. TypeOK /\ LimitInv /\ [Next]_vars => LimitInv'
  <2> SUFFICES ASSUME TypeOK, LimitInv, [Next]_vars PROVE LimitInv'
    OBVIOUS
  <2> USE DEF LimitInv, FailuresPaid
  <2>0. ASSUME UNCHANGED limitVars PROVE LimitInv'
    BY <2>0 DEF limitVars
  <2>1. ASSUME NEW password \in Passwords, CountFailure(password), ~RateLimited
        PROVE  LimitInv'
    <3>1. CASE password \in passwordHistory
      BY <2>0, <2>1, <3>1 DEF CountFailure
    <3>2. CASE password \notin passwordHistory
      <4>1. loginTokensLongTerm' = loginTokensLongTerm - 1 /\ loginTokensLongTerm > 0
        BY <2>1, <3>2 DEF TypeOK, CountFailure, decrement_login_tokens, RateLimited
      <4>2. Cardinality(passwordHistory) \in Nat
        BY FS_CardinalityType
      <4>3. Cardinality(passwordHistory) < LOGIN_TOKENS_LONG_TERM
        BY <4>1, <4>2, LoginAssumption DEF TypeOK
      <4>4. passwordHistory' = passwordHistory \cup {password}
        BY <2>1, <3>2, <4>3 DEF CountFailure
      <4>5. /\ IsFiniteSet(passwordHistory')
            /\ Cardinality(passwordHistory') = Cardinality(passwordHistory) + 1
        BY <3>2, <4>4, FS_AddElement
      <4> QED BY <4>1, <4>2, <4>5, LoginAssumption DEF TypeOK
    <3> QED BY <3>1, <3>2
  <2>2. ASSUME NEW c \in Clients, NEW id \in ClientIds, NEW user \in Users,
               login_check(c, id, user)
        PROVE  LimitInv'
    BY <2>0, <2>1, <2>2 DEF login_check, IntegrationsLogin, LocalhostLogin, TokenLogin,
       UnknownToken, RefusedPassword, PasswordLogin, WrongPassword
  <2>3. ASSUME NEW dayIsOver \in BOOLEAN, per_second_action(dayIsOver) PROVE LimitInv'
    <3>1. CASE dayIsOver
      <4>1. passwordHistory' = {} /\ loginTokensLongTerm' = LOGIN_TOKENS_LONG_TERM
        BY <2>3, <3>1 DEF per_second_action
      <4>2. IsFiniteSet({}) /\ Cardinality({}) = 0
        BY FS_EmptySet
      <4>3. IsFiniteSet(passwordHistory') /\ Cardinality(passwordHistory') = 0
        BY <4>1, <4>2
      <4> QED BY <4>1, <4>3, LoginAssumption
    <3>2. CASE ~dayIsOver
      BY <2>3, <3>2 DEF per_second_action
    <3> QED BY <3>1, <3>2
  <2>4. CASE UNCHANGED vars
    BY <2>0, <2>4 DEF vars
  <2> QED BY <2>0, <2>2, <2>3, <2>4 DEF Next, Denied, client_disconnected, SessionExpires,
         periodic_event, per_minute_action, MqttLocal, TokenAdded, TokenRemoved, UserRemoved
<1>3. LimitInv => FailuresPaid
  BY DEF LimitInv
<1> QED BY <1>1, <1>2, <1>3, TypeCorrect, PTL DEF Spec

----------------------------------------------------------------------------
(* The limit of the second *)

\* The tokens that are left and the guesses of the last i seconds were there i
\* seconds ago, or came in since.
GuessInv ==
    \A i \in 1 .. Window :
        recent[i] + loginTokensShortTerm <= LOGIN_TOKENS_SHORT_TERM + i - 1

LEMMA GuessTypes ==
    ASSUME TypeOK
    PROVE  /\ loginTokensShortTerm \in Nat /\ loginTokensShortTerm <= LOGIN_TOKENS_SHORT_TERM
           /\ LOGIN_TOKENS_SHORT_TERM \in Nat /\ Window \in Nat
           /\ \A i \in 1 .. Window : recent[i] \in Nat
BY LoginAssumption DEF TypeOK

\* In any run of seconds, however the guesses, the refills and the end of the day
\* fall, no more unseen wrong passwords are tried than the short-term limit and
\* one for each second that passed.
THEOREM GuessesAreLimited == Spec => []GuessRate
<1>1. Init => GuessInv
  <2> SUFFICES ASSUME Init, NEW i \in 1 .. Window
               PROVE  recent[i] + loginTokensShortTerm <= LOGIN_TOKENS_SHORT_TERM + i - 1
    BY DEF GuessInv
  <2>1. recent[i] = 0 /\ loginTokensShortTerm = LOGIN_TOKENS_SHORT_TERM
    BY DEF Init
  <2> QED BY <2>1, LoginAssumption
<1>2. TypeOK /\ GuessInv /\ [Next]_vars => GuessInv'
  <2> SUFFICES ASSUME TypeOK, GuessInv, [Next]_vars PROVE GuessInv'
    OBVIOUS
  <2>0. ASSUME UNCHANGED limitVars PROVE GuessInv'
    BY <2>0 DEF limitVars, GuessInv
  <2>1. ASSUME NEW password \in Passwords, CountFailure(password), ~RateLimited
        PROVE  GuessInv'
    <3>1. CASE password \in passwordHistory
      BY <2>0, <2>1, <3>1 DEF CountFailure
    <3>2. CASE password \notin passwordHistory
      <4>1. /\ loginTokensShortTerm' = loginTokensShortTerm - 1
            /\ recent' = [i \in 1 .. Window |-> recent[i] + 1]
        BY <2>1, <3>2, GuessTypes DEF CountFailure, decrement_login_tokens, RateLimited
      <4> SUFFICES ASSUME NEW i \in 1 .. Window
                   PROVE  recent'[i] + loginTokensShortTerm'
                            <= LOGIN_TOKENS_SHORT_TERM + i - 1
        BY DEF GuessInv
      <4>2. recent'[i] = recent[i] + 1
        BY <4>1
      <4>3. recent[i] + loginTokensShortTerm <= LOGIN_TOKENS_SHORT_TERM + i - 1
        BY DEF GuessInv
      <4> QED BY <4>1, <4>2, <4>3, GuessTypes
    <3> QED BY <3>1, <3>2
  <2>2. ASSUME NEW c \in Clients, NEW id \in ClientIds, NEW user \in Users,
               login_check(c, id, user)
        PROVE  GuessInv'
    BY <2>0, <2>1, <2>2 DEF login_check, IntegrationsLogin, LocalhostLogin, TokenLogin,
       UnknownToken, RefusedPassword, PasswordLogin, WrongPassword
  <2>3. ASSUME NEW dayIsOver \in BOOLEAN, per_second_action(dayIsOver) PROVE GuessInv'
    <3>1. /\ loginTokensShortTerm' = Refilled
          /\ recent' = [i \in 1 .. Window |-> IF i = 1 THEN 0 ELSE recent[i - 1]]
      BY <2>3 DEF per_second_action
    <3>2. /\ loginTokensShortTerm' \in Nat
          /\ loginTokensShortTerm' <= LOGIN_TOKENS_SHORT_TERM
          /\ loginTokensShortTerm' <= loginTokensShortTerm + 1
      BY <3>1, GuessTypes DEF Refilled
    <3> SUFFICES ASSUME NEW i \in 1 .. Window
                 PROVE  recent'[i] + loginTokensShortTerm'
                          <= LOGIN_TOKENS_SHORT_TERM + i - 1
      BY DEF GuessInv
    <3>3. CASE i = 1
      BY <3>1, <3>2, <3>3, GuessTypes
    <3>4. CASE i # 1
      <4>1. i - 1 \in 1 .. Window /\ recent'[i] = recent[i - 1]
        BY <3>1, <3>4, GuessTypes
      <4>2. recent[i - 1] + loginTokensShortTerm <= LOGIN_TOKENS_SHORT_TERM + (i - 1) - 1
        BY <4>1 DEF GuessInv
      <4> QED BY <3>2, <4>1, <4>2, GuessTypes
    <3> QED BY <3>3, <3>4
  <2>4. CASE UNCHANGED vars
    BY <2>0, <2>4 DEF vars
  <2> QED BY <2>0, <2>2, <2>3, <2>4 DEF Next, Denied, client_disconnected, SessionExpires,
         periodic_event, per_minute_action, MqttLocal, TokenAdded, TokenRemoved, UserRemoved
<1>3. TypeOK /\ GuessInv => GuessRate
  <2> SUFFICES ASSUME TypeOK, GuessInv, NEW i \in 1 .. Window
               PROVE  recent[i] <= LOGIN_TOKENS_SHORT_TERM + i - 1
    BY DEF GuessRate
  <2>1. recent[i] + loginTokensShortTerm <= LOGIN_TOKENS_SHORT_TERM + i - 1
    BY DEF GuessInv
  <2> QED BY <2>1, GuessTypes
<1> QED BY <1>1, <1>2, <1>3, TypeCorrect, PTL DEF Spec

----------------------------------------------------------------------------
(* Who is put out *)

OneOwner == \A k, l \in connections : k.id = l.id => k = l

HasSession == \A k \in connections : <<k.id, k.user>> \in sessions

\* A connection that is not on its way out is where it will be looked up.
Remembered(k) ==
    /\ k.kind = "password" => <<k.id, k.user>> \in security_profile_password_clients
    /\ k.kind \in {"password", "token"} => <<k.id, k.user>> \in lan_clients
    /\ k.kind = "token" => <<k.id, k.user>> \in users_to_clientids

AllRemembered == \A k \in connections : k.id \notin leaving => Remembered(k)

\* No entry of an earlier connection keeps a later one out of the maps.
NoLeftover ==
    \A e \in security_profile_password_clients \cup lan_clients :
        \E k \in connections : k.id = e[1]

SessionInv ==
    /\ OneOwner
    /\ HasSession
    /\ AllRemembered
    /\ NoLeftover
    /\ PrivilegedAsLoggedIn
    /\ RemovedUserLeaves
    /\ TokensOnlyEnforced

\* try_emplace keeps every entry, and adds one if the id had none.
LEMMA TryEmplace ==
  ASSUME NEW map, NEW id, NEW user
  PROVE  /\ map \subseteq try_emplace(map, id, user)
         /\ \A e \in try_emplace(map, id, user) : e \in map \/ e[1] = id
         /\ (\A e \in map : e[1] # id) => <<id, user>> \in try_emplace(map, id, user)
BY DEF try_emplace, Of

\* A login that succeeds: the new connection is remembered, and the others stay.
LEMMA LoginRemembered ==
  ASSUME TypeOK, SessionInv,
         NEW c \in Clients, NEW id \in ClientIds, NEW user \in Users, NEW kind \in Kinds,
         NEW lan \in BOOLEAN,
         Connecting(c, id),
         Success(c, id, user, kind, lan),
         kind \in {"password", "token"} => lan,
         kind = "token" => user \in tokens,
         IF kind = "password"
         THEN /\ mqtt_local_mode = "On"
              /\ security_profile_password_clients' =
                     try_emplace(security_profile_password_clients, id, user)
         ELSE UNCHANGED security_profile_password_clients,
         IF kind \in {"password", "local"} THEN Privilege(c)
         ELSE UNCHANGED privileged_network_clients,
         UNCHANGED <<mqtt_local_mode, tokens, removed>>
  PROVE  SessionInv'
<1> DEFINE new == [client |-> c, id |-> id, user |-> user, kind |-> kind]
<1>1. /\ connections' = connections \cup {new}
      /\ sessions' = erase(sessions, id) \cup {<<id, user>>}
      /\ leaving' = leaving
  BY DEF Success, Opened
<1>2. \A k \in connections : k.id # id /\ k.client # c
  BY DEF Connecting
<1>3. c \notin privileged_network_clients
  BY DEF Connecting
<1>4. \A e \in security_profile_password_clients \cup lan_clients : e[1] # id
  BY <1>2 DEF SessionInv, NoLeftover
<1>5. OneOwner'
  BY <1>1, <1>2 DEF OneOwner, SessionInv
<1>6. HasSession'
  <2>1. ASSUME NEW k \in connections PROVE <<k.id, k.user>> \in sessions'
    <3>1. <<k.id, k.user>> \in sessions /\ k.id # id
      BY <1>2, <2>1 DEF SessionInv, HasSession
    <3>2. <<k.id, k.user>>[1] = k.id
      OBVIOUS
    <3> QED BY <1>1, <3>1, <3>2 DEF erase, Of
  <2>2. <<new.id, new.user>> \in sessions'
    BY <1>1
  <2> QED BY <1>1, <2>1, <2>2 DEF HasSession
<1>7. /\ lan_clients \subseteq lan_clients'
      /\ \A e \in lan_clients' : e \in lan_clients \/ e[1] = id
      /\ lan => <<id, user>> \in lan_clients'
  BY <1>4, TryEmplace DEF Success
<1>8. /\ security_profile_password_clients \subseteq security_profile_password_clients'
      /\ \A e \in security_profile_password_clients' :
           e \in security_profile_password_clients \/ e[1] = id
      /\ kind = "password" => <<id, user>> \in security_profile_password_clients'
  BY <1>4, TryEmplace
<1>9. /\ users_to_clientids \subseteq users_to_clientids'
      /\ kind = "token" => <<id, user>> \in users_to_clientids'
  BY LoginAssumption DEF Success, register_user_and_clientid, TypeOK
<1>10. AllRemembered'
  <2>1. ASSUME NEW k \in connections, k.id \notin leaving' PROVE Remembered(k)'
    <3>1. Remembered(k)
      BY <1>1, <2>1 DEF SessionInv, AllRemembered
    <3> QED BY <1>7, <1>8, <1>9, <3>1 DEF Remembered
  <2>2. Remembered(new)'
    BY <1>7, <1>8, <1>9 DEF Remembered
  <2> QED BY <1>1, <2>1, <2>2 DEF AllRemembered
<1>11. NoLeftover'
  <2>1. ASSUME NEW e \in (security_profile_password_clients \cup lan_clients)'
        PROVE  \E k \in connections' : k.id = e[1]
    <3>1. CASE e[1] = id
      <4>1. new \in connections' /\ new.id = id
        BY <1>1
      <4> QED BY <3>1, <4>1
    <3>2. CASE e[1] # id
      BY <1>1, <1>7, <1>8, <2>1, <3>2 DEF SessionInv, NoLeftover
    <3> QED BY <3>1, <3>2
  <2> QED BY <2>1 DEF NoLeftover
<1>12. PrivilegedAsLoggedIn'
  BY <1>1, <1>2, <1>3 DEF PrivilegedAsLoggedIn, SessionInv, Privilege
<1>13. RemovedUserLeaves'
  BY <1>1 DEF RemovedUserLeaves, SessionInv
<1>14. TokensOnlyEnforced'
  BY <1>1 DEF TokensOnlyEnforced, SessionInv
<1> QED BY <1>5, <1>6, <1>10, <1>11, <1>12, <1>13, <1>14 DEF SessionInv

\* What SessionInv is about, when a handler touches none of it.
LEMMA SessionsUntouched ==
  ASSUME SessionInv,
         UNCHANGED <<mqtt_local_mode, clientVars, connections, leaving, sessions, tokenVars>>
  PROVE  SessionInv'
BY DEF SessionInv, OneOwner, HasSession, AllRemembered, Remembered, NoLeftover,
       PrivilegedAsLoggedIn, RemovedUserLeaves, TokensOnlyEnforced, clientVars, tokenVars

\* Every login check, whichever way it ends.
LEMMA LoginStep ==
  ASSUME TypeOK, SessionInv,
         NEW c \in Clients, NEW id \in ClientIds, NEW user \in Users,
         login_check(c, id, user)
  PROVE  SessionInv'
<1>0. Connecting(c, id) /\ UNCHANGED <<mqtt_local_mode, tokens, removed>>
  BY DEF login_check, tokenVars
<1>1. ASSUME DelayedFail(c), UNCHANGED clientVars PROVE SessionInv'
  BY <1>0, <1>1, SessionsUntouched DEF DelayedFail, tokenVars
<1>2. ASSUME NEW localhost \in BOOLEAN, user = Integrations,
             IntegrationsLogin(c, id, localhost)
      PROVE  SessionInv'
  <2>1. CASE localhost
    BY <1>0, <1>2, <2>1, LoginRemembered DEF IntegrationsLogin, Kinds
  <2>2. CASE ~localhost
    BY <1>1, <1>2, <2>2 DEF IntegrationsLogin, clientVars
  <2> QED BY <2>1, <2>2
<1>3. ASSUME LocalhostLogin(c, id, user) PROVE SessionInv'
  BY <1>0, <1>3, LoginRemembered DEF LocalhostLogin, Kinds
<1>4. ASSUME NEW matches \in do_token_auth(user), TokenLogin(c, id, user, matches)
      PROVE  SessionInv'
  <2>1. CASE matches
    <3>1. user \in tokens
      BY DEF do_token_auth
    <3> QED BY <1>0, <1>4, <2>1, <3>1, LoginRemembered DEF TokenLogin, Kinds
  <2>2. CASE ~matches
    BY <1>1, <1>4, <2>2 DEF TokenLogin, clientVars
  <2> QED BY <2>1, <2>2
<1>5. ASSUME PasswordLogin(c, id, user) PROVE SessionInv'
  BY <1>0, <1>5, LoginRemembered DEF PasswordLogin, PasswordsAllowed, Kinds
<1>6. ASSUME UnknownToken(c, user) \/ RefusedPassword(c, user) PROVE SessionInv'
  BY <1>1, <1>6 DEF UnknownToken, RefusedPassword
<1>7. ASSUME NEW password \in Passwords, WrongPassword(c, user, password) PROVE SessionInv'
  BY <1>1, <1>7 DEF WrongPassword
<1> QED BY <1>2, <1>3, <1>4, <1>5, <1>6, <1>7 DEF login_check

\* A connection that ends takes its own entries along, and no others.
LEMMA DisconnectStep ==
  ASSUME SessionInv, NEW k \in connections, client_disconnected(k)
  PROVE  SessionInv'
<1>1. /\ connections' = connections \ {k}
      /\ leaving' = leaving \ {k.id}
      /\ security_profile_password_clients' = erase(security_profile_password_clients, k.id)
      /\ lan_clients' = erase(lan_clients, k.id)
      /\ UNCHANGED <<mqtt_local_mode, privileged_network_clients, users_to_clientids,
                     tokens, removed>>
  BY DEF client_disconnected, tokenVars
<1>2. \A l \in connections' : l \in connections /\ l.id # k.id
  BY <1>1 DEF SessionInv, OneOwner
<1>3. OneOwner'
  BY <1>1 DEF SessionInv, OneOwner
<1>4. HasSession'
  <2> SUFFICES ASSUME NEW l \in connections' PROVE <<l.id, l.user>> \in sessions'
    BY DEF HasSession
  <2>1. <<l.id, l.user>> \in sessions /\ <<l.id, l.user>>[1] # k.id
    BY <1>2 DEF SessionInv, HasSession
  <2> QED BY <2>1 DEF client_disconnected, erase, Of
<1>5. AllRemembered'
  <2> SUFFICES ASSUME NEW l \in connections', l.id \notin leaving' PROVE Remembered(l)'
    BY DEF AllRemembered
  <2>1. Remembered(l)
    BY <1>1, <1>2 DEF SessionInv, AllRemembered
  <2>2. <<l.id, l.user>>[1] # k.id
    BY <1>2
  <2> QED BY <1>1, <2>1, <2>2 DEF Remembered, erase, Of
<1>6. NoLeftover'
  <2> SUFFICES ASSUME NEW e \in (security_profile_password_clients \cup lan_clients)'
               PROVE  \E l \in connections' : l.id = e[1]
    BY DEF NoLeftover
  <2>1. e \in security_profile_password_clients \cup lan_clients /\ e[1] # k.id
    BY <1>1 DEF erase, Of
  <2>2. PICK l \in connections : l.id = e[1]
    BY <2>1 DEF SessionInv, NoLeftover
  <2> QED BY <1>1, <2>1, <2>2
<1>7. PrivilegedAsLoggedIn' /\ RemovedUserLeaves' /\ TokensOnlyEnforced'
  BY <1>1, <1>2 DEF SessionInv, PrivilegedAsLoggedIn, RemovedUserLeaves, TokensOnlyEnforced
<1> QED BY <1>3, <1>4, <1>5, <1>6, <1>7 DEF SessionInv

\* What the setting puts out is leaving, whatever it is set to.
LEMMA SettingPutsOut ==
  ASSUME SessionInv, NEW m \in MqttLocalMode, MqttLocal(m)
  PROVE  /\ leaving \subseteq leaving'
         /\ \A k \in connections :
              \/ k.id \in leaving'
              \/ /\ Remembered(k)'
                 /\ m = "TokensOnly" => k.kind # "password"
                 /\ m = "Off" => k.kind \notin {"password", "token"}
<1>1. /\ leaving' = leaving \cup Removal(OnMode(m).out)
      /\ security_profile_password_clients' = OnMode(m).password
      /\ lan_clients' = OnMode(m).lan
      /\ UNCHANGED <<users_to_clientids, sessions>>
  BY DEF MqttLocal
<1>2. \A k \in connections : <<k.id, k.user>> \in OnMode(m).out => k.id \in leaving'
  BY <1>1 DEF Removal, SessionInv, HasSession
<1>3. ASSUME NEW k \in connections, k.id \notin leaving'
      PROVE  /\ Remembered(k)'
             /\ m = "TokensOnly" => k.kind # "password"
             /\ m = "Off" => k.kind \notin {"password", "token"}
  <2>1. Remembered(k)
    BY <1>1, <1>3 DEF SessionInv, AllRemembered
  <2>2. <<k.id, k.user>> \notin OnMode(m).out
    BY <1>2, <1>3
  <2>3. CASE m = "TokensOnly"
    BY <1>1, <2>1, <2>2, <2>3 DEF Remembered, OnMode
  <2>4. CASE m = "Off"
    BY <1>1, <2>1, <2>2, <2>4 DEF Remembered, OnMode
  <2>5. CASE m \notin {"TokensOnly", "Off"}
    BY <1>1, <2>1, <2>5 DEF Remembered, OnMode, MqttLocalMode
  <2> QED BY <2>3, <2>4, <2>5
<1> QED BY <1>1, <1>3

LEMMA SettingStep ==
  ASSUME SessionInv, NEW m \in MqttLocalMode, MqttLocal(m)
  PROVE  SessionInv'
<1>1. /\ mqtt_local_mode' = m
      /\ UNCHANGED <<privileged_network_clients, connections, sessions, tokens, removed>>
  BY DEF MqttLocal, tokenVars
<1>2. OneOwner' /\ HasSession' /\ PrivilegedAsLoggedIn'
  BY <1>1 DEF SessionInv, OneOwner, HasSession, PrivilegedAsLoggedIn
<1>3. AllRemembered'
  BY <1>1, SettingPutsOut DEF AllRemembered
<1>4. NoLeftover'
  <2>1. (security_profile_password_clients \cup lan_clients)'
          \subseteq security_profile_password_clients \cup lan_clients
    BY DEF MqttLocal, OnMode, MqttLocalMode
  <2> QED BY <1>1, <2>1 DEF SessionInv, NoLeftover
<1>5. RemovedUserLeaves'
  BY <1>1, SettingPutsOut DEF SessionInv, RemovedUserLeaves
<1>6. TokensOnlyEnforced'
  BY <1>1, SettingPutsOut DEF TokensOnlyEnforced
<1> QED BY <1>2, <1>3, <1>4, <1>5, <1>6 DEF SessionInv

\* A removed user's connections are found through the user's client ids.
LEMMA UserRemovedStep ==
  ASSUME SessionInv, NEW user \in TokenUsers, UserRemoved(user)
  PROVE  SessionInv'
<1> DEFINE found == {e \in users_to_clientids : e[2] = user}
<1>1. /\ leaving' = leaving \cup Removal(found)
      /\ sessions' = {s \in sessions : s \in found => \E k \in connections : k.id = s[1]}
      /\ users_to_clientids' = users_to_clientids \ found
      /\ removed' = removed \ {user}
      /\ UNCHANGED <<mqtt_local_mode, privileged_network_clients,
                     security_profile_password_clients, lan_clients, connections, tokens>>
  BY DEF UserRemoved, disconnect_all_connections_of_user
<1>2. \A k \in connections : <<k.id, k.user>> \in found => k.id \in leaving'
  BY <1>1 DEF Removal, SessionInv, HasSession
<1>3. OneOwner' /\ NoLeftover' /\ PrivilegedAsLoggedIn'
  BY <1>1 DEF SessionInv, OneOwner, NoLeftover, PrivilegedAsLoggedIn
<1>4. HasSession'
  <2> SUFFICES ASSUME NEW k \in connections PROVE <<k.id, k.user>> \in sessions'
    BY <1>1 DEF HasSession
  <2>1. <<k.id, k.user>> \in sessions /\ <<k.id, k.user>>[1] = k.id
    BY DEF SessionInv, HasSession
  <2> QED BY <1>1, <2>1
<1>5. AllRemembered'
  <2> SUFFICES ASSUME NEW k \in connections, k.id \notin leaving' PROVE Remembered(k)'
    BY <1>1 DEF AllRemembered
  <2>1. Remembered(k)
    BY <1>1 DEF SessionInv, AllRemembered
  <2>2. <<k.id, k.user>> \notin found
    BY <1>2
  <2> QED BY <1>1, <2>1, <2>2 DEF Remembered
<1>6. RemovedUserLeaves'
  <2> SUFFICES ASSUME NEW k \in connections, k.kind = "token", k.id \notin leaving'
               PROVE  k.user \in tokens \cup removed'
    BY <1>1 DEF RemovedUserLeaves
  <2>1. <<k.id, k.user>> \in users_to_clientids /\ <<k.id, k.user>>[2] = k.user
    BY <1>1 DEF SessionInv, AllRemembered, Remembered
  <2>2. k.user # user
    BY <1>2, <2>1
  <2> QED BY <1>1, <2>2 DEF SessionInv, RemovedUserLeaves
<1>7. TokensOnlyEnforced'
  BY <1>1 DEF SessionInv, TokensOnlyEnforced
<1> QED BY <1>3, <1>4, <1>5, <1>6, <1>7 DEF SessionInv

\* Sessions that expire, and client ids that are purged, are those of no
\* connection.
LEMMA ExpiryStep ==
  ASSUME SessionInv,
         (\E id \in ClientIds : SessionExpires(id)) \/ per_minute_action
  PROVE  SessionInv'
<1>1. UNCHANGED <<mqtt_local_mode, privileged_network_clients,
                  security_profile_password_clients, lan_clients, connections, leaving,
                  tokens, removed>>
  BY DEF SessionExpires, per_minute_action, clientVars, brokerVars, tokenVars
<1>2. \A k \in connections : <<k.id, k.user>> \in sessions'
  <2>1. ASSUME NEW id \in ClientIds, SessionExpires(id), NEW k \in connections
        PROVE  <<k.id, k.user>> \in sessions'
    <3>1. <<k.id, k.user>> \in sessions /\ <<k.id, k.user>>[1] # id
      BY <2>1 DEF SessionInv, HasSession, SessionExpires
    <3> QED BY <2>1, <3>1 DEF SessionExpires, erase, Of
  <2>2. CASE per_minute_action
    BY <2>2 DEF SessionInv, HasSession, per_minute_action, brokerVars
  <2> QED BY <2>1, <2>2
<1>3. \A k \in connections :
        <<k.id, k.user>> \in users_to_clientids => <<k.id, k.user>> \in users_to_clientids'
  BY DEF SessionInv, HasSession, SessionExpires, per_minute_action, Purged, clientVars
<1>4. AllRemembered'
  BY <1>1, <1>3 DEF SessionInv, AllRemembered, Remembered
<1>5. HasSession'
  BY <1>1, <1>2 DEF HasSession
<1>6. OneOwner' /\ NoLeftover' /\ PrivilegedAsLoggedIn' /\ RemovedUserLeaves' /\ TokensOnlyEnforced'
  BY <1>1 DEF SessionInv, OneOwner, NoLeftover, PrivilegedAsLoggedIn, RemovedUserLeaves,
     TokensOnlyEnforced
<1> QED BY <1>4, <1>5, <1>6 DEF SessionInv

\* SessionInv in every reachable state.
THEOREM SessionsSound == Spec => []SessionInv
<1>1. Init => SessionInv
  BY DEF Init, SessionInv, OneOwner, HasSession, AllRemembered, NoLeftover,
     PrivilegedAsLoggedIn, RemovedUserLeaves, TokensOnlyEnforced
<1>2. TypeOK /\ SessionInv /\ [Next]_vars => SessionInv'
  <2> SUFFICES ASSUME TypeOK, SessionInv, [Next]_vars PROVE SessionInv'
    OBVIOUS
  <2>1. ASSUME NEW c \in Clients, NEW id \in ClientIds, NEW user \in Users,
               login_check(c, id, user)
        PROVE  SessionInv'
    BY <2>1, LoginStep
  <2>2. ASSUME NEW c \in Clients, Denied(c) PROVE SessionInv'
    BY <2>2, SessionsUntouched DEF Denied
  <2>3. ASSUME NEW k \in connections, client_disconnected(k) PROVE SessionInv'
    BY <2>3, DisconnectStep
  <2>4. ASSUME (\E id \in ClientIds : SessionExpires(id)) \/ per_minute_action PROVE SessionInv'
    BY <2>4, ExpiryStep
  <2>5. ASSUME periodic_event PROVE SessionInv'
    <3>1. PrivilegedAsLoggedIn'
      BY <2>5 DEF SessionInv, PrivilegedAsLoggedIn, periodic_event,
         clear_expired_privileged_clients, brokerVars
    <3> QED BY <2>5, <3>1 DEF SessionInv, OneOwner, HasSession, AllRemembered, Remembered,
               NoLeftover, RemovedUserLeaves, TokensOnlyEnforced, periodic_event,
               brokerVars, tokenVars
  <2>6. ASSUME NEW dayIsOver \in BOOLEAN, per_second_action(dayIsOver) PROVE SessionInv'
    BY <2>6, SessionsUntouched DEF per_second_action, brokerVars
  <2>7. ASSUME NEW m \in MqttLocalMode, MqttLocal(m) PROVE SessionInv'
    BY <2>7, SettingStep
  <2>8. ASSUME NEW user \in TokenUsers, TokenAdded(user) \/ TokenRemoved(user)
        PROVE  SessionInv'
    BY <2>8 DEF TokenAdded, TokenRemoved, SessionInv, OneOwner, HasSession, AllRemembered,
       Remembered, NoLeftover, PrivilegedAsLoggedIn, RemovedUserLeaves, TokensOnlyEnforced,
       clientVars, brokerVars
  <2>9. ASSUME NEW user \in TokenUsers, UserRemoved(user) PROVE SessionInv'
    BY <2>9, UserRemovedStep
  <2>10. CASE UNCHANGED vars
    BY <2>10, SessionsUntouched DEF vars, brokerVars
  <2> QED BY <2>1, <2>2, <2>3, <2>4, <2>5, <2>6, <2>7, <2>8, <2>9, <2>10 DEF Next
<1> QED BY <1>1, <1>2, TypeCorrect, PTL DEF Spec

\* While only tokens are allowed, every connection made with the password is
\* on its way out.
THEOREM TokensOnlyHolds == Spec => []TokensOnlyEnforced
<1>1. SessionInv => TokensOnlyEnforced
  BY DEF SessionInv
<1> QED BY <1>1, SessionsSound, PTL

\* A token user who was removed has no connection that stays.
THEOREM RemovedUsersLeave == Spec => []RemovedUserLeaves
<1>1. SessionInv => RemovedUserLeaves
  BY DEF SessionInv
<1> QED BY <1>1, SessionsSound, PTL

\* A change of the setting to off puts out every connection from the LAN.
THEOREM LanOffHolds == Spec => LanOffEnforced
<1> DEFINE PutsOut ==
      mqtt_local_mode # "Off" /\ mqtt_local_mode' = "Off" =>
        \A k \in connections : k.kind \in {"password", "token"} => k.id \in leaving'
<1>1. SessionInv /\ [Next]_vars => [PutsOut]_vars
  <2> SUFFICES ASSUME SessionInv, Next, mqtt_local_mode # "Off", mqtt_local_mode' = "Off"
               PROVE  PutsOut
    OBVIOUS
  <2>1. PICK m \in MqttLocalMode : MqttLocal(m)
    BY DEF Next, login_check, Denied, client_disconnected, SessionExpires, periodic_event,
       per_minute_action, per_second_action, TokenAdded, TokenRemoved, UserRemoved
  <2>2. m = "Off"
    BY <2>1 DEF MqttLocal
  <2> QED BY <2>1, <2>2, SettingPutsOut
<1> QED BY <1>1, SessionsSound, PTL DEF Spec, LanOffEnforced

----------------------------------------------------------------------------
(* LoginSessions implements LanPolicy.                                     *)
(*                                                                         *)
(* That everybody is put out who has to leave follows from SessionInv.     *)
(* That nobody else is put out needs the converse (EntriesAsKinds): an     *)
(* entry of the two maps is that of an open connection of the right kind,  *)
(* never one of an earlier connection with the same client id. The removal *)
(* of a user reaches connections of any kind (UsersKnown), also those from *)
(* the device itself under the name of a token user.                       *)

IsOf(e, k) == e = <<k.id, k.user>>

EntriesAsKinds ==
    /\ \A e \in security_profile_password_clients :
         \E k \in connections : IsOf(e, k) /\ k.kind = "password"
    /\ \A e \in lan_clients :
         \E k \in connections : IsOf(e, k) /\ k.kind \in {"password", "token"}

UsersKnown ==
    \A k \in connections :
        k.user \in TokenUsers /\ k.id \notin leaving => <<k.id, k.user>> \in users_to_clientids

PolicyInv == EntriesAsKinds /\ UsersKnown

----------------------------------------------------------------------------
(* The invariant *)

\* A new connection brings its own entries, and those of its kind only.
LEMMA LoginEntries ==
  ASSUME TypeOK, PolicyInv,
         NEW c \in Clients, NEW id \in ClientIds, NEW user \in Users, NEW kind \in Kinds,
         NEW lan \in BOOLEAN,
         Success(c, id, user, kind, lan),
         lan => kind \in {"password", "token"},
         IF kind = "password"
         THEN security_profile_password_clients' =
                  try_emplace(security_profile_password_clients, id, user)
         ELSE UNCHANGED security_profile_password_clients
  PROVE  PolicyInv'
<1> DEFINE new == [client |-> c, id |-> id, user |-> user, kind |-> kind]
<1>1. connections' = connections \cup {new} /\ leaving' = leaving
  BY DEF Success, Opened
<1>2. /\ new \in connections' /\ new.kind = kind
      /\ new.id = id /\ new.user = user
  BY <1>1
<1>3. \A e \in security_profile_password_clients' :
        e \in security_profile_password_clients \/ (e = <<id, user>> /\ kind = "password")
  BY DEF try_emplace
<1>4. \A e \in lan_clients' : e \in lan_clients \/ (e = <<id, user>> /\ lan)
  BY DEF Success, try_emplace
<1>5. EntriesAsKinds'
  <2>1. ASSUME NEW e \in security_profile_password_clients'
        PROVE  \E k \in connections' : IsOf(e, k) /\ k.kind = "password"
    <3>1. CASE e \in security_profile_password_clients
      BY <1>1, <3>1 DEF PolicyInv, EntriesAsKinds
    <3>2. CASE e = <<id, user>> /\ kind = "password"
      BY <1>2, <3>2 DEF IsOf
    <3> QED BY <1>3, <3>1, <3>2
  <2>2. ASSUME NEW e \in lan_clients'
        PROVE  \E k \in connections' : IsOf(e, k) /\ k.kind \in {"password", "token"}
    <3>1. CASE e \in lan_clients
      BY <1>1, <3>1 DEF PolicyInv, EntriesAsKinds
    <3>2. CASE e = <<id, user>> /\ lan
      BY <1>2, <3>2 DEF IsOf
    <3> QED BY <1>4, <3>1, <3>2
  <2> QED BY <2>1, <2>2 DEF EntriesAsKinds
<1>6. UsersKnown'
  <2>1. /\ users_to_clientids \subseteq users_to_clientids'
        /\ user \in TokenUsers => <<id, user>> \in users_to_clientids'
    BY LoginAssumption DEF Success, register_user_and_clientid
  <2> QED BY <1>1, <1>2, <2>1 DEF PolicyInv, UsersKnown
<1> QED BY <1>5, <1>6 DEF PolicyInv

\* What PolicyInv is about, when a handler touches none of it.
LEMMA EntriesUntouched ==
  ASSUME PolicyInv,
         UNCHANGED <<security_profile_password_clients, lan_clients, users_to_clientids,
                     connections, leaving>>
  PROVE  PolicyInv'
BY DEF PolicyInv, EntriesAsKinds, UsersKnown

\* Every login check, whichever way it ends.
LEMMA LoginEntriesStep ==
  ASSUME TypeOK, PolicyInv,
         NEW c \in Clients, NEW id \in ClientIds, NEW user \in Users,
         login_check(c, id, user)
  PROVE  PolicyInv'
<1>1. ASSUME DelayedFail(c),
             UNCHANGED <<security_profile_password_clients, lan_clients, users_to_clientids>>
      PROVE  PolicyInv'
  BY <1>1, EntriesUntouched DEF DelayedFail
<1>2. ASSUME NEW localhost \in BOOLEAN, user = Integrations,
             IntegrationsLogin(c, id, localhost)
      PROVE  PolicyInv'
  <2>1. CASE localhost
    BY <1>2, <2>1, LoginEntries DEF IntegrationsLogin, Kinds
  <2>2. CASE ~localhost
    BY <1>1, <1>2, <2>2 DEF IntegrationsLogin
  <2> QED BY <2>1, <2>2
<1>3. ASSUME LocalhostLogin(c, id, user) PROVE PolicyInv'
  BY <1>3, LoginEntries DEF LocalhostLogin, Kinds
<1>4. ASSUME NEW matches \in do_token_auth(user), TokenLogin(c, id, user, matches)
      PROVE  PolicyInv'
  <2>1. CASE matches
    BY <1>4, <2>1, LoginEntries DEF TokenLogin, Kinds
  <2>2. CASE ~matches
    BY <1>1, <1>4, <2>2 DEF TokenLogin
  <2> QED BY <2>1, <2>2
<1>5. ASSUME PasswordLogin(c, id, user) PROVE PolicyInv'
  BY <1>5, LoginEntries DEF PasswordLogin, Kinds
<1>6. ASSUME UnknownToken(c, user) \/ RefusedPassword(c, user) PROVE PolicyInv'
  BY <1>1, <1>6 DEF UnknownToken, RefusedPassword, clientVars
<1>7. ASSUME NEW password \in Passwords, WrongPassword(c, user, password) PROVE PolicyInv'
  BY <1>1, <1>7 DEF WrongPassword, clientVars
<1> QED BY <1>2, <1>3, <1>4, <1>5, <1>6, <1>7 DEF login_check

\* A connection that ends takes all the entries of its client id along.
LEMMA DisconnectEntries ==
  ASSUME SessionInv, PolicyInv, NEW k \in connections, client_disconnected(k)
  PROVE  PolicyInv'
<1>1. /\ connections' = connections \ {k}
      /\ leaving' = leaving \ {k.id}
      /\ security_profile_password_clients' = erase(security_profile_password_clients, k.id)
      /\ lan_clients' = erase(lan_clients, k.id)
      /\ users_to_clientids' = users_to_clientids
  BY DEF client_disconnected
<1>2. ASSUME NEW map, NEW e \in erase(map, k.id), NEW l \in connections, IsOf(e, l)
      PROVE  e \in map /\ l \in connections'
  <2>1. e \in map /\ e[1] # k.id /\ e[1] = l.id
    BY <1>2 DEF erase, Of, IsOf
  <2> QED BY <1>1, <2>1
<1>3. EntriesAsKinds'
  <2>1. ASSUME NEW e \in security_profile_password_clients'
        PROVE  \E l \in connections' : IsOf(e, l) /\ l.kind = "password"
    <3>1. e \in security_profile_password_clients
      BY <1>1 DEF erase
    <3>2. PICK l \in connections : IsOf(e, l) /\ l.kind = "password"
      BY <3>1 DEF PolicyInv, EntriesAsKinds
    <3> QED BY <1>1, <1>2, <3>2
  <2>2. ASSUME NEW e \in lan_clients'
        PROVE  \E l \in connections' : IsOf(e, l) /\ l.kind \in {"password", "token"}
    <3>1. e \in lan_clients
      BY <1>1 DEF erase
    <3>2. PICK l \in connections : IsOf(e, l) /\ l.kind \in {"password", "token"}
      BY <3>1 DEF PolicyInv, EntriesAsKinds
    <3> QED BY <1>1, <1>2, <3>2
  <2> QED BY <2>1, <2>2 DEF EntriesAsKinds
<1>4. UsersKnown'
  BY <1>1 DEF PolicyInv, UsersKnown, SessionInv, OneOwner
<1> QED BY <1>3, <1>4 DEF PolicyInv

\* Whom the removal of a user finds is leaving when it is forgotten.
LEMMA RemovalEntries ==
  ASSUME SessionInv, PolicyInv, NEW user \in TokenUsers, UserRemoved(user)
  PROVE  PolicyInv'
<1> DEFINE found == {e \in users_to_clientids : e[2] = user}
<1>1. /\ leaving' = leaving \cup Removal(found)
      /\ users_to_clientids' = users_to_clientids \ found
      /\ UNCHANGED <<security_profile_password_clients, lan_clients, connections>>
  BY DEF UserRemoved, disconnect_all_connections_of_user
<1>2. \A k \in connections : <<k.id, k.user>> \in found => k.id \in leaving'
  BY <1>1 DEF Removal, SessionInv, HasSession
<1>3. EntriesAsKinds'
  BY <1>1 DEF PolicyInv, EntriesAsKinds
<1>4. UsersKnown'
  BY <1>1, <1>2 DEF PolicyInv, UsersKnown
<1> QED BY <1>3, <1>4 DEF PolicyInv

\* PolicyInv in every reachable state.
LEMMA PolicySound == Spec => []PolicyInv
<1>1. Init => PolicyInv
  BY DEF Init, PolicyInv, EntriesAsKinds, UsersKnown
<1>2. TypeOK /\ SessionInv /\ PolicyInv /\ [Next]_vars => PolicyInv'
  <2> SUFFICES ASSUME TypeOK, SessionInv, PolicyInv, [Next]_vars PROVE PolicyInv'
    OBVIOUS
  <2>1. ASSUME NEW c \in Clients, NEW id \in ClientIds, NEW user \in Users,
               login_check(c, id, user)
        PROVE  PolicyInv'
    BY <2>1, LoginEntriesStep
  <2>2. ASSUME NEW k \in connections, client_disconnected(k) PROVE PolicyInv'
    BY <2>2, DisconnectEntries
  <2>3. CASE per_minute_action
    BY <2>3 DEF per_minute_action, Purged, PolicyInv, EntriesAsKinds, UsersKnown, SessionInv,
       HasSession, brokerVars
  <2>4. ASSUME NEW m \in MqttLocalMode, MqttLocal(m) PROVE PolicyInv'
    <3>1. /\ security_profile_password_clients' \subseteq security_profile_password_clients
          /\ lan_clients' \subseteq lan_clients
          /\ leaving \subseteq leaving'
          /\ UNCHANGED <<users_to_clientids, connections>>
      BY <2>4 DEF MqttLocal, OnMode, MqttLocalMode
    <3> QED BY <3>1 DEF PolicyInv, EntriesAsKinds, UsersKnown
  <2>5. ASSUME NEW user \in TokenUsers, UserRemoved(user) PROVE PolicyInv'
    BY <2>5, RemovalEntries
  <2>6. ASSUME \/ \E c \in Clients : Denied(c)
               \/ \E id \in ClientIds : SessionExpires(id)
               \/ periodic_event
               \/ \E dayIsOver \in BOOLEAN : per_second_action(dayIsOver)
               \/ \E user \in TokenUsers : TokenAdded(user) \/ TokenRemoved(user)
               \/ UNCHANGED vars
        PROVE  PolicyInv'
    BY <2>6, EntriesUntouched DEF Denied, SessionExpires, periodic_event, per_second_action,
       TokenAdded, TokenRemoved, vars, clientVars, brokerVars
  <2> QED BY <2>1, <2>2, <2>3, <2>4, <2>5, <2>6 DEF Next
<1> QED BY <1>1, <1>2, TypeCorrect, SessionsSound, PTL DEF Spec

----------------------------------------------------------------------------
(* The steps *)

policyVars == <<mqtt_local_mode, connections, leaving, tokens, removed>>

\* A login that succeeds is one that the policy allows.
LEMMA LoginImplements ==
  ASSUME NEW c \in Clients, NEW id \in ClientIds, NEW user \in Users,
         login_check(c, id, user)
  PROVE  Policy!Next \/ UNCHANGED policyVars
<1>0. /\ UNCHANGED <<mqtt_local_mode, tokens, removed>>
      /\ \A k \in connections : k.id # id
  BY DEF login_check, Connecting, tokenVars
<1>1. ASSUME NEW kind \in Kinds, NEW lan \in BOOLEAN, Success(c, id, user, kind, lan),
             kind = "password" => mqtt_local_mode = "On",
             kind = "token" => user \in tokens
      PROVE  Policy!Next
  <2> DEFINE new == [client |-> c, id |-> id, user |-> user, kind |-> kind]
  <2>1. connections' = connections \cup {new} /\ leaving' = leaving
    BY <1>1 DEF Success, Opened
  <2>2. new \in Connections /\ new.id = id /\ new.user = user /\ new.kind = kind
    BY DEF Connections
  <2>3. connections' # connections
    BY <1>0, <2>1, <2>2
  <2>4. new.id \notin Policy!Ids(connections)
    BY <1>0, <2>2 DEF Policy!Ids
  <2>5. Policy!LogIn(new)
    BY <1>0, <1>1, <2>1, <2>2, <2>4 DEF Policy!LogIn
  <2> QED BY <2>2, <2>3, <2>5 DEF Policy!Next
<1>2. ASSUME DelayedFail(c) PROVE UNCHANGED policyVars
  BY <1>0, <1>2 DEF DelayedFail, policyVars
<1>3. ASSUME NEW localhost \in BOOLEAN, user = Integrations,
             IntegrationsLogin(c, id, localhost)
      PROVE  Policy!Next \/ UNCHANGED policyVars
  <2>1. CASE localhost
    BY <1>1, <1>3, <2>1 DEF IntegrationsLogin, Kinds
  <2>2. CASE ~localhost
    BY <1>2, <1>3, <2>2 DEF IntegrationsLogin
  <2> QED BY <2>1, <2>2
<1>4. ASSUME LocalhostLogin(c, id, user) PROVE Policy!Next
  BY <1>1, <1>4 DEF LocalhostLogin, Kinds
<1>5. ASSUME NEW matches \in do_token_auth(user), TokenLogin(c, id, user, matches)
      PROVE  Policy!Next \/ UNCHANGED policyVars
  <2>1. CASE matches
    <3>1. user \in tokens
      BY DEF do_token_auth
    <3> QED BY <1>1, <1>5, <2>1, <3>1 DEF TokenLogin, Kinds
  <2>2. CASE ~matches
    BY <1>2, <1>5, <2>2 DEF TokenLogin
  <2> QED BY <2>1, <2>2
<1>6. ASSUME PasswordLogin(c, id, user) PROVE Policy!Next
  BY <1>1, <1>6 DEF PasswordLogin, PasswordsAllowed, Kinds
<1>7. ASSUME \/ UnknownToken(c, user) \/ RefusedPassword(c, user)
             \/ \E password \in Passwords : WrongPassword(c, user, password)
      PROVE  UNCHANGED policyVars
  BY <1>2, <1>7 DEF UnknownToken, RefusedPassword, WrongPassword
<1> QED BY <1>3, <1>4, <1>5, <1>6, <1>7 DEF login_check

\* The setting puts out the connections of the kinds it forbids, no more and
\* no fewer.
LEMMA SettingImplements ==
  ASSUME SessionInv, PolicyInv, NEW m \in MqttLocalMode, MqttLocal(m)
  PROVE  Policy!SetMode(m)
<1> DEFINE forbidden == {k \in connections : k.kind \in Policy!Forbidden(m)}
<1>1. /\ mqtt_local_mode' = m
      /\ leaving' = leaving \cup Removal(OnMode(m).out)
      /\ UNCHANGED <<connections, tokens, removed>>
  BY DEF MqttLocal, tokenVars
<1>2. ASSUME NEW k \in connections, k.kind \in Policy!Forbidden(m), k.id \notin leaving
      PROVE  <<k.id, k.user>> \in OnMode(m).out \cap sessions
  <2>1. Remembered(k) /\ <<k.id, k.user>> \in sessions
    BY <1>2 DEF SessionInv, AllRemembered, HasSession
  <2>2. CASE m = "TokensOnly"
    BY <1>2, <2>1, <2>2 DEF Remembered, OnMode, Policy!Forbidden
  <2>3. CASE m = "Off"
    BY <1>2, <2>1, <2>3 DEF Remembered, OnMode, Policy!Forbidden
  <2>4. CASE m \notin {"TokensOnly", "Off"}
    BY <1>2, <2>4 DEF Policy!Forbidden
  <2> QED BY <2>2, <2>3, <2>4
<1>3. ASSUME NEW k \in connections, <<k.id, k.user>> \in OnMode(m).out
      PROVE  k.kind \in Policy!Forbidden(m)
  <2>1. ASSUME NEW l \in connections, IsOf(<<k.id, k.user>>, l) PROVE l = k
    <3>1. l.id = k.id
      BY <2>1 DEF IsOf
    <3> QED BY <3>1 DEF SessionInv, OneOwner
  <2>2. CASE m = "TokensOnly"
    <3>1. <<k.id, k.user>> \in security_profile_password_clients
      BY <1>3, <2>2 DEF OnMode
    <3>2. PICK l \in connections : IsOf(<<k.id, k.user>>, l) /\ l.kind = "password"
      BY <3>1 DEF PolicyInv, EntriesAsKinds
    <3> QED BY <2>1, <2>2, <3>2 DEF Policy!Forbidden
  <2>3. CASE m = "Off"
    <3>1. <<k.id, k.user>> \in lan_clients
      BY <1>3, <2>3 DEF OnMode
    <3>2. PICK l \in connections : IsOf(<<k.id, k.user>>, l) /\ l.kind \in {"password", "token"}
      BY <3>1 DEF PolicyInv, EntriesAsKinds
    <3> QED BY <2>1, <2>3, <3>2 DEF Policy!Forbidden
  <2>4. CASE m \notin {"TokensOnly", "Off"}
    BY <1>3, <2>4 DEF OnMode, MqttLocalMode
  <2> QED BY <2>2, <2>3, <2>4
<1>4. leaving' = leaving \cup Policy!Ids(forbidden)
  BY <1>1, <1>2, <1>3 DEF Removal, Policy!Ids
<1> QED BY <1>1, <1>4 DEF Policy!SetMode

\* The removal of a user puts out all connections under the user's name, and
\* no others.
LEMMA RemovalImplements ==
  ASSUME SessionInv, PolicyInv, NEW user \in TokenUsers, UserRemoved(user)
  PROVE  Policy!TellRemoval(user)
<1> DEFINE found == {e \in users_to_clientids : e[2] = user}
           under == {k \in connections : k.user = user}
<1>1. /\ user \in removed /\ removed' = removed \ {user}
      /\ leaving' = leaving \cup Removal(found)
      /\ UNCHANGED <<mqtt_local_mode, connections, tokens>>
  BY DEF UserRemoved, disconnect_all_connections_of_user
<1>2. ASSUME NEW k \in connections, k.user = user, k.id \notin leaving
      PROVE  <<k.id, k.user>> \in found \cap sessions
  BY <1>2 DEF SessionInv, HasSession, PolicyInv, UsersKnown
<1>3. ASSUME NEW k \in connections, <<k.id, k.user>> \in found PROVE k.user = user
  BY <1>3
<1>4. leaving' = leaving \cup Policy!Ids(under)
  BY <1>1, <1>2, <1>3 DEF Removal, Policy!Ids
<1> QED BY <1>1, <1>4 DEF Policy!TellRemoval

\* Every step is one of the policy, or changes nothing it speaks of.
LEMMA StepImplements ==
  ASSUME SessionInv, PolicyInv, [Next]_vars
  PROVE  [Policy!Next]_policyVars
<1>1. ASSUME NEW c \in Clients, NEW id \in ClientIds, NEW user \in Users,
             login_check(c, id, user)
      PROVE  Policy!Next \/ UNCHANGED policyVars
  BY <1>1, LoginImplements
<1>2. ASSUME NEW k \in connections, client_disconnected(k) PROVE Policy!Next
  BY <1>2 DEF client_disconnected, tokenVars, Policy!Close, Policy!Next
<1>3. ASSUME NEW m \in MqttLocalMode, MqttLocal(m) PROVE Policy!Next
  BY <1>3, SettingImplements DEF Policy!Next
<1>4. ASSUME NEW user \in TokenUsers, UserRemoved(user) PROVE Policy!Next
  BY <1>4, RemovalImplements DEF Policy!Next
<1>5. ASSUME NEW user \in TokenUsers, TokenAdded(user) PROVE Policy!Next
  <2>1. Policy!AddToken(user)
    BY <1>5 DEF TokenAdded, brokerVars, Policy!AddToken
  <2> QED BY <2>1 DEF Policy!Next
<1>6. ASSUME NEW user \in TokenUsers, TokenRemoved(user) PROVE Policy!Next
  <2>1. Policy!RemoveToken(user)
    BY <1>6 DEF TokenRemoved, brokerVars, Policy!RemoveToken
  <2> QED BY <2>1 DEF Policy!Next
<1>7. ASSUME \/ \E c \in Clients : Denied(c)
             \/ \E id \in ClientIds : SessionExpires(id)
             \/ periodic_event \/ per_minute_action
             \/ \E dayIsOver \in BOOLEAN : per_second_action(dayIsOver)
             \/ UNCHANGED vars
      PROVE  UNCHANGED policyVars
  BY <1>7 DEF Denied, SessionExpires, periodic_event, per_minute_action, per_second_action,
     vars, brokerVars, tokenVars, policyVars
<1> QED BY <1>1, <1>2, <1>3, <1>4, <1>5, <1>6, <1>7 DEF Next

\* The detailed specification implements the policy: nobody is put out who may
\* stay, and nobody stays who is to be put out, whatever the order of logins,
\* settings, removals, disconnects and expiries.
THEOREM PolicyImplemented == Spec => ImplementsPolicy
<1>1. Init => Policy!Init
  BY DEF Init, Policy!Init
<1>2. SessionInv /\ PolicyInv /\ [Next]_vars => [Policy!Next]_(Policy!vars)
  BY StepImplements DEF policyVars, Policy!vars
<1> QED BY <1>1, <1>2, SessionsSound, PolicySound, PTL DEF Spec, ImplementsPolicy, Policy!Spec

----------------------------------------------------------------------------
(* What a connection may do.  The access checks know a client by its id    *)
(* and user alone.  That the session FlashMQ finds for them is this        *)
(* connection's, and no other's, is what SessionInv says (OneOwner and     *)
(* HasSession); that the client of the session has the right it came with  *)
(* is its PrivilegedAsLoggedIn.                                            *)

\* The users a login of each kind is for.
UsersAsKinds ==
    \A k \in connections :
        /\ k.user \in Users
        /\ k.user = Integrations <=> k.kind = "integrations"
        /\ k.kind = "password" => k.user \in LanUsers

\* Users keep to their kinds of login.
LEMMA UsersSound == Spec => []UsersAsKinds
<1>1. Init => UsersAsKinds
  BY DEF Init, UsersAsKinds
<1>2. TypeOK /\ UsersAsKinds /\ [Next]_vars => UsersAsKinds'
  <2> SUFFICES ASSUME TypeOK, UsersAsKinds, [Next]_vars PROVE UsersAsKinds'
    OBVIOUS
  <2>0. ASSUME connections' \subseteq connections PROVE UsersAsKinds'
    BY <2>0 DEF UsersAsKinds
  <2>1. ASSUME NEW c \in Clients, NEW id \in ClientIds, NEW user \in Users,
               login_check(c, id, user)
        PROVE  UsersAsKinds'
    <3>1. ASSUME NEW kind \in Kinds, NEW lan \in BOOLEAN, Success(c, id, user, kind, lan),
                 user = Integrations <=> kind = "integrations",
                 kind = "password" => user \in LanUsers
          PROVE  UsersAsKinds'
      BY <3>1 DEF UsersAsKinds, Success, Opened
    <3>2. ASSUME DelayedFail(c) PROVE UsersAsKinds'
      BY <2>0, <3>2 DEF DelayedFail
    <3>3. ASSUME NEW localhost \in BOOLEAN, user = Integrations,
                 IntegrationsLogin(c, id, localhost)
          PROVE  UsersAsKinds'
      BY <3>1, <3>2, <3>3 DEF IntegrationsLogin, Kinds
    <3>4. ASSUME LocalhostLogin(c, id, user) PROVE UsersAsKinds'
      BY <3>1, <3>4 DEF LocalhostLogin, Kinds
    <3>5. ASSUME NEW matches \in do_token_auth(user), TokenLogin(c, id, user, matches)
          PROVE  UsersAsKinds'
      <4>1. user # Integrations
        BY LoginAssumption DEF do_token_auth, TypeOK
      <4> QED BY <3>1, <3>2, <3>5, <4>1 DEF TokenLogin, Kinds
    <3>6. ASSUME PasswordLogin(c, id, user) PROVE UsersAsKinds'
      BY <3>1, <3>6, LoginAssumption DEF PasswordLogin, Kinds
    <3>7. ASSUME \/ UnknownToken(c, user) \/ RefusedPassword(c, user)
                 \/ \E password \in Passwords : WrongPassword(c, user, password)
          PROVE  UsersAsKinds'
      BY <3>2, <3>7 DEF UnknownToken, RefusedPassword, WrongPassword
    <3> QED BY <2>1, <3>3, <3>4, <3>5, <3>6, <3>7 DEF login_check
  <2>2. ASSUME NEW k \in connections, client_disconnected(k) PROVE UsersAsKinds'
    BY <2>0, <2>2 DEF client_disconnected
  <2> QED BY <2>0, <2>1, <2>2 DEF Next, Denied, SessionExpires, periodic_event,
         per_minute_action, per_second_action, MqttLocal, TokenAdded, TokenRemoved,
         UserRemoved, vars, brokerVars
<1> QED BY <1>1, <1>2, TypeCorrect, PTL DEF Spec

----------------------------------------------------------------------------
(* What the access checks see of a connection *)

AccessInv == SessionInv /\ UsersAsKinds

LEMMA AccessSound == Spec => []AccessInv
<1>1. SessionInv /\ UsersAsKinds => AccessInv
  BY DEF AccessInv
<1> QED BY <1>1, SessionsSound, UsersSound, PTL

\* The client that is looked up for a connection is its own.
LEMMA SeenAsLoggedIn ==
  ASSUME AccessInv, NEW k \in connections
  PROVE  /\ is_privileged_user(k.id, k.user) <=> k.kind \in {"local", "password"}
         /\ localhost_client(k.id, k.user) <=> k.kind \in {"local", "integrations"}
         /\ ~username_is_bridge(k.user)
<1>1. ClientOf(k.id, k.user) = {k}
  BY DEF ClientOf, AccessInv, SessionInv, OneOwner, HasSession
<1>2. ~username_is_bridge(k.user)
  BY LanAccessAssumption DEF AccessInv, UsersAsKinds
<1>3. k.client \in privileged_network_clients <=> k.kind \in {"local", "password"}
  BY DEF AccessInv, SessionInv, PrivilegedAsLoggedIn
<1> QED BY <1>1, <1>2, <1>3 DEF is_privileged_user, localhost_client

\* Protected settings and integrations over VRM are permitted to a connection
\* by the way it logged in, and by nothing that has happened since.
THEOREM AccessHolds == Spec => []AccessAsLoggedIn
<1>1. AccessInv => AccessAsLoggedIn
  <2> SUFFICES ASSUME AccessInv, NEW k \in connections
               PROVE  LET who == Who(k.id, k.user)
                      IN  /\ \A t \in {u \in Topics : ProtectedPath(u)} :
                               Permits("write", who, t) <=> k.kind \in {"local", "password"}
                          /\ \A t \in {u \in Topics : u.action = "I" /\ u.system = "own"},
                                access \in {"read", "write"} :
                               Permits(access, who, t) <=> k.kind \in {"local", "integrations"}
    BY DEF AccessAsLoggedIn
  <2> DEFINE who == Who(k.id, k.user)
  <2>1. /\ who.user = k.user
        /\ who.privileged <=> k.kind \in {"local", "password"}
        /\ who.localhost <=> k.kind \in {"local", "integrations"}
        /\ ~username_is_bridge(who.user)
    BY SeenAsLoggedIn DEF Who
  <2>2. ASSUME NEW t \in Topics, ProtectedPath(t)
        PROVE  Permits("write", who, t) <=> k.kind \in {"local", "password"}
    <3>1. t.action = "W" /\ t.levels >= 2
      BY <2>2, LanAccessAssumption DEF ProtectedPath
    <3>2. ModeAllows(who, t, "Unknown")
      BY <2>1 DEF ModeAllows
    <3> HIDE DEF who
    <3>3. WriteAllowed(who, t, "Unknown") <=> who.privileged
      BY <2>2, <3>1, <3>2 DEF WriteAllowed
    <3> QED BY <2>1, <3>1, <3>3 DEF Permits, acl_check
  <2>3. ASSUME NEW t \in Topics, t.action = "I", t.system = "own",
               NEW access \in {"read", "write"}
        PROVE  Permits(access, who, t) <=> k.kind \in {"local", "integrations"}
    <3>1. t.levels >= 2
      BY LanAccessAssumption
    <3>2. ModeAllows(who, t, "Unknown")
      BY <2>1 DEF ModeAllows
    <3>3. who.user = DBUS_MQTT_INTEGRATIONS_USERNAME => k.kind = "integrations"
      BY <2>1 DEF AccessInv, UsersAsKinds, DBUS_MQTT_INTEGRATIONS_USERNAME, Integrations
    <3> HIDE DEF who
    <3>4. IntegrationAllowed(access, who, t) <=> k.kind \in {"local", "integrations"}
      BY <2>1, <2>3, <3>3 DEF IntegrationAllowed
    <3>5. WriteAllowed(who, t, "Unknown") /\ ReadAllowed(who, t, FALSE)
      BY <2>3, <3>2 DEF WriteAllowed, ReadAllowed, ProtectedPath
    <3> QED BY <2>3, <3>1, <3>4, <3>5 DEF Permits, acl_check
  <2> QED BY <2>2, <2>3
<1> QED BY <1>1, AccessSound, PTL

\* No device is shown what another may write, whoever logs in when.
THEOREM DevicesStayApart == Spec => []DevicesApart
<1>1. AccessInv => DevicesApart
  <2> SUFFICES ASSUME AccessInv, NEW k \in connections, NEW t \in Topics, t.action = "I"
               PROVE  LET who == Who(k.id, k.user)
                      IN  /\ k.kind = "token" /\ Permits("write", who, t) =>
                               /\ \A user \in DOMAIN Device \ {k.user} :
                                    ~Permits("read", OnLan(user), t)
                               /\ t.third \in {"in", "out"} => ~Permits("read", who, t)
                          /\ k.kind = "password" =>
                               ~Permits("write", who, t) /\ ~Permits("read", who, t)
    BY DEF DevicesApart
  <2> DEFINE who == Who(k.id, k.user)
  <2>1. /\ who.user = k.user
        /\ who.localhost <=> k.kind \in {"local", "integrations"}
        /\ ~username_is_bridge(who.user)
    BY SeenAsLoggedIn DEF Who
  <2>2. k.kind \in {"token", "password"} => who.user # DBUS_MQTT_INTEGRATIONS_USERNAME
    BY <2>1 DEF AccessInv, UsersAsKinds, DBUS_MQTT_INTEGRATIONS_USERNAME, Integrations
  <2>3. ASSUME NEW access \in {"read", "write"}, NEW other, Permits(access, other, t)
        PROVE  IntegrationAllowed(access, other, t)
    <3>1. t.levels >= 2
      BY LanAccessAssumption
    <3> QED BY <2>3, <3>1 DEF Permits, acl_check
  <2>4. k.kind = "password" => who.user \notin DOMAIN Device
    BY <2>1, LanAccessAssumption DEF AccessInv, UsersAsKinds
  <2> HIDE DEF who
  <2>5. ASSUME k.kind = "token", Permits("write", who, t)
        PROVE  /\ t.system = "local"
               /\ ~EchoOrForgery("write", t.third)
               /\ k.user \in DOMAIN Device
               /\ Device[k.user] = [role |-> t.role, unique |-> t.unique]
    BY <2>1, <2>2, <2>3, <2>5 DEF IntegrationAllowed, handle_paired_integration_client_auth
  <2>6. ASSUME k.kind = "token", Permits("write", who, t), NEW user \in DOMAIN Device \ {k.user}
        PROVE  ~Permits("read", OnLan(user), t)
    <3>1. /\ OnLan(user).user = user /\ ~OnLan(user).localhost
          /\ user # DBUS_MQTT_INTEGRATIONS_USERNAME
      BY LanAccessAssumption DEF OnLan, DBUS_MQTT_INTEGRATIONS_USERNAME, Integrations
    <3>2. Device[user] # Device[k.user]
      BY <2>5, <2>6, LanAccessAssumption
    <3>3. ~IntegrationAllowed("read", OnLan(user), t)
      BY <2>5, <2>6, <3>1, <3>2 DEF IntegrationAllowed, handle_paired_integration_client_auth
    <3> QED BY <2>3, <3>3
  <2>7. ASSUME k.kind = "token", Permits("write", who, t), t.third \in {"in", "out"}
        PROVE  ~Permits("read", who, t)
    <3>1. EchoOrForgery("read", t.third)
      BY <2>5, <2>7 DEF EchoOrForgery
    <3>2. ~IntegrationAllowed("read", who, t)
      BY <2>1, <2>2, <2>5, <2>7, <3>1
         DEF IntegrationAllowed, handle_paired_integration_client_auth
    <3> QED BY <2>3, <3>2
  <2>8. ASSUME k.kind = "password", NEW access \in {"read", "write"}
        PROVE  ~Permits(access, who, t)
    <3>1. ~IntegrationAllowed(access, who, t)
      BY <2>1, <2>2, <2>4, <2>8 DEF IntegrationAllowed, handle_paired_integration_client_auth
    <3> QED BY <2>3, <3>1
  <2> QED BY <2>6, <2>7, <2>8 DEF who
<1> QED BY <1>1, AccessSound, PTL

\* Nothing that comes over the bridge reaches this system or its devices as a
\* command while the mode is not Full.
THEOREM BridgeStaysOut == Spec => []BridgeKeptOut
<1>1. BridgeKeptOut
  <2>1. ASSUME NEW t \in Topics, Command(t),
               t.system = "own" \/ (t.system = "local" /\ t.action = "I"),
               NEW mode \in ModesOfVrm \ {"Full"},
               acl_check("write", Bridge, t, mode, TRUE)
        PROVE  FALSE
    <3>1. t.levels >= 2 /\ t.action \in {"W", "P", "I"}
      BY <2>1, LanAccessAssumption DEF Command
    <3>2. /\ Bridge.user = "GXdbus" /\ ~Bridge.localhost
          /\ username_is_bridge(Bridge.user)
      BY DEF Bridge, username_is_bridge
    <3> HIDE DEF Bridge
    <3>3. CASE t.system = "own"
      <4>1. WriteAllowed(Bridge, t, mode)
        BY <2>1, <3>1, <3>3 DEF acl_check
      <4>2. ModeAllows(Bridge, t, mode)
        BY <3>1, <3>3, <4>1 DEF WriteAllowed
      <4> QED BY <2>1, <3>2, <4>2 DEF ModeAllows
    <3>4. CASE t.system = "local" /\ t.action = "I"
      <4>1. handle_paired_integration_client_auth("write", Bridge.user, t)
        BY <2>1, <3>1, <3>2, <3>4 DEF acl_check, IntegrationAllowed
      <4>2. Bridge.user \notin DOMAIN Device
        BY <3>2, LanAccessAssumption
      <4>3. Bridge.user # DBUS_MQTT_INTEGRATIONS_USERNAME
        BY <3>2 DEF DBUS_MQTT_INTEGRATIONS_USERNAME
      <4> QED BY <4>1, <4>2, <4>3 DEF handle_paired_integration_client_auth
    <3> QED BY <2>1, <3>3, <3>4
  <2> QED BY <2>1 DEF BridgeKeptOut
<1> QED BY <1>1, PTL

=============================================================================
