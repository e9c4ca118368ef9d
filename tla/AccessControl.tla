---------------------------- MODULE AccessControl ----------------------------
(***************************************************************************)
(* Who may publish and who is shown what: the decisions of                 *)
(* flashmq_plugin_acl_check (src/src/flashmq-dbus-plugin.cpp).             *)
(*                                                                         *)
(* A topic is a record of what the decisions look at: its levels, the      *)
(* action and the system it begins with, its third level, the role and the *)
(* unique id of I/local/<direction>/<role>/<id>/..., and the word that     *)
(* matters in it. A client is its id, its user and the two things the      *)
(* state knows of it.                                                      *)
(***************************************************************************)
EXTENDS Naturals

CONSTANT Device  \* the user names token/<role>/<id>, with the role and the id

DBUS_MQTT_INTEGRATIONS_USERNAME == "dbus-mqtt-integrations"

username_is_bridge(user) == user \in {"GXdbus", "GXrpc"}

----------------------------------------------------------------------------
(* Paired devices *)

\* Mutant of EchoOrForgery: a device may read what is written to it by itself.
ForgeryOnly(access, direction) == access = "write" /\ direction = "out"

\* What comes in is what devices write, and what goes out what they read.
EchoOrForgery(access, direction) ==
    \/ (access = "write" /\ direction = "out")
    \/ (access = "read" /\ direction = "in")

handle_paired_integration_client_auth(access, user, t) ==
    /\ t.levels >= 5
    /\ IF user = DBUS_MQTT_INTEGRATIONS_USERNAME
       THEN <<access, t.third>> \in {<<"write", "out">>, <<"read", "in">>}
       ELSE /\ ~EchoOrForgery(access, t.third)
            /\ user \in DOMAIN Device
            /\ Device[user] = [role |-> t.role, unique |-> t.unique]

\* Every answer about I/local, and the first one about other integrations.
IntegrationAllowed(access, who, t) ==
    IF t.system = "local"
    THEN handle_paired_integration_client_auth(access, who.user, t) \/ who.localhost
    ELSE \/ who.user = DBUS_MQTT_INTEGRATIONS_USERNAME
         \/ username_is_bridge(who.user)
         \/ who.localhost

----------------------------------------------------------------------------
(* Reads and writes *)

ProtectedPath(t) ==
    /\ t.action = "W" /\ t.levels >= 3 /\ t.third = "platform"
    /\ t.word \in {"/Security/Api", "/Tokens"}

\* What another service or the plugin itself would act upon.
Command(t) == t.action = "W" \/ (t.action \in {"P", "I"} /\ t.levels >= 3 /\ t.third = "in")

\* Mutant of ModeAllows: writes are looked at, but not RPC and integrations.
ModeOfWrites(who, t, mode) ==
    username_is_bridge(who.user) /\ t.action = "W" => mode = "Full"

ModeAllows(who, t, mode) == username_is_bridge(who.user) /\ Command(t) => mode = "Full"

\* The plugin's own messages come from no client.
Plugin(who) == who.id = "" /\ who.user = ""

WriteAllowed(who, t, mode) ==
    /\ ProtectedPath(t) => who.privileged
    /\ t.action \in {"W", "R", "P", "I"} =>
         IF t.system = "own" THEN ModeAllows(who, t, mode) ELSE t.action \in {"W", "R"}
    /\ t.action = "N" /\ t.system = "own" => Plugin(who)

\* A word stands for any way to write it. The bridge is shown notifications
\* while VRM has asked for something of late.
ReadAllowed(who, t, interested) ==
    /\ t.action = "W" => /\ t.word # "password"
                         /\ t.third = "platform" => t.word # "/Security/Api"
    /\ t.action = "N" /\ username_is_bridge(who.user) => interested

\* Subscriptions are always allowed, and so are topics of one level. So is what
\* throws: handle_venus_actions, that is, which comes when a publish is allowed
\* already. The decisions before it compare strings, and what they ask FlashMQ for
\* (a session, a client, its address) is taken not to throw.
acl_check(access, who, t, mode, interested) ==
    t.levels >= 2 =>
        /\ t.action = "I" => IntegrationAllowed(access, who, t)
        /\ ~(t.action = "I" /\ t.system = "local") =>
              IF access = "write" THEN WriteAllowed(who, t, mode)
              ELSE ReadAllowed(who, t, interested)

=============================================================================
