---------------------------- MODULE BridgeStatus ----------------------------
(***************************************************************************)
(* The two bridges of FlashMQ to VRM: how their state is passed on to      *)
(* com.victronenergy.platform, debounced, and how a disconnect leads to a  *)
(* registration at VRM (handle_venus_actions in                            *)
(* src/src/flashmq-dbus-plugin.cpp, State in src/src/state.cpp).           *)
(*                                                                         *)
(* FlashMQ reports on $SYS/broker/bridge/+/connected and                   *)
(* .../connection_status, one message at a time and at any time.           *)
(***************************************************************************)
EXTENDS Naturals

CONSTANTS
    BRIDGE_DBUS, BRIDGE_RPC,
    Texts,                   \* connection_status payloads
    Pending,                 \* msg of a bridge nothing was heard of
    Disappeared,             \* one of Texts, "... disappeared from config ..."
    Deactivated,             \* BRIDGE_DEACTIVATED_STRING
    do_online_registration,
    Null,                    \* a connected of nothing
    NotWritten,              \* no states were written yet
    Refusable,               \* the SetValue calls that may fail, by bridge and item
    MaxCalls                 \* bound: registrations under way at a time

Bridges == {BRIDGE_DBUS, BRIDGE_RPC}

\* enum class VrmPortalMode, in its order.
Modes == {"Unknown", "Off", "ReadOnly", "Full"}

ASSUME BridgeAssumption ==
    /\ BRIDGE_DBUS # BRIDGE_RPC
    /\ Disappeared \in Texts
    /\ Pending \notin Texts /\ Deactivated \notin Texts /\ Pending # Deactivated
    /\ do_online_registration \in BOOLEAN
    /\ Null \notin BOOLEAN
    /\ Refusable \subseteq Bridges \X {"Connected", "ConnectionStatus"}
    /\ MaxCalls \in Nat \ {0}

VARIABLES
    vrm_portal_mode,
    bridge_connection_states,
    bridge_connection_states_last_written,
    write_all_bridge_states_task_id,  \* whether the task is scheduled
    bridges_connected,
    register_pending_id,              \* whether it is set
    register_tasks,                   \* scheduled registrations
    register_calls,                   \* calls of RegisterOnVrm not answered
    platform                          \* external: /Mqtt/Bridges/...

statusVars   == <<vrm_portal_mode, bridge_connection_states,
                  bridge_connection_states_last_written,
                  write_all_bridge_states_task_id, platform>>
registerVars == <<register_pending_id, register_tasks, register_calls>>
vars == <<statusVars, bridges_connected, registerVars>>

BridgeConnectionStates == [Bridges -> [connected : BOOLEAN, msg : Texts \cup {Pending}]]

TypeOK ==
    /\ vrm_portal_mode \in Modes
    /\ bridge_connection_states \in BridgeConnectionStates
    /\ bridge_connection_states_last_written \in BridgeConnectionStates \cup {NotWritten}
    /\ write_all_bridge_states_task_id \in BOOLEAN
    /\ bridges_connected \in [Bridges -> BOOLEAN]
    /\ register_pending_id \in BOOLEAN
    /\ register_tasks \in 0 .. MaxCalls /\ register_calls \in 0 .. MaxCalls
    /\ platform \in [Bridges -> [connected : BOOLEAN \cup {Null},
                                 msg : Texts \cup {Pending, Deactivated}]]

----------------------------------------------------------------------------
(* The status of the bridges. *)

\* The modes in which there should be a connection.
Wanted(b) == IF b = BRIDGE_DBUS THEN {"ReadOnly", "Full"} ELSE {"Full"}

\* What the platform is told of a bridge.
Told(b) ==
    IF \/ bridge_connection_states[b].msg = Disappeared
       \/ vrm_portal_mode \notin Wanted(b)
    THEN [connected |-> Null, msg |-> Deactivated]
    ELSE [connected |-> bridge_connection_states[b].connected,
          msg       |-> bridge_connection_states[b].msg]

\* The task is put off, or not needed when the states are the written ones.
write_all_bridge_connection_states_debounced(states) ==
    write_all_bridge_states_task_id' = (states # bridge_connection_states_last_written)

\* What the platform has when the calls of refused have failed.
PlatformAfter(refused) ==
    [b \in Bridges |->
        [connected |-> IF <<b, "Connected">> \in refused THEN platform[b].connected
                       ELSE Told(b).connected,
         msg       |-> IF <<b, "ConnectionStatus">> \in refused THEN platform[b].msg
                       ELSE Told(b).msg]]

\* The task: both bridges are written, with what is known by then. A SetValue that
\* fails is logged, and counts as written all the same.
WriteStates ==
    /\ write_all_bridge_states_task_id
    /\ write_all_bridge_states_task_id' = FALSE
    /\ \E refused \in SUBSET Refusable : platform' = PlatformAfter(refused)
    /\ bridge_connection_states_last_written' = bridge_connection_states
    /\ UNCHANGED <<vrm_portal_mode, bridge_connection_states, bridges_connected, registerVars>>

\* Mutant of StatusNotice: debounced before the message is stored.
ComparesBefore(b, text) ==
    /\ bridge_connection_states' = [bridge_connection_states EXCEPT ![b].msg = text]
    /\ write_all_bridge_connection_states_debounced(bridge_connection_states)
    /\ UNCHANGED <<vrm_portal_mode, bridge_connection_states_last_written, platform,
                   bridges_connected, registerVars>>

StatusNotice(b, text) ==
    /\ bridge_connection_states' = [bridge_connection_states EXCEPT ![b].msg = text]
    /\ write_all_bridge_connection_states_debounced(bridge_connection_states')
    /\ UNCHANGED <<vrm_portal_mode, bridge_connection_states_last_written, platform,
                   bridges_connected, registerVars>>

\* add_dbus_to_mqtt_mapping of the item /Settings/Network/VrmPortal.
VrmPortalMode(mode) ==
    /\ vrm_portal_mode' = mode
    /\ write_all_bridge_connection_states_debounced(bridge_connection_states)
    /\ UNCHANGED <<bridge_connection_states, bridge_connection_states_last_written, platform,
                   bridges_connected, registerVars>>

----------------------------------------------------------------------------
(* Registration at VRM. *)

initiate_broker_registration ==
    IF do_online_registration /\ ~register_pending_id
    THEN /\ register_pending_id' = TRUE
         /\ register_tasks' = register_tasks + 1
         /\ UNCHANGED register_calls
    ELSE UNCHANGED registerVars

\* A disconnect is forgotten while a registration is pending: connected stays.
ConnectedNotice(b, connected_now) ==
    /\ bridge_connection_states' = [bridge_connection_states EXCEPT ![b].connected = connected_now]
    /\ write_all_bridge_connection_states_debounced(bridge_connection_states')
    /\ IF ~connected_now /\ bridges_connected[b] /\ ~register_pending_id
       THEN /\ bridges_connected' = [bridges_connected EXCEPT ![b] = FALSE]
            /\ initiate_broker_registration
       ELSE /\ bridges_connected' = [bridges_connected EXCEPT ![b] = @ \/ connected_now]
            /\ UNCHANGED registerVars
    /\ UNCHANGED <<vrm_portal_mode, bridge_connection_states_last_written, platform>>

\* Mutant of Register: no longer pending once the call is sent.
PendingUntilSent ==
    /\ register_tasks > 0
    /\ register_calls < MaxCalls
    /\ register_tasks' = register_tasks - 1
    /\ register_calls' = register_calls + 1
    /\ register_pending_id' = FALSE
    /\ UNCHANGED <<statusVars, bridges_connected>>

\* register_f: call SetValue on /Mqtt/RegisterOnVrm.
Register ==
    /\ register_tasks > 0
    /\ register_calls < MaxCalls
    /\ register_tasks' = register_tasks - 1
    /\ register_calls' = register_calls + 1
    /\ UNCHANGED <<register_pending_id, statusVars, bridges_connected>>

\* register_at_vrm_handler, of an answer or an error, which may be a timeout.
Registered(error) ==
    /\ register_calls > 0
    /\ register_calls' = register_calls - 1
    /\ register_pending_id' = FALSE
    /\ UNCHANGED <<register_tasks, statusVars, bridges_connected>>

\* flashmq_plugin_init has initiated a registration.
Init ==
    /\ vrm_portal_mode = "Unknown"
    /\ bridge_connection_states = [b \in Bridges |-> [connected |-> FALSE, msg |-> Pending]]
    /\ bridge_connection_states_last_written = NotWritten
    /\ write_all_bridge_states_task_id = FALSE
    /\ bridges_connected = [b \in Bridges |-> FALSE]
    /\ register_pending_id = do_online_registration
    /\ register_tasks = (IF do_online_registration THEN 1 ELSE 0)
    /\ register_calls = 0
    /\ platform = [b \in Bridges |-> [connected |-> Null, msg |-> Deactivated]]

Next ==
    \/ \E b \in Bridges, text \in Texts : StatusNotice(b, text)
    \/ \E b \in Bridges, connected_now \in BOOLEAN : ConnectedNotice(b, connected_now)
    \/ \E mode \in Modes : VrmPortalMode(mode)
    \/ WriteStates
    \/ Register
    \/ \E error \in BOOLEAN : Registered(error)

\* The event loop runs the tasks, and every call is answered or times out.
Spec ==
    /\ Init /\ [][Next]_vars
    /\ WF_vars(WriteStates)
    /\ WF_vars(Register)
    /\ WF_vars(\E error \in BOOLEAN : Registered(error))

----------------------------------------------------------------------------
(* Properties *)

\* With no task scheduled, the states that were written are the latest: a
\* status that changes there and back while the task is put off is not lost.
WrittenIsLatest ==
    ~write_all_bridge_states_task_id =>
       bridge_connection_states_last_written \in {bridge_connection_states, NotWritten}

\* However the bridges disconnect, one registration is under way at a time.
OneRegistration == register_tasks + register_calls <= 1

\* A registration ends, whatever the platform answers, so that a later
\* disconnect starts a new one.
RegistrationEnds == register_pending_id ~> ~register_pending_id

\* With no task scheduled, the platform has the status that goes with the mode,
\* as far as it refuses no call: a bridge that the mode does not want is
\* deactivated.
ToldIsCurrent ==
    ~write_all_bridge_states_task_id /\ bridge_connection_states_last_written # NotWritten
       => platform = PlatformAfter(Refusable)

=============================================================================
