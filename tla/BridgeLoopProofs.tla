--------------------------- MODULE BridgeLoopProofs ---------------------------
(***************************************************************************)
(* Proofs about BridgeStatus, for any texts and bounds, and about          *)
(* BridgeLoop: the event loop never sleeps while it has work, and around   *)
(* the bridges it takes no step that BridgeStatus does not.                *)
(*                                                                         *)
(* register_pending_id is one flag for the task and for the call that      *)
(* follows it. That it never stands for two of them is RegisterInv: a      *)
(* registration is under way exactly while the flag is set.                *)
(*                                                                         *)
(* LoopInv says what the plugin's side of the connection owes to libdbus's *)
(* side: the polled events are those of the enabled watches, and since the *)
(* status only changes when the first message arrives and when the last    *)
(* has gone, messages that wait have made the eventfd readable.            *)
(***************************************************************************)
EXTENDS BridgeLoop, TLAPS

RegisterInv == register_tasks + register_calls = IF register_pending_id THEN 1 ELSE 0

Inv == TypeOK /\ RegisterInv

\* A notice starts a registration only if none is under way.
LEMMA NoticeStep ==
  ASSUME Inv, NEW b \in Bridges, NEW connected_now \in BOOLEAN,
         ConnectedNotice(b, connected_now)
  PROVE  Inv'
<1> USE BridgeAssumption DEF Inv, TypeOK, RegisterInv
<1>1. /\ bridge_connection_states' \in BridgeConnectionStates
      /\ write_all_bridge_states_task_id' \in BOOLEAN
      /\ UNCHANGED <<vrm_portal_mode, bridge_connection_states_last_written, platform>>
  BY DEF ConnectedNotice, BridgeConnectionStates,
     write_all_bridge_connection_states_debounced
<1>2. bridges_connected' \in [Bridges -> BOOLEAN]
  BY DEF ConnectedNotice
<1>3. /\ register_pending_id' \in BOOLEAN
      /\ register_tasks' \in 0 .. MaxCalls /\ register_calls' \in 0 .. MaxCalls
      /\ RegisterInv'
  <2>1. CASE UNCHANGED registerVars
    BY <2>1 DEF registerVars
  <2>2. CASE /\ ~register_pending_id /\ register_pending_id' = TRUE
             /\ register_tasks' = register_tasks + 1
             /\ UNCHANGED register_calls
    BY <2>2
  <2> QED BY <2>1, <2>2 DEF ConnectedNotice, initiate_broker_registration
<1> QED BY <1>1, <1>2, <1>3

\* Inv in every reachable state, whatever the fairness.
LEMMA InvOfSteps == Init /\ [][Next]_vars => []Inv
<1>1. Init => Inv
  <2> SUFFICES ASSUME Init PROVE Inv
    OBVIOUS
  <2> USE BridgeAssumption DEF Init
  <2>1. TypeOK
    <3>1. bridge_connection_states \in BridgeConnectionStates
      BY DEF BridgeConnectionStates
    <3>2. register_tasks \in 0 .. MaxCalls /\ register_calls \in 0 .. MaxCalls
      OBVIOUS
    <3>3. platform \in [Bridges -> [connected : BOOLEAN \cup {Null},
                                   msg : Texts \cup {Pending, Deactivated}]]
      OBVIOUS
    <3> QED BY <3>1, <3>2, <3>3 DEF TypeOK, Modes
  <2>2. RegisterInv
    BY DEF RegisterInv
  <2> QED BY <2>1, <2>2 DEF Inv
<1>2. Inv /\ [Next]_vars => Inv'
  <2> SUFFICES ASSUME Inv, [Next]_vars PROVE Inv'
    OBVIOUS
  <2> USE BridgeAssumption DEF Inv, TypeOK, RegisterInv
  <2>1. ASSUME NEW b \in Bridges, NEW text \in Texts, StatusNotice(b, text) PROVE Inv'
    BY <2>1 DEF StatusNotice, BridgeConnectionStates, registerVars,
       write_all_bridge_connection_states_debounced
  <2>2. ASSUME NEW b \in Bridges, NEW connected_now \in BOOLEAN,
               ConnectedNotice(b, connected_now)
        PROVE  Inv'
    BY <2>2, NoticeStep
  <2>3. ASSUME NEW mode \in Modes, VrmPortalMode(mode) PROVE Inv'
    BY <2>3 DEF VrmPortalMode, registerVars, write_all_bridge_connection_states_debounced
  <2>4. CASE WriteStates
    <3>1. platform' \in [Bridges -> [connected : BOOLEAN \cup {Null},
                                     msg : Texts \cup {Pending, Deactivated}]]
      <4>1. \A b \in Bridges : Told(b) \in [connected : BOOLEAN \cup {Null},
                                            msg : Texts \cup {Pending, Deactivated}]
        BY DEF Told, BridgeConnectionStates
      <4>2. PICK refused \in SUBSET Refusable : platform' = PlatformAfter(refused)
        BY <2>4 DEF WriteStates
      <4>3. /\ \A b \in Bridges : /\ Told(b).connected \in BOOLEAN \cup {Null}
                                  /\ Told(b).msg \in Texts \cup {Pending, Deactivated}
            /\ \A b \in Bridges : /\ platform[b].connected \in BOOLEAN \cup {Null}
                                  /\ platform[b].msg \in Texts \cup {Pending, Deactivated}
        BY <4>1
      <4> QED BY <4>2, <4>3 DEF PlatformAfter
    <3> QED BY <2>4, <3>1 DEF WriteStates, registerVars
  <2>5. CASE Register
    BY <2>5 DEF Register, statusVars
  <2>6. ASSUME NEW error \in BOOLEAN, Registered(error) PROVE Inv'
    <3>1. register_tasks = 0 /\ register_calls = 1
      BY <2>6 DEF Registered
    <3>2. register_calls' = 0 /\ register_tasks' = 0 /\ register_pending_id' = FALSE
      BY <2>6, <3>1 DEF Registered
    <3>3. RegisterInv'
      BY <3>2
    <3>4. UNCHANGED <<statusVars, bridges_connected>>
      BY <2>6 DEF Registered
    <3>5. register_pending_id' \in BOOLEAN
      BY <3>2
    <3>6. TypeOK'
      BY <3>2, <3>4, <3>5 DEF statusVars
    <3> QED BY <3>3, <3>6
  <2>7. CASE UNCHANGED vars
    BY <2>7 DEF vars, statusVars, registerVars
  <2> QED BY <2>1, <2>2, <2>3, <2>4, <2>5, <2>6, <2>7 DEF Next
<1> QED BY <1>1, <1>2, PTL

LEMMA InvHolds == Spec => []Inv
BY InvOfSteps, PTL DEF Spec

\* The type invariant: every handler keeps the states of the bridges, the flags
\* and what the platform is told within their types.
THEOREM TypeCorrect == Spec => []TypeOK
<1>1. Inv => TypeOK
  BY DEF Inv
<1> QED BY <1>1, InvHolds, PTL

\* However often both bridges disconnect, at most one registration is scheduled
\* or called.
THEOREM OneAtATime == Spec => []OneRegistration
<1>1. Inv => OneRegistration
  BY DEF Inv, TypeOK, RegisterInv, OneRegistration
<1> QED BY <1>1, InvHolds, PTL

\* No status is lost while the write is put off: without a task, what was
\* written last is what is known now.
THEOREM LatestIsWritten == Spec => []WrittenIsLatest
<1>1. Init => WrittenIsLatest
  BY DEF Init, WrittenIsLatest
<1>2. Inv /\ WrittenIsLatest /\ [Next]_vars => WrittenIsLatest'
  <2> SUFFICES ASSUME Inv, WrittenIsLatest, [Next]_vars PROVE WrittenIsLatest'
    OBVIOUS
  <2>1. ASSUME write_all_bridge_connection_states_debounced(bridge_connection_states'),
               UNCHANGED bridge_connection_states_last_written
        PROVE  WrittenIsLatest'
    BY <2>1 DEF WrittenIsLatest, write_all_bridge_connection_states_debounced
  <2>2. ASSUME NEW mode \in Modes, VrmPortalMode(mode) PROVE WrittenIsLatest'
    BY <2>1, <2>2 DEF VrmPortalMode, write_all_bridge_connection_states_debounced
  <2>3. CASE WriteStates
    BY <2>3 DEF WriteStates, WrittenIsLatest
  <2>4. CASE UNCHANGED statusVars
    BY <2>4 DEF statusVars, WrittenIsLatest
  <2> QED BY <2>1, <2>2, <2>3, <2>4
         DEF Next, StatusNotice, ConnectedNotice, Register, Registered, vars
<1> QED BY <1>1, <1>2, InvHolds, PTL DEF Spec

----------------------------------------------------------------------------
(* The event loop.                                                         *)

LoopInv ==
    /\ LoopTypeOK
    /\ enabled = Enabled(outgoing, incoming)
    /\ polled = get_combined_epoll_flags(enabled)
    /\ last_dispatch_status = Status(incoming)
    /\ incoming # {} /\ ~dispatching => dispatch_event_fd

\* What is left of the call is there only while its end is waited for.
CallInv ==
    \/ "call" \in outgoing \/ delivered \/ timeout_task
    \/ "answer" \in socket \cup incoming \/ "timeout" \in socket \cup incoming
    => register_calls > 0

LEMMA EnabledType ==
  ASSUME NEW out, NEW in
  PROVE  /\ Enabled(out, in) \subseteq Watches
         /\ get_combined_epoll_flags(Enabled(out, in)) \subseteq {"EPOLLIN", "EPOLLOUT"}
         /\ Status(in) \in Statuses
BY DEF Enabled, get_combined_epoll_flags, dbus_watch_flags_to_epoll, Status, Statuses

\* A step of libdbus's queues leaves the flags and the eventfd as they have to
\* be, if the loop is dispatching or was awake.
LEMMA UpdatedSound ==
  ASSUME LoopInv, NEW out \in SUBSET Calls, NEW in \in SUBSET Kinds, Updated(out, in),
         UNCHANGED dispatching, socket' \subseteq Kinds,
         delivered' \in BOOLEAN, timeout_task' \in BOOLEAN
  PROVE  LoopInv'
<1>1. /\ outgoing' = out /\ incoming' = in
      /\ enabled' = Enabled(out, in) /\ last_dispatch_status' = Status(in)
  BY DEF Updated
<1>2. polled' = get_combined_epoll_flags(enabled')
  BY DEF Updated, LoopInv, dbus_toggle_watch_function
<1>3. /\ dispatch_event_fd' \in BOOLEAN
      /\ dispatch_event_fd => dispatch_event_fd'
      /\ incoming = {} /\ in # {} => dispatch_event_fd'
  BY DEF Updated, LoopInv, LoopTypeOK, dbus_dispatch_status_function, Status
<1>4. LoopTypeOK'
  BY <1>1, <1>2, <1>3, EnabledType DEF LoopTypeOK, LoopInv
<1>5. incoming' # {} /\ ~dispatching' => dispatch_event_fd'
  BY <1>1, <1>3 DEF LoopInv
<1> QED BY <1>1, <1>2, <1>4, <1>5 DEF LoopInv

LEMMA EndedType ==
  /\ \A messages \in SUBSET Kinds : Ended(messages) \in SUBSET Kinds
  /\ \A calls \in SUBSET Calls : Ended(calls) \in SUBSET Calls
  /\ \A any : Ended(any) \cap {"call", "answer", "timeout"} = {}
BY DEF Ended, Kinds, Calls

LEMMA SendSound ==
  ASSUME LoopInv, NEW call \in Calls, Send(call), timeout_task' \in BOOLEAN
  PROVE  LoopInv'
<1>1. PICK written \in BOOLEAN :
        /\ delivered' = (delivered \/ (written /\ "call" \in outgoing \cup {call}))
        /\ Updated(IF written THEN {} ELSE outgoing \cup {call}, incoming)
        /\ UNCHANGED <<socket, dispatching>>
  BY DEF Send
<1>2. /\ (IF written THEN {} ELSE outgoing \cup {call}) \in SUBSET Calls
      /\ incoming \in SUBSET Kinds /\ delivered' \in BOOLEAN /\ socket' \subseteq Kinds
  BY <1>1 DEF LoopInv, LoopTypeOK
<1> QED BY <1>1, <1>2, UpdatedSound

LEMMA LoopStepSound ==
  ASSUME LoopInv,
         \/ Answer \/ OtherMessage
         \/ WatchEvent \/ TimeoutTask
         \/ DispatchEvent \/ DispatchDone \/ NeedMemory
  PROVE  LoopInv'
<1> USE DEF LoopTypeOK
<1>1. CASE Answer \/ OtherMessage
  BY <1>1 DEF LoopInv, Answer, OtherMessage, Kinds
<1>2. CASE WatchEvent
  <2>1. PICK read \in SUBSET socket, written \in SUBSET outgoing :
          /\ socket' = socket \ read
          /\ delivered' = (delivered \/ "call" \in written)
          /\ timeout_task' = (timeout_task /\ "answer" \notin read)
          /\ Updated(outgoing \ written, incoming \cup read)
          /\ UNCHANGED dispatching
    BY <1>2 DEF WatchEvent
  <2>2. /\ outgoing \ written \in SUBSET Calls /\ incoming \cup read \in SUBSET Kinds
        /\ socket' \subseteq Kinds
        /\ delivered' \in BOOLEAN /\ timeout_task' \in BOOLEAN
    BY <2>1 DEF LoopInv
  <2> QED BY <2>1, <2>2, UpdatedSound
<1>3. CASE TimeoutTask
  <2>1. incoming \cup {"timeout"} \in SUBSET Kinds /\ outgoing \in SUBSET Calls
    BY DEF LoopInv, Kinds
  <2> QED BY <1>3, <2>1, UpdatedSound DEF TimeoutTask, LoopInv
<1>4. CASE DispatchEvent
  BY <1>4 DEF LoopInv, DispatchEvent
<1>5. CASE DispatchDone
  BY <1>5 DEF LoopInv, DispatchDone
<1>6. CASE NeedMemory
  BY <1>6 DEF LoopInv, NeedMemory
<1> QED BY <1>1, <1>2, <1>3, <1>4, <1>5, <1>6

LEMMA DispatchSound ==
  ASSUME LoopInv, NEW message \in Kinds, Dispatch(message)
  PROVE  LoopInv'
<1>1. CASE message = "other"
  <2>1. incoming \ {"other"} \in SUBSET Kinds /\ outgoing \in SUBSET Calls
    BY DEF LoopInv, LoopTypeOK
  <2> QED BY <1>1, <2>1, UpdatedSound DEF Dispatch, LoopInv, LoopTypeOK
<1>2. CASE message # "other"
  <2>1. /\ Ended(incoming \ {message}) \in SUBSET Kinds
        /\ Ended(outgoing) \in SUBSET Calls /\ Ended(socket) \in SUBSET Kinds
    BY EndedType DEF LoopInv, LoopTypeOK
  <2>2. /\ Updated(Ended(outgoing), Ended(incoming \ {message}))
        /\ socket' = Ended(socket) /\ delivered' = FALSE /\ timeout_task' = FALSE
        /\ UNCHANGED dispatching
    BY <1>2 DEF Dispatch
  <2> QED BY <2>1, <2>2, UpdatedSound
<1> QED BY <1>1, <1>2

LEMMA LoopInvHolds == BridgeLoopSpec => []LoopInv
<1>1. BridgeLoopInit => LoopInv
  <2> SUFFICES ASSUME LoopInit PROVE LoopInv
    BY DEF BridgeLoopInit
  <2>1. LoopTypeOK
    BY EnabledType DEF LoopInit, LoopTypeOK, Kinds, Calls
  <2> QED BY <2>1 DEF LoopInit, LoopInv
<1>2. LoopInv /\ [BridgeLoopNext]_bridgeLoopVars => LoopInv'
  <2> SUFFICES ASSUME LoopInv, [BridgeLoopNext]_bridgeLoopVars PROVE LoopInv'
    OBVIOUS
  <2>1. CASE UNCHANGED loopVars
    BY <2>1 DEF loopVars, LoopInv, LoopTypeOK
  <2>2. CASE FromFlashMQ
    BY <2>1, <2>2 DEF FromFlashMQ
  <2>3. CASE WriteStatesTask
    BY <2>3, SendSound DEF WriteStatesTask, Calls, LoopInv, LoopTypeOK
  <2>4. CASE RegisterTask
    BY <2>4, SendSound DEF RegisterTask, Calls
  <2>5. CASE LoopOnly
    BY <2>5, LoopStepSound DEF LoopOnly
  <2>6. ASSUME NEW message \in Kinds, DispatchMessage(message) PROVE LoopInv'
    BY <2>6, DispatchSound DEF DispatchMessage
  <2> QED BY <2>1, <2>2, <2>3, <2>4, <2>5, <2>6 DEF BridgeLoopNext, bridgeLoopVars
<1> QED BY <1>1, <1>2, PTL DEF BridgeLoopSpec

\* The loop sleeps only when it may: in every reachable state, messages that
\* wait in libdbus keep the eventfd readable, and FlashMQ polls the descriptor
\* for all that libdbus wants of it.
THEOREM StaysAwake == BridgeLoopSpec => []LoopAwake
<1>1. LoopInv => LoopAwake
  <2> SUFFICES ASSUME LoopInv PROVE LoopAwake
    OBVIOUS
  <2>1. incoming \notin Full => "DBUS_WATCH_READABLE" \in enabled
    BY DEF LoopInv, Enabled, Watches
  <2>2. outgoing # {} => "DBUS_WATCH_WRITABLE" \in enabled
    BY DEF LoopInv, Enabled, Watches
  <2>3. /\ "DBUS_WATCH_READABLE" \in enabled => "EPOLLIN" \in polled
        /\ "DBUS_WATCH_WRITABLE" \in enabled => "EPOLLOUT" \in polled
    BY DEF LoopInv, get_combined_epoll_flags, dbus_watch_flags_to_epoll
  <2> QED BY <2>1, <2>2, <2>3 DEF LoopAwake, LoopInv
<1> QED BY <1>1, LoopInvHolds, PTL

\* Around the bridges the loop takes only steps of BridgeStatus: what holds of
\* all its behaviours holds in the loop.
THEOREM StepsOfStatus == BridgeLoopSpec => Init /\ [][Next]_vars
<1>1. BridgeLoopInit => Init
  BY DEF BridgeLoopInit
<1>2. [BridgeLoopNext]_bridgeLoopVars => [Next]_vars
  <2> SUFFICES ASSUME [BridgeLoopNext]_bridgeLoopVars PROVE [Next]_vars
    OBVIOUS
  <2>1. CASE FromFlashMQ
    BY <2>1 DEF FromFlashMQ, Next
  <2>2. CASE WriteStatesTask \/ RegisterTask
    BY <2>2 DEF WriteStatesTask, RegisterTask, Next
  <2>3. CASE LoopOnly
    BY <2>3 DEF LoopOnly
  <2>4. ASSUME NEW message \in Kinds, DispatchMessage(message) PROVE [Next]_vars
    BY <2>4 DEF DispatchMessage, Handle, Kinds, Next
  <2>5. CASE UNCHANGED bridgeLoopVars
    BY <2>5 DEF bridgeLoopVars
  <2> QED BY <2>1, <2>2, <2>3, <2>4, <2>5 DEF BridgeLoopNext
<1> QED BY <1>1, <1>2, PTL DEF BridgeLoopSpec

\* A registration that has ended leaves nothing of its call behind that could
\* end another: an answer that comes after the timeout, or a timeout after the
\* answer, finds no handler.
THEOREM EndedLeavesNothing == BridgeLoopSpec => []CallInv
<1>1. BridgeLoopInit => CallInv
  BY DEF BridgeLoopInit, LoopInit, CallInv
<1>2. Inv /\ CallInv /\ [BridgeLoopNext]_bridgeLoopVars => CallInv'
  <2> SUFFICES ASSUME Inv, CallInv, [BridgeLoopNext]_bridgeLoopVars PROVE CallInv'
    OBVIOUS
  <2>2. CASE FromFlashMQ
    <3>1. UNCHANGED register_calls
      BY <2>2 DEF FromFlashMQ, StatusNotice, ConnectedNotice, registerVars,
         initiate_broker_registration
    <3>2. UNCHANGED loopVars
      BY <2>2 DEF FromFlashMQ
    <3> QED BY <3>1, <3>2 DEF loopVars, CallInv
  <2>3. CASE WriteStatesTask
    BY <2>3 DEF WriteStatesTask, WriteStates, registerVars, Send, Updated, CallInv
  <2>4. CASE RegisterTask
    <3>1. register_calls \in Nat /\ register_calls' = register_calls + 1
      BY <2>4 DEF RegisterTask, Register, Inv, TypeOK
    <3> QED BY <3>1 DEF CallInv
  <2>5. CASE LoopOnly
    <3>1. UNCHANGED register_calls
      BY <2>5 DEF LoopOnly, vars, registerVars
    <3>2. CASE Answer \/ OtherMessage
      BY <3>1, <3>2 DEF CallInv, Answer, OtherMessage
    <3>3. CASE WatchEvent
      <4>1. PICK read \in SUBSET socket, written \in SUBSET outgoing :
              /\ socket' = socket \ read
              /\ delivered' = (delivered \/ "call" \in written)
              /\ timeout_task' = (timeout_task /\ "answer" \notin read)
              /\ outgoing' = outgoing \ written /\ incoming' = incoming \cup read
        BY <3>3 DEF WatchEvent, Updated
      <4> QED BY <3>1, <4>1 DEF CallInv
    <3>4. CASE TimeoutTask
      BY <3>1, <3>4 DEF CallInv, TimeoutTask, Updated
    <3>5. CASE DispatchEvent \/ DispatchDone \/ NeedMemory
      BY <3>1, <3>5 DEF CallInv, DispatchEvent, DispatchDone, NeedMemory
    <3> QED BY <2>5, <3>2, <3>3, <3>4, <3>5 DEF LoopOnly
  <2>6. ASSUME NEW message \in Kinds, DispatchMessage(message) PROVE CallInv'
    <3>1. CASE message = "other"
      <4>1. UNCHANGED register_calls
        BY <2>6, <3>1 DEF DispatchMessage, Handle, VrmPortalMode, registerVars, vars
      <4> QED BY <2>6, <3>1, <4>1 DEF DispatchMessage, Dispatch, Updated, CallInv
    <3>2. CASE message # "other"
      <4>1. /\ outgoing' = Ended(outgoing) /\ incoming' = Ended(incoming \ {message})
            /\ socket' = Ended(socket) /\ delivered' = FALSE /\ timeout_task' = FALSE
        BY <2>6, <3>2 DEF DispatchMessage, Dispatch, Updated
      <4> QED BY <4>1, EndedType DEF CallInv
    <3> QED BY <3>1, <3>2
  <2>7. CASE UNCHANGED bridgeLoopVars
    BY <2>7 DEF bridgeLoopVars, vars, registerVars, loopVars, CallInv
  <2> QED BY <2>2, <2>3, <2>4, <2>5, <2>6, <2>7 DEF BridgeLoopNext
<1> QED BY <1>1, <1>2, StepsOfStatus, InvOfSteps, PTL DEF BridgeLoopSpec

=============================================================================
