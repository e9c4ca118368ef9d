----------------------------- MODULE BridgeLoop -----------------------------
(***************************************************************************)
(* BridgeStatus in the event loop: the registration at VRM is a call that  *)
(* the loop writes, and its answer, or its timeout, a message that the     *)
(* loop reads and dispatches. Other calls, those of WriteStates among them,*)
(* and other messages, among them the changes of the portal mode, share    *)
(* the connection with it.                                                 *)
(***************************************************************************)
EXTENDS BridgeStatus, EventLoop

FromFlashMQ ==
    /\ ~dispatching
    /\ \/ \E b \in Bridges, text \in Texts : StatusNotice(b, text)
       \/ \E b \in Bridges, connected_now \in BOOLEAN : ConnectedNotice(b, connected_now)
    /\ UNCHANGED loopVars

WriteStatesTask ==
    /\ ~dispatching
    /\ WriteStates
    /\ Send("other")
    /\ UNCHANGED timeout_task

\* dbus_add_timeout_function, which libdbus calls for the call, adds its task.
RegisterTask ==
    /\ ~dispatching
    /\ Register
    /\ Send("call")
    /\ timeout_task' = TRUE

LoopOnly ==
    /\ \/ Answer \/ OtherMessage
       \/ WatchEvent \/ TimeoutTask
       \/ DispatchEvent \/ DispatchDone \/ NeedMemory
    /\ UNCHANGED vars

\* Handlers, by way of dbus_handle_message and dbus_pending_call_notify.
Handle(message) ==
    CASE message = "answer"  -> \E error \in BOOLEAN : Registered(error)
      [] message = "timeout" -> Registered(TRUE)
      [] message = "other"   -> (\E mode \in Modes : VrmPortalMode(mode)) \/ UNCHANGED vars

DispatchMessage(message) == Dispatch(message) /\ Handle(message)

BridgeLoopInit == Init /\ LoopInit

BridgeLoopNext ==
    \/ FromFlashMQ
    \/ WriteStatesTask
    \/ RegisterTask
    \/ LoopOnly
    \/ \E message \in Kinds : DispatchMessage(message)

bridgeLoopVars == <<vars, loopVars>>

\* FlashMQ handles what it polls for and runs what is due, a message is not
\* overtaken for ever, and memory is not short for ever. The other side owes
\* no answer.
BridgeLoopSpec ==
    /\ BridgeLoopInit /\ [][BridgeLoopNext]_bridgeLoopVars
    /\ SF_bridgeLoopVars(RegisterTask \/ (TimeoutTask /\ UNCHANGED vars))
    /\ WF_bridgeLoopVars(\/ (DispatchEvent \/ DispatchDone) /\ UNCHANGED vars
                         \/ \E message \in Kinds : DispatchMessage(message))
    /\ SF_bridgeLoopVars(DispatchMessage("answer") \/ DispatchMessage("timeout"))

=============================================================================
