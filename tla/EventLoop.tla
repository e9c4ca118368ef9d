------------------------------ MODULE EventLoop ------------------------------
(***************************************************************************)
(* The connection to the bus in FlashMQ's event loop: the watches that     *)
(* share its descriptor, the timeout of a call, and the eventfd by which   *)
(* the plugin tells itself to dispatch what libdbus has read               *)
(* (src/src/dbus_functions.cpp, flashmq_plugin_poll_event_received in      *)
(* src/src/flashmq-dbus-plugin.cpp, Watch and State::setDispatchable in    *)
(* src/src/state.cpp).                                                     *)
(*                                                                         *)
(* libdbus is external. Of its messages only the kind matters, and of each *)
(* kind at most one is in a place at a time: the answer to the call whose  *)
(* end is waited for, the error that its timeout makes up, and any other.  *)
(* Calls are that one, and others. libdbus has a watch for reading, which  *)
(* it disables while too many messages wait, and one for writing, which is *)
(* enabled while something is left to write. It calls back for each watch  *)
(* that changes, and for a dispatch status only when that has changed.     *)
(***************************************************************************)

CONSTANT Full  \* the sets of waiting messages with which libdbus stops reading

Kinds   == {"answer", "timeout", "other"}
Calls   == {"call", "other"}
Watches == {"DBUS_WATCH_READABLE", "DBUS_WATCH_WRITABLE"}

ASSUME LoopAssumption == Full \subseteq (SUBSET Kinds) \ {{}}

VARIABLES
    outgoing,              \* libdbus: calls that are not written yet
    delivered,             \* whether the other side has the call to answer
    socket,                \* messages on the descriptor
    incoming,              \* libdbus: messages that wait to be dispatched
    enabled,               \* libdbus: watches that are enabled
    last_dispatch_status,  \* libdbus: the status it has last called back with
    polled,                \* events FlashMQ polls the descriptor for
    dispatch_event_fd,     \* whether the eventfd is readable
    dispatching,           \* in the loop of flashmq_plugin_poll_event_received
    timeout_task           \* whether the task of the call's timeout is scheduled

loopVars == <<outgoing, delivered, socket, incoming, enabled, last_dispatch_status,
              polled, dispatch_event_fd, dispatching, timeout_task>>

Statuses == {"DBUS_DISPATCH_COMPLETE", "DBUS_DISPATCH_DATA_REMAINS"}

LoopTypeOK ==
    /\ outgoing \subseteq Calls /\ delivered \in BOOLEAN
    /\ socket \subseteq Kinds /\ incoming \subseteq Kinds
    /\ enabled \subseteq Watches
    /\ last_dispatch_status \in Statuses
    /\ polled \subseteq {"EPOLLIN", "EPOLLOUT"}
    /\ dispatch_event_fd \in BOOLEAN /\ dispatching \in BOOLEAN
    /\ timeout_task \in BOOLEAN

----------------------------------------------------------------------------
(* Callbacks of libdbus. *)

dbus_watch_flags_to_epoll(watch) ==
    IF watch = "DBUS_WATCH_READABLE" THEN "EPOLLIN" ELSE "EPOLLOUT"

get_combined_epoll_flags(on) == {dbus_watch_flags_to_epoll(watch) : watch \in on}

\* Mutant of dbus_toggle_watch_function: the flags of the watch that changed.
OwnFlags(on) == polled' = get_combined_epoll_flags(on \ enabled)

\* Some watch has changed, and those in on are enabled now.
dbus_toggle_watch_function(on) == polled' = get_combined_epoll_flags(on)

dbus_dispatch_status_function(status) ==
    dispatch_event_fd' = (dispatch_event_fd \/ status = "DBUS_DISPATCH_DATA_REMAINS")

Enabled(out, in) ==
    {watch \in Watches : IF watch = "DBUS_WATCH_READABLE" THEN in \notin Full ELSE out # {}}

Status(in) ==
    IF in = {} THEN "DBUS_DISPATCH_COMPLETE" ELSE "DBUS_DISPATCH_DATA_REMAINS"

\* libdbus's queues become out and in: it calls back for what has changed.
Updated(out, in) ==
    /\ outgoing' = out /\ incoming' = in
    /\ enabled' = Enabled(out, in)
    /\ IF enabled' = enabled THEN UNCHANGED polled ELSE dbus_toggle_watch_function(enabled')
    /\ last_dispatch_status' = Status(in)
    /\ IF Status(in) = last_dispatch_status THEN UNCHANGED dispatch_event_fd
       ELSE dbus_dispatch_status_function(Status(in))

----------------------------------------------------------------------------
(* What libdbus and the other side do. *)

\* dbus_connection_send_with_reply writes at once if the socket takes it.
Send(call) ==
    \E written \in BOOLEAN :
        /\ delivered' = (delivered \/ (written /\ "call" \in outgoing \cup {call}))
        /\ Updated(IF written THEN {} ELSE outgoing \cup {call}, incoming)
        /\ UNCHANGED <<socket, dispatching>>

Answer ==
    /\ delivered
    /\ delivered' = FALSE
    /\ socket' = socket \cup {"answer"}
    /\ UNCHANGED <<outgoing, incoming, enabled, last_dispatch_status, polled,
                   dispatch_event_fd, dispatching, timeout_task>>

OtherMessage ==
    /\ "other" \notin socket
    /\ socket' = socket \cup {"other"}
    /\ UNCHANGED <<outgoing, delivered, incoming, enabled, last_dispatch_status, polled,
                   dispatch_event_fd, dispatching, timeout_task>>

\* When the call has ended, what is left of it is a message like any other:
\* nothing waits for its serial.
Ended(messages) ==
    IF messages \subseteq {"other"} THEN messages
    ELSE (messages \ {"call", "answer", "timeout"}) \cup {"other"}

----------------------------------------------------------------------------
(* The event loop. FlashMQ runs one handler at a time, so none of its other*)
(* handlers runs while the plugin is dispatching.                          *)

\* State::open: libdbus may have received messages before it has the callbacks,
\* and then does not call back for them.
LoopInit ==
    /\ incoming \in SUBSET {"other"} /\ socket \in SUBSET {"other"}
    /\ outgoing \in SUBSET {"other"} /\ delivered = FALSE
    /\ enabled = Enabled(outgoing, incoming)
    /\ last_dispatch_status = Status(incoming)
    /\ polled = get_combined_epoll_flags(enabled)
    /\ dispatch_event_fd = TRUE
    /\ dispatching = FALSE
    /\ timeout_task = FALSE

\* flashmq_plugin_poll_event_received for the connection: every watch that is
\* enabled handles the events that it has flags for. With the answer in hand,
\* libdbus removes the timeout.
WatchEvent ==
    LET Handled(watch, messages) ==
            IF watch \in enabled /\ dbus_watch_flags_to_epoll(watch) \in polled
            THEN messages ELSE {}
        read    == Handled("DBUS_WATCH_READABLE", socket)
        written == Handled("DBUS_WATCH_WRITABLE", outgoing)
    IN  /\ ~dispatching
        /\ read # {} \/ written # {}
        /\ socket' = socket \ read
        /\ delivered' = (delivered \/ "call" \in written)
        /\ timeout_task' = (timeout_task /\ "answer" \notin read)
        /\ Updated(outgoing \ written, incoming \cup read)
        /\ UNCHANGED dispatching

\* dbus_timeout_do_handle: libdbus makes up an error and removes the timeout.
TimeoutTask ==
    /\ ~dispatching
    /\ timeout_task
    /\ timeout_task' = FALSE
    /\ Updated(outgoing, incoming \cup {"timeout"})
    /\ UNCHANGED <<delivered, socket, dispatching>>

\* flashmq_plugin_poll_event_received for the eventfd: reading it resets it.
DispatchEvent ==
    /\ ~dispatching
    /\ dispatch_event_fd
    /\ dispatch_event_fd' = FALSE
    /\ dispatching' = TRUE
    /\ UNCHANGED <<outgoing, delivered, socket, incoming, enabled,
                   last_dispatch_status, polled, timeout_task>>

\* dbus_connection_dispatch: the first answer to the call, real or made up, ends it.
Dispatch(message) ==
    /\ dispatching
    /\ message \in incoming
    /\ IF message = "other"
       THEN /\ Updated(outgoing, incoming \ {"other"})
            /\ UNCHANGED <<delivered, socket, timeout_task>>
       ELSE /\ Updated(Ended(outgoing), Ended(incoming \ {message}))
            /\ socket' = Ended(socket)
            /\ delivered' = FALSE
            /\ timeout_task' = FALSE
    /\ UNCHANGED dispatching

\* Mutant of DispatchDone: one message per event.
DispatchOnce ==
    /\ dispatching
    /\ dispatching' = FALSE
    /\ UNCHANGED <<outgoing, delivered, socket, incoming, enabled, last_dispatch_status,
                   polled, dispatch_event_fd, timeout_task>>

DispatchDone ==
    /\ dispatching
    /\ incoming = {}
    /\ dispatching' = FALSE
    /\ UNCHANGED <<outgoing, delivered, socket, incoming, enabled, last_dispatch_status,
                   polled, dispatch_event_fd, timeout_task>>

\* DBUS_DISPATCH_NEED_MEMORY: what is left is for another event.
NeedMemory ==
    /\ dispatching
    /\ incoming # {}
    /\ dispatching' = FALSE
    /\ dispatch_event_fd' = TRUE
    /\ UNCHANGED <<outgoing, delivered, socket, incoming, enabled, last_dispatch_status,
                   polled, timeout_task>>

----------------------------------------------------------------------------
(* Properties *)

\* The loop sleeps only when it may: as long as messages wait in libdbus, which
\* calls back for the first of them only, the eventfd is readable, and FlashMQ
\* polls for whatever libdbus wants to read or write.
LoopAwake ==
    /\ incoming # {} /\ ~dispatching => dispatch_event_fd
    /\ socket # {} /\ incoming \notin Full => "EPOLLIN" \in polled
    /\ outgoing # {} => "EPOLLOUT" \in polled

=============================================================================
