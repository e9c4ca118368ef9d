# TLA+ models of dbus-flashmq

dbus-flashmq is a plugin of the MQTT broker FlashMQ on Venus OS. It finds the
services of Victron devices on the D-Bus, keeps a cache of their items,
publishes the items as `N/<vrm id>/<service type>/<instance>/<path>`, and
serves reads (`R/...`), writes (`W/...`) and keep-alives from MQTT clients.
This directory holds TLA+ models of it, the configurations with which TLC
checks them, and proofs about them for TLAPS. Paths below are relative to the
plugin's `src/` directory; `PROJECT.json` maps every definition to its lines.

Everything in the plugin runs in one thread (`State::State` refuses a second
one), so a handler is one atomic step. What makes it hard is the order in which
things reach the handlers: the replies to calls, the signals of services that
start, change and die, timers, and the requests of clients, all interleaved.

## 1. Inventory

| Part | State it keeps | Operations | What must hold |
|---|---|---|---|
| **Service registry and item cache** (`state.cpp`, `types.cpp`, `shortservicename.*`) | `service_id_to_names`, `service_names_to_instance`, `service_type_and_instance_to_full_service`, `dbus_service_items`, `delayed_changed_values`, `async_handlers` | scan of names, `scan_dbus_service`, the reply handlers, `add_dbus_to_mqtt_mapping`, `attempt_to_process_delayed_changes`, `remove_dbus_service`, `handle_read`, `write_to_dbus` | the maps agree; the cache follows the services; no topic outlives its item; whoever stays on the bus is found; nothing early is lost, nothing late is applied |
| **D-Bus connection** (`dbus_functions.cpp`, `dbusutils.cpp`) | libdbus's connection, watches, timeouts | `dbus_handle_message`, `dbus_pending_call_notify`, watch and timeout callbacks | a reply reaches its handler once; a signal is attributed to the service that sent it |
| **MQTT requests** (`flashmq-dbus-plugin.cpp`) | `vrmBridgeInterestTime` | `handle_venus_actions` | a request reaches the service whose topic it names |
| **Keep-alive and heartbeat** (`state.cpp`) | `alive`, three task ids, `keepAliveTokens` | `handle_keepalive`, `unset_keepalive`, `heartbeat`, `per_second_action` | alive for a minute after each keep-alive; one heartbeat, on time; at most three republications a second |
| **Delayed tasks** (`queuedtasks.cpp`) | `tasks`, `queuedTasks`, `next` | `addTask`, `eraseTask`, `getTimeTillNext`, `performAll` | no task is slept past |
| **Bridge status and registration** (`state.cpp`, `flashmq-dbus-plugin.cpp`) | `bridge_connection_states`, what was last written, `bridges_connected`, `register_pending_id`, `vrm_portal_mode` | notices on `$SYS/broker/bridge/...`, the debounced write, `initiate_broker_registration` | the last status is the one written; one registration at a time, and it ends; the status goes with the mode |
| **Login checks and sessions** (`flashmq-dbus-plugin.cpp`, `state.cpp`) | login tokens, `passwordHistory`, `privileged_network_clients`, `security_profile_password_clients`, `lan_clients`, `users_to_clientids`, `mqtt_local_mode` | `flashmq_plugin_login_check`, `client_disconnected`, changes of the LAN setting, `UserRemoved`, the timers | each new failure is paid for once, and so many a second; whom a change of the setting or a removal is about is found and put out; privilege lasts as long as its connection |
| **Access checks** (`flashmq-dbus-plugin.cpp`, `state.cpp`) | `vrmBridgeInterestTime` | `flashmq_plugin_acl_check`, `handle_paired_integration_client_auth`, `is_privileged_user`, `localhost_client` | what a connection may do follows from how it logged in; paired devices are apart; VRM keeps to its mode |
| **Value conversion** (`vevariant.cpp`, `types.cpp`) | an item's `value` and `cache_json` | JSON to D-Bus and back, `ValueMinMax::operator=`, `set_value`, `as_json` | what is written comes back; a message is well formed; the text is that of the value; no part that was told is lost |
| **GUI customizations** (`guicustomizations.cpp`) | `m_apps_cache`, `m_apps_cache_hash` | `scan`, `publish_customizations`, `publish_chunk` | the index goes with the files; a chunk goes with its hash; the index catches up |
| **Event loop glue** (`dbus_functions.cpp`, `state.cpp`, `flashmq-dbus-plugin.cpp`) | `watches`, `dispatch_event_fd` | adding and toggling watches, timeouts, the dispatch status, `flashmq_plugin_poll_event_received` | the loop never sleeps while it has work |
| Local networks, guards, helpers, test harness, vendored headers | none | | |

How they interact. FlashMQ calls the plugin for every event: a readable
descriptor (`flashmq_plugin_poll_event_received` dispatches the D-Bus messages
that have arrived), a publish of a client (`flashmq_plugin_acl_check`, which is
also the message handler), a task that is due. The D-Bus side fills the cache and
the maps; the MQTT side finds a service through the maps and calls it, and its
reply comes back through `async_handlers`. The item
`settings/.../VrmPortal` sets the portal mode on its way through
`add_dbus_to_mqtt_mapping`, which is how the registry drives the bridge status.
`alive` is set by keep-alives and read wherever a change may be published. A login
decides, by what it leaves in the maps of clients, what the access checks permit
its connection later.

The hard behaviours, each at its line, are the `hazards` of `PROJECT.json`, with
the properties that cover them. In short: replies that arrive after the service
has died or restarted; changes that arrive before the service is known; the first
scan overlapping with announcements; exceptions in the middle of a loop; tasks
erased, replaced and due together; a debounced write that compares the wrong
thing; a registration pending for long; a setting that changes between logins, while the
connections it concerns come, go and leave entries behind; files that are replaced
between two looks at them; signals that tell an item in parts; a callback of libdbus that
comes only for the first of several messages.

## 2. Modules

| Module | Models | Extends |
|---|---|---|
| `SystemBus` | the bus daemon and the services, as the plugin meets them (external code) | |
| `ServiceRegistry` | the registry, the cache, the reply handlers, requests, what is published | `SystemBus` |
| `MCServiceRegistry` | small instances | `ServiceRegistry` |
| `ServiceRegistryProofs`, `InboxProofs` | theorems: types and maps; the plugin against the bus | `ServiceRegistry`; `ServiceRegistryProofs` |
| `CacheProofs` | theorems: the cache against the services, the topics against the cache | `InboxProofs` |
| `TaskQueue` | `QueuedTasks` and the clock of its loop | |
| `KeepAlive`, `MCKeepAlive` | keep-alive, heartbeat, tokens, on `TaskQueue` | `TaskQueue` |
| `KeepAliveProofs` | theorems about the queue and what lives on it | `KeepAlive` |
| `BridgeStatus`, `MCBridgeStatus` | the bridges to VRM | |
| `EventLoop` | libdbus's queues, watches, timeout and dispatch status in FlashMQ's loop | |
| `BridgeLoop`, `MCBridgeLoop` | the bridges over that connection | `BridgeStatus`, `EventLoop` |
| `BridgeLoopProofs` | theorems about the bridges, alone and in the loop | `BridgeLoop` |
| `LoginSessions` | login checks, limits, who is connected | instance of `LanPolicy` |
| `LanPolicy` | abstract: who may connect, and whom a change puts out | |
| `AccessControl` | the decisions of the access check | |
| `LanAccess`, `MCLanAccess` | what the access check says of those who are connected | `LoginSessions`, `AccessControl` |
| `LoginSessionsProofs` | theorems about the logins and about what the access check says of those who came in | `LanAccess` |
| `ItemText` | the text an item keeps of its value and limits, for any variants | |
| `ItemTextProofs` | theorems about it | `ItemText` |
| `ItemValues`, `MCItemValues` | one item on its way from JSON to the D-Bus and back, and the conversions | `ItemText` |
| `Customizations`, `MCCustomizations` | the index of apps and their chunks | |
| `CustomizationsProofs` | theorems | `Customizations` |

### SystemBus

A service is its well-known name. `Appear` and `Vanish` are its incarnations,
each with a fresh unique name, as the bus guarantees; `Change` changes an item
and signals it (unless the path is `Silent`), `AddPath` exports a path after
the name was taken (`Late`). A call waits in `calls` until the daemon or the
service answers it, in any order relative to other calls; a call that has reached
an incarnation that dies is `orphaned` and fails. Everything the plugin hears
arrives through one `inbox`, in order, as on a D-Bus connection; so a service's
reply never overtakes its own signals. A name is handed over by releasing it
first. None of it is code of this repository, and the map marks it external,
except the shapes of messages, which the parsers of `dbusutils.cpp` and
`types.cpp` fix: an item is a path with a value, an answer to `GetValue` on an
inner object has the items below it and no `/DeviceInstance`, an answer to
`GetValue` on an item is a plain value.

### ServiceRegistry

One action per handler. `ServiceAppeared`, `ServiceDisappeared` and
`ItemsChanged` are the branches of `dbus_handle_message`;
`attempt_to_process_delayed_changes`, which comes first in each, is part of them
(`Become(Attempted)`). `ListNamesReply`, `NameOwnerReply`,
`GetItemsUnknownMethod`, `ItemsReplied`, `ReadReply` and `ReplyWithoutEffect` are
the lambdas stored in `async_handlers`, which a variable of that name holds by
kind. `handle_read`, `write_to_dbus` and `handle_keepalive` are the requests of
clients, `unset_keepalive` and `Age` the passing of a minute and of 30 seconds.

- The code's vector `delayed_changed_values` is a set of entries with their
  places; `delayed_count` gives out places. This makes the loop over it a few
  set expressions (`Reached`, `Kept`, `Applied`, `ItemsAfter`), and the point
  where the loop throws is the least unmatched place.
- `mqtt` is what a subscriber that stays connected has last seen of each topic.
  `republished` is auxiliary: the installation is alive, and everything was
  published since it became so.
- A topic is a triple `<<type, instance, path>>`; instance 0 is `NoInstance`,
  what `get_instance_from_items` gives without `/DeviceInstance`. A serial is
  used again once its call was answered, the lowest free one first; the code's
  serials are never used again, and nothing depends on their values.
- An entry of `unordered_map` that is not there is `None`, and an item that is
  not there `Absent`. `remove_dbus_service` looks a map through by value and
  stops at the first match; which one that is, is not determined
  (`EraseOneValue`).
- `R/<id>/system/0/Serial` is a keep-alive and a read in one handler: here the two
  actions one after the other, with or without others between them.

`QuietSpec` has those behaviours in which no incarnation leaves anything behind for the next one: when the
departure of a service is heard, no change of it is queued and no read of its inner object is open
(`LeavesNothing`). It says what the theorems of `CacheProofs` need, and is no claim about the code, which does
not see to it: section 5 says what happens otherwise.

Values are opaque; the minimum and maximum of an item and its JSON are in
`ItemValues`. Left out: the `/Identifier` that
may stand for an instance, messages that do not parse, the message
`full_publish_completed`, `GetItems` replies without any items.

### TaskQueue and KeepAlive

`TaskQueue` has time relative to now: an entry holds the ticks left until it is
due. Its operators take a queue and give a queue, so that a handler may erase and
add several tasks in one step. An erased task stays in `queuedTasks` until its time
comes, as in the code. Ids of the code grow; here the least id is taken that is neither
queued nor remembered by anybody (`NewId`), which no operation can tell apart.
The queue is a sequence in the order of the times; `UpperBound` is where the tasks after a given time
begin, for `multiset::insert` as for the loop of `performAll`. That moves what is due to
`running`, each job with the place it had, and `Runs` takes the first.
`Tick` lets the loop be at most `MaxLate` late. FlashMQ brings its own tasks;
`queuedtasks.cpp` is what the repository has of them.

`KeepAlive` adds the four operations that live on these tasks. `quiet`,
`silence` and `published` are auxiliary clocks and a counter for the properties.
The rest of `per_second_action`, on the login tokens, is in `LoginSessions`.

### BridgeStatus

`StatusNotice` and `ConnectedNotice` are the two topics of `$SYS/broker/bridge/`
in `handle_venus_actions`; each ends with
`write_all_bridge_connection_states_debounced`, whose task is `WriteStates`.
`VrmPortalMode` is the item that sets the mode. Each bridge is written with two `SetValue` calls; those in
`Refusable` may fail, which is logged, and the states count as written all the same (`state.cpp:776`). `Register` and `Registered` are the
task and the reply of a registration; it is scheduled after 0 to 600 seconds, so
without a clock it may run at any time. `platform` is what the four
calls set, which are sent on one connection and keep their order.

### EventLoop and BridgeLoop

`EventLoop` is the plugin's side of the connection to the bus, with as much of libdbus as
its callbacks need (external in the map): its two queues, its two watches on one
descriptor, of which the one for reading is disabled while too many messages wait and
the one for writing enabled while something is left to write, and the dispatch status. `Updated` is
any step of its queues with the callbacks that follow from it: `dbus_toggle_watch_function` if a watch has
changed, `dbus_dispatch_status_function` if the status has. `WatchEvent` and
`DispatchEvent` are the two halves of `flashmq_plugin_poll_event_received`, `Dispatch`, `DispatchDone`
and `NeedMemory` the loop of the second; while `dispatching`, no other handler runs. Of messages
the kind matters: the answer to the call whose end is waited for, the error that its timeout makes
up, any other. libdbus runs the handler of a call for the first of the two only, so that `Ended`
turns what is left of a call into other messages.

`BridgeLoop` puts `BridgeStatus` on it: `Register` sends the call and adds its timeout, `WriteStates`
sends other calls, a change of the portal mode is one of the other messages, and `Registered` is
what dispatching an answer or a timeout does. The notices on the bridges come from FlashMQ itself.
The watches are there from `State::open` until the connection ends, and the process with it, so they are
not removed here.

### LoginSessions and LanPolicy

`login_check` is `flashmq_plugin_login_check`, with a disjunct for each of its returns,
guarded by the conditions that lead there; `Success` and `DelayedFail` are the two halves
of `auth_success_or_delayed_fail`, and `Denied` is the task of the second. `client_disconnected`,
`periodic_event`, `per_minute_action` and `per_second_action` are the other callbacks and
timers, `MqttLocal` the item of the LAN setting on its way through
`add_dbus_to_mqtt_mapping`, and `UserRemoved` the signal.

- The maps by client id are sets of pairs `<<client id, user>>`, with `try_emplace` and
  `erase` as the code uses them. `users_to_clientids` is one as well; a user without client ids
  is a user without an entry.
- Passwords have no right or wrong of their own: `do_token_auth` and `do_vnc_auth` give the set of results
  their file may yield, for it is read at each login and changed by others.
- A client is a Client object, privileged as an object and not by name. It is used for another
  connection only when no trace of it is left.
- Connections, sessions and the queue of removals are FlashMQ's. `flashmq_plugin.h` says that
  `client_disconnected` is called for clients that were let in only, and that a removal is queued.
  The model takes FlashMQ to report the end of a connection before the id is used for the next one; if it
  were the other way round, `client_disconnected` would erase the entry of the new connection.
  That order is outside this repository (the hazard at `flashmq-dbus-plugin.cpp:332`).
- `tokens.json` is rewritten before `UserRemoved` is sent; `removed` holds the signals under way.
- `recent` is auxiliary: `recent[i]` is the number of new failures in the last `i` seconds.
- `LanPolicy` is what all this promises: `SetMode` puts out exactly the connections of the kinds that are
  forbidden now, `TellRemoval` exactly those of the user. It has no maps, sessions or limits, and
  `ImplementsPolicy` is the refinement.
- The user names of the bridge are refused without a trace, so they do not appear. Of a connection's user
  name only its kind matters, and that an empty one is not registered.

### AccessControl and LanAccess

`AccessControl` has no state: `acl_check` is the answer of `flashmq_plugin_acl_check` as a function of
access, client, topic, portal mode and the interest of VRM. A topic is a record of what the decisions look
at; `word` stands for the word that is searched for in it. `LanAccess` asks it about the
connections of `LoginSessions`, with `is_privileged_user` and `localhost_client`
as the state finds them, by client id and user name in FlashMQ's sessions. What a permitted publish does
is in the other modules. The catch of everything at the end of the function allows what throws: what can throw in it
is the action on a publish, which comes after the decision to allow it. FlashMQ's functions for a session, a client
and an address are taken not to throw.

### ItemText and ItemValues

`ItemText` is an item and the text it keeps (`cache_json`): `Merged` is `ValueMinMax::operator=`;
`set_value` and `publish` are what signals and keep-alives do with both. What a variant is and what
`as_json_value` makes of it (`TextOf`), or that it throws, are constants. `TextSpec` is what an item goes through, whoever tells it what.

`ItemValues` is one item on its way from JSON to the D-Bus and back: `FromJson`, `append_args_to_dbus_message`, `FromIter` and
`as_json_value` are the conversions, each recursive as in the code, with variants as tuples of type, content and
contained type. Integers have `Bits32` and `Bits64` bits and wrap. The item itself is that of `ItemText`, with these
variants and this `TextOf` (`TextAssumption`), and `ImplementsText` says that what clients and the service do to it is `TextSpec`.
`written` is auxiliary: what a client has written, until the service changes
by itself. A message that breaks its signature is not sent (`NotSent`): libdbus is taken to be built, as it usually is, so
that a check of its own that fails is reported and does not end the process. Nothing is proved about the conversions; of the item and its text it is proved for any conversions, in `ItemTextProofs`.

### Customizations

`publish_customizations` scans, and then publishes the list or a chunk. All of it is one handler, but each look at
a file is a step (`get_cache_key`, `NextEntry`, `hash_file`, `calculate_chunks`, `CheckSize`,
`ReadChunk`), with `WriteFile`, `RestoreFile` and `RemoveFile` of other processes in between.

- The key is a set: the exclusive or of hashes that do not collide, so that a time which an even number of files have
  is not in it (`OddTimes`). It is that of a part of the files when the iteration throws (`KeyFails`).
- A blob stands for its SHA-256, and `Chunks` says how many chunks it has.
- `now` counts the writes. `WriteFile` gives one app or several a new time, the same for all. `RestoreFile` gives an app
  without a file one with an earlier time, as `mv`, `tar` and `cp -p` do, and as an app does that is linked into
  `/data/apps/enabled` again; its content need not be the one that had this time before.
- `touched` and `returned` are auxiliary: the apps that were changed since the request began, and those that came with
  an earlier time since the scan that made the index began.

What the code promises about the index has two exceptions, and the properties name them (`Shown`). An app that is away while the
index is made and comes back with the time it had leaves the key as it was; the index was stored under that key
(`guicustomizations.cpp:100`), and no scan finds the app before another file changes. The same happens to what comes back after
an index that could not be made: its cache is empty, its key the old one. And two files with the same time cancel each other's
times: an update of both that again gives them one time goes unnoticed. Both are the code's behaviour; no document says how apps are
enabled, so they are hazards with a note and not findings.

## 3. Runs

All runs are of less than a million states and take under four minutes
each on two cores, `restarts`, `sessions`, `bridges` and `requests` being the largest.

| Run | Configuration | Properties | Shows |
|---|---|---|---|
| `restarts` | one service, two incarnations, three messages under way, two queued changes, one read, keep-alives with and without republication | `TypeOK`, `OnlyUnknownQueued`, `IdsFollowOwners`, `RegisteredIsOwned`, `NoGhostTopic`, `ViewFollowsCache`, `InstanceIsPublished` | a service that dies and returns amid its own changes, reads and scans leaves nothing behind and nothing out |
| `requests` | one service without `GetItems` that stays; silent, late, retained, blocked and nested paths; calls may fail | `CacheFollowsService` | with nothing unread, the cache holds the service's values, whatever is read, written or lost |
| `discovery` | two services of one type, one mortal, one without `GetItems`; fairness | `RegistryAgreement`, `TopicLeadsBack`, `Discovered` | services that share the short names do not disturb each other, and who stays on the bus is registered in the end |
| `keep_alive` | a second is 1 tick, a heartbeat 2, a keep-alive 4; the loop up to 1 late | `TypeOK`, `Timely`, `AliveForAMinute`, `OneHeartbeat`, `HeartbeatOnTime`, `RateLimited` | every interleaving of keep-alives and due tasks |
| `bridges` | two bridges, all modes, over a connection where libdbus stops reading as soon as a message waits | `WrittenIsLatest`, `OneRegistration`, `LoopAwake`, `RegistrationEnds` | debouncing loses no status, the loop loses no message, and registrations come one at a time and end, whether they are answered or not |
| `sessions` | two connections, two ids, a user of each kind; one token a second, three a day, three passwords; topics of every branch of the access check | `TypeOK`, `FailuresPaid`, `GuessRate`, `RemovedUserLeaves`, `TokensOnlyEnforced`, `LanOffEnforced`, `ImplementsPolicy`, `AccessAsLoggedIn`, `DevicesApart`, `BridgeKeptOut` | logins in every setting, amid its changes, removals, expiries and timers, are counted and found as they should be, and keep the rights they came with |
| `customizations` | two apps, two writes of one or both, returns with the first time, blobs of one chunk or two | `TypeOK`, `ListedIsCurrent`, `ChunkAsListed`, `CatchesUp` | an index and chunks made of looks at different times go with the files all the same, as far as the key can tell |
| `values` | all integers of 4 bits, of which those of 2 are the short ones, arrays of them, of other types and of arrays; a service that changes its value and its limits in parts | `RoundTrip`, `UniformArrays`, `TextIsCurrent`, `ImplementsText` | what a client writes comes back as it was written, and no text is stale |
| `instance_zero` | a read of an inner object across a restart | `InstanceIsPublished`, **violated** | finding 1 |
| `stale_change` | an early change across a restart | `CacheFollowsService`, **violated** | finding 2 |
| `dropped_change` | a read of an inner object and an early change across a restart | `QueuedChangeApplied`, **violated** | finding 3 |
| `bridge_mode` | the portal mode changes; a call of a write may fail | `ToldIsCurrent`, **violated** | finding 4 |

`InstanceIsPublished` holds in `restarts`, whose clients read items only, and
fails in `instance_zero`, whose clients read an inner object. `CacheFollowsService`
holds in `requests`, where no service restarts, and fails in `stale_change`.
`QueuedChangeApplied` is checked in `dropped_change` only, where it fails; under which conditions it holds is proved (section 5).

**Bounds, and why they are enough.** Two unique names give one restart, which is
what every hazard of a restart needs: something of the first incarnation meeting
the second. A third adds no new pair. Two values tell stale from fresh. Of the paths, `inst` is
`/DeviceInstance`, which does not change while a service runs; `power` is a
measurement; `serial` and `tunnel` come in where a retained and a blocked topic
matter. `MaxInbox` stops item changes, not replies or owner changes, when that many messages
are undelivered, and `MaxQueued` bounds the changes that can queue up: two, so that
one can overtake or follow another. `Serials` suffices for every scan that can be under way (checked by
the assumption `EnoughSerials`), `MaxReads` bounds the requests of clients under way.
The unique names are interchangeable, so the registry's runs use them as a symmetry set, except
`discovery`, which checks liveness. In `keep_alive` the ratios of the delays keep
their order (a second, a heartbeat, a keep-alive) and are chosen so that tasks of
different kinds fall due in the same round; six ids are more than can be queued.
`MaxExcess` lets clients send one keep-alive more than the tokens cover. In
`bridges` a second registration call is possible within `MaxCalls`, so
`OneRegistration` is not true by the bound.

The one status text of `bridges` is the one that is looked for, besides the initial one; `connected` gives the
changes there and back. `Refusable` is empty there: nothing that `bridges` checks looks at `platform`. In `bridge_mode` one call may
fail, and `ToldIsCurrent` says of it that the platform keeps what it had. At most one message or call of each kind is in a place at a time: the call that
is waited for is one, and of the others only that there are some matters to the loop.

In `sessions`, two ids let one user have a connection and a session without one, which
is what the purge tells apart, and a second user take over an id; three passwords are as many as
the day allows and more than two seconds do, so that each limit is met without the other.
Clients, ids and passwords are symmetry sets there. Of the devices, one logs in, and the two others have its id or its
role; the access check looks at nothing else of them.

In `customizations`, two apps are what the index needs for one to be done when the other changes; two
writes and a return with the time of the first let a file be updated, come back as it was or as another, and share
its time with the other app. In `values`, 2 and 4 bits have both bounds of both widths within
all the integers that are written, and those that wrap beyond.

**Deadlock** is checked in every run but `discovery`, `instance_zero`, `stale_change` and `dropped_change`, where
the system may really stop: all unique names are spent, no clients ask, and every
item has its last value.

**Fairness.** `FairSpec` of `ServiceRegistry` assumes that the event loop goes on
dispatching (`WF` of `Dispatch`; FlashMQ's loop polls the descriptor) and that the bus answers
each call (`WF` of each `BusAnswer`; libdbus makes a timeout an answer too). `BridgeLoopSpec`
assumes that FlashMQ runs the tasks that are due (`SF` of the registration's task and of the timeout's, which
the dispatching loop keeps waiting), that the dispatching loop goes on (`WF`), and that
libdbus does not overtake a message for ever nor lack memory for ever (`SF` of dispatching the end of the
call). That the call is ever written or answered is not assumed: the timeout ends it. The weaker `Spec` of `BridgeStatus` assumes
directly that tasks run and that a call is answered or times out. `Spec` of `Customizations` assumes that requests
for the list keep coming and are handled. Nothing is assumed of services, of clients otherwise, or of FlashMQ's notices.

**Mutants.** Each property of a passing run has a mutant, an altered definition that stands
before the original in the module ("Mutant of ..."): a missing guard, an
omitted reset, a swapped order. With it, TLC finds the property violated. No
specification uses a mutant.

## 4. Findings

1. *Instance 0.* `State::get_value` maps the answer to a read of an inner object
   with `instance_must_be_known = false`. If the service restarts meanwhile, that answer
   registers it with instance 0, and the answer to `GetItems`, which has the
   instance, comes too late to change it.
2. *Stale change.* `remove_dbus_service` does not drop the service's changes from the queue; the
   next incarnation gets them, over what it has reported itself.
3. *Dropped change.* The loop of `attempt_to_process_delayed_changes` throws on a queued change whose service is
   mapped but whose path is not, after the queue was cleared; that change and all behind it are lost. The answer to a read of an
   inner object that comes after a restart maps a service in such a way.
4. *Mode not written.* `write_all_bridge_connection_states_debounced` is called for a
   change of the portal mode but returns early unless a bridge changed too.

One more disagreement is plain from one handler and has no run. The answer to a read of an item that is not mapped yet is a
plain value, and the parser for inner objects throws on it (`state.cpp:583`): nothing is added. The comment on `handle_read`
(`state.cpp:540`) says "Read a fresh value and make sure item is added". In the model it is a reply of type `Leaf`.

## 5. Proofs

`ServiceRegistryProofs` proves, for every value of the constants that meets
`BusAssumption` and `RegistryAssumption`:

- `TypeCorrect`: `Spec => []TypeOK`;
- `MapsAgree`: `Spec => []RegistryAgreement`: a short name leads to a service
  that is registered with exactly that instance, and items carry the instance of
  their service, so that `BoomString` never throws on a second mapping;
- `QueueOfUnknown`: `Spec => []OnlyUnknownQueued`: between handlers, only
  changes of services without items are queued. So the loop at the head of every
  signal handler finds nothing unmatched, and no exception of it loses a signal.

They follow from one inductive invariant, `Inv == BusTypeOK /\ HandlerInv /\
RegistryInv`. The three cannot be had one by one: registering a service keeps the short
names right only if its items' instances are, erasing one short name in
`remove_dbus_service` erases all of the service's because the maps agree, and the payloads
a queue publishes are values only if each nonempty part of the queue has a last
entry, for which `RegistryInv` has every place below `delayed_count`. That a
nonempty set of numbers has a least one (`LeastNumber`) is proved from the
well-foundedness of inclusion between finite sets.

The proof has a lemma for each operator that a handler is built from
(`AttemptSound`, `MapItemsSound`, `RemoveSound`, `EraseOneValueErases`, ...), stated for any queue, items
and view, then one per action, then `NextInv`. Its first part does the same for the bus.

`InboxProofs` is about what is still under way. It adds `HandlerAssumption`, that no handler is the value
`None` of a serial without one.

- `SendersAreOwners`: `Spec => []IdsFollowOwners`: the name the plugin has for a sender is the one the sender
  owned when what is heard next was sent. A signal is never taken for another service's, however often names were
  released and taken since.
- `NoneAfterDeparture`: `Spec => []RegisteredIsOwned`: no late answer brings back a service that has been seen to go.
- `OuterReadsPublish`: `Spec => []InstanceIsPublished` if no inner object is read and no service exports its
  instance late. Both are needed: without the first, the finding on instance 0 refutes it; without the second, the answer to `GetItems` has no
  instance to tell.

The properties are about what the plugin has read so far, the bus may be far ahead; so the invariant, `OrderInv`, speaks of
every place in the inbox. `OwnerAt(i, s)` is the owner of `s` when the message at place `i` was sent, and will be
what the plugin has seen by then. Each change of owner leads from that of its place to that of the next;
each answer that has an owner or items has those of its place and is the only one with its serial, whose handler waits for that service
(`InboxSound`); so does each call (`CallsSound`). Then a handler has to be looked at for the first
place only, and the daemon for the last. `OuterReadsPublish` adds `PublishedInv`: whatever tells items has the instance among them.

`CacheProofs` is about values, from the service to the cache:

- `QuietCacheFollows`: `QuietSpec => []CacheFollowsService`: with nothing of a service unread, the items the cache has of
  it have the service's values, whatever was queued, asked or answered before and in whatever order, for any number of services and
  restarts;
- `QuietQueueApplied`: `QuietSpec => QueuedChangeApplied`: no change is dropped from the queue but for its age, or with its
  item there to be changed; without the condition of `QuietSpec`, finding 3 refutes it;
- `ImmortalCacheFollows` and `ImmortalQueueApplied`: both of `Spec`, if no service is mortal: while nobody leaves, every step is one of
  `QuietSpec` (`ImmortalIsQuiet`).

Both halves of `LeavesNothing` are needed. A queued change that is left behind is applied to the next incarnation (finding 2). An
open read of an inner object that is left behind may be answered by the next incarnation: its answer maps a few of the service's items, and
a queued change of another one makes `find_matching_active_item` throw, in the middle of a loop over a
queue that has already been cleared (`state.cpp:245`, finding 3). The changes behind it are lost, those of other services too; one of them whose earlier
change was kept gets it written over the newer value that its answer to `GetItems` brings. TLC found this with two services and five
changes and calls in a restricted instance, when the proof failed for a `LeavesNothing` that asked for the queue alone.

The invariant, `FollowInv`, says where the last word on a path is, of the paths that signal their changes. What is in the inbox, in
the queue or in the cache, and is followed by no more news of its path, has the value of the service (`NewsSound`, `QueueSound`,
`CacheSound`). Then a handler has to be looked at only when the first message of the inbox is the last of its news:

- a signal must be known to be of the service; so whoever has items, queued changes or was asked for its items is known by its unique
  name (`HeardSound`), which no other service has or had (`OwnersSound`);
- the queue must drop no last entry and keep earlier ones: entries grow old in the order of their places (`QueueSound`), and no entry
  is without an item when its service is mapped. So an answer to `GetItems` has every path that its incarnation has
  told before (`PathsSound`) and every path that is queued (`QueuePaths`), and inner objects, whose answers have not, are read only of
  services with items (`InnerSound`), the one read being the one that was asked for (`CallsMatch`). It is here that a restart
  has to leave nothing behind, and that the loop never throws.

There is a lemma for each handler and each step of the bus.

The second part of `CacheProofs` is about the topics, from the cache to the clients, for any services, paths and values:

- `NoGhosts`: `Spec => []NoGhostTopic`. `GhostInv` adds that a blocked topic shows nothing, so that the erasure of a topic
  is never the one thing that is blocked;
- `TopicsShowTheCache` and `TopicsLeadBack`: `Spec /\ []ShortNamesApart => []ViewFollowsCache`, and `[]TopicLeadsBack`.
  `ShortNamesApart`, that no two registered services have the same type and instance, is a condition on the whole past:
  the removal of one of two such services erases the topics and the short name of the other as well, and neither
  comes back when the clash is over. The README of the repository says that instances make services of a type unique;
- `OwnInstances`: services that publish instances of their own, and are read as in `OuterReadsPublish`, never break that
  condition, so that both hold without it.

One lemma for each step of a handler (the queue, the mapping, the removal, the answer to a read) says what it does to
items and view, as the handlers compute them one after the other.

`KeepAliveProofs` proves every property of the run `keep_alive`, for any delays, limits, lateness and ids that
meet `TaskAssumption` and `KeepAliveAssumption`:

- `AllInTime` (`Timely`): the queue is sorted, has no id twice, and `next` is no later than its first task (`QueueInv`). That
  `next` may be earlier, as it is after `eraseTask`, is harmless: the loop wakes up for nothing;
- `AliveForItsTime` (`AliveForAMinute`), `HeartbeatIsOne` (`OneHeartbeat`), `BeatsOnTime` (`HeartbeatOnTime`):
  from `OneTask`, stated once for both jobs. At most one task has the job, the one whose id is remembered; it
  waits with as many ticks as the auxiliary clock says are left, or its time has come and it is about to run. A task about to run is no longer in the
  queue but still remembered, which is why no new task gets its id and `flashmq_remove_task` of it would do nothing; no keep-alive
  is handled before it has run;
- `PublishingIsLimited` (`RateLimited`): what was published and the tokens that are left add up to the limit, which is inductive as it stands; and `TypeCorrect`.

That a time has a place in a sorted queue (`UpperBoundSplits`) is proved once and serves both the insertion and
`performAll`. `AddTaskSound`, `EraseTaskSound`, `PerformOne` and `TickSound` say what each operation leaves of a task
that waits.

`LoginSessionsProofs` proves, for every value of the constants that meets `LoginAssumption`:

- `TypeCorrect`: `Spec => []TypeOK`;
- `FailuresArePaid`: `Spec => []FailuresPaid`: the tokens of the day and the
  passwords remembered add up to the limit. So the size check on the history ("protect memory use") never
  drops a password, and a client that repeats its failure is never charged twice in a day.
- `GuessesAreLimited`: `Spec => []GuessRate`: in the last `i` seconds, for every `i`, there were no more new
  failures than the short-term limit and `i - 1`; `GuessInv` adds the tokens that are left to them;
- `TokensOnlyHolds`, `RemovedUsersLeave` and `LanOffHolds`: `TokensOnlyEnforced`,
  `RemovedUserLeaves` and `LanOffEnforced`.

`FailuresPaid` is inductive once the history is known to be finite. The other
three follow from `SessionInv`, which adds what they look up: no two connections share an id
(`OneOwner`), each has its session (`HasSession`), each that is not leaving is in the maps it
belongs to (`AllRemembered`), and no map has an entry without a connection (`NoLeftover`), which
would make `try_emplace` keep the entry of another user. `PrivilegedAsLoggedIn` is part of it. There
is one lemma per action that disturbs it; `LoginRemembered` serves every login that
succeeds, and `SettingPutsOut` both the invariant and `LanOffHolds`.

It also proves `PolicyImplemented`: `Spec => ImplementsPolicy`, that the login checks implement
`LanPolicy`. The initial states and every step are mapped, with a lemma each for logins, settings and removals. That everybody is put out who has to
leave comes from `SessionInv`; that nobody else is needs the converse, `PolicyInv`: an entry of the maps for
the password's clients and for the LAN is that of an open connection of the right kind, and a
connection under the name of a token user is known by it.

Its last section, on `LanAccess`, proves `AccessHolds`, `DevicesStayApart` and `BridgeStaysOut`, for any topics and devices that
meet `LanAccessAssumption`. The first two take from `SessionInv` that the session found for an id and a user is the one of
the connection that asks; `AccessInv` is what they share. The third is about the decision alone.

`BridgeLoopProofs` proves of the bridges alone `TypeCorrect`, `OneAtATime` (`OneRegistration`) and `LatestIsWritten`
(`WrittenIsLatest`), from `RegisterInv`: `register_pending_id` is set exactly while one task or one call is
under way. Of the bridges in the event loop it proves:

- `StaysAwake`: `BridgeLoopSpec => []LoopAwake`, for any limit at which libdbus stops reading. `LoopInv` adds that
  the polled events are those of the enabled watches and that libdbus's last status is that of its queue;
- `StepsOfStatus`: every step is one of `BridgeStatus` or leaves the bridges alone, so that what is proved of
  `BridgeStatus` holds in the loop;
- `EndedLeavesNothing`: `CallInv`, that anything of a registration's call is left only while its end is waited for; so
  a late answer never ends the next registration.

`CustomizationsProofs` proves `TypeCorrect`, `IndexGoesWithKey` (`ListedIsCurrent`) and `ChunksGoWithHash`
(`ChunkAsListed`), for any finite set of apps, any blobs and any number of writes and returns. Its invariant says of an index in the making what
it will say of the finished one, for the apps that have been come to (`IndexInv`); of the finished one,
that an app that has not come back and whose time is in the key is indexed as it is (`KeyInv`); and that with no change
since the request began the key is that of all files (`QuietInv`). No two files need differ in their times. The first two rest on
`TimesInv`: no time in a key is later than the last write, so a file with such a time is either as it was when the key was made, or has
come back. The last rests on `KeyGrows`: the file that is added takes its time out of the key if it was in it, which is what parity does
(`OddTimesFlip`). `FilesStep` serves writes, returns and removals alike.

`ItemTextProofs` proves, for any variants and any text of them:

- `TextFollowsItem`: `TextSpec => []TextIsCurrent`. A text is made of the parts that the item has after the step, or there is none;
- `PartsStay`: `TextSpec => NothingForgotten`: a limit that was told is not lost when a signal tells the value alone. The run `values` does not check it
  by itself; it follows from `ImplementsText`, which the run does check.

`TextNext` has the item told all the parts that it has afterwards. That this covers signals of some parts is `AnyTold`: to be told
a few is to be told the merged ones.

Only model-checked:

- `RoundTrip` and `UniformArrays` of `ItemValues`, whose conversions are recursive operators: what they compute for every value is an
  induction over data, which the provers do not do; and `ImplementsText`, which is about a module with such operators;
- liveness: `Discovered`, `RegistrationEnds` and `CatchesUp` are out of the prover's reach.

## 6. Not modelled, and the plan

In this order:

1. An abstract specification of what a subscriber is promised (a view that follows an
   installation while it is alive) which `ServiceRegistry` implements, and one of "alive" as a window of time which
   `KeepAlive` implements.
2. The write of 'deactivated' when the plugin stops; the interest of VRM as a clock.

Not planned:

- network masks, RAII guards, string, hash and base64 helpers: pure functions that examples test well. What they decide
  is in the modules that use them, as the kind of a client or the hash of a file;
- the removal of watches and what happens when FlashMQ refuses a descriptor or a task: libdbus ends the
  process with its connection, and nothing is done after such a refusal;
- a dict with keys that are no strings within `publish_all`, and a timeout that libdbus asks for again: hazards
  with a note in `PROJECT.json`;
- FlashMQ and libdbus themselves, the test harness, vendored code.
