--------------------------- MODULE ServiceRegistry ---------------------------
(***************************************************************************)
(* What the plugin knows of the services on the D-Bus and what it          *)
(* publishes of them (class State in src/src/state.cpp, Item in            *)
(* src/src/types.cpp, the message handlers in src/src/dbus_functions.cpp). *)
(*                                                                         *)
(* FlashMQ runs the plugin in one thread: every handler below is one       *)
(* atomic step, and concurrency is the order in which messages, replies    *)
(* and MQTT requests reach it.  A topic N/<vrm id>/<type>/<instance>/<path>*)
(* is the triple <<type, instance, path>>.                                 *)
(***************************************************************************)
EXTENDS SystemBus, FiniteSets

CONSTANTS
    Types,           \* service types, like solarcharger
    ServiceType,     \* [Services -> Types]
    Instances,       \* instance numbers as they occur in topics
    DeviceInstance,  \* [Services -> Instances], what the service publishes
    InstancePath,    \* the path /DeviceInstance
    NoInstance,      \* instance 0
    RetainedTopics,  \* <<type, path>> pairs that are published as retained
    BlockedTopics,   \* <<type, path>> pairs that are never published
    ReadPaths,       \* paths that clients ask for in R/ topics
    WritePaths,      \* paths that clients write in W/ topics
    KeepAlives,      \* the keep-alives clients send: with publish_all (TRUE) or not
    Null, Unseen,    \* an empty payload; nothing published yet
    MaxReads,        \* bound: read and write requests in progress at a time
    MaxQueued        \* bound: changes queued before the queue empties

ASSUME RegistryAssumption ==
    /\ ServiceType \in [Services -> Types]
    /\ DeviceInstance \in [Services -> Instances]
    /\ NoInstance \in Instances
    /\ InstancePath \in Paths
    /\ ReadPaths \subseteq CallPaths /\ WritePaths \subseteq Paths
    /\ KeepAlives \subseteq BOOLEAN
    /\ Null \notin Values /\ Unseen \notin Values /\ Null # Unseen
    /\ None \notin Instances
    /\ Absent \notin [value : Values, instance : Instances]
    /\ MaxReads \in Nat /\ MaxQueued \in Nat

\* Scans start with an announcement or from the first list of names, and each
\* has one call open at a time: with this many serials none ever has to wait.
ASSUME EnoughSerials ==
    Cardinality(Serials) >= Cardinality(Owners) + Cardinality(Services) + MaxReads

VARIABLES
    service_id_to_names,                    \* [Owners -> Services \cup {None}]
    service_names_to_instance,              \* [Services -> Instances \cup {None}]
    service_type_and_instance_to_full_service,
                                            \* [ShortNames -> Services \cup {None}]
    dbus_service_items,                     \* [Services -> [Paths -> Item or Absent]]
    delayed_changed_values,                 \* queued changes, each with its place
    delayed_count,                          \* places given out since it was empty
    async_handlers,                         \* [Serials -> Handler \cup {None}]
    alive,                                  \* somebody sent a keep-alive
    mqtt,                                   \* the last payload of each topic
    republished                             \* auxiliary: alive, and all items were
                                            \* published since it became so

registryVars == <<service_id_to_names, service_names_to_instance,
                  service_type_and_instance_to_full_service, dbus_service_items,
                  delayed_changed_values, delayed_count, async_handlers,
                  alive, mqtt, republished>>

vars == <<busVars, registryVars>>

ShortNames == Types \X Instances
Topics     == Types \X Instances \X Paths

\* An item of a registered service.  Its topic is fixed by the instance it was
\* mapped with.
Item == [value : Values, instance : Instances]

Queued == [at : Nat, service : Services, path : Paths, value : Values, old : BOOLEAN]

Handler ==
         [kind : {"list_names"}, service : {None}, path : {Root}, force : {FALSE}]
    \cup [kind : {"get_name_owner", "get_items"}, service : Services, path : {Root},
          force : {FALSE}]
    \cup [kind : {"get_value"}, service : Services, path : CallPaths, force : BOOLEAN]
    \cup [kind : {"read_item", "set_value"}, service : Services, path : Paths,
          force : {FALSE}]

ASSUME HandlerAssumption == None \notin Handler

TypeOK ==
    /\ BusTypeOK
    /\ service_id_to_names \in [Owners -> Services \cup {None}]
    /\ service_names_to_instance \in [Services -> Instances \cup {None}]
    /\ service_type_and_instance_to_full_service \in [ShortNames -> Services \cup {None}]
    /\ dbus_service_items \in [Services -> [Paths -> Item \cup {Absent}]]
    /\ delayed_changed_values \subseteq Queued
    /\ delayed_count \in Nat
    /\ async_handlers \in [Serials -> Handler \cup {None}]
    /\ alive \in BOOLEAN
    /\ mqtt \in [Topics -> Values \cup {Null, Unseen}]
    /\ republished \in BOOLEAN

----------------------------------------------------------------------------
(* Items and their topics. *)

\* dbus_service_items.find(s) finds something.
Mapped(items, s) == \E p \in Paths : items[s][p] # Absent

\* Mutant of ShortName: services are told apart by type alone.
TypeOnly(s, i) == <<ServiceType[s], NoInstance>>

ShortName(s, i) == <<ServiceType[s], i>>

Topic(items, s, p) == <<ServiceType[s], items[s][p].instance, p>>

Retained(t) == <<t[1], t[3]>> \in RetainedTopics
Blocked(t)  == <<t[1], t[3]>> \in BlockedTopics

\* Item::publish for every topic in the domain of payloads.
Publish(view, payloads) ==
    [t \in Topics |->
        IF t \in DOMAIN payloads /\ ~Blocked(t) /\ ~(Retained(t) /\ payloads[t] = Null)
        THEN payloads[t] ELSE view[t]]

----------------------------------------------------------------------------
(* attempt_to_process_delayed_changes.  The queue is a vector in the code; *)
(* here each entry carries its place in it.                                *)

\* Entries that find_matching_active_item throws on.
Unmatched(queue, items) ==
    {e \in queue : /\ ~e.old
                   /\ Mapped(items, e.service)
                   /\ items[e.service][e.path] = Absent}

\* Entries the loop gets to: it ends at the first one that throws.
Reached(queue, items) ==
    {e \in queue : ~e.old /\ \A u \in Unmatched(queue, items) : e.at < u.at}

\* Mutant of Kept: applied entries pushed back as well.
KeepsApplied(queue, items) == Reached(queue, items)

\* Entries pushed back, because their service is still unknown.
Kept(queue, items) == {e \in Reached(queue, items) : ~Mapped(items, e.service)}

Applied(queue, items) == {e \in Reached(queue, items) : Mapped(items, e.service)}

\* Mutant of LastOf: the queue is worked off from its end.
FirstOf(entries) == {e \in entries : \A f \in entries : e.at <= f.at}

\* The entry of a set that comes last in the queue; none of the empty set.
LastOf(entries) == {e \in entries : \A f \in entries : f.at <= e.at}

\* Item::set_value with every applied entry in turn.
ItemsAfter(queue, items) ==
    [s \in Services |-> [p \in Paths |->
        LET last == LastOf({e \in Applied(queue, items) : e.service = s /\ e.path = p})
        IN  IF last = {} \/ items[s][p] = Absent THEN items[s][p]
            ELSE [items[s][p] EXCEPT !.value = (CHOOSE e \in last : TRUE).value]]]

\* What applying them publishes, if anybody listens.
Sent(queue, items) ==
    [t \in {Topic(items, e.service, e.path) : e \in Applied(queue, items)} |->
        (CHOOSE e \in LastOf({f \in Applied(queue, items) :
                                 Topic(items, f.service, f.path) = t}) : TRUE).value]

\* The queue, the items and the view of the topics that the function leaves.
attempt_to_process_delayed_changes(queue, items, view) ==
    [queue |-> Kept(queue, items),
     items |-> ItemsAfter(queue, items),
     view  |-> IF alive THEN Publish(view, Sent(queue, items)) ELSE view]

\* Every signal handler begins with it.
Attempted == attempt_to_process_delayed_changes(delayed_changed_values,
                                                dbus_service_items, mqtt)

CountAfter(queue, count) == IF queue = {} THEN 0 ELSE count

Become(result) ==
    /\ delayed_changed_values' = result.queue
    /\ delayed_count' = CountAfter(result.queue, delayed_count)
    /\ dbus_service_items' = result.items
    /\ mqtt' = result.view

----------------------------------------------------------------------------
(* Calls.  call_method sends, the caller stores the handler of the reply.  *)

FreeSerials == {n \in Serials : async_handlers[n] = None}

NextSerial(n) == n \in FreeSerials /\ \A m \in FreeSerials : n <= m

Sending(method, s, p, v) == [method |-> method, service |-> s, path |-> p, value |-> v]

Handling(kind, s, p, force) == [kind |-> kind, service |-> s, path |-> p, force |-> force]

call_method(n, call, handler) ==
    /\ calls' = [calls EXCEPT ![n] = call]
    /\ async_handlers' = [async_handlers EXCEPT ![n] = handler]

\* scan_dbus_service: who owns the name?
NameOwnerCall(s)    == Sending("GetNameOwner", s, Root, FirstValue)
NameOwnerHandler(s) == Handling("get_name_owner", s, Root, FALSE)

scan_dbus_service(s) ==
    \E n \in Serials : NextSerial(n) /\ call_method(n, NameOwnerCall(s), NameOwnerHandler(s))

----------------------------------------------------------------------------
(* add_dbus_to_mqtt_mapping *)

\* get_instance_from_items: 0 when /DeviceInstance is not among the items.
get_instance_from_items(s, items) ==
    IF items[InstancePath] # Absent THEN DeviceInstance[s] ELSE NoInstance

\* Mutant of InstanceOf: the instance is looked up before it is stored.
InstanceNotStored(s, items) == service_names_to_instance[s]

\* store_and_get_instance_from_service: a known instance is never replaced.
InstanceOf(s, items) ==
    IF service_names_to_instance[s] # None THEN service_names_to_instance[s]
    ELSE get_instance_from_items(s, items)

\* Items from a signal of a service that is not known yet wait for it.
QueueChange(now, s, p, v) ==
    LET place == CountAfter(now.queue, delayed_count)
    IN  /\ delayed_changed_values' = now.queue \cup
             {[at |-> place, service |-> s, path |-> p, value |-> v, old |-> FALSE]}
        /\ delayed_count' = place + 1
        /\ dbus_service_items' = now.items
        /\ mqtt' = now.view
        /\ UNCHANGED <<service_names_to_instance, service_type_and_instance_to_full_service>>

\* dbus_service_items with the new ones put in: their topic comes from the instance.
WithItems(all, s, i, items) ==
    [all EXCEPT ![s] = [p \in Paths |-> IF items[p] = Absent THEN all[s][p]
                                        ELSE [value |-> items[p], instance |-> i]]]

\* Mutant of MappingPublishes: only what is retained or asked for.
PublishesNoChange(s, i, items, force) ==
    [t \in {<<ServiceType[s], i, p>> : p \in {q \in Paths : force /\ items[q] # Absent}} |->
        items[t[3]]]

\* What mapping the items publishes.
MappingPublishes(s, i, items, force) ==
    LET topics == {<<ServiceType[s], i, p>> : p \in {q \in Paths : items[q] # Absent}}
    IN  [t \in {u \in topics : alive \/ Retained(u) \/ force} |-> items[t[3]]]

\* add_dbus_to_mqtt_mapping of a service that is known, or need not be.
MapItems(now, s, items, force) ==
    LET i == InstanceOf(s, items)
    IN  /\ service_names_to_instance' = [service_names_to_instance EXCEPT ![s] = i]
        /\ service_type_and_instance_to_full_service' =
             [service_type_and_instance_to_full_service EXCEPT ![ShortName(s, i)] = s]
        /\ Become(attempt_to_process_delayed_changes(
                      now.queue,
                      WithItems(now.items, s, i, items),
                      Publish(now.view, MappingPublishes(s, i, items, force))))

OnlyItem(p, v) == [q \in Paths |-> IF q = p THEN v ELSE Absent]

\* Mutant of MapChange: a signal registers its service.
MapsAnyChange(now, s, p, v) == MapItems(now, s, OnlyItem(p, v), FALSE)

\* add_dbus_to_mqtt_mapping of the item of a signal (instance_must_be_known).
MapChange(now, s, p, v) ==
    IF Mapped(now.items, s) THEN MapItems(now, s, OnlyItem(p, v), FALSE)
                            ELSE QueueChange(now, s, p, v)

----------------------------------------------------------------------------
(* remove_dbus_service *)

\* Mutant of NullPayloads: topics are not cleared.
ClearsNothing(items, s) == [t \in {} |-> Null]

\* Every topic of the service gets an empty payload.
NullPayloads(items, s) ==
    [t \in {Topic(items, s, p) : p \in {q \in Paths : items[s][q] # Absent}} |-> Null]

\* Its items go, and their topics with them.
WithoutItems(now, s) ==
    [queue |-> now.queue,
     items |-> [now.items EXCEPT ![s] = [p \in Paths |-> Absent]],
     view  |-> Publish(now.view, NullPayloads(now.items, s))]

\* Mutant of EraseOneValue: the search by value is left out.
ErasesNothing(map, s) == {map}

\* The loops over a map's values erase one entry that holds s, and stop.
EraseOneValue(map, s) ==
    LET keys == {k \in DOMAIN map : map[k] = s}
    IN  IF keys = {} THEN {map} ELSE {[map EXCEPT ![k] = None] : k \in keys}

remove_id_to_owner(oldowner) == [service_id_to_names EXCEPT ![oldowner] = None]

\* Mutants of remove_dbus_service: the owner, or the instance, is not forgotten.
RemoveKeepsId(now, s, oldowner) ==
    /\ Become(WithoutItems(now, s))
    /\ service_names_to_instance' = [service_names_to_instance EXCEPT ![s] = None]
    /\ service_type_and_instance_to_full_service' \in
         EraseOneValue(service_type_and_instance_to_full_service, s)
    /\ UNCHANGED service_id_to_names

RemoveKeepsInstance(now, s, oldowner) ==
    /\ Become(WithoutItems(now, s))
    /\ service_id_to_names' \in EraseOneValue(remove_id_to_owner(oldowner), s)
    /\ UNCHANGED <<service_names_to_instance, service_type_and_instance_to_full_service>>

remove_dbus_service(now, s, oldowner) ==
    /\ Become(WithoutItems(now, s))
    /\ service_names_to_instance' = [service_names_to_instance EXCEPT ![s] = None]
    /\ service_type_and_instance_to_full_service' \in
         EraseOneValue(service_type_and_instance_to_full_service, s)
    /\ service_id_to_names' \in EraseOneValue(remove_id_to_owner(oldowner), s)

----------------------------------------------------------------------------
(* dbus_handle_message: one action per kind of signal.  Each takes the     *)
(* first message of the connection.                                        *)

Receive(type) ==
    /\ inbox # <<>>
    /\ Head(inbox).type = type
    /\ inbox' = Tail(inbox)

\* Attempted comes first in each.  An exception out of it would lose the signal;
\* OnlyUnknownQueued, below, is why there is none.
ServiceAppeared ==
    /\ Receive("NameOwnerChanged")
    /\ Head(inbox).new # None
    /\ Become(Attempted)
    /\ service_id_to_names' = [service_id_to_names EXCEPT ![Head(inbox).new] = Head(inbox).name]
    /\ scan_dbus_service(Head(inbox).name)
    /\ UNCHANGED <<owner, spent, exported, value, orphaned,
                   service_names_to_instance, service_type_and_instance_to_full_service,
                   alive, republished>>

ServiceDisappeared ==
    /\ Receive("NameOwnerChanged")
    /\ Head(inbox).new = None
    /\ Head(inbox).old # None
    /\ remove_dbus_service(Attempted, Head(inbox).name, Head(inbox).old)
    /\ UNCHANGED <<owner, spent, exported, value, calls, orphaned, async_handlers,
                   alive, republished>>

\* ItemsChanged and PropertiesChanged, of a sender get_named_owner can name.
ItemsChanged ==
    /\ Receive("ItemsChanged")
    /\ LET m == Head(inbox)
           s == service_id_to_names[m.sender]
       IN  IF s = None
           THEN /\ Become(Attempted)
                /\ UNCHANGED <<service_names_to_instance,
                               service_type_and_instance_to_full_service>>
           ELSE MapChange(Attempted, s, m.path, m.value)
    /\ UNCHANGED <<owner, spent, exported, value, calls, orphaned,
                   service_id_to_names, async_handlers, alive, republished>>

----------------------------------------------------------------------------
(* dbus_pending_call_notify: the reply's handler is erased, then run.      *)

Closed(n) == [async_handlers EXCEPT ![n] = None]

\* A reply for a handler of the given kind.
ReplyTo(kind, types) ==
    /\ inbox # <<>>
    /\ Head(inbox).type \in types
    /\ async_handlers[Head(inbox).serial] # None
    /\ async_handlers[Head(inbox).serial].kind = kind
    /\ inbox' = Tail(inbox)

TheSerial  == Head(inbox).serial
TheHandler == async_handlers[TheSerial]

Registry == <<service_names_to_instance, service_type_and_instance_to_full_service,
              dbus_service_items, delayed_changed_values, delayed_count, mqtt>>

\* scan_all_dbus_services: scan every Victron service on the bus.
ListNamesReply ==
    /\ ReplyTo("list_names", {"Names"})
    /\ LET names == Head(inbox).names
           free  == FreeSerials \cup {TheSerial}
       IN  \E slot \in [names -> free] :
             LET used == {slot[s] : s \in names}
                 For(n) == CHOOSE s \in names : slot[s] = n
             IN  /\ \A s, t \in names : s # t => slot[s] # slot[t]
                 /\ \A n \in used, m \in free \ used : n < m
                 /\ calls' = [n \in Serials |-> IF n \in used THEN NameOwnerCall(For(n))
                                                ELSE calls[n]]
                 /\ async_handlers' =
                      [n \in Serials |-> IF n \in used THEN NameOwnerHandler(For(n))
                                         ELSE Closed(TheSerial)[n]]
    /\ UNCHANGED <<owner, spent, exported, value, orphaned, service_id_to_names,
                   Registry, alive, republished>>

\* Some handlers send the next call.  It takes the serial that is free now.
CallNext(call, handler) ==
    \E n \in Serials :
        /\ n \in FreeSerials \cup {TheSerial}
        /\ \A m \in FreeSerials \cup {TheSerial} : n <= m
        /\ calls' = [calls EXCEPT ![n] = call]
        /\ async_handlers' = [Closed(TheSerial) EXCEPT ![n] = handler]

NameOwnerReply ==
    /\ ReplyTo("get_name_owner", {"Owner"})
    /\ service_id_to_names' =
         [service_id_to_names EXCEPT ![Head(inbox).owner] = TheHandler.service]
    /\ CallNext(Sending("GetItems", TheHandler.service, Root, FirstValue),
                Handling("get_items", TheHandler.service, Root, FALSE))
    /\ UNCHANGED <<owner, spent, exported, value, orphaned, Registry, alive, republished>>

\* Mutant of GetItemsUnknownMethod: the error is only logged.
GetItemsGivesUp ==
    /\ ReplyTo("get_items", {"Error"})
    /\ Head(inbox).name = "UnknownMethod"
    /\ async_handlers' = Closed(TheSerial)
    /\ UNCHANGED <<owner, spent, exported, value, calls, orphaned, service_id_to_names,
                   Registry, alive, republished>>

\* A service without GetItems is read with GetValue on / instead.
GetItemsUnknownMethod ==
    /\ ReplyTo("get_items", {"Error"})
    /\ Head(inbox).name = "UnknownMethod"
    /\ CallNext(Sending("GetValue", TheHandler.service, Root, FirstValue),
                Handling("get_value", TheHandler.service, Root, FALSE))
    /\ UNCHANGED <<owner, spent, exported, value, orphaned, service_id_to_names,
                   Registry, alive, republished>>

\* The items of get_items_handler, and of get_value_handler.
ItemsReplied ==
    /\ \E kind \in {"get_items", "get_value"} : ReplyTo(kind, {"Items"})
    /\ async_handlers' = Closed(TheSerial)
    /\ MapItems([queue |-> delayed_changed_values, items |-> dbus_service_items, view |-> mqtt],
                TheHandler.service, Head(inbox).items, TheHandler.force)
    /\ UNCHANGED <<owner, spent, exported, value, calls, orphaned, service_id_to_names,
                   alive, republished>>

\* get_value_handler of handle_read: the answer for an item that is mapped.
\* It throws when the item is gone.
ReadReply ==
    /\ ReplyTo("read_item", {"Leaf"})
    /\ async_handlers' = Closed(TheSerial)
    /\ LET s == TheHandler.service
           p == TheHandler.path
           v == Head(inbox).value
       IN  IF dbus_service_items[s][p] = Absent
           THEN UNCHANGED <<dbus_service_items, mqtt>>
           ELSE /\ dbus_service_items' = [dbus_service_items EXCEPT ![s][p].value = v]
                /\ mqtt' = Publish(mqtt, [t \in {Topic(dbus_service_items, s, p)} |-> v])
    /\ UNCHANGED <<owner, spent, exported, value, calls, orphaned, service_id_to_names,
                   service_names_to_instance, service_type_and_instance_to_full_service,
                   delayed_changed_values, delayed_count, alive, republished>>

\* The replies a handler does nothing with: an error it logs, the answer to a
\* write, a value that is no array in get_from_get_value_on_root (it throws).
ReplyWithoutEffect ==
    /\ \/ \E kind \in {"get_name_owner", "get_value", "read_item", "set_value"} :
            ReplyTo(kind, {"Error"})
       \/ ReplyTo("get_items", {"Error"}) /\ Head(inbox).name # "UnknownMethod"
       \/ ReplyTo("get_value", {"Leaf"})
       \/ ReplyTo("set_value", {"Done"})
    /\ async_handlers' = Closed(TheSerial)
    /\ UNCHANGED <<owner, spent, exported, value, calls, orphaned, service_id_to_names,
                   Registry, alive, republished>>

----------------------------------------------------------------------------
(* What MQTT clients ask for.                                              *)

\* Whether find_item_by_mqtt_path finds the service of a topic, and its items.
FoundService(t) == service_type_and_instance_to_full_service[<<t[1], t[2]>>]

Finds(t) == FoundService(t) # None /\ Mapped(dbus_service_items, FoundService(t))

\* A request of a client that waits for its reply.
Asking(n) ==
    /\ async_handlers[n] # None
    /\ async_handlers[n].kind \in {"read_item", "set_value"} \/ async_handlers[n].force

RoomToAsk == Cardinality({n \in Serials : Asking(n)}) < MaxReads

Ask(call, handler) ==
    /\ RoomToAsk
    /\ \E n \in Serials : NextSerial(n) /\ call_method(n, call, handler)
    /\ UNCHANGED <<owner, spent, exported, value, orphaned, inbox, service_id_to_names,
                   Registry, alive, republished>>

\* R/...: a mapped item is read, and any other path of the service is.
handle_read(type, i, p) ==
    LET t == <<type, i, p>>
        s == FoundService(t)
    IN  /\ Finds(t)
        /\ IF p \in Paths /\ dbus_service_items[s][p] # Absent
           THEN Ask(Sending("GetValue", s, p, FirstValue), Handling("read_item", s, p, FALSE))
           ELSE Ask(Sending("GetValue", s, p, FirstValue), Handling("get_value", s, p, TRUE))

\* W/...: only a mapped item can be written.
write_to_dbus(t, v) ==
    LET s == FoundService(t)
    IN  /\ Finds(t)
        /\ dbus_service_items[s][t[3]] # Absent
        /\ Ask(Sending("SetValue", s, t[3], v), Handling("set_value", s, t[3], FALSE))

\* The payloads of publish_all.  Two items on one topic would be published in
\* the order of the map, which nothing fixes.
AllPayloads ==
    LET mapped == {x \in Services \X Paths : dbus_service_items[x[1]][x[2]] # Absent}
    IN  [t \in {Topic(dbus_service_items, x[1], x[2]) : x \in mapped} |->
           LET x == CHOOSE y \in mapped : Topic(dbus_service_items, y[1], y[2]) = t
           IN  dbus_service_items[x[1]][x[2]].value]

\* handle_keepalive, with publish_all unless that is suppressed or rate limited.
handle_keepalive(publish_all) ==
    /\ alive' = TRUE
    /\ mqtt' = IF publish_all THEN Publish(mqtt, AllPayloads) ELSE mqtt
    /\ republished' = (publish_all \/ republished)
    /\ UNCHANGED <<busVars, service_id_to_names, service_names_to_instance,
                   service_type_and_instance_to_full_service, dbus_service_items,
                   delayed_changed_values, delayed_count, async_handlers>>

\* No keep-alive for a minute.
unset_keepalive ==
    /\ alive
    /\ alive' = FALSE
    /\ republished' = FALSE
    /\ UNCHANGED <<busVars, service_id_to_names, async_handlers, Registry>>

\* Thirty seconds pass for the changes queued before the given place.
Age(place) ==
    /\ \E e \in delayed_changed_values : e.at < place /\ ~e.old
    /\ delayed_changed_values' =
         {[e EXCEPT !.old = @ \/ e.at < place] : e \in delayed_changed_values}
    /\ UNCHANGED <<busVars, service_id_to_names, service_names_to_instance,
                   service_type_and_instance_to_full_service, dbus_service_items,
                   delayed_count, async_handlers, alive, mqtt, republished>>

----------------------------------------------------------------------------

\* The plugin has connected and asked for the names on the bus.
Init ==
    /\ BusInit
    /\ \E n \in Serials :
         /\ \A m \in Serials : n <= m
         /\ calls = [m \in Serials |->
                       IF m = n THEN Sending("ListNames", None, Root, FirstValue) ELSE None]
         /\ async_handlers = [m \in Serials |->
                       IF m = n THEN Handling("list_names", None, Root, FALSE) ELSE None]
    /\ service_id_to_names = [o \in Owners |-> None]
    /\ service_names_to_instance = [s \in Services |-> None]
    /\ service_type_and_instance_to_full_service = [k \in ShortNames |-> None]
    /\ dbus_service_items = [s \in Services |-> [p \in Paths |-> Absent]]
    /\ delayed_changed_values = {} /\ delayed_count = 0
    /\ alive = FALSE /\ republished = FALSE
    /\ mqtt = [t \in Topics |-> Unseen]

\* The bus moves on its own.  MaxQueued bounds the changes a queue can take.
Bus ==
    /\ \/ \E s \in Services, o \in Owners : Appear(s, o)
       \/ \E s \in Services : Vanish(s)
       \/ /\ delayed_count + Len(inbox) < MaxQueued
          /\ \E s \in Services, p \in Paths, v \in Values : Change(s, p, v)
       \/ \E s \in Services, p \in Paths : AddPath(s, p)
       \/ \E n \in Serials : BusAnswer(n)
    /\ UNCHANGED registryVars

\* The event loop dispatches the next message of the connection.
Dispatch ==
    \/ ServiceAppeared
    \/ ServiceDisappeared
    \/ ItemsChanged
    \/ ListNamesReply
    \/ NameOwnerReply
    \/ GetItemsUnknownMethod
    \/ ItemsReplied
    \/ ReadReply
    \/ ReplyWithoutEffect

Clients ==
    \/ \E type \in Types, i \in Instances, p \in ReadPaths : handle_read(type, i, p)
    \/ \E t \in Topics, v \in Values : t[3] \in WritePaths /\ write_to_dbus(t, v)
    \/ \E publish_all \in KeepAlives : handle_keepalive(publish_all)

Clock ==
    \/ unset_keepalive
    \/ \E place \in 1 .. delayed_count : Age(place)

Next == Bus \/ Dispatch \/ Clients \/ Clock

Spec == Init /\ [][Next]_vars

\* Behaviours in which no incarnation leaves anything behind for the next one:
\* when the plugin hears that a service has gone, no change of it is queued and
\* no read of its inner object is open.
LeavesNothing(s) ==
    /\ \A e \in delayed_changed_values : e.service # s
    /\ \A n \in Serials : async_handlers[n] # None /\ async_handlers[n].path = SubtreeRoot
                           => async_handlers[n].service # s

QuietDispatch ==
    /\ Dispatch
    /\ Head(inbox).type = "NameOwnerChanged" /\ Head(inbox).new = None
          => LeavesNothing(Head(inbox).name)

QuietSpec == Init /\ [][Bus \/ QuietDispatch \/ Clients \/ Clock]_vars

----------------------------------------------------------------------------
(* Properties *)

\* The two maps by which a topic is made and found again agree: a short name
\* leads to a service registered with exactly that instance, and every item
\* carries the instance its service is registered with.  So erasing one short
\* name in remove_dbus_service erases all of them, and mapping an item again
\* never changes its topic (BoomString would throw).
RegistryAgreement ==
    /\ \A k \in ShortNames :
         LET s == service_type_and_instance_to_full_service[k]
         IN  s # None => /\ service_names_to_instance[s] # None
                         /\ k = ShortName(s, service_names_to_instance[s])
    /\ \A s \in Services, p \in Paths :
         dbus_service_items[s][p] # Absent
            => dbus_service_items[s][p].instance = service_names_to_instance[s]

\* find_item_by_mqtt_path of a topic that an item publishes on finds that item,
\* as long as no two services of a type have the same instance: a write or a
\* read of a topic reaches the service whose value is shown there.
TopicLeadsBack ==
    \A s \in Services, p \in Paths :
        /\ dbus_service_items[s][p] # Absent
        /\ \A t \in Services \ {s} :
              service_names_to_instance[t] # None =>
                 ShortName(t, service_names_to_instance[t])
                    # ShortName(s, service_names_to_instance[s])
        => FoundService(Topic(dbus_service_items, s, p)) = s

\* Only changes of services without items wait in the queue, between handlers.
\* So the call every signal begins with never finds an unmatched change, and
\* no signal is lost to its exception (dbus_handle_message).
OnlyUnknownQueued ==
    \A e \in delayed_changed_values : ~Mapped(dbus_service_items, e.service)

\* The owner of s at the point the plugin has got to in its inbox.
Changes(s) == {i \in DOMAIN inbox : inbox[i].type = "NameOwnerChanged" /\ inbox[i].name = s}

SeenOwner(s) ==
    IF Changes(s) = {} THEN owner[s]
    ELSE inbox[CHOOSE i \in Changes(s) : \A j \in Changes(s) : i <= j].old

\* The map from senders to services never names an incarnation that is gone,
\* as far as the plugin can know: a signal is attributed to the service that
\* sent it, and one entry per service is all remove_dbus_service has to erase.
IdsFollowOwners ==
    \A o \in Owners : service_id_to_names[o] # None
                          => o = SeenOwner(service_id_to_names[o])

\* What is registered is on the bus: a reply that arrives late never brings
\* back a service the plugin has seen disappear.
RegisteredIsOwned ==
    \A s \in Services : \/ Mapped(dbus_service_items, s)
                         \/ service_names_to_instance[s] # None
                        => SeenOwner(s) # None

\* A topic that shows a value, and is not retained, is the topic of an item
\* that is mapped: every device that disappears takes its topics along.
NoGhostTopic ==
    \A t \in Topics :
        mqtt[t] \in Values /\ ~Retained(t)
           => \E s \in Services, p \in Paths :
                 dbus_service_items[s][p] # Absent /\ Topic(dbus_service_items, s, p) = t

\* Once all items have been published to a living installation, every topic
\* shows the value in the cache until the keep-alive runs out.
ViewFollowsCache ==
    republished => \A s \in Services, p \in Paths :
        LET t == Topic(dbus_service_items, s, p)
        IN  dbus_service_items[s][p] # Absent /\ ~Blocked(t)
               => mqtt[t] = dbus_service_items[s][p].value

\* Nothing the plugin has not read yet concerns s.
Settled(s) ==
    \A i \in DOMAIN inbox :
        /\ inbox[i].type = "NameOwnerChanged" => inbox[i].name # s
        /\ inbox[i].type = "ItemsChanged" => inbox[i].sender # owner[s]
        /\ inbox[i].type \notin {"NameOwnerChanged", "ItemsChanged"}
              => async_handlers[inbox[i].serial].service # s

\* No change is lost and none is applied out of order: with nothing unread,
\* the cache holds the value the service has.
CacheFollowsService ==
    \A s \in Services, p \in Paths \ Silent :
        Settled(s) /\ owner[s] # None /\ dbus_service_items[s][p] # Absent
           => dbus_service_items[s][p].value = value[s][p]

\* The instance in the topics is the one the service publishes.
InstanceIsPublished ==
    \A s \in Services : service_names_to_instance[s] \in {None, DeviceInstance[s]}

\* A queued change leaves the queue when its item is there to be changed, or
\* because it is older than thirty seconds: no change of a service that is not
\* fully known yet is lost.
QueuedChangeApplied ==
    [][\A e \in delayed_changed_values :
          \/ e.old
          \/ e \in delayed_changed_values'
          \/ [e EXCEPT !.old = TRUE] \in delayed_changed_values'
          \/ dbus_service_items'[e.service][e.path] # Absent]_vars

\* The event loop dispatches what arrives, and the bus answers every call.
FairSpec ==
    /\ Spec
    /\ WF_vars(Dispatch)
    /\ \A n \in Serials : WF_vars(BusAnswer(n) /\ UNCHANGED registryVars)

\* A service that stays on the bus is found and stays registered.
Discovered ==
    \A s \in Services : <>[](owner[s] # None) => <>[]Mapped(dbus_service_items, s)

=============================================================================
