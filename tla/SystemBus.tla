------------------------------ MODULE SystemBus ------------------------------
(***************************************************************************)
(* The D-Bus system bus as the plugin sees it: the Victron services, the   *)
(* message bus daemon that names them, and the one connection on which     *)
(* everything the plugin hears arrives in order.  None of this is code of  *)
(* the repository; it is modelled from how src/src/state.cpp and           *)
(* src/src/dbus_functions.cpp use it.                                      *)
(*                                                                         *)
(* A service is its well-known name (com.victronenergy.solarcharger.x).    *)
(* Each incarnation of it speaks from a fresh unique name (:1.33), never   *)
(* handed out twice, so the set Owners bounds the number of restarts.      *)
(***************************************************************************)
EXTENDS Naturals, Sequences

CONSTANTS
    Services,    \* well-known names, com.victronenergy.*
    Owners,      \* unique connection names, like :1.33
    Paths,       \* object paths that carry an item
    Values,      \* values of an item
    FirstValue,  \* the value every item has when its service starts
    Mortal,      \* services that may leave the bus
    Fixed,       \* paths whose value does not change while the service runs
    Silent,      \* paths that change without a signal
    Late,        \* paths a service adds after it has taken its name
    Subtree,     \* paths below the inner object SubtreeRoot
    Legacy,      \* services that implement GetValue on / but not GetItems
    Unreliable,  \* TRUE when a call may also fail or time out
    Serials,     \* serial numbers of the calls in flight at one time
    MaxInbox,    \* bound: no item changes while this much is undelivered
    Root, SubtreeRoot, None, Absent

ASSUME BusAssumption ==
    /\ FirstValue \in Values
    /\ Mortal \subseteq Services
    /\ Fixed \subseteq Paths
    /\ Silent \subseteq Paths /\ Late \subseteq Paths /\ Subtree \subseteq Paths
    /\ Legacy \subseteq Services
    /\ Unreliable \in BOOLEAN
    /\ Serials \subseteq Nat
    /\ MaxInbox \in Nat
    /\ None \notin Services \cup Owners
    /\ Absent \notin Values
    /\ Root \notin Paths /\ SubtreeRoot \notin Paths /\ Root # SubtreeRoot

VARIABLES
    owner,     \* the unique name that holds each well-known name
    spent,     \* the unique names handed out so far
    exported,  \* the paths each service exports
    value,     \* the value of each path
    calls,     \* the method calls not answered yet, by serial
    orphaned,  \* the serials whose call had reached an incarnation now gone
    inbox      \* what the daemon has queued on the plugin's connection

busVars == <<owner, spent, exported, value, calls, orphaned, inbox>>

CallPaths == Paths \cup {Root, SubtreeRoot}

Call ==
         [method : {"ListNames"}, service : {None}, path : {Root}, value : {FirstValue}]
    \cup [method : {"GetNameOwner", "GetItems", "GetValue"}, service : Services,
          path : CallPaths, value : {FirstValue}]
    \cup [method : {"SetValue"}, service : Services, path : Paths, value : Values]

\* The items of a message: a value for each path it carries.
ItemMap == [Paths -> Values \cup {Absent}]

OwnerChange == [type : {"NameOwnerChanged"}, name : Services,
                old : Owners \cup {None}, new : Owners \cup {None}]
ItemChange  == [type : {"ItemsChanged"}, sender : Owners, path : Paths, value : Values]
NamesReply  == [type : {"Names"}, serial : Serials, names : SUBSET Services]
OwnerReply  == [type : {"Owner"}, serial : Serials, owner : Owners]
ItemsReply  == [type : {"Items"}, serial : Serials, items : ItemMap]
LeafReply   == [type : {"Leaf"}, serial : Serials, value : Values]
DoneReply   == [type : {"Done"}, serial : Serials]
ErrorReply  == [type : {"Error"}, serial : Serials, name : {"UnknownMethod", "Other"}]

Reply   == NamesReply \cup OwnerReply \cup ItemsReply \cup LeafReply
               \cup DoneReply \cup ErrorReply
Message == OwnerChange \cup ItemChange \cup Reply

BusTypeOK ==
    /\ owner \in [Services -> Owners \cup {None}]
    /\ spent \subseteq Owners
    /\ exported \in [Services -> SUBSET Paths]
    /\ value \in [Services -> [Paths -> Values]]
    /\ calls \in [Serials -> Call \cup {None}]
    /\ orphaned \subseteq Serials
    /\ inbox \in Seq(Message)

\* Some services are already on the bus when the plugin connects to it.
BusInit ==
    /\ owner \in [Services -> Owners \cup {None}]
    /\ \A s, t \in Services : s # t /\ owner[s] # None => owner[s] # owner[t]
    /\ spent = {owner[s] : s \in Services} \ {None}
    /\ exported = [s \in Services |-> IF owner[s] = None THEN {} ELSE Paths \ Late]
    /\ value = [s \in Services |-> [p \in Paths |-> FirstValue]]
    /\ orphaned = {}
    /\ inbox = <<>>

----------------------------------------------------------------------------
(* The services come, change their items and go. *)

\* An incarnation of s takes its name and the daemon announces it.
Appear(s, o) ==
    /\ owner[s] = None
    /\ o \notin spent
    /\ owner' = [owner EXCEPT ![s] = o]
    /\ spent' = spent \cup {o}
    /\ exported' = [exported EXCEPT ![s] = Paths \ Late]
    /\ value' = [value EXCEPT ![s] = [p \in Paths |-> FirstValue]]
    /\ inbox' = Append(inbox, [type |-> "NameOwnerChanged", name |-> s, old |-> None, new |-> o])
    /\ UNCHANGED <<calls, orphaned>>

\* The calls that wait for an answer from s, and not from an earlier incarnation.
Awaiting(s) ==
    {n \in Serials \ orphaned : /\ calls[n] # None
                                /\ calls[n].service = s
                                /\ calls[n].method # "GetNameOwner"}

\* The incarnation dies.  Any of the calls to it may have reached it already
\* and get no answer; the others are still under way and meet the next one.
Vanish(s) ==
    /\ s \in Mortal
    /\ owner[s] # None
    /\ \E reached \in SUBSET Awaiting(s) : orphaned' = orphaned \cup reached
    /\ owner' = [owner EXCEPT ![s] = None]
    /\ exported' = [exported EXCEPT ![s] = {}]
    /\ inbox' = Append(inbox, [type |-> "NameOwnerChanged", name |-> s,
                               old |-> owner[s], new |-> None])
    /\ UNCHANGED <<spent, value, calls>>

Signal(s, p, v) == [type |-> "ItemsChanged", sender |-> owner[s], path |-> p, value |-> v]

Change(s, p, v) ==
    /\ owner[s] # None
    /\ p \in exported[s] \ Fixed
    /\ v # value[s][p]
    /\ Len(inbox) < MaxInbox
    /\ value' = [value EXCEPT ![s][p] = v]
    /\ inbox' = IF p \in Silent THEN inbox ELSE Append(inbox, Signal(s, p, v))
    /\ UNCHANGED <<owner, spent, exported, calls, orphaned>>

AddPath(s, p) ==
    /\ owner[s] # None
    /\ p \in Late \ exported[s]
    /\ exported' = [exported EXCEPT ![s] = @ \cup {p}]
    /\ UNCHANGED <<owner, spent, value, calls, orphaned, inbox>>

----------------------------------------------------------------------------
(* Answers.  Each takes its call out of the set of open calls and puts the *)
(* reply at the end of the inbox.                                          *)

Answer(n, before, reply) ==
    /\ calls' = [calls EXCEPT ![n] = None]
    /\ orphaned' = orphaned \ {n}
    /\ inbox' = Append(inbox \o before, reply)

\* The daemon itself answers org.freedesktop.DBus calls.
AnswerListNames(n) ==
    /\ calls[n] # None /\ calls[n].method = "ListNames"
    /\ Answer(n, <<>>, [type |-> "Names", serial |-> n,
                        names |-> {s \in Services : owner[s] # None}])
    /\ UNCHANGED <<owner, spent, exported, value>>

Failure(n, error) == [type |-> "Error", serial |-> n, name |-> error]

AnswerGetNameOwner(n) ==
    /\ calls[n] # None /\ calls[n].method = "GetNameOwner"
    /\ LET o == owner[calls[n].service]
       IN  Answer(n, <<>>, IF o = None THEN Failure(n, "Other")
                           ELSE [type |-> "Owner", serial |-> n, owner |-> o])
    /\ UNCHANGED <<owner, spent, exported, value>>

\* A call that a living incarnation of its service can answer.
Served(n) ==
    /\ calls[n] # None
    /\ calls[n].service # None
    /\ n \in Awaiting(calls[n].service)
    /\ owner[calls[n].service] # None

ItemsBelow(s, paths) ==
    [p \in Paths |-> IF p \in paths \cap exported[s] THEN value[s][p] ELSE Absent]

AnswerGetItems(n) ==
    /\ Served(n) /\ calls[n].method = "GetItems"
    /\ LET s == calls[n].service
       IN  Answer(n, <<>>, IF s \in Legacy THEN Failure(n, "UnknownMethod")
                           ELSE [type |-> "Items", serial |-> n, items |-> ItemsBelow(s, Paths)])
    /\ UNCHANGED <<owner, spent, exported, value>>

\* GetValue on an item gives its value, on an inner object the items below it.
AnswerGetValue(n) ==
    /\ Served(n) /\ calls[n].method = "GetValue"
    /\ LET s == calls[n].service
           p == calls[n].path
           below == IF p = Root THEN Paths ELSE Subtree
       IN  Answer(n, <<>>,
             IF p \in exported[s]
               THEN [type |-> "Leaf", serial |-> n, value |-> value[s][p]]
             ELSE IF p \in Paths \/ (p = SubtreeRoot /\ Subtree \cap exported[s] = {})
               THEN Failure(n, "Other")
             ELSE [type |-> "Items", serial |-> n, items |-> ItemsBelow(s, below)])
    /\ UNCHANGED <<owner, spent, exported, value>>

\* SetValue changes the item, which is signalled as any change of it is.
AnswerSetValue(n) ==
    /\ Served(n) /\ calls[n].method = "SetValue"
    /\ LET s == calls[n].service
           p == calls[n].path
           v == calls[n].value
           changed == p \in exported[s] /\ v # value[s][p]
       IN  /\ value' = IF changed THEN [value EXCEPT ![s][p] = v] ELSE value
           /\ Answer(n, IF changed /\ p \notin Silent THEN <<Signal(s, p, v)>> ELSE <<>>,
                     IF p \in exported[s] THEN [type |-> "Done", serial |-> n]
                     ELSE Failure(n, "Other"))
    /\ UNCHANGED <<owner, spent, exported>>

\* The daemon reports a call nobody is there to answer (NoReply when the
\* callee has died, ServiceUnknown when there is none), and an unreliable
\* service lets a call time out or answers it with an error.
FailCall(n) ==
    /\ calls[n] # None
    /\ calls[n].method \in {"GetItems", "GetValue", "SetValue"}
    /\ \/ n \in orphaned
       \/ owner[calls[n].service] = None
       \/ Unreliable
    /\ Answer(n, <<>>, Failure(n, "Other"))
    /\ UNCHANGED <<owner, spent, exported, value>>

BusAnswer(n) ==
    \/ AnswerListNames(n)
    \/ AnswerGetNameOwner(n)
    \/ AnswerGetItems(n)
    \/ AnswerGetValue(n)
    \/ AnswerSetValue(n)
    \/ FailCall(n)

=============================================================================
