------------------------ MODULE ServiceRegistryProofs ------------------------
(***************************************************************************)
(* Proofs about ServiceRegistry, for every value of its constants: its     *)
(* type invariant, the agreement of the two maps of topics, and that the   *)
(* queue holds changes of unknown services only.                           *)
(*                                                                         *)
(* The three are proved together, as Inv: registering a service keeps the  *)
(* short names right only if the items' instances are (RegistryAgreement), *)
(* and erasing one short name erases all because they are.  Inv adds that  *)
(* every place in the queue is below delayed_count (Bounded), so that each *)
(* nonempty part of the queue has a last entry (LastOfNonempty) and what   *)
(* is published of it is a value.                                          *)
(***************************************************************************)
EXTENDS ServiceRegistry, SequenceTheorems, FiniteSetTheorems, WellFoundedInduction, TLAPS

----------------------------------------------------------------------------
(* Every move of the bus keeps its types: one lemma per move.              *)

\* What the moves put into the inbox are messages.
LEMMA SignalTyped ==
    ASSUME BusTypeOK, NEW s \in Services, NEW p \in Paths, NEW v \in Values, owner[s] # None
    PROVE  Signal(s, p, v) \in Message
BY DEF BusTypeOK, Signal, Message, ItemChange

----------------------------------------------------------------------------

LEMMA AppearTyped ==
    ASSUME BusTypeOK, NEW s \in Services, NEW o \in Owners, Appear(s, o)
    PROVE  BusTypeOK'
<1> DEFINE m == [type |-> "NameOwnerChanged", name |-> s, old |-> None, new |-> o]
<1>1. m \in Message
  BY DEF Message, OwnerChange
<1>2. inbox' = Append(inbox, m)
  BY DEF Appear
<1> HIDE DEF m
<1>3. inbox' \in Seq(Message)
  BY <1>1, <1>2, AppendProperties DEF BusTypeOK
<1>4. value' \in [Services -> [Paths -> Values]]
  BY BusAssumption DEF BusTypeOK, Appear
<1> QED
  BY <1>3, <1>4 DEF BusTypeOK, Appear

LEMMA VanishTyped ==
    ASSUME BusTypeOK, NEW s \in Services, Vanish(s)
    PROVE  BusTypeOK'
<1> DEFINE m == [type |-> "NameOwnerChanged", name |-> s, old |-> owner[s], new |-> None]
<1>1. m \in Message
  BY DEF Message, OwnerChange, BusTypeOK
<1>2. inbox' = Append(inbox, m)
  BY DEF Vanish
<1> HIDE DEF m
<1>3. inbox' \in Seq(Message)
  BY <1>1, <1>2, AppendProperties DEF BusTypeOK
<1>4. orphaned' \subseteq Serials
  BY DEF BusTypeOK, Vanish, Awaiting
<1> QED
  BY <1>3, <1>4 DEF BusTypeOK, Vanish

LEMMA ChangeTyped ==
    ASSUME BusTypeOK, NEW s \in Services, NEW p \in Paths, NEW v \in Values, Change(s, p, v)
    PROVE  BusTypeOK'
<1>1. Signal(s, p, v) \in Message
  BY SignalTyped DEF Change
<1>2. inbox' \in Seq(Message)
  BY <1>1, AppendProperties DEF BusTypeOK, Change
<1> QED
  BY <1>2 DEF BusTypeOK, Change

LEMMA AddPathTyped ==
    ASSUME BusTypeOK, NEW s \in Services, NEW p \in Paths, AddPath(s, p)
    PROVE  BusTypeOK'
BY DEF BusTypeOK, AddPath

----------------------------------------------------------------------------
(* Answers.                                                                *)

\* An answer may be preceded by the signals it causes.
LEMMA AnswerTyped ==
    ASSUME BusTypeOK, NEW n \in Serials, NEW before \in Seq(Message), NEW reply \in Message,
           Answer(n, before, reply),
           value' \in [Services -> [Paths -> Values]],
           UNCHANGED <<owner, spent, exported>>
    PROVE  BusTypeOK'
<1>1. inbox \o before \in Seq(Message)
  BY ConcatProperties DEF BusTypeOK
<1>2. inbox' \in Seq(Message)
  BY <1>1, AppendProperties DEF Answer
<1> QED
  BY <1>2 DEF BusTypeOK, Answer

\* What an answer tells: the owner there is, or the items of a service that has one.
AnswerTells(n, reply) ==
    LET s == calls[n].service
    IN  /\ reply.type = "Owner" => s \in Services /\ reply.owner = owner[s]
        /\ reply.type = "Items" =>
              /\ s \in Services /\ owner[s] # None
              /\ \/ reply.items = ItemsBelow(s, Paths)
                 \/ calls[n].method = "GetValue" /\ calls[n].path = SubtreeRoot

\* Every answer of the bus is one, to a call that waits, behind at most one signal.
AnswerOf(n, before, reply) ==
    /\ calls[n] # None
    /\ before = <<>> \/ \E m \in ItemChange : before = <<m>>
    /\ reply \in Reply /\ reply.serial = n
    /\ AnswerTells(n, reply)
    /\ Answer(n, before, reply)
    /\ value' \in [Services -> [Paths -> Values]]
    /\ UNCHANGED <<owner, spent, exported>>

LEMMA BusAnswerIs ==
    ASSUME BusTypeOK, NEW n \in Serials, BusAnswer(n)
    PROVE  \E before, reply : AnswerOf(n, before, reply)
<1> USE DEF BusTypeOK
<1>1. ASSUME NEW before, NEW reply,
             calls[n] # None,
             before = <<>> \/ \E m \in ItemChange : before = <<m>>,
             reply \in Reply, reply.serial = n,
             AnswerTells(n, reply),
             Answer(n, before, reply),
             value' \in [Services -> [Paths -> Values]],
             UNCHANGED <<owner, spent, exported>>
      PROVE  \E b, r : AnswerOf(n, b, r)
  <2>1. AnswerOf(n, before, reply)
    BY <1>1 DEF AnswerOf
  <2> QED
    BY <2>1
<1>2. ASSUME NEW error \in {"UnknownMethod", "Other"}, calls[n] # None,
             Answer(n, <<>>, Failure(n, error)), UNCHANGED <<owner, spent, exported, value>>
      PROVE  \E b, r : AnswerOf(n, b, r)
  <2> DEFINE r == Failure(n, error)
  <2>1. r \in Reply /\ r.serial = n /\ AnswerTells(n, r)
    BY DEF Failure, Reply, ErrorReply, AnswerTells
  <2> HIDE DEF r
  <2> QED
    BY <1>1, <1>2, <2>1 DEF r
<1>3. CASE AnswerListNames(n)
  <2> DEFINE r == [type |-> "Names", serial |-> n, names |-> {s \in Services : owner[s] # None}]
  <2>1. r \in Reply /\ r.serial = n /\ AnswerTells(n, r)
    BY DEF Reply, NamesReply, AnswerTells
  <2>2. calls[n] # None /\ Answer(n, <<>>, r) /\ UNCHANGED <<owner, spent, exported, value>>
    BY <1>3 DEF AnswerListNames
  <2> HIDE DEF r
  <2> QED
    BY <1>1, <2>1, <2>2
<1>4. CASE AnswerGetNameOwner(n)
  <2> DEFINE s == calls[n].service
             o == owner[s]
             r == [type |-> "Owner", serial |-> n, owner |-> o]
  <2>1. calls[n] # None /\ s \in Services
    BY <1>4 DEF AnswerGetNameOwner, Call
  <2>2. CASE o = None
    BY <1>2, <1>4, <2>1, <2>2 DEF AnswerGetNameOwner
  <2>3. CASE o # None
    <3>1. r \in Reply /\ r.serial = n /\ AnswerTells(n, r)
      BY <2>1, <2>3 DEF Reply, OwnerReply, AnswerTells
    <3>2. Answer(n, <<>>, r) /\ UNCHANGED <<owner, spent, exported, value>>
      BY <1>4, <2>3 DEF AnswerGetNameOwner
    <3> HIDE DEF r
    <3> QED
      BY <1>1, <2>1, <3>1, <3>2
  <2> QED
    BY <2>2, <2>3
<1>5. ASSUME Served(n)
      PROVE  /\ calls[n] # None /\ calls[n] \in Call
             /\ calls[n].service \in Services /\ owner[calls[n].service] # None
  BY <1>5 DEF Served, Call
<1>6. ASSUME Served(n), NEW paths,
             paths = Paths \/ (calls[n].method = "GetValue" /\ calls[n].path = SubtreeRoot)
      PROVE  LET r == [type |-> "Items", serial |-> n,
                       items |-> ItemsBelow(calls[n].service, paths)]
             IN  r \in Reply /\ r.serial = n /\ AnswerTells(n, r)
  <2>1. calls[n].service \in Services /\ owner[calls[n].service] # None
    BY <1>5, <1>6
  <2>2. ItemsBelow(calls[n].service, paths) \in ItemMap
    BY <2>1 DEF ItemsBelow, ItemMap
  <2> QED
    BY <1>6, <2>1, <2>2 DEF Reply, ItemsReply, AnswerTells
<1>7. CASE AnswerGetItems(n)
  <2> DEFINE s == calls[n].service
             r == [type |-> "Items", serial |-> n, items |-> ItemsBelow(s, Paths)]
  <2>1. Served(n) /\ calls[n] # None
    BY <1>5, <1>7 DEF AnswerGetItems
  <2>2. CASE s \in Legacy
    BY <1>2, <1>7, <2>1, <2>2 DEF AnswerGetItems
  <2>3. CASE s \notin Legacy
    <3>1. r \in Reply /\ r.serial = n /\ AnswerTells(n, r)
      BY <1>6, <2>1
    <3>2. Answer(n, <<>>, r) /\ UNCHANGED <<owner, spent, exported, value>>
      BY <1>7, <2>3 DEF AnswerGetItems
    <3> HIDE DEF r
    <3> QED
      BY <1>1, <2>1, <3>1, <3>2
  <2> QED
    BY <2>2, <2>3
<1>8. CASE AnswerGetValue(n)
  <2> DEFINE s == calls[n].service
             p == calls[n].path
             below == IF p = Root THEN Paths ELSE Subtree
             leaf == [type |-> "Leaf", serial |-> n, value |-> value[s][p]]
             items == [type |-> "Items", serial |-> n, items |-> ItemsBelow(s, below)]
             none == p \in Paths \/ (p = SubtreeRoot /\ Subtree \cap exported[s] = {})
  <2>1. Served(n) /\ calls[n] # None /\ s \in Services /\ calls[n].method = "GetValue"
    BY <1>5, <1>8 DEF AnswerGetValue
  <2>2. CASE p \in exported[s]
    <3>1. leaf \in Reply /\ leaf.serial = n /\ AnswerTells(n, leaf)
      BY <2>1, <2>2 DEF Reply, LeafReply, AnswerTells
    <3>2. Answer(n, <<>>, leaf) /\ UNCHANGED <<owner, spent, exported, value>>
      BY <1>8, <2>2 DEF AnswerGetValue
    <3> HIDE DEF leaf
    <3> QED
      BY <1>1, <2>1, <3>1, <3>2
  <2>3. CASE p \notin exported[s] /\ none
    BY <1>2, <1>8, <2>1, <2>3 DEF AnswerGetValue
  <2>4. CASE p \notin exported[s] /\ ~none
    <3>1. p = Root \/ p = SubtreeRoot
      BY <2>1, <2>4 DEF Call, CallPaths
    <3>2. below = Paths \/ p = SubtreeRoot
      BY <3>1
    <3>3. items \in Reply /\ items.serial = n /\ AnswerTells(n, items)
      BY <1>6, <2>1, <3>2
    <3>4. Answer(n, <<>>, items) /\ UNCHANGED <<owner, spent, exported, value>>
      BY <1>8, <2>4 DEF AnswerGetValue
    <3> HIDE DEF items
    <3> QED
      BY <1>1, <2>1, <3>3, <3>4
  <2> QED
    BY <2>2, <2>3, <2>4
<1>9. CASE AnswerSetValue(n)
  <2> DEFINE s == calls[n].service
             p == calls[n].path
             v == calls[n].value
             changed == p \in exported[s] /\ v # value[s][p]
             before == IF changed /\ p \notin Silent THEN <<Signal(s, p, v)>> ELSE <<>>
             done == [type |-> "Done", serial |-> n]
             r == IF p \in exported[s] THEN done ELSE Failure(n, "Other")
  <2>1. /\ s \in Services /\ p \in Paths /\ v \in Values
        /\ owner[s] # None /\ calls[n] # None
    BY <1>5, <1>9 DEF AnswerSetValue, Call
  <2>2. r \in Reply /\ r.serial = n /\ AnswerTells(n, r)
    BY DEF Reply, DoneReply, ErrorReply, Failure, AnswerTells
  <2>3. before = <<>> \/ \E m \in ItemChange : before = <<m>>
    <3>1. Signal(s, p, v) \in ItemChange
      BY <2>1 DEF Signal, ItemChange
    <3> QED
      BY <3>1
  <2>4. value' \in [Services -> [Paths -> Values]]
    BY <1>9, <2>1 DEF AnswerSetValue
  <2>5. Answer(n, before, r) /\ UNCHANGED <<owner, spent, exported>>
    BY <1>9 DEF AnswerSetValue
  <2> HIDE DEF r, before
  <2> QED
    BY <1>1, <2>1, <2>2, <2>3, <2>4, <2>5
<1>10. CASE FailCall(n)
  <2>1. /\ calls[n] # None
        /\ Answer(n, <<>>, Failure(n, "Other")) /\ UNCHANGED <<owner, spent, exported, value>>
    BY <1>10 DEF FailCall
  <2> QED
    BY <1>2, <2>1
<1> QED
  BY <1>3, <1>4, <1>7, <1>8, <1>9, <1>10 DEF BusAnswer

LEMMA BusAnswerTyped ==
    ASSUME BusTypeOK, NEW n \in Serials, BusAnswer(n)
    PROVE  BusTypeOK'
<1>1. PICK before, reply : AnswerOf(n, before, reply)
  BY BusAnswerIs
<1>2. before \in Seq(Message) /\ reply \in Message
  <2>1. ASSUME NEW m \in ItemChange PROVE <<m>> \in Seq(Message)
    <3>1. m \in Message
      BY DEF Message
    <3> QED
      BY <3>1
  <2>2. before = <<>> \/ \E m \in ItemChange : before = <<m>>
    BY <1>1 DEF AnswerOf
  <2>3. <<>> \in Seq(Message)
    BY EmptySeq
  <2>4. before \in Seq(Message)
    BY <2>1, <2>2, <2>3
  <2>5. reply \in Message
    BY <1>1 DEF AnswerOf, Message
  <2> QED
    BY <2>4, <2>5
<1>3. /\ Answer(n, before, reply)
      /\ value' \in [Services -> [Paths -> Values]]
      /\ UNCHANGED <<owner, spent, exported>>
  BY <1>1 DEF AnswerOf
<1> QED
  BY <1>2, <1>3, AnswerTyped

----------------------------------------------------------------------------
(* The inductive invariant.                                                *)

\* The parts of Inv, of any queue, items and view: handlers compute these in
\* several steps before they assign them.
ItemStore == [Services -> [Paths -> Item \cup {Absent}]]
View      == [Topics -> Values \cup {Null, Unseen}]
InstanceMap == [Services -> Instances \cup {None}]
Bounded(queue, count) == \A e \in queue : e.at < count
Agreeing(items, instances) ==
    \A s \in Services, p \in Paths :
        items[s][p] # Absent => items[s][p].instance = instances[s]
OnlyUnknown(queue, items) == \A e \in queue : ~Mapped(items, e.service)

Now(queue, items, view) == [queue |-> queue, items |-> items, view |-> view]

Sound(now, count, instances) ==
    /\ now.queue \in SUBSET Queued
    /\ Bounded(now.queue, count)
    /\ now.items \in ItemStore
    /\ now.view \in View
    /\ Agreeing(now.items, instances)

\* The state of the registry, and the whole inductive invariant.
ShortNamesAgree(names, instances) ==
    \A k \in ShortNames :
        names[k] # None => /\ instances[names[k]] # None
                           /\ k = ShortName(names[k], instances[names[k]])

RegistrySound(now, count, instances, names) ==
    /\ count \in Nat
    /\ instances \in InstanceMap
    /\ names \in [ShortNames -> Services \cup {None}]
    /\ ShortNamesAgree(names, instances)
    /\ Sound(now, count, instances)
    /\ OnlyUnknown(now.queue, now.items)

RegistryInv ==
    RegistrySound(Now(delayed_changed_values, dbus_service_items, mqtt), delayed_count,
                  service_names_to_instance, service_type_and_instance_to_full_service)

HandlerInv ==
    /\ service_id_to_names \in [Owners -> Services \cup {None}]
    /\ async_handlers \in [Serials -> Handler \cup {None}]
    /\ alive \in BOOLEAN
    /\ republished \in BOOLEAN

Inv == BusTypeOK /\ HandlerInv /\ RegistryInv

----------------------------------------------------------------------------
(* The queue.                                                              *)

\* A nonempty set of numbers has a least one: of the intervals that end in one
\* of them, one is minimal in the order of inclusion, which is well founded.
LEMMA LeastNumber ==
    ASSUME NEW S \in SUBSET Nat, S # {}
    PROVE  \E b \in S : \A c \in S : b <= c
<1> DEFINE Intervals == {0 .. n : n \in S}
<1>1. Intervals \subseteq FiniteSubsetsOf(Nat)
  <2>1. SUFFICES ASSUME NEW n \in S PROVE 0 .. n \in FiniteSubsetsOf(Nat)
    OBVIOUS
  <2>2. IsFiniteSet(0 .. n)
    BY FS_Interval
  <2> QED
    BY <2>2 DEF FiniteSubsetsOf
<1>2. Intervals # {}
  OBVIOUS
<1>3. PICK I \in Intervals : \A J \in Intervals : <<J, I>> \notin StrictSubsetOrdering(Nat)
  <2>1. IsWellFoundedOn(StrictSubsetOrdering(Nat), FiniteSubsetsOf(Nat))
    BY FS_StrictSubsetOrderingWellFounded
  <2> HIDE DEF Intervals
  <2> QED
    BY <1>1, <1>2, <2>1, WFMin
<1>4. PICK b \in S : I = 0 .. b
  BY <1>3
<1>5. ASSUME NEW c \in S, c < b PROVE FALSE
  <2>1. 0 .. c \subseteq 0 .. b /\ 0 .. c # 0 .. b
    <3>1. b \in 0 .. b /\ b \notin 0 .. c
      BY <1>5
    <3> QED
      BY <1>5, <3>1
  <2>2. <<0 .. c, I>> \in StrictSubsetOrdering(Nat)
    BY <1>4, <2>1 DEF StrictSubsetOrdering
  <2> QED
    BY <1>3, <2>2
<1> QED
  BY <1>5

\* A nonempty part of the queue has a last entry: the least bound of its places
\* is attained.
LEMMA LastOfNonempty ==
    ASSUME NEW entries \in SUBSET Queued, entries # {},
           NEW count \in Nat, Bounded(entries, count)
    PROVE  LastOf(entries) # {}
<1> DEFINE Bounds == {n \in Nat : \A e \in entries : e.at <= n}
<1>1. \A e \in entries : e.at \in Nat
  BY DEF Queued
<1>2. count \in Bounds
  BY <1>1 DEF Bounded
<1>3. PICK b \in Bounds : \A c \in Bounds : b <= c
  BY <1>2, LeastNumber
<1>4. \E e \in entries : e.at = b
  <2>1. SUFFICES ASSUME \A e \in entries : e.at # b PROVE FALSE
    OBVIOUS
  <2>2. \A e \in entries : e.at <= b - 1
    BY <1>1, <1>3, <2>1
  <2>3. b - 1 \in Nat
    BY <1>1, <1>3, <2>2
  <2>4. b - 1 \in Bounds
    BY <2>2, <2>3
  <2> QED
    BY <1>3, <2>4
<1> QED
  BY <1>3, <1>4 DEF LastOf

----------------------------------------------------------------------------
(* What the handlers compute.                                              *)

\* Publishing values and empty payloads leaves a view of the topics.
LEMMA PublishTyped ==
    ASSUME NEW view \in View, NEW payloads,
           \A t \in DOMAIN payloads : payloads[t] \in Values \cup {Null}
    PROVE  Publish(view, payloads) \in View
BY DEF Publish, View

\* Working off the queue keeps the set of items and their topics.
LEMMA ItemsAfterSound ==
    ASSUME NEW queue \in SUBSET Queued, NEW items \in ItemStore
    PROVE  /\ ItemsAfter(queue, items) \in ItemStore
           /\ \A s \in Services, p \in Paths :
                 /\ ItemsAfter(queue, items)[s][p] = Absent <=> items[s][p] = Absent
                 /\ items[s][p] # Absent =>
                       ItemsAfter(queue, items)[s][p].instance = items[s][p].instance
<1> DEFINE Last(s, p) == LastOf({e \in Applied(queue, items) : e.service = s /\ e.path = p})
           After(s, p) == IF Last(s, p) = {} \/ items[s][p] = Absent THEN items[s][p]
                          ELSE [items[s][p] EXCEPT !.value = (CHOOSE e \in Last(s, p) : TRUE).value]
<1>1. ItemsAfter(queue, items) = [s \in Services |-> [p \in Paths |-> After(s, p)]]
  BY DEF ItemsAfter
<1>2. ASSUME NEW s \in Services, NEW p \in Paths
      PROVE  /\ After(s, p) \in Item \cup {Absent}
             /\ After(s, p) = Absent <=> items[s][p] = Absent
             /\ items[s][p] # Absent => After(s, p).instance = items[s][p].instance
  <2>1. items[s][p] \in Item \cup {Absent}
    BY DEF ItemStore
  <2>2. CASE Last(s, p) = {} \/ items[s][p] = Absent
    BY <2>1, <2>2
  <2>3. CASE Last(s, p) # {} /\ items[s][p] # Absent
    <3> DEFINE e == CHOOSE f \in Last(s, p) : TRUE
    <3>1. e \in Last(s, p)
      BY <2>3
    <3>2. e \in queue
      BY <3>1 DEF LastOf, Applied, Reached
    <3>3. e.value \in Values
      BY <3>2 DEF Queued
    <3>4. items[s][p] \in [value : Values, instance : Instances]
      BY <2>1, <2>3 DEF Item
    <3>5. After(s, p) = [items[s][p] EXCEPT !.value = e.value]
      BY <2>3
    <3> HIDE DEF e, After, Last
    <3>6. /\ After(s, p) \in [value : Values, instance : Instances]
          /\ After(s, p).instance = items[s][p].instance
      BY <3>3, <3>4, <3>5
    <3>7. After(s, p) # Absent
      BY <3>6, RegistryAssumption
    <3> QED
      BY <2>3, <3>6, <3>7 DEF Item
  <2> QED
    BY <2>2, <2>3
<1> HIDE DEF After
<1> QED
  BY <1>1, <1>2 DEF ItemStore

\* Working off the queue publishes values of the queue.
LEMMA SentTyped ==
    ASSUME NEW queue \in SUBSET Queued, NEW items, NEW count \in Nat, Bounded(queue, count)
    PROVE  \A t \in DOMAIN Sent(queue, items) : Sent(queue, items)[t] \in Values
<1> SUFFICES ASSUME NEW t \in DOMAIN Sent(queue, items)
             PROVE  Sent(queue, items)[t] \in Values
  OBVIOUS
<1> DEFINE On == {f \in Applied(queue, items) : Topic(items, f.service, f.path) = t}
<1>1. On # {}
  BY DEF Sent
<1>2. On \in SUBSET queue
  BY DEF Applied, Reached
<1>3. On \in SUBSET Queued /\ Bounded(On, count)
  BY <1>2 DEF Bounded
<1>4. LastOf(On) # {}
  <2> HIDE DEF On
  <2> QED
    BY <1>1, <1>3, LastOfNonempty
<1>5. (CHOOSE e \in LastOf(On) : TRUE) \in Queued
  <2>1. LastOf(On) \subseteq Queued
    BY <1>3 DEF LastOf
  <2> HIDE DEF On
  <2> QED
    BY <1>4, <2>1
<1>6. Sent(queue, items)[t] = (CHOOSE e \in LastOf(On) : TRUE).value
  BY DEF Sent
<1> HIDE DEF On
<1> QED
  BY <1>5, <1>6 DEF Queued

\* attempt_to_process_delayed_changes leaves only changes of unknown services.
LEMMA AttemptSound ==
    ASSUME NEW queue, NEW items, NEW view, NEW count \in Nat, NEW instances,
           Sound(Now(queue, items, view), count, instances)
    PROVE  LET now == attempt_to_process_delayed_changes(queue, items, view)
           IN  Sound(now, count, instances) /\ OnlyUnknown(now.queue, now.items)
<1> DEFINE now == attempt_to_process_delayed_changes(queue, items, view)
<1>1. /\ queue \in SUBSET Queued /\ Bounded(queue, count)
      /\ items \in ItemStore /\ view \in View /\ Agreeing(items, instances)
  BY DEF Sound, Now
<1>2. /\ now.queue = Kept(queue, items)
      /\ now.items = ItemsAfter(queue, items)
      /\ now.view = IF alive THEN Publish(view, Sent(queue, items)) ELSE view
  BY DEF attempt_to_process_delayed_changes
<1>3. Kept(queue, items) \subseteq queue
  BY DEF Kept, Reached
<1>4. now.queue \in SUBSET Queued /\ Bounded(now.queue, count)
  BY <1>1, <1>2, <1>3 DEF Bounded
<1>5. now.items \in ItemStore /\ Agreeing(now.items, instances)
  <2>1. /\ ItemsAfter(queue, items) \in ItemStore
        /\ \A s \in Services, p \in Paths :
              /\ ItemsAfter(queue, items)[s][p] = Absent <=> items[s][p] = Absent
              /\ items[s][p] # Absent =>
                    ItemsAfter(queue, items)[s][p].instance = items[s][p].instance
    BY <1>1, ItemsAfterSound
  <2>2. Agreeing(ItemsAfter(queue, items), instances)
    BY <1>1, <2>1 DEF Agreeing
  <2> QED
    BY <1>2, <2>1, <2>2
<1>6. now.view \in View
  BY <1>1, <1>2, SentTyped, PublishTyped
<1>7. OnlyUnknown(now.queue, now.items)
  <2>1. \A e \in now.queue : ~Mapped(items, e.service) /\ e.service \in Services
    BY <1>1, <1>2, <1>3 DEF Kept, Queued
  <2>2. \A s \in Services : Mapped(now.items, s) <=> Mapped(items, s)
    BY <1>1, <1>2, ItemsAfterSound DEF Mapped
  <2> QED
    BY <2>1, <2>2 DEF OnlyUnknown
<1> QED
  BY <1>4, <1>5, <1>6, <1>7 DEF Sound

\* Become leaves what an attempt has made of a sound registry.
LEMMA BecomeSound ==
    ASSUME NEW queue, NEW items, NEW view, NEW instances \in InstanceMap,
           NEW names \in [ShortNames -> Services \cup {None}],
           delayed_count \in Nat,
           ShortNamesAgree(names, instances),
           Sound(Now(queue, items, view), delayed_count, instances),
           OnlyUnknown(queue, items),
           Become(Now(queue, items, view)),
           service_names_to_instance' = instances,
           service_type_and_instance_to_full_service' = names
    PROVE  RegistryInv'
<1>1. /\ delayed_changed_values' = queue
      /\ delayed_count' = CountAfter(queue, delayed_count)
      /\ dbus_service_items' = items
      /\ mqtt' = view
  BY DEF Become, Now
<1>2. delayed_count' \in Nat /\ Bounded(queue, delayed_count')
  BY <1>1 DEF CountAfter, Sound, Bounded, Now
<1>3. Sound(Now(queue, items, view), delayed_count', instances)
  BY <1>2 DEF Sound, Now
<1>4. RegistrySound(Now(queue, items, view), delayed_count', instances, names)
  BY <1>2, <1>3 DEF RegistrySound, Now
<1> QED
  BY <1>1, <1>4 DEF RegistryInv

\* The instance a service is mapped with is an instance, and the known one
\* if there is one.
LEMMA InstanceOfTyped ==
    ASSUME service_names_to_instance \in InstanceMap,
           NEW s \in Services, NEW items \in ItemMap
    PROVE  /\ InstanceOf(s, items) \in Instances
           /\ service_names_to_instance[s] # None
                 => InstanceOf(s, items) = service_names_to_instance[s]
BY RegistryAssumption DEF InstanceOf, get_instance_from_items, InstanceMap

\* Items that are put in are items of their service, with its instance; the
\* others stay.
LEMMA WithItemsSound ==
    ASSUME NEW all \in ItemStore, service_names_to_instance \in InstanceMap,
           Agreeing(all, service_names_to_instance),
           NEW s \in Services, NEW items \in ItemMap, NEW i \in Instances,
           service_names_to_instance[s] # None => i = service_names_to_instance[s]
    PROVE  LET mapped == WithItems(all, s, i, items)
           IN  /\ mapped \in ItemStore
               /\ Agreeing(mapped, [service_names_to_instance EXCEPT ![s] = i])
               /\ \A t \in Services, p \in Paths :
                     mapped[t][p] = IF t = s /\ items[p] # Absent
                                    THEN [value |-> items[p], instance |-> i] ELSE all[t][p]
<1> DEFINE mapped == WithItems(all, s, i, items)
           instances == [service_names_to_instance EXCEPT ![s] = i]
<1>1. \A t \in Services, p \in Paths :
         mapped[t][p] = IF t = s /\ items[p] # Absent THEN [value |-> items[p], instance |-> i]
                        ELSE all[t][p]
  BY DEF WithItems, ItemStore
<1>2. \A p \in Paths : items[p] # Absent => items[p] \in Values
  BY DEF ItemMap
<1>3. \A p \in Paths : items[p] # Absent => [value |-> items[p], instance |-> i] \in Item
  BY <1>2 DEF Item
<1>4. mapped \in ItemStore
  BY <1>3 DEF WithItems, ItemStore
<1>5. ASSUME NEW t \in Services, NEW p \in Paths, mapped[t][p] # Absent
      PROVE  mapped[t][p].instance = instances[t]
  <2>1. CASE t = s /\ items[p] # Absent
    <3>1. instances[t] = i
      BY <2>1 DEF InstanceMap
    <3>2. mapped[t][p] = [value |-> items[p], instance |-> i]
      BY <1>1, <2>1
    <3> HIDE DEF mapped, instances
    <3> QED
      BY <3>1, <3>2
  <2>2. CASE ~(t = s /\ items[p] # Absent)
    <3>1. mapped[t][p] = all[t][p] /\ all[t][p].instance = service_names_to_instance[t]
      BY <1>1, <1>5, <2>2 DEF Agreeing
    <3>2. service_names_to_instance[t] # None
      <4>1. all[t][p] \in Item
        BY <1>5, <3>1 DEF ItemStore
      <4> QED
        BY <3>1, <4>1, RegistryAssumption DEF Item
    <3> QED
      BY <3>1, <3>2 DEF InstanceMap
  <2> QED
    BY <2>1, <2>2
<1> QED
  BY <1>1, <1>4, <1>5 DEF Agreeing

\* add_dbus_to_mqtt_mapping keeps the registry sound: no short name is left of
\* a service whose instance is new, and no item with another instance.
LEMMA MapItemsSound ==
    ASSUME RegistryInv, NEW queue, NEW all, NEW view,
           Sound(Now(queue, all, view), delayed_count, service_names_to_instance),
           NEW s \in Services, NEW items \in ItemMap, NEW force,
           MapItems(Now(queue, all, view), s, items, force)
    PROVE  RegistryInv'
<1> DEFINE i == InstanceOf(s, items)
           instances == [service_names_to_instance EXCEPT ![s] = i]
           names == [service_type_and_instance_to_full_service EXCEPT ![ShortName(s, i)] = s]
           mapped == WithItems(all, s, i, items)
           seen == Publish(view, MappingPublishes(s, i, items, force))
           after == attempt_to_process_delayed_changes(queue, mapped, seen)
<1>1. /\ delayed_count \in Nat
      /\ service_names_to_instance \in InstanceMap
      /\ service_type_and_instance_to_full_service \in [ShortNames -> Services \cup {None}]
      /\ ShortNamesAgree(service_type_and_instance_to_full_service, service_names_to_instance)
  BY DEF RegistryInv, RegistrySound
<1>2. /\ queue \in SUBSET Queued /\ Bounded(queue, delayed_count)
      /\ all \in ItemStore /\ view \in View
      /\ Agreeing(all, service_names_to_instance)
  BY DEF Sound, Now
<1>3. /\ i \in Instances
      /\ service_names_to_instance[s] # None => i = service_names_to_instance[s]
  BY <1>1, InstanceOfTyped
<1>4. /\ service_names_to_instance' = instances
      /\ service_type_and_instance_to_full_service' = names
      /\ Become(after)
  BY DEF MapItems, Now
<1> HIDE DEF i
<1>5. instances \in InstanceMap /\ ShortName(s, i) \in ShortNames
  BY <1>1, <1>3, RegistryAssumption DEF InstanceMap, ShortName, ShortNames
<1>6. names \in [ShortNames -> Services \cup {None}]
  BY <1>1, <1>5
<1>7. ShortNamesAgree(names, instances)
  <2>1. SUFFICES ASSUME NEW k \in ShortNames, names[k] # None
                 PROVE  /\ instances[names[k]] # None
                        /\ k = ShortName(names[k], instances[names[k]])
    BY DEF ShortNamesAgree
  <2>2. instances[s] = i /\ i # None
    BY <1>1, <1>3, RegistryAssumption DEF InstanceMap
  <2>3. CASE k = ShortName(s, i)
    BY <1>1, <2>2, <2>3
  <2>4. CASE k # ShortName(s, i)
    <3>1. names[k] = service_type_and_instance_to_full_service[k]
      BY <1>1, <2>4
    <3>2. /\ service_names_to_instance[names[k]] # None
          /\ k = ShortName(names[k], service_names_to_instance[names[k]])
      BY <1>1, <2>1, <3>1 DEF ShortNamesAgree
    <3>3. names[k] # s
      BY <1>3, <2>4, <3>2
    <3>4. instances[names[k]] = service_names_to_instance[names[k]]
      BY <1>1, <2>1, <3>1, <3>3 DEF InstanceMap
    <3> QED
      BY <3>2, <3>4
  <2> QED
    BY <2>3, <2>4
<1>8. mapped \in ItemStore /\ Agreeing(mapped, instances)
  BY <1>1, <1>2, <1>3, WithItemsSound
<1>9. seen \in View
  <2>1. \A t \in DOMAIN MappingPublishes(s, i, items, force) :
           MappingPublishes(s, i, items, force)[t] \in Values
    BY DEF MappingPublishes, ItemMap
  <2> QED
    BY <1>2, <2>1, PublishTyped
<1>10. Sound(Now(queue, mapped, seen), delayed_count, instances)
  BY <1>2, <1>8, <1>9 DEF Sound, Now
<1>11. Sound(after, delayed_count, instances) /\ OnlyUnknown(after.queue, after.items)
  BY <1>1, <1>10, AttemptSound
<1>12. after = Now(after.queue, after.items, after.view)
  BY DEF attempt_to_process_delayed_changes, Now
<1> HIDE DEF after, instances, names
<1> QED
  BY <1>1, <1>4, <1>5, <1>6, <1>7, <1>11, <1>12, BecomeSound

\* A change of a service that is not known is queued, and sound to be.
LEMMA QueueChangeSound ==
    ASSUME RegistryInv, NEW queue, NEW items, NEW view,
           Sound(Now(queue, items, view), delayed_count, service_names_to_instance),
           OnlyUnknown(queue, items),
           NEW s \in Services, NEW p \in Paths, NEW v \in Values,
           ~Mapped(items, s),
           QueueChange(Now(queue, items, view), s, p, v)
    PROVE  RegistryInv'
<1> DEFINE place == CountAfter(queue, delayed_count)
           entry == [at |-> place, service |-> s, path |-> p, value |-> v, old |-> FALSE]
<1>1. delayed_count \in Nat /\ place \in Nat
  BY DEF RegistryInv, RegistrySound, CountAfter
<1>2. /\ delayed_changed_values' = queue \cup {entry}
      /\ delayed_count' = place + 1
      /\ dbus_service_items' = items
      /\ mqtt' = view
      /\ service_names_to_instance' = service_names_to_instance
      /\ service_type_and_instance_to_full_service' = service_type_and_instance_to_full_service
  BY DEF QueueChange, Now
<1>3. entry \in Queued
  BY <1>1 DEF Queued
<1>4. Bounded(queue \cup {entry}, place + 1)
  <2>1. \A e \in queue : e.at < place + 1
    <3>1. \A e \in queue : e.at \in Nat /\ e.at < delayed_count
      BY DEF Sound, Now, Bounded, Queued
    <3> QED
      BY <1>1, <3>1 DEF CountAfter
  <2>2. entry.at < place + 1
    BY <1>1
  <2> QED
    BY <2>1, <2>2 DEF Bounded
<1> HIDE DEF place
<1>5. Sound(Now(queue \cup {entry}, items, view), place + 1, service_names_to_instance)
  BY <1>3, <1>4 DEF Sound, Now
<1>6. OnlyUnknown(queue \cup {entry}, items)
  BY DEF OnlyUnknown
<1>7. RegistrySound(Now(queue \cup {entry}, items, view), place + 1, service_names_to_instance,
                    service_type_and_instance_to_full_service)
  BY <1>1, <1>5, <1>6 DEF RegistryInv, RegistrySound, Now
<1> QED
  BY <1>2, <1>7 DEF RegistryInv

\* Every signal begins with an attempt, which keeps the registry sound.
LEMMA AttemptedSound ==
    ASSUME RegistryInv
    PROVE  /\ Attempted = Now(Attempted.queue, Attempted.items, Attempted.view)
           /\ Sound(Attempted, delayed_count, service_names_to_instance)
           /\ OnlyUnknown(Attempted.queue, Attempted.items)
<1>1. /\ delayed_count \in Nat
      /\ Sound(Now(delayed_changed_values, dbus_service_items, mqtt), delayed_count,
               service_names_to_instance)
  BY DEF RegistryInv, RegistrySound
<1>2. Attempted = Now(Attempted.queue, Attempted.items, Attempted.view)
  BY DEF Attempted, attempt_to_process_delayed_changes, Now
<1> QED
  BY <1>1, <1>2, AttemptSound DEF Attempted

\* What every signal begins with, when nothing else of the registry changes.
LEMMA AttemptAlone ==
    ASSUME RegistryInv, Become(Attempted),
           UNCHANGED <<service_names_to_instance, service_type_and_instance_to_full_service>>
    PROVE  RegistryInv'
<1>1. /\ Attempted = Now(Attempted.queue, Attempted.items, Attempted.view)
      /\ Sound(Attempted, delayed_count, service_names_to_instance)
      /\ OnlyUnknown(Attempted.queue, Attempted.items)
  BY AttemptedSound
<1>2. /\ delayed_count \in Nat /\ service_names_to_instance \in InstanceMap
      /\ service_type_and_instance_to_full_service \in [ShortNames -> Services \cup {None}]
      /\ ShortNamesAgree(service_type_and_instance_to_full_service, service_names_to_instance)
  BY DEF RegistryInv, RegistrySound
<1> QED
  BY <1>1, <1>2, BecomeSound

\* A signal changes, or queues, one item.
LEMMA MapChangeSound ==
    ASSUME RegistryInv, NEW s \in Services, NEW p \in Paths, NEW v \in Values,
           MapChange(Attempted, s, p, v)
    PROVE  RegistryInv'
<1>1. OnlyItem(p, v) \in ItemMap
  BY DEF OnlyItem, ItemMap
<1> DEFINE queue == Attempted.queue
           items == Attempted.items
           view  == Attempted.view
<1>2. /\ Attempted = Now(queue, items, view)
      /\ Sound(Now(queue, items, view), delayed_count, service_names_to_instance)
      /\ OnlyUnknown(queue, items)
  BY AttemptedSound
<1> HIDE DEF queue, items, view
<1>3. CASE Mapped(items, s)
  <2>1. MapItems(Now(queue, items, view), s, OnlyItem(p, v), FALSE)
    BY <1>2, <1>3 DEF MapChange, Now
  <2> QED
    BY <1>1, <1>2, <2>1, MapItemsSound
<1>4. CASE ~Mapped(items, s)
  <2>1. QueueChange(Now(queue, items, view), s, p, v)
    BY <1>2, <1>4 DEF MapChange, Now
  <2> QED
    BY <1>2, <1>4, <2>1, QueueChangeSound
<1> QED
  BY <1>3, <1>4

\* Erasing one entry that holds a value gives a map of the same type; it erases
\* every such entry if there is at most one.
LEMMA EraseOneValueErases ==
    ASSUME NEW Keys, NEW map \in [Keys -> Services \cup {None}], NEW s \in Services,
           NEW after \in EraseOneValue(map, s)
    PROVE  /\ after \in [Keys -> Services \cup {None}]
           /\ \A k \in Keys : after[k] \in {None, map[k]}
           /\ (\A j, k \in Keys : map[j] = s /\ map[k] = s => j = k)
                 => \A k \in Keys : after[k] # s
<1>1. None # s
  BY BusAssumption
<1>2. CASE {k \in DOMAIN map : map[k] = s} = {}
  BY <1>2 DEF EraseOneValue
<1>3. CASE {k \in DOMAIN map : map[k] = s} # {}
  <2>1. PICK k \in Keys : map[k] = s /\ after = [map EXCEPT ![k] = None]
    BY <1>3 DEF EraseOneValue
  <2> QED
    BY <1>1, <2>1
<1> QED
  BY <1>2, <1>3

\* remove_dbus_service leaves no short name and no item of the service.
LEMMA RemoveSound ==
    ASSUME RegistryInv, HandlerInv, NEW s \in Services, NEW oldowner \in Owners,
           remove_dbus_service(Attempted, s, oldowner)
    PROVE  RegistryInv' /\ service_id_to_names' \in [Owners -> Services \cup {None}]
<1> DEFINE queue == Attempted.queue
           items == Attempted.items
           view  == Attempted.view
           none  == [items EXCEPT ![s] = [p \in Paths |-> Absent]]
           seen  == Publish(view, NullPayloads(items, s))
           instances == [service_names_to_instance EXCEPT ![s] = None]
           names == service_type_and_instance_to_full_service
<1>1. /\ Attempted = Now(queue, items, view)
      /\ Sound(Now(queue, items, view), delayed_count, service_names_to_instance)
      /\ OnlyUnknown(queue, items)
  BY AttemptedSound
<1> HIDE DEF queue, items, view
<1>2. /\ queue \in SUBSET Queued /\ Bounded(queue, delayed_count)
      /\ items \in ItemStore /\ view \in View
      /\ Agreeing(items, service_names_to_instance)
  BY <1>1 DEF Sound, Now
<1>3. /\ delayed_count \in Nat
      /\ service_names_to_instance \in InstanceMap
      /\ names \in [ShortNames -> Services \cup {None}]
      /\ ShortNamesAgree(names, service_names_to_instance)
  BY DEF RegistryInv, RegistrySound
<1>4. /\ Become(Now(queue, none, seen))
      /\ service_names_to_instance' = instances
      /\ names' \in EraseOneValue(names, s)
      /\ service_id_to_names' \in EraseOneValue(remove_id_to_owner(oldowner), s)
  BY <1>1 DEF remove_dbus_service, WithoutItems, Now
<1>5. service_id_to_names' \in [Owners -> Services \cup {None}]
  <2>1. remove_id_to_owner(oldowner) \in [Owners -> Services \cup {None}]
    BY DEF HandlerInv, remove_id_to_owner
  <2> QED
    BY <1>4, <2>1, EraseOneValueErases
<1>6. names' \in [ShortNames -> Services \cup {None}] /\ ShortNamesAgree(names', instances)
  <2>1. \A j, k \in ShortNames : names[j] = s /\ names[k] = s => j = k
    BY <1>3, BusAssumption DEF ShortNamesAgree
  <2>2. /\ names' \in [ShortNames -> Services \cup {None}]
        /\ \A k \in ShortNames : names'[k] \in {None, names[k]} /\ names'[k] # s
    BY <1>3, <1>4, <2>1, EraseOneValueErases
  <2>3. ASSUME NEW k \in ShortNames, names'[k] # None
        PROVE  instances[names'[k]] # None /\ k = ShortName(names'[k], instances[names'[k]])
    <3>1. names'[k] = names[k] /\ names[k] # s /\ names[k] \in Services
      BY <1>3, <2>2, <2>3
    <3>2. instances[names[k]] = service_names_to_instance[names[k]]
      BY <1>3, <3>1 DEF InstanceMap
    <3> QED
      BY <1>3, <2>3, <3>1, <3>2 DEF ShortNamesAgree
  <2> QED
    BY <2>2, <2>3 DEF ShortNamesAgree
<1>7. none \in ItemStore /\ Agreeing(none, instances)
  <2>1. none \in ItemStore
    BY <1>2 DEF ItemStore
  <2>2. ASSUME NEW t \in Services, NEW p \in Paths, none[t][p] # Absent
        PROVE  none[t][p].instance = instances[t]
    <3>1. t # s /\ none[t][p] = items[t][p]
      BY <1>2, <2>2 DEF ItemStore
    <3>2. instances[t] = service_names_to_instance[t]
      BY <1>3, <3>1 DEF InstanceMap
    <3> QED
      BY <1>2, <2>2, <3>1, <3>2 DEF Agreeing
  <2> QED
    BY <2>1, <2>2 DEF Agreeing
<1>8. seen \in View
  <2>1. \A t \in DOMAIN NullPayloads(items, s) : NullPayloads(items, s)[t] = Null
    BY DEF NullPayloads
  <2> QED
    BY <1>2, <2>1, PublishTyped
<1>9. OnlyUnknown(queue, none)
  <2>1. ASSUME NEW e \in queue, NEW p \in Paths PROVE none[e.service][p] = Absent
    <3>1. e.service \in Services /\ items[e.service][p] = Absent
      BY <1>1, <1>2 DEF OnlyUnknown, Mapped, Queued
    <3> QED
      BY <1>2, <3>1 DEF ItemStore
  <2> QED
    BY <2>1 DEF OnlyUnknown, Mapped
<1>10. Sound(Now(queue, none, seen), delayed_count, instances)
  BY <1>2, <1>7, <1>8 DEF Sound, Now
<1>11. instances \in InstanceMap
  BY <1>3 DEF InstanceMap
<1> HIDE DEF none, seen, instances
<1>12. RegistryInv'
  BY <1>3, <1>4, <1>6, <1>9, <1>10, <1>11, BecomeSound
<1> QED
  BY <1>5, <1>12

----------------------------------------------------------------------------
(* The messages and handlers that the dispatching actions look at.         *)

\* What a message of some type carries.
LEMMA MessageParts ==
    ASSUME NEW m \in Message
    PROVE  /\ m.type = "NameOwnerChanged" =>
                 m.name \in Services /\ m.old \in Owners \cup {None} /\ m.new \in Owners \cup {None}
           /\ m.type = "ItemsChanged" =>
                 m.sender \in Owners /\ m.path \in Paths /\ m.value \in Values
           /\ m.type = "Names" => m.serial \in Serials /\ m.names \subseteq Services
           /\ m.type = "Owner" => m.serial \in Serials /\ m.owner \in Owners
           /\ m.type = "Items" => m.serial \in Serials /\ m.items \in ItemMap
           /\ m.type = "Leaf" => m.serial \in Serials /\ m.value \in Values
           /\ m.type = "Done" => m.serial \in Serials
           /\ m.type = "Error" => m.serial \in Serials
BY DEF Message, OwnerChange, ItemChange, Reply, NamesReply, OwnerReply, ItemsReply,
       LeafReply, DoneReply, ErrorReply

\* What a handler of some kind is for.
LEMMA HandlerParts ==
    ASSUME NEW h \in Handler
    PROVE  /\ h.kind # "list_names" => h.service \in Services
           /\ h.kind \in {"read_item", "set_value"} => h.path \in Paths
           /\ h.force \in BOOLEAN
BY DEF Handler

\* Taking the first message off leaves messages.
LEMMA InboxTyped ==
    ASSUME BusTypeOK, inbox # <<>>
    PROVE  Head(inbox) \in Message /\ Tail(inbox) \in Seq(Message)
BY HeadTailProperties DEF BusTypeOK

\* A reply meets a handler of its kind.
LEMMA ReplyParts ==
    ASSUME Inv, NEW kind, NEW types,
           types \subseteq {"Names", "Owner", "Items", "Leaf", "Done", "Error"},
           ReplyTo(kind, types)
    PROVE  /\ Head(inbox) \in Message /\ Head(inbox).type \in types
           /\ TheSerial \in Serials
           /\ TheHandler \in Handler /\ TheHandler.kind = kind
           /\ inbox' \in Seq(Message)
<1>1. /\ Head(inbox) \in Message /\ inbox' \in Seq(Message)
      /\ Head(inbox).type \in types
  BY InboxTyped DEF Inv, ReplyTo
<1>2. Head(inbox).serial \in Serials
  BY <1>1, MessageParts
<1>3. async_handlers[Head(inbox).serial] \in Handler
  BY <1>2 DEF Inv, HandlerInv, ReplyTo
<1> QED
  BY <1>1, <1>2, <1>3 DEF TheSerial, TheHandler, ReplyTo

\* Nothing the registry consists of changes.
LEMMA RegistryUnchanged ==
    ASSUME RegistryInv, UNCHANGED Registry
    PROVE  RegistryInv'
BY DEF RegistryInv, Registry

\* A call that is sent has its handler stored.
LEMMA SendingTyped ==
    ASSUME NEW s \in Services
    PROVE  /\ NameOwnerCall(s) \in Call
           /\ \A p \in CallPaths : Sending("GetValue", s, p, FirstValue) \in Call
           /\ Sending("GetItems", s, Root, FirstValue) \in Call
           /\ \A p \in Paths, v \in Values : Sending("SetValue", s, p, v) \in Call
BY BusAssumption DEF NameOwnerCall, Sending, Call, CallPaths

LEMMA HandlingTyped ==
    ASSUME NEW s \in Services
    PROVE  /\ NameOwnerHandler(s) \in Handler
           /\ Handling("get_items", s, Root, FALSE) \in Handler
           /\ \A p \in CallPaths, force \in BOOLEAN :
                 Handling("get_value", s, p, force) \in Handler
           /\ \A p \in Paths : /\ Handling("read_item", s, p, FALSE) \in Handler
                               /\ Handling("set_value", s, p, FALSE) \in Handler
BY DEF NameOwnerHandler, Handling, Handler, CallPaths

----------------------------------------------------------------------------
(* Inv is preserved: one lemma per action.                                 *)

LEMMA InitInv == Init => Inv
<1> SUFFICES ASSUME Init PROVE Inv
  OBVIOUS
<1>1. BusTypeOK
  <2>1. owner \in [Services -> Owners \cup {None}] /\ spent \subseteq Owners
    BY DEF Init, BusInit
  <2>2. exported \in [Services -> SUBSET Paths]
    BY DEF Init, BusInit
  <2>3. value \in [Services -> [Paths -> Values]]
    BY BusAssumption DEF Init, BusInit
  <2>4. calls \in [Serials -> Call \cup {None}]
    <3>1. Sending("ListNames", None, Root, FirstValue) \in Call
      BY DEF Sending, Call
    <3> QED
      BY <3>1 DEF Init
  <2>5. orphaned \subseteq Serials /\ inbox \in Seq(Message)
    BY DEF Init, BusInit
  <2> QED
    BY <2>1, <2>2, <2>3, <2>4, <2>5 DEF BusTypeOK
<1>2. HandlerInv
  <2>1. Handling("list_names", None, Root, FALSE) \in Handler
    BY DEF Handling, Handler
  <2> QED
    BY <2>1 DEF Init, HandlerInv
<1>3. RegistryInv
  <2>1. /\ service_names_to_instance = [s \in Services |-> None]
        /\ service_type_and_instance_to_full_service = [k \in ShortNames |-> None]
        /\ dbus_service_items = [s \in Services |-> [p \in Paths |-> Absent]]
        /\ delayed_changed_values = {} /\ delayed_count = 0
        /\ mqtt = [t \in Topics |-> Unseen]
    BY DEF Init
  <2>2. Sound(Now(delayed_changed_values, dbus_service_items, mqtt), delayed_count,
              service_names_to_instance)
    BY <2>1 DEF Sound, Now, Bounded, ItemStore, View, Agreeing
  <2> QED
    BY <2>1, <2>2 DEF RegistryInv, RegistrySound, InstanceMap, ShortNamesAgree, OnlyUnknown, Now
<1> QED
  BY <1>1, <1>2, <1>3 DEF Inv

LEMMA BusInv ==
    ASSUME Inv, Bus PROVE Inv'
<1>1. BusTypeOK'
  BY AppearTyped, VanishTyped, ChangeTyped, AddPathTyped, BusAnswerTyped DEF Inv, Bus
<1>2. UNCHANGED registryVars
  BY DEF Bus
<1>3. RegistryInv' /\ HandlerInv'
  BY <1>2, RegistryUnchanged DEF Inv, HandlerInv, registryVars, Registry
<1> QED
  BY <1>1, <1>3 DEF Inv

LEMMA ServiceAppearedInv ==
    ASSUME Inv, ServiceAppeared PROVE Inv'
<1> DEFINE s == Head(inbox).name
           o == Head(inbox).new
<1>1. s \in Services /\ o \in Owners /\ inbox' \in Seq(Message)
  BY InboxTyped, MessageParts DEF Inv, ServiceAppeared, Receive
<1>2. PICK n \in Serials : call_method(n, NameOwnerCall(s), NameOwnerHandler(s))
  BY DEF ServiceAppeared, scan_dbus_service
<1>3. BusTypeOK'
  BY <1>1, <1>2, SendingTyped DEF Inv, BusTypeOK, ServiceAppeared, call_method
<1>4. HandlerInv'
  BY <1>1, <1>2, HandlingTyped DEF Inv, HandlerInv, ServiceAppeared, call_method
<1>5. RegistryInv'
  BY AttemptAlone DEF Inv, ServiceAppeared
<1> QED
  BY <1>3, <1>4, <1>5 DEF Inv

LEMMA ServiceDisappearedInv ==
    ASSUME Inv, ServiceDisappeared PROVE Inv'
<1> DEFINE s == Head(inbox).name
           o == Head(inbox).old
<1>1. s \in Services /\ o \in Owners /\ inbox' \in Seq(Message)
  BY InboxTyped, MessageParts DEF Inv, ServiceDisappeared, Receive
<1>2. RegistryInv' /\ service_id_to_names' \in [Owners -> Services \cup {None}]
  BY <1>1, RemoveSound DEF Inv, ServiceDisappeared
<1>3. BusTypeOK'
  BY <1>1 DEF Inv, BusTypeOK, ServiceDisappeared
<1>4. HandlerInv'
  BY <1>2 DEF Inv, HandlerInv, ServiceDisappeared
<1> QED
  BY <1>2, <1>3, <1>4 DEF Inv

LEMMA ItemsChangedInv ==
    ASSUME Inv, ItemsChanged PROVE Inv'
<1> DEFINE m == Head(inbox)
           s == service_id_to_names[m.sender]
<1>1. /\ m.sender \in Owners /\ m.path \in Paths /\ m.value \in Values
      /\ inbox' \in Seq(Message)
  BY InboxTyped, MessageParts DEF Inv, ItemsChanged, Receive
<1>2. s \in Services \cup {None}
  BY <1>1 DEF Inv, HandlerInv
<1>3. RegistryInv'
  <2>1. CASE s = None
    BY <2>1, AttemptAlone DEF Inv, ItemsChanged
  <2>2. CASE s # None
    <3>1. MapChange(Attempted, s, m.path, m.value)
      BY <2>2 DEF ItemsChanged
    <3> QED
      BY <1>1, <1>2, <2>2, <3>1, MapChangeSound DEF Inv
  <2> QED
    BY <2>1, <2>2
<1>4. BusTypeOK' /\ HandlerInv'
  BY <1>1 DEF Inv, BusTypeOK, HandlerInv, ItemsChanged
<1> QED
  BY <1>3, <1>4 DEF Inv

LEMMA ListNamesReplyInv ==
    ASSUME Inv, ListNamesReply PROVE Inv'
<1> DEFINE names == Head(inbox).names
           free  == FreeSerials \cup {TheSerial}
<1>1. /\ Head(inbox) \in Message /\ Head(inbox).type = "Names"
      /\ TheSerial \in Serials /\ inbox' \in Seq(Message)
  BY ReplyParts DEF ListNamesReply
<1>2. names \subseteq Services
  BY <1>1, MessageParts
<1>3. PICK slot \in [names -> free] :
         LET used == {slot[s] : s \in names}
             For(n) == CHOOSE s \in names : slot[s] = n
         IN  /\ calls' = [n \in Serials |-> IF n \in used THEN NameOwnerCall(For(n)) ELSE calls[n]]
             /\ async_handlers' = [n \in Serials |-> IF n \in used THEN NameOwnerHandler(For(n))
                                                    ELSE Closed(TheSerial)[n]]
  BY DEF ListNamesReply
<1> DEFINE used == {slot[s] : s \in names}
           For(n) == CHOOSE s \in names : slot[s] = n
<1>4. ASSUME NEW n \in used PROVE For(n) \in Services
  <2>1. \E s \in names : slot[s] = n
    OBVIOUS
  <2>2. For(n) \in names
    BY <2>1
  <2> QED
    BY <1>2, <2>2
<1>5. \A n \in used : NameOwnerCall(For(n)) \in Call /\ NameOwnerHandler(For(n)) \in Handler
  BY <1>4, SendingTyped, HandlingTyped
<1> HIDE DEF used, For
<1>6. /\ calls' = [n \in Serials |-> IF n \in used THEN NameOwnerCall(For(n)) ELSE calls[n]]
      /\ async_handlers' = [n \in Serials |-> IF n \in used THEN NameOwnerHandler(For(n))
                                             ELSE Closed(TheSerial)[n]]
  BY <1>3 DEF used, For
<1>7. BusTypeOK'
  <2>1. calls' \in [Serials -> Call \cup {None}]
    BY <1>5, <1>6 DEF Inv, BusTypeOK
  <2> QED
    BY <1>1, <2>1 DEF Inv, BusTypeOK, ListNamesReply
<1>8. HandlerInv'
  <2>1. Closed(TheSerial) \in [Serials -> Handler \cup {None}]
    BY DEF Inv, HandlerInv, Closed
  <2>2. async_handlers' \in [Serials -> Handler \cup {None}]
    BY <1>5, <1>6, <2>1
  <2> QED
    BY <2>2 DEF Inv, HandlerInv, ListNamesReply
<1> QED
  BY <1>7, <1>8, RegistryUnchanged DEF Inv, ListNamesReply

\* A handler that sends the next call stores its handler.
LEMMA CallNextTyped ==
    ASSUME Inv, NEW call \in Call, NEW handler \in Handler, CallNext(call, handler)
    PROVE  /\ calls' \in [Serials -> Call \cup {None}]
           /\ async_handlers' \in [Serials -> Handler \cup {None}]
BY DEF Inv, BusTypeOK, HandlerInv, CallNext, Closed

LEMMA NameOwnerReplyInv ==
    ASSUME Inv, NameOwnerReply PROVE Inv'
<1> DEFINE s == TheHandler.service
<1>1. /\ Head(inbox) \in Message /\ Head(inbox).type = "Owner"
      /\ TheHandler \in Handler /\ TheHandler.kind = "get_name_owner"
      /\ inbox' \in Seq(Message)
  BY ReplyParts DEF NameOwnerReply
<1>2. s \in Services /\ Head(inbox).owner \in Owners
  BY <1>1, HandlerParts, MessageParts
<1>3. /\ calls' \in [Serials -> Call \cup {None}]
      /\ async_handlers' \in [Serials -> Handler \cup {None}]
  BY <1>2, SendingTyped, HandlingTyped, CallNextTyped DEF NameOwnerReply
<1>4. BusTypeOK'
  BY <1>1, <1>3 DEF Inv, BusTypeOK, NameOwnerReply
<1>5. HandlerInv'
  BY <1>2, <1>3 DEF Inv, HandlerInv, NameOwnerReply
<1> QED
  BY <1>4, <1>5, RegistryUnchanged DEF Inv, NameOwnerReply

LEMMA GetItemsUnknownMethodInv ==
    ASSUME Inv, GetItemsUnknownMethod PROVE Inv'
<1> DEFINE s == TheHandler.service
<1>1. /\ TheHandler \in Handler /\ TheHandler.kind = "get_items"
      /\ inbox' \in Seq(Message)
  BY ReplyParts DEF GetItemsUnknownMethod
<1>2. s \in Services /\ Root \in CallPaths
  BY <1>1, HandlerParts DEF CallPaths
<1>3. /\ calls' \in [Serials -> Call \cup {None}]
      /\ async_handlers' \in [Serials -> Handler \cup {None}]
  BY <1>2, SendingTyped, HandlingTyped, CallNextTyped DEF GetItemsUnknownMethod
<1>4. BusTypeOK' /\ HandlerInv'
  BY <1>1, <1>3 DEF Inv, BusTypeOK, HandlerInv, GetItemsUnknownMethod
<1> QED
  BY <1>4, RegistryUnchanged DEF Inv, GetItemsUnknownMethod

LEMMA ItemsRepliedInv ==
    ASSUME Inv, ItemsReplied PROVE Inv'
<1>1. PICK kind \in {"get_items", "get_value"} : ReplyTo(kind, {"Items"})
  BY DEF ItemsReplied
<1>2. /\ Head(inbox) \in Message /\ Head(inbox).type = "Items"
      /\ TheHandler \in Handler /\ TheHandler.kind = kind
      /\ inbox' \in Seq(Message)
  BY <1>1, ReplyParts
<1>3. TheHandler.service \in Services /\ Head(inbox).items \in ItemMap
  BY <1>2, HandlerParts, MessageParts
<1>4. Sound(Now(delayed_changed_values, dbus_service_items, mqtt), delayed_count,
            service_names_to_instance)
  BY DEF Inv, RegistryInv, RegistrySound
<1>5. MapItems(Now(delayed_changed_values, dbus_service_items, mqtt),
               TheHandler.service, Head(inbox).items, TheHandler.force)
  BY DEF ItemsReplied, Now
<1>6. RegistryInv'
  BY <1>3, <1>4, <1>5, MapItemsSound DEF Inv
<1>7. BusTypeOK' /\ HandlerInv'
  BY <1>2 DEF Inv, BusTypeOK, HandlerInv, ItemsReplied, Closed
<1> QED
  BY <1>6, <1>7 DEF Inv

LEMMA ReadReplyInv ==
    ASSUME Inv, ReadReply PROVE Inv'
<1> DEFINE s == TheHandler.service
           p == TheHandler.path
           v == Head(inbox).value
           shown == [t \in {Topic(dbus_service_items, s, p)} |-> v]
<1>1. /\ Head(inbox) \in Message /\ Head(inbox).type = "Leaf"
      /\ TheHandler \in Handler /\ TheHandler.kind = "read_item"
      /\ inbox' \in Seq(Message)
  BY ReplyParts DEF ReadReply
<1>2. s \in Services /\ p \in Paths /\ v \in Values
  BY <1>1, HandlerParts, MessageParts
<1>3. BusTypeOK' /\ HandlerInv'
  BY <1>1 DEF Inv, BusTypeOK, HandlerInv, ReadReply, Closed
<1>4. UNCHANGED <<service_names_to_instance, service_type_and_instance_to_full_service,
                  delayed_changed_values, delayed_count>>
  BY DEF ReadReply
<1>5. CASE dbus_service_items[s][p] = Absent
  <2>1. UNCHANGED Registry
    BY <1>4, <1>5 DEF ReadReply, Registry
  <2> QED
    BY <1>3, <2>1, RegistryUnchanged DEF Inv
<1>6. CASE dbus_service_items[s][p] # Absent
  <2>1. /\ dbus_service_items' = [dbus_service_items EXCEPT ![s][p].value = v]
        /\ mqtt' = Publish(mqtt, shown)
    BY <1>6 DEF ReadReply
  <2>2. /\ dbus_service_items \in ItemStore /\ mqtt \in View
        /\ Agreeing(dbus_service_items, service_names_to_instance)
        /\ OnlyUnknown(delayed_changed_values, dbus_service_items)
        /\ delayed_changed_values \in SUBSET Queued
        /\ Bounded(delayed_changed_values, delayed_count)
    BY DEF Inv, RegistryInv, RegistrySound, Sound, Now
  <2>3. mqtt' \in View
    BY <1>2, <2>1, <2>2, PublishTyped
  <2>4. dbus_service_items[s][p] \in Item
    BY <1>2, <1>6, <2>2 DEF ItemStore
  <2>5. /\ [dbus_service_items[s][p] EXCEPT !.value = v] \in Item
        /\ [dbus_service_items[s][p] EXCEPT !.value = v].instance
              = dbus_service_items[s][p].instance
    BY <1>2, <2>4 DEF Item
  <2>6. ASSUME NEW t \in Services, NEW q \in Paths
        PROVE  dbus_service_items'[t][q] =
                 IF t = s /\ q = p THEN [dbus_service_items[s][p] EXCEPT !.value = v]
                                   ELSE dbus_service_items[t][q]
    BY <1>2, <2>1, <2>2 DEF ItemStore
  <2>7. dbus_service_items' \in ItemStore
    <3>1. DOMAIN dbus_service_items' = Services
             /\ dbus_service_items' = [t \in Services |-> dbus_service_items'[t]]
      BY <2>1, <2>2 DEF ItemStore
    <3>2. ASSUME NEW t \in Services PROVE dbus_service_items'[t] \in [Paths -> Item \cup {Absent}]
      BY <1>2, <2>1, <2>2, <2>5 DEF ItemStore
    <3> QED
      BY <3>1, <3>2 DEF ItemStore
  <2>8. \A t \in Services, q \in Paths :
           /\ dbus_service_items'[t][q] = Absent <=> dbus_service_items[t][q] = Absent
           /\ dbus_service_items[t][q] # Absent =>
                 dbus_service_items'[t][q].instance = dbus_service_items[t][q].instance
    <3>1. [dbus_service_items[s][p] EXCEPT !.value = v] # Absent
      BY <2>5, RegistryAssumption DEF Item
    <3> QED
      BY <1>6, <2>5, <2>6, <3>1
  <2>9. Agreeing(dbus_service_items', service_names_to_instance)
    BY <2>2, <2>8 DEF Agreeing
  <2>10. OnlyUnknown(delayed_changed_values, dbus_service_items')
    <3>1. \A e \in delayed_changed_values : e.service \in Services
      BY <2>2 DEF Queued
    <3> QED
      BY <2>2, <2>8, <3>1 DEF OnlyUnknown, Mapped
  <2>11. RegistryInv'
    BY <1>4, <2>2, <2>3, <2>7, <2>9, <2>10 DEF Inv, RegistryInv, RegistrySound, Sound, Now
  <2> QED
    BY <1>3, <2>11 DEF Inv
<1> QED
  BY <1>5, <1>6

LEMMA ReplyWithoutEffectInv ==
    ASSUME Inv, ReplyWithoutEffect PROVE Inv'
<1>1. \E kind, types : /\ types \subseteq {"Names", "Owner", "Items", "Leaf", "Done", "Error"}
                       /\ ReplyTo(kind, types)
  BY DEF ReplyWithoutEffect
<1>2. inbox' \in Seq(Message)
  BY <1>1, ReplyParts
<1>3. BusTypeOK' /\ HandlerInv'
  BY <1>2 DEF Inv, BusTypeOK, HandlerInv, ReplyWithoutEffect, Closed
<1> QED
  BY <1>3, RegistryUnchanged DEF Inv, ReplyWithoutEffect

LEMMA AskInv ==
    ASSUME Inv, NEW call \in Call, NEW handler \in Handler, Ask(call, handler)
    PROVE  Inv'
<1>1. PICK n \in Serials : call_method(n, call, handler)
  BY DEF Ask
<1>2. BusTypeOK' /\ HandlerInv'
  BY <1>1 DEF Inv, BusTypeOK, HandlerInv, Ask, call_method
<1> QED
  BY <1>2, RegistryUnchanged DEF Inv, Ask

\* The service that a topic is found to belong to.
LEMMA FoundServiceTyped ==
    ASSUME Inv, NEW type \in Types, NEW i \in Instances, NEW p, Finds(<<type, i, p>>)
    PROVE  FoundService(<<type, i, p>>) \in Services
BY DEF Inv, RegistryInv, RegistrySound, Finds, FoundService, ShortNames

LEMMA ReadInv ==
    ASSUME Inv, NEW type \in Types, NEW i \in Instances, NEW p \in ReadPaths,
           handle_read(type, i, p)
    PROVE  Inv'
<1> DEFINE s == FoundService(<<type, i, p>>)
<1>1. s \in Services /\ p \in CallPaths
  BY FoundServiceTyped, RegistryAssumption DEF handle_read
<1>2. CASE p \in Paths /\ dbus_service_items[s][p] # Absent
  <2>1. Ask(Sending("GetValue", s, p, FirstValue), Handling("read_item", s, p, FALSE))
    BY <1>2 DEF handle_read
  <2> QED
    BY <1>1, <1>2, <2>1, SendingTyped, HandlingTyped, AskInv
<1>3. CASE ~(p \in Paths /\ dbus_service_items[s][p] # Absent)
  <2>1. Ask(Sending("GetValue", s, p, FirstValue), Handling("get_value", s, p, TRUE))
    BY <1>3 DEF handle_read
  <2> QED
    BY <1>1, <2>1, SendingTyped, HandlingTyped, AskInv
<1> QED
  BY <1>2, <1>3

LEMMA WriteInv ==
    ASSUME Inv, NEW t \in Topics, NEW v \in Values, t[3] \in WritePaths, write_to_dbus(t, v)
    PROVE  Inv'
<1> DEFINE s == FoundService(t)
<1>1. t = <<t[1], t[2], t[3]>> /\ t[1] \in Types /\ t[2] \in Instances /\ t[3] \in Paths
  BY DEF Topics
<1>2. s \in Services
  BY <1>1, FoundServiceTyped DEF write_to_dbus
<1>3. Ask(Sending("SetValue", s, t[3], v), Handling("set_value", s, t[3], FALSE))
  BY DEF write_to_dbus
<1> QED
  BY <1>1, <1>2, <1>3, SendingTyped, HandlingTyped, AskInv

\* publish_all shows the values of items.
LEMMA AllPayloadsTyped ==
    ASSUME Inv
    PROVE  \A t \in DOMAIN AllPayloads : AllPayloads[t] \in Values
<1> DEFINE mapped == {x \in Services \X Paths : dbus_service_items[x[1]][x[2]] # Absent}
           chosen(t) == CHOOSE y \in mapped : Topic(dbus_service_items, y[1], y[2]) = t
<1>1. AllPayloads = [t \in {Topic(dbus_service_items, x[1], x[2]) : x \in mapped} |->
                       dbus_service_items[chosen(t)[1]][chosen(t)[2]].value]
  BY DEF AllPayloads
<1>2. ASSUME NEW x \in mapped PROVE dbus_service_items[x[1]][x[2]].value \in Values
  <2>1. dbus_service_items[x[1]][x[2]] \in Item
    BY DEF Inv, RegistryInv, RegistrySound, Sound, Now, ItemStore
  <2> QED
    BY <2>1 DEF Item
<1>3. \A t \in DOMAIN AllPayloads : chosen(t) \in mapped
  <2>1. \A t \in DOMAIN AllPayloads : \E y \in mapped : Topic(dbus_service_items, y[1], y[2]) = t
    BY <1>1
  <2> HIDE DEF mapped
  <2> QED
    BY <2>1
<1> HIDE DEF mapped, chosen
<1> QED
  BY <1>1, <1>2, <1>3

LEMMA KeepAliveInv ==
    ASSUME Inv, NEW publish_all \in BOOLEAN, handle_keepalive(publish_all)
    PROVE  Inv'
<1>1. mqtt \in View
  BY DEF Inv, RegistryInv, RegistrySound, Sound, Now
<1>2. mqtt' \in View
  BY <1>1, AllPayloadsTyped, PublishTyped DEF handle_keepalive
<1>3. RegistryInv'
  BY <1>2 DEF Inv, RegistryInv, RegistrySound, Sound, Now, handle_keepalive
<1>4. BusTypeOK' /\ HandlerInv'
  BY DEF Inv, BusTypeOK, busVars, HandlerInv, handle_keepalive
<1> QED
  BY <1>3, <1>4 DEF Inv

LEMMA UnsetKeepAliveInv ==
    ASSUME Inv, unset_keepalive PROVE Inv'
<1>1. BusTypeOK' /\ HandlerInv'
  BY DEF Inv, BusTypeOK, busVars, HandlerInv, unset_keepalive
<1> QED
  BY <1>1, RegistryUnchanged DEF Inv, unset_keepalive

LEMMA AgeInv ==
    ASSUME Inv, NEW place, Age(place) PROVE Inv'
<1>1. /\ delayed_changed_values \in SUBSET Queued
      /\ Bounded(delayed_changed_values, delayed_count)
      /\ OnlyUnknown(delayed_changed_values, dbus_service_items)
  BY DEF Inv, RegistryInv, RegistrySound, Sound, Now
<1>2. ASSUME NEW e \in delayed_changed_values
      PROVE  LET f == [e EXCEPT !.old = @ \/ e.at < place]
             IN  f \in Queued /\ f.at = e.at /\ f.service = e.service
  <2>1. e \in Queued
    BY <1>1
  <2>2. (e.old \/ e.at < place) \in BOOLEAN
    OBVIOUS
  <2> QED
    BY <2>1, <2>2 DEF Queued
<1>3. delayed_changed_values' =
        {[e EXCEPT !.old = @ \/ e.at < place] : e \in delayed_changed_values}
  BY DEF Age
<1>4. /\ delayed_changed_values' \in SUBSET Queued
      /\ Bounded(delayed_changed_values', delayed_count)
      /\ OnlyUnknown(delayed_changed_values', dbus_service_items)
  BY <1>1, <1>2, <1>3 DEF Bounded, OnlyUnknown
<1>5. RegistryInv'
  BY <1>4 DEF Inv, RegistryInv, RegistrySound, Sound, Now, Age
<1>6. BusTypeOK' /\ HandlerInv'
  BY DEF Inv, BusTypeOK, busVars, HandlerInv, Age
<1> QED
  BY <1>5, <1>6 DEF Inv

----------------------------------------------------------------------------
(* The theorems.                                                           *)

LEMMA NextInv == Inv /\ [Next]_vars => Inv'
<1> SUFFICES ASSUME Inv, [Next]_vars PROVE Inv'
  OBVIOUS
<1>1. CASE Bus
  BY <1>1, BusInv
<1>2. CASE Dispatch
  BY <1>2, ServiceAppearedInv, ServiceDisappearedInv, ItemsChangedInv, ListNamesReplyInv,
     NameOwnerReplyInv, GetItemsUnknownMethodInv, ItemsRepliedInv, ReadReplyInv,
     ReplyWithoutEffectInv DEF Dispatch
<1>3. CASE Clients
  BY <1>3, ReadInv, WriteInv, KeepAliveInv, RegistryAssumption DEF Clients
<1>4. CASE Clock
  BY <1>4, UnsetKeepAliveInv, AgeInv DEF Clock
<1>5. CASE UNCHANGED vars
  <2>1. UNCHANGED <<owner, spent, exported, value, calls, orphaned, inbox,
                    service_id_to_names, async_handlers, alive, republished, Registry>>
    BY <1>5 DEF vars, busVars, registryVars, Registry
  <2>2. BusTypeOK' /\ HandlerInv'
    BY <2>1 DEF Inv, BusTypeOK, HandlerInv
  <2> QED
    BY <2>1, <2>2, RegistryUnchanged DEF Inv
<1> QED
  BY <1>1, <1>2, <1>3, <1>4, <1>5 DEF Next

LEMMA SpecInv == Spec => []Inv
BY InitInv, NextInv, PTL DEF Spec

\* Every variable keeps its type, so no handler looks an item, an instance or
\* a service up that cannot be there (State and dbus_handle_message).
THEOREM TypeCorrect == Spec => []TypeOK
<1>1. Inv => TypeOK
  BY DEF Inv, HandlerInv, RegistryInv, RegistrySound, Sound, Now, TypeOK, ItemStore, View,
         InstanceMap
<1> QED
  BY <1>1, SpecInv, PTL

\* The maps by which topics are made and found again agree, whatever the
\* services do and in whatever order their messages and replies arrive
\* (add_dbus_to_mqtt_mapping, remove_dbus_service, find_item_by_mqtt_path).
THEOREM MapsAgree == Spec => []RegistryAgreement
<1>1. Inv => RegistryAgreement
  BY DEF Inv, RegistryInv, RegistrySound, ShortNamesAgree, Sound, Agreeing, Now,
         RegistryAgreement
<1> QED
  BY <1>1, SpecInv, PTL

\* The queue of delayed changes never holds a change of a registered service
\* between handlers, so the attempt every signal begins with never throws
\* (attempt_to_process_delayed_changes, find_matching_active_item).
THEOREM QueueOfUnknown == Spec => []OnlyUnknownQueued
<1>1. Inv => OnlyUnknownQueued
  BY DEF Inv, RegistryInv, RegistrySound, OnlyUnknown, Now, OnlyUnknownQueued
<1> QED
  BY <1>1, SpecInv, PTL

=============================================================================
