----------------------------- MODULE InboxProofs -----------------------------
(***************************************************************************)
(* What the plugin knows of the services follows the bus, for any          *)
(* services, owners and serials: whatever is still under way when a        *)
(* service leaves, the plugin never knows one that it has seen go.         *)
(*                                                                         *)
(* The proof looks at each message where it stands in the inbox.  The      *)
(* owner of a service at that place (OwnerAt) is what the plugin will have *)
(* seen when it gets there.  An owner change leads from the owner before   *)
(* it to the one after it, an answer that names an owner names that of its *)
(* place, and an answer with items comes from a service that has one       *)
(* (InboxSound).  The answer meets the handler of the call it answers,     *)
(* because a serial is not used again before its answer is dispatched      *)
(* (CallsSound).                                                           *)
(*                                                                         *)
(* The last part proves what the instance in the topics is, as long as no  *)
(* client reads an inner object: every answer with items under way has the *)
(* one at /DeviceInstance (PublishedInv).                                  *)
(***************************************************************************)
EXTENDS ServiceRegistryProofs

IsChange(m, s) == m.type = "NameOwnerChanged" /\ m.name = s

ReplyTypes == {"Names", "Owner", "Items", "Leaf", "Done", "Error"}

\* SeenOwner, of any place in any inbox.
ChangesFrom(box, i, s) == {j \in DOMAIN box : j >= i /\ IsChange(box[j], s)}

OwnerAt(box, own, i, s) ==
    LET changes == ChangesFrom(box, i, s)
    IN  IF changes = {} THEN own[s]
        ELSE box[CHOOSE j \in changes : \A k \in changes : j <= k].old

\* The parts of the invariant, of any inbox, owners, calls and handlers.
ChangeSound(box, own, i) ==
    box[i].type = "NameOwnerChanged" =>
        /\ OwnerAt(box, own, i + 1, box[i].name) = box[i].new
        /\ box[i].new # None => box[i].old = None

ReplySound(box, own, cs, hs, i) ==
    box[i].type \in ReplyTypes =>
        /\ hs[box[i].serial] # None
        /\ cs[box[i].serial] = None
        /\ \A j \in DOMAIN box :
              box[j].type \in ReplyTypes /\ box[j].serial = box[i].serial => j = i
        /\ box[i].type \in {"Owner", "Items"} => hs[box[i].serial].service \in Services
        /\ box[i].type = "Owner"
              => OwnerAt(box, own, i, hs[box[i].serial].service) = box[i].owner
        /\ box[i].type = "Items"
              => OwnerAt(box, own, i, hs[box[i].serial].service) # None

InboxSound(box, own, cs, hs) ==
    \A i \in DOMAIN box : ChangeSound(box, own, i) /\ ReplySound(box, own, cs, hs, i)

CallsSound(cs, hs) ==
    \A n \in Serials : cs[n] # None => hs[n] # None /\ hs[n].service = cs[n].service

\* IdsFollowOwners and RegisteredIsOwned, of any maps.
IdsSound(ids, box, own) ==
    \A o \in Owners : ids[o] # None => o = OwnerAt(box, own, 1, ids[o])

RegisteredSound(items, instances, box, own) ==
    \A s \in Services : Mapped(items, s) \/ instances[s] # None
                            => OwnerAt(box, own, 1, s) # None

OrderInv ==
    /\ InboxSound(inbox, owner, calls, async_handlers)
    /\ CallsSound(calls, async_handlers)
    /\ IdsSound(service_id_to_names, inbox, owner)
    /\ RegisteredSound(dbus_service_items, service_names_to_instance, inbox, owner)

----------------------------------------------------------------------------
(* The owner of a service at a place of the inbox.                         *)

\* There is a first change, if there is one; it tells the owner before it.
LEMMA FirstChange ==
    ASSUME NEW box \in Seq(Message), NEW i, NEW s, ChangesFrom(box, i, s) # {}
    PROVE  \E j \in ChangesFrom(box, i, s) : \A k \in ChangesFrom(box, i, s) : j <= k
<1>1. ChangesFrom(box, i, s) \subseteq Nat
  BY DEF ChangesFrom
<1> QED
  BY <1>1, LeastNumber

LEMMA OwnerBeforeChange ==
    ASSUME NEW box \in Seq(Message), NEW own, NEW i, NEW s,
           NEW j \in ChangesFrom(box, i, s), \A k \in ChangesFrom(box, i, s) : j <= k
    PROVE  OwnerAt(box, own, i, s) = box[j].old
<1> DEFINE changes == ChangesFrom(box, i, s)
           first == CHOOSE k \in changes : \A l \in changes : k <= l
<1>1. first \in changes /\ \A l \in changes : first <= l
  OBVIOUS
<1>2. changes \subseteq Nat
  BY DEF ChangesFrom
<1>3. first = j
  <2> HIDE DEF first
  <2> QED
    BY <1>1, <1>2
<1>4. OwnerAt(box, own, i, s) = box[first].old
  BY DEF OwnerAt
<1> QED
  BY <1>3, <1>4

LEMMA OwnerAtChange ==
    ASSUME NEW box \in Seq(Message), NEW own, NEW s,
           NEW i \in DOMAIN box, IsChange(box[i], s)
    PROVE  OwnerAt(box, own, i, s) = box[i].old
<1>1. i \in ChangesFrom(box, i, s) /\ \A k \in ChangesFrom(box, i, s) : i <= k
  BY DEF ChangesFrom
<1> QED
  BY <1>1, OwnerBeforeChange

LEMMA OwnerAtOther ==
    ASSUME NEW box \in Seq(Message), NEW own, NEW s,
           NEW i \in DOMAIN box, ~IsChange(box[i], s)
    PROVE  OwnerAt(box, own, i, s) = OwnerAt(box, own, i + 1, s)
<1>1. ASSUME NEW j \in DOMAIN box, IsChange(box[j], s) PROVE j >= i <=> j >= i + 1
  BY <1>1
<1>2. ChangesFrom(box, i, s) = ChangesFrom(box, i + 1, s)
  BY <1>1 DEF ChangesFrom
<1> QED
  BY <1>2 DEF OwnerAt

\* Taking the first message off moves the places by one.
LEMMA OwnerAtTail ==
    ASSUME NEW box \in Seq(Message), box # <<>>, NEW own, NEW s, NEW i \in Nat \ {0}
    PROVE  OwnerAt(Tail(box), own, i, s) = OwnerAt(box, own, i + 1, s)
<1> DEFINE rest == Tail(box)
<1>0. SUFFICES OwnerAt(rest, own, i, s) = OwnerAt(box, own, i + 1, s)
  OBVIOUS
<1>1. /\ rest \in Seq(Message)
      /\ DOMAIN rest = 1 .. Len(box) - 1 /\ DOMAIN box = 1 .. Len(box)
      /\ \A j \in DOMAIN rest : rest[j] = box[j + 1]
  BY HeadTailProperties
<1> HIDE DEF rest
<1>2. \A j \in Nat : j \in ChangesFrom(rest, i, s) <=> j + 1 \in ChangesFrom(box, i + 1, s)
  BY <1>1 DEF ChangesFrom
<1>3. CASE ChangesFrom(box, i + 1, s) = {}
  <2>1. ChangesFrom(rest, i, s) = {}
    BY <1>1, <1>2, <1>3 DEF ChangesFrom
  <2> QED
    BY <1>3, <2>1 DEF OwnerAt
<1>4. CASE ChangesFrom(box, i + 1, s) # {}
  <2>1. PICK j \in ChangesFrom(box, i + 1, s) : \A k \in ChangesFrom(box, i + 1, s) : j <= k
    BY <1>4, FirstChange
  <2>2. j - 1 \in Nat /\ j = (j - 1) + 1
    BY <2>1 DEF ChangesFrom
  <2>3. j - 1 \in ChangesFrom(rest, i, s)
    BY <1>2, <2>1, <2>2
  <2>4. \A k \in ChangesFrom(rest, i, s) : j - 1 <= k
    <3>1. \A k \in ChangesFrom(rest, i, s) : k \in Nat
      BY <1>1 DEF ChangesFrom
    <3>2. j \in Nat
      BY <2>1 DEF ChangesFrom
    <3> QED
      BY <1>2, <2>1, <3>1, <3>2
  <2>5. OwnerAt(rest, own, i, s) = rest[j - 1].old
    BY <1>1, <2>3, <2>4, OwnerBeforeChange
  <2>6. rest[j - 1] = box[j]
    BY <1>1, <2>2, <2>3 DEF ChangesFrom
  <2>7. OwnerAt(box, own, i + 1, s) = box[j].old
    BY <2>1, OwnerBeforeChange
  <2> QED
    BY <2>5, <2>6, <2>7
<1> QED
  BY <1>3, <1>4

\* A message that is put at the end changes no owner before it, if it tells the
\* owner up to now.
LEMMA OwnerAtAppend ==
    ASSUME NEW box \in Seq(Message), NEW m \in Message, NEW own, NEW after, NEW s,
           NEW i \in 1 .. Len(box) + 1,
           IsChange(m, s) => m.old = own[s],
           ~IsChange(m, s) => after[s] = own[s]
    PROVE  OwnerAt(Append(box, m), after, i, s) = OwnerAt(box, own, i, s)
<1> DEFINE all == Append(box, m)
           last == Len(box) + 1
<1>1. /\ all \in Seq(Message) /\ DOMAIN all = 1 .. last /\ DOMAIN box = 1 .. Len(box)
      /\ all[last] = m /\ \A j \in DOMAIN box : all[j] = box[j]
      /\ last \in Nat
  BY AppendProperties
<1> HIDE DEF all
<1>2. ChangesFrom(all, i, s) =
        ChangesFrom(box, i, s) \cup (IF IsChange(m, s) THEN {last} ELSE {})
  <2>1. \A j : j \in DOMAIN all <=> j \in DOMAIN box \/ j = last
    BY <1>1
  <2> QED
    BY <1>1, <2>1 DEF ChangesFrom
<1>3. CASE ChangesFrom(box, i, s) # {}
  <2>1. PICK j \in ChangesFrom(box, i, s) : \A k \in ChangesFrom(box, i, s) : j <= k
    BY <1>3, FirstChange
  <2>2. j \in DOMAIN box /\ j <= last
    BY <1>1, <2>1 DEF ChangesFrom
  <2>3. OwnerAt(all, after, i, s) = all[j].old
    BY <1>1, <1>2, <2>1, <2>2, OwnerBeforeChange
  <2>4. OwnerAt(box, own, i, s) = box[j].old
    BY <2>1, OwnerBeforeChange
  <2> QED
    BY <1>1, <2>2, <2>3, <2>4 DEF all
<1>4. CASE ChangesFrom(box, i, s) = {}
  <2>1. OwnerAt(box, own, i, s) = own[s]
    BY <1>4 DEF OwnerAt
  <2>2. CASE IsChange(m, s)
    <3>1. last \in ChangesFrom(all, i, s) /\ \A k \in ChangesFrom(all, i, s) : last <= k
      BY <1>1, <1>2, <1>4, <2>2
    <3>2. OwnerAt(all, after, i, s) = m.old
      BY <1>1, <3>1, OwnerBeforeChange
    <3> QED
      BY <2>1, <2>2, <3>2 DEF all
  <2>3. CASE ~IsChange(m, s)
    <3>1. OwnerAt(all, after, i, s) = after[s]
      BY <1>2, <1>4, <2>3 DEF OwnerAt
    <3> QED
      BY <2>1, <2>3, <3>1 DEF all
  <2> QED
    BY <2>2, <2>3
<1> QED
  BY <1>3, <1>4

\* Beyond the last message it is the owner there is.
LEMMA OwnerAtEnd ==
    ASSUME NEW box \in Seq(Message), NEW own, NEW s, NEW i \in Nat, i > Len(box)
    PROVE  OwnerAt(box, own, i, s) = own[s]
<1>1. ChangesFrom(box, i, s) = {}
  BY DEF ChangesFrom
<1> QED
  BY <1>1 DEF OwnerAt

----------------------------------------------------------------------------
(* The messages at their places.                                           *)

\* No answer to the call with serial n is in the inbox.
Unused(box, n) == \A j \in DOMAIN box : box[j].type \in ReplyTypes => box[j].serial # n

\* Every answer has the serial of a call.
LEMMA ReplySerial ==
    ASSUME NEW box \in Seq(Message), NEW i \in DOMAIN box, box[i].type \in ReplyTypes
    PROVE  box[i].serial \in Serials
<1>1. box[i] \in Message
  BY ElementOfSeq
<1> QED
  BY <1>1, MessageParts DEF ReplyTypes

\* Calls and handlers matter to the inbox by the serials of its answers only.
LEMMA CallsChange ==
    ASSUME NEW box \in Seq(Message), NEW own, NEW cs, NEW hs, NEW cs2, NEW hs2,
           InboxSound(box, own, cs, hs),
           \A n \in Serials : Unused(box, n) \/ (cs2[n] = cs[n] /\ hs2[n] = hs[n])
    PROVE  InboxSound(box, own, cs2, hs2)
<1> SUFFICES ASSUME NEW i \in DOMAIN box, box[i].type \in ReplyTypes
             PROVE  ReplySound(box, own, cs2, hs2, i)
  BY DEF InboxSound, ReplySound
<1>1. box[i].serial \in Serials /\ ~Unused(box, box[i].serial)
  BY ReplySerial DEF Unused
<1>2. cs2[box[i].serial] = cs[box[i].serial] /\ hs2[box[i].serial] = hs[box[i].serial]
  BY <1>1
<1>3. ReplySound(box, own, cs, hs, i)
  BY DEF InboxSound
<1> QED
  BY <1>2, <1>3 DEF ReplySound

\* The first message is taken off; no second answer to its call is left.
LEMMA TailSound ==
    ASSUME NEW box \in Seq(Message), box # <<>>, NEW own, NEW cs, NEW hs,
           InboxSound(box, own, cs, hs)
    PROVE  /\ InboxSound(Tail(box), own, cs, hs)
           /\ Head(box).type \in ReplyTypes => Unused(Tail(box), Head(box).serial)
           /\ \A n : Unused(box, n) => Unused(Tail(box), n)
<1> DEFINE rest == Tail(box)
<1>0. SUFFICES /\ InboxSound(rest, own, cs, hs)
               /\ Head(box).type \in ReplyTypes => Unused(rest, Head(box).serial)
               /\ \A n : Unused(box, n) => Unused(rest, n)
  OBVIOUS
<1>1. /\ rest \in Seq(Message)
      /\ DOMAIN rest = 1 .. Len(box) - 1 /\ DOMAIN box = 1 .. Len(box) /\ Len(box) \in Nat
      /\ \A j \in DOMAIN rest : rest[j] = box[j + 1]
      /\ 1 \in DOMAIN box /\ Head(box) = box[1]
  BY HeadTailProperties
<1>2. \A i \in Nat \ {0} : \A s : OwnerAt(rest, own, i, s) = OwnerAt(box, own, i + 1, s)
  BY OwnerAtTail
<1> HIDE DEF rest
<1>3. ASSUME NEW i \in DOMAIN rest
      PROVE  ChangeSound(rest, own, i) /\ ReplySound(rest, own, cs, hs, i)
  <2>1. /\ i \in Nat \ {0} /\ i + 1 \in Nat \ {0} /\ i + 1 \in DOMAIN box /\ rest[i] = box[i + 1]
    BY <1>1
  <2>2. ChangeSound(box, own, i + 1) /\ ReplySound(box, own, cs, hs, i + 1)
    BY <2>1 DEF InboxSound
  <2>3. /\ \A s : OwnerAt(rest, own, i, s) = OwnerAt(box, own, i + 1, s)
        /\ \A s : OwnerAt(rest, own, i + 1, s) = OwnerAt(box, own, (i + 1) + 1, s)
    BY <1>2, <2>1
  <2>4. ChangeSound(rest, own, i)
    BY <2>1, <2>2, <2>3 DEF ChangeSound
  <2>5. ASSUME rest[i].type \in ReplyTypes, NEW j \in DOMAIN rest,
               rest[j].type \in ReplyTypes, rest[j].serial = rest[i].serial
        PROVE  j = i
    <3>1. j \in Nat /\ j + 1 \in DOMAIN box /\ rest[j] = box[j + 1]
      BY <1>1
    <3>2. j + 1 = i + 1
      BY <2>1, <2>2, <2>5, <3>1 DEF ReplySound
    <3> QED
      BY <2>1, <3>1, <3>2
  <2>6. ReplySound(rest, own, cs, hs, i)
    BY <2>1, <2>2, <2>3, <2>5 DEF ReplySound
  <2> QED
    BY <2>4, <2>6
<1>4. ASSUME Head(box).type \in ReplyTypes PROVE Unused(rest, Head(box).serial)
  <2>1. ReplySound(box, own, cs, hs, 1)
    BY <1>1 DEF InboxSound
  <2>2. ASSUME NEW j \in DOMAIN rest, rest[j].type \in ReplyTypes,
               rest[j].serial = Head(box).serial
        PROVE  FALSE
    <3>1. j \in Nat \ {0} /\ j + 1 \in DOMAIN box /\ rest[j] = box[j + 1]
      BY <1>1
    <3>2. j + 1 = 1
      BY <1>1, <1>4, <2>1, <2>2, <3>1 DEF ReplySound
    <3> QED
      BY <3>1, <3>2
  <2> QED
    BY <2>2 DEF Unused
<1>5. ASSUME NEW n, Unused(box, n) PROVE Unused(rest, n)
  <2>1. ASSUME NEW j \in DOMAIN rest PROVE j + 1 \in DOMAIN box /\ rest[j] = box[j + 1]
    BY <1>1
  <2> QED
    BY <1>5, <2>1 DEF Unused
<1> QED
  BY <1>3, <1>4, <1>5 DEF InboxSound

\* A message that is put at the end leaves those before it sound.
LEMMA MessageAppended ==
    ASSUME NEW box \in Seq(Message), NEW m \in Message, NEW own, NEW after, NEW cs, NEW hs,
           InboxSound(box, own, cs, hs),
           \A s \in Services : IsChange(m, s) => m.old = own[s],
           \A s \in Services : ~IsChange(m, s) => after[s] = own[s],
           m.type = "NameOwnerChanged" =>
              after[m.name] = m.new /\ (m.new # None => m.old = None),
           m.type \in ReplyTypes =>
              /\ hs[m.serial] # None
              /\ cs[m.serial] = None
              /\ Unused(box, m.serial)
              /\ m.type \in {"Owner", "Items"} => hs[m.serial].service \in Services
              /\ m.type = "Owner" => own[hs[m.serial].service] = m.owner
              /\ m.type = "Items" => own[hs[m.serial].service] # None
    PROVE  /\ InboxSound(Append(box, m), after, cs, hs)
           /\ \A s \in Services :
                 OwnerAt(Append(box, m), after, 1, s) = OwnerAt(box, own, 1, s)
<1> DEFINE all == Append(box, m)
           last == Len(box) + 1
<1>0. SUFFICES /\ InboxSound(all, after, cs, hs)
               /\ \A s \in Services : OwnerAt(all, after, 1, s) = OwnerAt(box, own, 1, s)
  OBVIOUS
<1>1. /\ all \in Seq(Message) /\ DOMAIN all = 1 .. last /\ DOMAIN box = 1 .. Len(box)
      /\ Len(all) = last /\ all[last] = m /\ \A j \in DOMAIN box : all[j] = box[j]
      /\ Len(box) \in Nat /\ last = Len(box) + 1 /\ last \in Nat
  BY AppendProperties
<1>2. \A i \in 1 .. last, s \in Services :
         OwnerAt(all, after, i, s) = OwnerAt(box, own, i, s)
  <2> SUFFICES ASSUME NEW i \in 1 .. last, NEW s \in Services
               PROVE  OwnerAt(all, after, i, s) = OwnerAt(box, own, i, s)
    OBVIOUS
  <2>1. (IsChange(m, s) => m.old = own[s]) /\ (~IsChange(m, s) => after[s] = own[s])
    OBVIOUS
  <2>2. i \in 1 .. Len(box) + 1
    OBVIOUS
  <2>3. OwnerAt(Append(box, m), after, i, s) = OwnerAt(box, own, i, s)
    BY <2>1, <2>2, OwnerAtAppend
  <2> QED
    BY <2>3
<1> HIDE DEF all, last
<1>3. \A s \in Services : OwnerAt(all, after, last + 1, s) = after[s]
  <2>1. all \in Seq(Message) /\ last + 1 \in Nat /\ last + 1 > Len(all)
    BY <1>1
  <2> SUFFICES ASSUME NEW s \in Services PROVE OwnerAt(all, after, last + 1, s) = after[s]
    OBVIOUS
  <2> QED
    BY <2>1, OwnerAtEnd
<1>4. \A s \in Services : OwnerAt(box, own, last, s) = own[s]
  <2>1. last \in Nat /\ last > Len(box)
    BY <1>1
  <2> SUFFICES ASSUME NEW s \in Services PROVE OwnerAt(box, own, last, s) = own[s]
    OBVIOUS
  <2> QED
    BY <2>1, OwnerAtEnd
<1>5. ASSUME NEW i \in DOMAIN box
      PROVE  ChangeSound(all, after, i) /\ ReplySound(all, after, cs, hs, i)
  <2>1. i \in 1 .. last /\ i + 1 \in 1 .. last /\ all[i] = box[i] /\ i # last
    BY <1>1
  <2>2. ChangeSound(box, own, i) /\ ReplySound(box, own, cs, hs, i)
    BY DEF InboxSound
  <2>3. ChangeSound(all, after, i)
    <3>1. box[i].type = "NameOwnerChanged" => box[i].name \in Services
      BY MessageParts, ElementOfSeq, <1>1
    <3> QED
      BY <1>2, <2>1, <2>2, <3>1 DEF ChangeSound
  <2>4. ASSUME all[i].type \in ReplyTypes, NEW j \in DOMAIN all,
               all[j].type \in ReplyTypes, all[j].serial = all[i].serial
        PROVE  j = i
    <3>1. CASE j \in DOMAIN box
      BY <1>1, <2>1, <2>2, <2>4, <3>1 DEF ReplySound
    <3>2. CASE j = last
      BY <1>1, <2>1, <2>4, <3>2 DEF Unused
    <3> QED
      BY <1>1, <3>1, <3>2
  <2>5. ReplySound(all, after, cs, hs, i)
    BY <1>2, <2>1, <2>2, <2>4 DEF ReplySound
  <2> QED
    BY <2>3, <2>5
<1>6. ChangeSound(all, after, last)
  <2>1. m.type = "NameOwnerChanged" => m.name \in Services
    BY MessageParts
  <2> QED
    BY <1>1, <1>3, <2>1 DEF ChangeSound
<1>7. ReplySound(all, after, cs, hs, last)
  <2>1. \A s \in Services : OwnerAt(all, after, last, s) = own[s]
    <3>1. last \in 1 .. last
      BY <1>1
    <3> QED
      BY <1>2, <1>4, <3>1
  <2>2. ASSUME m.type \in ReplyTypes, NEW j \in DOMAIN all,
               all[j].type \in ReplyTypes, all[j].serial = m.serial
        PROVE  j = last
    <3>1. j \notin DOMAIN box
      BY <1>1, <2>2 DEF Unused
    <3> QED
      BY <1>1, <3>1
  <2> QED
    BY <1>1, <2>1, <2>2 DEF ReplySound
<1>8. \A i \in DOMAIN all : i \in DOMAIN box \/ i = last
  BY <1>1
<1>9. InboxSound(all, after, cs, hs)
  BY <1>5, <1>6, <1>7, <1>8 DEF InboxSound
<1> QED
  BY <1>1, <1>2, <1>9

----------------------------------------------------------------------------
(* Calls and their handlers.                                               *)

\* A serial that is free has no call and no answer.
LEMMA FreeUnused ==
    ASSUME NEW box \in Seq(Message), NEW own, NEW cs, NEW hs,
           InboxSound(box, own, cs, hs), CallsSound(cs, hs),
           NEW n \in Serials, hs[n] = None
    PROVE  cs[n] = None /\ Unused(box, n)
BY DEF InboxSound, ReplySound, CallsSound, Unused

\* What a handler may do to calls and handlers: a serial of which no answer is
\* left in the box may get a call and its handler, or lose both.
CallsMove(box, cs, hs, cs2, hs2) ==
    \A n \in Serials :
        \/ cs2[n] = cs[n] /\ hs2[n] = hs[n]
        \/ /\ Unused(box, n)
           /\ cs2[n] # None => hs2[n] # None /\ hs2[n].service = cs2[n].service

LEMMA CallsMoved ==
    ASSUME NEW box \in Seq(Message), NEW own, NEW cs, NEW hs, NEW cs2, NEW hs2,
           InboxSound(box, own, cs, hs), CallsSound(cs, hs),
           CallsMove(box, cs, hs, cs2, hs2)
    PROVE  InboxSound(box, own, cs2, hs2) /\ CallsSound(cs2, hs2)
<1>1. InboxSound(box, own, cs2, hs2)
  BY CallsChange DEF CallsMove
<1>2. CallsSound(cs2, hs2)
  BY DEF CallsSound, CallsMove
<1> QED
  BY <1>1, <1>2

----------------------------------------------------------------------------
(* The bus keeps the order.                                                *)

\* Whatever the bus adds, the plugin has seen what it had seen.
LEMMA OrderAfterBus ==
    ASSUME OrderInv, UNCHANGED registryVars,
           InboxSound(inbox', owner', calls', async_handlers),
           CallsSound(calls', async_handlers),
           \A s \in Services : OwnerAt(inbox', owner', 1, s) = OwnerAt(inbox, owner, 1, s),
           service_id_to_names \in [Owners -> Services \cup {None}]
    PROVE  OrderInv'
<1>1. UNCHANGED <<async_handlers, service_id_to_names, dbus_service_items,
                  service_names_to_instance>>
  BY DEF registryVars
<1>2. IdsSound(service_id_to_names', inbox', owner')
  BY <1>1 DEF OrderInv, IdsSound
<1>3. RegisteredSound(dbus_service_items', service_names_to_instance', inbox', owner')
  BY <1>1 DEF OrderInv, RegisteredSound
<1> QED
  BY <1>1, <1>2, <1>3 DEF OrderInv

LEMMA AppearOrder ==
    ASSUME Inv, OrderInv, NEW s \in Services, NEW o \in Owners, Appear(s, o),
           UNCHANGED registryVars
    PROVE  OrderInv'
<1> DEFINE m == [type |-> "NameOwnerChanged", name |-> s, old |-> None, new |-> o]
<1>1. m \in Message /\ m.type = "NameOwnerChanged" /\ m.type \notin ReplyTypes
  BY DEF Message, OwnerChange, ReplyTypes
<1>2. inbox \in Seq(Message) /\ owner \in [Services -> Owners \cup {None}]
  BY DEF Inv, BusTypeOK
<1>3. inbox' = Append(inbox, m) /\ owner' = [owner EXCEPT ![s] = o] /\ calls' = calls
  BY DEF Appear
<1>4. \A t \in Services : IsChange(m, t) => m.old = owner[t]
  BY DEF IsChange, Appear
<1>5. \A t \in Services : ~IsChange(m, t) => owner'[t] = owner[t]
  BY <1>2, <1>3 DEF IsChange
<1>6. owner'[m.name] = m.new /\ (m.new # None => m.old = None)
  BY <1>2, <1>3
<1> HIDE DEF m
<1>7. InboxSound(inbox, owner, calls, async_handlers)
  BY DEF OrderInv
<1>8. /\ InboxSound(Append(inbox, m), owner', calls, async_handlers)
      /\ \A t \in Services :
            OwnerAt(Append(inbox, m), owner', 1, t) = OwnerAt(inbox, owner, 1, t)
  BY <1>1, <1>2, <1>4, <1>5, <1>6, <1>7, MessageAppended
<1> QED
  BY <1>3, <1>8, OrderAfterBus DEF Inv, HandlerInv, OrderInv

LEMMA VanishOrder ==
    ASSUME Inv, OrderInv, NEW s \in Services, Vanish(s), UNCHANGED registryVars
    PROVE  OrderInv'
<1> DEFINE m == [type |-> "NameOwnerChanged", name |-> s, old |-> owner[s], new |-> None]
<1>2. inbox \in Seq(Message) /\ owner \in [Services -> Owners \cup {None}]
  BY DEF Inv, BusTypeOK
<1>1. m \in Message /\ m.type = "NameOwnerChanged" /\ m.type \notin ReplyTypes
  BY <1>2 DEF Message, OwnerChange, ReplyTypes
<1>3. inbox' = Append(inbox, m) /\ owner' = [owner EXCEPT ![s] = None] /\ calls' = calls
  BY DEF Vanish
<1>4. \A t \in Services : IsChange(m, t) => m.old = owner[t]
  BY DEF IsChange
<1>5. \A t \in Services : ~IsChange(m, t) => owner'[t] = owner[t]
  BY <1>2, <1>3 DEF IsChange
<1>6. owner'[m.name] = m.new /\ (m.new # None => m.old = None)
  BY <1>2, <1>3
<1> HIDE DEF m
<1>7. InboxSound(inbox, owner, calls, async_handlers)
  BY DEF OrderInv
<1>8. /\ InboxSound(Append(inbox, m), owner', calls, async_handlers)
      /\ \A t \in Services :
            OwnerAt(Append(inbox, m), owner', 1, t) = OwnerAt(inbox, owner, 1, t)
  BY <1>1, <1>2, <1>4, <1>5, <1>6, <1>7, MessageAppended
<1> QED
  BY <1>3, <1>8, OrderAfterBus DEF Inv, HandlerInv, OrderInv

\* A message that is neither an owner change nor an answer matters to no place.
LEMMA ChangeAppended ==
    ASSUME NEW box \in Seq(Message), NEW m \in ItemChange, NEW own, NEW cs, NEW hs,
           InboxSound(box, own, cs, hs)
    PROVE  /\ InboxSound(Append(box, m), own, cs, hs)
           /\ \A s \in Services : OwnerAt(Append(box, m), own, 1, s) = OwnerAt(box, own, 1, s)
<1>1. m \in Message /\ m.type = "ItemsChanged"
  BY DEF Message, ItemChange
<1>2. m.type # "NameOwnerChanged" /\ m.type \notin ReplyTypes /\ \A s : ~IsChange(m, s)
  BY <1>1 DEF ReplyTypes, IsChange
<1> QED
  BY <1>1, <1>2, MessageAppended

LEMMA ChangeOrder ==
    ASSUME Inv, OrderInv, NEW s \in Services, NEW p \in Paths, NEW v \in Values,
           Change(s, p, v), UNCHANGED registryVars
    PROVE  OrderInv'
<1>1. inbox \in Seq(Message) /\ Signal(s, p, v) \in ItemChange
  BY DEF Inv, BusTypeOK, Change, Signal, ItemChange
<1>2. owner' = owner /\ calls' = calls
  BY DEF Change
<1>3. inbox' = inbox \/ inbox' = Append(inbox, Signal(s, p, v))
  BY DEF Change
<1>4. /\ InboxSound(inbox', owner, calls, async_handlers)
      /\ \A t \in Services : OwnerAt(inbox', owner, 1, t) = OwnerAt(inbox, owner, 1, t)
  <2>1. InboxSound(inbox, owner, calls, async_handlers)
    BY DEF OrderInv
  <2>2. CASE inbox' = inbox
    BY <2>1, <2>2
  <2>3. CASE inbox' = Append(inbox, Signal(s, p, v))
    BY <1>1, <2>1, <2>3, ChangeAppended
  <2> QED
    BY <1>3, <2>2, <2>3
<1> QED
  BY <1>2, <1>4, OrderAfterBus DEF Inv, HandlerInv, OrderInv

LEMMA BusAnswerOrder ==
    ASSUME Inv, OrderInv, NEW n \in Serials, BusAnswer(n), UNCHANGED registryVars
    PROVE  OrderInv'
<1>1. PICK before, reply : AnswerOf(n, before, reply)
  BY BusAnswerIs DEF Inv
<1> DEFINE box == inbox \o before
<1>2. /\ inbox \in Seq(Message) /\ calls \in [Serials -> Call \cup {None}]
      /\ async_handlers[n] # None /\ async_handlers[n].service = calls[n].service
  BY <1>1 DEF Inv, BusTypeOK, AnswerOf, OrderInv, CallsSound
<1>3. calls' = [calls EXCEPT ![n] = None] /\ inbox' = Append(box, reply) /\ owner' = owner
  BY <1>1 DEF AnswerOf, Answer
<1>4. Unused(inbox, n)
  BY <1>1 DEF OrderInv, InboxSound, ReplySound, Unused, AnswerOf
<1>5. /\ box \in Seq(Message)
      /\ InboxSound(box, owner, calls, async_handlers)
      /\ \A s \in Services : OwnerAt(box, owner, 1, s) = OwnerAt(inbox, owner, 1, s)
      /\ Unused(box, n)
  <2>1. CASE before = <<>>
    BY <1>2, <1>4, <2>1, ConcatEmptySeq DEF OrderInv
  <2>2. CASE \E m \in ItemChange : before = <<m>>
    <3>1. PICK m \in ItemChange : before = <<m>>
      BY <2>2
    <3>2. m \in Message /\ m.type \notin ReplyTypes
      BY DEF Message, ItemChange, ReplyTypes
    <3>3. box = Append(inbox, m)
      BY <1>2, <3>1, <3>2, AppendIsConcat
    <3> HIDE DEF box
    <3>4. /\ box \in Seq(Message) /\ DOMAIN box = 1 .. Len(inbox) + 1
          /\ \A j \in DOMAIN inbox : box[j] = inbox[j]
          /\ DOMAIN inbox = 1 .. Len(inbox) /\ box[Len(inbox) + 1] = m
      BY <1>2, <3>2, <3>3, AppendProperties
    <3>5. \A j \in DOMAIN box : j \in DOMAIN inbox \/ j = Len(inbox) + 1
      BY <1>2, <3>4
    <3>6. Unused(box, n)
      BY <1>4, <3>2, <3>4, <3>5 DEF Unused
    <3> QED
      BY <1>2, <3>3, <3>4, <3>6, ChangeAppended DEF OrderInv
  <2> QED
    BY <1>1, <2>1, <2>2 DEF AnswerOf
<1> HIDE DEF box
<1>6. InboxSound(box, owner, calls', async_handlers)
  BY <1>2, <1>3, <1>5, CallsChange
<1>7. reply \in Message /\ reply.serial = n /\ reply.type \in ReplyTypes
  BY <1>1 DEF AnswerOf, Message, Reply, NamesReply, OwnerReply, ItemsReply, LeafReply,
              DoneReply, ErrorReply, ReplyTypes
<1>8. reply.type # "NameOwnerChanged" /\ \A s : ~IsChange(reply, s)
  BY <1>7 DEF ReplyTypes, IsChange
<1>9. /\ reply.type \in {"Owner", "Items"} => async_handlers[n].service \in Services
      /\ reply.type = "Owner" => owner[async_handlers[n].service] = reply.owner
      /\ reply.type = "Items" => owner[async_handlers[n].service] # None
  BY <1>1, <1>2 DEF AnswerOf, AnswerTells
<1>10. calls'[n] = None
  BY <1>2, <1>3
<1>11. /\ InboxSound(Append(box, reply), owner, calls', async_handlers)
       /\ \A s \in Services : OwnerAt(Append(box, reply), owner, 1, s) = OwnerAt(box, owner, 1, s)
  <2>1. /\ async_handlers[reply.serial] # None
        /\ calls'[reply.serial] = None
        /\ Unused(box, reply.serial)
        /\ reply.type \in {"Owner", "Items"} => async_handlers[reply.serial].service \in Services
        /\ reply.type = "Owner" => owner[async_handlers[reply.serial].service] = reply.owner
        /\ reply.type = "Items" => owner[async_handlers[reply.serial].service] # None
    BY <1>2, <1>5, <1>7, <1>9, <1>10
  <2> QED
    BY <1>5, <1>6, <1>7, <1>8, <2>1, MessageAppended
<1>12. CallsSound(calls', async_handlers)
  BY <1>2, <1>3 DEF OrderInv, CallsSound
<1> QED
  BY <1>3, <1>5, <1>11, <1>12, OrderAfterBus DEF Inv, HandlerInv

LEMMA BusOrder ==
    ASSUME Inv, OrderInv, Bus PROVE OrderInv'
<1>1. UNCHANGED registryVars
  BY DEF Bus
<1>2. ASSUME NEW s \in Services, NEW p \in Paths, AddPath(s, p) PROVE OrderInv'
  <2>1. UNCHANGED <<owner, calls, inbox>>
    BY <1>2 DEF AddPath
  <2> QED
    BY <1>1, <2>1 DEF OrderInv, registryVars
<1> QED
  BY <1>1, <1>2, AppearOrder, VanishOrder, ChangeOrder, BusAnswerOrder DEF Bus

----------------------------------------------------------------------------
(* The plugin keeps the order: one lemma per action.                       *)

\* Taking a message off the inbox, the plugin sees the owners at the next one.
\* The owner of a service is another only if the message tells its change.
LEMMA NextSeen ==
    ASSUME Inv, OrderInv, inbox # <<>>
    PROVE  /\ \A s \in Services :
                 OwnerAt(Tail(inbox), owner, 1, s) =
                    IF IsChange(Head(inbox), s) THEN Head(inbox).new
                    ELSE OwnerAt(inbox, owner, 1, s)
           /\ \A s \in Services :
                 IsChange(Head(inbox), s) => OwnerAt(inbox, owner, 1, s) = Head(inbox).old
           /\ Head(inbox).type = "NameOwnerChanged" /\ Head(inbox).new # None
                 => Head(inbox).old = None
<1>1. /\ inbox \in Seq(Message) /\ 1 \in DOMAIN inbox /\ Head(inbox) = inbox[1]
  BY HeadTailProperties DEF Inv, BusTypeOK
<1>2. ChangeSound(inbox, owner, 1)
  BY <1>1 DEF OrderInv, InboxSound
<1>3. ASSUME NEW s \in Services
      PROVE  OwnerAt(Tail(inbox), owner, 1, s) = OwnerAt(inbox, owner, 1 + 1, s)
  BY <1>1, OwnerAtTail
<1>4. ASSUME NEW s \in Services, IsChange(Head(inbox), s)
      PROVE  OwnerAt(inbox, owner, 1 + 1, s) = Head(inbox).new
  BY <1>1, <1>2, <1>4 DEF ChangeSound, IsChange
<1>5. ASSUME NEW s \in Services, ~IsChange(Head(inbox), s)
      PROVE  OwnerAt(inbox, owner, 1 + 1, s) = OwnerAt(inbox, owner, 1, s)
  BY <1>1, <1>5, OwnerAtOther
<1>6. ASSUME NEW s \in Services, IsChange(Head(inbox), s)
      PROVE  OwnerAt(inbox, owner, 1, s) = Head(inbox).old
  BY <1>1, <1>6, OwnerAtChange
<1>7. Head(inbox).type = "NameOwnerChanged" /\ Head(inbox).new # None
         => Head(inbox).old = None
  BY <1>1, <1>2 DEF ChangeSound
<1> QED
  BY <1>3, <1>4, <1>5, <1>6, <1>7

\* What is left of the inbox, with the calls that a handler makes.
LEMMA OrderAfterDispatch ==
    ASSUME Inv, OrderInv, inbox # <<>>, inbox' = Tail(inbox), owner' = owner,
           CallsMove(Tail(inbox), calls, async_handlers, calls', async_handlers'),
           IdsSound(service_id_to_names', Tail(inbox), owner),
           RegisteredSound(dbus_service_items', service_names_to_instance', Tail(inbox), owner)
    PROVE  OrderInv'
<1>1. inbox \in Seq(Message) /\ Tail(inbox) \in Seq(Message)
  BY InboxTyped DEF Inv, BusTypeOK
<1>2. InboxSound(Tail(inbox), owner, calls, async_handlers)
  BY <1>1, TailSound DEF OrderInv
<1>3. CallsSound(calls, async_handlers)
  BY DEF OrderInv
<1> DEFINE rest == Tail(inbox)
<1> HIDE DEF rest
<1>4. /\ InboxSound(rest, owner, calls', async_handlers')
      /\ CallsSound(calls', async_handlers')
  <2>1. /\ rest \in Seq(Message) /\ InboxSound(rest, owner, calls, async_handlers)
        /\ CallsMove(rest, calls, async_handlers, calls', async_handlers')
    BY <1>1, <1>2 DEF rest
  <2> QED
    BY <1>3, <2>1, CallsMoved
<1>5. inbox' = rest
  BY DEF rest
<1>6. /\ IdsSound(service_id_to_names', rest, owner)
      /\ RegisteredSound(dbus_service_items', service_names_to_instance', rest, owner)
  BY DEF rest
<1> QED
  BY <1>4, <1>5, <1>6 DEF OrderInv

\* A serial that is free can take a new call.
LEMMA FreeCanCall ==
    ASSUME Inv, OrderInv, inbox # <<>>, NEW n \in FreeSerials
    PROVE  n \in Serials /\ Unused(Tail(inbox), n) /\ Unused(inbox, n) /\ calls[n] = None
<1>1. /\ inbox \in Seq(Message) /\ n \in Serials /\ async_handlers[n] = None
      /\ InboxSound(inbox, owner, calls, async_handlers) /\ CallsSound(calls, async_handlers)
  BY DEF Inv, BusTypeOK, OrderInv, FreeSerials
<1>2. calls[n] = None /\ Unused(inbox, n)
  BY <1>1, FreeUnused
<1> QED
  BY <1>1, <1>2, TailSound

\* The answer that is dispatched: its call is closed, its serial may be used again,
\* and what it tells is true of what the plugin has seen.
LEMMA TheAnswer ==
    ASSUME Inv, OrderInv, NEW kind, NEW types,
           types \subseteq {"Names", "Owner", "Items", "Leaf", "Done", "Error"},
           ReplyTo(kind, types)
    PROVE  /\ TheSerial \in Serials /\ calls[TheSerial] = None
           /\ Unused(Tail(inbox), TheSerial)
           /\ Head(inbox).type \in {"Owner", "Items"} => TheHandler.service \in Services
           /\ Head(inbox).type = "Owner" =>
                 OwnerAt(inbox, owner, 1, TheHandler.service) = Head(inbox).owner
           /\ Head(inbox).type = "Items" =>
                 OwnerAt(inbox, owner, 1, TheHandler.service) # None
           /\ \A s \in Services :
                 OwnerAt(Tail(inbox), owner, 1, s) = OwnerAt(inbox, owner, 1, s)
<1>1. /\ inbox \in Seq(Message) /\ inbox # <<>> /\ 1 \in DOMAIN inbox /\ Head(inbox) = inbox[1]
      /\ Head(inbox).type \in types
  BY HeadTailProperties DEF Inv, BusTypeOK, ReplyTo
<1>2. Head(inbox).type \in ReplyTypes /\ Head(inbox).type # "NameOwnerChanged"
  BY <1>1 DEF ReplyTypes
<1>3. ReplySound(inbox, owner, calls, async_handlers, 1)
  BY <1>1 DEF OrderInv, InboxSound
<1>4. /\ calls[TheSerial] = None
      /\ Head(inbox).type \in {"Owner", "Items"} => TheHandler.service \in Services
      /\ Head(inbox).type = "Owner" =>
            OwnerAt(inbox, owner, 1, TheHandler.service) = Head(inbox).owner
      /\ Head(inbox).type = "Items" => OwnerAt(inbox, owner, 1, TheHandler.service) # None
  BY <1>1, <1>2, <1>3 DEF ReplySound, TheSerial, TheHandler
<1>5. TheSerial \in Serials
  BY ReplyParts
<1>6. Unused(Tail(inbox), TheSerial)
  BY <1>1, <1>2, TailSound DEF OrderInv, TheSerial
<1>7. \A s : ~IsChange(Head(inbox), s)
  BY <1>2 DEF IsChange
<1> QED
  BY <1>1, <1>4, <1>5, <1>6, <1>7, NextSeen

\* Most answers change neither map of services.
LEMMA OrderAfterAnswer ==
    ASSUME Inv, OrderInv, NEW kind, NEW types,
           types \subseteq {"Names", "Owner", "Items", "Leaf", "Done", "Error"},
           ReplyTo(kind, types), owner' = owner,
           CallsMove(Tail(inbox), calls, async_handlers, calls', async_handlers'),
           UNCHANGED <<service_id_to_names, service_names_to_instance>>,
           \A s \in Services : Mapped(dbus_service_items', s) => Mapped(dbus_service_items, s)
    PROVE  OrderInv'
<1>1. \A s \in Services : OwnerAt(Tail(inbox), owner, 1, s) = OwnerAt(inbox, owner, 1, s)
  BY TheAnswer
<1>2. IdsSound(service_id_to_names', Tail(inbox), owner)
  <2>1. service_id_to_names \in [Owners -> Services \cup {None}]
    BY DEF Inv, HandlerInv
  <2> QED
    BY <1>1, <2>1 DEF OrderInv, IdsSound
<1>3. RegisteredSound(dbus_service_items', service_names_to_instance', Tail(inbox), owner)
  BY <1>1 DEF OrderInv, RegisteredSound
<1>4. inbox # <<>> /\ inbox' = Tail(inbox)
  BY DEF ReplyTo
<1> QED
  BY <1>2, <1>3, <1>4, OrderAfterDispatch

\* A handler that is only closed moves no call.
LEMMA ClosedMoves ==
    ASSUME Inv, OrderInv, NEW kind, NEW types,
           types \subseteq {"Names", "Owner", "Items", "Leaf", "Done", "Error"},
           ReplyTo(kind, types), async_handlers' = Closed(TheSerial), calls' = calls
    PROVE  CallsMove(Tail(inbox), calls, async_handlers, calls', async_handlers')
<1>1. calls[TheSerial] = None /\ Unused(Tail(inbox), TheSerial) /\ TheSerial \in Serials
  BY TheAnswer
<1>2. \A n \in Serials : n # TheSerial => async_handlers'[n] = async_handlers[n]
  BY DEF Closed, Inv, HandlerInv
<1> QED
  BY <1>1, <1>2 DEF CallsMove

\* What is mapped stays mapped while the queue is worked off.
LEMMA AttemptMaps ==
    ASSUME RegistryInv
    PROVE  \A s \in Services : Mapped(Attempted.items, s) <=> Mapped(dbus_service_items, s)
<1>1. delayed_changed_values \in SUBSET Queued /\ dbus_service_items \in ItemStore
  BY DEF RegistryInv, RegistrySound, Sound, Now
<1>2. Attempted.items = ItemsAfter(delayed_changed_values, dbus_service_items)
  BY DEF Attempted, attempt_to_process_delayed_changes
<1> QED
  BY <1>1, <1>2, ItemsAfterSound DEF Mapped

\* Mapping items registers their service, and no other one.
LEMMA MapItemsRegisters ==
    ASSUME NEW queue, NEW all, NEW view,
           NEW s \in Services, NEW items \in ItemMap, NEW force, NEW t \in Services, t # s,
           RegistryInv,
           Sound(Now(queue, all, view), delayed_count, service_names_to_instance),
           MapItems(Now(queue, all, view), s, items, force)
    PROVE  /\ service_names_to_instance'[t] = service_names_to_instance[t]
           /\ Mapped(dbus_service_items', t) <=> Mapped(all, t)
<1> DEFINE i == InstanceOf(s, items)
           mapped == WithItems(all, s, i, items)
<1>1. /\ service_names_to_instance \in InstanceMap /\ all \in ItemStore
      /\ queue \in SUBSET Queued /\ Agreeing(all, service_names_to_instance)
  BY DEF RegistryInv, RegistrySound, Sound, Now
<1>2. i \in Instances /\ (service_names_to_instance[s] # None => i = service_names_to_instance[s])
  BY <1>1, InstanceOfTyped
<1>3. /\ service_names_to_instance' = [service_names_to_instance EXCEPT ![s] = i]
      /\ dbus_service_items' = ItemsAfter(queue, mapped)
  BY DEF MapItems, Now, Become, attempt_to_process_delayed_changes
<1> HIDE DEF i
<1>4. mapped \in ItemStore /\ \A p \in Paths : mapped[t][p] = all[t][p]
  <2>1. /\ mapped \in ItemStore
        /\ \A u \in Services, p \in Paths :
              mapped[u][p] = IF u = s /\ items[p] # Absent
                             THEN [value |-> items[p], instance |-> i] ELSE all[u][p]
    BY <1>1, <1>2, WithItemsSound
  <2> HIDE DEF mapped
  <2> QED
    BY <2>1
<1> HIDE DEF mapped
<1>5. Mapped(dbus_service_items', t) <=> Mapped(mapped, t)
  BY <1>1, <1>3, <1>4, ItemsAfterSound DEF Mapped
<1> QED
  BY <1>1, <1>3, <1>4, <1>5 DEF InstanceMap, Mapped

LEMMA ServiceAppearedOrder ==
    ASSUME Inv, OrderInv, ServiceAppeared PROVE OrderInv'
<1> DEFINE s == Head(inbox).name
           o == Head(inbox).new
           rest == Tail(inbox)
<1>1. /\ inbox # <<>> /\ inbox' = Tail(inbox) /\ owner' = owner
      /\ Head(inbox).type = "NameOwnerChanged" /\ o # None
      /\ service_names_to_instance' = service_names_to_instance
      /\ service_id_to_names' = [service_id_to_names EXCEPT ![o] = s]
      /\ dbus_service_items' = Attempted.items
  BY DEF ServiceAppeared, Receive, Become
<1>2. s \in Services /\ o \in Owners
  BY <1>1, InboxTyped, MessageParts DEF Inv
<1>3. /\ IsChange(Head(inbox), s) /\ \A t : t # s => ~IsChange(Head(inbox), t)
  BY <1>1 DEF IsChange
<1>4. /\ OwnerAt(inbox, owner, 1, s) = None /\ OwnerAt(rest, owner, 1, s) = o
      /\ \A t \in Services : t # s => OwnerAt(rest, owner, 1, t) = OwnerAt(inbox, owner, 1, t)
  BY <1>1, <1>2, <1>3, NextSeen
<1>5. service_id_to_names \in [Owners -> Services \cup {None}]
  BY DEF Inv, HandlerInv
<1>6. CallsMove(rest, calls, async_handlers, calls', async_handlers')
  <2>1. PICK n \in Serials : /\ n \in FreeSerials
                             /\ calls' = [calls EXCEPT ![n] = NameOwnerCall(s)]
                             /\ async_handlers' = [async_handlers EXCEPT ![n] = NameOwnerHandler(s)]
    BY DEF ServiceAppeared, scan_dbus_service, NextSerial, call_method
  <2>2. /\ calls \in [Serials -> Call \cup {None}]
        /\ async_handlers \in [Serials -> Handler \cup {None}]
        /\ NameOwnerHandler(s) \in Handler /\ None \notin Handler
        /\ NameOwnerHandler(s).service = NameOwnerCall(s).service
    <3>1. NameOwnerHandler(s) \in Handler
      BY <1>2, HandlingTyped
    <3>2. NameOwnerHandler(s).service = NameOwnerCall(s).service
      BY DEF NameOwnerHandler, NameOwnerCall, Handling, Sending
    <3> QED
      BY <3>1, <3>2, HandlerAssumption DEF Inv, BusTypeOK, HandlerInv
  <2>3. Unused(rest, n)
    BY <1>1, <2>1, FreeCanCall
  <2> HIDE DEF rest
  <2> QED
    BY <2>1, <2>2, <2>3 DEF CallsMove
<1> HIDE DEF rest
<1>7. IdsSound(service_id_to_names', rest, owner)
  <2> SUFFICES ASSUME NEW u \in Owners, service_id_to_names'[u] # None
               PROVE  u = OwnerAt(rest, owner, 1, service_id_to_names'[u])
    BY DEF IdsSound
  <2>1. CASE u = o
    BY <1>1, <1>2, <1>4, <1>5, <2>1
  <2>2. CASE u # o
    <3>1. service_id_to_names'[u] = service_id_to_names[u]
      BY <1>1, <1>5, <2>2
    <3>2. u = OwnerAt(inbox, owner, 1, service_id_to_names[u])
      BY <3>1 DEF OrderInv, IdsSound
    <3>3. service_id_to_names[u] # s
      BY <1>4, <3>2, BusAssumption
    <3> QED
      BY <1>4, <1>5, <3>1, <3>2, <3>3
  <2> QED
    BY <2>1, <2>2
<1>8. RegisteredSound(dbus_service_items', service_names_to_instance', rest, owner)
  <2> SUFFICES ASSUME NEW t \in Services,
                      Mapped(dbus_service_items', t) \/ service_names_to_instance'[t] # None
               PROVE  OwnerAt(rest, owner, 1, t) # None
    BY DEF RegisteredSound
  <2>1. CASE t = s
    BY <1>1, <1>4, <2>1
  <2>2. CASE t # s
    <3>1. Mapped(dbus_service_items, t) \/ service_names_to_instance[t] # None
      BY <1>1, AttemptMaps DEF Inv
    <3> QED
      BY <1>4, <2>2, <3>1 DEF OrderInv, RegisteredSound
  <2> QED
    BY <2>1, <2>2
<1> QED
  BY <1>1, <1>6, <1>7, <1>8, OrderAfterDispatch DEF rest

\* After its removal the plugin has no owner, no item and no instance of a service.
LEMMA ServiceDisappearedOrder ==
    ASSUME Inv, OrderInv, ServiceDisappeared PROVE OrderInv'
<1> DEFINE s == Head(inbox).name
           o == Head(inbox).old
           rest == Tail(inbox)
           ids == remove_id_to_owner(o)
<1>1. /\ inbox # <<>> /\ inbox' = Tail(inbox) /\ owner' = owner
      /\ Head(inbox).type = "NameOwnerChanged" /\ Head(inbox).new = None /\ o # None
      /\ UNCHANGED <<calls, async_handlers>>
      /\ service_names_to_instance' = [service_names_to_instance EXCEPT ![s] = None]
      /\ service_id_to_names' \in EraseOneValue(ids, s)
      /\ dbus_service_items' = [Attempted.items EXCEPT ![s] = [p \in Paths |-> Absent]]
  BY DEF ServiceDisappeared, Receive, Become, remove_dbus_service, WithoutItems
<1>2. s \in Services /\ o \in Owners
  BY <1>1, InboxTyped, MessageParts DEF Inv
<1>3. /\ IsChange(Head(inbox), s) /\ \A t : t # s => ~IsChange(Head(inbox), t)
  BY <1>1 DEF IsChange
<1>4. /\ OwnerAt(inbox, owner, 1, s) = o
      /\ \A t \in Services : t # s => OwnerAt(rest, owner, 1, t) = OwnerAt(inbox, owner, 1, t)
  BY <1>1, <1>2, <1>3, NextSeen
<1>5. /\ service_id_to_names \in [Owners -> Services \cup {None}]
      /\ service_names_to_instance \in InstanceMap
      /\ dbus_service_items \in ItemStore
  BY DEF Inv, HandlerInv, RegistryInv, RegistrySound, Sound, Now
<1>6. CallsMove(rest, calls, async_handlers, calls', async_handlers')
  BY <1>1 DEF CallsMove
<1> HIDE DEF rest
<1>7. \A u \in Owners : service_id_to_names'[u] \in {None, service_id_to_names[u]}
                        /\ service_id_to_names'[u] # s
  <2>1. /\ ids \in [Owners -> Services \cup {None}]
        /\ \A u \in Owners : ids[u] \in {None, service_id_to_names[u]} /\ ids[u] # s
    <3>1. ids = [service_id_to_names EXCEPT ![o] = None]
      BY DEF remove_id_to_owner
    <3>2. \A u \in Owners : service_id_to_names[u] = s => u = o
      BY <1>2, <1>4, BusAssumption DEF OrderInv, IdsSound
    <3> QED
      BY <1>2, <1>5, <3>1, <3>2, BusAssumption
  <2> HIDE DEF ids
  <2>2. \A u \in Owners : service_id_to_names'[u] \in {None, ids[u]}
    BY <1>1, <1>2, <2>1, EraseOneValueErases
  <2> QED
    BY <1>2, <2>1, <2>2, BusAssumption
<1>8. IdsSound(service_id_to_names', rest, owner)
  BY <1>4, <1>5, <1>7 DEF OrderInv, IdsSound
<1>9. RegisteredSound(dbus_service_items', service_names_to_instance', rest, owner)
  <2> SUFFICES ASSUME NEW t \in Services,
                      Mapped(dbus_service_items', t) \/ service_names_to_instance'[t] # None
               PROVE  OwnerAt(rest, owner, 1, t) # None
    BY DEF RegisteredSound
  <2>0. Attempted.items \in ItemStore
    BY AttemptedSound DEF Inv, Sound
  <2>1. t # s
    BY <1>1, <1>5, <2>0 DEF Mapped, ItemStore, InstanceMap
  <2>2. service_names_to_instance'[t] = service_names_to_instance[t]
    BY <1>1, <1>5, <2>1 DEF InstanceMap
  <2>3. Mapped(dbus_service_items', t) => Mapped(dbus_service_items, t)
    <3>1. Mapped(dbus_service_items', t) => Mapped(Attempted.items, t)
      BY <1>1, <2>0, <2>1 DEF Mapped, ItemStore
    <3> QED
      BY <3>1, AttemptMaps DEF Inv
  <2> QED
    BY <1>4, <2>1, <2>2, <2>3 DEF OrderInv, RegisteredSound
<1> QED
  BY <1>1, <1>6, <1>8, <1>9, OrderAfterDispatch DEF rest

\* A signal registers nothing: it changes an item of a service that is mapped,
\* or it is queued.
LEMMA ItemsChangedOrder ==
    ASSUME Inv, OrderInv, ItemsChanged PROVE OrderInv'
<1> DEFINE m == Head(inbox)
           s == service_id_to_names[m.sender]
           rest == Tail(inbox)
<1>1. /\ inbox # <<>> /\ inbox' = Tail(inbox) /\ owner' = owner
      /\ m.type = "ItemsChanged"
      /\ UNCHANGED <<calls, async_handlers, service_id_to_names>>
  BY DEF ItemsChanged, Receive
<1>2. m.sender \in Owners /\ m.path \in Paths /\ m.value \in Values
  BY <1>1, InboxTyped, MessageParts DEF Inv
<1>3. /\ service_id_to_names \in [Owners -> Services \cup {None}]
      /\ s \in Services \cup {None}
  BY <1>2 DEF Inv, HandlerInv
<1>4. \A t \in Services : OwnerAt(rest, owner, 1, t) = OwnerAt(inbox, owner, 1, t)
  <2>1. \A t : ~IsChange(m, t)
    BY <1>1 DEF IsChange
  <2> QED
    BY <1>1, <2>1, NextSeen
<1>5. CallsMove(rest, calls, async_handlers, calls', async_handlers')
  BY <1>1 DEF CallsMove
<1> HIDE DEF rest
<1>6. IdsSound(service_id_to_names', rest, owner)
  BY <1>1, <1>3, <1>4 DEF OrderInv, IdsSound
<1>7. ASSUME NEW t \in Services,
             Mapped(dbus_service_items', t) \/ service_names_to_instance'[t] # None
      PROVE  Mapped(dbus_service_items, t) \/ service_names_to_instance[t] # None
  <2> DEFINE queue == Attempted.queue
             items == Attempted.items
             view == Attempted.view
  <2>1. /\ Attempted = Now(queue, items, view)
        /\ Sound(Now(queue, items, view), delayed_count, service_names_to_instance)
        /\ Mapped(items, t) <=> Mapped(dbus_service_items, t)
    BY AttemptedSound, AttemptMaps DEF Inv
  <2>2. CASE s = None
    <3>1. dbus_service_items' = items /\ service_names_to_instance' = service_names_to_instance
      BY <2>2 DEF ItemsChanged, Become
    <3> QED
      BY <1>7, <2>1, <3>1
  <2>3. CASE s # None
    <3> HIDE DEF queue, items, view
    <3>1. MapChange(Now(queue, items, view), s, m.path, m.value)
      BY <2>1, <2>3 DEF ItemsChanged
    <3>2. CASE Mapped(items, s)
      <4>1. CASE t = s
        BY <2>1, <3>2, <4>1
      <4>2. CASE t # s
        <5>1. MapItems(Now(queue, items, view), s, OnlyItem(m.path, m.value), FALSE)
          BY <3>1, <3>2 DEF MapChange, Now
        <5>2. OnlyItem(m.path, m.value) \in ItemMap /\ s \in Services
          BY <1>2, <1>3, <2>3 DEF OnlyItem, ItemMap
        <5>3. /\ service_names_to_instance'[t] = service_names_to_instance[t]
              /\ Mapped(dbus_service_items', t) <=> Mapped(items, t)
          <6> DEFINE one == OnlyItem(m.path, m.value)
          <6>1. one \in ItemMap /\ s \in Services /\ RegistryInv
            BY <5>2 DEF Inv
          <6>2. MapItems(Now(queue, items, view), s, one, FALSE)
            BY <5>1
          <6> HIDE DEF s, m, one
          <6> QED
            BY <2>1, <4>2, <6>1, <6>2, MapItemsRegisters
        <5> QED
          BY <1>7, <2>1, <5>3
      <4> QED
        BY <4>1, <4>2
    <3>3. CASE ~Mapped(items, s)
      <4>1. dbus_service_items' = items /\ service_names_to_instance' = service_names_to_instance
        BY <3>1, <3>3 DEF MapChange, QueueChange, Now
      <4> QED
        BY <1>7, <2>1, <4>1
    <3> QED
      BY <3>2, <3>3
  <2> QED
    BY <2>2, <2>3
<1>8. RegisteredSound(dbus_service_items', service_names_to_instance', rest, owner)
  BY <1>4, <1>7 DEF OrderInv, RegisteredSound
<1> QED
  BY <1>1, <1>5, <1>6, <1>8, OrderAfterDispatch DEF rest

LEMMA ListNamesReplyOrder ==
    ASSUME Inv, OrderInv, ListNamesReply PROVE OrderInv'
<1> DEFINE names == Head(inbox).names
           free  == FreeSerials \cup {TheSerial}
           rest  == Tail(inbox)
<1>1. ReplyTo("list_names", {"Names"})
  BY DEF ListNamesReply
<1>2. /\ TheSerial \in Serials /\ calls[TheSerial] = None /\ Unused(rest, TheSerial)
      /\ names \subseteq Services
  BY <1>1, TheAnswer, ReplyParts, MessageParts
<1>3. \A n \in free : Unused(rest, n)
  BY <1>1, <1>2, FreeCanCall DEF ReplyTo
<1>4. PICK slot \in [names -> free] :
         LET used == {slot[s] : s \in names}
             For(n) == CHOOSE s \in names : slot[s] = n
         IN  /\ calls' = [n \in Serials |-> IF n \in used THEN NameOwnerCall(For(n)) ELSE calls[n]]
             /\ async_handlers' = [n \in Serials |-> IF n \in used THEN NameOwnerHandler(For(n))
                                                    ELSE Closed(TheSerial)[n]]
  BY DEF ListNamesReply
<1> DEFINE used == {slot[s] : s \in names}
           For(n) == CHOOSE s \in names : slot[s] = n
<1>5. used \subseteq free
  OBVIOUS
<1>6. \A n \in used : For(n) \in Services
  BY <1>2
<1>7. \A n \in used : /\ NameOwnerHandler(For(n)) # None
                      /\ NameOwnerHandler(For(n)).service = NameOwnerCall(For(n)).service
  <2>1. \A s : NameOwnerHandler(s).service = NameOwnerCall(s).service
    BY DEF NameOwnerHandler, NameOwnerCall, Handling, Sending
  <2> HIDE DEF used, For
  <2> QED
    BY <1>6, <2>1, HandlingTyped, HandlerAssumption
<1> HIDE DEF used, For, free, rest
<1>8. /\ calls' = [n \in Serials |-> IF n \in used THEN NameOwnerCall(For(n)) ELSE calls[n]]
      /\ async_handlers' = [n \in Serials |-> IF n \in used THEN NameOwnerHandler(For(n))
                                             ELSE Closed(TheSerial)[n]]
  BY <1>4 DEF used, For
<1>9. CallsMove(rest, calls, async_handlers, calls', async_handlers')
  <2> SUFFICES ASSUME NEW n \in Serials
               PROVE  \/ calls'[n] = calls[n] /\ async_handlers'[n] = async_handlers[n]
                      \/ /\ Unused(rest, n)
                         /\ calls'[n] # None => /\ async_handlers'[n] # None
                                                /\ async_handlers'[n].service = calls'[n].service
    BY DEF CallsMove
  <2>1. CASE n \in used
    BY <1>3, <1>5, <1>7, <1>8, <2>1
  <2>2. CASE n \notin used
    <3>1. calls'[n] = calls[n] /\ async_handlers'[n] = Closed(TheSerial)[n]
      BY <1>8, <2>2
    <3>2. n # TheSerial => Closed(TheSerial)[n] = async_handlers[n]
      BY DEF Closed, Inv, HandlerInv
    <3> QED
      BY <1>2, <3>1, <3>2
  <2> QED
    BY <2>1, <2>2
<1>10. /\ owner' = owner /\ UNCHANGED <<service_id_to_names, service_names_to_instance,
                                         dbus_service_items>>
  BY DEF ListNamesReply, Registry
<1>11. \A s \in Services : Mapped(dbus_service_items', s) => Mapped(dbus_service_items, s)
  BY <1>10
<1> QED
  BY <1>1, <1>9, <1>10, <1>11, OrderAfterAnswer DEF rest

\* The call a handler sends next takes a serial that is free.
LEMMA CallNextMoves ==
    ASSUME Inv, OrderInv, NEW kind, NEW types,
           types \subseteq {"Names", "Owner", "Items", "Leaf", "Done", "Error"},
           ReplyTo(kind, types),
           NEW call, NEW handler \in Handler, handler.service = call.service,
           CallNext(call, handler)
    PROVE  CallsMove(Tail(inbox), calls, async_handlers, calls', async_handlers')
<1> DEFINE rest == Tail(inbox)
<1>1. /\ TheSerial \in Serials /\ calls[TheSerial] = None /\ Unused(rest, TheSerial)
      /\ inbox # <<>>
  BY TheAnswer DEF ReplyTo
<1>2. PICK n \in Serials : /\ n \in FreeSerials \cup {TheSerial}
                           /\ calls' = [calls EXCEPT ![n] = call]
                           /\ async_handlers' = [Closed(TheSerial) EXCEPT ![n] = handler]
  BY DEF CallNext
<1>3. Unused(rest, n)
  BY <1>1, <1>2, FreeCanCall
<1> HIDE DEF rest
<1> SUFFICES ASSUME NEW k \in Serials
             PROVE  \/ calls'[k] = calls[k] /\ async_handlers'[k] = async_handlers[k]
                    \/ /\ Unused(rest, k)
                       /\ calls'[k] # None => /\ async_handlers'[k] # None
                                              /\ async_handlers'[k].service = calls'[k].service
  BY DEF CallsMove, rest
<1>4. /\ calls \in [Serials -> Call \cup {None}]
      /\ async_handlers \in [Serials -> Handler \cup {None}]
  BY DEF Inv, BusTypeOK, HandlerInv
<1>5. CASE k = n
  BY <1>2, <1>3, <1>4, <1>5, HandlerAssumption DEF Closed
<1>6. CASE k # n /\ k = TheSerial
  BY <1>1, <1>2, <1>4, <1>6
<1>7. CASE k # n /\ k # TheSerial
  BY <1>2, <1>4, <1>7 DEF Closed
<1> QED
  BY <1>5, <1>6, <1>7

\* The owner that the bus has named is the one the plugin has seen.
LEMMA NameOwnerReplyOrder ==
    ASSUME Inv, OrderInv, NameOwnerReply PROVE OrderInv'
<1> DEFINE s == TheHandler.service
           o == Head(inbox).owner
           rest == Tail(inbox)
           next == Handling("get_items", s, Root, FALSE)
<1>1. /\ ReplyTo("get_name_owner", {"Owner"})
      /\ inbox # <<>> /\ inbox' = Tail(inbox) /\ Head(inbox).type = "Owner" /\ owner' = owner
      /\ service_id_to_names' = [service_id_to_names EXCEPT ![o] = s]
      /\ CallNext(Sending("GetItems", s, Root, FirstValue), next)
      /\ UNCHANGED <<dbus_service_items, service_names_to_instance>>
  BY DEF NameOwnerReply, ReplyTo, Registry
<1>2. /\ s \in Services /\ OwnerAt(inbox, owner, 1, s) = o
      /\ \A t \in Services : OwnerAt(rest, owner, 1, t) = OwnerAt(inbox, owner, 1, t)
  BY <1>1, TheAnswer
<1>3. CallsMove(rest, calls, async_handlers, calls', async_handlers')
  <2>1. /\ next \in Handler
        /\ next.service = Sending("GetItems", s, Root, FirstValue).service
    BY <1>2, HandlingTyped DEF Handling, Sending
  <2> HIDE DEF next
  <2> QED
    BY <1>1, <2>1, CallNextMoves
<1>4. service_id_to_names \in [Owners -> Services \cup {None}]
  BY DEF Inv, HandlerInv
<1> HIDE DEF rest, s, o
<1>5. IdsSound(service_id_to_names', rest, owner)
  <2> SUFFICES ASSUME NEW u \in Owners, service_id_to_names'[u] # None
               PROVE  u = OwnerAt(rest, owner, 1, service_id_to_names'[u])
    BY DEF IdsSound
  <2>1. CASE u = o
    BY <1>1, <1>2, <1>4, <2>1
  <2>2. CASE u # o
    BY <1>1, <1>2, <1>4, <2>2 DEF OrderInv, IdsSound
  <2> QED
    BY <2>1, <2>2
<1>6. RegisteredSound(dbus_service_items', service_names_to_instance', rest, owner)
  BY <1>1, <1>2 DEF OrderInv, RegisteredSound
<1> QED
  BY <1>1, <1>3, <1>5, <1>6, OrderAfterDispatch DEF rest

LEMMA GetItemsUnknownMethodOrder ==
    ASSUME Inv, OrderInv, GetItemsUnknownMethod PROVE OrderInv'
<1> DEFINE s == TheHandler.service
           next == Handling("get_value", s, Root, FALSE)
<1>1. /\ ReplyTo("get_items", {"Error"}) /\ owner' = owner
      /\ CallNext(Sending("GetValue", s, Root, FirstValue), next)
      /\ UNCHANGED <<service_id_to_names, service_names_to_instance, dbus_service_items>>
  BY DEF GetItemsUnknownMethod, Registry
<1>2. s \in Services
  BY <1>1, ReplyParts, HandlerParts
<1>3. /\ next \in Handler /\ next.service = Sending("GetValue", s, Root, FirstValue).service
  BY <1>2, HandlingTyped DEF Handling, Sending, CallPaths
<1> HIDE DEF next
<1>4. CallsMove(Tail(inbox), calls, async_handlers, calls', async_handlers')
  BY <1>1, <1>3, CallNextMoves
<1>5. \A t \in Services : Mapped(dbus_service_items', t) => Mapped(dbus_service_items, t)
  BY <1>1
<1> QED
  BY <1>1, <1>4, <1>5, OrderAfterAnswer

\* An answer with items comes from a service the plugin has seen come and not go.
LEMMA ItemsRepliedOrder ==
    ASSUME Inv, OrderInv, ItemsReplied PROVE OrderInv'
<1> DEFINE s == TheHandler.service
           rest == Tail(inbox)
           queue == delayed_changed_values
           items == dbus_service_items
<1>1. PICK kind : ReplyTo(kind, {"Items"})
  BY DEF ItemsReplied
<1>2. /\ inbox # <<>> /\ inbox' = Tail(inbox) /\ Head(inbox).type = "Items" /\ owner' = owner
      /\ async_handlers' = Closed(TheSerial) /\ calls' = calls
      /\ service_id_to_names' = service_id_to_names
      /\ MapItems(Now(queue, items, mqtt), s, Head(inbox).items, TheHandler.force)
  BY <1>1 DEF ItemsReplied, ReplyTo, Now
<1>3. /\ s \in Services /\ OwnerAt(inbox, owner, 1, s) # None
      /\ \A t \in Services : OwnerAt(rest, owner, 1, t) = OwnerAt(inbox, owner, 1, t)
  BY <1>1, <1>2, TheAnswer
<1>4. CallsMove(rest, calls, async_handlers, calls', async_handlers')
  BY <1>1, <1>2, ClosedMoves
<1>5. Head(inbox).items \in ItemMap
  BY <1>1, <1>2, ReplyParts, MessageParts
<1>6. Sound(Now(queue, items, mqtt), delayed_count, service_names_to_instance)
  BY DEF Inv, RegistryInv, RegistrySound
<1>7. service_id_to_names \in [Owners -> Services \cup {None}]
  BY DEF Inv, HandlerInv
<1> HIDE DEF rest, queue
<1>8. IdsSound(service_id_to_names', rest, owner)
  BY <1>2, <1>3, <1>7 DEF OrderInv, IdsSound
<1>9. RegisteredSound(dbus_service_items', service_names_to_instance', rest, owner)
  <2> SUFFICES ASSUME NEW t \in Services,
                      Mapped(dbus_service_items', t) \/ service_names_to_instance'[t] # None
               PROVE  OwnerAt(rest, owner, 1, t) # None
    BY DEF RegisteredSound
  <2>1. CASE t = s
    BY <1>3, <2>1
  <2>2. CASE t # s
    <3>1. /\ service_names_to_instance'[t] = service_names_to_instance[t]
          /\ Mapped(dbus_service_items', t) <=> Mapped(dbus_service_items, t)
      <4> HIDE DEF s
      <4> QED
        BY <1>2, <1>3, <1>5, <1>6, <2>2, MapItemsRegisters DEF Inv
    <3> QED
      BY <1>3, <3>1 DEF OrderInv, RegisteredSound
  <2> QED
    BY <2>1, <2>2
<1> QED
  BY <1>2, <1>4, <1>8, <1>9, OrderAfterDispatch DEF rest

LEMMA ReadReplyOrder ==
    ASSUME Inv, OrderInv, ReadReply PROVE OrderInv'
<1> DEFINE s == TheHandler.service
           p == TheHandler.path
<1>1. /\ ReplyTo("read_item", {"Leaf"}) /\ owner' = owner
      /\ async_handlers' = Closed(TheSerial) /\ calls' = calls
      /\ UNCHANGED <<service_id_to_names, service_names_to_instance>>
      /\ \/ dbus_service_items' = dbus_service_items
         \/ /\ dbus_service_items[s][p] # Absent
            /\ dbus_service_items' =
                 [dbus_service_items EXCEPT ![s][p].value = Head(inbox).value]
  BY DEF ReadReply
<1>2. dbus_service_items \in ItemStore
  BY DEF Inv, RegistryInv, RegistrySound, Sound, Now
<1>3. \A t \in Services : Mapped(dbus_service_items', t) => Mapped(dbus_service_items, t)
  <2> SUFFICES ASSUME NEW t \in Services, NEW q \in Paths, dbus_service_items[t][q] = Absent
               PROVE  dbus_service_items'[t][q] = Absent
    BY DEF Mapped
  <2> QED
    BY <1>1, <1>2 DEF ItemStore
<1> QED
  BY <1>1, <1>3, ClosedMoves, OrderAfterAnswer

LEMMA ReplyWithoutEffectOrder ==
    ASSUME Inv, OrderInv, ReplyWithoutEffect PROVE OrderInv'
<1>1. PICK kind, types : /\ types \subseteq {"Names", "Owner", "Items", "Leaf", "Done", "Error"}
                         /\ ReplyTo(kind, types)
  BY DEF ReplyWithoutEffect
<1>2. /\ owner' = owner /\ calls' = calls /\ async_handlers' = Closed(TheSerial)
      /\ UNCHANGED <<service_id_to_names, service_names_to_instance, dbus_service_items>>
  BY DEF ReplyWithoutEffect, Registry
<1>3. \A t \in Services : Mapped(dbus_service_items', t) => Mapped(dbus_service_items, t)
  BY <1>2
<1> QED
  BY <1>1, <1>2, <1>3, ClosedMoves, OrderAfterAnswer

\* A request takes a serial that is free.
LEMMA AskOrder ==
    ASSUME Inv, OrderInv, NEW call, NEW handler \in Handler, handler.service = call.service,
           Ask(call, handler)
    PROVE  OrderInv'
<1>1. PICK n \in Serials : /\ n \in FreeSerials
                           /\ calls' = [calls EXCEPT ![n] = call]
                           /\ async_handlers' = [async_handlers EXCEPT ![n] = handler]
  BY DEF Ask, NextSerial, call_method
<1>2. /\ inbox \in Seq(Message)
      /\ calls \in [Serials -> Call \cup {None}]
      /\ async_handlers \in [Serials -> Handler \cup {None}]
      /\ InboxSound(inbox, owner, calls, async_handlers) /\ CallsSound(calls, async_handlers)
  BY DEF Inv, BusTypeOK, HandlerInv, OrderInv
<1>3. Unused(inbox, n)
  BY <1>1, <1>2, FreeUnused DEF FreeSerials
<1>4. CallsMove(inbox, calls, async_handlers, calls', async_handlers')
  BY <1>1, <1>2, <1>3, HandlerAssumption DEF CallsMove
<1>5. InboxSound(inbox, owner, calls', async_handlers') /\ CallsSound(calls', async_handlers')
  BY <1>2, <1>4, CallsMoved
<1>6. UNCHANGED <<inbox, owner, service_id_to_names, dbus_service_items,
                  service_names_to_instance>>
  BY DEF Ask, Registry
<1> QED
  BY <1>5, <1>6 DEF OrderInv

LEMMA ReadOrder ==
    ASSUME Inv, OrderInv, NEW type \in Types, NEW i \in Instances, NEW p \in ReadPaths,
           handle_read(type, i, p)
    PROVE  OrderInv'
<1> DEFINE s == FoundService(<<type, i, p>>)
<1>1. s \in Services /\ p \in CallPaths
  BY FoundServiceTyped, RegistryAssumption DEF handle_read
<1>2. /\ Handling("get_value", s, p, TRUE) \in Handler
      /\ p \in Paths => Handling("read_item", s, p, FALSE) \in Handler
  BY <1>1, HandlingTyped
<1>3. \A kind, force : Handling(kind, s, p, force).service
                          = Sending("GetValue", s, p, FirstValue).service
  BY DEF Handling, Sending
<1>4. \/ p \in Paths /\ Ask(Sending("GetValue", s, p, FirstValue),
                             Handling("read_item", s, p, FALSE))
      \/ Ask(Sending("GetValue", s, p, FirstValue), Handling("get_value", s, p, TRUE))
  BY DEF handle_read
<1> HIDE DEF s
<1> QED
  BY <1>2, <1>3, <1>4, AskOrder

LEMMA WriteOrder ==
    ASSUME Inv, OrderInv, NEW t \in Topics, NEW v \in Values, write_to_dbus(t, v)
    PROVE  OrderInv'
<1> DEFINE s == FoundService(t)
<1>1. t = <<t[1], t[2], t[3]>> /\ t[1] \in Types /\ t[2] \in Instances /\ t[3] \in Paths
  BY DEF Topics
<1>2. s \in Services
  BY <1>1, FoundServiceTyped DEF write_to_dbus
<1>3. Ask(Sending("SetValue", s, t[3], v), Handling("set_value", s, t[3], FALSE))
  BY DEF write_to_dbus
<1>4. Handling("set_value", s, t[3], FALSE) \in Handler
  BY <1>1, <1>2, HandlingTyped
<1>5. Handling("set_value", s, t[3], FALSE).service = Sending("SetValue", s, t[3], v).service
  BY DEF Handling, Sending
<1> HIDE DEF s
<1> QED
  BY <1>3, <1>4, <1>5, AskOrder

----------------------------------------------------------------------------
(* The instance that is published.                                         *)

\* A service on the bus exports the paths it starts with, no call reads the
\* inner object, and so no answer with items lacks /DeviceInstance.
StartsComplete == \A s \in Services : owner[s] # None => Paths \ Late \subseteq exported[s]

NoInnerRead == \A n \in Serials : calls[n] # None => calls[n].path # SubtreeRoot

Complete(box) ==
    \A i \in DOMAIN box : box[i].type = "Items" => box[i].items[InstancePath] # Absent

PublishedInv == StartsComplete /\ NoInnerRead /\ Complete(inbox) /\ InstanceIsPublished

LEMMA CompleteAppend ==
    ASSUME NEW box \in Seq(Message), NEW m \in Message, Complete(box),
           m.type = "Items" => m.items[InstancePath] # Absent
    PROVE  Complete(Append(box, m))
<1> DEFINE all == Append(box, m)
<1>1. /\ DOMAIN all = 1 .. Len(box) + 1 /\ DOMAIN box = 1 .. Len(box) /\ Len(box) \in Nat
      /\ all[Len(box) + 1] = m /\ \A j \in DOMAIN box : all[j] = box[j]
  BY AppendProperties
<1> HIDE DEF all
<1>2. \A i \in DOMAIN all : i \in DOMAIN box \/ i = Len(box) + 1
  BY <1>1
<1>3. Complete(all)
  BY <1>1, <1>2 DEF Complete
<1> QED
  BY <1>3 DEF all

LEMMA CompleteTail ==
    ASSUME NEW box \in Seq(Message), box # <<>>, Complete(box)
    PROVE  /\ Complete(Tail(box))
           /\ Head(box).type = "Items" => Head(box).items[InstancePath] # Absent
<1> DEFINE rest == Tail(box)
<1>1. /\ DOMAIN rest = 1 .. Len(box) - 1 /\ DOMAIN box = 1 .. Len(box) /\ Len(box) \in Nat
      /\ \A j \in DOMAIN rest : rest[j] = box[j + 1]
      /\ 1 \in DOMAIN box /\ Head(box) = box[1]
  BY HeadTailProperties
<1> HIDE DEF rest
<1>2. \A j \in DOMAIN rest : j + 1 \in DOMAIN box
  BY <1>1
<1>3. Complete(rest)
  BY <1>1, <1>2 DEF Complete
<1> QED
  BY <1>1, <1>3 DEF rest, Complete

\* An answer with items has the one at /DeviceInstance.
LEMMA AnswerComplete ==
    ASSUME InstancePath \notin Late, Inv, StartsComplete, NoInnerRead,
           NEW n \in Serials, NEW reply, calls[n] # None, AnswerTells(n, reply),
           reply.type = "Items"
    PROVE  reply.items[InstancePath] # Absent
<1> DEFINE s == calls[n].service
<1>1. s \in Services /\ owner[s] # None /\ reply.items = ItemsBelow(s, Paths)
  BY DEF AnswerTells, NoInnerRead
<1>2. InstancePath \in exported[s] /\ InstancePath \in Paths
  BY <1>1, RegistryAssumption DEF StartsComplete
<1>3. value[s][InstancePath] \in Values
  BY <1>1, <1>2 DEF Inv, BusTypeOK
<1> QED
  BY <1>1, <1>2, <1>3, BusAssumption DEF ItemsBelow

LEMMA BusPublished ==
    ASSUME InstancePath \notin Late, Inv, PublishedInv, Bus
    PROVE  PublishedInv'
<1>1. /\ inbox \in Seq(Message) /\ owner \in [Services -> Owners \cup {None}]
      /\ exported \in [Services -> SUBSET Paths] /\ calls \in [Serials -> Call \cup {None}]
      /\ Complete(inbox)
  BY DEF Inv, BusTypeOK, PublishedInv
<1>2. ASSUME NEW m \in Message, m.type # "Items", inbox' = Append(inbox, m)
      PROVE  Complete(inbox')
  BY <1>1, <1>2, CompleteAppend
<1>3. InstanceIsPublished'
  BY DEF Bus, registryVars, PublishedInv, InstanceIsPublished
<1>4. ASSUME NEW s \in Services, NEW o \in Owners, Appear(s, o) PROVE PublishedInv'
  <2> DEFINE m == [type |-> "NameOwnerChanged", name |-> s, old |-> None, new |-> o]
  <2>1. m \in Message /\ m.type # "Items" /\ inbox' = Append(inbox, m)
    BY <1>4 DEF Appear, Message, OwnerChange
  <2> HIDE DEF m
  <2>2. Complete(inbox')
    BY <1>2, <2>1
  <2>3. StartsComplete'
    BY <1>1, <1>4 DEF Appear, StartsComplete, PublishedInv
  <2> QED
    BY <1>3, <1>4, <2>2, <2>3 DEF Appear, PublishedInv, NoInnerRead
<1>5. ASSUME NEW s \in Services, Vanish(s) PROVE PublishedInv'
  <2> DEFINE m == [type |-> "NameOwnerChanged", name |-> s, old |-> owner[s], new |-> None]
  <2>1. m \in Message /\ m.type # "Items" /\ inbox' = Append(inbox, m)
    BY <1>1, <1>5 DEF Vanish, Message, OwnerChange
  <2> HIDE DEF m
  <2>2. Complete(inbox')
    BY <1>2, <2>1
  <2>3. StartsComplete'
    BY <1>1, <1>5 DEF Vanish, StartsComplete, PublishedInv
  <2> QED
    BY <1>3, <1>5, <2>2, <2>3 DEF Vanish, PublishedInv, NoInnerRead
<1>6. ASSUME NEW s \in Services, NEW p \in Paths, NEW v \in Values, Change(s, p, v)
      PROVE  PublishedInv'
  <2>1. Signal(s, p, v) \in Message /\ Signal(s, p, v).type # "Items"
    BY <1>1, <1>6 DEF Change, Signal, Message, ItemChange
  <2>2. inbox' = inbox \/ inbox' = Append(inbox, Signal(s, p, v))
    BY <1>6 DEF Change
  <2>3. Complete(inbox')
    BY <1>1, <1>2, <2>1, <2>2
  <2> QED
    BY <1>3, <1>6, <2>3 DEF Change, PublishedInv, NoInnerRead, StartsComplete
<1>7. ASSUME NEW s \in Services, NEW p \in Paths, AddPath(s, p) PROVE PublishedInv'
  <2>1. StartsComplete'
    BY <1>1, <1>7 DEF AddPath, StartsComplete, PublishedInv
  <2> QED
    BY <1>3, <1>7, <2>1 DEF AddPath, PublishedInv, NoInnerRead
<1>8. ASSUME NEW n \in Serials, BusAnswer(n) PROVE PublishedInv'
  <2>1. PICK before, reply : AnswerOf(n, before, reply)
    BY <1>8, BusAnswerIs DEF Inv
  <2>2. /\ calls' = [calls EXCEPT ![n] = None] /\ inbox' = Append(inbox \o before, reply)
        /\ UNCHANGED <<owner, exported>>
        /\ calls[n] # None /\ AnswerTells(n, reply) /\ reply \in Message
    BY <2>1 DEF AnswerOf, Answer, Message
  <2>3. inbox \o before \in Seq(Message) /\ Complete(inbox \o before)
    <3>1. CASE before = <<>>
      BY <1>1, <3>1, ConcatEmptySeq
    <3>2. CASE \E m \in ItemChange : before = <<m>>
      <4>1. PICK m \in ItemChange : before = <<m>>
        BY <3>2
      <4>2. m \in Message /\ m.type # "Items"
        BY DEF Message, ItemChange
      <4>3. inbox \o before = Append(inbox, m)
        BY <1>1, <4>1, <4>2, AppendIsConcat
      <4> QED
        BY <1>1, <4>2, <4>3, CompleteAppend, AppendProperties
    <3> QED
      BY <2>1, <3>1, <3>2 DEF AnswerOf
  <2>4. reply.type = "Items" => reply.items[InstancePath] # Absent
    BY <2>2, AnswerComplete DEF PublishedInv
  <2>5. Complete(inbox')
    <3> DEFINE box == inbox \o before
    <3> HIDE DEF box
    <3>1. box \in Seq(Message) /\ Complete(box) /\ inbox' = Append(box, reply)
      BY <2>2, <2>3 DEF box
    <3> QED
      BY <2>2, <2>4, <3>1, CompleteAppend
  <2>6. StartsComplete' /\ NoInnerRead'
    BY <1>1, <2>2 DEF StartsComplete, NoInnerRead, PublishedInv
  <2> QED
    BY <1>3, <2>5, <2>6 DEF PublishedInv
<1> QED
  BY <1>4, <1>5, <1>6, <1>7, <1>8 DEF Bus

\* The calls the plugin makes: none on the inner object.
Outer(call) == call.path # SubtreeRoot

LEMMA RootIsOuter ==
    ASSUME NEW s
    PROVE  /\ Outer(NameOwnerCall(s))
           /\ \A method, v : Outer(Sending(method, s, Root, v))
           /\ \A p, method, v : p # SubtreeRoot => Outer(Sending(method, s, p, v))
BY BusAssumption DEF Outer, NameOwnerCall, Sending

LEMMA DispatchCalls ==
    ASSUME Inv, NoInnerRead, Dispatch
    PROVE  NoInnerRead'
<1>1. calls \in [Serials -> Call \cup {None}]
  BY DEF Inv, BusTypeOK
<1>2. ASSUME NEW n, NEW call, Outer(call), calls' = [calls EXCEPT ![n] = call]
      PROVE  NoInnerRead'
  BY <1>1, <1>2 DEF NoInnerRead, Outer
<1>3. CASE ServiceAppeared
  BY <1>2, <1>3, RootIsOuter DEF ServiceAppeared, scan_dbus_service, call_method
<1>4. CASE NameOwnerReply
  BY <1>2, <1>4, RootIsOuter DEF NameOwnerReply, CallNext
<1>5. CASE GetItemsUnknownMethod
  <2>1. Outer(Sending("GetValue", TheHandler.service, Root, FirstValue))
    BY RootIsOuter
  <2> QED
    BY <1>2, <1>5, <2>1 DEF GetItemsUnknownMethod, CallNext
<1>6. CASE ListNamesReply
  <2>1. PICK used, For : calls' = [n \in Serials |-> IF n \in used THEN NameOwnerCall(For[n])
                                                   ELSE calls[n]]
    <3>1. PICK slot : LET used == {slot[s] : s \in Head(inbox).names}
                          For(n) == CHOOSE s \in Head(inbox).names : slot[s] = n
                      IN  calls' = [n \in Serials |-> IF n \in used THEN NameOwnerCall(For(n))
                                                      ELSE calls[n]]
      BY <1>6 DEF ListNamesReply
    <3> DEFINE used == {slot[s] : s \in Head(inbox).names}
               For == [n \in Serials |-> CHOOSE s \in Head(inbox).names : slot[s] = n]
    <3>2. calls' = [n \in Serials |-> IF n \in used THEN NameOwnerCall(For[n]) ELSE calls[n]]
      BY <3>1
    <3> HIDE DEF used, For
    <3> QED
      BY <3>2
  <2>2. \A n : Outer(NameOwnerCall(For[n]))
    BY RootIsOuter
  <2> QED
    BY <2>1, <2>2 DEF NoInnerRead, Outer
<1>7. CASE UNCHANGED calls
  BY <1>7 DEF NoInnerRead
<1> QED
  BY <1>3, <1>4, <1>5, <1>6, <1>7 DEF Dispatch, ServiceDisappeared, ItemsChanged, ItemsReplied,
     ReadReply, ReplyWithoutEffect

\* A service is registered with the instance it publishes: that is among the
\* items of the answer it is first mapped from.
LEMMA MapItemsPublished ==
    ASSUME NEW now, NEW s \in Services, NEW items, NEW force,
           Inv, InstanceIsPublished, MapItems(now, s, items, force),
           service_names_to_instance[s] # None \/ items[InstancePath] # Absent
    PROVE  InstanceIsPublished'
<1>1. service_names_to_instance' = [service_names_to_instance EXCEPT ![s] = InstanceOf(s, items)]
  BY DEF MapItems
<1>2. InstanceOf(s, items) \in {service_names_to_instance[s], DeviceInstance[s]}
  BY DEF InstanceOf, get_instance_from_items
<1>3. service_names_to_instance \in InstanceMap
  BY DEF Inv, RegistryInv, RegistrySound
<1> QED
  BY <1>1, <1>2, <1>3 DEF InstanceIsPublished, InstanceMap

LEMMA DispatchPublished ==
    ASSUME Inv, PublishedInv, Dispatch
    PROVE  PublishedInv'
<1>1. inbox \in Seq(Message) /\ Complete(inbox) /\ InstanceIsPublished
  BY DEF Inv, BusTypeOK, PublishedInv
<1>2. inbox # <<>> /\ inbox' = Tail(inbox)
  BY DEF Dispatch, ServiceAppeared, ServiceDisappeared, ItemsChanged, Receive, ListNamesReply,
         NameOwnerReply, GetItemsUnknownMethod, ItemsReplied, ReadReply, ReplyWithoutEffect,
         ReplyTo
<1>3. Complete(inbox')
  BY <1>1, <1>2, CompleteTail
<1>4. StartsComplete'
  BY DEF Dispatch, ServiceAppeared, ServiceDisappeared, ItemsChanged, ListNamesReply,
         NameOwnerReply, GetItemsUnknownMethod, ItemsReplied, ReadReply, ReplyWithoutEffect,
         PublishedInv, StartsComplete
<1>5. NoInnerRead'
  BY DispatchCalls DEF PublishedInv
<1>6. ASSUME UNCHANGED service_names_to_instance PROVE InstanceIsPublished'
  BY <1>1, <1>6 DEF InstanceIsPublished
<1>7. CASE ServiceDisappeared
  <2>1. PICK s : service_names_to_instance' = [service_names_to_instance EXCEPT ![s] = None]
    BY <1>7 DEF ServiceDisappeared, remove_dbus_service
  <2>2. service_names_to_instance \in InstanceMap
    BY DEF Inv, RegistryInv, RegistrySound
  <2>3. InstanceIsPublished'
    BY <1>1, <2>1, <2>2 DEF InstanceIsPublished, InstanceMap
  <2> QED
    BY <1>3, <1>4, <1>5, <2>3 DEF PublishedInv
<1>8. CASE ItemsChanged
  <2> DEFINE m == Head(inbox)
             s == service_id_to_names[m.sender]
  <2>1. s \in Services \cup {None}
    BY <1>2, <1>8, InboxTyped, MessageParts DEF Inv, HandlerInv, ItemsChanged, Receive
  <2>2. CASE s = None \/ ~Mapped(Attempted.items, s)
    BY <1>3, <1>4, <1>5, <1>6, <1>8, <2>2
       DEF ItemsChanged, MapChange, QueueChange, PublishedInv
  <2>3. CASE s # None /\ Mapped(Attempted.items, s)
    <3>1. MapItems(Attempted, s, OnlyItem(m.path, m.value), FALSE)
      BY <1>8, <2>3 DEF ItemsChanged, MapChange
    <3>2. service_names_to_instance[s] # None
      <4>1. Mapped(dbus_service_items, s)
        BY <2>1, <2>3, AttemptMaps DEF Inv
      <4>2. PICK p \in Paths : dbus_service_items[s][p] # Absent
        BY <4>1 DEF Mapped
      <4>3. /\ dbus_service_items[s][p] \in Item
            /\ dbus_service_items[s][p].instance = service_names_to_instance[s]
        BY <2>1, <2>3, <4>2
           DEF Inv, RegistryInv, RegistrySound, Sound, Now, ItemStore, Agreeing
      <4> QED
        BY <4>3, RegistryAssumption DEF Item
    <3> DEFINE one == OnlyItem(m.path, m.value)
    <3>3. MapItems(Attempted, s, one, FALSE) /\ s \in Services
      BY <2>1, <2>3, <3>1
    <3> HIDE DEF s, one
    <3>4. InstanceIsPublished'
      BY <1>1, <3>2, <3>3, MapItemsPublished
    <3> QED
      BY <1>3, <1>4, <1>5, <3>4 DEF PublishedInv
  <2> QED
    BY <2>2, <2>3
<1>9. CASE ItemsReplied
  <2> DEFINE s == TheHandler.service
             items == Head(inbox).items
             now == Now(delayed_changed_values, dbus_service_items, mqtt)
  <2>1. PICK kind \in {"get_items", "get_value"} : ReplyTo(kind, {"Items"})
    BY <1>9 DEF ItemsReplied
  <2>2. s \in Services /\ Head(inbox).type = "Items"
    BY <2>1, ReplyParts, HandlerParts
  <2>3. items[InstancePath] # Absent
    BY <1>1, <1>2, <2>2, CompleteTail
  <2>4. MapItems(now, s, items, TheHandler.force)
    BY <1>9 DEF ItemsReplied, Now
  <2> HIDE DEF s, items, now
  <2>5. InstanceIsPublished'
    BY <1>1, <2>2, <2>3, <2>4, MapItemsPublished
  <2> QED
    BY <1>3, <1>4, <1>5, <2>5 DEF PublishedInv
<1>10. CASE UNCHANGED service_names_to_instance
  BY <1>3, <1>4, <1>5, <1>6, <1>10 DEF PublishedInv
<1> QED
  BY <1>7, <1>8, <1>9, <1>10 DEF Dispatch, ServiceAppeared, ListNamesReply, NameOwnerReply,
     GetItemsUnknownMethod, ReadReply, ReplyWithoutEffect, Registry

LEMMA ClientsPublished ==
    ASSUME SubtreeRoot \notin ReadPaths, Inv, PublishedInv, Clients
    PROVE  PublishedInv'
<1>1. calls \in [Serials -> Call \cup {None}]
  BY DEF Inv, BusTypeOK
<1>2. ASSUME NEW call, NEW handler, Outer(call), Ask(call, handler)
      PROVE  PublishedInv'
  <2>1. PICK n \in Serials : calls' = [calls EXCEPT ![n] = call]
    BY <1>2 DEF Ask, call_method
  <2>2. NoInnerRead'
    BY <1>1, <1>2, <2>1 DEF NoInnerRead, PublishedInv, Outer
  <2> QED
    BY <1>2, <2>2 DEF Ask, Registry, PublishedInv, StartsComplete, Complete, InstanceIsPublished
<1>3. ASSUME NEW type, NEW i, NEW p \in ReadPaths, handle_read(type, i, p)
      PROVE  PublishedInv'
  <2> DEFINE s == FoundService(<<type, i, p>>)
             call == Sending("GetValue", s, p, FirstValue)
  <2>1. Outer(call)
    BY RootIsOuter
  <2>2. \E handler : Ask(call, handler)
    BY <1>3 DEF handle_read
  <2> HIDE DEF call
  <2> QED
    BY <1>2, <2>1, <2>2
<1>4. ASSUME NEW t, NEW v, t[3] \in WritePaths, write_to_dbus(t, v)
      PROVE  PublishedInv'
  <2> DEFINE call == Sending("SetValue", FoundService(t), t[3], v)
  <2>1. Outer(call)
    BY <1>4, RootIsOuter, BusAssumption, RegistryAssumption
  <2>2. \E handler : Ask(call, handler)
    BY <1>4 DEF write_to_dbus
  <2> HIDE DEF call
  <2> QED
    BY <1>2, <2>1, <2>2
<1>5. ASSUME NEW publish_all, handle_keepalive(publish_all)
      PROVE  PublishedInv'
  BY <1>5 DEF handle_keepalive, busVars, PublishedInv, StartsComplete, NoInnerRead, Complete,
     InstanceIsPublished
<1> QED
  BY <1>3, <1>4, <1>5 DEF Clients

----------------------------------------------------------------------------
(* The theorems.                                                           *)

LEMMA InitOrder == Init => OrderInv
<1> SUFFICES ASSUME Init PROVE OrderInv
  OBVIOUS
<1>1. inbox = <<>> /\ DOMAIN inbox = {}
  BY DEF Init, BusInit
<1>2. InboxSound(inbox, owner, calls, async_handlers)
  BY <1>1 DEF InboxSound
<1>3. CallsSound(calls, async_handlers)
  <2>1. Handling("list_names", None, Root, FALSE) \in Handler
    BY DEF Handling, Handler
  <2>2. Handling("list_names", None, Root, FALSE).service
           = Sending("ListNames", None, Root, FirstValue).service
    BY DEF Handling, Sending
  <2> QED
    BY <2>1, <2>2, HandlerAssumption DEF Init, CallsSound
<1>4. IdsSound(service_id_to_names, inbox, owner)
  BY DEF Init, IdsSound
<1>5. RegisteredSound(dbus_service_items, service_names_to_instance, inbox, owner)
  BY DEF Init, RegisteredSound, Mapped
<1> QED
  BY <1>2, <1>3, <1>4, <1>5 DEF OrderInv

LEMMA NextOrder == Inv /\ OrderInv /\ [Next]_vars => OrderInv'
<1> SUFFICES ASSUME Inv, OrderInv, [Next]_vars PROVE OrderInv'
  OBVIOUS
<1>1. CASE Bus
  BY <1>1, BusOrder
<1>2. CASE Dispatch
  BY <1>2, ServiceAppearedOrder, ServiceDisappearedOrder, ItemsChangedOrder,
     ListNamesReplyOrder, NameOwnerReplyOrder, GetItemsUnknownMethodOrder, ItemsRepliedOrder,
     ReadReplyOrder, ReplyWithoutEffectOrder DEF Dispatch
<1>3. ASSUME UNCHANGED <<owner, calls, inbox, async_handlers, service_id_to_names,
                         dbus_service_items, service_names_to_instance>>
      PROVE  OrderInv'
  BY <1>3 DEF OrderInv
<1>4. CASE Clients
  <2>1. ASSUME NEW publish_all, handle_keepalive(publish_all) PROVE OrderInv'
    BY <1>3, <2>1 DEF handle_keepalive, busVars
  <2> QED
    BY <1>4, <2>1, ReadOrder, WriteOrder DEF Clients
<1>5. CASE Clock
  <2>1. ASSUME NEW place, Age(place) PROVE OrderInv'
    BY <1>3, <2>1 DEF Age, busVars
  <2>2. ASSUME unset_keepalive PROVE OrderInv'
    BY <1>3, <2>2 DEF unset_keepalive, busVars, Registry
  <2> QED
    BY <1>5, <2>1, <2>2 DEF Clock
<1>6. CASE UNCHANGED vars
  BY <1>3, <1>6 DEF vars, busVars, registryVars
<1> QED
  BY <1>1, <1>2, <1>4, <1>5, <1>6 DEF Next

LEMMA SpecOrder == Spec => [](Inv /\ OrderInv)
<1>1. Init => Inv /\ OrderInv
  BY InitInv, InitOrder
<1>2. Inv /\ OrderInv /\ [Next]_vars => (Inv /\ OrderInv)'
  BY NextInv, NextOrder
<1> QED
  BY <1>1, <1>2, PTL DEF Spec

\* What the plugin has seen is the owner at the first message.
LEMMA SeenOwnerIs ==
    ASSUME Inv, NEW s PROVE SeenOwner(s) = OwnerAt(inbox, owner, 1, s)
<1>1. Changes(s) = ChangesFrom(inbox, 1, s)
  <2>1. \A i \in DOMAIN inbox : i >= 1
    BY DEF Inv, BusTypeOK
  <2> QED
    BY <2>1 DEF Changes, ChangesFrom, IsChange
<1> QED
  BY <1>1 DEF SeenOwner, OwnerAt

\* No unique name leads to a service that the plugin has seen leave it, for any
\* number of restarts and of replies under way: a signal is never taken for
\* another incarnation's (State::service_id_to_names, name_owner_changed,
\* scan_dbus_service, remove_dbus_service).
THEOREM SendersAreOwners == Spec => []IdsFollowOwners
<1>1. Inv /\ OrderInv => IdsFollowOwners
  BY SeenOwnerIs DEF OrderInv, IdsSound, IdsFollowOwners
<1> QED
  BY <1>1, SpecOrder, PTL

\* A reply that arrives late registers no service that the plugin has seen go:
\* what is registered has an owner (get_items_handler, get_value_handler,
\* add_dbus_to_mqtt_mapping, remove_dbus_service).
THEOREM NoneAfterDeparture == Spec => []RegisteredIsOwned
<1>1. Inv /\ OrderInv => RegisteredIsOwned
  BY SeenOwnerIs DEF OrderInv, RegisteredSound, RegisteredIsOwned
<1> QED
  BY <1>1, SpecOrder, PTL

\* Unless an inner object is read, a service is only ever registered with the
\* instance it publishes, provided /DeviceInstance is there from its start:
\* every answer with items then has it (get_instance_from_items,
\* store_and_get_instance_from_service).  InstanceZero shows that the first
\* condition is needed.
THEOREM OuterReadsPublish ==
    ASSUME SubtreeRoot \notin ReadPaths, InstancePath \notin Late
    PROVE  Spec => []InstanceIsPublished
<1>1. Init => PublishedInv
  <2> SUFFICES ASSUME Init PROVE PublishedInv
    OBVIOUS
  <2>1. StartsComplete
    BY DEF Init, BusInit, StartsComplete
  <2>2. NoInnerRead
    BY BusAssumption DEF Init, NoInnerRead, Sending
  <2>3. Complete(inbox) /\ InstanceIsPublished
    BY DEF Init, BusInit, Complete, InstanceIsPublished
  <2> QED
    BY <2>1, <2>2, <2>3 DEF PublishedInv
<1>2. Inv /\ PublishedInv /\ [Next]_vars => PublishedInv'
  <2> SUFFICES ASSUME Inv, PublishedInv, [Next]_vars PROVE PublishedInv'
    OBVIOUS
  <2>1. ASSUME UNCHANGED <<owner, exported, calls, inbox, service_names_to_instance>>
        PROVE  PublishedInv'
    BY <2>1 DEF PublishedInv, StartsComplete, NoInnerRead, Complete, InstanceIsPublished
  <2>2. CASE Clock
    BY <2>1, <2>2 DEF Clock, unset_keepalive, Age, busVars, Registry
  <2>3. CASE UNCHANGED vars
    BY <2>1, <2>3 DEF vars, busVars, registryVars
  <2> QED
    BY <2>2, <2>3, BusPublished, DispatchPublished, ClientsPublished DEF Next
<1>3. PublishedInv => InstanceIsPublished
  BY DEF PublishedInv
<1> QED
  BY <1>1, <1>2, <1>3, SpecInv, PTL DEF Spec

=============================================================================
