----------------------------- MODULE CacheProofs -----------------------------
(***************************************************************************)
(* The cache follows the services: for any services, owners, paths and     *)
(* serials, no change is lost and none is applied out of order, as long as *)
(* no incarnation of a service leaves anything behind for the next one.    *)
(*                                                                         *)
(* What is told of a path is told by signals and by answers, and all of it *)
(* comes through the inbox in order.  The last thing that is told of a     *)
(* path is therefore the value it has (NewsSound); with no more signals    *)
(* ahead, the last thing that was told is in the cache (CacheSound) or, of *)
(* a service that is not mapped, in the queue (QueueSound).  For this no   *)
(* signal of a service that has items, or is asked for them, may be taken  *)
(* for a stranger's (HeardSound), and no change may be dropped because its *)
(* item is missing when its service is mapped: an answer with all items    *)
(* has every path that was told before it (PathsSound, QueuePaths).        *)
(*                                                                         *)
(* And the topics follow the cache: the second part is about what MQTT     *)
(* clients see of the services.                                            *)
(***************************************************************************)
EXTENDS InboxProofs

\* A change of owner of s, or a signal of its owner about its path.
IsNews(m, own, s, p) ==
    \/ IsChange(m, s)
    \/ m.type = "ItemsChanged" /\ m.sender = own[s] /\ m.path = p

News(box, own, i, s, p) == \E j \in DOMAIN box : j >= i /\ IsNews(box[j], own, s, p)

\* The message tells that the path of s has the value.
Tells(m, own, hs, s, p, v) ==
    \/ /\ m.type = "ItemsChanged" /\ m.sender = own[s]
       /\ m.path = p /\ m.value = v
    \/ /\ m.type = "Items" /\ hs[m.serial].service = s
       /\ m.items[p] = v
    \/ /\ m.type = "Leaf" /\ hs[m.serial].service = s
       /\ hs[m.serial].path = p /\ m.value = v

\* What is told last of a path that signals its changes is the value it has.
NewsSound(box, own, val, hs) ==
    \A i \in DOMAIN box, s \in Services, p \in Paths \ Silent, v \in Values :
        Tells(box[i], own, hs, s, p, v) /\ ~News(box, own, i + 1, s, p) => v = val[s][p]

\* A unique name is that of one service, and was handed out.
OwnersSound(box, own, sp) ==
    /\ \A i \in Nat \ {0}, s \in Services : OwnerAt(box, own, i, s) # None =>
          /\ OwnerAt(box, own, i, s) \in sp
          /\ \A t \in Services : OwnerAt(box, own, i, t) = OwnerAt(box, own, i, s) => t = s
    /\ \A i \in DOMAIN box : box[i].type = "ItemsChanged" => box[i].sender \in sp

\* An answer with all items has every path its incarnation has told before.
Inner(h) == h # None /\ h.path = SubtreeRoot

AnswersAll(m, hs, s) ==
    m.type = "Items" /\ ~Inner(hs[m.serial]) /\ hs[m.serial].service = s

PathsSound(box, own, ex, hs) ==
    /\ \A i \in DOMAIN box, s \in Services :
          box[i].type = "ItemsChanged" /\ box[i].sender = own[s] => box[i].path \in ex[s]
    /\ \A i, j \in DOMAIN box, s \in Services :
          /\ AnswersAll(box[i], hs, s)
          /\ j < i /\ box[j].type = "ItemsChanged"
          /\ box[j].sender = OwnerAt(box, own, i, s)
          => box[i].items[box[j].path] # Absent

\* The same of the changes in the queue.
QueuePaths(box, own, ex, hs, queue) ==
    \A e \in queue :
        /\ \A i \in DOMAIN box :
              /\ AnswersAll(box[i], hs, e.service)
              /\ OwnerAt(box, own, i, e.service) = OwnerAt(box, own, 1, e.service)
              => box[i].items[e.path] # Absent
        /\ own[e.service] # None /\ OwnerAt(box, own, 1, e.service) = own[e.service]
              => e.path \in ex[e.service]

\* The cache, when nothing more will be told.
CacheSound(box, own, val, items) ==
    \A s \in Services, p \in Paths \ Silent :
        items[s][p] # Absent /\ ~News(box, own, 1, s, p) => items[s][p].value = val[s][p]

\* The queue, when nothing more will be told: its last entry of a path.
LastQueued(queue, e) ==
    \A f \in queue : f.service = e.service /\ f.path = e.path => f.at <= e.at

QueueSound(box, own, val, queue) ==
    /\ \A e \in queue : OwnerAt(box, own, 1, e.service) # None
    /\ \A e, f \in queue : f.at <= e.at /\ e.old => f.old
    /\ \A e \in queue : e.path \notin Silent /\ LastQueued(queue, e)
          /\ ~News(box, own, 1, e.service, e.path) => e.value = val[e.service][e.path]

\* Whoever has items, or changes queued, or was asked for its items, is known by
\* the name it sends from.
Followed(hs, items, queue, s) ==
    \/ Mapped(items, s)
    \/ \E e \in queue : e.service = s
    \/ \E n \in Serials : hs[n] # None /\ hs[n].kind \in {"get_items", "get_value"}
                          /\ hs[n].service = s

HeardSound(box, own, ids, hs, items, queue) ==
    \A s \in Services :
        Followed(hs, items, queue, s) /\ OwnerAt(box, own, 1, s) # None
            => ids[OwnerAt(box, own, 1, s)] = s

\* Inner objects are read of services with items only.
InnerSound(hs, items) == \A n \in Serials : Inner(hs[n]) => Mapped(items, hs[n].service)

\* A call and its handler are about one path.
CallsMatch(cs, hs) == \A n \in Serials : cs[n] # None => hs[n] # None /\ hs[n].path = cs[n].path

----------------------------------------------------------------------------
(* News ahead.                                                             *)

LEMMA NewsAppended ==
    ASSUME NEW box \in Seq(Message), NEW m \in Message, NEW own, NEW after, NEW s, NEW p,
           NEW i \in 1 .. Len(box) + 1, IsChange(m, s) \/ after[s] = own[s]
    PROVE  News(Append(box, m), after, i, s, p)
              <=> News(box, own, i, s, p) \/ IsNews(m, after, s, p)
<1> DEFINE all == Append(box, m)
           last == Len(box) + 1
<1>1. /\ DOMAIN all = 1 .. last /\ DOMAIN box = 1 .. Len(box) /\ Len(box) \in Nat
      /\ all[last] = m /\ \A j \in DOMAIN box : all[j] = box[j]
  BY AppendProperties
<1>2. last \in DOMAIN all /\ last >= i /\ i \in Nat
  BY <1>1
<1>3. \A j : j \in DOMAIN all <=> j \in DOMAIN box \/ j = last
  BY <1>1
<1> HIDE DEF all, last
<1>4. CASE IsChange(m, s)
  <2>1. News(all, after, i, s, p) /\ IsNews(m, after, s, p)
    BY <1>1, <1>2, <1>4 DEF News, IsNews
  <2> QED
    BY <2>1 DEF all
<1>5. CASE ~IsChange(m, s)
  <2>1. \A k : IsNews(k, after, s, p) <=> IsNews(k, own, s, p)
    BY <1>5 DEF IsNews
  <2>2. News(all, after, i, s, p) <=> News(box, own, i, s, p) \/ IsNews(m, after, s, p)
    BY <1>1, <1>2, <1>3, <2>1 DEF News
  <2> QED
    BY <2>2 DEF all
<1> QED
  BY <1>4, <1>5

LEMMA NewsTail ==
    ASSUME NEW box \in Seq(Message), box # <<>>, NEW own, NEW s, NEW p, NEW i \in Nat \ {0}
    PROVE  News(Tail(box), own, i, s, p) <=> News(box, own, i + 1, s, p)
<1> DEFINE rest == Tail(box)
<1>1. /\ DOMAIN rest = 1 .. Len(box) - 1 /\ DOMAIN box = 1 .. Len(box) /\ Len(box) \in Nat
      /\ \A j \in DOMAIN rest : rest[j] = box[j + 1]
  BY HeadTailProperties
<1> HIDE DEF rest
<1>2. ASSUME News(rest, own, i, s, p) PROVE News(box, own, i + 1, s, p)
  <2>1. PICK j \in DOMAIN rest : j >= i /\ IsNews(rest[j], own, s, p)
    BY <1>2 DEF News
  <2>2. j + 1 \in DOMAIN box /\ j + 1 >= i + 1 /\ box[j + 1] = rest[j]
    BY <1>1, <2>1
  <2> QED
    BY <2>1, <2>2 DEF News
<1>3. ASSUME News(box, own, i + 1, s, p) PROVE News(rest, own, i, s, p)
  <2>1. PICK j \in DOMAIN box : j >= i + 1 /\ IsNews(box[j], own, s, p)
    BY <1>3 DEF News
  <2>2. j - 1 \in DOMAIN rest /\ j - 1 >= i /\ (j - 1) + 1 = j
    BY <1>1, <2>1
  <2>3. rest[j - 1] = box[j]
    BY <1>1, <2>2
  <2> QED
    BY <2>1, <2>2, <2>3 DEF News
<1>4. News(rest, own, i, s, p) <=> News(box, own, i + 1, s, p)
  BY <1>2, <1>3
<1> QED
  BY <1>4 DEF rest

LEMMA NewsHere ==
    ASSUME NEW box \in Seq(Message), NEW own, NEW s, NEW p, NEW i \in DOMAIN box
    PROVE  News(box, own, i, s, p) <=> IsNews(box[i], own, s, p) \/ News(box, own, i + 1, s, p)
<1>1. \A j \in DOMAIN box : j >= i <=> j = i \/ j >= i + 1
  OBVIOUS
<1> QED
  BY <1>1 DEF News

----------------------------------------------------------------------------
(* What the bus does.                                                      *)

\* The parts of the invariant that the bus can disturb.
Follows(box, own, sp, ex, val, ids, hs, items, queue) ==
    /\ NewsSound(box, own, val, hs)
    /\ OwnersSound(box, own, sp)
    /\ PathsSound(box, own, ex, hs)
    /\ QueuePaths(box, own, ex, hs, queue)
    /\ CacheSound(box, own, val, items)
    /\ QueueSound(box, own, val, queue)
    /\ HeardSound(box, own, ids, hs, items, queue)

\* Without a message, silent paths may change and paths be added.
LEMMA FollowsQuiet ==
    ASSUME NEW box, NEW own, NEW sp, NEW ex, NEW ex2, NEW val, NEW val2,
           NEW ids, NEW hs, NEW items, NEW queue \in SUBSET Queued,
           Follows(box, own, sp, ex, val, ids, hs, items, queue),
           \A s \in Services : /\ ex[s] \subseteq ex2[s]
                               /\ \A p \in Paths \ Silent : val2[s][p] = val[s][p]
    PROVE  Follows(box, own, sp, ex2, val2, ids, hs, items, queue)
<1>0. \A e \in queue : e.service \in Services /\ e.path \in Paths
  BY DEF Queued
<1>1. NewsSound(box, own, val2, hs)
  BY DEF Follows, NewsSound
<1>2. PathsSound(box, own, ex2, hs)
  BY DEF Follows, PathsSound
<1>3. QueuePaths(box, own, ex2, hs, queue)
  BY <1>0 DEF Follows, QueuePaths
<1>4. CacheSound(box, own, val2, items)
  BY DEF Follows, CacheSound
<1>5. QueueSound(box, own, val2, queue)
  BY <1>0 DEF Follows, QueueSound
<1> QED
  BY <1>1, <1>2, <1>3, <1>4, <1>5 DEF Follows

\* The message m tells all that changes: the owner that was before, the value
\* of a path that is not silent, the paths and values there are.
TellsAll(m, own, own2, sp, sp2, ex, ex2, val, val2, hs) ==
    /\ sp \subseteq sp2
    /\ \A s \in Services :
          /\ IsChange(m, s) => m.old = own[s] /\ own2[s] # own[s]
          /\ ~IsChange(m, s) => /\ own2[s] = own[s]
                                /\ ex[s] \subseteq ex2[s]
                                /\ \A p \in Paths \ Silent :
                                      IsNews(m, own2, s, p) \/ val2[s][p] = val[s][p]
          /\ own2[s] # None => /\ own2[s] \in sp2
                               /\ own2[s] # own[s] => own2[s] \notin sp
                               /\ \A t \in Services : own2[t] = own2[s] => t = s
    /\ m.type = "ItemsChanged" =>
          /\ m.sender \in sp2
          /\ \A s \in Services : m.sender = own2[s] =>
                m.path \in ex2[s] /\ m.value = val2[s][m.path]
    /\ m.type = "Items" =>
          LET h == hs[m.serial]
          IN  /\ own2[h.service] # None
              /\ \A p \in Paths : m.items[p] \in {Absent, val2[h.service][p]}
              /\ ~Inner(h) => \A p \in ex2[h.service] : m.items[p] # Absent
    /\ m.type = "Leaf" =>
          LET h == hs[m.serial]
          IN  h.path \in Paths => m.value = val2[h.service][h.path]

LEMMA FollowsAppended ==
    ASSUME NEW box \in Seq(Message), NEW m \in Message, NEW own, NEW own2, NEW sp, NEW sp2,
           NEW ex, NEW ex2, NEW val, NEW val2, NEW ids, NEW hs, NEW items,
           NEW queue \in SUBSET Queued,
           Follows(box, own, sp, ex, val, ids, hs, items, queue),
           TellsAll(m, own, own2, sp, sp2, ex, ex2, val, val2, hs)
    PROVE  Follows(Append(box, m), own2, sp2, ex2, val2, ids, hs, items, queue)
<1> DEFINE all == Append(box, m)
           last == Len(box) + 1
<1>1. /\ all \in Seq(Message) /\ Len(all) = last
      /\ DOMAIN all = 1 .. last /\ DOMAIN box = 1 .. Len(box) /\ Len(box) \in Nat
      /\ all[last] = m /\ \A j \in DOMAIN box : all[j] = box[j]
  BY AppendProperties
<1>2. \A e \in queue : e.service \in Services /\ e.path \in Paths
  BY DEF Queued
<1>3. \A s \in Services, i \in 1 .. last : OwnerAt(all, own2, i, s) = OwnerAt(box, own, i, s)
  <2> SUFFICES ASSUME NEW s \in Services, NEW i \in 1 .. last
               PROVE  OwnerAt(all, own2, i, s) = OwnerAt(box, own, i, s)
    OBVIOUS
  <2>1. IsChange(m, s) => m.old = own[s]
    BY DEF TellsAll
  <2>2. ~IsChange(m, s) => own2[s] = own[s]
    BY DEF TellsAll
  <2> QED
    BY <2>1, <2>2, OwnerAtAppend
<1>4. \A s \in Services, p \in Paths, i \in 1 .. last :
         ~News(all, own2, i, s, p) =>
            /\ ~News(box, own, i, s, p) /\ ~IsNews(m, own2, s, p) /\ ~IsChange(m, s)
            /\ own2[s] = own[s]
  <2> SUFFICES ASSUME NEW s \in Services, NEW p \in Paths, NEW i \in 1 .. last,
                      ~News(all, own2, i, s, p)
               PROVE  /\ ~News(box, own, i, s, p) /\ ~IsNews(m, own2, s, p) /\ ~IsChange(m, s)
                      /\ own2[s] = own[s]
    OBVIOUS
  <2>1. IsChange(m, s) \/ own2[s] = own[s]
    BY DEF TellsAll
  <2>2. ~News(box, own, i, s, p) /\ ~IsNews(m, own2, s, p)
    BY <2>1, NewsAppended
  <2> QED
    BY <2>1, <2>2 DEF IsNews
<1>5. \A s \in Services, p \in Paths \ Silent, i \in 1 .. last :
         ~News(all, own2, i, s, p) => val2[s][p] = val[s][p]
  <2> SUFFICES ASSUME NEW s \in Services, NEW p \in Paths \ Silent, NEW i \in 1 .. last,
                      ~News(all, own2, i, s, p)
               PROVE  val2[s][p] = val[s][p]
    OBVIOUS
  <2>1. ~IsNews(m, own2, s, p) /\ ~IsChange(m, s)
    BY <1>4
  <2> QED
    BY <2>1 DEF TellsAll
<1>6. /\ \A s \in Services, i \in Nat : i > last => OwnerAt(all, own2, i, s) = own2[s]
      /\ \A s \in Services : OwnerAt(box, own, last, s) = own[s]
  <2>1. ASSUME NEW s \in Services, NEW i \in Nat, i > last
        PROVE  OwnerAt(all, own2, i, s) = own2[s]
    <3> HIDE DEF all, last
    <3>1. i > Len(all)
      BY <1>1, <2>1
    <3> QED
      BY <1>1, <3>1, OwnerAtEnd
  <2>2. ASSUME NEW s \in Services PROVE OwnerAt(box, own, last, s) = own[s]
    BY <1>1, OwnerAtEnd
  <2> QED
    BY <2>1, <2>2
<1> HIDE DEF all
<1>7. \A i \in DOMAIN all : i \in DOMAIN box \/ i = last
  BY <1>1
<1>8. last \in Nat /\ 1 \in 1 .. last /\ last \in 1 .. last
      /\ \A i \in DOMAIN all : i \in 1 .. last /\ i \in Nat
  BY <1>1
<1> HIDE DEF last
<1>9. \A s \in Services : own2[s] \in sp /\ own2[s] # None => own2[s] = own[s] /\ ~IsChange(m, s)
  BY DEF TellsAll
<1>10. OwnersSound(all, own2, sp2)
  <2>1. ASSUME NEW i \in Nat \ {0}, NEW s \in Services, OwnerAt(all, own2, i, s) # None
        PROVE  /\ OwnerAt(all, own2, i, s) \in sp2
               /\ \A t \in Services : OwnerAt(all, own2, i, t) = OwnerAt(all, own2, i, s) => t = s
    <3>1. CASE i \in 1 .. last
      <4>1. \A t \in Services : OwnerAt(all, own2, i, t) = OwnerAt(box, own, i, t)
        BY <1>3, <3>1
      <4>2. /\ OwnerAt(box, own, i, s) \in sp
            /\ \A t \in Services : OwnerAt(box, own, i, t) = OwnerAt(box, own, i, s) => t = s
        BY <2>1, <4>1 DEF Follows, OwnersSound
      <4> QED
        BY <4>1, <4>2 DEF TellsAll
    <3>2. CASE i > last
      BY <1>6, <2>1, <3>2 DEF TellsAll
    <3> QED
      BY <1>8, <3>1, <3>2
  <2>2. ASSUME NEW i \in DOMAIN all, all[i].type = "ItemsChanged" PROVE all[i].sender \in sp2
    BY <1>1, <1>7, <2>2 DEF Follows, OwnersSound, TellsAll
  <2> QED
    BY <2>1, <2>2 DEF OwnersSound
<1>11. ASSUME NEW i \in DOMAIN box, NEW s \in Services,
              box[i].type = "ItemsChanged", box[i].sender = own2[s], own2[s] # None
       PROVE  box[i].path \in ex2[s]
  <2>1. box[i].sender \in sp
    BY <1>11 DEF Follows, OwnersSound
  <2>2. own2[s] = own[s] /\ ~IsChange(m, s)
    BY <1>9, <1>11, <2>1
  <2>3. box[i].path \in ex[s]
    BY <1>11, <2>2 DEF Follows, PathsSound
  <2> QED
    BY <2>2, <2>3 DEF TellsAll
<1>12. \A i \in DOMAIN box : box[i].type = "ItemsChanged" => box[i].sender # None
  BY <1>1, ElementOfSeq, MessageParts, BusAssumption
<1>13. m.type = "ItemsChanged" => m.sender # None
  BY MessageParts, BusAssumption
<1>14. ASSUME NEW s \in Services, AnswersAll(m, hs, s)
       PROVE  /\ own[s] = own2[s] /\ own2[s] # None /\ OwnerAt(all, own2, last, s) = own2[s]
              /\ \A p \in ex2[s] : m.items[p] # Absent
              /\ ex[s] \subseteq ex2[s]
  <2>1. m.type = "Items" /\ hs[m.serial].service = s /\ ~Inner(hs[m.serial])
    BY <1>14 DEF AnswersAll
  <2>2. ~IsChange(m, s)
    BY <2>1 DEF IsChange
  <2>3. OwnerAt(all, own2, last, s) = own[s]
    BY <1>3, <1>6, <1>8
  <2> QED
    BY <2>1, <2>2, <2>3 DEF TellsAll
<1>15. PathsSound(all, own2, ex2, hs)
  <2>1. ASSUME NEW i \in DOMAIN all, NEW s \in Services,
               all[i].type = "ItemsChanged", all[i].sender = own2[s]
        PROVE  all[i].path \in ex2[s]
    <3>1. CASE i \in DOMAIN box
      BY <1>1, <1>11, <1>12, <2>1, <3>1
    <3>2. CASE i = last
      BY <1>1, <2>1, <3>2 DEF TellsAll
    <3> QED
      BY <1>7, <3>1, <3>2
  <2>2. ASSUME NEW i \in DOMAIN all, NEW j \in DOMAIN all, NEW s \in Services,
               AnswersAll(all[i], hs, s), j < i, all[j].type = "ItemsChanged",
               all[j].sender = OwnerAt(all, own2, i, s)
        PROVE  all[i].items[all[j].path] # Absent
    <3>0. j \in DOMAIN box /\ all[j] = box[j]
      BY <1>1, <2>2 DEF last
    <3>1. CASE i \in DOMAIN box
      <4>1. all[i] = box[i] /\ OwnerAt(all, own2, i, s) = OwnerAt(box, own, i, s)
        BY <1>1, <1>3, <1>8, <3>1
      <4> QED
        BY <2>2, <3>0, <3>1, <4>1 DEF Follows, PathsSound
    <3>2. CASE i = last
      <4>1. AnswersAll(m, hs, s) /\ all[i] = m
        BY <1>1, <2>2, <3>2
      <4>2. box[j].sender = own2[s]
        BY <1>14, <2>2, <3>0, <3>2, <4>1
      <4>3. box[j].path \in ex2[s]
        BY <1>11, <1>12, <2>2, <3>0, <4>2
      <4> QED
        BY <1>14, <3>0, <4>1, <4>3
    <3> QED
      BY <1>7, <3>1, <3>2
  <2> QED
    BY <2>1, <2>2 DEF PathsSound
<1>16. QueuePaths(all, own2, ex2, hs, queue)
  <2> SUFFICES ASSUME NEW e \in queue
      PROVE  /\ \A i \in DOMAIN all :
                   /\ AnswersAll(all[i], hs, e.service)
                   /\ OwnerAt(all, own2, i, e.service) = OwnerAt(all, own2, 1, e.service)
                   => all[i].items[e.path] # Absent
             /\ own2[e.service] # None /\ OwnerAt(all, own2, 1, e.service) = own2[e.service]
                   => e.path \in ex2[e.service]
    BY DEF QueuePaths
  <2> DEFINE s == e.service
  <2>1. /\ s \in Services /\ OwnerAt(all, own2, 1, s) = OwnerAt(box, own, 1, s)
    BY <1>2, <1>3, <1>8
  <2>2. ASSUME own2[s] # None, OwnerAt(all, own2, 1, s) = own2[s] PROVE e.path \in ex2[s]
    <3>1. own2[s] \in sp
      BY <2>1, <2>2 DEF Follows, OwnersSound
    <3>2. own2[s] = own[s] /\ ~IsChange(m, s)
      BY <1>9, <2>1, <2>2, <3>1
    <3>3. e.path \in ex[s]
      BY <2>1, <2>2, <3>2 DEF Follows, QueuePaths
    <3> QED
      BY <2>1, <3>2, <3>3 DEF TellsAll
  <2>3. ASSUME NEW i \in DOMAIN all, AnswersAll(all[i], hs, s),
               OwnerAt(all, own2, i, s) = OwnerAt(all, own2, 1, s)
        PROVE  all[i].items[e.path] # Absent
    <3>1. CASE i \in DOMAIN box
      <4>1. all[i] = box[i] /\ OwnerAt(all, own2, i, s) = OwnerAt(box, own, i, s)
        BY <1>1, <1>3, <1>8, <2>1, <3>1
      <4> QED
        BY <2>1, <2>3, <3>1, <4>1 DEF Follows, QueuePaths
    <3>2. CASE i = last
      <4>1. AnswersAll(m, hs, s) /\ all[i] = m
        BY <1>1, <2>3, <3>2
      <4>2. own2[s] # None /\ OwnerAt(all, own2, 1, s) = own2[s]
        BY <1>14, <2>1, <2>3, <3>2, <4>1
      <4> QED
        BY <1>14, <2>1, <2>2, <4>1, <4>2
    <3> QED
      BY <1>7, <3>1, <3>2
  <2> QED
    BY <2>2, <2>3
<1>17. NewsSound(all, own2, val2, hs)
  <2> SUFFICES ASSUME NEW i \in DOMAIN all, NEW s \in Services, NEW p \in Paths \ Silent,
                      NEW v \in Values, Tells(all[i], own2, hs, s, p, v),
                      ~News(all, own2, i + 1, s, p)
               PROVE  v = val2[s][p]
    BY DEF NewsSound
  <2>1. CASE i \in DOMAIN box
    <3>1. i + 1 \in 1 .. last /\ all[i] = box[i]
      BY <1>1, <2>1 DEF last
    <3>2. /\ ~News(box, own, i + 1, s, p) /\ own2[s] = own[s] /\ val2[s][p] = val[s][p]
      BY <1>4, <1>5, <3>1
    <3>3. Tells(box[i], own, hs, s, p, v)
      BY <3>1, <3>2 DEF Tells
    <3> QED
      BY <2>1, <3>2, <3>3 DEF Follows, NewsSound
  <2>2. CASE i = last
    <3>1. Tells(m, own2, hs, s, p, v)
      BY <1>1, <2>2
    <3> QED
      BY <3>1, BusAssumption DEF Tells, TellsAll
  <2> QED
    BY <1>7, <2>1, <2>2
<1>18. CacheSound(all, own2, val2, items)
  BY <1>4, <1>5, <1>8 DEF Follows, CacheSound
<1>19. QueueSound(all, own2, val2, queue)
  <2>1. \A e \in queue : OwnerAt(all, own2, 1, e.service) # None
    BY <1>2, <1>3, <1>8 DEF Follows, QueueSound
  <2>2. ASSUME NEW e \in queue, e.path \notin Silent, LastQueued(queue, e),
               ~News(all, own2, 1, e.service, e.path)
        PROVE  e.value = val2[e.service][e.path]
    <3>1. e.service \in Services /\ e.path \in Paths \ Silent
      BY <1>2, <2>2
    <3>2. /\ ~News(box, own, 1, e.service, e.path)
          /\ val2[e.service][e.path] = val[e.service][e.path]
      BY <1>4, <1>5, <1>8, <2>2, <3>1
    <3> QED
      BY <2>2, <3>2 DEF Follows, QueueSound
  <2> QED
    BY <2>1, <2>2 DEF Follows, QueueSound
<1>20. HeardSound(all, own2, ids, hs, items, queue)
  BY <1>3, <1>8 DEF Follows, HeardSound
<1> QED
  BY <1>10, <1>15, <1>16, <1>17, <1>18, <1>19, <1>20 DEF Follows, all


FollowInv ==
    /\ Follows(inbox, owner, spent, exported, value, service_id_to_names,
               async_handlers, dbus_service_items, delayed_changed_values)
    /\ InnerSound(async_handlers, dbus_service_items)
    /\ CallsMatch(calls, async_handlers)

\* The names in use were handed out, and each is that of one service.
LEMMA OwnersNow ==
    ASSUME Inv, OwnersSound(inbox, owner, spent), NEW s \in Services, owner[s] # None
    PROVE  owner[s] \in spent /\ \A t \in Services : owner[t] = owner[s] => t = s
<1> DEFINE i == Len(inbox) + 1
<1>1. inbox \in Seq(Message) /\ i \in Nat \ {0} /\ i > Len(inbox)
  BY DEF Inv, BusTypeOK
<1> HIDE DEF i
<1>2. \A t \in Services : OwnerAt(inbox, owner, i, t) = owner[t]
  BY <1>1, OwnerAtEnd
<1> QED
  BY <1>1, <1>2 DEF OwnersSound

\* A step of the bus that appends a message.
LEMMA BusAppends ==
    ASSUME Inv, FollowInv, UNCHANGED registryVars, NEW m \in Message,
           inbox' = Append(inbox, m),
           TellsAll(m, owner, owner', spent, spent', exported, exported', value, value',
                    async_handlers),
           \A n \in Serials : calls'[n] \in {None, calls[n]}
    PROVE  FollowInv'
<1>1. inbox \in Seq(Message) /\ delayed_changed_values \in SUBSET Queued
  BY DEF Inv, BusTypeOK, RegistryInv, RegistrySound, Sound, Now
<1>2. Follows(inbox', owner', spent', exported', value', service_id_to_names,
              async_handlers, dbus_service_items, delayed_changed_values)
  BY <1>1, FollowsAppended DEF FollowInv
<1>3. CallsMatch(calls', async_handlers)
  BY DEF FollowInv, CallsMatch
<1> QED
  BY <1>2, <1>3 DEF FollowInv, registryVars

\* A step of the bus that tells nothing.
LEMMA BusQuiet ==
    ASSUME Inv, FollowInv, UNCHANGED registryVars,
           UNCHANGED <<inbox, owner, spent, calls>>,
           \A s \in Services : /\ exported[s] \subseteq exported'[s]
                               /\ \A p \in Paths \ Silent : value'[s][p] = value[s][p]
    PROVE  FollowInv'
<1>1. delayed_changed_values \in SUBSET Queued
  BY DEF Inv, RegistryInv, RegistrySound, Sound, Now
<1>2. Follows(inbox, owner, spent, exported', value', service_id_to_names,
              async_handlers, dbus_service_items, delayed_changed_values)
  BY <1>1, FollowsQuiet DEF FollowInv
<1> QED
  BY <1>2 DEF FollowInv, registryVars

LEMMA AppearFollows ==
    ASSUME Inv, FollowInv, UNCHANGED registryVars,
           NEW s \in Services, NEW o \in Owners, Appear(s, o)
    PROVE  FollowInv'
<1> DEFINE m == [type |-> "NameOwnerChanged", name |-> s, old |-> None, new |-> o]
<1>1. /\ owner \in [Services -> Owners \cup {None}] /\ o # None
      /\ exported \in [Services -> SUBSET Paths]
      /\ value \in [Services -> [Paths -> Values]]
  BY BusAssumption DEF Inv, BusTypeOK
<1>2. /\ owner[s] = None /\ o \notin spent /\ spent' = spent \cup {o}
      /\ owner' = [owner EXCEPT ![s] = o]
      /\ exported' = [exported EXCEPT ![s] = Paths \ Late]
      /\ value' = [value EXCEPT ![s] = [p \in Paths |-> FirstValue]]
      /\ inbox' = Append(inbox, m) /\ UNCHANGED calls
  BY DEF Appear
<1>3. m \in Message
  BY DEF Message, OwnerChange
<1>4. /\ \A t \in Services : IsChange(m, t) <=> t = s
      /\ m.type = "NameOwnerChanged" /\ m.old = None
  BY DEF IsChange
<1> HIDE DEF m
<1>5. \A t \in Services : owner[t] # None =>
         owner[t] \in spent /\ \A u \in Services : owner[u] = owner[t] => u = t
  BY OwnersNow DEF FollowInv, Follows
<1>6. /\ owner'[s] = o
      /\ \A t \in Services \ {s} : owner'[t] = owner[t] /\ exported'[t] = exported[t]
                                   /\ value'[t] = value[t]
  BY <1>1, <1>2
<1>7. \A t \in Services : owner'[t] # None =>
         /\ owner'[t] \in spent'
         /\ owner'[t] # owner[t] => owner'[t] \notin spent
         /\ \A u \in Services : owner'[u] = owner'[t] => u = t
  BY <1>1, <1>2, <1>5, <1>6
<1>8. TellsAll(m, owner, owner', spent, spent', exported, exported', value, value',
               async_handlers)
  BY <1>1, <1>2, <1>4, <1>6, <1>7 DEF TellsAll
<1> QED
  BY <1>2, <1>3, <1>8, BusAppends

LEMMA VanishFollows ==
    ASSUME Inv, FollowInv, UNCHANGED registryVars, NEW s \in Services, Vanish(s)
    PROVE  FollowInv'
<1> DEFINE m == [type |-> "NameOwnerChanged", name |-> s, old |-> owner[s], new |-> None]
<1>1. /\ owner \in [Services -> Owners \cup {None}]
      /\ exported \in [Services -> SUBSET Paths]
  BY DEF Inv, BusTypeOK
<1>2. /\ owner[s] # None
      /\ owner' = [owner EXCEPT ![s] = None]
      /\ exported' = [exported EXCEPT ![s] = {}]
      /\ inbox' = Append(inbox, m) /\ UNCHANGED <<spent, value, calls>>
  BY DEF Vanish
<1>3. m \in Message
  BY <1>1 DEF Message, OwnerChange
<1>4. /\ \A t \in Services : IsChange(m, t) <=> t = s
      /\ m.type = "NameOwnerChanged" /\ m.old = owner[s]
  BY DEF IsChange
<1> HIDE DEF m
<1>5. \A t \in Services : owner[t] # None =>
         owner[t] \in spent /\ \A u \in Services : owner[u] = owner[t] => u = t
  BY OwnersNow DEF FollowInv, Follows
<1>6. /\ owner'[s] = None
      /\ \A t \in Services \ {s} : owner'[t] = owner[t] /\ exported'[t] = exported[t]
  BY <1>1, <1>2
<1>7. TellsAll(m, owner, owner', spent, spent', exported, exported', value, value',
               async_handlers)
  BY <1>2, <1>4, <1>5, <1>6 DEF TellsAll
<1> QED
  BY <1>2, <1>3, <1>7, BusAppends

\* The signal of a change tells it.
LEMMA SignalTells ==
    ASSUME Inv, OwnersSound(inbox, owner, spent), NEW hs, NEW s \in Services, NEW p \in Paths,
           NEW v \in Values, owner[s] # None, p \in exported[s],
           NEW val, val = [value EXCEPT ![s][p] = v]
    PROVE  /\ Signal(s, p, v) \in Message
           /\ TellsAll(Signal(s, p, v), owner, owner, spent, spent, exported, exported,
                       value, val, hs)
<1> DEFINE m == Signal(s, p, v)
<1>1. m \in Message
  BY SignalTyped DEF Inv, Message
<1>2. /\ m.type = "ItemsChanged" /\ m.sender = owner[s] /\ m.path = p /\ m.value = v
      /\ \A t : ~IsChange(m, t)
  BY DEF Signal, IsChange
<1> HIDE DEF m
<1>3. \A t \in Services : owner[t] # None =>
         owner[t] \in spent /\ \A u \in Services : owner[u] = owner[t] => u = t
  BY OwnersNow
<1>4. value \in [Services -> [Paths -> Values]]
  BY DEF Inv, BusTypeOK
<1>5. \A t \in Services, q \in Paths : val[t][q] = IF t = s /\ q = p THEN v ELSE value[t][q]
  BY <1>4
<1>6. \A t \in Services, q \in Paths : IsNews(m, owner, t, q) \/ val[t][q] = value[t][q]
  BY <1>2, <1>5 DEF IsNews
<1>7. TellsAll(m, owner, owner, spent, spent, exported, exported, value, val, hs)
  BY <1>2, <1>3, <1>5, <1>6 DEF TellsAll
<1> QED
  BY <1>1, <1>7 DEF m

LEMMA ChangeFollows ==
    ASSUME Inv, FollowInv, UNCHANGED registryVars,
           NEW s \in Services, NEW p \in Paths, NEW v \in Values, Change(s, p, v)
    PROVE  FollowInv'
<1>1. /\ owner[s] # None /\ p \in exported[s]
      /\ value' = [value EXCEPT ![s][p] = v]
      /\ inbox' = IF p \in Silent THEN inbox ELSE Append(inbox, Signal(s, p, v))
      /\ UNCHANGED <<owner, spent, exported, calls, orphaned>>
  BY DEF Change
<1>2. CASE p \in Silent
  <2>1. value \in [Services -> [Paths -> Values]]
    BY DEF Inv, BusTypeOK
  <2>2. \A t \in Services, q \in Paths \ Silent : value'[t][q] = value[t][q]
    BY <1>1, <1>2, <2>1
  <2> QED
    BY <1>1, <1>2, <2>2, BusQuiet
<1>3. CASE p \notin Silent
  <2>1. /\ Signal(s, p, v) \in Message
        /\ TellsAll(Signal(s, p, v), owner, owner', spent, spent', exported, exported',
                    value, value', async_handlers)
    BY <1>1, SignalTells DEF FollowInv, Follows
  <2> QED
    BY <1>1, <1>3, <2>1, BusAppends
<1> QED
  BY <1>2, <1>3

LEMMA AddPathFollows ==
    ASSUME Inv, FollowInv, UNCHANGED registryVars,
           NEW s \in Services, NEW p \in Paths, AddPath(s, p)
    PROVE  FollowInv'
<1>1. exported \in [Services -> SUBSET Paths]
  BY DEF Inv, BusTypeOK
<1>2. /\ exported' = [exported EXCEPT ![s] = @ \cup {p}]
      /\ UNCHANGED <<owner, spent, value, calls, orphaned, inbox>>
  BY DEF AddPath
<1>3. \A t \in Services : exported[t] \subseteq exported'[t]
  BY <1>1, <1>2
<1> QED
  BY <1>2, <1>3, BusQuiet

\* A reply tells the items, or the value, there are now.
TellsNow(r, val) ==
    /\ r.type = "Items" =>
          LET h == async_handlers[r.serial]
          IN  /\ h.service \in Services /\ owner[h.service] # None
              /\ \A p \in Paths : r.items[p] \in {Absent, val[h.service][p]}
              /\ ~Inner(h) => \A p \in exported[h.service] : r.items[p] # Absent
    /\ r.type = "Leaf" =>
          LET h == async_handlers[r.serial]
          IN  h.path \in Paths => r.value = val[h.service][h.path]

LEMMA ReplyTells ==
    ASSUME Inv, OwnersSound(inbox, owner, spent), NEW r \in Reply, NEW val, TellsNow(r, val)
    PROVE  TellsAll(r, owner, owner, spent, spent, exported, exported, val, val, async_handlers)
<1>1. r.type \in ReplyTypes
  BY DEF Reply, NamesReply, OwnerReply, ItemsReply, LeafReply, DoneReply, ErrorReply, ReplyTypes
<1>2. r.type # "ItemsChanged" /\ \A t : ~IsChange(r, t)
  BY <1>1 DEF ReplyTypes, IsChange
<1>3. \A t \in Services : owner[t] # None =>
         owner[t] \in spent /\ \A u \in Services : owner[u] = owner[t] => u = t
  BY OwnersNow
<1> QED
  BY <1>2, <1>3 DEF TellsAll, TellsNow

\* An answer without a signal ahead of it.
LEMMA AnswerFollows ==
    ASSUME Inv, FollowInv, UNCHANGED registryVars, NEW n \in Serials, NEW r \in Reply,
           Answer(n, <<>>, r), UNCHANGED <<owner, spent, exported, value>>,
           TellsNow(r, value)
    PROVE  FollowInv'
<1>1. inbox \in Seq(Message) /\ calls \in [Serials -> Call \cup {None}] /\ r \in Message
  BY DEF Inv, BusTypeOK, Message
<1>2. inbox' = Append(inbox, r)
  BY <1>1, ConcatEmptySeq DEF Answer
<1>3. TellsAll(r, owner, owner', spent, spent', exported, exported', value, value',
               async_handlers)
  BY ReplyTells DEF FollowInv, Follows
<1>4. \A m \in Serials : calls'[m] \in {None, calls[m]}
  BY <1>1 DEF Answer
<1> QED
  BY <1>1, <1>2, <1>3, <1>4, BusAppends

LEMMA FailureTells ==
    ASSUME NEW n \in Serials, NEW error \in {"UnknownMethod", "Other"}, NEW val
    PROVE  Failure(n, error) \in Reply /\ TellsNow(Failure(n, error), val)
BY DEF Failure, Reply, ErrorReply, TellsNow

\* A call that is served, and its handler.
LEMMA ServedParts ==
    ASSUME Inv, OrderInv, FollowInv, NEW n \in Serials, Served(n)
    PROVE  /\ calls[n] \in Call /\ calls[n].service \in Services
           /\ owner[calls[n].service] # None
           /\ async_handlers[n] # None
           /\ async_handlers[n].service = calls[n].service
           /\ async_handlers[n].path = calls[n].path
<1>1. calls[n] # None /\ calls[n].service # None /\ owner[calls[n].service] # None
  BY DEF Served
<1>2. calls[n] \in Call
  BY <1>1 DEF Inv, BusTypeOK
<1>3. calls[n].service \in Services
  BY <1>1, <1>2 DEF Call
<1> QED
  BY <1>1, <1>2, <1>3 DEF OrderInv, CallsSound, FollowInv, CallsMatch

\* The items below the root are all there are.
LEMMA ItemsTell ==
    ASSUME Inv, OrderInv, FollowInv, NEW n \in Serials, Served(n), NEW paths,
           calls[n].path # SubtreeRoot => paths = Paths
    PROVE  LET r == [type |-> "Items", serial |-> n,
                     items |-> ItemsBelow(calls[n].service, paths)]
           IN  r \in Reply /\ TellsNow(r, value)
<1> DEFINE s == calls[n].service
           items == ItemsBelow(s, paths)
           r == [type |-> "Items", serial |-> n, items |-> items]
<1>1. /\ s \in Services /\ owner[s] # None /\ async_handlers[n].service = s
      /\ ~Inner(async_handlers[n]) => paths = Paths
  BY ServedParts DEF Inner
<1>2. /\ exported[s] \in SUBSET Paths /\ value[s] \in [Paths -> Values]
  BY <1>1 DEF Inv, BusTypeOK
<1>3. items \in ItemMap
  BY <1>2 DEF ItemsBelow, ItemMap
<1>4. \A p \in Paths : items[p] = IF p \in paths \cap exported[s] THEN value[s][p] ELSE Absent
  BY DEF ItemsBelow
<1>5. r.type = "Items" /\ r.serial = n /\ r.items = items
  OBVIOUS
<1>6. r \in Reply
  BY <1>3 DEF Reply, ItemsReply
<1> HIDE DEF items
<1>7. \A p \in exported[s] : value[s][p] # Absent
  BY <1>2, BusAssumption
<1>8. ~Inner(async_handlers[n]) => \A p \in exported[s] : items[p] # Absent
  BY <1>1, <1>2, <1>4, <1>7
<1>9. TellsNow(r, value)
  BY <1>1, <1>4, <1>8 DEF TellsNow
<1> QED
  BY <1>6, <1>9 DEF items

LEMMA SetFollows ==
    ASSUME Inv, OrderInv, FollowInv, UNCHANGED registryVars,
           NEW n \in Serials, AnswerSetValue(n)
    PROVE  FollowInv'
<1> DEFINE s == calls[n].service
           p == calls[n].path
           v == calls[n].value
           r == IF p \in exported[s] THEN [type |-> "Done", serial |-> n]
                ELSE Failure(n, "Other")
           changed == p \in exported[s] /\ v # value[s][p]
           loud == changed /\ p \notin Silent
<1>1. Served(n) /\ calls[n].method = "SetValue"
  BY DEF AnswerSetValue
<1>2. s \in Services /\ p \in Paths /\ v \in Values /\ owner[s] # None
  BY <1>1, ServedParts DEF Call
<1>3. r \in Reply /\ r.type \in {"Done", "Error"} /\ TellsNow(r, value')
  BY FailureTells DEF Failure, Reply, DoneReply, ErrorReply, TellsNow
<1>4. /\ value' = IF changed THEN [value EXCEPT ![s][p] = v] ELSE value
      /\ Answer(n, IF loud THEN <<Signal(s, p, v)>> ELSE <<>>, r)
      /\ UNCHANGED <<owner, spent, exported>>
  BY DEF AnswerSetValue
<1> HIDE DEF r
<1>5. /\ inbox \in Seq(Message) /\ calls \in [Serials -> Call \cup {None}]
      /\ value \in [Services -> [Paths -> Values]]
      /\ delayed_changed_values \in SUBSET Queued
  BY DEF Inv, BusTypeOK, RegistryInv, RegistrySound, Sound, Now
<1> DEFINE box == IF loud THEN Append(inbox, Signal(s, p, v)) ELSE inbox
           F(b, val) == Follows(b, owner, spent, exported, val, service_id_to_names,
                                async_handlers, dbus_service_items, delayed_changed_values)
<1>6. F(inbox, value) /\ OwnersSound(inbox, owner, spent)
  BY DEF FollowInv, Follows
<1>7. F(box, value') /\ box \in Seq(Message)
  <2>1. CASE loud
    <3>1. value' = [value EXCEPT ![s][p] = v] /\ p \in exported[s]
      BY <1>4, <2>1
    <3>2. /\ Signal(s, p, v) \in Message
          /\ TellsAll(Signal(s, p, v), owner, owner, spent, spent, exported, exported,
                      value, value', async_handlers)
      BY <1>2, <1>6, <3>1, SignalTells
    <3>3. F(Append(inbox, Signal(s, p, v)), value')
      BY <1>5, <1>6, <3>2, FollowsAppended
    <3> QED
      BY <1>5, <2>1, <3>2, <3>3, AppendProperties
  <2>2. CASE ~loud
    <3>1. \A t \in Services, q \in Paths \ Silent : value'[t][q] = value[t][q]
      BY <1>4, <1>5, <2>2
    <3>2. F(inbox, value')
      BY <1>5, <1>6, <3>1, FollowsQuiet
    <3> QED
      BY <1>5, <2>2, <3>2
  <2> QED
    BY <2>1, <2>2
<1>8. inbox' = Append(box, r)
  <2>1. CASE loud
    <3>1. inbox \o <<Signal(s, p, v)>> = Append(inbox, Signal(s, p, v))
      BY <1>5
    <3> QED
      BY <1>4, <2>1, <3>1 DEF Answer
  <2>2. CASE ~loud
    BY <1>4, <1>5, <2>2, ConcatEmptySeq DEF Answer
  <2> QED
    BY <2>1, <2>2
<1> HIDE DEF box, F
<1>9. TellsAll(r, owner, owner, spent, spent, exported, exported, value', value',
               async_handlers)
  BY <1>3, <1>6, ReplyTells
<1>10. F(inbox', value')
  BY <1>3, <1>5, <1>7, <1>8, <1>9, FollowsAppended DEF F, Message
<1>11. CallsMatch(calls', async_handlers)
  BY <1>4, <1>5 DEF FollowInv, CallsMatch, Answer
<1> QED
  BY <1>4, <1>10, <1>11 DEF FollowInv, F, registryVars

LEMMA BusAnswerFollows ==
    ASSUME Inv, OrderInv, FollowInv, UNCHANGED registryVars, NEW n \in Serials, BusAnswer(n)
    PROVE  FollowInv'
<1> DEFINE s == calls[n].service
           p == calls[n].path
<1>1. ASSUME NEW error \in {"UnknownMethod", "Other"}, Answer(n, <<>>, Failure(n, error)),
             UNCHANGED <<owner, spent, exported, value>>
      PROVE  FollowInv'
  BY <1>1, FailureTells, AnswerFollows
<1>2. CASE AnswerListNames(n)
  <2> DEFINE r == [type |-> "Names", serial |-> n, names |-> {t \in Services : owner[t] # None}]
  <2>1. r \in Reply /\ TellsNow(r, value)
    BY DEF Reply, NamesReply, TellsNow
  <2>2. Answer(n, <<>>, r) /\ UNCHANGED <<owner, spent, exported, value>>
    BY <1>2 DEF AnswerListNames
  <2> HIDE DEF r
  <2> QED
    BY <2>1, <2>2, AnswerFollows
<1>3. CASE AnswerGetNameOwner(n)
  <2> DEFINE r == [type |-> "Owner", serial |-> n, owner |-> owner[s]]
  <2>1. /\ calls[n] # None /\ calls[n].method = "GetNameOwner"
        /\ UNCHANGED <<owner, spent, exported, value>>
        /\ Answer(n, <<>>, IF owner[s] = None THEN Failure(n, "Other") ELSE r)
    BY <1>3 DEF AnswerGetNameOwner
  <2>2. s \in Services /\ owner[s] \in Owners \cup {None}
    BY <2>1 DEF Call, Inv, BusTypeOK
  <2>3. owner[s] # None => r \in Reply /\ TellsNow(r, value)
    BY <2>2 DEF Reply, OwnerReply, TellsNow
  <2> HIDE DEF r
  <2> QED
    BY <1>1, <2>1, <2>3, AnswerFollows
<1>4. CASE AnswerGetItems(n)
  <2> DEFINE r == [type |-> "Items", serial |-> n, items |-> ItemsBelow(s, Paths)]
  <2>1. /\ Served(n) /\ UNCHANGED <<owner, spent, exported, value>>
        /\ Answer(n, <<>>, IF s \in Legacy THEN Failure(n, "UnknownMethod") ELSE r)
    BY <1>4 DEF AnswerGetItems
  <2>2. r \in Reply /\ TellsNow(r, value)
    BY <2>1, ItemsTell
  <2> HIDE DEF r
  <2> QED
    BY <1>1, <2>1, <2>2, AnswerFollows
<1>5. CASE AnswerGetValue(n)
  <2> DEFINE below == IF p = Root THEN Paths ELSE Subtree
             leaf == [type |-> "Leaf", serial |-> n, value |-> value[s][p]]
             items == [type |-> "Items", serial |-> n, items |-> ItemsBelow(s, below)]
             none == p \in Paths \/ (p = SubtreeRoot /\ Subtree \cap exported[s] = {})
  <2>1. /\ Served(n) /\ calls[n].method = "GetValue"
        /\ UNCHANGED <<owner, spent, exported, value>>
        /\ Answer(n, <<>>, IF p \in exported[s] THEN leaf
                           ELSE IF none THEN Failure(n, "Other") ELSE items)
    BY <1>5 DEF AnswerGetValue
  <2>2. /\ calls[n] \in Call /\ s \in Services
        /\ async_handlers[n].service = s /\ async_handlers[n].path = p
    BY <2>1, ServedParts
  <2>3. CASE p \in exported[s]
    <3>1. exported[s] \in SUBSET Paths /\ value[s] \in [Paths -> Values]
      BY <2>2 DEF Inv, BusTypeOK
    <3>2. leaf \in Reply /\ TellsNow(leaf, value)
      BY <2>2, <2>3, <3>1 DEF Reply, LeafReply, TellsNow
    <3> HIDE DEF leaf
    <3> QED
      BY <2>1, <2>3, <3>2, AnswerFollows
  <2>4. CASE p \notin exported[s] /\ none
    BY <1>1, <2>1, <2>4
  <2>5. CASE p \notin exported[s] /\ ~none
    <3>1. p = Root \/ p = SubtreeRoot
      BY <2>1, <2>2, <2>5 DEF Call, CallPaths
    <3>2. p # SubtreeRoot => below = Paths
      BY <3>1
    <3>3. items \in Reply /\ TellsNow(items, value)
      BY <2>1, <3>2, ItemsTell
    <3> HIDE DEF items, none
    <3> QED
      BY <2>1, <2>5, <3>3, AnswerFollows
  <2> QED
    BY <2>3, <2>4, <2>5
<1>6. CASE AnswerSetValue(n)
  BY <1>6, SetFollows
<1>7. CASE FailCall(n)
  BY <1>1, <1>7 DEF FailCall
<1> QED
  BY <1>2, <1>3, <1>4, <1>5, <1>6, <1>7 DEF BusAnswer

LEMMA BusFollows ==
    ASSUME Inv, OrderInv, FollowInv, Bus
    PROVE  FollowInv'
<1>1. UNCHANGED registryVars
  BY DEF Bus
<1>2. CASE \E s \in Services, o \in Owners : Appear(s, o)
  BY <1>1, <1>2, AppearFollows
<1>3. CASE \E s \in Services : Vanish(s)
  BY <1>1, <1>3, VanishFollows
<1>4. CASE \E s \in Services, p \in Paths, v \in Values : Change(s, p, v)
  BY <1>1, <1>4, ChangeFollows
<1>5. CASE \E s \in Services, p \in Paths : AddPath(s, p)
  BY <1>1, <1>5, AddPathFollows
<1>6. CASE \E n \in Serials : BusAnswer(n)
  BY <1>1, <1>6, BusAnswerFollows
<1> QED
  BY <1>2, <1>3, <1>4, <1>5, <1>6 DEF Bus

----------------------------------------------------------------------------
(* What is left of the inbox when a message is taken off.                  *)

LEMMA TailKeeps ==
    ASSUME NEW box \in Seq(Message), box # <<>>, NEW own, NEW sp, NEW ex, NEW val, NEW hs,
           NewsSound(box, own, val, hs), OwnersSound(box, own, sp), PathsSound(box, own, ex, hs)
    PROVE  /\ NewsSound(Tail(box), own, val, hs)
           /\ OwnersSound(Tail(box), own, sp)
           /\ PathsSound(Tail(box), own, ex, hs)
<1> DEFINE rest == Tail(box)
<1>0. SUFFICES /\ NewsSound(rest, own, val, hs)
               /\ OwnersSound(rest, own, sp)
               /\ PathsSound(rest, own, ex, hs)
  OBVIOUS
<1>1. /\ rest \in Seq(Message)
      /\ DOMAIN rest = 1 .. Len(box) - 1 /\ DOMAIN box = 1 .. Len(box) /\ Len(box) \in Nat
      /\ \A j \in DOMAIN rest : rest[j] = box[j + 1]
  BY HeadTailProperties
<1>2. \A i \in Nat \ {0} : \A s : OwnerAt(rest, own, i, s) = OwnerAt(box, own, i + 1, s)
  BY OwnerAtTail
<1>3. \A i \in Nat \ {0} : \A s, p :
         News(rest, own, i, s, p) <=> News(box, own, i + 1, s, p)
  BY NewsTail
<1> HIDE DEF rest
<1>4. \A j \in DOMAIN rest : j \in Nat \ {0} /\ j + 1 \in DOMAIN box /\ j + 1 \in Nat \ {0}
  BY <1>1
<1>5. NewsSound(rest, own, val, hs)
  <2> SUFFICES ASSUME NEW i \in DOMAIN rest, NEW s \in Services, NEW p \in Paths \ Silent,
                      NEW v \in Values, Tells(rest[i], own, hs, s, p, v),
                      ~News(rest, own, i + 1, s, p)
               PROVE  v = val[s][p]
    BY DEF NewsSound
  <2>1. i + 1 \in DOMAIN box /\ rest[i] = box[i + 1] /\ ~News(box, own, (i + 1) + 1, s, p)
    BY <1>1, <1>3, <1>4
  <2> QED
    BY <2>1 DEF NewsSound
<1>6. OwnersSound(rest, own, sp)
  <2>1. ASSUME NEW i \in Nat \ {0}, NEW s \in Services, OwnerAt(rest, own, i, s) # None
        PROVE  /\ OwnerAt(rest, own, i, s) \in sp
               /\ \A t \in Services : OwnerAt(rest, own, i, t) = OwnerAt(rest, own, i, s) => t = s
    <3>1. i + 1 \in Nat \ {0} /\ \A t : OwnerAt(rest, own, i, t) = OwnerAt(box, own, i + 1, t)
      BY <1>2
    <3> QED
      BY <2>1, <3>1 DEF OwnersSound
  <2>2. \A i \in DOMAIN rest : rest[i].type = "ItemsChanged" => rest[i].sender \in sp
    BY <1>1, <1>4 DEF OwnersSound
  <2> QED
    BY <2>1, <2>2 DEF OwnersSound
<1>7. PathsSound(rest, own, ex, hs)
  <2>1. ASSUME NEW i \in DOMAIN rest, NEW s \in Services,
               rest[i].type = "ItemsChanged", rest[i].sender = own[s]
        PROVE  rest[i].path \in ex[s]
    BY <1>1, <1>4, <2>1 DEF PathsSound
  <2>2. ASSUME NEW i \in DOMAIN rest, NEW j \in DOMAIN rest, NEW s \in Services,
               AnswersAll(rest[i], hs, s), j < i, rest[j].type = "ItemsChanged",
               rest[j].sender = OwnerAt(rest, own, i, s)
        PROVE  rest[i].items[rest[j].path] # Absent
    <3>1. /\ i + 1 \in DOMAIN box /\ j + 1 \in DOMAIN box /\ j + 1 < i + 1
          /\ rest[i] = box[i + 1] /\ rest[j] = box[j + 1]
          /\ OwnerAt(rest, own, i, s) = OwnerAt(box, own, i + 1, s)
      BY <1>1, <1>2, <1>4, <2>2
    <3> QED
      BY <2>2, <3>1 DEF PathsSound
  <2> QED
    BY <2>1, <2>2 DEF PathsSound
<1> QED
  BY <1>5, <1>6, <1>7

LEMMA QueueTail ==
    ASSUME NEW box \in Seq(Message), box # <<>>, NEW own, NEW ex, NEW hs, NEW queue,
           QueuePaths(box, own, ex, hs, queue),
           \A e \in queue : ~IsChange(Head(box), e.service)
    PROVE  QueuePaths(Tail(box), own, ex, hs, queue)
<1> DEFINE rest == Tail(box)
<1>1. /\ DOMAIN rest = 1 .. Len(box) - 1 /\ DOMAIN box = 1 .. Len(box) /\ Len(box) \in Nat
      /\ \A j \in DOMAIN rest : rest[j] = box[j + 1]
      /\ 1 \in DOMAIN box /\ Head(box) = box[1]
  BY HeadTailProperties
<1>2. \A i \in Nat \ {0} : \A s : OwnerAt(rest, own, i, s) = OwnerAt(box, own, i + 1, s)
  BY OwnerAtTail
<1> HIDE DEF rest
<1> SUFFICES ASSUME NEW e \in queue
    PROVE  /\ \A i \in DOMAIN rest :
                 /\ AnswersAll(rest[i], hs, e.service)
                 /\ OwnerAt(rest, own, i, e.service) = OwnerAt(rest, own, 1, e.service)
                 => rest[i].items[e.path] # Absent
           /\ own[e.service] # None /\ OwnerAt(rest, own, 1, e.service) = own[e.service]
                 => e.path \in ex[e.service]
  BY DEF QueuePaths, rest
<1>3. OwnerAt(rest, own, 1, e.service) = OwnerAt(box, own, 1, e.service)
  <2> DEFINE s == e.service
  <2>1. ~IsChange(box[1], s)
    BY <1>1
  <2> HIDE DEF s
  <2>2. OwnerAt(box, own, 1, s) = OwnerAt(box, own, 1 + 1, s)
    BY <1>1, <2>1, OwnerAtOther
  <2> QED
    BY <1>2, <2>2 DEF s
<1>4. \A i \in DOMAIN rest : /\ i + 1 \in DOMAIN box /\ rest[i] = box[i + 1]
                             /\ OwnerAt(rest, own, i, e.service) = OwnerAt(box, own, i + 1, e.service)
  BY <1>1, <1>2
<1> QED
  BY <1>3, <1>4 DEF QueuePaths

\* Handlers matter by the serials of answers only.
LEMMA HandlersKeep ==
    ASSUME NEW box \in Seq(Message), NEW own, NEW ex, NEW val, NEW hs, NEW hs2, NEW queue,
           NewsSound(box, own, val, hs), PathsSound(box, own, ex, hs),
           QueuePaths(box, own, ex, hs, queue),
           \A n \in Serials : Unused(box, n) \/ hs2[n] = hs[n]
    PROVE  /\ NewsSound(box, own, val, hs2)
           /\ PathsSound(box, own, ex, hs2)
           /\ QueuePaths(box, own, ex, hs2, queue)
<1>1. ASSUME NEW i \in DOMAIN box, box[i].type \in {"Items", "Leaf"}
      PROVE  hs2[box[i].serial] = hs[box[i].serial]
  <2>1. box[i].type \in ReplyTypes
    BY <1>1 DEF ReplyTypes
  <2>2. box[i].serial \in Serials /\ ~Unused(box, box[i].serial)
    BY <2>1, ReplySerial DEF Unused
  <2> QED
    BY <2>2
<1>2. \A i \in DOMAIN box : \A s, p, v : Tells(box[i], own, hs2, s, p, v)
                                          <=> Tells(box[i], own, hs, s, p, v)
  BY <1>1 DEF Tells
<1>3. \A i \in DOMAIN box : \A s : AnswersAll(box[i], hs2, s) <=> AnswersAll(box[i], hs, s)
  BY <1>1 DEF AnswersAll
<1>4. NewsSound(box, own, val, hs2)
  BY <1>2 DEF NewsSound
<1>5. PathsSound(box, own, ex, hs2)
  BY <1>3 DEF PathsSound
<1>6. QueuePaths(box, own, ex, hs2, queue)
  BY <1>3 DEF QueuePaths
<1> QED
  BY <1>4, <1>5, <1>6

\* Without news the owner is the one there is.
LEMMA OwnerWithoutNews ==
    ASSUME NEW box, NEW own, NEW i, NEW s, NEW p, ~News(box, own, i, s, p)
    PROVE  OwnerAt(box, own, i, s) = own[s]
<1>1. ChangesFrom(box, i, s) = {}
  BY DEF News, IsNews, ChangesFrom
<1> QED
  BY <1>1 DEF OwnerAt

----------------------------------------------------------------------------
(* A step of the event loop.                                               *)

\* What is true of the inbox after a step, whatever its handler does.
LEMMA RestFollows ==
    ASSUME Inv, FollowInv, inbox # <<>>
    PROVE  /\ Tail(inbox) \in Seq(Message)
           /\ NewsSound(Tail(inbox), owner, value, async_handlers)
           /\ OwnersSound(Tail(inbox), owner, spent)
           /\ PathsSound(Tail(inbox), owner, exported, async_handlers)
           /\ \A s, p : News(inbox, owner, 1, s, p) <=>
                 IsNews(Head(inbox), owner, s, p) \/ News(Tail(inbox), owner, 1, s, p)
<1>1. /\ inbox \in Seq(Message) /\ Tail(inbox) \in Seq(Message)
      /\ 1 \in DOMAIN inbox /\ Head(inbox) = inbox[1]
  BY HeadTailProperties DEF Inv, BusTypeOK
<1>2. /\ NewsSound(inbox, owner, value, async_handlers)
      /\ OwnersSound(inbox, owner, spent)
      /\ PathsSound(inbox, owner, exported, async_handlers)
  BY DEF FollowInv, Follows
<1>3. /\ NewsSound(Tail(inbox), owner, value, async_handlers)
      /\ OwnersSound(Tail(inbox), owner, spent)
      /\ PathsSound(Tail(inbox), owner, exported, async_handlers)
  BY <1>1, <1>2, TailKeeps
<1>4. ASSUME NEW s, NEW p
      PROVE  News(inbox, owner, 1, s, p) <=>
                IsNews(Head(inbox), owner, s, p) \/ News(Tail(inbox), owner, 1, s, p)
  <2>1. News(inbox, owner, 1, s, p) <=>
           IsNews(Head(inbox), owner, s, p) \/ News(inbox, owner, 1 + 1, s, p)
    BY <1>1, NewsHere
  <2>2. News(Tail(inbox), owner, 1, s, p) <=> News(inbox, owner, 1 + 1, s, p)
    BY <1>1, NewsTail
  <2> QED
    BY <2>1, <2>2
<1> QED
  BY <1>1, <1>3, <1>4

\* What its handler has to see to.
LEMMA DispatchFollows ==
    ASSUME Inv, FollowInv, inbox # <<>>, inbox' = Tail(inbox),
           UNCHANGED <<owner, spent, exported, value>>,
           \A n \in Serials : Unused(Tail(inbox), n) \/ async_handlers'[n] = async_handlers[n],
           QueuePaths(Tail(inbox), owner, exported, async_handlers, delayed_changed_values'),
           CacheSound(Tail(inbox), owner, value, dbus_service_items'),
           QueueSound(Tail(inbox), owner, value, delayed_changed_values'),
           HeardSound(Tail(inbox), owner, service_id_to_names', async_handlers',
                      dbus_service_items', delayed_changed_values'),
           InnerSound(async_handlers', dbus_service_items'),
           CallsMatch(calls', async_handlers')
    PROVE  FollowInv'
<1> DEFINE rest == Tail(inbox)
<1>1. /\ rest \in Seq(Message)
      /\ NewsSound(rest, owner, value, async_handlers)
      /\ OwnersSound(rest, owner, spent)
      /\ PathsSound(rest, owner, exported, async_handlers)
  BY RestFollows
<1> HIDE DEF rest
<1>2. /\ \A n \in Serials : Unused(rest, n) \/ async_handlers'[n] = async_handlers[n]
      /\ QueuePaths(rest, owner, exported, async_handlers, delayed_changed_values')
  BY DEF rest
<1>3. /\ NewsSound(rest, owner, value, async_handlers')
      /\ PathsSound(rest, owner, exported, async_handlers')
      /\ QueuePaths(rest, owner, exported, async_handlers', delayed_changed_values')
  BY <1>1, <1>2, HandlersKeep
<1>4. Follows(rest, owner, spent, exported, value, service_id_to_names',
              async_handlers', dbus_service_items', delayed_changed_values')
  BY <1>1, <1>3 DEF Follows, rest
<1>5. inbox' = rest
  BY DEF rest
<1> QED
  BY <1>4, <1>5 DEF FollowInv

\* What a handler may do to the handlers: one is closed, or a new one stored.
\* Items are asked of a service that is followed, inner objects of one that is mapped.
Grow(hs, hs2, items, queue) ==
    \A n \in Serials :
        \/ hs2[n] \in {None, hs[n]}
        \/ /\ Inner(hs2[n]) => Mapped(items, hs2[n].service)
           /\ hs2[n].kind \in {"get_items", "get_value"}
                 => Followed(hs, items, queue, hs2[n].service)

LEMMA InnerService ==
    ASSUME NEW h \in Handler, Inner(h) PROVE h.service \in Services
<1>1. h.path # Root
  BY BusAssumption DEF Inner
<1> QED
  BY <1>1 DEF Handler

LEMMA Grown ==
    ASSUME NEW box, NEW own, NEW ids, NEW hs, NEW hs2, NEW items, NEW queue,
           Grow(hs, hs2, items, queue)
    PROVE  /\ HeardSound(box, own, ids, hs, items, queue)
                 => HeardSound(box, own, ids, hs2, items, queue)
           /\ InnerSound(hs, items) => InnerSound(hs2, items)
<1>1. \A s : Followed(hs2, items, queue, s) => Followed(hs, items, queue, s)
  BY DEF Grow, Followed
<1>2. HeardSound(box, own, ids, hs, items, queue)
         => HeardSound(box, own, ids, hs2, items, queue)
  BY <1>1 DEF HeardSound
<1>3. InnerSound(hs, items) => InnerSound(hs2, items)
  BY DEF Grow, InnerSound, Inner
<1> QED
  BY <1>2, <1>3

LEMMA ClosedGrows ==
    ASSUME Inv, NEW n, NEW items, NEW queue
    PROVE  Grow(async_handlers, Closed(n), items, queue)
BY DEF Grow, Closed, Inv, HandlerInv

LEMMA ClosedMatch ==
    ASSUME Inv, FollowInv, NEW n \in Serials, calls[n] = None
    PROVE  CallsMatch(calls, Closed(n))
BY DEF FollowInv, CallsMatch, Closed, Inv, HandlerInv

\* A call and its handler are stored together.
LEMMA StoredMatch ==
    ASSUME NEW cs \in [Serials -> Call \cup {None}], NEW hs \in [Serials -> Handler \cup {None}],
           CallsMatch(cs, hs),
           NEW n \in Serials, NEW call, NEW handler \in Handler, handler.path = call.path
    PROVE  CallsMatch([cs EXCEPT ![n] = call], [hs EXCEPT ![n] = handler])
BY HandlerAssumption DEF CallsMatch

\* An answer is no news of anybody.
LEMMA AnswerNoNews ==
    ASSUME Inv, OrderInv, FollowInv, NEW kind, NEW types,
           types \subseteq {"Names", "Owner", "Items", "Leaf", "Done", "Error"},
           ReplyTo(kind, types)
    PROVE  /\ inbox # <<>> /\ inbox' = Tail(inbox)
           /\ \A s : ~IsChange(Head(inbox), s)
           /\ \A s, p : News(inbox, owner, 1, s, p) <=> News(Tail(inbox), owner, 1, s, p)
           /\ \A s \in Services :
                 OwnerAt(Tail(inbox), owner, 1, s) = OwnerAt(inbox, owner, 1, s)
           /\ QueuePaths(Tail(inbox), owner, exported, async_handlers, delayed_changed_values)
           /\ QueueSound(Tail(inbox), owner, value, delayed_changed_values)
           /\ delayed_changed_values \in SUBSET Queued
<1>1. /\ inbox \in Seq(Message) /\ delayed_changed_values \in SUBSET Queued
      /\ inbox # <<>> /\ inbox' = Tail(inbox) /\ Head(inbox).type \in types
  BY DEF Inv, BusTypeOK, RegistryInv, RegistrySound, Sound, Now, ReplyTo
<1>2. \A s : ~IsChange(Head(inbox), s) /\ \A p : ~IsNews(Head(inbox), owner, s, p)
  BY <1>1 DEF IsChange, IsNews
<1>3. \A s, p : News(inbox, owner, 1, s, p) <=> News(Tail(inbox), owner, 1, s, p)
  BY <1>1, <1>2, RestFollows
<1>4. \A s \in Services : OwnerAt(Tail(inbox), owner, 1, s) = OwnerAt(inbox, owner, 1, s)
  BY TheAnswer
<1>5. QueuePaths(Tail(inbox), owner, exported, async_handlers, delayed_changed_values)
  BY <1>1, <1>2, QueueTail DEF FollowInv, Follows
<1>6. \A e \in delayed_changed_values : e.service \in Services
  BY <1>1 DEF Queued
<1>7. QueueSound(inbox, owner, value, delayed_changed_values)
  BY DEF FollowInv, Follows
<1> DEFINE rest == Tail(inbox)
<1> HIDE DEF rest
<1>8. QueueSound(rest, owner, value, delayed_changed_values)
  <2>1. /\ \A s, p : News(inbox, owner, 1, s, p) <=> News(rest, owner, 1, s, p)
        /\ \A s \in Services : OwnerAt(rest, owner, 1, s) = OwnerAt(inbox, owner, 1, s)
    BY <1>3, <1>4 DEF rest
  <2> QED
    BY <1>6, <1>7, <2>1 DEF QueueSound
<1> QED
  BY <1>1, <1>2, <1>3, <1>4, <1>5, <1>8 DEF rest

\* Answers that tell no item.
LEMMA AnswerLeavesItems ==
    ASSUME Inv, OrderInv, FollowInv, NEW kind, NEW types,
           types \subseteq {"Names", "Owner", "Items", "Leaf", "Done", "Error"},
           ReplyTo(kind, types),
           UNCHANGED <<owner, spent, exported, value, dbus_service_items,
                       delayed_changed_values>>,
           CallsMove(Tail(inbox), calls, async_handlers, calls', async_handlers'),
           CallsMatch(calls', async_handlers'),
           HeardSound(inbox, owner, service_id_to_names', async_handlers',
                      dbus_service_items, delayed_changed_values),
           InnerSound(async_handlers', dbus_service_items)
    PROVE  FollowInv'
<1> DEFINE rest == Tail(inbox)
<1>1. /\ inbox # <<>> /\ inbox' = rest
      /\ \A s, p : News(inbox, owner, 1, s, p) <=> News(rest, owner, 1, s, p)
      /\ \A s \in Services : OwnerAt(rest, owner, 1, s) = OwnerAt(inbox, owner, 1, s)
      /\ QueuePaths(rest, owner, exported, async_handlers, delayed_changed_values)
      /\ QueueSound(rest, owner, value, delayed_changed_values)
  BY AnswerNoNews
<1>2. \A n \in Serials : Unused(rest, n) \/ async_handlers'[n] = async_handlers[n]
  BY DEF CallsMove
<1> HIDE DEF rest
<1>3. CacheSound(rest, owner, value, dbus_service_items)
  BY <1>1 DEF FollowInv, Follows, CacheSound
<1>4. HeardSound(rest, owner, service_id_to_names', async_handlers', dbus_service_items,
                 delayed_changed_values)
  BY <1>1 DEF HeardSound
<1> QED
  BY <1>1, <1>2, <1>3, <1>4, DispatchFollows DEF rest

LEMMA ReplyWithoutEffectFollows ==
    ASSUME Inv, OrderInv, FollowInv, ReplyWithoutEffect PROVE FollowInv'
<1>1. PICK kind, types : /\ types \subseteq {"Names", "Owner", "Items", "Leaf", "Done", "Error"}
                         /\ ReplyTo(kind, types)
  BY DEF ReplyWithoutEffect
<1>2. /\ calls' = calls /\ async_handlers' = Closed(TheSerial)
      /\ UNCHANGED <<owner, spent, exported, value, service_id_to_names, dbus_service_items,
                     delayed_changed_values>>
  BY DEF ReplyWithoutEffect, Registry
<1>3. CallsMove(Tail(inbox), calls, async_handlers, calls', async_handlers')
  BY <1>1, <1>2, ClosedMoves
<1>4. CallsMatch(calls', async_handlers')
  BY <1>1, <1>2, TheAnswer, ClosedMatch
<1>5. /\ HeardSound(inbox, owner, service_id_to_names', async_handlers',
                    dbus_service_items, delayed_changed_values)
      /\ InnerSound(async_handlers', dbus_service_items)
  BY <1>2, ClosedGrows, Grown DEF FollowInv, Follows
<1> QED
  BY <1>1, <1>2, <1>3, <1>4, <1>5, AnswerLeavesItems

\* The next call of a handler, and its handler.
LEMMA CallNextGrows ==
    ASSUME Inv, OrderInv, FollowInv, NEW kind, NEW types,
           types \subseteq {"Names", "Owner", "Items", "Leaf", "Done", "Error"},
           ReplyTo(kind, types),
           NEW call, NEW handler \in Handler, handler.path = call.path, ~Inner(handler),
           CallNext(call, handler), NEW items, NEW queue,
           Followed(async_handlers, items, queue, handler.service)
    PROVE  /\ Grow(async_handlers, async_handlers', items, queue)
           /\ CallsMatch(calls', async_handlers')
<1>1. TheSerial \in Serials /\ calls[TheSerial] = None
  BY TheAnswer
<1>2. PICK n \in Serials : /\ calls' = [calls EXCEPT ![n] = call]
                           /\ async_handlers' = [Closed(TheSerial) EXCEPT ![n] = handler]
  BY DEF CallNext
<1>3. /\ calls \in [Serials -> Call \cup {None}]
      /\ Closed(TheSerial) \in [Serials -> Handler \cup {None}]
  BY DEF Inv, BusTypeOK, HandlerInv, Closed
<1>4. CallsMatch(calls', async_handlers')
  BY <1>1, <1>2, <1>3, ClosedMatch, StoredMatch
<1>5. Grow(async_handlers, async_handlers', items, queue)
  BY <1>2, <1>3, ClosedGrows DEF Grow
<1> QED
  BY <1>4, <1>5

LEMMA GetItemsUnknownMethodFollows ==
    ASSUME Inv, OrderInv, FollowInv, GetItemsUnknownMethod PROVE FollowInv'
<1> DEFINE s == TheHandler.service
           call == Sending("GetValue", s, Root, FirstValue)
           next == Handling("get_value", s, Root, FALSE)
<1>1. /\ ReplyTo("get_items", {"Error"}) /\ CallNext(call, next)
      /\ UNCHANGED <<owner, spent, exported, value, service_id_to_names, dbus_service_items,
                     delayed_changed_values>>
  BY DEF GetItemsUnknownMethod, Registry
<1>2. s \in Services /\ TheHandler.kind = "get_items" /\ TheSerial \in Serials
      /\ TheHandler \in Handler
  BY <1>1, ReplyParts, HandlerParts
<1>3. /\ next \in Handler /\ next.service = s /\ next.path = Root
      /\ call.path = Root /\ call.service = s
  BY <1>2, HandlingTyped DEF Handling, Sending, CallPaths
<1> HIDE DEF next, call
<1>4. ~Inner(next)
  BY <1>3, BusAssumption DEF Inner
<1>5. Followed(async_handlers, dbus_service_items, delayed_changed_values, s)
  BY <1>2, HandlerAssumption DEF Followed, TheHandler
<1> HIDE DEF s
<1>6. /\ Grow(async_handlers, async_handlers', dbus_service_items, delayed_changed_values)
      /\ CallsMatch(calls', async_handlers')
  BY <1>1, <1>3, <1>4, <1>5, CallNextGrows
<1>7. CallsMove(Tail(inbox), calls, async_handlers, calls', async_handlers')
  BY <1>1, <1>3, CallNextMoves
<1>8. /\ HeardSound(inbox, owner, service_id_to_names', async_handlers',
                    dbus_service_items, delayed_changed_values)
      /\ InnerSound(async_handlers', dbus_service_items)
  BY <1>1, <1>6, Grown DEF FollowInv, Follows
<1> QED
  BY <1>1, <1>6, <1>7, <1>8, AnswerLeavesItems

\* The service that is asked for its items from now on is known by its owner.
LEMMA NameOwnerReplyFollows ==
    ASSUME Inv, OrderInv, FollowInv, NameOwnerReply PROVE FollowInv'
<1> DEFINE s == TheHandler.service
           o == Head(inbox).owner
           call == Sending("GetItems", s, Root, FirstValue)
           next == Handling("get_items", s, Root, FALSE)
<1>1. /\ ReplyTo("get_name_owner", {"Owner"}) /\ CallNext(call, next)
      /\ Head(inbox).type = "Owner"
      /\ service_id_to_names' = [service_id_to_names EXCEPT ![o] = s]
      /\ UNCHANGED <<owner, spent, exported, value, dbus_service_items, delayed_changed_values>>
  BY DEF NameOwnerReply, ReplyTo, Registry
<1>2. s \in Services /\ OwnerAt(inbox, owner, 1, s) = o /\ o \in Owners
      /\ TheSerial \in Serials /\ calls[TheSerial] = None
  BY <1>1, TheAnswer, ReplyParts, MessageParts
<1>3. /\ next \in Handler /\ next.service = s /\ next.path = Root
      /\ call.path = Root /\ call.service = s
  BY <1>2, HandlingTyped DEF Handling, Sending
<1> HIDE DEF next, call, s, o
<1>4. ~Inner(next)
  BY <1>3, BusAssumption DEF Inner
<1>5. PICK n \in Serials : /\ calls' = [calls EXCEPT ![n] = call]
                           /\ async_handlers' = [Closed(TheSerial) EXCEPT ![n] = next]
  BY <1>1 DEF CallNext
<1>6. /\ calls \in [Serials -> Call \cup {None}]
      /\ async_handlers \in [Serials -> Handler \cup {None}]
      /\ Closed(TheSerial) \in [Serials -> Handler \cup {None}]
      /\ service_id_to_names \in [Owners -> Services \cup {None}]
  BY DEF Inv, BusTypeOK, HandlerInv, Closed
<1>7. CallsMatch(calls', async_handlers')
  BY <1>2, <1>3, <1>5, <1>6, ClosedMatch, StoredMatch
<1>8. CallsMove(Tail(inbox), calls, async_handlers, calls', async_handlers')
  BY <1>1, <1>3, CallNextMoves
<1>9. \A m \in Serials : async_handlers'[m] \in {None, async_handlers[m], next}
  BY <1>5, <1>6 DEF Closed
<1>10. InnerSound(async_handlers', dbus_service_items)
  BY <1>4, <1>9 DEF FollowInv, InnerSound, Inner
<1>11. HeardSound(inbox, owner, service_id_to_names', async_handlers',
                  dbus_service_items, delayed_changed_values)
  <2> SUFFICES ASSUME NEW t \in Services, OwnerAt(inbox, owner, 1, t) # None,
                      Followed(async_handlers', dbus_service_items, delayed_changed_values, t)
               PROVE  service_id_to_names'[OwnerAt(inbox, owner, 1, t)] = t
    BY DEF HeardSound
  <2>1. CASE t = s
    BY <1>1, <1>2, <1>6, <2>1
  <2>2. CASE t # s
    <3>1. Followed(async_handlers, dbus_service_items, delayed_changed_values, t)
      BY <1>3, <1>9, <2>2 DEF Followed
    <3>2. service_id_to_names[OwnerAt(inbox, owner, 1, t)] = t
      BY <3>1 DEF FollowInv, Follows, HeardSound
    <3>3. OwnerAt(inbox, owner, 1, t) # o
      BY <1>2, <2>2 DEF FollowInv, Follows, OwnersSound
    <3> QED
      BY <1>1, <1>6, <3>2, <3>3
  <2> QED
    BY <2>1, <2>2
<1> QED
  BY <1>1, <1>7, <1>8, <1>10, <1>11, AnswerLeavesItems

\* The scan asks for owners only.
LEMMA ListNamesReplyFollows ==
    ASSUME Inv, OrderInv, FollowInv, ListNamesReply PROVE FollowInv'
<1> DEFINE names == Head(inbox).names
           free  == FreeSerials \cup {TheSerial}
<1>1. /\ ReplyTo("list_names", {"Names"})
      /\ UNCHANGED <<owner, spent, exported, value, service_id_to_names, dbus_service_items,
                     delayed_changed_values>>
  BY DEF ListNamesReply, Registry
<1>2. TheSerial \in Serials /\ calls[TheSerial] = None /\ names \subseteq Services
      /\ Unused(Tail(inbox), TheSerial) /\ inbox # <<>>
  BY <1>1, TheAnswer, ReplyParts, MessageParts DEF ReplyTo
<1>3. PICK slot \in [names -> free] :
         LET used == {slot[s] : s \in names}
             For(n) == CHOOSE s \in names : slot[s] = n
         IN  /\ calls' = [n \in Serials |-> IF n \in used THEN NameOwnerCall(For(n)) ELSE calls[n]]
             /\ async_handlers' = [n \in Serials |-> IF n \in used THEN NameOwnerHandler(For(n))
                                                    ELSE Closed(TheSerial)[n]]
  BY DEF ListNamesReply
<1> DEFINE used == {slot[s] : s \in names}
           For(n) == CHOOSE s \in names : slot[s] = n
<1>4. used \subseteq free
  OBVIOUS
<1>5. \A n \in used : For(n) \in Services
  BY <1>2
<1> HIDE DEF used, For, names
<1>6. /\ calls' = [n \in Serials |-> IF n \in used THEN NameOwnerCall(For(n)) ELSE calls[n]]
      /\ async_handlers' = [n \in Serials |-> IF n \in used THEN NameOwnerHandler(For(n))
                                             ELSE Closed(TheSerial)[n]]
  BY <1>3 DEF used, For, names
<1>7. \A s \in Services : LET h == NameOwnerHandler(s)
                          IN  /\ h \in Handler /\ h # None /\ ~Inner(h)
                              /\ h.kind = "get_name_owner" /\ h.path = NameOwnerCall(s).path
                              /\ h.service = NameOwnerCall(s).service
  <2>1. \A s : LET h == NameOwnerHandler(s)
               IN  /\ h.kind = "get_name_owner" /\ h.path = Root /\ NameOwnerCall(s).path = Root
                   /\ h.service = NameOwnerCall(s).service
    BY DEF NameOwnerHandler, NameOwnerCall, Handling, Sending
  <2> QED
    BY <2>1, HandlingTyped, HandlerAssumption, BusAssumption DEF Inner
<1>8. ASSUME NEW n \in Serials
      PROVE  \/ async_handlers'[n] \in {None, async_handlers[n]} /\ calls'[n] = calls[n]
             \/ /\ ~Inner(async_handlers'[n]) /\ async_handlers'[n] # None
                /\ async_handlers'[n].kind = "get_name_owner"
                /\ async_handlers'[n].path = calls'[n].path
  <2>1. CASE n \in used
    BY <1>5, <1>6, <1>7, <2>1
  <2>2. CASE n \notin used
    <3>1. Closed(TheSerial)[n] \in {None, async_handlers[n]}
      BY DEF Closed, Inv, HandlerInv
    <3> QED
      BY <1>6, <2>2, <3>1
  <2> QED
    BY <2>1, <2>2
<1>9. Grow(async_handlers, async_handlers', dbus_service_items, delayed_changed_values)
  BY <1>8 DEF Grow
<1>10. CallsMatch(calls', async_handlers')
  <2>1. CallsMatch(calls, Closed(TheSerial))
    BY <1>2, ClosedMatch
  <2>2. ASSUME NEW n \in Serials, calls'[n] # None
        PROVE  async_handlers'[n] # None /\ async_handlers'[n].path = calls'[n].path
    <3>1. CASE n \in used
      BY <1>5, <1>6, <1>7, <3>1
    <3>2. CASE n \notin used
      BY <1>6, <2>1, <2>2, <3>2 DEF CallsMatch
    <3> QED
      BY <3>1, <3>2
  <2> QED
    BY <2>2 DEF CallsMatch
<1>11. CallsMove(Tail(inbox), calls, async_handlers, calls', async_handlers')
  <2> DEFINE rest == Tail(inbox)
  <2>1. \A n \in free : Unused(rest, n)
    BY <1>2, FreeCanCall
  <2>2. Unused(rest, TheSerial)
    BY <1>2
  <2> HIDE DEF rest, free
  <2> SUFFICES ASSUME NEW n \in Serials
               PROVE  \/ calls'[n] = calls[n] /\ async_handlers'[n] = async_handlers[n]
                      \/ /\ Unused(rest, n)
                         /\ calls'[n] # None => /\ async_handlers'[n] # None
                                                /\ async_handlers'[n].service = calls'[n].service
    BY DEF CallsMove, rest
  <2>3. CASE n \in used
    BY <1>4, <1>5, <1>6, <1>7, <2>1, <2>3
  <2>4. CASE n \notin used
    <3>1. calls'[n] = calls[n] /\ async_handlers'[n] = Closed(TheSerial)[n]
      BY <1>6, <2>4
    <3>2. n # TheSerial => Closed(TheSerial)[n] = async_handlers[n]
      BY DEF Closed, Inv, HandlerInv
    <3> QED
      BY <1>2, <2>2, <3>1, <3>2
  <2> QED
    BY <2>3, <2>4
<1>12. /\ HeardSound(inbox, owner, service_id_to_names', async_handlers',
                     dbus_service_items, delayed_changed_values)
       /\ InnerSound(async_handlers', dbus_service_items)
  BY <1>1, <1>9, Grown DEF FollowInv, Follows
<1> QED
  BY <1>1, <1>10, <1>11, <1>12, AnswerLeavesItems

\* The answer to a read tells the value the item has.
LEMMA ReadReplyFollows ==
    ASSUME Inv, OrderInv, FollowInv, ReadReply PROVE FollowInv'
<1> DEFINE s == TheHandler.service
           p == TheHandler.path
           v == Head(inbox).value
           rest == Tail(inbox)
<1>1. /\ ReplyTo("read_item", {"Leaf"}) /\ async_handlers' = Closed(TheSerial)
      /\ Head(inbox).type = "Leaf"
      /\ UNCHANGED <<owner, spent, exported, value, calls, service_id_to_names,
                     delayed_changed_values>>
      /\ dbus_service_items' = IF dbus_service_items[s][p] = Absent THEN dbus_service_items
                               ELSE [dbus_service_items EXCEPT ![s][p].value = v]
  BY DEF ReadReply, ReplyTo
<1>2. /\ s \in Services /\ p \in Paths /\ v \in Values
      /\ TheSerial \in Serials /\ calls[TheSerial] = None
  BY <1>1, TheAnswer, ReplyParts, HandlerParts, MessageParts
<1>3. dbus_service_items \in ItemStore
  BY DEF Inv, RegistryInv, RegistrySound, Sound, Now
<1>4. /\ inbox # <<>> /\ inbox' = rest
      /\ \A t, q : News(inbox, owner, 1, t, q) <=> News(rest, owner, 1, t, q)
      /\ \A t \in Services : OwnerAt(rest, owner, 1, t) = OwnerAt(inbox, owner, 1, t)
      /\ QueuePaths(rest, owner, exported, async_handlers, delayed_changed_values)
      /\ QueueSound(rest, owner, value, delayed_changed_values)
  BY <1>1, AnswerNoNews
<1>5. \A n \in Serials : Unused(rest, n) \/ async_handlers'[n] = async_handlers[n]
  BY <1>1, ClosedMoves DEF CallsMove
<1>6. p \notin Silent /\ ~News(rest, owner, 1, s, p) => v = value[s][p]
  <2>1. /\ inbox \in Seq(Message) /\ 1 \in DOMAIN inbox /\ Head(inbox) = inbox[1]
    BY <1>4, HeadTailProperties DEF Inv, BusTypeOK
  <2>2. Tells(inbox[1], owner, async_handlers, s, p, v)
    BY <1>1, <2>1 DEF Tells, TheHandler, TheSerial
  <2>3. News(rest, owner, 1, s, p) <=> News(inbox, owner, 1 + 1, s, p)
    BY <1>4, <2>1, NewsTail
  <2> QED
    BY <1>2, <2>1, <2>2, <2>3 DEF FollowInv, Follows, NewsSound
<1> HIDE DEF s, p, v, rest
<1>7. \A t \in Services, q \in Paths :
         /\ dbus_service_items'[t][q] = Absent <=> dbus_service_items[t][q] = Absent
         /\ dbus_service_items[t][q] # Absent =>
               dbus_service_items'[t][q].value =
                  IF t = s /\ q = p THEN v ELSE dbus_service_items[t][q].value
  <2>1. CASE dbus_service_items[s][p] = Absent
    BY <1>1, <2>1
  <2>2. CASE dbus_service_items[s][p] # Absent
    <3>1. dbus_service_items[s][p] \in [value : Values, instance : Instances]
      BY <1>2, <1>3, <2>2 DEF ItemStore, Item
    <3> DEFINE new == [dbus_service_items[s][p] EXCEPT !.value = v]
    <3>2. new \in [value : Values, instance : Instances] /\ new.value = v /\ new # Absent
      BY <1>2, <3>1, RegistryAssumption
    <3>3. dbus_service_items' = [dbus_service_items EXCEPT ![s][p] = new]
      BY <1>1, <2>2
    <3> HIDE DEF new
    <3> QED
      BY <1>2, <1>3, <2>2, <3>2, <3>3 DEF ItemStore
  <2> QED
    BY <2>1, <2>2
<1>8. \A t \in Services : Mapped(dbus_service_items', t) <=> Mapped(dbus_service_items, t)
  BY <1>7 DEF Mapped
<1>9. CacheSound(rest, owner, value, dbus_service_items')
  BY <1>4, <1>6, <1>7 DEF FollowInv, Follows, CacheSound
<1>10. /\ HeardSound(inbox, owner, service_id_to_names, async_handlers',
                     dbus_service_items, delayed_changed_values)
       /\ InnerSound(async_handlers', dbus_service_items)
  BY <1>1, ClosedGrows, Grown DEF FollowInv, Follows
<1>11. HeardSound(rest, owner, service_id_to_names, async_handlers',
                  dbus_service_items', delayed_changed_values)
  <2>1. \A t \in Services :
           Followed(async_handlers', dbus_service_items', delayed_changed_values, t)
              => Followed(async_handlers', dbus_service_items, delayed_changed_values, t)
    BY <1>8 DEF Followed
  <2> QED
    BY <1>4, <1>10, <2>1 DEF HeardSound
<1>12. InnerSound(async_handlers', dbus_service_items')
  <2>1. \A n \in Serials : async_handlers'[n] \in Handler \cup {None}
    BY <1>1 DEF Closed, Inv, HandlerInv
  <2>2. \A n \in Serials : Inner(async_handlers'[n]) => async_handlers'[n].service \in Services
    BY <2>1, InnerService DEF Inner
  <2> QED
    BY <1>8, <1>10, <2>2 DEF InnerSound
<1>13. CallsMatch(calls', async_handlers')
  BY <1>1, <1>2, ClosedMatch
<1> QED
  BY <1>1, <1>4, <1>5, <1>9, <1>11, <1>12, <1>13, DispatchFollows DEF rest

----------------------------------------------------------------------------
(* The queue and the items.                                                *)

\* The entries that are not too old.
Fresh(queue) == {e \in queue : ~e.old}

\* The last of the fresh entries of a path is the last of all of them.
LEMMA LastFresh ==
    ASSUME NEW box, NEW own, NEW val, NEW queue \in SUBSET Queued,
           QueueSound(box, own, val, queue),
           NEW e \in Fresh(queue), LastQueued(Fresh(queue), e)
    PROVE  LastQueued(queue, e)
<1> SUFFICES ASSUME NEW f \in queue, f.service = e.service, f.path = e.path
             PROVE  f.at <= e.at
  BY DEF LastQueued
<1>1. e \in queue /\ ~e.old /\ e.at \in Nat /\ f.at \in Nat
  BY DEF Fresh, Queued
<1>2. CASE f \in Fresh(queue)
  BY <1>2 DEF LastQueued
<1>3. CASE f \notin Fresh(queue)
  <2>1. f.old
    BY <1>3 DEF Fresh
  <2>2. ~(e.at <= f.at)
    BY <1>1, <2>1 DEF QueueSound
  <2> QED
    BY <1>1, <2>2
<1> QED
  BY <1>2, <1>3

LEMMA FreshSound ==
    ASSUME NEW box, NEW own, NEW val, NEW queue \in SUBSET Queued,
           QueueSound(box, own, val, queue),
           NEW some \in SUBSET Fresh(queue),
           \A e \in some : \A f \in Fresh(queue) : f.service = e.service => f \in some
    PROVE  QueueSound(box, own, val, some)
<1>1. some \subseteq queue /\ \A e \in some : e \in Fresh(queue) /\ ~e.old
  BY DEF Fresh
<1>2. ASSUME NEW e \in some, e.path \notin Silent, LastQueued(some, e),
             ~News(box, own, 1, e.service, e.path)
      PROVE  e.value = val[e.service][e.path]
  <2>1. LastQueued(Fresh(queue), e)
    BY <1>2 DEF LastQueued
  <2>2. LastQueued(queue, e)
    BY <1>1, <2>1, LastFresh
  <2> QED
    BY <1>1, <1>2, <2>2 DEF QueueSound
<1> QED
  BY <1>1, <1>2 DEF QueueSound

\* Without entries that find no item, working off the queue keeps the fresh ones
\* of unknown services, and an item gets the value of the last of its entries.
LEMMA AttemptIs ==
    ASSUME NEW box, NEW own, NEW val, NEW count \in Nat, NEW queue \in SUBSET Queued,
           Bounded(queue, count), NEW items \in ItemStore,
           Unmatched(queue, items) = {},
           QueueSound(box, own, val, queue),
           \A s \in Services, p \in Paths \ Silent :
              items[s][p] # Absent /\ ~News(box, own, 1, s, p) => items[s][p].value = val[s][p]
    PROVE  /\ Kept(queue, items) = {e \in Fresh(queue) : ~Mapped(items, e.service)}
           /\ QueueSound(box, own, val, Kept(queue, items))
           /\ CacheSound(box, own, val, ItemsAfter(queue, items))
<1>1. /\ Reached(queue, items) = Fresh(queue)
      /\ Kept(queue, items) = {e \in Fresh(queue) : ~Mapped(items, e.service)}
      /\ Applied(queue, items) = {e \in Fresh(queue) : Mapped(items, e.service)}
  BY DEF Reached, Kept, Applied, Fresh
<1>2. QueueSound(box, own, val, Kept(queue, items))
  <2> DEFINE some == {e \in Fresh(queue) : ~Mapped(items, e.service)}
  <2>1. some \in SUBSET Fresh(queue)
        /\ \A e \in some : \A f \in Fresh(queue) : f.service = e.service => f \in some
    OBVIOUS
  <2> HIDE DEF some
  <2>2. QueueSound(box, own, val, some)
    BY <2>1, FreshSound
  <2> QED
    BY <1>1, <2>2 DEF some
<1>3. ASSUME NEW s \in Services, NEW p \in Paths \ Silent,
             ItemsAfter(queue, items)[s][p] # Absent, ~News(box, own, 1, s, p)
      PROVE  ItemsAfter(queue, items)[s][p].value = val[s][p]
  <2> DEFINE mine == {e \in Applied(queue, items) : e.service = s /\ e.path = p}
             last == LastOf(mine)
             e == CHOOSE f \in last : TRUE
             after == IF last = {} \/ items[s][p] = Absent THEN items[s][p]
                      ELSE [items[s][p] EXCEPT !.value = e.value]
  <2>1. ItemsAfter(queue, items)[s][p] = after
    BY DEF ItemsAfter
  <2>2. items[s][p] # Absent /\ Mapped(items, s)
    BY <1>3, ItemsAfterSound DEF Mapped
  <2>3. mine = {f \in Fresh(queue) : f.service = s /\ f.path = p}
    BY <1>1, <2>2
  <2>4. CASE last = {}
    BY <1>3, <2>1, <2>2, <2>4
  <2>5. CASE last # {}
    <3>1. e \in last
      BY <2>5
    <3>2. /\ e \in Fresh(queue) /\ e.service = s /\ e.path = p
          /\ \A f \in Fresh(queue) : f.service = s /\ f.path = p => f.at <= e.at
      BY <2>3, <3>1 DEF LastOf
    <3> HIDE DEF e
    <3>3. LastQueued(Fresh(queue), e)
      BY <3>2 DEF LastQueued
    <3>4. LastQueued(queue, e) /\ e \in queue
      BY <3>2, <3>3, LastFresh DEF Fresh
    <3>5. e.value = val[s][p]
      BY <1>3, <3>2, <3>4 DEF QueueSound
    <3>6. items[s][p] \in [value : Values, instance : Instances]
      BY <2>2 DEF ItemStore, Item
    <3>7. after = [items[s][p] EXCEPT !.value = e.value]
      BY <2>2, <2>5
    <3>8. after.value = e.value
      BY <3>6, <3>7
    <3> QED
      BY <2>1, <3>5, <3>8
  <2> QED
    BY <2>4, <2>5
<1> QED
  BY <1>1, <1>2, <1>3 DEF CacheSound

\* What every signal begins with drops the old entries, and that is all.
LEMMA AttemptedIs ==
    ASSUME RegistryInv
    PROVE  /\ Attempted.items = dbus_service_items
           /\ Attempted.queue = Fresh(delayed_changed_values)
<1> DEFINE queue == delayed_changed_values
           items == dbus_service_items
<1>1. /\ queue \in SUBSET Queued /\ items \in ItemStore
      /\ \A e \in queue : ~Mapped(items, e.service)
  BY DEF RegistryInv, RegistrySound, Sound, Now, OnlyUnknown
<1>2. Unmatched(queue, items) = {} /\ Applied(queue, items) = {}
  BY <1>1 DEF Unmatched, Applied, Reached
<1>3. Kept(queue, items) = Fresh(queue)
  BY <1>1, <1>2 DEF Kept, Reached, Fresh
<1>4. ItemsAfter(queue, items) = items
  <2> DEFINE F(s, p) == LET last == LastOf({e \in Applied(queue, items) :
                                               e.service = s /\ e.path = p})
                        IN  IF last = {} \/ items[s][p] = Absent THEN items[s][p]
                            ELSE [items[s][p] EXCEPT !.value = (CHOOSE e \in last : TRUE).value]
  <2>1. ItemsAfter(queue, items) = [s \in Services |-> [p \in Paths |-> F(s, p)]]
    BY DEF ItemsAfter
  <2>2. \A s, p : F(s, p) = items[s][p]
    BY <1>2 DEF LastOf
  <2> HIDE DEF F
  <2>3. /\ items = [s \in Services |-> items[s]]
        /\ \A s \in Services : items[s] = [p \in Paths |-> items[s][p]]
    BY <1>1 DEF ItemStore
  <2> QED
    BY <2>1, <2>2, <2>3
<1> QED
  BY <1>3, <1>4 DEF Attempted, attempt_to_process_delayed_changes

\* When the items of a service are mapped and every queued change of it finds one
\* of them, or it had items before, no entry is without an item.
LEMMA MappingMatches ==
    ASSUME RegistryInv, NEW queue \in SUBSET Queued, OnlyUnknown(queue, dbus_service_items),
           NEW s \in Services, NEW new \in ItemMap,
           \/ Mapped(dbus_service_items, s)
           \/ \A e \in queue : e.service = s => new[e.path] # Absent
    PROVE  LET i == InstanceOf(s, new)
               mapped == WithItems(dbus_service_items, s, i, new)
           IN  /\ mapped \in ItemStore
               /\ \A t \in Services, p \in Paths :
                     mapped[t][p] = IF t = s /\ new[p] # Absent
                                    THEN [value |-> new[p], instance |-> i]
                                    ELSE dbus_service_items[t][p]
               /\ \A t \in Services, p \in Paths :
                     mapped[t][p] = Absent
                        <=> dbus_service_items[t][p] = Absent /\ ~(t = s /\ new[p] # Absent)
               /\ Unmatched(queue, mapped) = {}
<1> DEFINE items == dbus_service_items
           i == InstanceOf(s, new)
           mapped == WithItems(items, s, i, new)
<1>1. /\ service_names_to_instance \in InstanceMap
      /\ items \in ItemStore /\ Agreeing(items, service_names_to_instance)
  BY DEF RegistryInv, RegistrySound, Sound, Now
<1>2. /\ i \in Instances
      /\ service_names_to_instance[s] # None => i = service_names_to_instance[s]
  BY <1>1, InstanceOfTyped
<1> HIDE DEF i
<1>3. /\ mapped \in ItemStore
      /\ \A t \in Services, p \in Paths :
            mapped[t][p] = IF t = s /\ new[p] # Absent
                           THEN [value |-> new[p], instance |-> i] ELSE items[t][p]
  BY <1>1, <1>2, WithItemsSound
<1>4. \A p \in Paths : new[p] # Absent => [value |-> new[p], instance |-> i] # Absent
  BY <1>2, RegistryAssumption DEF ItemMap
<1> HIDE DEF mapped
<1>5. \A t \in Services, p \in Paths :
         mapped[t][p] = Absent <=> items[t][p] = Absent /\ ~(t = s /\ new[p] # Absent)
  <2> SUFFICES ASSUME NEW t \in Services, NEW p \in Paths
               PROVE  mapped[t][p] = Absent
                         <=> items[t][p] = Absent /\ ~(t = s /\ new[p] # Absent)
    OBVIOUS
  <2>1. CASE t = s /\ new[p] # Absent
    <3>1. mapped[t][p] # Absent
      BY <1>3, <1>4, <2>1
    <3> QED
      BY <2>1, <3>1
  <2>2. CASE ~(t = s /\ new[p] # Absent)
    <3>1. mapped[t][p] = items[t][p]
      BY <1>3, <2>2
    <3> QED
      BY <2>2, <3>1
  <2> QED
    BY <2>1, <2>2
<1>6. \A e \in queue : e.service \in Services /\ e.path \in Paths
  BY DEF Queued
<1>7. Unmatched(queue, mapped) = {}
  <2> SUFFICES ASSUME NEW e \in queue, Mapped(mapped, e.service),
                      mapped[e.service][e.path] = Absent
               PROVE  FALSE
    BY DEF Unmatched
  <2>1. ~Mapped(items, e.service)
    BY DEF OnlyUnknown
  <2>2. e.service = s
    BY <1>5, <1>6, <2>1 DEF Mapped
  <2> QED
    BY <1>5, <1>6, <2>1, <2>2
<1> QED
  BY <1>3, <1>5, <1>7 DEF i, mapped

\* Items that are mapped, of a service whose queued changes all find one of them.
LEMMA MapItemsFollows ==
    ASSUME RegistryInv, NEW box, NEW own, NEW val, NEW queue \in SUBSET Queued, NEW view,
           NEW s \in Services, NEW new \in ItemMap, NEW force,
           Bounded(queue, delayed_count), OnlyUnknown(queue, dbus_service_items),
           MapItems(Now(queue, dbus_service_items, view), s, new, force),
           \/ Mapped(dbus_service_items, s)
           \/ \A e \in queue : e.service = s => new[e.path] # Absent,
           QueueSound(box, own, val, queue),
           \A p \in Paths \ Silent :
              new[p] # Absent /\ ~News(box, own, 1, s, p) => new[p] = val[s][p],
           \A t \in Services, p \in Paths \ Silent :
              /\ ~(t = s /\ new[p] # Absent)
              /\ dbus_service_items[t][p] # Absent /\ ~News(box, own, 1, t, p)
              => dbus_service_items[t][p].value = val[t][p]
    PROVE  /\ CacheSound(box, own, val, dbus_service_items')
           /\ QueueSound(box, own, val, delayed_changed_values')
           /\ delayed_changed_values' \subseteq queue
           /\ \A t \in Services :
                 Mapped(dbus_service_items', t)
                    <=> Mapped(dbus_service_items, t) \/ (t = s /\ \E p \in Paths : new[p] # Absent)
<1> DEFINE items == dbus_service_items
           i == InstanceOf(s, new)
           mapped == WithItems(items, s, i, new)
<1>1. delayed_count \in Nat
  BY DEF RegistryInv, RegistrySound, Sound, Now
<1>2. /\ delayed_changed_values' = Kept(queue, mapped)
      /\ dbus_service_items' = ItemsAfter(queue, mapped)
  BY DEF MapItems, Now, Become, attempt_to_process_delayed_changes
<1>3. /\ mapped \in ItemStore
      /\ \A t \in Services, p \in Paths :
            mapped[t][p] = IF t = s /\ new[p] # Absent
                           THEN [value |-> new[p], instance |-> i] ELSE items[t][p]
      /\ \A t \in Services, p \in Paths :
            mapped[t][p] = Absent <=> items[t][p] = Absent /\ ~(t = s /\ new[p] # Absent)
      /\ Unmatched(queue, mapped) = {}
  BY MappingMatches
<1> HIDE DEF i, mapped
<1>4. ASSUME NEW t \in Services, NEW p \in Paths \ Silent,
             mapped[t][p] # Absent, ~News(box, own, 1, t, p)
      PROVE  mapped[t][p].value = val[t][p]
  <2>1. CASE t = s /\ new[p] # Absent
    <3>1. mapped[t][p] = [value |-> new[p], instance |-> i]
      BY <1>3, <2>1
    <3> QED
      BY <1>4, <2>1, <3>1
  <2>2. CASE ~(t = s /\ new[p] # Absent)
    <3>1. mapped[t][p] = items[t][p]
      BY <1>3, <2>2
    <3> QED
      BY <1>4, <2>2, <3>1
  <2> QED
    BY <2>1, <2>2
<1>5. /\ Kept(queue, mapped) = {e \in Fresh(queue) : ~Mapped(mapped, e.service)}
      /\ QueueSound(box, own, val, Kept(queue, mapped))
      /\ CacheSound(box, own, val, ItemsAfter(queue, mapped))
  <2>1. mapped \in ItemStore /\ Unmatched(queue, mapped) = {}
    BY <1>3
  <2>2. \A t \in Services, p \in Paths \ Silent :
           mapped[t][p] # Absent /\ ~News(box, own, 1, t, p) => mapped[t][p].value = val[t][p]
    BY <1>4
  <2> QED
    BY <1>1, <2>1, <2>2, AttemptIs
<1>6. Kept(queue, mapped) \subseteq queue
  BY <1>5 DEF Fresh
<1>7. ASSUME NEW t \in Services
      PROVE  Mapped(dbus_service_items', t)
                <=> Mapped(items, t) \/ (t = s /\ \E p \in Paths : new[p] # Absent)
  <2>1. Mapped(dbus_service_items', t) <=> Mapped(mapped, t)
    BY <1>2, <1>3, ItemsAfterSound DEF Mapped
  <2> QED
    BY <1>3, <2>1 DEF Mapped
<1> QED
  BY <1>2, <1>5, <1>6, <1>7

\* What becomes of a queued change (the steps of QueuedChangeApplied).
Accounted(e, queue, items) ==
    \/ e.old
    \/ e \in queue
    \/ [e EXCEPT !.old = TRUE] \in queue
    \/ items[e.service][e.path] # Absent

\* Each is applied to its item or kept, unless it is old.
LEMMA MapItemsApplies ==
    ASSUME RegistryInv, NEW queue \in SUBSET Queued, NEW view,
           OnlyUnknown(queue, dbus_service_items),
           NEW s \in Services, NEW new \in ItemMap, NEW force,
           MapItems(Now(queue, dbus_service_items, view), s, new, force),
           \/ Mapped(dbus_service_items, s)
           \/ \A e \in queue : e.service = s => new[e.path] # Absent
    PROVE  \A e \in queue : Accounted(e, delayed_changed_values', dbus_service_items')
<1> DEFINE i == InstanceOf(s, new)
           mapped == WithItems(dbus_service_items, s, i, new)
<1>1. /\ delayed_changed_values' = Kept(queue, mapped)
      /\ dbus_service_items' = ItemsAfter(queue, mapped)
  BY DEF MapItems, Now, Become, attempt_to_process_delayed_changes
<1>2. mapped \in ItemStore /\ Unmatched(queue, mapped) = {}
  BY MappingMatches
<1>3. delayed_count \in Nat
  BY DEF RegistryInv, RegistrySound, Sound, Now
<1> HIDE DEF i, mapped
<1> SUFFICES ASSUME NEW e \in queue, ~e.old
             PROVE  Accounted(e, delayed_changed_values', dbus_service_items')
  BY DEF Accounted
<1>4. e.service \in Services /\ e.path \in Paths
  BY DEF Queued
<1>5. CASE ~Mapped(mapped, e.service)
  <2>1. e \in Kept(queue, mapped)
    BY <1>2, <1>5 DEF Kept, Reached
  <2> QED
    BY <1>1, <2>1 DEF Accounted
<1>6. CASE Mapped(mapped, e.service)
  <2>1. mapped[e.service][e.path] # Absent
    BY <1>2, <1>6 DEF Unmatched
  <2>2. ItemsAfter(queue, mapped)[e.service][e.path] # Absent
    BY <1>2, <1>4, <2>1, ItemsAfterSound
  <2> QED
    BY <1>1, <2>2 DEF Accounted
<1> QED
  BY <1>5, <1>6

LEMMA FewerPaths ==
    ASSUME NEW box, NEW own, NEW ex, NEW hs, NEW queue, NEW some \in SUBSET queue,
           QueuePaths(box, own, ex, hs, queue)
    PROVE  QueuePaths(box, own, ex, hs, some)
BY DEF QueuePaths

\* The service of an answer with items has some before, or has each of its queued
\* changes' items among them.
LEMMA ReplyMatches ==
    ASSUME Inv, OrderInv, FollowInv, ItemsReplied
    PROVE  /\ TheHandler.service \in Services /\ Head(inbox).items \in ItemMap
           /\ \/ Mapped(dbus_service_items, TheHandler.service)
              \/ \A e \in delayed_changed_values :
                    e.service = TheHandler.service => Head(inbox).items[e.path] # Absent
<1> DEFINE s == TheHandler.service
           new == Head(inbox).items
<1>1. PICK kind \in {"get_items", "get_value"} : ReplyTo(kind, {"Items"})
  BY DEF ItemsReplied
<1>2. Head(inbox).type = "Items" /\ inbox # <<>>
  BY <1>1 DEF ReplyTo
<1>3. s \in Services /\ new \in ItemMap /\ TheSerial \in Serials
  BY <1>1, <1>2, TheAnswer, ReplyParts, MessageParts
<1>4. OwnerAt(Tail(inbox), owner, 1, s) = OwnerAt(inbox, owner, 1, s)
  BY <1>1, <1>3, AnswerNoNews
<1>5. /\ inbox \in Seq(Message) /\ 1 \in DOMAIN inbox /\ Head(inbox) = inbox[1]
  BY <1>2, HeadTailProperties DEF Inv, BusTypeOK
<1>6. CASE Inner(TheHandler)
  BY <1>3, <1>6 DEF FollowInv, InnerSound, TheHandler
<1>7. CASE ~Inner(TheHandler)
  <2>1. AnswersAll(inbox[1], async_handlers, s)
    BY <1>2, <1>5, <1>7 DEF AnswersAll, TheHandler, TheSerial
  <2>2. ASSUME NEW e \in delayed_changed_values, e.service = s PROVE new[e.path] # Absent
    BY <1>5, <2>1, <2>2 DEF FollowInv, Follows, QueuePaths
  <2> QED
    BY <1>3, <2>2
<1> QED
  BY <1>3, <1>6, <1>7

\* An answer with items: what it tells is the last that was told of them, and
\* every change in the queue finds its item among them.
LEMMA ItemsRepliedFollows ==
    ASSUME Inv, OrderInv, FollowInv, ItemsReplied PROVE FollowInv'
<1> DEFINE s == TheHandler.service
           new == Head(inbox).items
           rest == Tail(inbox)
           queue == delayed_changed_values
           items == dbus_service_items
<1>1. PICK kind \in {"get_items", "get_value"} : ReplyTo(kind, {"Items"})
  BY DEF ItemsReplied
<1>2. /\ Head(inbox).type = "Items"
      /\ async_handlers' = Closed(TheSerial)
      /\ UNCHANGED <<owner, spent, exported, value, calls, service_id_to_names>>
      /\ MapItems(Now(queue, items, mqtt), s, new, TheHandler.force)
  BY <1>1 DEF ItemsReplied, ReplyTo, Now
<1>3. /\ s \in Services /\ new \in ItemMap
      /\ TheSerial \in Serials /\ calls[TheSerial] = None
      /\ TheHandler \in Handler /\ TheHandler.kind = kind
  BY <1>1, <1>2, TheAnswer, ReplyParts, MessageParts
<1>4. /\ inbox # <<>> /\ inbox' = rest
      /\ \A t, p : News(inbox, owner, 1, t, p) <=> News(rest, owner, 1, t, p)
      /\ \A t \in Services : OwnerAt(rest, owner, 1, t) = OwnerAt(inbox, owner, 1, t)
      /\ QueuePaths(rest, owner, exported, async_handlers, queue)
      /\ QueueSound(rest, owner, value, queue)
      /\ queue \in SUBSET Queued
  BY <1>1, AnswerNoNews
<1>5. \A n \in Serials : Unused(rest, n) \/ async_handlers'[n] = async_handlers[n]
  BY <1>1, <1>2, ClosedMoves DEF CallsMove
<1>6. /\ Bounded(queue, delayed_count) /\ OnlyUnknown(queue, items) /\ RegistryInv
  BY DEF Inv, RegistryInv, RegistrySound, Sound, Now
<1>7. /\ inbox \in Seq(Message) /\ 1 \in DOMAIN inbox /\ Head(inbox) = inbox[1]
  BY <1>4, HeadTailProperties DEF Inv, BusTypeOK
<1>8. Mapped(items, s) \/ \A e \in queue : e.service = s => new[e.path] # Absent
  BY ReplyMatches
<1>9. ASSUME NEW p \in Paths \ Silent, new[p] # Absent, ~News(rest, owner, 1, s, p)
      PROVE  new[p] = value[s][p]
  <2>1. new[p] \in Values
    BY <1>3, <1>9 DEF ItemMap
  <2>2. Tells(inbox[1], owner, async_handlers, s, p, new[p])
    BY <1>2, <1>7 DEF Tells, TheHandler, TheSerial
  <2>3. News(rest, owner, 1, s, p) <=> News(inbox, owner, 1 + 1, s, p)
    BY <1>4, <1>7, NewsTail
  <2> QED
    BY <1>3, <1>7, <1>9, <2>1, <2>2, <2>3 DEF FollowInv, Follows, NewsSound
<1>10. \A t \in Services, p \in Paths \ Silent :
          items[t][p] # Absent /\ ~News(rest, owner, 1, t, p) => items[t][p].value = value[t][p]
  BY <1>4 DEF FollowInv, Follows, CacheSound
<1> DEFINE some == \E p \in Paths : new[p] # Absent
<1> HIDE DEF s, new, rest, queue
<1>11. /\ CacheSound(rest, owner, value, dbus_service_items')
       /\ QueueSound(rest, owner, value, delayed_changed_values')
       /\ delayed_changed_values' \subseteq queue
       /\ \A t \in Services : Mapped(dbus_service_items', t) <=> Mapped(items, t) \/ (t = s /\ some)
  BY <1>2, <1>3, <1>4, <1>6, <1>8, <1>9, <1>10, MapItemsFollows
<1> HIDE DEF some
<1>12. QueuePaths(rest, owner, exported, async_handlers, delayed_changed_values')
  BY <1>4, <1>11, FewerPaths
<1>13. \A n \in Serials : async_handlers'[n] \in {None, async_handlers[n]}
  BY <1>2 DEF Closed, Inv, HandlerInv
<1>14. HeardSound(rest, owner, service_id_to_names', async_handlers',
                  dbus_service_items', delayed_changed_values')
  <2> SUFFICES ASSUME NEW t \in Services, OwnerAt(rest, owner, 1, t) # None,
                      Followed(async_handlers', dbus_service_items', delayed_changed_values', t)
               PROVE  service_id_to_names[OwnerAt(rest, owner, 1, t)] = t
    BY <1>2 DEF HeardSound
  <2>1. Followed(async_handlers, items, queue, t)
    <3>1. CASE t = s
      BY <1>3, <3>1, HandlerAssumption DEF Followed, TheHandler, s
    <3>2. CASE t # s
      BY <1>11, <1>13, <3>2 DEF Followed
    <3> QED
      BY <3>1, <3>2
  <2> QED
    BY <1>4, <2>1 DEF FollowInv, Follows, HeardSound, queue
<1>15. InnerSound(async_handlers', dbus_service_items')
  <2> SUFFICES ASSUME NEW n \in Serials, Inner(async_handlers'[n])
               PROVE  Mapped(dbus_service_items', async_handlers'[n].service)
    BY DEF InnerSound
  <2>1. async_handlers'[n] = async_handlers[n] /\ async_handlers[n] \in Handler
    BY <1>13 DEF Inner, Inv, HandlerInv
  <2>2. async_handlers[n].service \in Services
    BY <2>1, InnerService
  <2>3. Mapped(items, async_handlers[n].service)
    BY <2>1 DEF FollowInv, InnerSound
  <2> QED
    BY <1>11, <2>1, <2>2, <2>3
<1>16. CallsMatch(calls', async_handlers')
  BY <1>2, <1>3, ClosedMatch
<1> QED
  BY <1>2, <1>4, <1>5, <1>11, <1>12, <1>14, <1>15, <1>16, DispatchFollows DEF rest

----------------------------------------------------------------------------
(* The signals.                                                            *)

\* What is queued, after the attempt, of a service that does not change owner.
LEMMA FreshFollows ==
    ASSUME Inv, OrderInv, FollowInv, inbox # <<>>,
           \A e \in delayed_changed_values : ~e.old => ~IsChange(Head(inbox), e.service)
    PROVE  /\ Fresh(delayed_changed_values) \in SUBSET Queued
           /\ QueuePaths(Tail(inbox), owner, exported, async_handlers,
                         Fresh(delayed_changed_values))
           /\ QueueSound(inbox, owner, value, Fresh(delayed_changed_values))
<1> DEFINE queue == delayed_changed_values
<1>1. queue \in SUBSET Queued /\ inbox \in Seq(Message)
  BY DEF Inv, BusTypeOK, RegistryInv, RegistrySound, Sound, Now
<1>2. Fresh(queue) \in SUBSET queue /\ \A e \in Fresh(queue) : ~IsChange(Head(inbox), e.service)
  BY DEF Fresh
<1>3. /\ QueuePaths(inbox, owner, exported, async_handlers, queue)
      /\ QueueSound(inbox, owner, value, queue)
  BY DEF FollowInv, Follows
<1> DEFINE some == Fresh(queue)
<1>4. some \in SUBSET Fresh(queue)
      /\ \A e \in some : \A f \in Fresh(queue) : f.service = e.service => f \in some
  OBVIOUS
<1> HIDE DEF some, queue
<1>5. QueueSound(inbox, owner, value, some)
  BY <1>1, <1>3, <1>4, FreshSound
<1>6. QueuePaths(inbox, owner, exported, async_handlers, some)
  BY <1>2, <1>3, FewerPaths DEF some
<1>7. \A e \in some : ~IsChange(Head(inbox), e.service)
  BY <1>2 DEF some
<1>8. QueuePaths(Tail(inbox), owner, exported, async_handlers, some)
  BY <1>1, <1>6, <1>7, QueueTail
<1> QED
  BY <1>1, <1>2, <1>5, <1>8 DEF some, queue

\* An appearing service has no item and no change queued; it is known from now on.
LEMMA ServiceAppearedFollows ==
    ASSUME Inv, OrderInv, FollowInv, ServiceAppeared PROVE FollowInv'
<1> DEFINE s == Head(inbox).name
           o == Head(inbox).new
           rest == Tail(inbox)
           queue == delayed_changed_values
           items == dbus_service_items
<1>1. /\ inbox # <<>> /\ inbox' = Tail(inbox) /\ Head(inbox).type = "NameOwnerChanged" /\ o # None
      /\ service_id_to_names' = [service_id_to_names EXCEPT ![o] = s]
      /\ delayed_changed_values' = Attempted.queue /\ dbus_service_items' = Attempted.items
      /\ UNCHANGED <<owner, spent, exported, value>>
  BY DEF ServiceAppeared, Receive, Become
<1>2. s \in Services /\ o \in Owners
  BY <1>1, InboxTyped, MessageParts DEF Inv
<1>3. /\ delayed_changed_values' = Fresh(queue) /\ dbus_service_items' = items
  BY <1>1, AttemptedIs DEF Inv
<1>4. /\ IsChange(Head(inbox), s) /\ \A t : t # s => ~IsChange(Head(inbox), t)
  BY <1>1 DEF IsChange
<1>5. /\ OwnerAt(inbox, owner, 1, s) = None /\ OwnerAt(rest, owner, 1, s) = o
      /\ \A t \in Services : t # s => OwnerAt(rest, owner, 1, t) = OwnerAt(inbox, owner, 1, t)
  BY <1>1, <1>2, <1>4, NextSeen
<1>6. ~Mapped(items, s) /\ \A e \in queue : e.service # s /\ e.service \in Services
  <2>1. \A e \in queue : e.service # s
    BY <1>5 DEF FollowInv, Follows, QueueSound
  <2> QED
    BY <1>2, <1>5, <2>1 DEF OrderInv, RegisteredSound, Inv, RegistryInv, RegistrySound, Sound,
                            Now, Queued
<1>7. \A t, p : t # s => (News(inbox, owner, 1, t, p) <=> News(rest, owner, 1, t, p))
  <2>1. \A t, p : t # s => ~IsNews(Head(inbox), owner, t, p)
    BY <1>1, <1>4 DEF IsNews
  <2> QED
    BY <1>1, <2>1, RestFollows
<1>8. /\ Fresh(queue) \in SUBSET Queued /\ Fresh(queue) \in SUBSET queue
      /\ QueuePaths(rest, owner, exported, async_handlers, Fresh(queue))
      /\ QueueSound(inbox, owner, value, Fresh(queue))
  <2>1. \A e \in queue : ~e.old => ~IsChange(Head(inbox), e.service)
    BY <1>4, <1>6
  <2> QED
    BY <1>1, <2>1, FreshFollows DEF Fresh
<1>9. PICK n \in Serials : /\ n \in FreeSerials
                           /\ calls' = [calls EXCEPT ![n] = NameOwnerCall(s)]
                           /\ async_handlers' = [async_handlers EXCEPT ![n] = NameOwnerHandler(s)]
  BY DEF ServiceAppeared, scan_dbus_service, NextSerial, call_method
<1>10. /\ NameOwnerHandler(s) \in Handler /\ NameOwnerHandler(s).path = NameOwnerCall(s).path
       /\ NameOwnerHandler(s).kind = "get_name_owner" /\ ~Inner(NameOwnerHandler(s))
  BY <1>2, HandlingTyped, BusAssumption
     DEF NameOwnerHandler, NameOwnerCall, Handling, Sending, Inner
<1>11. /\ calls \in [Serials -> Call \cup {None}]
       /\ async_handlers \in [Serials -> Handler \cup {None}]
       /\ service_id_to_names \in [Owners -> Services \cup {None}]
  BY DEF Inv, BusTypeOK, HandlerInv
<1>12. CallsMatch(calls', async_handlers')
  BY <1>9, <1>10, <1>11, StoredMatch DEF FollowInv
<1>13. \A m \in Serials : Unused(rest, m) \/ async_handlers'[m] = async_handlers[m]
  BY <1>1, <1>9, <1>11, FreeCanCall
<1>14. Grow(async_handlers, async_handlers', items, queue)
  BY <1>9, <1>10, <1>11 DEF Grow
<1>15. OwnersSound(rest, owner, spent)
  BY <1>1, RestFollows
<1> HIDE DEF s, o, rest, queue, items
<1>16. /\ HeardSound(inbox, owner, service_id_to_names, async_handlers', items, queue)
       /\ InnerSound(async_handlers', items)
  BY <1>14, Grown DEF FollowInv, Follows, queue, items
<1>17. CacheSound(rest, owner, value, items)
  <2>1. CacheSound(inbox, owner, value, items)
    BY DEF FollowInv, Follows, items
  <2> QED
    BY <1>6, <1>7, <2>1 DEF CacheSound, Mapped
<1>18. QueueSound(rest, owner, value, Fresh(queue))
  <2>1. \A e \in Fresh(queue) : e.service # s /\ e.service \in Services
    BY <1>6, <1>8
  <2> QED
    BY <1>5, <1>7, <1>8, <2>1 DEF QueueSound
<1>19. HeardSound(rest, owner, service_id_to_names', async_handlers', items, Fresh(queue))
  <2> SUFFICES ASSUME NEW t \in Services, OwnerAt(rest, owner, 1, t) # None,
                      Followed(async_handlers', items, Fresh(queue), t)
               PROVE  service_id_to_names'[OwnerAt(rest, owner, 1, t)] = t
    BY DEF HeardSound
  <2>1. CASE t = s
    BY <1>1, <1>2, <1>5, <1>11, <2>1
  <2>2. CASE t # s
    <3>1. Followed(async_handlers', items, queue, t)
      BY <1>8 DEF Followed
    <3>2. service_id_to_names[OwnerAt(rest, owner, 1, t)] = t
      BY <1>5, <1>16, <2>2, <3>1 DEF HeardSound
    <3>3. OwnerAt(rest, owner, 1, t) # o
      <4>1. 1 \in Nat \ {0}
        OBVIOUS
      <4> QED
        BY <1>2, <1>5, <1>15, <2>2, <4>1 DEF OwnersSound
    <3> QED
      BY <1>1, <1>11, <3>2, <3>3
  <2> QED
    BY <2>1, <2>2
<1> QED
  BY <1>1, <1>3, <1>8, <1>12, <1>13, <1>16, <1>17, <1>18, <1>19, DispatchFollows
     DEF rest, queue, items

\* One entry is erased, of those that hold the value.
LEMMA EraseKeepsOthers ==
    ASSUME NEW Keys, NEW map \in [Keys -> Services \cup {None}], NEW s \in Services,
           NEW after \in EraseOneValue(map, s), NEW k \in Keys, map[k] # s
    PROVE  after[k] = map[k]
<1>1. CASE {j \in DOMAIN map : map[j] = s} = {}
  BY <1>1 DEF EraseOneValue
<1>2. CASE {j \in DOMAIN map : map[j] = s} # {}
  <2>1. PICK j \in Keys : map[j] = s /\ after = [map EXCEPT ![j] = None]
    BY <1>2 DEF EraseOneValue
  <2> QED
    BY <2>1
<1> QED
  BY <1>1, <1>2

\* A departing service that leaves nothing behind takes its items along.
LEMMA ServiceDisappearedFollows ==
    ASSUME Inv, OrderInv, FollowInv, ServiceDisappeared, LeavesNothing(Head(inbox).name)
    PROVE  FollowInv'
<1> DEFINE s == Head(inbox).name
           o == Head(inbox).old
           rest == Tail(inbox)
           queue == delayed_changed_values
           items == dbus_service_items
           ids == remove_id_to_owner(o)
<1>1. /\ inbox # <<>> /\ inbox' = Tail(inbox)
      /\ Head(inbox).type = "NameOwnerChanged" /\ Head(inbox).new = None /\ o # None
      /\ service_id_to_names' \in EraseOneValue(ids, s)
      /\ delayed_changed_values' = Attempted.queue
      /\ dbus_service_items' = [Attempted.items EXCEPT ![s] = [p \in Paths |-> Absent]]
      /\ UNCHANGED <<owner, spent, exported, value, calls, async_handlers>>
  BY DEF ServiceDisappeared, Receive, Become, remove_dbus_service, WithoutItems
<1>2. s \in Services /\ o \in Owners
  BY <1>1, InboxTyped, MessageParts DEF Inv
<1>3. /\ delayed_changed_values' = Fresh(queue)
      /\ dbus_service_items' = [items EXCEPT ![s] = [p \in Paths |-> Absent]]
  BY <1>1, AttemptedIs DEF Inv
<1>4. /\ IsChange(Head(inbox), s) /\ \A t : t # s => ~IsChange(Head(inbox), t)
  BY <1>1 DEF IsChange
<1>5. /\ OwnerAt(inbox, owner, 1, s) = o /\ OwnerAt(rest, owner, 1, s) = None
      /\ \A t \in Services : t # s => OwnerAt(rest, owner, 1, t) = OwnerAt(inbox, owner, 1, t)
  BY <1>1, <1>2, <1>4, NextSeen
<1>6. /\ \A e \in queue : e.service # s /\ e.service \in Services
      /\ \A n \in Serials : Inner(async_handlers[n]) => async_handlers[n].service # s
  BY DEF LeavesNothing, Inner, Inv, RegistryInv, RegistrySound, Sound, Now, Queued
<1>7. \A t, p : t # s => (News(inbox, owner, 1, t, p) <=> News(rest, owner, 1, t, p))
  <2>1. \A t, p : t # s => ~IsNews(Head(inbox), owner, t, p)
    BY <1>1, <1>4 DEF IsNews
  <2> QED
    BY <1>1, <2>1, RestFollows
<1>8. /\ Fresh(queue) \in SUBSET Queued /\ Fresh(queue) \in SUBSET queue
      /\ QueuePaths(rest, owner, exported, async_handlers, Fresh(queue))
      /\ QueueSound(inbox, owner, value, Fresh(queue))
  <2>1. \A e \in queue : ~e.old => ~IsChange(Head(inbox), e.service)
    BY <1>4, <1>6
  <2> QED
    BY <1>1, <2>1, FreshFollows DEF Fresh
<1>9. /\ items \in ItemStore
      /\ service_id_to_names \in [Owners -> Services \cup {None}]
      /\ async_handlers \in [Serials -> Handler \cup {None}]
  BY DEF Inv, HandlerInv, RegistryInv, RegistrySound, Sound, Now
<1>10. /\ \A p \in Paths : dbus_service_items'[s][p] = Absent
       /\ \A t \in Services : t # s => dbus_service_items'[t] = items[t]
  BY <1>2, <1>3, <1>9 DEF ItemStore
<1>11. /\ \A n \in Serials : Unused(rest, n) \/ async_handlers'[n] = async_handlers[n]
       /\ CallsMatch(calls', async_handlers')
  BY <1>1 DEF FollowInv
<1>12. OwnersSound(inbox, owner, spent)
  BY DEF FollowInv, Follows
<1>13. /\ ids \in [Owners -> Services \cup {None}]
       /\ \A u \in Owners : u # o => ids[u] = service_id_to_names[u]
  BY <1>9 DEF remove_id_to_owner
<1> HIDE DEF s, o, rest, queue, items, ids
<1>14. /\ HeardSound(inbox, owner, service_id_to_names, async_handlers, items, queue)
       /\ InnerSound(async_handlers, items)
       /\ CacheSound(inbox, owner, value, items)
  BY DEF FollowInv, Follows, queue, items
<1>15. CacheSound(rest, owner, value, dbus_service_items')
  <2> SUFFICES ASSUME NEW t \in Services, NEW p \in Paths \ Silent,
                      dbus_service_items'[t][p] # Absent, ~News(rest, owner, 1, t, p)
               PROVE  dbus_service_items'[t][p].value = value[t][p]
    BY DEF CacheSound
  <2>1. t # s /\ dbus_service_items'[t] = items[t]
    BY <1>10
  <2>2. ~News(inbox, owner, 1, t, p)
    BY <1>7, <2>1
  <2> QED
    BY <1>14, <2>1, <2>2 DEF CacheSound
<1>16. QueueSound(rest, owner, value, Fresh(queue))
  <2>1. \A e \in Fresh(queue) : e.service # s /\ e.service \in Services
    BY <1>6, <1>8
  <2> QED
    BY <1>5, <1>7, <1>8, <2>1 DEF QueueSound
<1>17. HeardSound(rest, owner, service_id_to_names', async_handlers, dbus_service_items',
                  Fresh(queue))
  <2> SUFFICES ASSUME NEW t \in Services, OwnerAt(rest, owner, 1, t) # None,
                      Followed(async_handlers, dbus_service_items', Fresh(queue), t)
               PROVE  service_id_to_names'[OwnerAt(rest, owner, 1, t)] = t
    BY DEF HeardSound
  <2> DEFINE u == OwnerAt(rest, owner, 1, t)
  <2>1. t # s /\ u = OwnerAt(inbox, owner, 1, t)
    BY <1>5
  <2>2. Followed(async_handlers, items, queue, t)
    BY <1>8, <1>10, <2>1 DEF Followed, Mapped
  <2>3. service_id_to_names[u] = t
    BY <1>14, <2>1, <2>2 DEF HeardSound
  <2>4. u # o
    <3>1. 1 \in Nat \ {0}
      OBVIOUS
    <3> QED
      BY <1>2, <1>5, <1>12, <2>1, <3>1 DEF OwnersSound
  <2>5. u \in Owners
    BY <1>12, <2>1 DEF OwnersSound, Inv, BusTypeOK
  <2> HIDE DEF u
  <2>6. ids[u] = t
    BY <1>13, <2>3, <2>4, <2>5
  <2>7. service_id_to_names'[u] = ids[u]
    BY <1>1, <1>2, <1>13, <2>1, <2>5, <2>6, EraseKeepsOthers
  <2> QED
    BY <2>6, <2>7 DEF u
<1>18. InnerSound(async_handlers, dbus_service_items')
  <2>1. \A n \in Serials : Inner(async_handlers[n]) => async_handlers[n].service \in Services
    BY <1>9, InnerService DEF Inner
  <2> QED
    BY <1>6, <1>10, <1>14, <2>1 DEF InnerSound, Mapped
<1> QED
  BY <1>1, <1>3, <1>8, <1>11, <1>15, <1>16, <1>17, <1>18, DispatchFollows DEF rest, queue

\* A signal is news of the service whose owner sent it, and tells its value.
LEMMA SignalIs ==
    ASSUME Inv, OrderInv, FollowInv, inbox # <<>>, Head(inbox).type = "ItemsChanged"
    PROVE  LET m == Head(inbox)
           IN  /\ m.sender \in Owners /\ m.path \in Paths /\ m.value \in Values
               /\ \A t \in Services :
                     OwnerAt(Tail(inbox), owner, 1, t) = OwnerAt(inbox, owner, 1, t)
               /\ \A t \in Services, p \in Paths :
                     News(inbox, owner, 1, t, p) /\ ~News(Tail(inbox), owner, 1, t, p)
                        => p = m.path /\ OwnerAt(inbox, owner, 1, t) = m.sender
               /\ \A t \in Services :
                     /\ OwnerAt(inbox, owner, 1, t) = m.sender
                     /\ m.path \notin Silent /\ ~News(Tail(inbox), owner, 1, t, m.path)
                     => m.value = value[t][m.path]
               /\ Fresh(delayed_changed_values) \in SUBSET Queued
               /\ Fresh(delayed_changed_values) \in SUBSET delayed_changed_values
               /\ QueuePaths(Tail(inbox), owner, exported, async_handlers,
                             Fresh(delayed_changed_values))
               /\ QueueSound(inbox, owner, value, Fresh(delayed_changed_values))
<1> DEFINE m == Head(inbox)
           rest == Tail(inbox)
<1>1. /\ inbox \in Seq(Message) /\ 1 \in DOMAIN inbox /\ m = inbox[1]
  BY HeadTailProperties DEF Inv, BusTypeOK
<1>2. m.sender \in Owners /\ m.path \in Paths /\ m.value \in Values
  BY InboxTyped, MessageParts DEF Inv
<1>3. \A t : ~IsChange(m, t)
  BY DEF IsChange
<1>4. \A t \in Services : OwnerAt(rest, owner, 1, t) = OwnerAt(inbox, owner, 1, t)
  BY <1>3, NextSeen
<1>5. \A t \in Services, p \in Paths :
         ~News(rest, owner, 1, t, p) => OwnerAt(inbox, owner, 1, t) = owner[t]
  BY <1>4, OwnerWithoutNews
<1>6. \A t \in Services, p \in Paths :
         News(inbox, owner, 1, t, p) /\ ~News(rest, owner, 1, t, p)
            => p = m.path /\ OwnerAt(inbox, owner, 1, t) = m.sender
  BY <1>3, <1>5, RestFollows DEF IsNews
<1>7. ASSUME NEW t \in Services, OwnerAt(inbox, owner, 1, t) = m.sender,
             m.path \notin Silent, ~News(rest, owner, 1, t, m.path)
      PROVE  m.value = value[t][m.path]
  <2>1. m.sender = owner[t]
    BY <1>2, <1>5, <1>7
  <2>2. Tells(inbox[1], owner, async_handlers, t, m.path, m.value)
    BY <1>1, <2>1 DEF Tells
  <2>3. News(rest, owner, 1, t, m.path) <=> News(inbox, owner, 1 + 1, t, m.path)
    BY <1>1, NewsTail
  <2> QED
    BY <1>1, <1>2, <1>7, <2>2, <2>3 DEF FollowInv, Follows, NewsSound
<1>8. /\ Fresh(delayed_changed_values) \in SUBSET Queued
      /\ QueuePaths(rest, owner, exported, async_handlers, Fresh(delayed_changed_values))
      /\ QueueSound(inbox, owner, value, Fresh(delayed_changed_values))
  BY <1>3, FreshFollows
<1>9. Fresh(delayed_changed_values) \in SUBSET delayed_changed_values
  BY DEF Fresh
<1> QED
  BY <1>2, <1>4, <1>6, <1>7, <1>8, <1>9

\* The signal of a sender that is not known concerns nobody who has items.
LEMMA StrangerFollows ==
    ASSUME Inv, OrderInv, FollowInv, ItemsChanged,
           service_id_to_names[Head(inbox).sender] = None
    PROVE  FollowInv'
<1> DEFINE o == Head(inbox).sender
           rest == Tail(inbox)
           fresh == Fresh(delayed_changed_values)
           items == dbus_service_items
<1>1. /\ inbox # <<>> /\ inbox' = rest /\ Head(inbox).type = "ItemsChanged"
      /\ Become(Attempted)
      /\ UNCHANGED <<owner, spent, exported, value, calls, async_handlers, service_id_to_names>>
  BY DEF ItemsChanged, Receive
<1>2. delayed_changed_values' = fresh /\ dbus_service_items' = items
  BY <1>1, AttemptedIs DEF Become, Inv
<1>3. /\ o \in Owners
      /\ \A t \in Services : OwnerAt(rest, owner, 1, t) = OwnerAt(inbox, owner, 1, t)
      /\ \A t \in Services, p \in Paths :
            News(inbox, owner, 1, t, p) /\ ~News(rest, owner, 1, t, p)
               => OwnerAt(inbox, owner, 1, t) = o
      /\ fresh \in SUBSET Queued /\ fresh \in SUBSET delayed_changed_values
      /\ QueuePaths(rest, owner, exported, async_handlers, fresh)
      /\ QueueSound(inbox, owner, value, fresh)
  BY <1>1, SignalIs
<1> HIDE DEF rest, fresh
<1>4. /\ HeardSound(inbox, owner, service_id_to_names, async_handlers, items,
                    delayed_changed_values)
      /\ InnerSound(async_handlers, items)
      /\ CacheSound(inbox, owner, value, items)
      /\ CallsMatch(calls, async_handlers)
  BY DEF FollowInv, Follows
<1>5. \A t \in Services : Followed(async_handlers, items, delayed_changed_values, t)
                             => OwnerAt(inbox, owner, 1, t) # o
  BY <1>3, <1>4, BusAssumption DEF HeardSound
<1>6. CacheSound(rest, owner, value, items)
  <2> SUFFICES ASSUME NEW t \in Services, NEW p \in Paths \ Silent,
                      items[t][p] # Absent, ~News(rest, owner, 1, t, p)
               PROVE  items[t][p].value = value[t][p]
    BY DEF CacheSound
  <2>1. OwnerAt(inbox, owner, 1, t) # o
    BY <1>5 DEF Followed, Mapped
  <2> QED
    BY <1>3, <1>4, <2>1 DEF CacheSound
<1>7. QueueSound(rest, owner, value, fresh)
  <2>1. \A e \in fresh : /\ e.service \in Services /\ e.path \in Paths
                         /\ OwnerAt(inbox, owner, 1, e.service) # o
    <3>1. \A e \in fresh : e.service \in Services /\ e.path \in Paths
      BY <1>3 DEF Queued
    <3>2. \A e \in fresh : Followed(async_handlers, items, delayed_changed_values, e.service)
      BY <1>3 DEF Followed
    <3> QED
      BY <1>5, <3>1, <3>2
  <2> QED
    BY <1>3, <2>1 DEF QueueSound
<1>8. HeardSound(rest, owner, service_id_to_names, async_handlers, items, fresh)
  <2>1. \A t : Followed(async_handlers, items, fresh, t)
                  => Followed(async_handlers, items, delayed_changed_values, t)
    BY <1>3 DEF Followed
  <2> QED
    BY <1>3, <1>4, <2>1 DEF HeardSound
<1> QED
  BY <1>1, <1>2, <1>3, <1>4, <1>6, <1>7, <1>8, DispatchFollows DEF rest

\* A signal of a service that is known is news of no other service.
LEMMA KnownSender ==
    ASSUME Inv, OrderInv, FollowInv, inbox # <<>>, Head(inbox).type = "ItemsChanged",
           service_id_to_names[Head(inbox).sender] # None
    PROVE  LET m == Head(inbox)
               s == service_id_to_names[m.sender]
           IN  /\ s \in Services /\ OwnerAt(inbox, owner, 1, s) = m.sender
               /\ \A t \in Services, p \in Paths :
                     News(inbox, owner, 1, t, p) /\ ~News(Tail(inbox), owner, 1, t, p)
                        => p = m.path /\ t = s
<1> DEFINE m == Head(inbox)
           s == service_id_to_names[m.sender]
<1>1. /\ m.sender \in Owners
      /\ \A t \in Services, p \in Paths :
            News(inbox, owner, 1, t, p) /\ ~News(Tail(inbox), owner, 1, t, p)
               => p = m.path /\ OwnerAt(inbox, owner, 1, t) = m.sender
  BY SignalIs
<1>2. s \in Services /\ m.sender = OwnerAt(inbox, owner, 1, s)
  BY <1>1 DEF Inv, HandlerInv, OrderInv, IdsSound
<1>3. \A t \in Services : OwnerAt(inbox, owner, 1, t) = m.sender => t = s
  <2>1. OwnersSound(inbox, owner, spent) /\ 1 \in Nat \ {0} /\ m.sender # None
    BY <1>1, BusAssumption DEF FollowInv, Follows
  <2> HIDE DEF s, m
  <2> QED
    BY <1>2, <2>1 DEF OwnersSound
<1> QED
  BY <1>1, <1>2, <1>3

\* A change of an item of a service that is mapped is the last that was told of it.
LEMMA MappedChangeFollows ==
    ASSUME Inv, OrderInv, FollowInv, ItemsChanged,
           service_id_to_names[Head(inbox).sender] # None,
           Mapped(dbus_service_items, service_id_to_names[Head(inbox).sender])
    PROVE  FollowInv'
<1> DEFINE s == service_id_to_names[Head(inbox).sender]
           p == Head(inbox).path
           v == Head(inbox).value
           rest == Tail(inbox)
           queue == delayed_changed_values
           fresh == Fresh(queue)
           items == dbus_service_items
           new == OnlyItem(p, v)
<1>1. /\ inbox # <<>> /\ inbox' = rest /\ Head(inbox).type = "ItemsChanged"
      /\ MapChange(Attempted, s, p, v)
      /\ UNCHANGED <<owner, spent, exported, value, calls, async_handlers, service_id_to_names>>
  BY DEF ItemsChanged, Receive
<1>2. /\ Attempted = Now(fresh, items, Attempted.view)
      /\ Sound(Attempted, delayed_count, service_names_to_instance)
      /\ OnlyUnknown(fresh, items) /\ RegistryInv
  BY AttemptedIs, AttemptedSound DEF Inv
<1>3. MapItems(Now(fresh, items, Attempted.view), s, new, FALSE)
  <2>1. Attempted.items = items
    BY AttemptedIs DEF Inv
  <2> QED
    BY <1>1, <1>2, <2>1 DEF MapChange
<1>4. /\ p \in Paths /\ v \in Values
      /\ \A t \in Services : OwnerAt(rest, owner, 1, t) = OwnerAt(inbox, owner, 1, t)
      /\ \A t \in Services :
            /\ OwnerAt(inbox, owner, 1, t) = Head(inbox).sender
            /\ p \notin Silent /\ ~News(rest, owner, 1, t, p)
            => v = value[t][p]
      /\ fresh \in SUBSET Queued /\ fresh \in SUBSET queue
      /\ QueuePaths(rest, owner, exported, async_handlers, fresh)
      /\ QueueSound(inbox, owner, value, fresh)
  BY <1>1, SignalIs
<1>5. /\ s \in Services /\ OwnerAt(inbox, owner, 1, s) = Head(inbox).sender
      /\ \A t \in Services, q \in Paths :
            News(inbox, owner, 1, t, q) /\ ~News(rest, owner, 1, t, q) => q = p /\ t = s
  BY <1>1, KnownSender
<1>6. Bounded(fresh, delayed_count)
  BY <1>4 DEF Inv, RegistryInv, RegistrySound, Sound, Now, Bounded
<1>7. new \in ItemMap /\ \A q \in Paths : new[q] = IF q = p THEN v ELSE Absent
  BY <1>4 DEF OnlyItem, ItemMap
<1>8. Mapped(items, s)
  OBVIOUS
<1> HIDE DEF s, p, v, rest, fresh, new
<1>9. /\ HeardSound(inbox, owner, service_id_to_names, async_handlers, items, queue)
      /\ InnerSound(async_handlers, items)
      /\ CacheSound(inbox, owner, value, items)
      /\ CallsMatch(calls, async_handlers)
  BY DEF FollowInv, Follows
<1>10. QueueSound(rest, owner, value, fresh)
  <2>1. \A e \in fresh : e.service \in Services /\ e.path \in Paths /\ e.service # s
    BY <1>2, <1>4, <1>8 DEF Queued, OnlyUnknown
  <2> QED
    BY <1>4, <1>5, <2>1 DEF QueueSound
<1>11. \A q \in Paths \ Silent : new[q] # Absent /\ ~News(rest, owner, 1, s, q)
                                    => new[q] = value[s][q]
  BY <1>4, <1>5, <1>7
<1>12. \A t \in Services, q \in Paths \ Silent :
          /\ ~(t = s /\ new[q] # Absent)
          /\ items[t][q] # Absent /\ ~News(rest, owner, 1, t, q)
          => items[t][q].value = value[t][q]
  <2> SUFFICES ASSUME NEW t \in Services, NEW q \in Paths \ Silent,
                      ~(t = s /\ new[q] # Absent),
                      items[t][q] # Absent, ~News(rest, owner, 1, t, q)
               PROVE  items[t][q].value = value[t][q]
    OBVIOUS
  <2>1. ~(t = s /\ q = p)
    BY <1>4, <1>7, BusAssumption
  <2>2. ~News(inbox, owner, 1, t, q)
    BY <1>5, <2>1
  <2> QED
    BY <1>9, <2>2 DEF CacheSound
<1> DEFINE some == \E q \in Paths : new[q] # Absent
           view == Attempted.view
           force == FALSE
<1> HIDE DEF view
<1>13. /\ CacheSound(rest, owner, value, dbus_service_items')
       /\ QueueSound(rest, owner, value, delayed_changed_values')
       /\ delayed_changed_values' \subseteq fresh
       /\ \A t \in Services :
             Mapped(dbus_service_items', t) <=> Mapped(items, t) \/ (t = s /\ some)
  <2>1. MapItems(Now(fresh, items, view), s, new, force)
    BY <1>3 DEF view
  <2> HIDE DEF force
  <2>2. /\ RegistryInv /\ Bounded(fresh, delayed_count) /\ OnlyUnknown(fresh, items)
    BY <1>2, <1>6
  <2>3. fresh \in SUBSET Queued /\ s \in Services /\ new \in ItemMap
    BY <1>4, <1>5, <1>7
  <2>4. Mapped(items, s) \/ \A e \in fresh : e.service = s => new[e.path] # Absent
    BY <1>8
  <2> QED
    BY <2>1, <2>2, <2>3, <2>4, <1>10, <1>11, <1>12, MapItemsFollows
<1> HIDE DEF some
<1>14. \A t \in Services : Mapped(dbus_service_items', t) <=> Mapped(items, t)
  BY <1>8, <1>13
<1>15. QueuePaths(rest, owner, exported, async_handlers, delayed_changed_values')
  BY <1>4, <1>13, FewerPaths
<1>16. HeardSound(rest, owner, service_id_to_names, async_handlers, dbus_service_items',
                  delayed_changed_values')
  <2>1. \A t \in Services :
           Followed(async_handlers, dbus_service_items', delayed_changed_values', t)
              => Followed(async_handlers, items, queue, t)
    BY <1>4, <1>13, <1>14 DEF Followed
  <2> QED
    BY <1>4, <1>9, <2>1 DEF HeardSound
<1>17. InnerSound(async_handlers, dbus_service_items')
  <2>1. \A n \in Serials : async_handlers[n] \in Handler \cup {None}
    BY DEF Inv, HandlerInv
  <2>2. \A n \in Serials : Inner(async_handlers[n]) => async_handlers[n].service \in Services
    BY <2>1, InnerService DEF Inner
  <2> QED
    BY <1>9, <1>14, <2>2 DEF InnerSound
<1> QED
  BY <1>1, <1>9, <1>13, <1>15, <1>16, <1>17, DispatchFollows DEF rest

\* A change that is queued comes last, and any answer to come has its path.
LEMMA QueuedChangeFollows ==
    ASSUME Inv, OrderInv, FollowInv, ItemsChanged,
           service_id_to_names[Head(inbox).sender] # None,
           ~Mapped(dbus_service_items, service_id_to_names[Head(inbox).sender])
    PROVE  FollowInv'
<1> DEFINE o == Head(inbox).sender
           s == service_id_to_names[o]
           p == Head(inbox).path
           v == Head(inbox).value
           rest == Tail(inbox)
           queue == delayed_changed_values
           fresh == Fresh(queue)
           items == dbus_service_items
           place == CountAfter(fresh, delayed_count)
           entry == [at |-> place, service |-> s, path |-> p, value |-> v, old |-> FALSE]
<1>1. /\ inbox # <<>> /\ inbox' = rest /\ Head(inbox).type = "ItemsChanged"
      /\ MapChange(Attempted, s, p, v)
      /\ UNCHANGED <<owner, spent, exported, value, calls, async_handlers, service_id_to_names>>
  BY DEF ItemsChanged, Receive
<1>2. /\ Attempted.items = items /\ Attempted.queue = fresh
  BY AttemptedIs DEF Inv
<1>3. delayed_changed_values' = fresh \cup {entry} /\ dbus_service_items' = items
  BY <1>1, <1>2 DEF MapChange, QueueChange
<1>4. /\ o \in Owners /\ p \in Paths /\ v \in Values
      /\ \A t \in Services : OwnerAt(rest, owner, 1, t) = OwnerAt(inbox, owner, 1, t)
      /\ \A t \in Services :
            /\ OwnerAt(inbox, owner, 1, t) = o
            /\ p \notin Silent /\ ~News(rest, owner, 1, t, p)
            => v = value[t][p]
      /\ fresh \in SUBSET Queued /\ fresh \in SUBSET queue
      /\ QueuePaths(rest, owner, exported, async_handlers, fresh)
      /\ QueueSound(inbox, owner, value, fresh)
  BY <1>1, SignalIs
<1>5. /\ s \in Services /\ OwnerAt(inbox, owner, 1, s) = o
      /\ \A t \in Services, q \in Paths :
            News(inbox, owner, 1, t, q) /\ ~News(rest, owner, 1, t, q) => q = p /\ t = s
  BY <1>1, KnownSender
<1>6. /\ delayed_count \in Nat /\ \A e \in fresh : e.at \in Nat /\ e.at < delayed_count
  BY <1>4 DEF Inv, RegistryInv, RegistrySound, Sound, Now, Bounded, Queued
<1>7. place \in Nat /\ \A e \in fresh : e.at < place
  BY <1>6 DEF CountAfter
<1>8. /\ entry.at = place /\ entry.service = s /\ entry.path = p /\ entry.value = v /\ ~entry.old
  OBVIOUS
<1>9. o # None /\ ~Mapped(items, s)
  BY <1>4, BusAssumption
<1>10. /\ inbox \in Seq(Message) /\ 1 \in DOMAIN inbox /\ Head(inbox) = inbox[1]
       /\ DOMAIN rest = 1 .. Len(inbox) - 1 /\ DOMAIN inbox = 1 .. Len(inbox)
       /\ Len(inbox) \in Nat /\ \A j \in DOMAIN rest : rest[j] = inbox[j + 1]
  BY <1>1, HeadTailProperties DEF Inv, BusTypeOK
<1>11. ASSUME NEW i \in DOMAIN rest, AnswersAll(rest[i], async_handlers, s),
              OwnerAt(rest, owner, i, s) = OwnerAt(rest, owner, 1, s)
       PROVE  rest[i].items[p] # Absent
  <2>1. i \in Nat \ {0} /\ i + 1 \in DOMAIN inbox /\ rest[i] = inbox[i + 1] /\ 1 < i + 1
    BY <1>10
  <2>2. OwnerAt(rest, owner, i, s) = OwnerAt(inbox, owner, i + 1, s)
    BY <1>1, <1>10, <2>1, OwnerAtTail
  <2>3. inbox[1].sender = OwnerAt(inbox, owner, i + 1, s)
    BY <1>4, <1>5, <1>10, <1>11, <2>2
  <2> QED
    BY <1>1, <1>5, <1>10, <1>11, <2>1, <2>3 DEF FollowInv, Follows, PathsSound
<1>12. owner[s] # None /\ OwnerAt(rest, owner, 1, s) = owner[s] => p \in exported[s]
  BY <1>1, <1>4, <1>5, <1>10 DEF FollowInv, Follows, PathsSound
<1>13. service_id_to_names[o] = s
  OBVIOUS
<1> HIDE DEF s, o, p, v, rest, fresh, entry, place
<1>14. /\ HeardSound(inbox, owner, service_id_to_names, async_handlers, items, queue)
       /\ InnerSound(async_handlers, items)
       /\ CacheSound(inbox, owner, value, items)
       /\ CallsMatch(calls, async_handlers)
  BY DEF FollowInv, Follows
<1>15. QueuePaths(rest, owner, exported, async_handlers, fresh \cup {entry})
  BY <1>4, <1>8, <1>11, <1>12 DEF QueuePaths
<1>16. CacheSound(rest, owner, value, items)
  <2> SUFFICES ASSUME NEW t \in Services, NEW q \in Paths \ Silent,
                      items[t][q] # Absent, ~News(rest, owner, 1, t, q)
               PROVE  items[t][q].value = value[t][q]
    BY DEF CacheSound
  <2>1. t # s
    BY <1>9 DEF Mapped
  <2>2. ~News(inbox, owner, 1, t, q)
    BY <1>5, <2>1
  <2> QED
    BY <1>14, <2>2 DEF CacheSound
<1>17. QueueSound(rest, owner, value, fresh \cup {entry})
  <2>1. \A e \in fresh : e.service \in Services /\ e.path \in Paths /\ ~e.old
    BY <1>4 DEF Queued, Fresh, fresh
  <2>2. \A e \in fresh \cup {entry} : OwnerAt(rest, owner, 1, e.service) # None
    BY <1>4, <1>5, <1>8, <1>9, <2>1 DEF QueueSound
  <2>3. ASSUME NEW e \in fresh \cup {entry}, e.path \notin Silent,
               LastQueued(fresh \cup {entry}, e), ~News(rest, owner, 1, e.service, e.path)
        PROVE  e.value = value[e.service][e.path]
    <3>1. CASE e = entry
      BY <1>4, <1>5, <1>8, <2>3, <3>1
    <3>2. CASE e # entry
      <4>1. e \in fresh /\ ~(entry.service = e.service /\ entry.path = e.path)
        <5>1. e \in fresh /\ ~(entry.at <= e.at)
          BY <1>6, <1>7, <1>8, <3>2
        <5> QED
          BY <2>3, <5>1 DEF LastQueued
      <4>2. ~News(inbox, owner, 1, e.service, e.path)
        BY <1>5, <1>8, <2>1, <2>3, <4>1
      <4>3. LastQueued(fresh, e)
        BY <2>3 DEF LastQueued
      <4> QED
        BY <1>4, <2>3, <4>1, <4>2, <4>3 DEF QueueSound
    <3> QED
      BY <3>1, <3>2
  <2>4. \A e \in fresh \cup {entry} : ~e.old
    BY <1>8, <2>1
  <2> QED
    BY <2>2, <2>3, <2>4 DEF QueueSound
<1>18. HeardSound(rest, owner, service_id_to_names, async_handlers, items, fresh \cup {entry})
  <2> SUFFICES ASSUME NEW t \in Services, OwnerAt(rest, owner, 1, t) # None,
                      Followed(async_handlers, items, fresh \cup {entry}, t)
               PROVE  service_id_to_names[OwnerAt(rest, owner, 1, t)] = t
    BY DEF HeardSound
  <2>1. CASE t = s
    BY <1>4, <1>5, <1>13, <2>1
  <2>2. CASE t # s
    <3>1. Followed(async_handlers, items, queue, t)
      BY <1>4, <1>8, <2>2 DEF Followed
    <3> QED
      BY <1>4, <1>14, <3>1 DEF HeardSound
  <2> QED
    BY <2>1, <2>2
<1> QED
  BY <1>1, <1>3, <1>14, <1>15, <1>16, <1>17, <1>18, DispatchFollows DEF rest

\* A signal, of a stranger, of a service with items and of one without.
LEMMA ItemsChangedFollows ==
    ASSUME Inv, OrderInv, FollowInv, ItemsChanged PROVE FollowInv'
BY StrangerFollows, MappedChangeFollows, QueuedChangeFollows

----------------------------------------------------------------------------
(* What clients ask for, and the clock.                                    *)

\* Nothing that FollowInv is about changes.
LEMMA FollowUnchanged ==
    ASSUME FollowInv,
           UNCHANGED <<inbox, owner, spent, exported, value, calls, service_id_to_names,
                       async_handlers, dbus_service_items, delayed_changed_values>>
    PROVE  FollowInv'
BY DEF FollowInv

\* A request is sent to a service that has items.
LEMMA AskFollows ==
    ASSUME Inv, OrderInv, FollowInv, NEW s \in Services, Mapped(dbus_service_items, s),
           NEW call, NEW handler \in Handler, handler.service = s, handler.path = call.path,
           Ask(call, handler)
    PROVE  FollowInv'
<1> DEFINE items == dbus_service_items
           queue == delayed_changed_values
<1>1. PICK n \in Serials : /\ n \in FreeSerials
                           /\ calls' = [calls EXCEPT ![n] = call]
                           /\ async_handlers' = [async_handlers EXCEPT ![n] = handler]
  BY DEF Ask, NextSerial, call_method
<1>2. /\ inbox \in Seq(Message)
      /\ calls \in [Serials -> Call \cup {None}]
      /\ async_handlers \in [Serials -> Handler \cup {None}]
      /\ InboxSound(inbox, owner, calls, async_handlers) /\ CallsSound(calls, async_handlers)
  BY DEF Inv, BusTypeOK, HandlerInv, OrderInv
<1>3. Unused(inbox, n)
  BY <1>1, <1>2, FreeUnused DEF FreeSerials
<1>4. \A m \in Serials : Unused(inbox, m) \/ async_handlers'[m] = async_handlers[m]
  BY <1>1, <1>2, <1>3
<1>5. Grow(async_handlers, async_handlers', items, queue)
  BY <1>1, <1>2 DEF Grow, Followed
<1>6. UNCHANGED <<inbox, owner, spent, exported, value, service_id_to_names,
                  dbus_service_items, delayed_changed_values>>
  BY DEF Ask, Registry
<1>7. /\ Follows(inbox, owner, spent, exported, value, service_id_to_names, async_handlers,
                 items, queue)
      /\ InnerSound(async_handlers, items)
      /\ CallsMatch(calls, async_handlers)
  BY DEF FollowInv
<1>8. CallsMatch(calls', async_handlers')
  BY <1>1, <1>2, <1>7, StoredMatch
<1>9. /\ NewsSound(inbox, owner, value, async_handlers')
      /\ PathsSound(inbox, owner, exported, async_handlers')
      /\ QueuePaths(inbox, owner, exported, async_handlers', queue)
  BY <1>2, <1>4, <1>7, HandlersKeep DEF Follows
<1>10. /\ HeardSound(inbox, owner, service_id_to_names, async_handlers', items, queue)
       /\ InnerSound(async_handlers', items)
  BY <1>5, <1>7, Grown DEF Follows
<1>11. Follows(inbox, owner, spent, exported, value, service_id_to_names, async_handlers',
               items, queue)
  BY <1>7, <1>9, <1>10 DEF Follows
<1> QED
  BY <1>6, <1>8, <1>10, <1>11 DEF FollowInv

LEMMA ReadFollows ==
    ASSUME Inv, OrderInv, FollowInv, NEW type \in Types, NEW i \in Instances,
           NEW p \in ReadPaths, handle_read(type, i, p)
    PROVE  FollowInv'
<1> DEFINE s == FoundService(<<type, i, p>>)
           call == Sending("GetValue", s, p, FirstValue)
<1>1. s \in Services /\ p \in CallPaths /\ Mapped(dbus_service_items, s)
  BY FoundServiceTyped, RegistryAssumption DEF handle_read, Finds
<1>2. /\ Handling("get_value", s, p, TRUE) \in Handler
      /\ p \in Paths => Handling("read_item", s, p, FALSE) \in Handler
  BY <1>1, HandlingTyped
<1>3. /\ call.path = p
      /\ \A kind, force : /\ Handling(kind, s, p, force).service = s
                          /\ Handling(kind, s, p, force).path = p
  BY DEF Handling, Sending
<1>4. \/ p \in Paths /\ Ask(call, Handling("read_item", s, p, FALSE))
      \/ Ask(call, Handling("get_value", s, p, TRUE))
  BY DEF handle_read
<1> HIDE DEF s, call
<1> QED
  BY <1>1, <1>2, <1>3, <1>4, AskFollows

LEMMA WriteFollows ==
    ASSUME Inv, OrderInv, FollowInv, NEW t \in Topics, NEW v \in Values, write_to_dbus(t, v)
    PROVE  FollowInv'
<1> DEFINE s == FoundService(t)
           p == t[3]
           call == Sending("SetValue", s, p, v)
           handler == Handling("set_value", s, p, FALSE)
<1>1. t = <<t[1], t[2], t[3]>> /\ t[1] \in Types /\ t[2] \in Instances /\ p \in Paths
  BY DEF Topics
<1>2. s \in Services /\ Mapped(dbus_service_items, s)
  BY <1>1, FoundServiceTyped DEF write_to_dbus, Finds
<1>3. Ask(call, handler)
  BY DEF write_to_dbus
<1>4. handler \in Handler
  BY <1>1, <1>2, HandlingTyped
<1>5. handler.service = s /\ handler.path = call.path
  BY DEF Handling, Sending
<1> HIDE DEF s, call, handler
<1> QED
  BY <1>2, <1>3, <1>4, <1>5, AskFollows

\* Changes grow old from the front of the queue, and stay what they are.
LEMMA AgeFollows ==
    ASSUME Inv, FollowInv, NEW place \in 1 .. delayed_count, Age(place) PROVE FollowInv'
<1> DEFINE queue == delayed_changed_values
           aged(e) == [e EXCEPT !.old = @ \/ e.at < place]
           after == delayed_changed_values'
<1>1. queue \in SUBSET Queued /\ place \in Int
  BY DEF Inv, RegistryInv, RegistrySound, Sound, Now
<1>2. ASSUME NEW e \in queue
      PROVE  /\ aged(e).at = e.at /\ aged(e).service = e.service
             /\ aged(e).path = e.path /\ aged(e).value = e.value
             /\ aged(e).old = (e.old \/ e.at < place)
             /\ e.at \in Nat
  BY <1>1 DEF Queued
<1>3. after = {aged(e) : e \in queue}
  BY DEF Age
<1>4. UNCHANGED <<inbox, owner, spent, exported, value, calls, service_id_to_names,
                  async_handlers, dbus_service_items>>
  BY DEF Age, busVars
<1> HIDE DEF aged, after
<1>5. \A f \in after : \E e \in queue : f = aged(e)
  BY <1>3
<1>6. \A e \in queue : aged(e) \in after
  BY <1>3
<1>7. /\ QueuePaths(inbox, owner, exported, async_handlers, queue)
      /\ QueueSound(inbox, owner, value, queue)
      /\ HeardSound(inbox, owner, service_id_to_names, async_handlers,
                    dbus_service_items, queue)
  BY DEF FollowInv, Follows
<1>8. QueuePaths(inbox, owner, exported, async_handlers, after)
  BY <1>2, <1>5, <1>7 DEF QueuePaths
<1>9. QueueSound(inbox, owner, value, after)
  <2>1. \A f \in after : OwnerAt(inbox, owner, 1, f.service) # None
    BY <1>2, <1>5, <1>7 DEF QueueSound
  <2>2. ASSUME NEW e \in after, NEW f \in after, f.at <= e.at, e.old PROVE f.old
    <3>1. PICK d \in queue : e = aged(d)
      BY <1>5
    <3>2. PICK g \in queue : f = aged(g)
      BY <1>5
    <3>3. g.at <= d.at /\ (d.old \/ d.at < place) /\ g.at \in Nat /\ d.at \in Nat
      BY <1>2, <2>2, <3>1, <3>2
    <3>4. g.old \/ g.at < place
      BY <1>1, <1>7, <3>3 DEF QueueSound
    <3> QED
      BY <1>2, <3>2, <3>4
  <2>3. ASSUME NEW f \in after, f.path \notin Silent, LastQueued(after, f),
               ~News(inbox, owner, 1, f.service, f.path)
        PROVE  f.value = value[f.service][f.path]
    <3>1. PICK e \in queue : f = aged(e)
      BY <1>5
    <3>2. f.at = e.at /\ f.service = e.service /\ f.path = e.path /\ f.value = e.value
      BY <1>2, <3>1
    <3>3. LastQueued(queue, e)
      BY <1>2, <1>6, <2>3, <3>2 DEF LastQueued
    <3> QED
      BY <1>7, <2>3, <3>2, <3>3 DEF QueueSound
  <2> QED
    BY <2>1, <2>2, <2>3 DEF QueueSound
<1>10. HeardSound(inbox, owner, service_id_to_names, async_handlers, dbus_service_items, after)
  <2>1. \A s : Followed(async_handlers, dbus_service_items, after, s)
                  => Followed(async_handlers, dbus_service_items, queue, s)
    BY <1>2, <1>5 DEF Followed
  <2> QED
    BY <1>7, <2>1 DEF HeardSound
<1> QED
  BY <1>4, <1>8, <1>9, <1>10 DEF FollowInv, Follows, after

----------------------------------------------------------------------------
(* The theorems.                                                           *)

LEMMA InitFollows == Init => FollowInv
<1> SUFFICES ASSUME Init PROVE FollowInv
  OBVIOUS
<1>1. inbox = <<>> /\ DOMAIN inbox = {}
  BY DEF Init, BusInit
<1>2. /\ NewsSound(inbox, owner, value, async_handlers)
      /\ PathsSound(inbox, owner, exported, async_handlers)
  BY <1>1 DEF NewsSound, PathsSound
<1>3. OwnersSound(inbox, owner, spent)
  <2>1. \A i, s : OwnerAt(inbox, owner, i, s) = owner[s]
    BY <1>1 DEF OwnerAt, ChangesFrom
  <2>2. ASSUME NEW s \in Services, owner[s] # None
        PROVE  owner[s] \in spent /\ \A t \in Services : owner[t] = owner[s] => t = s
    BY <2>2 DEF Init, BusInit
  <2> QED
    BY <1>1, <2>1, <2>2 DEF OwnersSound
<1>4. /\ delayed_changed_values = {}
      /\ \A s \in Services, p \in Paths : dbus_service_items[s][p] = Absent
  BY DEF Init
<1>5. /\ QueuePaths(inbox, owner, exported, async_handlers, delayed_changed_values)
      /\ QueueSound(inbox, owner, value, delayed_changed_values)
      /\ CacheSound(inbox, owner, value, dbus_service_items)
  BY <1>4 DEF QueuePaths, QueueSound, CacheSound
<1> DEFINE first == Handling("list_names", None, Root, FALSE)
           call == Sending("ListNames", None, Root, FirstValue)
<1>6. /\ first.kind = "list_names" /\ first.path = Root /\ call.path = Root
      /\ first \in Handler
  BY DEF Handling, Sending, Handler
<1>7. \A n \in Serials : \/ async_handlers[n] = None /\ calls[n] = None
                         \/ async_handlers[n] = first /\ calls[n] = call
  BY DEF Init
<1> HIDE DEF first, call
<1>8. HeardSound(inbox, owner, service_id_to_names, async_handlers, dbus_service_items,
                 delayed_changed_values)
  BY <1>4, <1>6, <1>7 DEF HeardSound, Followed, Mapped
<1>9. InnerSound(async_handlers, dbus_service_items)
  BY <1>6, <1>7, BusAssumption DEF InnerSound, Inner
<1>10. CallsMatch(calls, async_handlers)
  BY <1>6, <1>7, HandlerAssumption DEF CallsMatch
<1> QED
  BY <1>2, <1>3, <1>5, <1>8, <1>9, <1>10 DEF FollowInv, Follows

\* A step that leaves nothing behind.
QuietNext == Bus \/ QuietDispatch \/ Clients \/ Clock

LEMMA NextFollows == Inv /\ OrderInv /\ FollowInv /\ [QuietNext]_vars => FollowInv'
<1> SUFFICES ASSUME Inv, OrderInv, FollowInv, [QuietNext]_vars PROVE FollowInv'
  OBVIOUS
<1>1. CASE Bus
  BY <1>1, BusFollows
<1>2. CASE QuietDispatch
  <2>1. ServiceDisappeared => LeavesNothing(Head(inbox).name)
    BY <1>2 DEF QuietDispatch, ServiceDisappeared, Receive
  <2> QED
    BY <1>2, <2>1, ServiceAppearedFollows, ServiceDisappearedFollows, ItemsChangedFollows,
       ListNamesReplyFollows, NameOwnerReplyFollows, GetItemsUnknownMethodFollows,
       ItemsRepliedFollows, ReadReplyFollows, ReplyWithoutEffectFollows
    DEF QuietDispatch, Dispatch
<1>3. CASE Clients
  <2>1. ASSUME NEW publish_all, handle_keepalive(publish_all) PROVE FollowInv'
    BY <2>1, FollowUnchanged DEF handle_keepalive, busVars
  <2> QED
    BY <1>3, <2>1, ReadFollows, WriteFollows DEF Clients
<1>4. CASE Clock
  <2>1. ASSUME unset_keepalive PROVE FollowInv'
    BY <2>1, FollowUnchanged DEF unset_keepalive, busVars, Registry
  <2> QED
    BY <1>4, <2>1, AgeFollows DEF Clock
<1>5. CASE UNCHANGED vars
  BY <1>5, FollowUnchanged DEF vars, busVars, registryVars
<1> QED
  BY <1>1, <1>2, <1>3, <1>4, <1>5 DEF QuietNext

LEMMA QuietInv == QuietSpec => [](Inv /\ OrderInv /\ FollowInv)
<1>1. Init => Inv /\ OrderInv /\ FollowInv
  BY InitInv, InitOrder, InitFollows
<1>2. [QuietNext]_vars => [Next]_vars
  BY DEF QuietNext, QuietDispatch, Next
<1>3. Inv /\ OrderInv /\ FollowInv /\ [QuietNext]_vars => (Inv /\ OrderInv /\ FollowInv)'
  BY <1>2, NextInv, NextOrder, NextFollows
<1> QED
  BY <1>1, <1>3, PTL DEF QuietSpec, QuietNext

\* When nothing unread concerns a service that is on the bus, there is no news of it.
LEMMA FollowedCache ==
    ASSUME Inv, FollowInv PROVE CacheFollowsService
<1> SUFFICES ASSUME NEW s \in Services, NEW p \in Paths \ Silent, Settled(s), owner[s] # None,
                    dbus_service_items[s][p] # Absent
             PROVE  dbus_service_items[s][p].value = value[s][p]
  BY DEF CacheFollowsService
<1>1. ~News(inbox, owner, 1, s, p)
  BY DEF Settled, News, IsNews, IsChange
<1> QED
  BY <1>1 DEF FollowInv, Follows, CacheSound

\* No step loses a queued change, if a departing service leaves nothing behind.
LEMMA NextApplies ==
    ASSUME Inv, OrderInv, FollowInv, [QuietNext]_vars
    PROVE  \A e \in delayed_changed_values :
              Accounted(e, delayed_changed_values', dbus_service_items')
<1> DEFINE queue == delayed_changed_values
           items == dbus_service_items
           AllAccounted == \A e \in queue :
                              Accounted(e, delayed_changed_values', dbus_service_items')
<1>1. /\ queue \in SUBSET Queued /\ items \in ItemStore /\ RegistryInv
      /\ OnlyUnknown(queue, items)
  BY DEF Inv, RegistryInv, RegistrySound, Sound, Now
<1>2. CASE queue \subseteq delayed_changed_values'
  BY <1>2 DEF Accounted
<1>3. CASE Fresh(queue) \subseteq delayed_changed_values'
  BY <1>3 DEF Accounted, Fresh
<1>4. CASE ServiceAppeared \/ ServiceDisappeared
  <2>1. delayed_changed_values' = Attempted.queue
    BY <1>4 DEF ServiceAppeared, ServiceDisappeared, remove_dbus_service, WithoutItems, Become
  <2> QED
    BY <1>1, <1>3, <2>1, AttemptedIs
<1>5. CASE ItemsChanged
  <2> DEFINE s == service_id_to_names[Head(inbox).sender]
             p == Head(inbox).path
             v == Head(inbox).value
             fresh == Fresh(queue)
  <2>1. Attempted.items = items /\ Attempted.queue = fresh
    BY <1>1, AttemptedIs
  <2>2. CASE s = None
    BY <1>3, <1>5, <2>1, <2>2 DEF ItemsChanged, Become
  <2>3. CASE s # None /\ ~Mapped(items, s)
    <3>1. QueueChange(Attempted, s, p, v)
      BY <1>5, <2>1, <2>3 DEF ItemsChanged, MapChange
    <3>2. fresh \subseteq delayed_changed_values'
      BY <2>1, <3>1 DEF QueueChange
    <3> QED
      BY <1>3, <3>2
  <2>4. CASE s # None /\ Mapped(items, s)
    <3>1. MapItems(Attempted, s, OnlyItem(p, v), FALSE)
      BY <1>5, <2>1, <2>4 DEF ItemsChanged, MapChange
    <3>2. inbox # <<>> /\ Head(inbox).type = "ItemsChanged"
      BY <1>5 DEF ItemsChanged, Receive
    <3>3. p \in Paths /\ v \in Values /\ s \in Services
      BY <2>4, <3>2, SignalIs, KnownSender
    <3>4. OnlyItem(p, v) \in ItemMap
      BY <3>3 DEF OnlyItem, ItemMap
    <3>5. fresh \in SUBSET Queued /\ OnlyUnknown(fresh, items)
      BY <1>1 DEF Fresh, OnlyUnknown
    <3>6. Attempted = Now(fresh, items, Attempted.view)
      BY <1>1, <2>1, AttemptedSound
    <3> DEFINE view == Attempted.view
               new == OnlyItem(p, v)
               force == FALSE
    <3> HIDE DEF view, new, s, fresh
    <3>7. MapItems(Now(fresh, items, view), s, new, force)
      BY <3>1, <3>6 DEF view, new, s, fresh
    <3> HIDE DEF force
    <3>8. \A e \in fresh : Accounted(e, delayed_changed_values', dbus_service_items')
      BY <1>1, <2>4, <3>3, <3>4, <3>5, <3>7, MapItemsApplies DEF new
    <3> QED
      BY <3>8 DEF Accounted, Fresh, fresh
  <2> QED
    BY <2>2, <2>3, <2>4
<1>6. CASE ItemsReplied
  <2> DEFINE s == TheHandler.service
             new == Head(inbox).items
             force == TheHandler.force
  <2>1. MapItems(Now(queue, items, mqtt), s, new, force)
    BY <1>6 DEF ItemsReplied, Now
  <2>2. /\ s \in Services /\ new \in ItemMap
        /\ Mapped(items, s) \/ \A e \in queue : e.service = s => new[e.path] # Absent
    BY <1>6, ReplyMatches
  <2> HIDE DEF s, new, force
  <2> QED
    BY <1>1, <2>1, <2>2, MapItemsApplies
<1>7. CASE Clock
  <2>1. CASE unset_keepalive
    BY <1>2, <2>1 DEF unset_keepalive, Registry
  <2>2. ASSUME NEW place \in 1 .. delayed_count, Age(place) PROVE AllAccounted
    <3>1. delayed_changed_values' = {[e EXCEPT !.old = @ \/ e.at < place] : e \in queue}
      BY <2>2 DEF Age
    <3> SUFFICES ASSUME NEW e \in queue, ~e.old
                 PROVE  Accounted(e, delayed_changed_values', dbus_service_items')
      BY DEF Accounted
    <3>2. [e EXCEPT !.old = e.old \/ e.at < place] \in delayed_changed_values'
      BY <3>1
    <3>3. CASE e.at < place
      BY <3>2, <3>3 DEF Accounted
    <3>4. CASE ~(e.at < place)
      <4>1. [e EXCEPT !.old = e.old] = e
        BY <1>1 DEF Queued
      <4>2. (e.old \/ e.at < place) = e.old
        BY <1>1, <3>4 DEF Queued
      <4> QED
        BY <3>2, <4>1, <4>2 DEF Accounted
    <3> QED
      BY <3>3, <3>4
  <2> QED
    BY <1>7, <2>1, <2>2 DEF Clock
<1>8. CASE Bus \/ Clients \/ UNCHANGED vars
  <2>1. UNCHANGED delayed_changed_values
    BY <1>8 DEF Bus, Clients, handle_read, write_to_dbus, handle_keepalive, Ask, Registry,
       registryVars, vars
  <2> QED
    BY <1>2, <2>1
<1>9. CASE \/ ListNamesReply \/ NameOwnerReply \/ GetItemsUnknownMethod
           \/ ReadReply \/ ReplyWithoutEffect
  <2>1. UNCHANGED delayed_changed_values
    BY <1>9 DEF ListNamesReply, NameOwnerReply, GetItemsUnknownMethod, ReadReply,
       ReplyWithoutEffect, Registry
  <2> QED
    BY <1>2, <2>1
<1> QED
  BY <1>4, <1>5, <1>6, <1>7, <1>8, <1>9 DEF QuietNext, QuietDispatch, Dispatch

\* No change is lost and none is applied out of order, for any number of
\* services, restarts, paths and calls under way: with nothing unread, the cache
\* holds the value that the service has (dbus_handle_message, get_items_handler,
\* get_value_handler, add_dbus_to_mqtt_mapping,
\* attempt_to_process_delayed_changes).  This needs that nothing an incarnation
\* has left behind is applied to the next one: StaleChange shows what a queued
\* change does, and the answer to an open read of an inner object maps a part of
\* the items, so that the loop over the queue throws.
THEOREM QuietCacheFollows == QuietSpec => []CacheFollowsService
BY QuietInv, FollowedCache, PTL

\* Nor does anything leave the queue of early changes but by age or by being
\* applied to its item: no entry of another service makes
\* find_matching_active_item throw and takes the rest of the queue along
\* (attempt_to_process_delayed_changes, add_dbus_to_mqtt_mapping).
THEOREM QuietQueueApplied == QuietSpec => QueuedChangeApplied
<1>1. Inv /\ OrderInv /\ FollowInv /\ [QuietNext]_vars
         => \A e \in delayed_changed_values :
               \/ e.old
               \/ e \in delayed_changed_values'
               \/ [e EXCEPT !.old = TRUE] \in delayed_changed_values'
               \/ dbus_service_items'[e.service][e.path] # Absent
  BY NextApplies DEF Accounted
<1> QED
  BY <1>1, QuietInv, PTL DEF QuietSpec, QuietNext, QueuedChangeApplied

\* No departure is under way.
NoDeparture(box) ==
    \A i \in DOMAIN box : box[i].type = "NameOwnerChanged" => box[i].new # None

LEMMA NoDepartureAppended ==
    ASSUME NEW box \in Seq(Message), NEW m \in Message, NoDeparture(box),
           m.type = "NameOwnerChanged" => m.new # None
    PROVE  NoDeparture(Append(box, m)) /\ Append(box, m) \in Seq(Message)
<1>1. /\ Append(box, m) \in Seq(Message) /\ Len(Append(box, m)) = Len(box) + 1
      /\ Append(box, m)[Len(box) + 1] = m
      /\ \A i \in 1 .. Len(box) : Append(box, m)[i] = box[i]
  BY AppendProperties
<1> QED
  BY <1>1 DEF NoDeparture

LEMMA BusDeparts ==
    ASSUME Mortal = {}, Inv, NoDeparture(inbox), Bus
    PROVE  NoDeparture(inbox')
<1>1. inbox \in Seq(Message) /\ owner \in [Services -> Owners \cup {None}]
  BY DEF Inv, BusTypeOK
<1>2. ASSUME NEW s \in Services, NEW o \in Owners, Appear(s, o) PROVE NoDeparture(inbox')
  <2> DEFINE m == [type |-> "NameOwnerChanged", name |-> s, old |-> None, new |-> o]
  <2>1. m \in Message /\ m.new # None /\ inbox' = Append(inbox, m)
    BY <1>2, BusAssumption DEF Appear, Message, OwnerChange
  <2> HIDE DEF m
  <2> QED
    BY <1>1, <2>1, NoDepartureAppended
<1>3. ASSUME NEW s \in Services, NEW p \in Paths, NEW v \in Values, Change(s, p, v)
      PROVE  NoDeparture(inbox')
  <2>1. Signal(s, p, v) \in Message /\ Signal(s, p, v).type = "ItemsChanged"
    BY <1>1, <1>3 DEF Change, Signal, Message, ItemChange
  <2>2. inbox' = inbox \/ inbox' = Append(inbox, Signal(s, p, v))
    BY <1>3 DEF Change
  <2> QED
    BY <1>1, <2>1, <2>2, NoDepartureAppended
<1>4. ASSUME NEW n \in Serials, BusAnswer(n) PROVE NoDeparture(inbox')
  <2>1. PICK before, reply : AnswerOf(n, before, reply)
    BY <1>4, BusAnswerIs DEF Inv
  <2>2. inbox' = Append(inbox \o before, reply) /\ reply \in Message
        /\ reply.type # "NameOwnerChanged"
    BY <2>1 DEF AnswerOf, Answer, Message, Reply, NamesReply, OwnerReply, ItemsReply,
                LeafReply, DoneReply, ErrorReply
  <2>3. inbox \o before \in Seq(Message) /\ NoDeparture(inbox \o before)
    <3>1. CASE before = <<>>
      BY <1>1, <3>1, ConcatEmptySeq
    <3>2. CASE \E m \in ItemChange : before = <<m>>
      <4>1. PICK m \in ItemChange : before = <<m>>
        BY <3>2
      <4>2. m \in Message /\ m.type # "NameOwnerChanged"
        BY DEF Message, ItemChange
      <4>3. inbox \o before = Append(inbox, m)
        BY <1>1, <4>1, <4>2, AppendIsConcat
      <4> QED
        BY <1>1, <4>2, <4>3, NoDepartureAppended
    <3> QED
      BY <2>1, <3>1, <3>2 DEF AnswerOf
  <2> DEFINE box == inbox \o before
  <2> HIDE DEF box
  <2>4. box \in Seq(Message) /\ NoDeparture(box) /\ inbox' = Append(box, reply)
    BY <2>2, <2>3 DEF box
  <2> QED
    BY <2>2, <2>4, NoDepartureAppended
<1>5. ASSUME NEW s \in Services, NEW p \in Paths, AddPath(s, p) PROVE NoDeparture(inbox')
  BY <1>5 DEF AddPath
<1>6. \A s : ~Vanish(s)
  BY DEF Vanish
<1> QED
  BY <1>2, <1>3, <1>4, <1>5, <1>6 DEF Bus

\* A service that does not leave the bus has nothing to leave behind.
LEMMA ImmortalIsQuiet ==
    ASSUME Mortal = {}
    PROVE  Spec => QuietSpec
<1> DEFINE Stays == Inv /\ NoDeparture(inbox)
<1>1. Init => Stays
  <2>1. Init => NoDeparture(inbox)
    BY DEF Init, BusInit, NoDeparture
  <2> QED
    BY <2>1, InitInv
<1>2. Stays /\ [Next]_vars => Stays' /\ [QuietNext]_vars
  <2> SUFFICES ASSUME Stays, [Next]_vars PROVE Stays' /\ [QuietNext]_vars
    OBVIOUS
  <2>1. NoDeparture(inbox')
    <3>1. CASE Bus
      BY <3>1, BusDeparts
    <3>2. CASE Dispatch
      <4>1. inbox \in Seq(Message) /\ inbox # <<>> /\ inbox' = Tail(inbox)
        BY <3>2 DEF Inv, BusTypeOK, Dispatch, ServiceAppeared, ServiceDisappeared, ItemsChanged,
           Receive, ListNamesReply, NameOwnerReply, GetItemsUnknownMethod, ItemsReplied,
           ReadReply, ReplyWithoutEffect, ReplyTo
      <4>2. /\ DOMAIN Tail(inbox) = 1 .. Len(inbox) - 1 /\ DOMAIN inbox = 1 .. Len(inbox)
            /\ Len(inbox) \in Nat /\ \A j \in DOMAIN Tail(inbox) : Tail(inbox)[j] = inbox[j + 1]
        BY <4>1, HeadTailProperties
      <4> QED
        BY <4>1, <4>2 DEF NoDeparture
    <3>3. CASE Clients \/ Clock \/ UNCHANGED vars
      <4>1. UNCHANGED inbox
        BY <3>3 DEF Clients, Clock, handle_read, write_to_dbus, handle_keepalive, Ask,
           unset_keepalive, Age, vars, busVars
      <4> QED
        BY <4>1
    <3> QED
      BY <3>1, <3>2, <3>3 DEF Next
  <2>2. [QuietNext]_vars
    <3>1. inbox # <<>> => /\ Head(inbox) = inbox[1] /\ 1 \in DOMAIN inbox
      BY HeadTailProperties DEF Inv, BusTypeOK
    <3>2. Dispatch => inbox # <<>>
      BY DEF Dispatch, ServiceAppeared, ServiceDisappeared, ItemsChanged,
         Receive, ListNamesReply, NameOwnerReply, GetItemsUnknownMethod, ItemsReplied,
         ReadReply, ReplyWithoutEffect, ReplyTo
    <3>3. Dispatch => QuietDispatch
      BY <3>1, <3>2 DEF QuietDispatch, NoDeparture
    <3> QED
      BY <3>3 DEF QuietNext, Next
  <2> QED
    BY <2>1, <2>2, NextInv
<1> QED
  BY <1>1, <1>2, PTL DEF Spec, QuietSpec, QuietNext

\* As long as no service leaves the bus the cache follows every service without
\* any condition: whatever is still under way when a service comes, and however
\* long its changes wait for its first items, what is told last is what the
\* cache holds (the same handlers; attempt_to_process_delayed_changes drops only
\* what a later answer has overtaken).
THEOREM ImmortalCacheFollows ==
    ASSUME Mortal = {}
    PROVE  Spec => []CacheFollowsService
BY ImmortalIsQuiet, QuietCacheFollows, PTL

\* And no change that is not old leaves the queue without its item: the loop over
\* the queue never throws (attempt_to_process_delayed_changes).
THEOREM ImmortalQueueApplied ==
    ASSUME Mortal = {}
    PROVE  Spec => QueuedChangeApplied
BY ImmortalIsQuiet, QuietQueueApplied, PTL

----------------------------------------------------------------------------
(* The topics.  What MQTT clients see of the services: no topic outlives   *)
(* its device, and, as long as no two services share a short name, every   *)
(* topic shows the value in the cache and leads back to its service.       *)
(*                                                                         *)
(* Each invariant is about the items and the view of the topics together   *)
(* (NoGhost, TopicsFollow) or about the two maps of names (NamesLead).     *)
(* The handlers compute them in several steps, so the lemmas are about     *)
(* those steps, one after the other: working off the queue, mapping items  *)
(* and publishing them, removing a service, storing the answer to a read.  *)


\* Some item publishes on t.
Shown(items, t) ==
    \E s \in Services, p \in Paths : items[s][p] # Absent /\ Topic(items, s, p) = t

\* NoGhostTopic, of any items and view; and what is blocked shows nothing.
NoGhost(items, view) ==
    \A t \in Topics : view[t] \in Values => ~Blocked(t) /\ (Retained(t) \/ Shown(items, t))

\* The topics show the items.
TopicsFollow(items, view) ==
    \A s \in Services, p \in Paths :
        items[s][p] # Absent /\ ~Blocked(Topic(items, s, p))
           => view[Topic(items, s, p)] = items[s][p].value

\* No two services are registered under one short name.
Apart(instances) ==
    \A s, t \in Services :
        s # t /\ instances[s] # None /\ instances[t] # None
           => ShortName(s, instances[s]) # ShortName(t, instances[t])

ShortNamesApart == Apart(service_names_to_instance)

\* The short name of every service leads to it.
NamesLead(names, instances) ==
    \A s \in Services : instances[s] # None => names[ShortName(s, instances[s])] = s

----------------------------------------------------------------------------
(* Topics and payloads.                                                    *)

\* The topic of an item is one.
LEMMA TopicTyped ==
    ASSUME NEW items \in ItemStore, NEW s \in Services, NEW p \in Paths, items[s][p] # Absent
    PROVE  /\ Topic(items, s, p) \in Topics
           /\ items[s][p].value \in Values /\ items[s][p].instance \in Instances
<1>1. items[s][p] \in Item
  BY DEF ItemStore
<1> QED
  BY <1>1, RegistryAssumption DEF Item, Topic, Topics

\* Items have one topic each, if the short names are apart.
LEMMA TopicsApart ==
    ASSUME NEW items \in ItemStore, NEW instances,
           Agreeing(items, instances), Apart(instances),
           NEW s \in Services, NEW p \in Paths, items[s][p] # Absent,
           NEW t \in Services, NEW q \in Paths, items[t][q] # Absent,
           Topic(items, s, p) = Topic(items, t, q)
    PROVE  s = t /\ p = q
<1>1. /\ instances[s] = items[s][p].instance /\ instances[s] # None
      /\ instances[t] = items[t][q].instance /\ instances[t] # None
  BY TopicTyped, RegistryAssumption DEF Agreeing
<1>2. ShortName(s, instances[s]) = ShortName(t, instances[t]) /\ p = q
  BY <1>1 DEF Topic, ShortName
<1> QED
  BY <1>1, <1>2 DEF Apart

\* Publishing empty payloads, or for items, makes no ghost.
LEMMA PublishNoGhost ==
    ASSUME NEW items, NEW view, NEW payloads, NoGhost(items, view),
           \A t \in DOMAIN payloads : payloads[t] \in Values => Shown(items, t)
    PROVE  NoGhost(items, Publish(view, payloads))
BY DEF NoGhost, Publish

\* An item that is applied is one of a service that is mapped: a change that
\* matches none ends the loop before it.
LEMMA AppliedAreItems ==
    ASSUME NEW queue \in SUBSET Queued, NEW items, NEW e \in Applied(queue, items)
    PROVE  /\ e \in queue /\ e.service \in Services /\ e.path \in Paths
           /\ items[e.service][e.path] # Absent
<1>1. e \in queue /\ ~e.old /\ Mapped(items, e.service)
      /\ \A u \in Unmatched(queue, items) : e.at < u.at
  BY DEF Applied, Reached
<1>2. e.at \in Nat /\ e.service \in Services /\ e.path \in Paths
  BY <1>1 DEF Queued
<1>3. e \notin Unmatched(queue, items)
  BY <1>1, <1>2
<1> QED
  BY <1>1, <1>2, <1>3 DEF Unmatched

----------------------------------------------------------------------------
(* Working off the queue.                                                  *)

LEMMA SameTopics ==
    ASSUME NEW queue \in SUBSET Queued, NEW items \in ItemStore,
           NEW s \in Services, NEW p \in Paths
    PROVE  LET after == ItemsAfter(queue, items)
           IN  /\ after[s][p] # Absent <=> items[s][p] # Absent
               /\ items[s][p] # Absent => Topic(after, s, p) = Topic(items, s, p)
BY ItemsAfterSound DEF Topic

LEMMA AttemptNoGhost ==
    ASSUME NEW queue \in SUBSET Queued, NEW items \in ItemStore, NEW view,
           NoGhost(items, view)
    PROVE  LET now == attempt_to_process_delayed_changes(queue, items, view)
           IN  NoGhost(now.items, now.view)
<1> DEFINE after == ItemsAfter(queue, items)
           sent == IF alive THEN Publish(view, Sent(queue, items)) ELSE view
<1>1. NoGhost(items, sent)
  <2>1. ASSUME NEW t \in DOMAIN Sent(queue, items) PROVE Shown(items, t)
    <3>1. PICK e \in Applied(queue, items) : t = Topic(items, e.service, e.path)
      BY <2>1 DEF Sent
    <3> QED
      BY <3>1, AppliedAreItems DEF Shown
  <2> QED
    BY <2>1, PublishNoGhost
<1>2. ASSUME NEW t, Shown(items, t) PROVE Shown(after, t)
  BY <1>2, SameTopics DEF Shown
<1>3. NoGhost(after, sent)
  BY <1>1, <1>2 DEF NoGhost
<1> QED
  BY <1>3 DEF attempt_to_process_delayed_changes

LEMMA AttemptFollows ==
    ASSUME NEW queue \in SUBSET Queued, NEW items \in ItemStore, NEW view, NEW instances,
           NEW count \in Nat, Bounded(queue, count),
           Agreeing(items, instances), Apart(instances),
           alive, TopicsFollow(items, view)
    PROVE  LET now == attempt_to_process_delayed_changes(queue, items, view)
           IN  TopicsFollow(now.items, now.view)
<1> DEFINE after == ItemsAfter(queue, items)
           sent == Publish(view, Sent(queue, items))
<1>1. SUFFICES TopicsFollow(after, sent)
  BY DEF attempt_to_process_delayed_changes
<1> SUFFICES ASSUME NEW s \in Services, NEW p \in Paths,
                    after[s][p] # Absent, ~Blocked(Topic(after, s, p))
             PROVE  sent[Topic(after, s, p)] = after[s][p].value
  BY DEF TopicsFollow
<1> DEFINE t == Topic(items, s, p)
           here == {e \in Applied(queue, items) : e.service = s /\ e.path = p}
           on == {f \in Applied(queue, items) : Topic(items, f.service, f.path) = t}
<1>2. items[s][p] # Absent /\ Topic(after, s, p) = t /\ ~Blocked(t)
  BY SameTopics
<1>3. t \in Topics /\ items[s][p] \in Item
  BY <1>2, TopicTyped DEF ItemStore
<1>4. on = here
  <2>1. ASSUME NEW e \in on PROVE e \in here
    BY <1>2, AppliedAreItems, TopicsApart
  <2>2. here \subseteq on
    OBVIOUS
  <2> QED
    BY <2>1, <2>2
<1>5. /\ after[s][p] = IF LastOf(here) = {} THEN items[s][p]
                       ELSE [items[s][p] EXCEPT !.value = (CHOOSE e \in LastOf(here) : TRUE).value]
      /\ t \in DOMAIN Sent(queue, items) <=> on # {}
      /\ on # {} => Sent(queue, items)[t] = (CHOOSE e \in LastOf(on) : TRUE).value
  <2>1. after[s][p] = IF LastOf(here) = {} THEN items[s][p]
                      ELSE [items[s][p] EXCEPT !.value = (CHOOSE e \in LastOf(here) : TRUE).value]
    BY <1>2 DEF ItemsAfter
  <2>2. t \in DOMAIN Sent(queue, items) <=> on # {}
    BY DEF Sent
  <2>3. on # {} => Sent(queue, items)[t] = (CHOOSE e \in LastOf(on) : TRUE).value
    BY DEF Sent
  <2> QED
    BY <2>1, <2>2, <2>3
<1>6. CASE here = {}
  <2>1. LastOf(here) = {}
    BY <1>6 DEF LastOf
  <2>2. after[s][p] = items[s][p] /\ t \notin DOMAIN Sent(queue, items)
    BY <1>4, <1>5, <1>6, <2>1
  <2>3. sent[t] = view[t]
    BY <1>3, <2>2 DEF Publish
  <2> QED
    BY <1>2, <2>2, <2>3 DEF TopicsFollow
<1>7. CASE here # {}
  <2>1. here \in SUBSET Queued /\ Bounded(here, count)
    BY AppliedAreItems DEF Bounded
  <2> HIDE DEF here, on, t, after
  <2>2. LastOf(here) # {}
    BY <1>7, <2>1, LastOfNonempty
  <2> DEFINE v == (CHOOSE e \in LastOf(here) : TRUE).value
  <2>3. t \in DOMAIN Sent(queue, items) /\ Sent(queue, items)[t] = v
    BY <1>4, <1>5, <1>7
  <2>4. v \in Values /\ v # Null
    BY <2>3, SentTyped, RegistryAssumption
  <2>5. sent[t] = v
    BY <1>2, <1>3, <2>3, <2>4 DEF Publish
  <2>6. after[s][p] = [items[s][p] EXCEPT !.value = v]
    BY <1>5, <2>2
  <2> HIDE DEF v
  <2>7. after[s][p].value = v
    BY <1>3, <2>6 DEF Item
  <2> QED
    BY <1>2, <2>5, <2>7
<1> QED
  BY <1>6, <1>7

----------------------------------------------------------------------------
(* Mapping items and publishing them.                                      *)

\* An item that is mapped again keeps its topic.
LEMMA MapItemsNoGhost ==
    ASSUME NEW queue, NEW all, NEW view, NEW s \in Services, NEW items \in ItemMap, NEW force,
           RegistryInv,
           Sound(Now(queue, all, view), delayed_count, service_names_to_instance),
           MapItems(Now(queue, all, view), s, items, force),
           NoGhost(all, view)
    PROVE  NoGhost(dbus_service_items', mqtt')
<1> DEFINE i == InstanceOf(s, items)
           instances == [service_names_to_instance EXCEPT ![s] = i]
           mapped == WithItems(all, s, i, items)
           sent == MappingPublishes(s, i, items, force)
           now == attempt_to_process_delayed_changes(queue, mapped, Publish(view, sent))
<1>1. /\ service_names_to_instance \in InstanceMap /\ all \in ItemStore
      /\ queue \in SUBSET Queued /\ Agreeing(all, service_names_to_instance)
  BY DEF RegistryInv, RegistrySound, Sound, Now
<1>2. i \in Instances /\ (service_names_to_instance[s] # None => i = service_names_to_instance[s])
  BY <1>1, InstanceOfTyped
<1>3. dbus_service_items' = now.items /\ mqtt' = now.view
  BY DEF MapItems, Now, Become
<1> HIDE DEF i
<1>4. /\ mapped \in ItemStore /\ Agreeing(mapped, instances)
      /\ \A t \in Services, p \in Paths :
            mapped[t][p] = IF t = s /\ items[p] # Absent
                           THEN [value |-> items[p], instance |-> i] ELSE all[t][p]
  BY <1>1, <1>2, WithItemsSound
<1>5. ASSUME NEW t, Shown(all, t) PROVE Shown(mapped, t)
  <2>1. PICK u \in Services, p \in Paths : all[u][p] # Absent /\ Topic(all, u, p) = t
    BY <1>5 DEF Shown
  <2> HIDE DEF mapped
  <2>2. all[u][p].instance = service_names_to_instance[u] /\ all[u][p].instance # None
    BY <1>1, <2>1, TopicTyped, RegistryAssumption DEF Agreeing
  <2>3. CASE u = s /\ items[p] # Absent
    <3>1. mapped[u][p] = [value |-> items[p], instance |-> i] /\ mapped[u][p] # Absent
      BY <1>2, <1>4, <2>3, RegistryAssumption DEF ItemMap
    <3>2. Topic(mapped, u, p) = t
      BY <1>2, <2>1, <2>2, <2>3, <3>1 DEF Topic
    <3> QED
      BY <3>1, <3>2 DEF Shown
  <2>4. CASE ~(u = s /\ items[p] # Absent)
    BY <1>4, <2>1, <2>4 DEF Shown, Topic
  <2> QED
    BY <2>3, <2>4
<1>6. ASSUME NEW t \in DOMAIN sent PROVE Shown(mapped, t)
  <2>1. PICK p \in Paths : items[p] # Absent /\ t = <<ServiceType[s], i, p>>
    BY <1>6 DEF MappingPublishes
  <2> HIDE DEF mapped
  <2>2. mapped[s][p] = [value |-> items[p], instance |-> i] /\ mapped[s][p] # Absent
    BY <1>2, <1>4, <2>1, RegistryAssumption DEF ItemMap
  <2>3. Topic(mapped, s, p) = t
    BY <2>1, <2>2 DEF Topic
  <2> QED
    BY <2>2, <2>3 DEF Shown
<1> HIDE DEF mapped, sent
<1>7. NoGhost(mapped, view)
  BY <1>5 DEF NoGhost
<1>8. NoGhost(mapped, Publish(view, sent))
  BY <1>6, <1>7, PublishNoGhost
<1> QED
  BY <1>1, <1>3, <1>4, <1>8, AttemptNoGhost

LEMMA MapItemsShow ==
    ASSUME NEW queue, NEW all, NEW view, NEW s \in Services, NEW items \in ItemMap, NEW force,
           RegistryInv, Apart(service_names_to_instance'),
           Sound(Now(queue, all, view), delayed_count, service_names_to_instance),
           MapItems(Now(queue, all, view), s, items, force),
           alive, TopicsFollow(all, view)
    PROVE  TopicsFollow(dbus_service_items', mqtt')
<1> DEFINE i == InstanceOf(s, items)
           instances == [service_names_to_instance EXCEPT ![s] = i]
           mapped == WithItems(all, s, i, items)
           sent == MappingPublishes(s, i, items, force)
           now == attempt_to_process_delayed_changes(queue, mapped, Publish(view, sent))
<1>1. /\ service_names_to_instance \in InstanceMap /\ all \in ItemStore
      /\ queue \in SUBSET Queued /\ Agreeing(all, service_names_to_instance)
      /\ delayed_count \in Nat /\ Bounded(queue, delayed_count)
  BY DEF RegistryInv, RegistrySound, Sound, Now
<1>2. i \in Instances /\ (service_names_to_instance[s] # None => i = service_names_to_instance[s])
  BY <1>1, InstanceOfTyped
<1>3. /\ dbus_service_items' = now.items /\ mqtt' = now.view
      /\ service_names_to_instance' = instances
  BY DEF MapItems, Now, Become
<1> HIDE DEF i
<1>4. /\ mapped \in ItemStore /\ Agreeing(mapped, instances)
      /\ \A t \in Services, p \in Paths :
            mapped[t][p] = IF t = s /\ items[p] # Absent
                           THEN [value |-> items[p], instance |-> i] ELSE all[t][p]
  BY <1>1, <1>2, WithItemsSound
<1>5. Apart(instances)
  BY <1>3
<1>6. ASSUME NEW p \in Paths, items[p] # Absent
      PROVE  /\ mapped[s][p] = [value |-> items[p], instance |-> i] /\ mapped[s][p] # Absent
             /\ items[p] \in Values /\ items[p] # Null
             /\ Topic(mapped, s, p) = <<ServiceType[s], i, p>>
  <2> HIDE DEF mapped
  <2>1. mapped[s][p] = [value |-> items[p], instance |-> i] /\ items[p] \in Values
    BY <1>4, <1>6 DEF ItemMap
  <2>2. mapped[s][p] # Absent /\ items[p] # Null
    BY <1>2, <2>1, RegistryAssumption
  <2> QED
    BY <2>1, <2>2 DEF Topic
<1>7. /\ DOMAIN sent = {<<ServiceType[s], i, p>> : p \in {q \in Paths : items[q] # Absent}}
      /\ \A t \in DOMAIN sent : sent[t] = items[t[3]]
  BY DEF MappingPublishes
<1> HIDE DEF mapped, sent, instances
<1>8. TopicsFollow(mapped, Publish(view, sent))
  <2> SUFFICES ASSUME NEW t \in Services, NEW q \in Paths,
                      mapped[t][q] # Absent, ~Blocked(Topic(mapped, t, q))
               PROVE  Publish(view, sent)[Topic(mapped, t, q)] = mapped[t][q].value
    BY DEF TopicsFollow
  <2> DEFINE topic == Topic(mapped, t, q)
  <2>1. topic \in Topics
    BY <1>4, TopicTyped
  <2>2. CASE t = s /\ items[q] # Absent
    <3>1. topic = <<ServiceType[s], i, q>> /\ mapped[t][q].value = items[q] /\ items[q] # Null
      <4>1. topic = <<ServiceType[s], i, q>> /\ items[q] # Null
        BY <1>6, <2>2
      <4>2. mapped[t][q] = [value |-> items[q], instance |-> i]
        BY <1>4, <2>2
      <4> QED
        BY <4>1, <4>2
    <3>2. topic \in DOMAIN sent /\ sent[topic] = items[q]
      BY <1>7, <2>2, <3>1
    <3> QED
      BY <2>1, <3>1, <3>2 DEF Publish
  <2>3. CASE ~(t = s /\ items[q] # Absent)
    <3>1. topic \notin DOMAIN sent
      <4>1. SUFFICES ASSUME topic \in DOMAIN sent PROVE FALSE
        OBVIOUS
      <4>2. PICK p \in Paths : items[p] # Absent /\ topic = <<ServiceType[s], i, p>>
        BY <1>7, <4>1
      <4>3. mapped[s][p] # Absent /\ Topic(mapped, s, p) = Topic(mapped, t, q)
        BY <1>6, <4>2
      <4>4. s = t /\ p = q
        BY <1>4, <1>5, <4>3, TopicsApart
      <4> QED
        BY <2>3, <4>2, <4>4
    <3>2. mapped[t][q] = all[t][q]
      BY <1>4, <2>3
    <3>3. view[topic] = mapped[t][q].value
      BY <3>2 DEF TopicsFollow, Topic
    <3> QED
      BY <2>1, <3>1, <3>3 DEF Publish
  <2> QED
    BY <2>2, <2>3
<1> DEFINE shown == Publish(view, sent)
<1> HIDE DEF shown
<1>9. TopicsFollow(now.items, now.view)
  <2>1. TopicsFollow(mapped, shown)
    BY <1>8 DEF shown
  <2>2. TopicsFollow(attempt_to_process_delayed_changes(queue, mapped, shown).items,
                attempt_to_process_delayed_changes(queue, mapped, shown).view)
    BY <1>1, <1>4, <1>5, <2>1, AttemptFollows
  <2> QED
    BY <2>2 DEF shown
<1> QED
  BY <1>3, <1>9

----------------------------------------------------------------------------
(* Removing a service.                                                     *)

\* Its topics get an empty payload, so none is left without an item.
LEMMA RemoveNoGhost ==
    ASSUME NEW queue, NEW items \in ItemStore, NEW view, NEW s \in Services,
           NoGhost(items, view)
    PROVE  LET now == WithoutItems(Now(queue, items, view), s)
           IN  NoGhost(now.items, now.view)
<1> DEFINE none == [items EXCEPT ![s] = [p \in Paths |-> Absent]]
           sent == NullPayloads(items, s)
           seen == Publish(view, sent)
<1>1. SUFFICES NoGhost(none, seen)
  BY DEF WithoutItems, Now
<1> SUFFICES ASSUME NEW t \in Topics, seen[t] \in Values
             PROVE  ~Blocked(t) /\ (Retained(t) \/ Shown(none, t))
  BY DEF NoGhost
<1>2. /\ DOMAIN sent = {Topic(items, s, p) : p \in {q \in Paths : items[s][q] # Absent}}
      /\ \A u \in DOMAIN sent : sent[u] = Null
  BY DEF NullPayloads
<1> HIDE DEF sent
<1>3. seen[t] = view[t] /\ (t \in DOMAIN sent => Blocked(t) \/ Retained(t))
  BY <1>2, RegistryAssumption DEF Publish
<1>4. ~Blocked(t) /\ (Retained(t) \/ Shown(items, t))
  BY <1>3 DEF NoGhost
<1>5. ASSUME ~Retained(t) PROVE Shown(none, t)
  <2>1. PICK u \in Services, p \in Paths : items[u][p] # Absent /\ Topic(items, u, p) = t
    BY <1>4, <1>5 DEF Shown
  <2>2. u # s
    BY <1>2, <1>3, <1>4, <1>5, <2>1
  <2>3. none[u][p] = items[u][p]
    BY <2>2 DEF ItemStore
  <2> QED
    BY <2>1, <2>3 DEF Shown, Topic
<1> QED
  BY <1>4, <1>5

LEMMA RemoveFollows ==
    ASSUME NEW queue, NEW items \in ItemStore, NEW view, NEW s \in Services, NEW instances,
           Agreeing(items, instances), Apart(instances), TopicsFollow(items, view)
    PROVE  LET now == WithoutItems(Now(queue, items, view), s)
           IN  TopicsFollow(now.items, now.view)
<1> DEFINE none == [items EXCEPT ![s] = [p \in Paths |-> Absent]]
           sent == NullPayloads(items, s)
           seen == Publish(view, sent)
<1>1. SUFFICES TopicsFollow(none, seen)
  BY DEF WithoutItems, Now
<1> SUFFICES ASSUME NEW t \in Services, NEW p \in Paths,
                    none[t][p] # Absent, ~Blocked(Topic(none, t, p))
             PROVE  seen[Topic(none, t, p)] = none[t][p].value
  BY DEF TopicsFollow
<1>2. t # s /\ none[t][p] = items[t][p] /\ Topic(none, t, p) = Topic(items, t, p)
  BY DEF ItemStore, Topic
<1>3. DOMAIN sent = {Topic(items, s, q) : q \in {r \in Paths : items[s][r] # Absent}}
  BY DEF NullPayloads
<1> HIDE DEF none, sent
<1>4. Topic(items, t, p) \notin DOMAIN sent /\ Topic(items, t, p) \in Topics
  BY <1>2, <1>3, TopicsApart, TopicTyped
<1>5. view[Topic(items, t, p)] = items[t][p].value
  BY <1>2 DEF TopicsFollow
<1> QED
  BY <1>2, <1>4, <1>5 DEF Publish

----------------------------------------------------------------------------
(* The attempt every signal begins with, reads and keep-alives.            *)

LEMMA RegistryParts ==
    ASSUME RegistryInv
    PROVE  /\ delayed_changed_values \in SUBSET Queued /\ delayed_count \in Nat
           /\ Bounded(delayed_changed_values, delayed_count)
           /\ dbus_service_items \in ItemStore /\ mqtt \in View
           /\ Agreeing(dbus_service_items, service_names_to_instance)
           /\ service_names_to_instance \in InstanceMap
           /\ service_type_and_instance_to_full_service \in [ShortNames -> Services \cup {None}]
BY DEF RegistryInv, RegistrySound, Sound, Now

GhostInv == NoGhost(dbus_service_items, mqtt)

CacheInv == republished => alive /\ TopicsFollow(dbus_service_items, mqtt)

LEMMA AttemptedNoGhost ==
    ASSUME RegistryInv, GhostInv
    PROVE  NoGhost(Attempted.items, Attempted.view)
BY RegistryParts, AttemptNoGhost DEF Attempted, GhostInv

LEMMA AttemptedFollows ==
    ASSUME RegistryInv, ShortNamesApart, alive, TopicsFollow(dbus_service_items, mqtt)
    PROVE  TopicsFollow(Attempted.items, Attempted.view)
BY RegistryParts, AttemptFollows DEF Attempted, ShortNamesApart

\* Storing the answer to a read keeps the topics and shows the value.
LEMMA ReadStores ==
    ASSUME Inv, ReadReply
    PROVE  /\ GhostInv => GhostInv'
           /\ ShortNamesApart /\ TopicsFollow(dbus_service_items, mqtt)
                 => TopicsFollow(dbus_service_items, mqtt)'
<1> DEFINE s == TheHandler.service
           p == TheHandler.path
           v == Head(inbox).value
           items == dbus_service_items
           topic == Topic(items, s, p)
           sent == [t \in {topic} |-> v]
<1>1. s \in Services /\ p \in Paths /\ v \in Values
  BY ReplyParts, HandlerParts, MessageParts DEF ReadReply
<1>2. CASE items[s][p] = Absent
  BY <1>2 DEF ReadReply, GhostInv
<1>3. CASE items[s][p] # Absent
  <2>1. items' = [items EXCEPT ![s][p].value = v] /\ mqtt' = Publish(mqtt, sent)
    BY <1>3 DEF ReadReply
  <2>2. items \in ItemStore /\ Agreeing(items, service_names_to_instance)
    BY RegistryParts DEF Inv
  <2>3. items[s][p] \in Item /\ topic \in Topics
    BY <1>1, <1>3, <2>2, TopicTyped DEF ItemStore
  <2>4. \A t \in Services, q \in Paths :
           items'[t][q] = IF t = s /\ q = p THEN [items[s][p] EXCEPT !.value = v] ELSE items[t][q]
    BY <1>1, <2>1, <2>2 DEF ItemStore
  <2>5. /\ [items[s][p] EXCEPT !.value = v].value = v
        /\ [items[s][p] EXCEPT !.value = v].instance = items[s][p].instance
        /\ [items[s][p] EXCEPT !.value = v] # Absent
    BY <1>1, <2>3, RegistryAssumption DEF Item
  <2>6. \A t \in Services, q \in Paths :
           /\ items'[t][q] # Absent <=> items[t][q] # Absent
           /\ items[t][q] # Absent => Topic(items', t, q) = Topic(items, t, q)
    BY <1>3, <2>4, <2>5 DEF Topic
  <2>7. v # Null /\ DOMAIN sent = {topic} /\ sent[topic] = v
    BY <1>1, RegistryAssumption
  <2> HIDE DEF s, p, v, sent
  <2>8. ASSUME GhostInv PROVE GhostInv'
    <3>1. \A t \in DOMAIN sent : Shown(items, t)
      BY <1>1, <1>3, <2>7 DEF Shown
    <3> HIDE DEF topic
    <3>2. NoGhost(items, mqtt')
      BY <2>1, <2>8, <3>1, PublishNoGhost DEF GhostInv
    <3>3. \A t : Shown(items, t) => Shown(items', t)
      BY <2>6 DEF Shown
    <3> QED
      BY <3>2, <3>3 DEF GhostInv, NoGhost
  <2>9. ASSUME ShortNamesApart, TopicsFollow(items, mqtt) PROVE TopicsFollow(items, mqtt)'
    <3> SUFFICES ASSUME NEW t \in Services, NEW q \in Paths,
                        items'[t][q] # Absent, ~Blocked(Topic(items', t, q))
                 PROVE  mqtt'[Topic(items', t, q)] = items'[t][q].value
      BY DEF TopicsFollow
    <3>1. /\ items[t][q] # Absent /\ Topic(items', t, q) = Topic(items, t, q)
          /\ Topic(items, t, q) \in Topics
      BY <2>2, <2>6, TopicTyped
    <3>2. CASE t = s /\ q = p
      <4>1. Topic(items', t, q) = topic /\ ~Blocked(topic)
        BY <3>1, <3>2
      <4>2. mqtt'[topic] = v
        <5> HIDE DEF topic
        <5> QED
          BY <2>1, <2>3, <2>7, <4>1 DEF Publish
      <4>3. items'[t][q].value = v
        BY <2>4, <2>5, <3>2
      <4> QED
        BY <4>1, <4>2, <4>3
    <3>3. CASE ~(t = s /\ q = p)
      <4>1. Topic(items, t, q) # topic
        BY <1>1, <1>3, <2>2, <2>9, <3>1, <3>3, TopicsApart DEF ShortNamesApart
      <4>2. mqtt'[Topic(items, t, q)] = mqtt[Topic(items, t, q)]
        BY <2>1, <2>7, <3>1, <4>1 DEF Publish
      <4> QED
        BY <2>4, <2>9, <3>1, <3>3, <4>2 DEF TopicsFollow
    <3> QED
      BY <3>2, <3>3
  <2> QED
    BY <2>8, <2>9
<1> QED
  BY <1>2, <1>3

\* publish_all shows every item.
LEMMA AllPublished ==
    ASSUME Inv
    PROVE  LET view == Publish(mqtt, AllPayloads)
           IN  /\ GhostInv => NoGhost(dbus_service_items, view)
               /\ ShortNamesApart => TopicsFollow(dbus_service_items, view)
<1> DEFINE items == dbus_service_items
           mapped == {x \in Services \X Paths : items[x[1]][x[2]] # Absent}
           chosen(t) == CHOOSE y \in mapped : Topic(items, y[1], y[2]) = t
<1>1. /\ DOMAIN AllPayloads = {Topic(items, x[1], x[2]) : x \in mapped}
      /\ \A t \in DOMAIN AllPayloads :
            AllPayloads[t] = items[chosen(t)[1]][chosen(t)[2]].value
  BY DEF AllPayloads
<1>2. items \in ItemStore /\ Agreeing(items, service_names_to_instance)
  BY RegistryParts DEF Inv
<1>3. ASSUME GhostInv PROVE NoGhost(items, Publish(mqtt, AllPayloads))
  <2>1. ASSUME NEW t \in DOMAIN AllPayloads PROVE Shown(items, t)
    <3>1. PICK x \in mapped : t = Topic(items, x[1], x[2])
      BY <1>1
    <3>2. x[1] \in Services /\ x[2] \in Paths /\ items[x[1]][x[2]] # Absent
      OBVIOUS
    <3> QED
      BY <3>1, <3>2 DEF Shown
  <2> QED
    BY <1>3, <2>1, PublishNoGhost DEF GhostInv
<1>4. ASSUME ShortNamesApart PROVE TopicsFollow(items, Publish(mqtt, AllPayloads))
  <2> SUFFICES ASSUME NEW s \in Services, NEW p \in Paths,
                      items[s][p] # Absent, ~Blocked(Topic(items, s, p))
               PROVE  Publish(mqtt, AllPayloads)[Topic(items, s, p)] = items[s][p].value
    BY DEF TopicsFollow
  <2> DEFINE t == Topic(items, s, p)
  <2>1. <<s, p>> \in mapped /\ Topic(items, <<s, p>>[1], <<s, p>>[2]) = t
    OBVIOUS
  <2>2. t \in DOMAIN AllPayloads
    <3> HIDE DEF mapped, t
    <3> QED
      BY <1>1, <2>1
  <2>3. chosen(t) \in mapped /\ Topic(items, chosen(t)[1], chosen(t)[2]) = t
    <3> HIDE DEF mapped, t
    <3> QED
      BY <2>1
  <2> HIDE DEF chosen
  <2>4. /\ chosen(t)[1] \in Services /\ chosen(t)[2] \in Paths
        /\ items[chosen(t)[1]][chosen(t)[2]] # Absent
    BY <2>3
  <2>5. chosen(t)[1] = s /\ chosen(t)[2] = p
    BY <1>2, <1>4, <2>3, <2>4, TopicsApart DEF ShortNamesApart
  <2>6. AllPayloads[t] = items[s][p].value
    BY <1>1, <2>2, <2>5
  <2>7. t \in Topics /\ items[s][p].value \in Values
    BY <1>2, TopicTyped
  <2> QED
    BY <2>2, <2>6, <2>7, RegistryAssumption DEF Publish
<1> QED
  BY <1>3, <1>4

----------------------------------------------------------------------------
(* The steps, by what they do to the items and the view.                   *)

LEMMA ViewSteps ==
    ASSUME [Next]_vars
    PROVE  \/ ServiceAppeared \/ ServiceDisappeared \/ ItemsChanged
           \/ ItemsReplied \/ ReadReply
           \/ \E publish_all \in KeepAlives : handle_keepalive(publish_all)
           \/ /\ UNCHANGED <<dbus_service_items, mqtt, service_names_to_instance,
                             service_type_and_instance_to_full_service>>
              /\ unset_keepalive \/ UNCHANGED <<alive, republished>>
<1> DEFINE Still == UNCHANGED <<dbus_service_items, mqtt, service_names_to_instance,
                                service_type_and_instance_to_full_service>>
           Listens == UNCHANGED <<alive, republished>>
<1>1. CASE Bus
  BY <1>1 DEF Bus, registryVars
<1>2. CASE Dispatch
  BY <1>2 DEF Dispatch, ListNamesReply, NameOwnerReply, GetItemsUnknownMethod,
     ReplyWithoutEffect, Registry
<1>3. ASSUME NEW call, NEW handler, Ask(call, handler) PROVE Still /\ Listens
  BY <1>3 DEF Ask, Registry
<1>4. ASSUME NEW type, NEW j, NEW p, handle_read(type, j, p) PROVE Still /\ Listens
  <2>1. \E call, handler : Ask(call, handler)
    BY <1>4 DEF handle_read
  <2> QED
    BY <1>3, <2>1
<1>5. ASSUME NEW t, NEW v, write_to_dbus(t, v) PROVE Still /\ Listens
  <2>1. \E call, handler : Ask(call, handler)
    BY <1>5 DEF write_to_dbus
  <2> QED
    BY <1>3, <2>1
<1>6. CASE Clients
  <2> HIDE DEF Still, Listens
  <2>1. \/ \E publish_all \in KeepAlives : handle_keepalive(publish_all)
        \/ Still /\ Listens
    BY <1>4, <1>5, <1>6 DEF Clients
  <2> QED
    BY <2>1 DEF Still, Listens
<1>7. CASE Clock
  BY <1>7 DEF Clock, unset_keepalive, Age, Registry
<1>8. CASE UNCHANGED vars
  BY <1>8 DEF vars, registryVars
<1> QED
  BY <1>1, <1>2, <1>6, <1>7, <1>8 DEF Next

\* A signal maps the item of a service that is mapped, or leaves the items as
\* the attempt has left them.
LEMMA ItemsChangedMaps ==
    ASSUME Inv, ItemsChanged
    PROVE  \/ /\ dbus_service_items' = Attempted.items /\ mqtt' = Attempted.view
              /\ UNCHANGED <<service_names_to_instance,
                             service_type_and_instance_to_full_service>>
           \/ \E s \in Services, items \in ItemMap : MapItems(Attempted, s, items, FALSE)
<1> DEFINE m == Head(inbox)
           s == service_id_to_names[m.sender]
<1>1. m.sender \in Owners /\ m.path \in Paths /\ m.value \in Values
  BY InboxTyped, MessageParts DEF Inv, ItemsChanged, Receive
<1>2. s \in Services \cup {None} /\ OnlyItem(m.path, m.value) \in ItemMap
  BY <1>1 DEF Inv, HandlerInv, OnlyItem, ItemMap
<1>3. CASE s = None
  BY <1>3 DEF ItemsChanged, Become
<1>4. CASE s # None /\ Mapped(Attempted.items, s)
  BY <1>2, <1>4 DEF ItemsChanged, MapChange
<1>5. CASE s # None /\ ~Mapped(Attempted.items, s)
  BY <1>5 DEF ItemsChanged, MapChange, QueueChange
<1> QED
  BY <1>3, <1>4, <1>5

LEMMA ItemsRepliedMaps ==
    ASSUME Inv, ItemsReplied
    PROVE  \E s \in Services, items \in ItemMap, force \in BOOLEAN :
              MapItems(Now(delayed_changed_values, dbus_service_items, mqtt), s, items, force)
<1>1. PICK kind \in {"get_items", "get_value"} : ReplyTo(kind, {"Items"})
  BY DEF ItemsReplied
<1>2. /\ TheHandler.service \in Services /\ Head(inbox).items \in ItemMap
      /\ TheHandler.force \in BOOLEAN
  BY <1>1, ReplyParts, HandlerParts, MessageParts
<1>3. MapItems(Now(delayed_changed_values, dbus_service_items, mqtt),
               TheHandler.service, Head(inbox).items, TheHandler.force)
  BY DEF ItemsReplied, Now
<1> QED
  BY <1>2, <1>3

LEMMA DisappearedRemoves ==
    ASSUME Inv, ServiceDisappeared
    PROVE  \E s \in Services :
              /\ dbus_service_items' = WithoutItems(Attempted, s).items
              /\ mqtt' = WithoutItems(Attempted, s).view
              /\ service_names_to_instance' = [service_names_to_instance EXCEPT ![s] = None]
              /\ service_type_and_instance_to_full_service' \in
                    EraseOneValue(service_type_and_instance_to_full_service, s)
<1>1. Head(inbox).name \in Services
  BY InboxTyped, MessageParts DEF Inv, ServiceDisappeared, Receive
<1> QED
  BY <1>1 DEF ServiceDisappeared, remove_dbus_service, Become

----------------------------------------------------------------------------
(* No step makes a ghost.                                                  *)

LEMMA NextGhost ==
    ASSUME Inv, GhostInv, [Next]_vars PROVE GhostInv'
<1> DEFINE queue == Attempted.queue
           items == Attempted.items
           view  == Attempted.view
<1>1. /\ Attempted = Now(queue, items, view) /\ items \in ItemStore
      /\ Sound(Now(queue, items, view), delayed_count, service_names_to_instance)
      /\ NoGhost(items, view) /\ RegistryInv
  <2>1. Attempted = Now(queue, items, view) /\ RegistryInv /\ NoGhost(items, view)
    BY AttemptedSound, AttemptedNoGhost DEF Inv
  <2>2. Sound(Now(queue, items, view), delayed_count, service_names_to_instance)
    BY AttemptedSound DEF Inv
  <2> QED
    BY <2>1, <2>2 DEF Sound, Now
<1>2. CASE dbus_service_items' = items /\ mqtt' = view
  BY <1>1, <1>2 DEF GhostInv
<1> HIDE DEF queue, items, view
<1>3. CASE ServiceAppeared
  BY <1>2, <1>3 DEF ServiceAppeared, Become, items, view
<1>4. CASE ServiceDisappeared
  BY <1>1, <1>4, DisappearedRemoves, RemoveNoGhost DEF GhostInv
<1>5. CASE ItemsChanged
  <2>1. ASSUME NEW s \in Services, NEW one \in ItemMap, MapItems(Attempted, s, one, FALSE)
        PROVE  GhostInv'
    <3>1. MapItems(Now(queue, items, view), s, one, FALSE)
      BY <1>1, <2>1
    <3> QED
      BY <1>1, <3>1, MapItemsNoGhost DEF GhostInv
  <2> QED
    BY <1>2, <1>5, <2>1, ItemsChangedMaps DEF items, view
<1>6. CASE ItemsReplied
  <2>1. Sound(Now(delayed_changed_values, dbus_service_items, mqtt), delayed_count,
              service_names_to_instance)
    BY <1>1 DEF RegistryInv, RegistrySound
  <2>2. PICK s \in Services, new \in ItemMap, force \in BOOLEAN :
           MapItems(Now(delayed_changed_values, dbus_service_items, mqtt), s, new, force)
    BY <1>6, ItemsRepliedMaps
  <2> QED
    BY <1>1, <2>1, <2>2, MapItemsNoGhost DEF GhostInv
<1>7. CASE ReadReply
  BY <1>7, ReadStores
<1>8. ASSUME NEW publish_all, handle_keepalive(publish_all) PROVE GhostInv'
  <2>1. NoGhost(dbus_service_items, Publish(mqtt, AllPayloads))
    BY AllPublished
  <2>2. dbus_service_items' = dbus_service_items
        /\ (mqtt' = Publish(mqtt, AllPayloads) \/ mqtt' = mqtt)
    BY <1>8 DEF handle_keepalive
  <2> QED
    BY <2>1, <2>2 DEF GhostInv
<1>9. CASE UNCHANGED <<dbus_service_items, mqtt>>
  BY <1>9 DEF GhostInv
<1> QED
  BY <1>3, <1>4, <1>5, <1>6, <1>7, <1>8, <1>9, ViewSteps

\* Every topic that shows a value, and is not retained, is the topic of an item:
\* a device that disappears takes its topics along, however its changes, its
\* removal and the answers of it and of others come (remove_dbus_service,
\* add_dbus_to_mqtt_mapping, Item::publish).
THEOREM NoGhosts == Spec => []NoGhostTopic
<1>1. Init => GhostInv
  BY RegistryAssumption DEF Init, GhostInv, NoGhost
<1>2. Inv /\ GhostInv /\ [Next]_vars => GhostInv'
  BY NextGhost
<1>3. GhostInv => NoGhostTopic
  BY DEF GhostInv, NoGhost, Shown, NoGhostTopic
<1> QED
  BY <1>1, <1>2, <1>3, SpecInv, PTL DEF Spec

----------------------------------------------------------------------------
(* Each step leaves the topics as the cache is.                            *)

LEMMA NextCache ==
    ASSUME Inv, CacheInv, ShortNamesApart, ShortNamesApart', [Next]_vars PROVE CacheInv'
<1> DEFINE queue == Attempted.queue
           items == Attempted.items
           view  == Attempted.view
<1>0. RegistryInv /\ Apart(service_names_to_instance) /\ Apart(service_names_to_instance')
  BY DEF Inv, ShortNamesApart
<1>1. SUFFICES ASSUME republished' PROVE alive' /\ TopicsFollow(dbus_service_items', mqtt')
  BY DEF CacheInv
<1>2. CASE \E publish_all \in KeepAlives : handle_keepalive(publish_all)
  <2>1. PICK publish_all \in KeepAlives : handle_keepalive(publish_all)
    BY <1>2
  <2>2. /\ alive' /\ dbus_service_items' = dbus_service_items
        /\ publish_all \/ republished
        /\ mqtt' = IF publish_all THEN Publish(mqtt, AllPayloads) ELSE mqtt
    BY <1>1, <2>1 DEF handle_keepalive
  <2>3. CASE publish_all
    BY <2>2, <2>3, AllPublished
  <2>4. CASE ~publish_all
    BY <2>2, <2>4 DEF CacheInv
  <2> QED
    BY <2>3, <2>4
<1>3. CASE republished /\ alive' = alive
  <2>1. alive /\ alive' /\ TopicsFollow(dbus_service_items, mqtt)
    BY <1>3 DEF CacheInv
  <2>2. /\ Attempted = Now(queue, items, view) /\ items \in ItemStore
        /\ Sound(Now(queue, items, view), delayed_count, service_names_to_instance)
        /\ Agreeing(items, service_names_to_instance)
        /\ TopicsFollow(items, view)
    <3>1. Attempted = Now(queue, items, view) /\ TopicsFollow(items, view)
      BY <1>0, <2>1, AttemptedSound, AttemptedFollows
    <3>2. Sound(Now(queue, items, view), delayed_count, service_names_to_instance)
      BY <1>0, AttemptedSound
    <3> QED
      BY <3>1, <3>2 DEF Sound, Now
  <2>3. CASE dbus_service_items' = items /\ mqtt' = view
    BY <2>1, <2>2, <2>3
  <2> HIDE DEF queue, items, view
  <2>4. CASE ServiceAppeared
    BY <2>3, <2>4 DEF ServiceAppeared, Become, items, view
  <2>5. CASE ServiceDisappeared
    BY <1>0, <2>1, <2>2, <2>5, DisappearedRemoves, RemoveFollows
  <2>6. CASE ItemsChanged
    <3>1. ASSUME NEW s \in Services, NEW one \in ItemMap, MapItems(Attempted, s, one, FALSE)
          PROVE  TopicsFollow(dbus_service_items', mqtt')
      <4>1. MapItems(Now(queue, items, view), s, one, FALSE)
        BY <2>2, <3>1
      <4> QED
        BY <1>0, <2>1, <2>2, <4>1, MapItemsShow
    <3> QED
      BY <2>1, <2>3, <2>6, <3>1, ItemsChangedMaps DEF items, view
  <2>7. CASE ItemsReplied
    <3>1. Sound(Now(delayed_changed_values, dbus_service_items, mqtt), delayed_count,
                service_names_to_instance)
      BY <1>0 DEF RegistryInv, RegistrySound
    <3>2. PICK s \in Services, new \in ItemMap, force \in BOOLEAN :
             MapItems(Now(delayed_changed_values, dbus_service_items, mqtt), s, new, force)
      BY <2>7, ItemsRepliedMaps
    <3> QED
      BY <1>0, <2>1, <3>1, <3>2, MapItemsShow
  <2>8. CASE ReadReply
    BY <2>1, <2>8, ReadStores
  <2>9. CASE UNCHANGED <<dbus_service_items, mqtt>>
    BY <2>1, <2>9
  <2> QED
    BY <1>2, <2>4, <2>5, <2>6, <2>7, <2>8, <2>9, ViewSteps
<1>4. \/ \E publish_all \in KeepAlives : handle_keepalive(publish_all)
      \/ republished /\ alive' = alive
  BY <1>1, ViewSteps DEF ServiceAppeared, ServiceDisappeared, ItemsChanged, ItemsReplied,
     ReadReply, unset_keepalive
<1> QED
  BY <1>2, <1>3, <1>4

----------------------------------------------------------------------------
(* Each step leaves the short names leading to their services.             *)

LEMMA NextNames ==
    ASSUME Inv, ShortNamesApart', [Next]_vars,
           NamesLead(service_type_and_instance_to_full_service, service_names_to_instance)
    PROVE  NamesLead(service_type_and_instance_to_full_service, service_names_to_instance)'
<1> DEFINE names == service_type_and_instance_to_full_service
           instances == service_names_to_instance
<1>1. /\ instances \in InstanceMap /\ names \in [ShortNames -> Services \cup {None}]
      /\ Apart(instances')
  BY RegistryParts DEF Inv, ShortNamesApart
<1>2. ASSUME NEW now, NEW s \in Services, NEW items \in ItemMap, NEW force,
             MapItems(now, s, items, force)
      PROVE  NamesLead(names', instances')
  <2> DEFINE i == InstanceOf(s, items)
  <2>1. /\ instances' = [instances EXCEPT ![s] = i]
        /\ names' = [names EXCEPT ![ShortName(s, i)] = s]
    BY <1>2 DEF MapItems
  <2>2. i \in Instances
    BY <1>1, InstanceOfTyped
  <2> HIDE DEF i
  <2>3. ShortName(s, i) \in ShortNames /\ instances'[s] = i /\ i # None
    BY <1>1, <2>1, <2>2, RegistryAssumption DEF ShortName, ShortNames, InstanceMap
  <2> SUFFICES ASSUME NEW t \in Services, instances'[t] # None
               PROVE  names'[ShortName(t, instances'[t])] = t
    BY DEF NamesLead
  <2>4. CASE t = s
    BY <1>1, <2>1, <2>3, <2>4
  <2>5. CASE t # s
    <3>1. instances'[t] = instances[t]
      BY <1>1, <2>1, <2>5 DEF InstanceMap
    <3>2. ShortName(t, instances'[t]) # ShortName(s, i)
      BY <1>1, <2>3, <2>5 DEF Apart
    <3>3. ShortName(t, instances[t]) \in ShortNames
      BY <1>1, <3>1, RegistryAssumption DEF ShortName, ShortNames, InstanceMap
    <3> QED
      BY <1>1, <2>1, <3>1, <3>2, <3>3 DEF NamesLead
  <2> QED
    BY <2>4, <2>5
<1>3. CASE ServiceDisappeared
  <2>1. PICK s \in Services : /\ instances' = [instances EXCEPT ![s] = None]
                              /\ names' \in EraseOneValue(names, s)
    BY <1>3, DisappearedRemoves
  <2>2. \A k \in ShortNames : names[k] # s => names'[k] = names[k]
    BY <1>1, <2>1 DEF EraseOneValue
  <2> SUFFICES ASSUME NEW t \in Services, instances'[t] # None
               PROVE  names'[ShortName(t, instances'[t])] = t
    BY DEF NamesLead
  <2>3. t # s /\ instances'[t] = instances[t]
    BY <1>1, <2>1 DEF InstanceMap
  <2>4. ShortName(t, instances[t]) \in ShortNames /\ names[ShortName(t, instances[t])] = t
    BY <1>1, <2>3, RegistryAssumption DEF ShortName, ShortNames, InstanceMap, NamesLead
  <2> QED
    BY <2>2, <2>3, <2>4
<1>4. CASE UNCHANGED <<instances, names>>
  BY <1>4 DEF NamesLead
<1>5. CASE ItemsChanged
  BY <1>2, <1>4, <1>5, ItemsChangedMaps
<1>6. CASE ItemsReplied
  BY <1>2, <1>6, ItemsRepliedMaps
<1>7. CASE ServiceAppeared
  BY <1>4, <1>7 DEF ServiceAppeared
<1>8. CASE ReadReply
  BY <1>4, <1>8 DEF ReadReply
<1>9. ASSUME NEW publish_all, handle_keepalive(publish_all)
      PROVE  NamesLead(names', instances')
  BY <1>4, <1>9 DEF handle_keepalive
<1> QED
  BY <1>3, <1>4, <1>5, <1>6, <1>7, <1>8, <1>9, ViewSteps

----------------------------------------------------------------------------
(* The theorems on topics and the cache.                                   *)

\* While no two services share a short name, every topic that is published
\* shows the value in the cache, from a keep-alive that asks for all values
\* until the keep-alives end: no change is published before an older one, and
\* none is left out (attempt_to_process_delayed_changes, Item::publish,
\* publish_all, remove_dbus_service).
THEOREM TopicsShowTheCache == Spec /\ []ShortNamesApart => []ViewFollowsCache
<1>1. Init => CacheInv
  BY DEF Init, CacheInv
<1>2. Inv /\ CacheInv /\ ShortNamesApart /\ ShortNamesApart' /\ [Next]_vars => CacheInv'
  BY NextCache
<1>3. CacheInv => ViewFollowsCache
  BY DEF CacheInv, TopicsFollow, ViewFollowsCache
<1> QED
  BY <1>1, <1>2, <1>3, SpecInv, PTL DEF Spec

\* While no two services share a short name, the topic of an item leads a read
\* or a write back to its service (find_item_by_mqtt_path).
THEOREM TopicsLeadBack == Spec /\ []ShortNamesApart => []TopicLeadsBack
<1> DEFINE Leading ==
      NamesLead(service_type_and_instance_to_full_service, service_names_to_instance)
<1>1. Init => Leading
  BY DEF Init, NamesLead
<1>2. Inv /\ Leading /\ ShortNamesApart' /\ [Next]_vars => Leading'
  BY NextNames
<1>3. Inv /\ Leading => TopicLeadsBack
  <2> SUFFICES ASSUME Inv, Leading, NEW s \in Services, NEW p \in Paths,
                      dbus_service_items[s][p] # Absent
               PROVE  FoundService(Topic(dbus_service_items, s, p)) = s
    BY DEF TopicLeadsBack
  <2>1. /\ dbus_service_items[s][p].instance = service_names_to_instance[s]
        /\ dbus_service_items[s][p].instance # None
    BY RegistryParts, TopicTyped, RegistryAssumption DEF Inv, Agreeing
  <2> QED
    BY <2>1 DEF NamesLead, FoundService, Topic, ShortName
<1> HIDE DEF Leading
<1> QED
  BY <1>1, <1>2, <1>3, SpecInv, PTL DEF Spec

\* They do so whenever services of a type publish different instances, those at
\* /DeviceInstance, and no client reads an inner object (OuterReadsPublish).
THEOREM OwnInstances ==
    ASSUME SubtreeRoot \notin ReadPaths, InstancePath \notin Late, Apart(DeviceInstance)
    PROVE  Spec => [](ViewFollowsCache /\ TopicLeadsBack)
<1>1. InstanceIsPublished => ShortNamesApart
  BY DEF InstanceIsPublished, ShortNamesApart, Apart
<1>2. Spec => []InstanceIsPublished
  BY OuterReadsPublish
<1> QED
  BY <1>1, <1>2, TopicsShowTheCache, TopicsLeadBack, PTL

=============================================================================
