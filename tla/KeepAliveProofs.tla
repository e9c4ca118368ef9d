--------------------------- MODULE KeepAliveProofs ---------------------------
(***************************************************************************)
(* Theorems about KeepAlive: an installation is alive for as long as its   *)
(* keep-alives say, has one heartbeat, which beats on time, and publishes  *)
(* everything no more often than the tokens allow.                         *)
(***************************************************************************)
EXTENDS KeepAlive, FiniteSetTheorems, SequenceTheorems, WellFoundedInduction, TLAPS

Entries == Seq([id : Ids, left : Int])

Sorted(entries) ==
    \A j, k \in DOMAIN entries : j <= k => entries[j].left <= entries[k].left

NoIdTwice(entries) ==
    \A j, k \in DOMAIN entries : entries[j].id = entries[k].id => j = k

\* The queue is in order, no id is in it twice, and the loop wakes up no later
\* than for its first task.
QueueInv(q) ==
    /\ q \in Queues
    /\ Sorted(q.queuedTasks)
    /\ NoIdTwice(q.queuedTasks)
    /\ \A k \in DOMAIN q.queuedTasks : q.next # Never /\ q.next <= q.queuedTasks[k].left

\* Timely, of any queue.
InTime(q) ==
    \A k \in DOMAIN q.queuedTasks :
        q.tasks[q.queuedTasks[k].id] # NoJob => q.queuedTasks[k].left >= -MaxLate

\* The job waits under its id and has that many ticks left.
Waits(q, id, job, left) ==
    /\ q.tasks[id] = job
    /\ \E k \in DOMAIN q.queuedTasks : q.queuedTasks[k] = [id |-> id, left |-> left]

----------------------------------------------------------------------------
(* The places in the queue.                                                *)

\* A nonempty set of numbers has a least one: inclusion between the finite
\* intervals up to its members is well-founded.
LEMMA LeastNumber ==
    ASSUME NEW S \in SUBSET Nat, S # {}
    PROVE  \E b \in S : \A c \in S : b <= c
<1> DEFINE Intervals == {0 .. n : n \in S}
<1>1. Intervals \subseteq FiniteSubsetsOf(Nat)
  <2>1. SUFFICES ASSUME NEW n \in S PROVE 0 .. n \in FiniteSubsetsOf(Nat)
    OBVIOUS
  <2>2. IsFiniteSet(0 .. n)
    BY FS_Interval
  <2> QED
    BY <2>2 DEF FiniteSubsetsOf
<1>2. Intervals # {}
  OBVIOUS
<1>3. PICK I \in Intervals : \A J \in Intervals : <<J, I>> \notin StrictSubsetOrdering(Nat)
  <2>1. IsWellFoundedOn(StrictSubsetOrdering(Nat), FiniteSubsetsOf(Nat))
    BY FS_StrictSubsetOrderingWellFounded
  <2> HIDE DEF Intervals
  <2> QED
    BY <1>1, <1>2, <2>1, WFMin
<1>4. PICK b \in S : I = 0 .. b
  BY <1>3
<1>5. ASSUME NEW c \in S, c < b PROVE FALSE
  <2>1. 0 .. c \subseteq 0 .. b /\ 0 .. c # 0 .. b
    <3>1. b \in 0 .. b /\ b \notin 0 .. c
      BY <1>5
    <3> QED
      BY <1>5, <3>1
  <2>2. <<0 .. c, I>> \in StrictSubsetOrdering(Nat)
    BY <1>4, <2>1 DEF StrictSubsetOrdering
  <2> QED
    BY <1>3, <2>2
<1> QED
  BY <1>5

LEMMA MinIsLeast ==
    ASSUME NEW S \in SUBSET Nat, S # {}
    PROVE  Min(S) \in S /\ \A c \in S : Min(S) <= c
<1> DEFINE Least(b) == \A c \in S : b <= c
<1>1. \E b \in S : Least(b)
  BY LeastNumber
<1>2. Min(S) = CHOOSE b \in S : Least(b)
  BY DEF Min
<1> QED
  BY <1>1, <1>2

LEMMA EntryTyped ==
    ASSUME NEW entries \in Entries
    PROVE  /\ Len(entries) \in Nat
           /\ DOMAIN entries = 1 .. Len(entries)
           /\ \A k \in DOMAIN entries :
                 entries[k] \in [id : Ids, left : Int] /\ entries[k].left \in Int
<1>1. /\ Len(entries) \in Nat
      /\ DOMAIN entries = 1 .. Len(entries)
      /\ \A k \in DOMAIN entries : entries[k] \in [id : Ids, left : Int]
  BY LenProperties, ElementOfSeq DEF Entries
<1> QED
  BY <1>1

\* In a sorted queue, the tasks before UpperBound are not later, those from it on are.
LEMMA UpperBoundSplits ==
    ASSUME NEW entries \in Entries, NEW left \in Int, Sorted(entries)
    PROVE  /\ UpperBound(entries, left) \in 1 .. Len(entries) + 1
           /\ \A k \in DOMAIN entries :
                 entries[k].left <= left <=> k < UpperBound(entries, left)
<1> DEFINE S == {k \in DOMAIN entries : entries[k].left > left} \cup {Len(entries) + 1}
<1>1. S \in SUBSET Nat /\ S # {}
  BY EntryTyped
<1>2. UpperBound(entries, left) \in S /\ \A c \in S : UpperBound(entries, left) <= c
  <2> HIDE DEF S
  <2>1. UpperBound(entries, left) = Min(S)
    BY DEF UpperBound, S
  <2> QED
    BY <1>1, <2>1, MinIsLeast
<1>3. UpperBound(entries, left) \in 1 .. Len(entries) + 1
  BY <1>2, EntryTyped
<1>4. ASSUME NEW k \in DOMAIN entries
      PROVE  entries[k].left <= left <=> k < UpperBound(entries, left)
  <2>1. k \in 1 .. Len(entries) /\ entries[k].left \in Int
    BY EntryTyped
  <2>2. ASSUME entries[k].left <= left PROVE k < UpperBound(entries, left)
    <3>1. SUFFICES ASSUME k >= UpperBound(entries, left) PROVE FALSE
      BY <1>3, <2>1
    <3>2. UpperBound(entries, left) \in DOMAIN entries
      BY <1>3, <2>1, <3>1, EntryTyped
    <3>3. entries[UpperBound(entries, left)].left > left
      BY <1>2, <3>1, <2>1
    <3>4. entries[UpperBound(entries, left)].left <= entries[k].left
      BY <3>1, <3>2 DEF Sorted
    <3>5. entries[UpperBound(entries, left)].left \in Int
      BY <3>2, EntryTyped
    <3> QED
      BY <2>1, <2>2, <3>3, <3>4, <3>5
  <2>3. ASSUME ~ entries[k].left <= left PROVE ~ k < UpperBound(entries, left)
    <3>1. k \in S
      BY <2>1, <2>3
    <3> QED
      BY <1>2, <1>3, <2>1, <3>1
  <2> QED
    BY <2>2, <2>3
<1> QED
  BY <1>3, <1>4

\* Inserted puts the task before all that are later.
LEMMA InsertedAt ==
    ASSUME NEW entries \in Entries, NEW entry \in [id : Ids, left : Int], Sorted(entries)
    PROVE  LET p   == UpperBound(entries, entry.left)
               new == Inserted(entries, entry)
           IN  /\ new \in Entries
               /\ Len(new) = Len(entries) + 1
               /\ p \in DOMAIN new
               /\ \A k \in DOMAIN new :
                     new[k] = IF k < p THEN entries[k]
                              ELSE IF k = p THEN entry ELSE entries[k - 1]
<1> DEFINE p   == UpperBound(entries, entry.left)
           new == Inserted(entries, entry)
<1>1. p \in 1 .. Len(entries) + 1
  BY UpperBoundSplits
<1>2. new = SubSeq(entries, 1, p - 1) \o <<entry>> \o SubSeq(entries, p, Len(entries))
  BY DEF Inserted, InsertAt
<1> HIDE DEF p, new
<1> DEFINE before == SubSeq(entries, 1, p - 1)
           after  == SubSeq(entries, p, Len(entries))
           upTo   == before \o <<entry>>
           Entry  == [id : Ids, left : Int]
<1>3. /\ before \in Seq(Entry) /\ Len(before) = p - 1
      /\ \A k \in 1 .. p - 1 : before[k] = entries[k]
  <2> HIDE DEF Entry
  <2>1. \A k \in 1 .. p - 1 : entries[k] \in Entry
    BY <1>1, EntryTyped DEF Entry
  <2> QED
    BY <1>1, <2>1, SubSeqProperties, EntryTyped
<1>4. /\ after \in Seq(Entry) /\ Len(after) = Len(entries) + 1 - p
      /\ \A k \in 1 .. Len(entries) + 1 - p : after[k] = entries[p + k - 1]
  <2> HIDE DEF Entry
  <2>1. \A k \in p .. Len(entries) : entries[k] \in Entry
    BY <1>1, EntryTyped DEF Entry
  <2> QED
    BY <1>1, <2>1, SubSeqProperties, EntryTyped
<1>5. /\ <<entry>> \in Seq(Entry) /\ Len(<<entry>>) = 1 /\ <<entry>>[1] = entry
  OBVIOUS
<1> HIDE DEF before, after, upTo, Entry
<1>6. /\ upTo \in Seq(Entry) /\ Len(upTo) = p
      /\ \A k \in 1 .. p : upTo[k] = IF k < p THEN entries[k] ELSE entry
  <2>1. /\ upTo \in Seq(Entry)
        /\ Len(upTo) = Len(before) + Len(<<entry>>)
        /\ \A k \in 1 .. Len(before) + Len(<<entry>>) : upTo[k] =
              IF k <= Len(before) THEN before[k] ELSE <<entry>>[k - Len(before)]
    BY <1>3, <1>5, ConcatProperties DEF upTo
  <2> QED
    BY <1>1, <1>3, <1>5, <2>1, EntryTyped
<1>7. /\ new \in Seq(Entry) /\ Len(new) = Len(upTo) + Len(after)
      /\ \A k \in 1 .. Len(upTo) + Len(after) : new[k] =
            IF k <= Len(upTo) THEN upTo[k]
            ELSE after[k - Len(upTo)]
  <2>1. new = upTo \o after
    BY <1>2 DEF before, after, upTo
  <2> QED
    BY <1>4, <1>6, <2>1, ConcatProperties
<1>8. new \in Entries /\ Len(new) = Len(entries) + 1 /\ DOMAIN new = 1 .. Len(entries) + 1
  <2>1. new \in Entries
    BY <1>7 DEF Entries, Entry
  <2> QED
    BY <1>1, <1>4, <1>6, <1>7, <2>1, EntryTyped
<1>9. ASSUME NEW k \in 1 .. Len(entries) + 1
      PROVE  new[k] = IF k < p THEN entries[k] ELSE IF k = p THEN entry ELSE entries[k - 1]
  <2>1. CASE k <= p
    BY <1>1, <1>4, <1>6, <1>7, <2>1, EntryTyped
  <2>2. CASE k > p
    <3>1. new[k] = after[k - p]
      <4>1. Len(upTo) = p /\ Len(upTo) + Len(after) = Len(entries) + 1 /\ ~ k <= p
        BY <1>1, <1>4, <1>6, <2>2, EntryTyped
      <4> QED
        BY <1>7, <4>1
    <3>2. k - p \in 1 .. Len(entries) + 1 - p
      BY <1>1, <2>2, EntryTyped
    <3>3. after[k - p] = entries[p + (k - p) - 1]
      BY <1>4, <3>2
    <3>4. p + (k - p) - 1 = k - 1
      BY <1>1, <2>2, EntryTyped
    <3> QED
      BY <1>1, <2>2, <3>1, <3>3, <3>4, EntryTyped
  <2> QED
    BY <1>1, <2>1, <2>2, EntryTyped
<1> QED
  BY <1>1, <1>8, <1>9, EntryTyped DEF p, new

----------------------------------------------------------------------------
(* What the operations on the queue keep.                                  *)

\* A new task waits for its time; the others wait as they did.
LEMMA AddTaskSound ==
    ASSUME NEW q, NEW id \in Ids \ InUse(q), NEW job \in Jobs, NEW delay \in Nat,
           QueueInv(q), InTime(q)
    PROVE  LET new == addTask(q, id, job, delay)
           IN  /\ QueueInv(new)
               /\ InTime(new)
               /\ Waits(new, id, job, delay)
               /\ \A i \in Ids \ {id} : new.tasks[i] = q.tasks[i]
               /\ \A i \in Ids \ {id}, j \in Jobs, left \in Int :
                     Waits(q, i, j, left) => Waits(new, i, j, left)
               /\ InUse(new) = InUse(q) \cup {id}
<1> DEFINE old   == q.queuedTasks
           entry == [id |-> id, left |-> delay]
           added == Inserted(old, entry)
           p     == UpperBound(old, delay)
           new   == addTask(q, id, job, delay)
<1>1. /\ q \in Queues /\ old \in Entries /\ Sorted(old) /\ NoIdTwice(old)
      /\ \A k \in DOMAIN old : q.next # Never /\ q.next <= old[k].left
  BY DEF QueueInv, Queues, Entries
<1>2. /\ new.tasks = [q.tasks EXCEPT ![id] = job]
      /\ new.queuedTasks = added
      /\ new.next = Sooner(delay, q.next)
      /\ new = [tasks |-> new.tasks, queuedTasks |-> added, next |-> new.next]
  BY DEF addTask
<1>3. entry \in [id : Ids, left : Int] /\ entry.left = delay /\ entry.id = id
  OBVIOUS
<1> HIDE DEF old, entry, added, new
<1>4. /\ p \in 1 .. Len(old) + 1
      /\ \A k \in DOMAIN old : old[k].left <= delay <=> k < p
  <2>1. delay \in Int
    OBVIOUS
  <2> QED
    BY <1>1, <2>1, UpperBoundSplits
<1>5. /\ added \in Entries /\ Len(added) = Len(old) + 1 /\ p \in DOMAIN added
      /\ \A k \in DOMAIN added :
            added[k] = IF k < p THEN old[k] ELSE IF k = p THEN entry ELSE old[k - 1]
  <2>1. LET n == Inserted(old, entry)
        IN  /\ n \in Entries
            /\ Len(n) = Len(old) + 1
            /\ UpperBound(old, entry.left) \in DOMAIN n
            /\ \A k \in DOMAIN n :
                  n[k] = IF k < UpperBound(old, entry.left) THEN old[k]
                         ELSE IF k = UpperBound(old, entry.left) THEN entry ELSE old[k - 1]
    BY <1>1, <1>3, InsertedAt
  <2> QED
    BY <1>3, <2>1 DEF added
<1> HIDE DEF p
<1>6. DOMAIN old = 1 .. Len(old) /\ DOMAIN added = 1 .. Len(old) + 1 /\ Len(old) \in Nat
  BY <1>1, <1>5, EntryTyped
\* Where an old task is now, and which one a task was.
<1>7. ASSUME NEW k \in DOMAIN old
      PROVE  /\ k < p => k \in DOMAIN added /\ added[k] = old[k]
             /\ ~ k < p => k + 1 \in DOMAIN added /\ added[k + 1] = old[k]
  <2>1. ASSUME ~ k < p PROVE k + 1 \in DOMAIN added /\ added[k + 1] = old[k]
    <3>1. k + 1 \in DOMAIN added /\ ~ k + 1 < p /\ k + 1 # p /\ (k + 1) - 1 = k
      BY <1>4, <1>6, <2>1
    <3> QED
      BY <1>5, <3>1
  <2>2. k < p => k \in DOMAIN added /\ added[k] = old[k]
    BY <1>5, <1>6
  <2> QED
    BY <2>1, <2>2
<1>8. ASSUME NEW k \in DOMAIN added
      PROVE  \/ k < p /\ k \in DOMAIN old /\ added[k] = old[k]
             \/ k = p /\ added[k] = entry
             \/ k > p /\ k - 1 \in DOMAIN old /\ added[k] = old[k - 1]
  BY <1>4, <1>5, <1>6
<1>9. added[p] = entry /\ p \in DOMAIN added
  BY <1>5, <1>8, <1>6, <1>4
<1>10. \A k \in DOMAIN old : old[k].id # id /\ old[k] \in [id : Ids, left : Int] /\ old[k].left \in Int
  <2>1. \A k \in DOMAIN old : old[k].id # id
    BY DEF InUse, old
  <2> QED
    BY <1>1, <2>1, EntryTyped
<1>11. Sorted(added)
  <2>1. SUFFICES ASSUME NEW j \in DOMAIN added, NEW k \in DOMAIN added, j <= k
                 PROVE  added[j].left <= added[k].left
    BY DEF Sorted
  <2>2. \A m, n \in DOMAIN old : m <= n => old[m].left <= old[n].left
    BY <1>1 DEF Sorted
  <2>3. \A m \in DOMAIN old : m >= p => delay <= old[m].left
    BY <1>4, <1>6, <1>10
  <2>4. \A m \in DOMAIN old : m < p => old[m].left <= delay
    BY <1>4
  <2>5. CASE j < p
    <3>1. j \in DOMAIN old /\ added[j] = old[j]
      BY <1>4, <1>6, <1>8, <2>5
    <3> QED
      BY <1>3, <1>4, <1>6, <1>8, <1>10, <2>1, <2>2, <2>4, <2>5, <3>1
  <2>6. CASE j = p
    BY <1>3, <1>4, <1>6, <1>8, <1>10, <2>1, <2>3, <2>6
  <2>7. CASE j > p
    <3>1. /\ j - 1 \in DOMAIN old /\ added[j] = old[j - 1]
          /\ k - 1 \in DOMAIN old /\ added[k] = old[k - 1] /\ j - 1 <= k - 1
      BY <1>4, <1>6, <1>8, <2>1, <2>7
    <3> QED
      BY <2>2, <3>1
  <2> QED
    BY <1>4, <1>6, <2>5, <2>6, <2>7
<1>12. NoIdTwice(added)
  <2>1. SUFFICES ASSUME NEW j \in DOMAIN added, NEW k \in DOMAIN added,
                        added[j].id = added[k].id
                 PROVE  j = k
    BY DEF NoIdTwice
  <2>2. \A m, n \in DOMAIN old : old[m].id = old[n].id => m = n
    BY <1>1 DEF NoIdTwice
  <2>3. added[j].id = id <=> j = p
    BY <1>3, <1>8, <1>9, <1>10
  <2>4. added[k].id = id <=> k = p
    BY <1>3, <1>8, <1>9, <1>10
  <2>5. CASE j # p /\ k # p
    <3>1. PICK m \in DOMAIN old : added[j] = old[m] /\ m = IF j < p THEN j ELSE j - 1
      BY <1>4, <1>6, <1>8, <2>5
    <3>2. PICK n \in DOMAIN old : added[k] = old[n] /\ n = IF k < p THEN k ELSE k - 1
      BY <1>4, <1>6, <1>8, <2>5
    <3>3. m = n
      BY <2>1, <2>2, <3>1, <3>2
    <3> QED
      BY <1>4, <1>6, <2>5, <3>1, <3>2, <3>3
  <2> QED
    BY <2>1, <2>3, <2>4, <2>5
<1>13. /\ new.next \in Int /\ new.next <= delay
       /\ q.next # Never => new.next <= q.next
  <2>1. q.next \in Int \cup {Never}
    BY <1>1 DEF Queues
  <2> QED
    BY <1>2, <2>1 DEF Sooner
<1>14. QueueInv(new)
  <2>1. new \in Queues
    <3>1. new.tasks \in [Ids -> Jobs \cup {NoJob}]
      BY <1>1, <1>2 DEF Queues
    <3> QED
      BY <1>2, <1>5, <1>13, <3>1 DEF Queues, Entries
  <2>2. ASSUME NEW k \in DOMAIN added PROVE new.next # Never /\ new.next <= added[k].left
    <3>1. new.next # Never
      BY <1>13, TaskAssumption
    <3>2. \A m \in DOMAIN old : new.next <= old[m].left
      <4>1. SUFFICES ASSUME NEW m \in DOMAIN old PROVE new.next <= old[m].left
        OBVIOUS
      <4>2. q.next # Never /\ q.next <= old[m].left /\ q.next \in Int
        BY <1>1 DEF Queues
      <4> QED
        BY <1>10, <1>13, <4>2
    <3> QED
      BY <1>3, <1>8, <1>13, <3>1, <3>2
  <2> QED
    BY <1>2, <1>11, <1>12, <2>1, <2>2 DEF QueueInv
<1>15. \A i \in Ids \ {id} : new.tasks[i] = q.tasks[i]
  BY <1>1, <1>2 DEF Queues
<1>16. new.tasks[id] = job
  BY <1>1, <1>2 DEF Queues
<1>17. InTime(new)
  <2>1. SUFFICES ASSUME NEW k \in DOMAIN added, new.tasks[added[k].id] # NoJob
                 PROVE  added[k].left >= -MaxLate
    BY <1>2 DEF InTime
  <2>2. ASSUME NEW m \in DOMAIN old, added[k] = old[m] PROVE added[k].left >= -MaxLate
    <3>1. q.tasks[old[m].id] # NoJob
      BY <1>10, <1>15, <2>1, <2>2
    <3> QED
      BY <2>2, <3>1 DEF InTime, old
  <2>3. delay >= -MaxLate
    BY TaskAssumption
  <2> QED
    BY <1>3, <1>8, <2>2, <2>3
<1>18. Waits(new, id, job, delay)
  BY <1>2, <1>9, <1>16 DEF Waits, entry
<1>19. ASSUME NEW k \in DOMAIN old PROVE \E m \in DOMAIN added : added[m] = old[k]
  BY <1>7
<1>20. ASSUME NEW i \in Ids \ {id}, NEW j \in Jobs, NEW left \in Int, Waits(q, i, j, left)
       PROVE  Waits(new, i, j, left)
  BY <1>2, <1>15, <1>19, <1>20 DEF Waits, old
<1>21. InUse(new) = InUse(q) \cup {id}
  <2>1. InUse(new) = {added[k].id : k \in DOMAIN added}
    BY <1>2 DEF InUse
  <2>2. InUse(q) = {old[k].id : k \in DOMAIN old}
    BY DEF InUse, old
  <2>3. ASSUME NEW k \in DOMAIN added PROVE added[k].id \in InUse(q) \cup {id}
    BY <1>3, <1>8, <2>2
  <2>4. InUse(q) \subseteq InUse(new)
    BY <1>19, <2>1, <2>2
  <2>5. id \in InUse(new)
    BY <1>3, <1>9, <2>1
  <2> QED
    BY <2>1, <2>3, <2>4, <2>5
<1> QED
  BY <1>14, <1>15, <1>17, <1>18, <1>20, <1>21 DEF new

\* Erasing a task takes its job only.
LEMMA EraseTaskSound ==
    ASSUME NEW q, NEW id, QueueInv(q), InTime(q)
    PROVE  LET new == eraseTask(q, id)
           IN  /\ QueueInv(new)
               /\ InTime(new)
               /\ \A i \in Ids : new.tasks[i] = IF i = id THEN NoJob ELSE q.tasks[i]
               /\ \A i \in Ids \ {id}, j \in Jobs, left \in Int :
                     Waits(q, i, j, left) => Waits(new, i, j, left)
               /\ InUse(new) = InUse(q)
<1> DEFINE new == eraseTask(q, id)
<1>1. q \in Queues
  BY DEF QueueInv
<1>2. /\ new \in Queues
      /\ new.queuedTasks = q.queuedTasks
      /\ new.next = q.next
      /\ \A i \in Ids : new.tasks[i] = IF i = id THEN NoJob ELSE q.tasks[i]
  BY <1>1 DEF eraseTask, Queues
<1> HIDE DEF new
<1>3. QueueInv(new)
  BY <1>2 DEF QueueInv
<1>4. \A k \in DOMAIN q.queuedTasks : q.queuedTasks[k].id \in Ids
  BY <1>1, EntryTyped DEF Queues, Entries
<1>5. InTime(new)
  BY <1>2, <1>4 DEF InTime
<1>6. \A i \in Ids \ {id}, j \in Jobs, left \in Int : Waits(q, i, j, left) => Waits(new, i, j, left)
  BY <1>2 DEF Waits
<1>7. InUse(new) = InUse(q)
  BY <1>2 DEF InUse
<1> QED
  BY <1>2, <1>3, <1>5, <1>6, <1>7 DEF new

\* A task waits once, and the loop is never later than MaxLate for it.
LEMMA WaitsOnce ==
    ASSUME NEW q, NEW id \in Ids, NEW job \in Jobs, NEW left \in Int,
           QueueInv(q), InTime(q), Waits(q, id, job, left)
    PROVE  /\ id \in InUse(q)
           /\ left >= -MaxLate
           /\ \A other \in Int : Waits(q, id, job, other) => other = left
<1>1. PICK k \in DOMAIN q.queuedTasks : q.queuedTasks[k] = [id |-> id, left |-> left]
  BY DEF Waits
<1>2. q.queuedTasks[k].id = id /\ q.queuedTasks[k].left = left
  BY <1>1
<1>3. q.tasks[id] # NoJob
  BY TaskAssumption DEF Waits
<1>4. left >= -MaxLate
  BY <1>2, <1>3 DEF InTime
<1>5. ASSUME NEW other \in Int, Waits(q, id, job, other) PROVE other = left
  <2>1. PICK m \in DOMAIN q.queuedTasks : q.queuedTasks[m] = [id |-> id, left |-> other]
    BY <1>5 DEF Waits
  <2>2. m = k
    BY <1>2, <2>1 DEF QueueInv, NoIdTwice
  <2> QED
    BY <1>2, <2>1, <2>2
<1> QED
  BY <1>2, <1>4, <1>5 DEF InUse

\* What performAll leaves is in order and in time, and what it runs is typed.
LEMMA PerformSound ==
    ASSUME QueueInv(queue), InTime(queue), performAll
    PROVE  /\ QueueInv(queue')
           /\ InTime(queue')
           /\ running' \subseteq [place : Nat, job : Jobs]
<1> DEFINE old   == queue.queuedTasks
           first == UpperBound(old, 0)
           Live  == {k \in 1 .. first - 1 : queue.tasks[old[k].id] # NoJob}
           later == SubSeq(old, first, Len(old))
<1>1. /\ queue \in Queues /\ old \in Entries /\ Sorted(old) /\ NoIdTwice(old)
  BY DEF QueueInv, Queues, Entries
<1>2. /\ running' = {[place |-> k, job |-> queue.tasks[old[k].id]] : k \in Live}
      /\ queue' = [tasks |-> [i \in Ids |-> IF \E k \in Live : old[k].id = i
                                            THEN NoJob ELSE queue.tasks[i]],
                   queuedTasks |-> later,
                   next |-> IF first \in DOMAIN old THEN old[first].left ELSE Never]
  BY DEF performAll
<1> HIDE DEF old
<1>3. /\ first \in 1 .. Len(old) + 1
      /\ \A k \in DOMAIN old : old[k].left <= 0 <=> k < first
  BY <1>1, UpperBoundSplits
<1>4. /\ Len(old) \in Nat /\ DOMAIN old = 1 .. Len(old)
      /\ \A k \in DOMAIN old : old[k] \in [id : Ids, left : Int] /\ old[k].left \in Int
  BY <1>1, EntryTyped
<1> HIDE DEF first
<1>5. /\ later \in Entries /\ Len(later) = Len(old) + 1 - first
      /\ \A k \in 1 .. Len(old) + 1 - first : later[k] = old[first + k - 1]
  <2> DEFINE Entry == [id : Ids, left : Int]
  <2> HIDE DEF Entry
  <2>1. \A k \in first .. Len(old) : old[k] \in Entry
    BY <1>3, <1>4 DEF Entry
  <2>2. /\ later \in Seq(Entry) /\ Len(later) = Len(old) + 1 - first
        /\ \A k \in 1 .. Len(old) + 1 - first : later[k] = old[first + k - 1]
    BY <1>3, <1>4, <2>1, SubSeqProperties
  <2> QED
    BY <2>2 DEF Entry, Entries
<1>6. /\ queue'.tasks = [i \in Ids |-> IF \E k \in Live : old[k].id = i
                                       THEN NoJob ELSE queue.tasks[i]]
      /\ queue'.queuedTasks = later
      /\ queue'.next = IF first \in DOMAIN old THEN old[first].left ELSE Never
  BY <1>2
<1> HIDE DEF Live, later
<1>7. DOMAIN later = 1 .. Len(old) + 1 - first
  BY <1>5, EntryTyped
<1>8. ASSUME NEW k \in DOMAIN later
      PROVE  /\ first + k - 1 \in DOMAIN old
             /\ later[k] = old[first + k - 1]
  BY <1>3, <1>4, <1>5, <1>7
<1>9. QueueInv(queue')
  <2>1. \A i \in Ids : queue.tasks[i] \in Jobs \cup {NoJob}
    BY <1>1 DEF Queues
  <2>2. queue'.next \in Int \cup {Never}
    BY <1>4, <1>6
  <2>3. queue' \in Queues
    BY <1>2, <1>5, <1>6, <2>1, <2>2 DEF Queues, Entries
  <2>4. Sorted(later)
    <3>1. SUFFICES ASSUME NEW j \in DOMAIN later, NEW k \in DOMAIN later, j <= k
                   PROVE  later[j].left <= later[k].left
      BY DEF Sorted
    <3>2. first + j - 1 <= first + k - 1
      BY <1>3, <1>7, <3>1
    <3> QED
      BY <1>1, <1>8, <3>2 DEF Sorted
  <2>5. NoIdTwice(later)
    <3>1. SUFFICES ASSUME NEW j \in DOMAIN later, NEW k \in DOMAIN later,
                          later[j].id = later[k].id
                   PROVE  j = k
      BY DEF NoIdTwice
    <3>2. first + j - 1 = first + k - 1
      BY <1>1, <1>8, <3>1 DEF NoIdTwice
    <3> QED
      BY <1>3, <1>7, <3>2
  <2>6. ASSUME NEW k \in DOMAIN later
        PROVE  queue'.next # Never /\ queue'.next <= later[k].left
    <3>1. first \in DOMAIN old /\ first <= first + k - 1
      BY <1>3, <1>4, <1>7
    <3>2. queue'.next = old[first].left /\ old[first].left \in Int
      BY <1>4, <1>6, <3>1
    <3>3. old[first].left <= old[first + k - 1].left
      BY <1>1, <1>8, <3>1 DEF Sorted
    <3> QED
      BY <1>8, <3>2, <3>3, TaskAssumption
  <2> QED
    BY <1>6, <2>3, <2>4, <2>5, <2>6 DEF QueueInv
<1>10. InTime(queue')
  <2>1. SUFFICES ASSUME NEW k \in DOMAIN later PROVE later[k].left >= -MaxLate
    BY <1>6 DEF InTime
  <2>2. ~ first + k - 1 < first /\ first + k - 1 \in DOMAIN old
    BY <1>3, <1>7, <1>8
  <2>3. ~ later[k].left <= 0 /\ later[k].left \in Int
    BY <1>3, <1>4, <1>8, <2>2
  <2> QED
    BY <2>3, TaskAssumption
<1>11. running' \subseteq [place : Nat, job : Jobs]
  <2>1. ASSUME NEW k \in Live PROVE k \in Nat /\ queue.tasks[old[k].id] \in Jobs
    <3>1. k \in DOMAIN old
      BY <1>3, <1>4 DEF Live
    <3> QED
      BY <1>1, <1>4, <3>1 DEF Live, Queues
  <2> QED
    BY <1>2, <2>1
<1> QED
  BY <1>9, <1>10, <1>11

\* A job that only one id can have: performAll runs its task if its time has
\* come, once, and leaves it in the queue if not.
LEMMA PerformOne ==
    ASSUME QueueInv(queue), performAll,
           NEW job \in Jobs, NEW id, \A i \in Ids : queue.tasks[i] = job => i = id
    PROVE  /\ \A f, g \in running' : f.job = job /\ g.job = job => f = g
           /\ \A i \in Ids : queue'.tasks[i] = job => i = id
           /\ (\E f \in running' : f.job = job) =>
                 /\ \A i \in Ids : queue'.tasks[i] # job
                 /\ id \in Ids
                 /\ \E left \in Int : left <= 0 /\ Waits(queue, id, job, left)
           /\ id \in Ids /\ (\A f \in running' : f.job # job) =>
                 \A left \in Int : Waits(queue, id, job, left) => Waits(queue', id, job, left)
<1> DEFINE old   == queue.queuedTasks
           first == UpperBound(old, 0)
           Live  == {k \in 1 .. first - 1 : queue.tasks[old[k].id] # NoJob}
           later == SubSeq(old, first, Len(old))
<1>1. /\ queue \in Queues /\ old \in Entries /\ Sorted(old) /\ NoIdTwice(old)
  BY DEF QueueInv, Queues, Entries
<1>2. /\ running' = {[place |-> k, job |-> queue.tasks[old[k].id]] : k \in Live}
      /\ queue'.tasks = [i \in Ids |-> IF \E k \in Live : old[k].id = i
                                       THEN NoJob ELSE queue.tasks[i]]
      /\ queue'.queuedTasks = later
  BY DEF performAll
<1> HIDE DEF old
<1>3. /\ first \in 1 .. Len(old) + 1
      /\ \A k \in DOMAIN old : old[k].left <= 0 <=> k < first
  BY <1>1, UpperBoundSplits
<1>4. /\ Len(old) \in Nat /\ DOMAIN old = 1 .. Len(old)
      /\ \A k \in DOMAIN old : old[k] \in [id : Ids, left : Int] /\ old[k].left \in Int
             /\ old[k].id \in Ids
  BY <1>1, EntryTyped
<1> HIDE DEF first, later
<1>5. job # NoJob
  BY TaskAssumption
\* The tasks that run the job are at the place of the id.
<1>6. ASSUME NEW k \in Live, queue.tasks[old[k].id] = job
      PROVE  k \in DOMAIN old /\ old[k].id = id /\ old[k].left <= 0
  <2>1. k \in DOMAIN old /\ k < first
    BY <1>3, <1>4
  <2> QED
    BY <1>3, <1>4, <1>6, <2>1
<1> HIDE DEF Live
<1>7. ASSUME NEW f \in running', f.job = job
      PROVE  \E k \in Live : f = [place |-> k, job |-> job] /\ queue.tasks[old[k].id] = job
  BY <1>2, <1>7
<1>8. \A f, g \in running' : f.job = job /\ g.job = job => f = g
  <2>1. SUFFICES ASSUME NEW f \in running', NEW g \in running', f.job = job, g.job = job
                 PROVE  f = g
    OBVIOUS
  <2>2. PICK k \in Live : f = [place |-> k, job |-> job] /\ queue.tasks[old[k].id] = job
    BY <1>7, <2>1
  <2>3. PICK m \in Live : g = [place |-> m, job |-> job] /\ queue.tasks[old[m].id] = job
    BY <1>7, <2>1
  <2>4. k = m
    BY <1>1, <1>6, <2>2, <2>3 DEF NoIdTwice
  <2> QED
    BY <2>2, <2>3, <2>4
<1>9. \A i \in Ids : queue'.tasks[i] = job => i = id
  BY <1>2, <1>5
<1>10. ASSUME NEW f \in running', f.job = job
       PROVE  /\ \A i \in Ids : queue'.tasks[i] # job
              /\ id \in Ids
              /\ \E left \in Int : left <= 0 /\ Waits(queue, id, job, left)
  <2>1. PICK k \in Live : queue.tasks[old[k].id] = job
    BY <1>7, <1>10
  <2>2. k \in DOMAIN old /\ old[k].id = id /\ old[k].left <= 0
    BY <1>6, <2>1
  <2>3. queue'.tasks[id] = NoJob /\ id \in Ids
    BY <1>2, <1>4, <2>2
  <2>4. old[k] = [id |-> id, left |-> old[k].left] /\ old[k].left \in Int
    BY <1>4, <2>2
  <2>5. Waits(queue, id, job, old[k].left)
    BY <2>1, <2>2, <2>4 DEF Waits, old
  <2> QED
    BY <1>5, <1>9, <2>2, <2>3, <2>4, <2>5
<1>11. ASSUME id \in Ids, \A f \in running' : f.job # job,
              NEW left \in Int, Waits(queue, id, job, left)
       PROVE  Waits(queue', id, job, left)
  <2>1. PICK k \in DOMAIN old : old[k] = [id |-> id, left |-> left]
    BY <1>11 DEF Waits, old
  <2>2. queue.tasks[id] = job /\ old[k].id = id
    BY <1>11, <2>1 DEF Waits
  <2>3. k \notin Live
    <3>1. SUFFICES ASSUME k \in Live PROVE FALSE
      OBVIOUS
    <3>2. [place |-> k, job |-> queue.tasks[old[k].id]] \in running'
      BY <1>2, <3>1
    <3>3. [place |-> k, job |-> job] \in running'
      BY <2>2, <3>2
    <3> QED
      BY <1>11, <3>3
  <2>4. ~ k < first
    BY <1>3, <1>4, <1>5, <2>2, <2>3 DEF Live
  <2>5. \A m \in Live : old[m].id # id
    BY <1>1, <1>3, <1>4, <2>2, <2>3 DEF NoIdTwice, Live
  <2>6. queue'.tasks[id] = job
    BY <1>2, <1>11, <2>2, <2>5
  <2>7. k + 1 - first \in DOMAIN later /\ later[k + 1 - first] = old[k]
    <3> DEFINE Entry == [id : Ids, left : Int]
    <3> HIDE DEF Entry
    <3>1. \A m \in first .. Len(old) : old[m] \in Entry
      BY <1>3, <1>4 DEF Entry
    <3>2. /\ later \in Seq(Entry) /\ Len(later) = Len(old) + 1 - first
          /\ \A m \in 1 .. Len(old) + 1 - first : later[m] = old[first + m - 1]
      BY <1>3, <1>4, <3>1, SubSeqProperties DEF later
    <3>3. DOMAIN later = 1 .. Len(old) + 1 - first
      BY <3>2, LenProperties
    <3>4. k + 1 - first \in 1 .. Len(old) + 1 - first /\ first + (k + 1 - first) - 1 = k
      BY <1>3, <1>4, <2>4
    <3> QED
      BY <3>2, <3>3, <3>4
  <2> QED
    BY <1>2, <2>1, <2>6, <2>7 DEF Waits
<1> QED
  BY <1>8, <1>9, <1>10, <1>11

\* A tick takes one from the time of every task, and the loop does not sleep past any.
LEMMA TickSound ==
    ASSUME QueueInv(queue), InTime(queue), Tick
    PROVE  /\ QueueInv(queue')
           /\ InTime(queue')
           /\ queue'.tasks = queue.tasks
           /\ \A i \in Ids, j \in Jobs, left \in Int :
                 Waits(queue, i, j, left) => Waits(queue', i, j, left - 1)
<1> DEFINE old == queue.queuedTasks
           new == queue'.queuedTasks
<1>1. /\ queue \in Queues /\ old \in Entries /\ Sorted(old) /\ NoIdTwice(old)
      /\ \A k \in DOMAIN old : queue.next # Never /\ queue.next <= old[k].left
  BY DEF QueueInv, Queues, Entries
<1>2. /\ queue' = [queue EXCEPT
           !.queuedTasks = [k \in DOMAIN old |-> [old[k] EXCEPT !.left = @ - 1]],
           !.next = IF @ = Never THEN Never ELSE @ - 1]
      /\ TimeIsUp(queue) => queue.next > -MaxLate
  BY DEF Tick
<1>3. /\ queue'.tasks = queue.tasks
      /\ new = [k \in DOMAIN old |-> [old[k] EXCEPT !.left = @ - 1]]
      /\ queue'.next = IF queue.next = Never THEN Never ELSE queue.next - 1
      /\ queue' = [tasks |-> queue'.tasks, queuedTasks |-> new, next |-> queue'.next]
  BY <1>1, <1>2 DEF Queues
<1> HIDE DEF old, new
<1>4. /\ Len(old) \in Nat /\ DOMAIN old = 1 .. Len(old)
      /\ \A k \in DOMAIN old : old[k] \in [id : Ids, left : Int] /\ old[k].left \in Int
             /\ old[k].id \in Ids
  BY <1>1, EntryTyped
<1>5. ASSUME NEW k \in DOMAIN old
      PROVE  /\ new[k] = [id |-> old[k].id, left |-> old[k].left - 1]
             /\ new[k].id = old[k].id /\ new[k].left = old[k].left - 1
             /\ new[k] \in [id : Ids, left : Int]
             /\ old[k].left \in Int /\ new[k].left \in Int
  <2>1. new[k] = [old[k] EXCEPT !.left = @ - 1]
    BY <1>3
  <2> QED
    BY <1>4, <2>1
<1>6. DOMAIN new = DOMAIN old /\ new \in Entries
  <2>1. new \in [1 .. Len(old) -> [id : Ids, left : Int]]
    BY <1>3, <1>4, <1>5
  <2> QED
    BY <1>3, <1>4, <2>1, IsASeq DEF Entries
<1>7. queue.next \in Int \cup {Never} /\ queue.tasks \in [Ids -> Jobs \cup {NoJob}]
  BY <1>1 DEF Queues
<1>8. QueueInv(queue')
  <2>1. queue' \in Queues
    <3>1. queue'.next \in Int \cup {Never}
      BY <1>3, <1>7
    <3> DEFINE tasks == queue.tasks
               next  == queue'.next
    <3>2. queue' = [tasks |-> tasks, queuedTasks |-> new, next |-> next]
      BY <1>3
    <3>3. tasks \in [Ids -> Jobs \cup {NoJob}] /\ next \in Int \cup {Never}
      BY <1>7, <3>1
    <3> HIDE DEF tasks, next
    <3> QED
      BY <1>6, <3>2, <3>3 DEF Queues, Entries
  <2>2. Sorted(new)
    <3>1. SUFFICES ASSUME NEW j \in DOMAIN old, NEW k \in DOMAIN old, j <= k
                   PROVE  new[j].left <= new[k].left
      BY <1>6 DEF Sorted
    <3>2. old[j].left <= old[k].left
      BY <1>1, <3>1 DEF Sorted
    <3>3. /\ new[j].left = old[j].left - 1 /\ old[j].left \in Int
          /\ new[k].left = old[k].left - 1 /\ old[k].left \in Int
      BY <1>5
    <3> QED
      BY <3>2, <3>3
  <2>3. NoIdTwice(new)
    BY <1>1, <1>5, <1>6 DEF NoIdTwice
  <2>4. ASSUME NEW k \in DOMAIN old PROVE queue'.next # Never /\ queue'.next <= new[k].left
    <3>1. queue.next \in Int /\ queue.next # Never /\ queue.next <= old[k].left
      BY <1>1, <1>7
    <3>2. queue'.next = queue.next - 1
      BY <1>3, <3>1
    <3>3. new[k].left = old[k].left - 1 /\ old[k].left \in Int
      BY <1>5
    <3>4. queue'.next \in Int
      BY <3>1, <3>2
    <3>5. queue'.next # Never
      BY <3>4, TaskAssumption
    <3> QED
      BY <3>1, <3>2, <3>3, <3>5
  <2> QED
    BY <1>6, <2>1, <2>2, <2>3, <2>4 DEF QueueInv, new
<1>9. InTime(queue')
  <2>1. SUFFICES ASSUME NEW k \in DOMAIN old, queue.tasks[old[k].id] # NoJob
                 PROVE  new[k].left >= -MaxLate
    BY <1>3, <1>5, <1>6 DEF InTime, new
  <2>2. queue.next \in Int /\ queue.next # Never /\ queue.next <= old[k].left
    BY <1>1, <1>7
  <2>3. queue.next <= 0 => queue.next > -MaxLate
    BY <1>2, <1>4, <2>1, <2>2 DEF TimeIsUp
  <2>4. new[k].left = old[k].left - 1 /\ old[k].left \in Int
    BY <1>5
  <2>5. MaxLate \in Nat
    BY TaskAssumption
  <2> QED
    BY <2>2, <2>3, <2>4, <2>5
<1>10. ASSUME NEW i \in Ids, NEW j \in Jobs, NEW left \in Int, Waits(queue, i, j, left)
       PROVE  Waits(queue', i, j, left - 1)
  <2>1. PICK k \in DOMAIN old : old[k] = [id |-> i, left |-> left]
    BY <1>10 DEF Waits, old
  <2>2. new[k] = [id |-> i, left |-> left - 1] /\ k \in DOMAIN new
    BY <1>5, <1>6, <2>1
  <2> QED
    BY <1>3, <1>10, <2>2 DEF Waits, new
<1> QED
  BY <1>3, <1>8, <1>9, <1>10

----------------------------------------------------------------------------
(* The inductive invariant.                                                *)

\* One task at most has the job, the one that is remembered: it waits, with that
\* many ticks left, or its time has come and it is about to run.
OneTask(q, toRun, job, id, left) ==
    /\ \A i \in Ids : q.tasks[i] = job => i = id
    /\ \A f, g \in toRun : f.job = job /\ g.job = job => f = g
    /\ (\E f \in toRun : f.job = job) =>
          id # 0 /\ left <= 0 /\ \A i \in Ids : q.tasks[i] # job
    /\ id # 0 /\ (\A f \in toRun : f.job # job) => Waits(q, id, job, left)

\* The end of what the last keep-alive began is the one that is remembered.
ResetInv ==
    /\ OneTask(queue, running, "unset_keepalive", keep_alive_reset_task_id, ResetDelay - quiet)
    /\ alive <=> keep_alive_reset_task_id # 0
    /\ ~alive => quiet >= ResetDelay
    /\ alive => quiet <= ResetDelay + MaxLate

\* So is the next heartbeat; it stays when the life it was started in ends.
HeartbeatInv ==
    /\ OneTask(queue, running, "heartbeat", heartbeat_task_id, HeartbeatDelay - silence)
    /\ alive => heartbeat_task_id # 0
    /\ heartbeat_task_id # 0 => silence <= HeartbeatDelay + MaxLate

KeepAliveInv ==
    /\ TypeOK
    /\ QueueInv(queue)
    /\ Timely
    /\ ResetInv
    /\ HeartbeatInv
    /\ RateLimited

LEMMA JobNames ==
    /\ "unset_keepalive" \in Jobs /\ "heartbeat" \in Jobs /\ "per_second_action" \in Jobs
    /\ 0 \notin Ids
    /\ ResetDelay \in Nat /\ HeartbeatDelay \in Nat /\ SecondDelay \in Nat /\ MaxLate \in Nat
    /\ ResetDelay > 0 /\ HeartbeatDelay > 0 /\ SecondDelay > 0
BY TaskAssumption, KeepAliveAssumption

\* Another task comes, or one with another job has run.
LEMMA OneKept ==
    ASSUME NEW q, NEW toRun, NEW toRun2, NEW job \in Jobs, NEW id \in Ids \cup {0},
           NEW left \in Int, NEW id2 \in Ids \ InUse(q), NEW job2 \in Jobs, NEW delay \in Nat,
           QueueInv(q), InTime(q), OneTask(q, toRun, job, id, left),
           id2 # id, job2 # job,
           \A f \in toRun2 : f \in toRun,
           \A f \in toRun : f.job = job => f \in toRun2
    PROVE  OneTask(addTask(q, id2, job2, delay), toRun2, job, id, left)
<1> DEFINE new == addTask(q, id2, job2, delay)
<1>1. /\ Waits(new, id2, job2, delay)
      /\ \A i \in Ids \ {id2} : new.tasks[i] = q.tasks[i]
      /\ \A i \in Ids \ {id2}, j \in Jobs, l \in Int : Waits(q, i, j, l) => Waits(new, i, j, l)
  BY AddTaskSound
<1>2. new.tasks[id2] = job2
  BY <1>1 DEF Waits
<1> HIDE DEF new
<1>3. \A i \in Ids : new.tasks[i] = job => q.tasks[i] = job
  BY <1>1, <1>2
<1>4. id # 0 /\ Waits(q, id, job, left) => Waits(new, id, job, left)
  BY <1>1
<1> QED
  BY <1>3, <1>4 DEF OneTask, new

\* The task is added when none has its job.
LEMMA OneStarted ==
    ASSUME NEW q, NEW toRun, NEW job \in Jobs, NEW id \in Ids \ InUse(q), NEW delay \in Nat,
           QueueInv(q), InTime(q),
           \A i \in Ids : q.tasks[i] # job, \A f \in toRun : f.job # job
    PROVE  OneTask(addTask(q, id, job, delay), toRun, job, id, delay)
<1> DEFINE new == addTask(q, id, job, delay)
<1>1. /\ Waits(new, id, job, delay)
      /\ \A i \in Ids \ {id} : new.tasks[i] = q.tasks[i]
  BY AddTaskSound
<1> HIDE DEF new
<1> QED
  BY <1>1 DEF OneTask, new

\* It is erased before its time; the tasks of the other jobs stay.
LEMMA OneErased ==
    ASSUME NEW q, NEW job \in Jobs, NEW id \in Ids \cup {0}, NEW left \in Int,
           QueueInv(q), InTime(q), OneTask(q, {}, job, id, left)
    PROVE  /\ \A i \in Ids : eraseTask(q, id).tasks[i] # job
           /\ \A job2 \in Jobs \ {job}, id2 \in Ids \cup {0}, left2 \in Int :
                 OneTask(q, {}, job2, id2, left2) =>
                     OneTask(eraseTask(q, id), {}, job2, id2, left2)
<1> DEFINE new == eraseTask(q, id)
<1>1. /\ \A i \in Ids : new.tasks[i] = IF i = id THEN NoJob ELSE q.tasks[i]
      /\ \A i \in Ids \ {id}, j \in Jobs, l \in Int : Waits(q, i, j, l) => Waits(new, i, j, l)
  BY EraseTaskSound
<1> HIDE DEF new
<1>2. NoJob \notin Jobs
  BY TaskAssumption
<1>3. \A i \in Ids : new.tasks[i] # job
  BY <1>1, <1>2 DEF OneTask
<1>4. ASSUME NEW job2 \in Jobs \ {job}, NEW id2 \in Ids \cup {0}, NEW left2 \in Int,
             OneTask(q, {}, job2, id2, left2)
      PROVE  OneTask(new, {}, job2, id2, left2)
  <2>1. \A i \in Ids : new.tasks[i] = job2 => i = id2
    BY <1>1, <1>2, <1>4 DEF OneTask
  <2>2. ASSUME id2 # 0 PROVE Waits(new, id2, job2, left2)
    <3>1. Waits(q, id2, job2, left2) /\ q.tasks[id2] = job2
      BY <1>4, <2>2 DEF OneTask, Waits
    <3>2. id # 0 => q.tasks[id] = job
      BY DEF OneTask, Waits
    <3>3. id2 # id /\ id2 \in Ids
      BY <2>2, <3>1, <3>2
    <3> QED
      BY <1>1, <3>1, <3>3
  <2> QED
    BY <2>1, <2>2 DEF OneTask
<1> QED
  BY <1>3, <1>4 DEF new

\* It has run: nothing has the job any more.
LEMMA OneEnded ==
    ASSUME NEW q, NEW toRun, NEW toRun2, NEW job \in Jobs, NEW id, NEW left, NEW any,
           OneTask(q, toRun, job, id, left),
           NEW f \in toRun, f.job = job, toRun2 = toRun \ {f}
    PROVE  /\ \A i \in Ids : q.tasks[i] # job
           /\ \A g \in toRun2 : g.job # job
           /\ OneTask(q, toRun2, job, 0, any)
BY DEF OneTask

\* The loop performs what is due.
LEMMA OnePerformed ==
    ASSUME QueueInv(queue), InTime(queue), performAll,
           NEW job \in Jobs, NEW id \in Ids \cup {0}, NEW left \in Int,
           OneTask(queue, running, job, id, left)
    PROVE  OneTask(queue', running', job, id, left)
<1>1. /\ \A i \in Ids : queue.tasks[i] = job => i = id
      /\ id # 0 => Waits(queue, id, job, left)
  BY DEF OneTask, performAll
<1>2. /\ \A f, g \in running' : f.job = job /\ g.job = job => f = g
      /\ \A i \in Ids : queue'.tasks[i] = job => i = id
      /\ (\E f \in running' : f.job = job) =>
            /\ \A i \in Ids : queue'.tasks[i] # job
            /\ id \in Ids
            /\ \E l \in Int : l <= 0 /\ Waits(queue, id, job, l)
      /\ id \in Ids /\ (\A f \in running' : f.job # job) =>
            \A l \in Int : Waits(queue, id, job, l) => Waits(queue', id, job, l)
  BY <1>1, PerformOne
<1>3. ASSUME NEW f \in running', f.job = job
      PROVE  id # 0 /\ left <= 0 /\ \A i \in Ids : queue'.tasks[i] # job
  <2>1. id \in Ids /\ id # 0
    BY <1>2, <1>3, JobNames
  <2>2. PICK l \in Int : l <= 0 /\ Waits(queue, id, job, l)
    BY <1>2, <1>3
  <2>3. l = left
    BY <1>1, <2>1, <2>2, WaitsOnce
  <2> QED
    BY <1>2, <1>3, <2>1, <2>2, <2>3
<1>4. ASSUME id # 0, \A f \in running' : f.job # job PROVE Waits(queue', id, job, left)
  BY <1>1, <1>2, <1>4
<1> QED
  BY <1>2, <1>3, <1>4 DEF OneTask

\* The clock ticks.
LEMMA OneTicks ==
    ASSUME QueueInv(queue), InTime(queue), Tick,
           NEW job \in Jobs, NEW id \in Ids \cup {0}, NEW left \in Int,
           OneTask(queue, running, job, id, left)
    PROVE  /\ OneTask(queue', running', job, id, left - 1)
           /\ id # 0 => left - 1 >= -MaxLate
<1>1. /\ QueueInv(queue') /\ InTime(queue') /\ queue'.tasks = queue.tasks
      /\ \A i \in Ids, j \in Jobs, l \in Int : Waits(queue, i, j, l) => Waits(queue', i, j, l - 1)
  BY TickSound
<1>2. running = {} /\ running' = {}
  BY DEF Tick
<1>3. ASSUME id # 0
      PROVE  Waits(queue', id, job, left - 1) /\ left - 1 >= -MaxLate
  <2>1. Waits(queue', id, job, left - 1) /\ left - 1 \in Int /\ id \in Ids
    BY <1>1, <1>2, <1>3 DEF OneTask
  <2> QED
    BY <1>1, <2>1, WaitsOnce
<1> QED
  BY <1>1, <1>2, <1>3 DEF OneTask

----------------------------------------------------------------------------
(* The steps.                                                              *)

LEMMA FreshId ==
    ASSUME NEW q, NEW id, NEW remembered, NewId(q, id, remembered)
    PROVE  id \in Ids \ InUse(q) /\ id \notin remembered
BY DEF NewId

LEMMA InitKeepAlive == Init => KeepAliveInv
<1> SUFFICES ASSUME Init PROVE KeepAliveInv
  OBVIOUS
<1>1. QueueInv(EmptyQueue) /\ InTime(EmptyQueue)
  <2>1. <<>> \in Seq([id : Ids, left : Int]) /\ DOMAIN <<>> = {}
    OBVIOUS
  <2> QED
    BY <2>1 DEF QueueInv, InTime, EmptyQueue, Queues, Sorted, NoIdTwice
<1>2. PICK id \in Ids \ InUse(EmptyQueue) :
         /\ queue = addTask(EmptyQueue, id, "per_second_action", SecondDelay)
         /\ period_task_id = id
  BY FreshId DEF Init
<1>3. /\ QueueInv(queue) /\ InTime(queue)
      /\ queue.tasks[id] = "per_second_action"
      /\ \A i \in Ids \ {id} : queue.tasks[i] = NoJob
  <2>1. /\ QueueInv(queue) /\ InTime(queue)
        /\ Waits(queue, id, "per_second_action", SecondDelay)
        /\ \A i \in Ids \ {id} : queue.tasks[i] = EmptyQueue.tasks[i]
    BY <1>1, <1>2, AddTaskSound, JobNames
  <2> QED
    BY <2>1 DEF Waits, EmptyQueue
<1>4. NoJob # "unset_keepalive" /\ NoJob # "heartbeat"
  BY TaskAssumption, JobNames
<1>5. Timely
  BY <1>3 DEF Timely, InTime
<1>6. /\ running = {} /\ alive = FALSE /\ keep_alive_reset_task_id = 0 /\ heartbeat_task_id = 0
      /\ keepAliveTokens = KEEPALIVE_TOKENS /\ published = 0
      /\ quiet = QuietMax /\ silence = SilenceMax
  BY DEF Init
<1>7. /\ QuietMax \in Nat /\ SilenceMax \in Nat /\ QuietMax >= ResetDelay
      /\ KEEPALIVE_TOKENS \in Nat /\ MaxExcess \in Nat
  BY JobNames, KeepAliveAssumption DEF QuietMax, SilenceMax
<1>8. TypeOK
  <2>1. queue \in Queues
    BY <1>3 DEF QueueInv
  <2>2. /\ KEEPALIVE_TOKENS \in -MaxExcess .. KEEPALIVE_TOKENS
        /\ QuietMax \in 0 .. QuietMax /\ SilenceMax \in 0 .. SilenceMax /\ 0 \in Nat
    BY <1>7
  <2> QED
    BY <1>2, <1>6, <2>1, <2>2 DEF TypeOK
<1>9. ResetInv /\ HeartbeatInv
  <2>1. \A i \in Ids : queue.tasks[i] # "unset_keepalive" /\ queue.tasks[i] # "heartbeat"
    BY <1>3, <1>4
  <2> QED
    BY <1>6, <1>7, <2>1 DEF ResetInv, HeartbeatInv, OneTask
<1>10. RateLimited
  BY <1>6, <1>7 DEF RateLimited
<1> QED
  BY <1>3, <1>5, <1>8, <1>9, <1>10 DEF KeepAliveInv

\* What every step may use.
LEMMA InvFacts ==
    ASSUME KeepAliveInv
    PROVE  /\ QueueInv(queue) /\ InTime(queue)
           /\ running \subseteq [place : Nat, job : Jobs] /\ alive \in BOOLEAN
           /\ keep_alive_reset_task_id \in Ids \cup {0}
           /\ heartbeat_task_id \in Ids \cup {0}
           /\ period_task_id \in Ids \cup {0}
           /\ keepAliveTokens \in Int /\ keepAliveTokens >= -MaxExcess
           /\ keepAliveTokens <= KEEPALIVE_TOKENS
           /\ quiet \in Nat /\ quiet <= QuietMax /\ silence \in Nat /\ silence <= SilenceMax
           /\ published \in Nat
           /\ QuietMax \in Nat /\ SilenceMax \in Nat
           /\ KEEPALIVE_TOKENS \in Nat /\ MaxExcess \in Nat
           /\ ResetDelay - quiet \in Int /\ HeartbeatDelay - silence \in Int
<1>1. QuietMax \in Nat /\ SilenceMax \in Nat /\ KEEPALIVE_TOKENS \in Nat /\ MaxExcess \in Nat
  BY JobNames, KeepAliveAssumption DEF QuietMax, SilenceMax
<1> QED
  BY <1>1, JobNames DEF KeepAliveInv, TypeOK, Timely, InTime

\* The types after a step, but for the queue.
LEMMA TypesAfter ==
    ASSUME QueueInv(queue'), InTime(queue'),
           running' \subseteq [place : Nat, job : Jobs], alive' \in BOOLEAN,
           keep_alive_reset_task_id' \in Ids \cup {0},
           heartbeat_task_id' \in Ids \cup {0},
           period_task_id' \in Ids \cup {0},
           keepAliveTokens' \in Int, keepAliveTokens' >= -MaxExcess,
           keepAliveTokens' <= KEEPALIVE_TOKENS,
           quiet' \in Nat, quiet' <= QuietMax, silence' \in Nat, silence' <= SilenceMax,
           published' \in Nat
    PROVE  TypeOK' /\ Timely'
<1>1. /\ KEEPALIVE_TOKENS \in Nat /\ MaxExcess \in Nat
      /\ QuietMax \in Nat /\ SilenceMax \in Nat
  BY JobNames, KeepAliveAssumption DEF QuietMax, SilenceMax
<1>2. /\ keepAliveTokens' \in -MaxExcess .. KEEPALIVE_TOKENS
      /\ quiet' \in 0 .. QuietMax /\ silence' \in 0 .. SilenceMax
  BY <1>1
<1>3. queue' \in Queues
  BY DEF QueueInv
<1>4. Timely'
  BY DEF Timely, InTime
<1>5. QuietMax' = QuietMax /\ SilenceMax' = SilenceMax /\ Queues' = Queues
  BY DEF QuietMax, SilenceMax, Queues
<1> QED
  BY <1>2, <1>3, <1>4, <1>5 DEF TypeOK

LEMMA KeepAliveStep ==
    ASSUME KeepAliveInv, NEW suppress \in BOOLEAN, handle_keepalive(suppress)
    PROVE  KeepAliveInv'
<1> DEFINE kid == keep_alive_reset_task_id
           hid == heartbeat_task_id
           q0  == eraseTask(queue, kid)
<1> USE InvFacts, JobNames
<1>1. running = {} /\ running' = {}
  BY DEF handle_keepalive
<1>2. PICK id \in Ids, id2 \in Ids :
         /\ NewId(queue, id, Remembered)
         /\ keep_alive_reset_task_id' = id
         /\ NewId(Prolonged(id), id2, Remembered)
         /\ StartHeartbeat(Prolonged(id), id2)
  BY DEF handle_keepalive
<1>3. alive' = TRUE /\ quiet' = 0 /\ period_task_id' = period_task_id
  BY DEF handle_keepalive
<1>4. /\ OneTask(queue, {}, "unset_keepalive", kid, ResetDelay - quiet)
      /\ OneTask(queue, {}, "heartbeat", hid, HeartbeatDelay - silence)
  BY <1>1 DEF KeepAliveInv, ResetInv, HeartbeatInv
<1>5. /\ QueueInv(q0) /\ InTime(q0) /\ InUse(q0) = InUse(queue)
      /\ \A i \in Ids : q0.tasks[i] # "unset_keepalive"
      /\ OneTask(q0, {}, "heartbeat", hid, HeartbeatDelay - silence)
  <2>1. QueueInv(q0) /\ InTime(q0) /\ InUse(q0) = InUse(queue)
    BY EraseTaskSound
  <2>2. "heartbeat" \in Jobs \ {"unset_keepalive"}
    OBVIOUS
  <2> QED
    BY <1>4, <2>1, <2>2, OneErased
<1> HIDE DEF q0
<1>6. id \in Ids \ InUse(q0) /\ id # kid /\ id # hid
  BY <1>2, <1>5, FreshId DEF Remembered
<1> DEFINE q1 == Prolonged(id)
<1>7. q1 = addTask(q0, id, "unset_keepalive", ResetDelay)
  BY DEF Prolonged, q0
<1> HIDE DEF q1
<1>8. /\ QueueInv(q1) /\ InTime(q1) /\ InUse(q1) = InUse(q0) \cup {id}
      /\ OneTask(q1, {}, "unset_keepalive", id, ResetDelay)
      /\ OneTask(q1, {}, "heartbeat", hid, HeartbeatDelay - silence)
  <2>1. QueueInv(q1) /\ InTime(q1) /\ InUse(q1) = InUse(q0) \cup {id}
    BY <1>5, <1>6, <1>7, AddTaskSound
  <2>2. OneTask(q1, {}, "unset_keepalive", id, ResetDelay)
    BY <1>5, <1>6, <1>7, OneStarted
  <2>3. OneTask(q1, {}, "heartbeat", hid, HeartbeatDelay - silence)
    BY <1>5, <1>6, <1>7, OneKept
  <2> QED
    BY <2>1, <2>2, <2>3
<1>9. id2 \in Ids \ InUse(q1) /\ id2 # id /\ id2 # hid
  BY <1>2, <1>8, FreshId DEF Remembered, q1
<1>10. /\ QueueInv(queue') /\ InTime(queue')
       /\ OneTask(queue', {}, "unset_keepalive", id, ResetDelay)
       /\ OneTask(queue', {}, "heartbeat", heartbeat_task_id', HeartbeatDelay - silence')
       /\ heartbeat_task_id' \in Ids
       /\ silence' \in Nat /\ silence' <= HeartbeatDelay + MaxLate /\ silence' <= SilenceMax
  <2>1. CASE hid = 0
    <3>1. /\ queue' = addTask(q1, id2, "heartbeat", HeartbeatDelay)
          /\ heartbeat_task_id' = id2 /\ silence' = 0
      BY <1>2, <2>1 DEF StartHeartbeat, Beat, q1
    <3>2. QueueInv(queue') /\ InTime(queue')
      BY <1>8, <1>9, <3>1, AddTaskSound
    <3>3. \A i \in Ids : q1.tasks[i] # "heartbeat"
      BY <1>8, <2>1 DEF OneTask
    <3>4. OneTask(queue', {}, "heartbeat", id2, HeartbeatDelay)
      BY <1>8, <1>9, <3>1, <3>3, OneStarted
    <3>5. OneTask(queue', {}, "unset_keepalive", id, ResetDelay)
      BY <1>8, <1>9, <3>1, OneKept
    <3>6. HeartbeatDelay - silence' = HeartbeatDelay
      BY <3>1
    <3> QED
      BY <3>1, <3>2, <3>4, <3>5, <3>6
  <2>2. CASE hid # 0
    <3>1. queue' = q1 /\ heartbeat_task_id' = hid /\ silence' = silence
      BY <1>2, <2>2 DEF StartHeartbeat, q1
    <3>2. silence <= HeartbeatDelay + MaxLate
      BY <2>2 DEF KeepAliveInv, HeartbeatInv
    <3> QED
      BY <1>8, <2>2, <3>1, <3>2
  <2> QED
    BY <2>1, <2>2
<1>11. ResetInv'
  <2>1. /\ keep_alive_reset_task_id' = id /\ id # 0 /\ ResetDelay - quiet' = ResetDelay
        /\ quiet' <= ResetDelay + MaxLate
    BY <1>2, <1>3
  <2> QED
    BY <1>1, <1>3, <1>10, <2>1 DEF ResetInv
<1>12. HeartbeatInv'
  BY <1>1, <1>10 DEF HeartbeatInv
<1>13. /\ keepAliveTokens' \in Int /\ keepAliveTokens' >= -MaxExcess
       /\ keepAliveTokens' <= KEEPALIVE_TOKENS /\ published' \in Nat
       /\ RateLimited'
  <2>1. /\ keepAliveTokens > -MaxExcess
        /\ keepAliveTokens' = IF suppress THEN keepAliveTokens ELSE keepAliveTokens - 1
        /\ published' = IF ~suppress /\ keepAliveTokens > 0 THEN published + 1 ELSE published
    BY DEF handle_keepalive, TokensAfter
  <2>2. RateLimited
    BY DEF KeepAliveInv
  <2> QED
    BY <2>1, <2>2 DEF RateLimited
<1>14. TypeOK' /\ Timely'
  BY <1>1, <1>2, <1>3, <1>10, <1>13, TypesAfter
<1> QED
  BY <1>10, <1>11, <1>12, <1>13, <1>14 DEF KeepAliveInv

LEMMA UnsetStep == KeepAliveInv /\ unset_keepalive => KeepAliveInv'
<1> SUFFICES ASSUME KeepAliveInv, unset_keepalive PROVE KeepAliveInv'
  OBVIOUS
<1> USE InvFacts, JobNames
<1>1. PICK f \in running : f.job = "unset_keepalive" /\ running' = running \ {f}
  BY DEF unset_keepalive, Runs
<1>2. /\ alive' = FALSE /\ keep_alive_reset_task_id' = 0 /\ queue' = queue
      /\ heartbeat_task_id' = heartbeat_task_id /\ period_task_id' = period_task_id
      /\ keepAliveTokens' = keepAliveTokens /\ quiet' = quiet /\ silence' = silence
      /\ published' = published
  BY DEF unset_keepalive
<1>3. OneTask(queue, running, "unset_keepalive", keep_alive_reset_task_id, ResetDelay - quiet)
  BY DEF KeepAliveInv, ResetInv
<1>4. ResetInv'
  <2>1. OneTask(queue', running', "unset_keepalive", keep_alive_reset_task_id',
                ResetDelay - quiet')
    BY <1>1, <1>2, <1>3, OneEnded
  <2>2. quiet >= ResetDelay
    BY <1>1, <1>3 DEF OneTask
  <2> QED
    BY <1>2, <2>1, <2>2 DEF ResetInv
<1>5. HeartbeatInv'
  <2>1. /\ OneTask(queue, running, "heartbeat", heartbeat_task_id, HeartbeatDelay - silence)
        /\ heartbeat_task_id # 0 => silence <= HeartbeatDelay + MaxLate
    BY DEF KeepAliveInv, HeartbeatInv
  <2>2. \A g \in running : g.job = "heartbeat" => g \in running'
    BY <1>1
  <2>3. OneTask(queue', running', "heartbeat", heartbeat_task_id', HeartbeatDelay - silence')
    BY <1>1, <1>2, <2>1, <2>2 DEF OneTask
  <2> QED
    BY <1>2, <2>1, <2>3 DEF HeartbeatInv
<1>6. RateLimited'
  BY <1>2 DEF KeepAliveInv, RateLimited
<1>7. TypeOK' /\ Timely'
  BY <1>1, <1>2, TypesAfter
<1> QED
  BY <1>2, <1>4, <1>5, <1>6, <1>7 DEF KeepAliveInv

LEMMA HeartbeatStep == KeepAliveInv /\ heartbeat => KeepAliveInv'
<1> SUFFICES ASSUME KeepAliveInv, heartbeat PROVE KeepAliveInv'
  OBVIOUS
<1> USE InvFacts, JobNames
<1>1. PICK f \in running : f.job = "heartbeat" /\ running' = running \ {f}
  BY DEF heartbeat, Runs
<1>2. /\ alive' = alive /\ keep_alive_reset_task_id' = keep_alive_reset_task_id
      /\ period_task_id' = period_task_id /\ keepAliveTokens' = keepAliveTokens
      /\ quiet' = quiet /\ published' = published
  BY DEF heartbeat
<1>3. /\ OneTask(queue, running, "unset_keepalive", keep_alive_reset_task_id, ResetDelay - quiet)
      /\ OneTask(queue, running, "heartbeat", heartbeat_task_id, HeartbeatDelay - silence)
  BY DEF KeepAliveInv, ResetInv, HeartbeatInv
<1>4. \A g \in running : g.job = "unset_keepalive" => g \in running'
  BY <1>1
<1>5. /\ \A i \in Ids : queue.tasks[i] # "heartbeat"
      /\ \A g \in running' : g.job # "heartbeat"
      /\ \A any \in Int : OneTask(queue, running', "heartbeat", 0, any)
  BY <1>1, <1>3, OneEnded
<1>6. /\ QueueInv(queue') /\ InTime(queue')
      /\ OneTask(queue', running', "unset_keepalive", keep_alive_reset_task_id,
                 ResetDelay - quiet)
      /\ OneTask(queue', running', "heartbeat", heartbeat_task_id', HeartbeatDelay - silence')
      /\ heartbeat_task_id' \in Ids \cup {0}
      /\ alive => heartbeat_task_id' # 0
      /\ heartbeat_task_id' # 0 => silence' <= HeartbeatDelay + MaxLate
      /\ silence' \in Nat /\ silence' <= SilenceMax
  <2>1. CASE alive
    <3>1. PICK id \in Ids : /\ NewId(queue, id, Remembered)
                            /\ queue' = addTask(queue, id, "heartbeat", HeartbeatDelay)
                            /\ heartbeat_task_id' = id /\ silence' = 0
      BY <2>1 DEF heartbeat, Beat
    <3>2. id \in Ids \ InUse(queue) /\ id # keep_alive_reset_task_id
      BY <3>1, FreshId DEF Remembered
    <3>3. QueueInv(queue') /\ InTime(queue')
      BY <3>1, <3>2, AddTaskSound
    <3>4. OneTask(queue', running', "heartbeat", id, HeartbeatDelay)
      BY <1>5, <3>1, <3>2, OneStarted
    <3>5. OneTask(queue', running', "unset_keepalive", keep_alive_reset_task_id,
                  ResetDelay - quiet)
      BY <1>1, <1>3, <1>4, <3>1, <3>2, OneKept
    <3>6. HeartbeatDelay - silence' = HeartbeatDelay
      BY <3>1
    <3> QED
      BY <3>1, <3>3, <3>4, <3>5, <3>6
  <2>2. CASE ~alive
    <3>1. heartbeat_task_id' = 0 /\ queue' = queue /\ silence' = silence
      BY <2>2 DEF heartbeat
    <3>2. OneTask(queue', running', "unset_keepalive", keep_alive_reset_task_id,
                  ResetDelay - quiet)
      BY <1>1, <1>3, <1>4, <3>1 DEF OneTask
    <3> QED
      BY <1>5, <2>2, <3>1, <3>2
  <2> QED
    BY <2>1, <2>2
<1>7. ResetInv'
  BY <1>2, <1>6 DEF KeepAliveInv, ResetInv
<1>8. HeartbeatInv'
  BY <1>2, <1>6 DEF HeartbeatInv
<1>9. RateLimited'
  BY <1>2 DEF KeepAliveInv, RateLimited
<1>10. TypeOK' /\ Timely'
  BY <1>1, <1>2, <1>6, TypesAfter
<1> QED
  BY <1>6, <1>7, <1>8, <1>9, <1>10 DEF KeepAliveInv

LEMMA SecondStep == KeepAliveInv /\ per_second_action => KeepAliveInv'
<1> SUFFICES ASSUME KeepAliveInv, per_second_action PROVE KeepAliveInv'
  OBVIOUS
<1> USE InvFacts, JobNames
<1>1. PICK f \in running : f.job = "per_second_action" /\ running' = running \ {f}
  BY DEF per_second_action, Runs
<1>2. PICK id \in Ids : /\ NewId(queue, id, Remembered)
                        /\ queue' = addTask(queue, id, "per_second_action", SecondDelay)
                        /\ period_task_id' = id
  BY DEF per_second_action
<1>3. /\ alive' = alive /\ keep_alive_reset_task_id' = keep_alive_reset_task_id
      /\ heartbeat_task_id' = heartbeat_task_id /\ quiet' = quiet /\ silence' = silence
      /\ keepAliveTokens' = KEEPALIVE_TOKENS /\ published' = 0
  BY DEF per_second_action
<1>4. /\ id \in Ids \ InUse(queue)
      /\ id # keep_alive_reset_task_id /\ id # heartbeat_task_id
  BY <1>2, FreshId DEF Remembered
<1>5. QueueInv(queue') /\ InTime(queue')
  BY <1>2, <1>4, AddTaskSound
<1>6. ASSUME NEW job \in {"unset_keepalive", "heartbeat"}, NEW other \in (Ids \cup {0}) \ {id},
             NEW left \in Int, OneTask(queue, running, job, other, left)
      PROVE  OneTask(queue', running', job, other, left)
  <2>1. job \in Jobs /\ job # "per_second_action"
    OBVIOUS
  <2>2. \A g \in running : g.job = job => g \in running'
    BY <1>1, <2>1
  <2> QED
    BY <1>1, <1>2, <1>4, <1>6, <2>1, <2>2, OneKept
<1>7. ResetInv'
  BY <1>3, <1>4, <1>6 DEF KeepAliveInv, ResetInv
<1>8. HeartbeatInv'
  BY <1>3, <1>4, <1>6 DEF KeepAliveInv, HeartbeatInv
<1>9. RateLimited'
  BY <1>3 DEF RateLimited
<1>10. TypeOK' /\ Timely'
  BY <1>1, <1>2, <1>3, <1>5, TypesAfter
<1> QED
  BY <1>5, <1>7, <1>8, <1>9, <1>10 DEF KeepAliveInv

LEMMA LoopStep == KeepAliveInv /\ EventLoop => KeepAliveInv'
<1> SUFFICES ASSUME KeepAliveInv, EventLoop PROVE KeepAliveInv'
  OBVIOUS
<1> USE InvFacts, JobNames
<1>1. /\ alive' = alive /\ keep_alive_reset_task_id' = keep_alive_reset_task_id
      /\ heartbeat_task_id' = heartbeat_task_id /\ period_task_id' = period_task_id
      /\ keepAliveTokens' = keepAliveTokens /\ quiet' = quiet /\ silence' = silence
      /\ published' = published
      /\ performAll
  BY DEF EventLoop
<1>2. QueueInv(queue') /\ InTime(queue') /\ running' \subseteq [place : Nat, job : Jobs]
  BY <1>1, PerformSound
<1>3. ResetInv'
  BY <1>1, OnePerformed DEF KeepAliveInv, ResetInv
<1>4. HeartbeatInv'
  BY <1>1, OnePerformed DEF KeepAliveInv, HeartbeatInv
<1>5. RateLimited'
  BY <1>1 DEF KeepAliveInv, RateLimited
<1>6. TypeOK' /\ Timely'
  BY <1>1, <1>2, TypesAfter
<1> QED
  BY <1>2, <1>3, <1>4, <1>5, <1>6 DEF KeepAliveInv

LEMMA ClockStep == KeepAliveInv /\ Clock => KeepAliveInv'
<1> SUFFICES ASSUME KeepAliveInv, Clock PROVE KeepAliveInv'
  OBVIOUS
<1> USE InvFacts, JobNames
<1>1. /\ alive' = alive /\ keep_alive_reset_task_id' = keep_alive_reset_task_id
      /\ heartbeat_task_id' = heartbeat_task_id /\ period_task_id' = period_task_id
      /\ keepAliveTokens' = keepAliveTokens /\ published' = published
      /\ quiet' = Capped(quiet + 1, QuietMax) /\ silence' = Capped(silence + 1, SilenceMax)
      /\ Tick
  BY DEF Clock
<1>2. QueueInv(queue') /\ InTime(queue')
  BY <1>1, TickSound
<1>3. /\ quiet' \in Nat /\ quiet' <= QuietMax /\ (quiet < QuietMax => quiet' = quiet + 1)
      /\ (quiet >= ResetDelay => quiet' >= ResetDelay)
      /\ silence' \in Nat /\ silence' <= SilenceMax
      /\ (silence < SilenceMax => silence' = silence + 1)
  BY <1>1 DEF Capped, QuietMax
<1>4. ResetInv'
  <2>1. /\ OneTask(queue, running, "unset_keepalive", keep_alive_reset_task_id,
                   ResetDelay - quiet)
        /\ alive <=> keep_alive_reset_task_id # 0
        /\ ~alive => quiet >= ResetDelay
        /\ alive => quiet <= ResetDelay + MaxLate
    BY DEF KeepAliveInv, ResetInv
  <2>2. /\ OneTask(queue', running', "unset_keepalive", keep_alive_reset_task_id,
                   (ResetDelay - quiet) - 1)
        /\ keep_alive_reset_task_id # 0 => (ResetDelay - quiet) - 1 >= -MaxLate
    BY <1>1, <2>1, OneTicks
  <2>3. CASE alive
    <3>1. quiet < QuietMax
      BY <2>1, <2>3 DEF QuietMax
    <3>2. ResetDelay - quiet' = (ResetDelay - quiet) - 1
      BY <1>3, <3>1
    <3>3. quiet' <= ResetDelay + MaxLate
      BY <1>3, <2>1, <2>2, <2>3, <3>1
    <3> QED
      BY <1>1, <2>1, <2>2, <2>3, <3>2, <3>3 DEF ResetInv
  <2>4. CASE ~alive
    <3>1. running' = {} /\ keep_alive_reset_task_id = 0
      BY <1>1, <2>1, <2>4 DEF Tick
    <3>2. OneTask(queue', running', "unset_keepalive", keep_alive_reset_task_id,
                  ResetDelay - quiet')
      BY <2>2, <3>1 DEF OneTask
    <3> QED
      BY <1>1, <1>3, <2>1, <2>4, <3>1, <3>2 DEF ResetInv
  <2> QED
    BY <2>3, <2>4
<1>5. HeartbeatInv'
  <2>1. /\ OneTask(queue, running, "heartbeat", heartbeat_task_id, HeartbeatDelay - silence)
        /\ alive => heartbeat_task_id # 0
        /\ heartbeat_task_id # 0 => silence <= HeartbeatDelay + MaxLate
    BY DEF KeepAliveInv, HeartbeatInv
  <2>2. /\ OneTask(queue', running', "heartbeat", heartbeat_task_id,
                   (HeartbeatDelay - silence) - 1)
        /\ heartbeat_task_id # 0 => (HeartbeatDelay - silence) - 1 >= -MaxLate
    BY <1>1, <2>1, OneTicks
  <2>3. CASE heartbeat_task_id # 0
    <3>1. silence < SilenceMax
      BY <2>1, <2>3 DEF SilenceMax
    <3>2. HeartbeatDelay - silence' = (HeartbeatDelay - silence) - 1
      BY <1>3, <3>1
    <3>3. silence' <= HeartbeatDelay + MaxLate
      BY <1>3, <2>2, <2>3, <3>1
    <3> QED
      BY <1>1, <2>1, <2>2, <2>3, <3>2, <3>3 DEF HeartbeatInv
  <2>4. CASE heartbeat_task_id = 0
    <3>1. running' = {}
      BY <1>1 DEF Tick
    <3>2. OneTask(queue', running', "heartbeat", heartbeat_task_id, HeartbeatDelay - silence')
      BY <2>2, <2>4, <3>1 DEF OneTask
    <3> QED
      BY <1>1, <2>1, <2>4, <3>2 DEF HeartbeatInv
  <2> QED
    BY <2>3, <2>4
<1>6. RateLimited'
  BY <1>1 DEF KeepAliveInv, RateLimited
<1>7. running' = {}
  BY <1>1 DEF Tick
<1>8. TypeOK' /\ Timely'
  BY <1>1, <1>2, <1>3, <1>7, TypesAfter
<1> QED
  BY <1>2, <1>4, <1>5, <1>6, <1>8 DEF KeepAliveInv

LEMMA NextKeepAlive == KeepAliveInv /\ [Next]_vars => KeepAliveInv'
<1> SUFFICES ASSUME KeepAliveInv, [Next]_vars PROVE KeepAliveInv'
  OBVIOUS
<1>1. CASE \E suppress \in BOOLEAN : handle_keepalive(suppress)
  BY <1>1, KeepAliveStep
<1>2. CASE unset_keepalive
  BY <1>2, UnsetStep
<1>3. CASE heartbeat
  BY <1>3, HeartbeatStep
<1>4. CASE per_second_action
  BY <1>4, SecondStep
<1>5. CASE EventLoop
  BY <1>5, LoopStep
<1>6. CASE Clock
  BY <1>6, ClockStep
<1>7. CASE UNCHANGED vars
  <2>1. queue' = queue /\ running' = running
    BY <1>7 DEF vars, queueVars
  <2>2. /\ alive' = alive /\ keep_alive_reset_task_id' = keep_alive_reset_task_id
        /\ heartbeat_task_id' = heartbeat_task_id /\ period_task_id' = period_task_id
        /\ keepAliveTokens' = keepAliveTokens /\ quiet' = quiet /\ silence' = silence
        /\ published' = published
    BY <1>7 DEF vars
  <2>3. TypeOK' /\ Timely'
    BY <2>1, <2>2 DEF KeepAliveInv, TypeOK, Timely, QuietMax, SilenceMax, Queues
  <2> QED
    BY <2>1, <2>2, <2>3 DEF KeepAliveInv, ResetInv, HeartbeatInv, RateLimited
<1> QED
  BY <1>1, <1>2, <1>3, <1>4, <1>5, <1>6, <1>7 DEF Next

LEMMA KeepAliveAlways == Spec => []KeepAliveInv
BY InitKeepAlive, NextKeepAlive, PTL DEF Spec

----------------------------------------------------------------------------
(* The theorems.                                                           *)

\* Type correctness: every variable keeps its type, the tokens the range that
\* per_second_action and the keep-alives leave them.
THEOREM TypeCorrect == Spec => []TypeOK
<1>1. KeepAliveInv => TypeOK
  BY DEF KeepAliveInv
<1> QED
  BY <1>1, KeepAliveAlways, PTL

\* No task is slept past, for any delays and any lateness: next, the least of
\* the times that were added since it was reset, is never behind the first task.
THEOREM AllInTime == Spec => []Timely
<1>1. KeepAliveInv => Timely
  BY DEF KeepAliveInv
<1> QED
  BY <1>1, KeepAliveAlways, PTL

\* A keep-alive keeps the installation alive for its whole time and not longer
\* than the loop is late: the one task that ends it is that of the last.
THEOREM AliveForItsTime == Spec => []AliveForAMinute
<1>1. KeepAliveInv => AliveForAMinute
  <2> SUFFICES ASSUME KeepAliveInv PROVE AliveForAMinute
    OBVIOUS
  <2> QED
    BY InvFacts, JobNames DEF KeepAliveInv, ResetInv, AliveForAMinute
<1> QED
  BY <1>1, KeepAliveAlways, PTL

\* There is one heartbeat while the installation is alive, and never two: the one
\* that is left of a life is found by the first keep-alive of the next.
THEOREM HeartbeatIsOne == Spec => []OneHeartbeat
<1>1. KeepAliveInv => OneHeartbeat
  <2> SUFFICES ASSUME KeepAliveInv PROVE OneHeartbeat
    OBVIOUS
  <2> DEFINE Beats == {f \in running : f.job = "heartbeat"}
             hid   == heartbeat_task_id
  <2>1. /\ OneTask(queue, running, "heartbeat", hid, HeartbeatDelay - silence)
        /\ alive => hid # 0
    BY DEF KeepAliveInv, HeartbeatInv
  <2>2. hid \in Ids \cup {0} /\ 0 \notin Ids
    BY InvFacts, JobNames
  <2>3. Cardinality({}) = 0
    BY FS_EmptySet
  <2>4. Cardinality(Beating) + Cardinality(Beats) = IF hid = 0 THEN 0 ELSE 1
    <3>1. CASE Beats # {}
      <4>1. PICK f \in Beats : Beats = {f}
        BY <2>1, <3>1 DEF OneTask
      <4>2. Beating = {} /\ hid # 0
        BY <2>1, <3>1 DEF OneTask, Beating
      <4> QED
        BY <2>3, <4>1, <4>2, FS_Singleton
    <3>2. CASE Beats = {} /\ hid # 0
      <4>1. queue.tasks[hid] = "heartbeat" /\ hid \in Ids
        BY <2>1, <2>2, <3>2 DEF OneTask, Waits
      <4>2. Beating = {hid}
        BY <2>1, <4>1 DEF OneTask, Beating
      <4>3. Cardinality({hid}) = 1
        BY FS_Singleton
      <4>4. Cardinality(Beating) = 1 /\ Cardinality(Beats) = 0
        BY <2>3, <3>2, <4>2, <4>3
      <4> QED
        BY <3>2, <4>4
    <3>3. CASE Beats = {} /\ hid = 0
      <4>1. Beating = {}
        BY <2>1, <2>2, <3>3 DEF OneTask, Beating
      <4> QED
        BY <2>3, <3>3, <4>1
    <3> QED
      BY <3>1, <3>2, <3>3
  <2> QED
    BY <2>1, <2>4 DEF OneHeartbeat
<1> QED
  BY <1>1, KeepAliveAlways, PTL

\* A living installation beats on time.
THEOREM BeatsOnTime == Spec => []HeartbeatOnTime
<1>1. KeepAliveInv => HeartbeatOnTime
  BY DEF KeepAliveInv, HeartbeatInv, HeartbeatOnTime
<1> QED
  BY <1>1, KeepAliveAlways, PTL

\* Everything is published KEEPALIVE_TOKENS times a second and no more, and no
\* suppressed republish costs one of these times (handle_keepalive).
THEOREM PublishingIsLimited == Spec => []RateLimited
<1>1. KeepAliveInv => RateLimited
  BY DEF KeepAliveInv
<1> QED
  BY <1>1, KeepAliveAlways, PTL

=============================================================================
