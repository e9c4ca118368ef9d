------------------------------ MODULE TaskQueue ------------------------------
(***************************************************************************)
(* The delayed tasks of the event loop (class QueuedTasks in               *)
(* src/src/queuedtasks.cpp) and the loop that waits for them.              *)
(*                                                                         *)
(* Times are relative: a task holds the ticks that are left until it is    *)
(* due, less than zero once it is late.  The operators take the queue and  *)
(* give the queue, so that a handler can add and erase several tasks.      *)
(***************************************************************************)
EXTENDS Integers, SequencesExt

CONSTANTS
    Jobs,     \* what a task can do
    Ids,      \* bound: the ids of the tasks that are queued or remembered
    MaxLate,  \* how late the loop comes round to a task that is due
    NoJob, Never

ASSUME TaskAssumption ==
    /\ Ids \subseteq Nat \ {0}
    /\ MaxLate \in Nat
    /\ NoJob \notin Jobs
    /\ Never \notin Int

VARIABLES
    queue,    \* tasks by id, their times in order, and when to wake up
    running   \* copiedTasks of performAll that have not run yet, with their places

queueVars == <<queue, running>>

\* A task that is erased stays in queuedTasks until its time has come.
Queues == [tasks       : [Ids -> Jobs \cup {NoJob}],
           queuedTasks : Seq([id : Ids, left : Int]),
           next        : Int \cup {Never}]

EmptyQueue == [tasks |-> [i \in Ids |-> NoJob], queuedTasks |-> <<>>, next |-> Never]

InUse(q) == {q.queuedTasks[k].id : k \in DOMAIN q.queuedTasks}

\* nextId++ gives an id nobody has: not in the queue and not remembered either.
NewId(q, id, remembered) ==
    /\ id \in Ids \ (InUse(q) \cup remembered)
    /\ \A i \in Ids \ (InUse(q) \cup remembered) : id <= i

\* The tasks are in the order of their times: the place of the first that is later.
UpperBound(entries, left) ==
    Min({k \in DOMAIN entries : entries[k].left > left} \cup {Len(entries) + 1})

\* multiset::insert: after the tasks of the same time.
Inserted(entries, entry) == InsertAt(entries, UpperBound(entries, entry.left), entry)

Sooner(delay, next) == IF next = Never \/ delay < next THEN delay ELSE next

\* Mutant of addTask: the time to wake up is the one of the latest task.
WakesForLastTask(q, id, job, delay) ==
    [tasks |-> [q.tasks EXCEPT ![id] = job],
     queuedTasks |-> Inserted(q.queuedTasks, [id |-> id, left |-> delay]),
     next |-> delay]

addTask(q, id, job, delay) ==
    [tasks |-> [q.tasks EXCEPT ![id] = job],
     queuedTasks |-> Inserted(q.queuedTasks, [id |-> id, left |-> delay]),
     next |-> Sooner(delay, q.next)]

\* Erasing id 0, which no task has, does nothing.
eraseTask(q, id) ==
    IF id \in Ids THEN [q EXCEPT !.tasks[id] = NoJob] ELSE q

\* getTimeTillNext is 0: the loop calls performAll.
TimeIsUp(q) == (\E i \in Ids : q.tasks[i] # NoJob) /\ q.next # Never /\ q.next <= 0

\* The tasks that are due leave the queue, those not erased are to run.
performAll ==
    LET entries == queue.queuedTasks
        first == UpperBound(entries, 0)
        Live  == {k \in 1 .. first - 1 : queue.tasks[entries[k].id] # NoJob}
    IN  /\ TimeIsUp(queue)
        /\ running = {}
        /\ running' = {[place |-> k, job |-> queue.tasks[entries[k].id]] : k \in Live}
        /\ queue' = [tasks |-> [i \in Ids |-> IF \E k \in Live : entries[k].id = i
                                              THEN NoJob ELSE queue.tasks[i]],
                     queuedTasks |-> SubSeq(entries, first, Len(entries)),
                     next |-> IF first \in DOMAIN entries THEN entries[first].left ELSE Never]

\* They run one after the other, in the order in which they were due.
Runs(job) ==
    \E f \in running :
        /\ f.job = job
        /\ \A g \in running : f.place <= g.place
        /\ running' = running \ {f}

\* A tick of the clock.  The loop is at most MaxLate late to what it waits for,
\* and runs the tasks of one performAll without waiting.
Tick ==
    /\ running = {}
    /\ TimeIsUp(queue) => queue.next > -MaxLate
    /\ queue' = [queue EXCEPT
         !.queuedTasks = [k \in DOMAIN queue.queuedTasks |->
                            [queue.queuedTasks[k] EXCEPT !.left = @ - 1]],
         !.next = IF @ = Never THEN Never ELSE @ - 1]
    /\ UNCHANGED running

\* No task that is waited for is ever slept past, whatever was added before it
\* or erased since: next is never behind the first of them (getTimeTillNext).
Timely ==
    \A k \in DOMAIN queue.queuedTasks :
        queue.tasks[queue.queuedTasks[k].id] # NoJob => queue.queuedTasks[k].left >= -MaxLate

=============================================================================
