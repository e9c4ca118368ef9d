------------------------------ MODULE KeepAlive ------------------------------
(***************************************************************************)
(* How long the installation publishes: keep-alives, the task that ends    *)
(* them, the heartbeat and the limit on publishing everything (State in    *)
(* src/src/state.cpp), on the tasks of the event loop.                     *)
(***************************************************************************)
EXTENDS TaskQueue, FiniteSets

CONSTANTS
    ResetDelay,       \* 60 s, in ticks
    HeartbeatDelay,   \* 3 s
    SecondDelay,      \* 1 s
    KEEPALIVE_TOKENS, \* times everything is published in a second
    MaxExcess         \* bound: keep-alives in a second beyond the tokens

ASSUME KeepAliveAssumption ==
    /\ Jobs = {"unset_keepalive", "heartbeat", "per_second_action"}
    /\ ResetDelay \in Nat \ {0} /\ HeartbeatDelay \in Nat \ {0} /\ SecondDelay \in Nat \ {0}
    /\ KEEPALIVE_TOKENS \in Nat /\ MaxExcess \in Nat

VARIABLES
    alive,
    keep_alive_reset_task_id,
    heartbeat_task_id,
    period_task_id,
    keepAliveTokens,
    quiet,      \* auxiliary: ticks since the last keep-alive
    silence,    \* auxiliary: ticks since the last heartbeat
    published   \* auxiliary: times everything was published since the last
                \* per_second_action

vars == <<queueVars, alive, keep_alive_reset_task_id, heartbeat_task_id, period_task_id,
          keepAliveTokens, quiet, silence, published>>

\* The auxiliary clocks stop where they make no difference any more.
QuietMax   == ResetDelay + MaxLate + 1
SilenceMax == HeartbeatDelay + MaxLate + 1

TypeOK ==
    /\ queue \in Queues
    /\ running \subseteq [place : Nat, job : Jobs]
    /\ alive \in BOOLEAN
    /\ keep_alive_reset_task_id \in Ids \cup {0}
    /\ heartbeat_task_id \in Ids \cup {0}
    /\ period_task_id \in Ids \cup {0}
    /\ keepAliveTokens \in -MaxExcess .. KEEPALIVE_TOKENS
    /\ quiet \in 0 .. QuietMax /\ silence \in 0 .. SilenceMax
    /\ published \in Nat

Remembered == {keep_alive_reset_task_id, heartbeat_task_id, period_task_id}

----------------------------------------------------------------------------

\* heartbeat of an installation that is alive: publish, and once more later.
Beat(q, id) ==
    /\ NewId(q, id, Remembered)
    /\ queue' = addTask(q, id, "heartbeat", HeartbeatDelay)
    /\ heartbeat_task_id' = id
    /\ silence' = 0

\* Mutant of StartHeartbeat: every keep-alive starts one.
StartsAnotherHeartbeat(q, id) == Beat(q, id)

\* The first keep-alive starts the heartbeat.
StartHeartbeat(q, id) ==
    IF heartbeat_task_id = 0 THEN Beat(q, id)
    ELSE /\ queue' = q
         /\ UNCHANGED <<heartbeat_task_id, silence>>

\* Mutant of Prolonged: the task of the keep-alive before still runs.
LeavesOldReset(id) == addTask(queue, id, "unset_keepalive", ResetDelay)

\* A keep-alive puts off its end.
Prolonged(id) ==
    addTask(eraseTask(queue, keep_alive_reset_task_id), id, "unset_keepalive", ResetDelay)

\* Mutant of TokensAfter: a suppressed republish costs a token as well.
SuppressedPays(suppress_publish_of_all) == keepAliveTokens - 1

\* keepAliveTokens-- > 0, if it comes to that.
TokensAfter(suppress_publish_of_all) ==
    IF suppress_publish_of_all THEN keepAliveTokens ELSE keepAliveTokens - 1

handle_keepalive(suppress_publish_of_all) ==
    /\ running = {}
    /\ keepAliveTokens > -MaxExcess
    /\ keepAliveTokens' = TokensAfter(suppress_publish_of_all)
    /\ published' = IF ~suppress_publish_of_all /\ keepAliveTokens > 0
                    THEN published + 1 ELSE published
    /\ alive' = TRUE
    /\ quiet' = 0
    /\ \E id, id2 \in Ids :
         /\ NewId(queue, id, Remembered)
         /\ keep_alive_reset_task_id' = id
         /\ NewId(Prolonged(id), id2, Remembered)
         /\ StartHeartbeat(Prolonged(id), id2)
    /\ UNCHANGED <<running, period_task_id>>

----------------------------------------------------------------------------
(* The tasks of one performAll run one after the other. *)

unset_keepalive ==
    /\ Runs("unset_keepalive")
    /\ alive' = FALSE
    /\ keep_alive_reset_task_id' = 0
    /\ UNCHANGED <<queue, heartbeat_task_id, period_task_id, keepAliveTokens,
                   quiet, silence, published>>

\* Mutant of heartbeat: its end is not remembered.
NeverBeatsAgain ==
    /\ Runs("heartbeat")
    /\ IF alive THEN \E id \in Ids : Beat(queue, id)
       ELSE UNCHANGED <<queue, heartbeat_task_id, silence>>
    /\ UNCHANGED <<alive, keep_alive_reset_task_id, period_task_id, keepAliveTokens,
                   quiet, published>>

heartbeat ==
    /\ Runs("heartbeat")
    /\ IF alive THEN \E id \in Ids : Beat(queue, id)
       ELSE heartbeat_task_id' = 0 /\ UNCHANGED <<queue, silence>>
    /\ UNCHANGED <<alive, keep_alive_reset_task_id, period_task_id, keepAliveTokens,
                   quiet, published>>

\* Mutant of per_second_action: tokens that were left are kept.
TokensAccumulate ==
    /\ Runs("per_second_action")
    /\ \E id \in Ids :
         /\ NewId(queue, id, Remembered)
         /\ queue' = addTask(queue, id, "per_second_action", SecondDelay)
         /\ period_task_id' = id
    /\ keepAliveTokens' = keepAliveTokens + KEEPALIVE_TOKENS
    /\ published' = 0
    /\ UNCHANGED <<alive, keep_alive_reset_task_id, heartbeat_task_id, quiet, silence>>

per_second_action ==
    /\ Runs("per_second_action")
    /\ \E id \in Ids :
         /\ NewId(queue, id, Remembered)
         /\ queue' = addTask(queue, id, "per_second_action", SecondDelay)
         /\ period_task_id' = id
    /\ keepAliveTokens' = KEEPALIVE_TOKENS
    /\ published' = 0
    /\ UNCHANGED <<alive, keep_alive_reset_task_id, heartbeat_task_id, quiet, silence>>

Capped(n, max) == IF n < max THEN n ELSE max

Clock ==
    /\ Tick
    /\ quiet' = Capped(quiet + 1, QuietMax)
    /\ silence' = Capped(silence + 1, SilenceMax)
    /\ UNCHANGED <<alive, keep_alive_reset_task_id, heartbeat_task_id, period_task_id,
                   keepAliveTokens, published>>

EventLoop ==
    /\ performAll
    /\ UNCHANGED <<alive, keep_alive_reset_task_id, heartbeat_task_id, period_task_id,
                   keepAliveTokens, quiet, silence, published>>

\* start_one_second_timer has run, and no keep-alive has come.
Init ==
    /\ \E id \in Ids :
         /\ NewId(EmptyQueue, id, {})
         /\ queue = addTask(EmptyQueue, id, "per_second_action", SecondDelay)
         /\ period_task_id = id
    /\ running = {}
    /\ alive = FALSE
    /\ keep_alive_reset_task_id = 0 /\ heartbeat_task_id = 0
    /\ keepAliveTokens = KEEPALIVE_TOKENS
    /\ quiet = QuietMax /\ silence = SilenceMax
    /\ published = 0

Next ==
    \/ \E suppress_publish_of_all \in BOOLEAN : handle_keepalive(suppress_publish_of_all)
    \/ unset_keepalive
    \/ heartbeat
    \/ per_second_action
    \/ EventLoop
    \/ Clock

Spec == Init /\ [][Next]_vars

----------------------------------------------------------------------------
(* Properties *)

\* A keep-alive keeps the installation alive for the whole of its time, and not
\* longer than the loop is late to end it: no task of an earlier keep-alive
\* ends it before.
AliveForAMinute ==
    /\ quiet < ResetDelay => alive
    /\ alive => quiet <= ResetDelay + MaxLate

Beating == {i \in Ids : queue.tasks[i] = "heartbeat"}

\* There is one heartbeat while the installation is alive, and never a second
\* one, however the last beat of one life meets the first keep-alive of the next.
OneHeartbeat ==
    /\ Cardinality(Beating) + Cardinality({f \in running : f.job = "heartbeat"})
         = (IF heartbeat_task_id = 0 THEN 0 ELSE 1)
    /\ alive => heartbeat_task_id # 0

\* A living installation beats on time.
HeartbeatOnTime == alive => silence <= HeartbeatDelay + MaxLate

\* Everything is published a limited number of times a second, however many
\* clients ask for it; and each time there is a token left: those who suppress
\* it, or have asked too often, take none from those who ask next.
RateLimited ==
    published = KEEPALIVE_TOKENS - (IF keepAliveTokens > 0 THEN keepAliveTokens ELSE 0)

=============================================================================
