\* Keep-alives at any time, a loop that is late, and tasks that fall due together.
CONSTANTS
    Jobs <- MCJobs
    Ids = {1, 2, 3, 4, 5, 6}
    MaxLate = 1
    NoJob = NoJob
    Never = Never
    ResetDelay = 4
    HeartbeatDelay = 2
    SecondDelay = 1
    KEEPALIVE_TOKENS = 2
    MaxExcess = 1
SPECIFICATION Spec
INVARIANTS
    TypeOK
    Timely
    AliveForAMinute
    OneHeartbeat
    HeartbeatOnTime
    RateLimited
