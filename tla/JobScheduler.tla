---------------------------- MODULE JobScheduler ----------------------------
(***************************************************************************)
(* The schedulers of the jobs table (bootstrap/initJobScheduler.js): each  *)
(* server process ticks over its registered schedules and inserts a job    *)
(* for the ones that are due, in a transaction that first takes one        *)
(* advisory lock (bootstrap/initDatabase.js).                              *)
(*                                                                         *)
(* NOW() in SQL is the time of BEGIN, before the wait for the lock.        *)
(*                                                                         *)
(* External: what happens to an inserted job, the clock.                   *)
(***************************************************************************)
EXTENDS Integers

CONSTANTS
  Jobs,       \* ids of rows
  Servers,    \* processes
  Schedules,  \* registered schedules, each with a job type of its own
  Interval,   \* schedule.intervalMs
  MaxTime,    \* bound of the clock
  Nobody,     \* the lock is free
  NoSchedule, \* a row not inserted yet
  LockFaults  \* TRUE when the queries of a try may be rejected

\* What the constants are, assumed where this module is instantiated.
SchedulerAssumption ==
  /\ Interval \in Nat \ {0}
  /\ MaxTime \in Nat /\ Interval <= MaxTime
  /\ Nobody \notin Servers
  /\ NoSchedule \notin Schedules
  /\ LockFaults \in BOOLEAN

VARIABLES
  status,   \* jobs.status, "Absent" before the INSERT
  kind,     \* jobs.job_type
  created,  \* jobs.created_at
  now,      \* the clock; the first tick is at Interval
  lastRun,  \* lastRun[p][s]: schedule.lastRunAt
  todo,     \* the due schedules the tick of p has still to try
  trying,   \* the schedule p tries now
  begun,    \* NOW() of its transaction
  holder,   \* who holds the advisory lock
  missed    \* missed[p]: schedules whose last try at p failed

schedVars == <<kind, created, now, lastRun, todo, trying, begun, holder, missed>>

Times == 0 .. MaxTime

SchedTypeOK ==
  /\ kind \in [Jobs -> Schedules \cup {NoSchedule}]
  /\ created \in [Jobs -> Times]
  /\ now \in Times
  /\ lastRun \in [Servers -> [Schedules -> Times]]
  /\ todo \in [Servers -> SUBSET Schedules]
  /\ trying \in [Servers -> Schedules \cup {NoSchedule}]
  /\ begun \in [Servers -> Times]
  /\ holder = Nobody \/ (holder \in Servers /\ trying[holder] # NoSchedule)
  /\ missed \in [Servers -> SUBSET Schedules]

SchedInit ==
  /\ kind = [j \in Jobs |-> NoSchedule]
  /\ created = [j \in Jobs |-> 0]
  /\ now = Interval
  /\ lastRun = [p \in Servers |-> [s \in Schedules |-> 0]]
  /\ todo = [p \in Servers |-> {}]
  /\ trying = [p \in Servers |-> NoSchedule]
  /\ begun = [p \in Servers |-> 0]
  /\ holder = Nobody
  /\ missed = [p \in Servers |-> {}]

Active(j) == status[j] \in {"PENDING", "RUNNING", "RETRYING"}

Resting(p) == todo[p] = {} /\ trying[p] = NoSchedule

-----------------------------------------------------------------------------
(* tick *)

Due(p) == {s \in Schedules : now - lastRun[p][s] >= Interval}

\* `running` keeps a second tick out.  lastRunAt becomes the time of the tick when the
\* loop reaches the schedule; no other tick can read it before.
StartTick(p) ==
  /\ Resting(p)
  /\ Due(p) # {}
  /\ todo' = [todo EXCEPT ![p] = Due(p)]
  /\ lastRun' = [lastRun EXCEPT ![p] = [s \in Schedules |-> IF s \in Due(p) THEN now ELSE @[s]]]
  /\ missed' = [missed EXCEPT ![p] = @ \ Due(p)]
  /\ UNCHANGED <<status, kind, created, now, trying, begun, holder>>

\* The next schedule: its transaction begins
Try(p, s) ==
  /\ trying[p] = NoSchedule
  /\ s \in todo[p]
  /\ todo' = [todo EXCEPT ![p] = @ \ {s}]
  /\ trying' = [trying EXCEPT ![p] = s]
  /\ begun' = [begun EXCEPT ![p] = now]
  /\ UNCHANGED <<status, kind, created, now, lastRun, holder, missed>>

\* pg_try_advisory_xact_lock, polled
Lock(p) ==
  /\ trying[p] # NoSchedule
  /\ holder = Nobody
  /\ holder' = p
  /\ UNCHANGED <<status, kind, created, now, lastRun, todo, trying, begun, missed>>

\* The try is over, and with it the transaction and its lock.
EndTry(p) ==
  /\ trying' = [trying EXCEPT ![p] = NoSchedule]
  /\ begun' = [begun EXCEPT ![p] = 0]
  /\ holder' = IF holder = p THEN Nobody ELSE holder

Fails(p) ==
  /\ EndTry(p)
  /\ missed' = [missed EXCEPT ![p] = @ \cup {trying[p]}]
  /\ UNCHANGED <<status, kind, created, now, lastRun, todo>>

\* Mutant: a process gives up a lock it could have.
TimeoutFree(p) ==
  /\ trying[p] # NoSchedule
  /\ holder # p
  /\ EndTry(p)
  /\ UNCHANGED <<status, kind, created, now, lastRun, todo, missed>>

\* Somebody holds the lock for as long as the timeout: ROLLBACK, the error is logged.
LockTimeout(p) ==
  /\ trying[p] # NoSchedule
  /\ holder \notin {p, Nobody}
  /\ Fails(p)

\* A query of the try is rejected, be it the connection or BEGIN, the request for the
\* lock, the INSERT or COMMIT: the transaction is over, and the lock with it if it was
\* taken.  A COMMIT whose answer is lost is an Insert: tick only logs the error.
Rejected(p) ==
  /\ LockFaults
  /\ trying[p] # NoSchedule
  /\ Fails(p)

\* Mutant: the age of a job is compared the wrong way round.
RecentMutant(p) == {j \in Jobs : kind[j] = trying[p] /\ Active(j) /\ created[j] < begun[p] - Interval}

\* Mutant: an unfinished job of any age is in the way.
RecentAnyAge(p) == {j \in Jobs : kind[j] = trying[p] /\ Active(j)}

\* The jobs that stand in the way: SCHEDULED, which nothing writes, counts as PENDING.
Recent(p) == {j \in Jobs : kind[j] = trying[p] /\ Active(j) /\ created[j] > begun[p] - Interval}

\* INSERT ... WHERE NOT EXISTS, COMMIT: nobody else inserts while the lock is held.
Insert(p) ==
  /\ holder = p
  /\ IF Recent(p) # {}
     THEN UNCHANGED <<status, kind, created>>
     ELSE LET j == CHOOSE i \in Jobs : status[i] = "Absent" IN
            /\ \E i \in Jobs : status[i] = "Absent"
            /\ status' = [status EXCEPT ![j] = "PENDING"]
            /\ kind' = [kind EXCEPT ![j] = trying[p]]
            /\ created' = [created EXCEPT ![j] = begun[p]]
  /\ EndTry(p)
  /\ UNCHANGED <<now, lastRun, todo, missed>>

-----------------------------------------------------------------------------
(* The clock and the life of a process *)

PassTime ==
  /\ now < MaxTime
  /\ now' = now + 1
  /\ UNCHANGED <<status, kind, created, lastRun, todo, trying, begun, holder, missed>>

\* The process is gone; its transaction is rolled back.  The schedules it registers
\* when it comes back have not run.
Forget(p) ==
  /\ EndTry(p)
  /\ todo' = [todo EXCEPT ![p] = {}]
  /\ lastRun' = [lastRun EXCEPT ![p] = [s \in Schedules |-> 0]]
  /\ missed' = [missed EXCEPT ![p] = {}]
  /\ UNCHANGED <<kind, created, now>>

\* close(): the registrations are cleared; a try in progress is finished.
StopTicking(p) ==
  /\ todo' = [todo EXCEPT ![p] = {}]
  /\ missed' = [missed EXCEPT ![p] = @ \cup todo[p]]
  /\ UNCHANGED <<kind, created, now, lastRun, trying, begun, holder>>

TryStep(p) == Lock(p) \/ LockTimeout(p) \/ Insert(p) \/ Rejected(p)

Schedule(p) == StartTick(p) \/ (\E s \in Schedules : Try(p, s)) \/ TryStep(p)

-----------------------------------------------------------------------------
(* Properties *)

\* However the ticks of several processes interleave, two unfinished jobs of one
\* schedule were created at least an interval apart (the advisory lock in tick).  It
\* relies on the runners: a job that is over must not be taken up again.
NoDuplicateActive ==
  \A j, k \in Jobs :
    j # k /\ kind[j] = kind[k] /\ Active(j) /\ Active(k) =>
      created[j] - created[k] >= Interval \/ created[k] - created[j] >= Interval

\* When the tick of a process is over, each schedule it counted as run has a job younger
\* than an interval before that tick, unless its try failed: nothing else is skipped.
RunIsServed ==
  \A p \in Servers, s \in Schedules :
    lastRun[p][s] > 0 /\ Resting(p) /\ s \notin missed[p] =>
      \E j \in Jobs : kind[j] = s /\ created[j] > lastRun[p][s] - Interval

\* A schedule gets a job, unless every process gave up waiting for the lock in turn: one
\* lock serves all schedules.
NeverForgotten ==
  \A s \in Schedules :
    <>((\E j \in Jobs : kind[j] = s) \/ \A p \in Servers : s \in missed[p])

\* What the repository says and the code does not keep: the lock prevents duplicate
\* scheduling.  No two jobs of a schedule, finished or not, are created within an interval.
OnePerInterval ==
  \A j, k \in Jobs :
    j # k /\ kind[j] = kind[k] /\ kind[j] # NoSchedule =>
      created[j] - created[k] >= Interval \/ created[k] - created[j] >= Interval

=============================================================================
