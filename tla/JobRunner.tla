------------------------------ MODULE JobRunner -----------------------------
(***************************************************************************)
(* The runners of the jobs table (bootstrap/initJobRunner.js): several     *)
(* server processes claim due jobs with FOR UPDATE SKIP LOCKED, run their  *)
(* handlers under a timeout and write the outcome back.                    *)
(*                                                                         *)
(* A claim is a transaction of two statements; every other write is one    *)
(* UPDATE.  The order of scheduled_at is not kept: a claim takes any batch *)
(* of due jobs, the code's is one of them.                                 *)
(*                                                                         *)
(* External: who inserts a job, what a handler does, and failures.         *)
(***************************************************************************)
EXTENDS Naturals, FiniteSets

CONSTANTS
  Jobs,         \* ids of rows
  Runners,      \* server processes
  MaxAttempts,  \* jobs.max_attempts
  BatchSize,    \* config.batchSize
  Concurrency,  \* config.concurrency
  Unhandled,    \* jobs of a type without a registered handler
  IdType,       \* the type of jobs.id: the claim's UPDATE casts to bigint
  Faults        \* TRUE when queries are rejected and processes stop

ASSUME JobRunnerAssumption ==
  /\ MaxAttempts \in Nat
  /\ BatchSize \in Nat \ {0}
  /\ Concurrency \in Nat \ {0}
  /\ Unhandled \subseteq Jobs
  /\ IdType \in {"bigint", "uuid"}
  /\ Faults \in BOOLEAN

VARIABLES
  status,    \* jobs.status, "Absent" before the INSERT
  attempts,  \* jobs.attempts
  mode,      \* a runner: "up", "stopping" after close(), "down"
  locked,    \* locked[r]: rows its open claim holds FOR UPDATE
  stage,     \* stage[r][j]: what r does with a job it claimed
  read,      \* read[r][j]: job.attempts as the claim read it
  late       \* <<r, j>>: a handler that timed out and still runs

tableVars == <<status, attempts>>
vars == <<status, attempts, mode, locked, stage, read, late>>

Statuses == {"Absent", "PENDING", "RUNNING", "RETRYING", "COMPLETED", "DEAD_LETTER"}

Stages == {"none", "claimed", "handler", "completing", "failing"}

Attempts == 0 .. MaxAttempts + 1

TypeOK ==
  /\ status \in [Jobs -> Statuses]
  /\ attempts \in [Jobs -> Attempts]
  /\ mode \in [Runners -> {"up", "stopping", "down"}]
  /\ locked \in [Runners -> SUBSET Jobs]
  /\ stage \in [Runners -> [Jobs -> Stages]]
  /\ read \in [Runners -> [Jobs -> Attempts]]
  /\ late \subseteq Runners \X Jobs

Init ==
  /\ status = [j \in Jobs |-> "Absent"]
  /\ attempts = [j \in Jobs |-> 0]
  /\ mode = [r \in Runners |-> "up"]
  /\ locked = [r \in Runners |-> {}]
  /\ stage = [r \in Runners |-> [j \in Jobs |-> "none"]]
  /\ read = [r \in Runners |-> [j \in Jobs |-> 0]]
  /\ late = {}

-----------------------------------------------------------------------------
(* The jobs of a runner *)

AtStage(r, s) == {j \in Jobs : stage[r][j] = s}

\* activeJobs and inFlight
Active(r) == AtStage(r, "handler") \cup AtStage(r, "completing") \cup AtStage(r, "failing")

\* How many more jobs the for loop of tick starts
Room(r) == IF mode[r] # "up" THEN 0 ELSE Concurrency - Cardinality(Active(r))

\* Job j of runner r goes on to stage s.
Move(r, j, from, to) ==
  /\ stage[r][j] = from
  /\ stage' = [stage EXCEPT ![r][j] = to]

-----------------------------------------------------------------------------
(* Insertion, and the time scheduled_at is reached *)

Enqueue(j) ==
  /\ status[j] = "Absent"
  /\ status' = [status EXCEPT ![j] = "PENDING"]
  /\ UNCHANGED <<attempts, mode, locked, stage, read, late>>

-----------------------------------------------------------------------------
(* tick and claimJobs *)

\* SCHEDULED, which nothing writes, counts as PENDING.
Processable(j) == status[j] \in {"PENDING", "RETRYING"}

\* Mutant: a plain SELECT, without FOR UPDATE SKIP LOCKED.
ClaimableLocked == {j \in Jobs : Processable(j)}

Claimable == {j \in Jobs : Processable(j) /\ \A r \in Runners : j \notin locked[r]}

\* A batch is limited by LIMIT only.
FullBatch(B) ==
  /\ B \subseteq Claimable
  /\ Cardinality(B) = IF Cardinality(Claimable) < BatchSize THEN Cardinality(Claimable)
                                                             ELSE BatchSize

\* The SELECT of a claim.  One tick runs at a time: no claim is open and no
\* claimed job waits for its start.  An empty result ends the tick.
ClaimSelect(r, B) ==
  /\ Room(r) > 0
  /\ locked[r] = {}
  /\ AtStage(r, "claimed") = {}
  /\ B # {}
  /\ FullBatch(B)
  /\ locked' = [locked EXCEPT ![r] = B]
  /\ UNCHANGED <<tableVars, mode, stage, read, late>>

MarkRunning(B) ==
  /\ status' = [j \in Jobs |-> IF j \in B THEN "RUNNING" ELSE status[j]]
  /\ attempts' = [j \in Jobs |-> IF j \in B THEN attempts[j] + 1 ELSE attempts[j]]

Unlock(r) ==
  /\ locked[r] # {}
  /\ locked' = [locked EXCEPT ![r] = {}]

\* Mutant: the claim counts the attempt but leaves the status.
ClaimCountsOnly(r) ==
  /\ IdType = "bigint"
  /\ Unlock(r)
  /\ attempts' = [j \in Jobs |-> IF j \in locked[r] THEN attempts[j] + 1 ELSE attempts[j]]
  /\ stage' = [stage EXCEPT ![r] = [j \in Jobs |-> IF j \in locked[r] THEN "claimed" ELSE @[j]]]
  /\ read' = [read EXCEPT ![r] = [j \in Jobs |-> IF j \in locked[r] THEN attempts[j] ELSE @[j]]]
  /\ UNCHANGED <<status, mode, late>>

\* The UPDATE and COMMIT; the runner gets the rows as the SELECT read them.
ClaimCommit(r) ==
  /\ IdType = "bigint"
  /\ Unlock(r)
  /\ MarkRunning(locked[r])
  /\ stage' = [stage EXCEPT ![r] = [j \in Jobs |-> IF j \in locked[r] THEN "claimed" ELSE @[j]]]
  /\ read' = [read EXCEPT ![r] = [j \in Jobs |-> IF j \in locked[r] THEN attempts[j] ELSE @[j]]]
  /\ UNCHANGED <<mode, late>>

\* The UPDATE is rejected (no operator uuid = bigint, or a failed query).
ClaimRollback(r) ==
  /\ IdType = "uuid" \/ Faults
  /\ Unlock(r)
  /\ UNCHANGED <<tableVars, mode, stage, read, late>>

\* COMMIT took effect, but its answer is lost: tick logs the error.
ClaimLost(r) ==
  /\ IdType = "bigint"
  /\ Faults
  /\ Unlock(r)
  /\ MarkRunning(locked[r])
  /\ UNCHANGED <<mode, stage, read, late>>

\* The for loop of tick: it starts as many jobs as there is room and breaks,
\* the rest of the batch is forgotten.
StartBatch(r, S) ==
  LET C == AtStage(r, "claimed") IN
    /\ C # {}
    /\ S \subseteq C
    /\ Cardinality(S) = IF Cardinality(C) < Room(r) THEN Cardinality(C) ELSE Room(r)
    /\ stage' = [stage EXCEPT ![r] =
                   [j \in Jobs |-> IF j \notin C THEN @[j]
                                   ELSE IF j \notin S THEN "none"
                                   ELSE IF j \in Unhandled THEN "failing" ELSE "handler"]]
    /\ UNCHANGED <<tableVars, mode, locked, read, late>>

-----------------------------------------------------------------------------
(* processJob *)

HandlerReturns(r, j) ==
  /\ Move(r, j, "handler", "completing")
  /\ UNCHANGED <<tableVars, mode, locked, read, late>>

HandlerThrows(r, j) ==
  /\ Move(r, j, "handler", "failing")
  /\ UNCHANGED <<tableVars, mode, locked, read, late>>

\* withTimeout gives up waiting; nothing stops the handler.
Timeout(r, j) ==
  /\ Move(r, j, "handler", "failing")
  /\ late' = late \cup {<<r, j>>}
  /\ UNCHANGED <<tableVars, mode, locked, read>>

LateHandlerEnds(r, j) ==
  /\ <<r, j>> \in late
  /\ late' = late \ {<<r, j>>}
  /\ UNCHANGED <<tableVars, mode, locked, stage, read>>

\* Mutant: a completed job falls through to failJob.
CompleteThenFail(r, j) ==
  /\ Move(r, j, "completing", "failing")
  /\ status' = [status EXCEPT ![j] = "COMPLETED"]
  /\ UNCHANGED <<attempts, mode, locked, read, late>>

Complete(r, j) ==
  /\ Move(r, j, "completing", "none")
  /\ status' = [status EXCEPT ![j] = "COMPLETED"]
  /\ UNCHANGED <<attempts, mode, locked, read, late>>

\* completeJob rejects inside the try block, whether or not its UPDATE took
\* effect: the job is handled as failed.
CompleteRejected(r, j) ==
  /\ Faults
  /\ Move(r, j, "completing", "failing")
  /\ status' \in {status, [status EXCEPT ![j] = "COMPLETED"]}
  /\ UNCHANGED <<attempts, mode, locked, read, late>>

\* Mutant: one more retry than the code grants.
RetryOnceMore(n) == IF n > MaxAttempts THEN "DEAD_LETTER" ELSE "RETRYING"

\* failJob decides on the attempts the claim read, before it counted itself.
FailedStatus(n) == IF n >= MaxAttempts THEN "DEAD_LETTER" ELSE "RETRYING"

Fail(r, j) ==
  /\ Move(r, j, "failing", "none")
  /\ status' = [status EXCEPT ![j] = FailedStatus(read[r][j])]
  /\ UNCHANGED <<attempts, mode, locked, read, late>>

\* failJob rejects: the promise of processJob rejects, and nobody handles it.
FailRejected(r, j) ==
  /\ Faults
  /\ Move(r, j, "failing", "none")
  /\ status' \in {status, [status EXCEPT ![j] = FailedStatus(read[r][j])]}
  /\ UNCHANGED <<attempts, mode, locked, read, late>>

-----------------------------------------------------------------------------
(* Stop, crash and restart of a process *)

Close(r) ==
  /\ Faults
  /\ mode[r] = "up"
  /\ mode' = [mode EXCEPT ![r] = "stopping"]
  /\ UNCHANGED <<tableVars, locked, stage, read, late>>

\* The process is gone: its transaction is rolled back, its jobs are forgotten.
Crash(r) ==
  /\ Faults
  /\ mode[r] # "down"
  /\ mode' = [mode EXCEPT ![r] = "down"]
  /\ locked' = [locked EXCEPT ![r] = {}]
  /\ stage' = [stage EXCEPT ![r] = [j \in Jobs |-> "none"]]
  /\ late' = late \ ({r} \X Jobs)
  /\ UNCHANGED <<tableVars, read>>

Start(r) ==
  /\ mode[r] = "down"
  /\ mode' = [mode EXCEPT ![r] = "up"]
  /\ UNCHANGED <<tableVars, locked, stage, read, late>>

-----------------------------------------------------------------------------
Tick(r) ==
  \/ \E B \in SUBSET Jobs : ClaimSelect(r, B) \/ StartBatch(r, B)
  \/ ClaimCommit(r)
  \/ ClaimRollback(r)
  \/ ClaimLost(r)

Handle(r, j) ==
  \/ HandlerReturns(r, j)
  \/ HandlerThrows(r, j)
  \/ Timeout(r, j)

Process(r, j) ==
  \/ Handle(r, j)
  \/ Complete(r, j)
  \/ CompleteRejected(r, j)
  \/ Fail(r, j)
  \/ FailRejected(r, j)

Next ==
  \/ \E j \in Jobs : Enqueue(j)
  \/ \E r \in Runners : Tick(r) \/ Close(r) \/ Crash(r) \/ Start(r)
  \/ \E r \in Runners, j \in Jobs : Process(r, j) \/ LateHandlerEnds(r, j)

Spec == Init /\ [][Next]_vars

\* The interval timer ticks while the process is up, and a handler is over at
\* the latest when its timer fires.
FairSpec ==
  /\ Spec
  /\ \A r \in Runners : WF_vars(Tick(r))
  /\ \A r \in Runners, j \in Jobs : WF_vars(Process(r, j))

-----------------------------------------------------------------------------
(* Properties under failures: rejected queries, lost answers, crashes *)

\* No two runners work on one job, whatever fails between the SELECT of a claim,
\* its COMMIT and the job's outcome (FOR UPDATE SKIP LOCKED in claimJobs).
OneOwner ==
  \A j \in Jobs, r1, r2 \in Runners :
    stage[r1][j] # "none" /\ stage[r2][j] # "none" => r1 = r2

\* The copy of the row a runner works from is current: the job was not claimed
\* again since, so failJob decides on the right number of attempts.
LeaseIsCurrent ==
  \A r \in Runners, j \in Jobs :
    stage[r][j] # "none" => attempts[j] = read[r][j] + 1 /\ ~Processable(j)

\* A job is given up only after all its attempts, and no claimed job has more.
DeadLetterSpent ==
  \A j \in Jobs : /\ status[j] = "DEAD_LETTER" => attempts[j] = MaxAttempts + 1
                  /\ Processable(j) => attempts[j] <= MaxAttempts

-----------------------------------------------------------------------------
(* Properties of a system in which nothing fails *)

\* COMPLETED and DEAD_LETTER are final, as TERMINAL_JOB_STATUSES has them.
TerminalStays ==
  [][\A j \in Jobs : status[j] \in {"COMPLETED", "DEAD_LETTER"} => status'[j] = status[j]]_vars

Due == {j \in Jobs : Processable(j)}

Held == {x \in Runners \X Jobs : stage[x[1]][x[2]] # "none"}

Settled == {j \in Jobs : status[j] \in {"COMPLETED", "DEAD_LETTER"}}

Lease == INSTANCE JobLease WITH
  MaxTries <- MaxAttempts + 1,
  free <- Due,
  lease <- Held,
  settled <- Settled,
  tries <- attempts

\* The table and its runners implement the abstract lease: claims, outcomes and
\* dropped batches are its steps, everything else leaves it alone.
ImplementsLease == Lease!LeaseSpec

-----------------------------------------------------------------------------
(* What the repository says and the code does not keep *)

\* A job is attempted at most max_attempts times.
AttemptsBounded == \A j \in Jobs : attempts[j] <= MaxAttempts

\* The processing of an inserted job is handled by the runner: a due job is completed
\* or given up.  With jobs.id a UUID, as the migration has it, no claim ever commits.
EveryJobSettles ==
  \A j \in Jobs : status[j] = "PENDING" ~> status[j] \in {"COMPLETED", "DEAD_LETTER"}

\* A job that is picked up is processed: RUNNING means that a runner has it.  The rest
\* of a batch larger than the room left is RUNNING in nobody's hands.
ClaimedIsHeld ==
  \A j \in Jobs : status[j] = "RUNNING" => \E r \in Runners : stage[r][j] # "none"

=============================================================================
