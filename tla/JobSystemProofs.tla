-------------------------- MODULE JobSystemProofs ---------------------------
(***************************************************************************)
(* Theorems about JobRunner for every set of jobs and runners, every batch *)
(* size, concurrency and number of attempts, with crashes, rejected        *)
(* queries and lost answers; and about JobSystem, the runners together     *)
(* with the schedulers, for every set of schedules and every interval.     *)
(***************************************************************************)
EXTENDS JobSystem, TLAPS

(***************************************************************************)
(* The inductive invariant                                                 *)
(***************************************************************************)

\* The rows of an open claim are due, and no other claim holds them.
Locks ==
  \A r \in Runners : \A j \in locked[r] :
    Processable(j) /\ \A s \in Runners \ {r} : j \notin locked[s]

\* A claim never reads a row whose attempts are used up.
ReadBounded == \A r \in Runners, j \in Jobs : stage[r][j] # "none" => read[r][j] <= MaxAttempts

\* A row that was not inserted yet was never claimed.
NewIsUnclaimed == \A j \in Jobs : status[j] = "Absent" => attempts[j] = 0

Counts == DeadLetterSpent /\ NewIsUnclaimed

RunnerInv ==
  /\ TypeOK
  /\ Locks
  /\ OneOwner
  /\ LeaseIsCurrent
  /\ Counts
  /\ ReadBounded

LEMMA InitInv == Init => RunnerInv
BY JobRunnerAssumption
   DEF Init, RunnerInv, TypeOK, Locks, OneOwner, LeaseIsCurrent, Counts, DeadLetterSpent,
       NewIsUnclaimed, ReadBounded, Processable, Statuses, Stages, Attempts

-----------------------------------------------------------------------------
(* Steps of a tick *)

LEMMA SelectInv ==
  ASSUME RunnerInv, NEW r \in Runners, NEW B \in SUBSET Jobs, ClaimSelect(r, B)
  PROVE  RunnerInv'
<1> USE DEF RunnerInv, ClaimSelect, tableVars
<1>1. TypeOK'
  BY DEF TypeOK
<1>2. Locks'
  BY DEF TypeOK, Locks, FullBatch, Claimable, Processable
<1>3. OneOwner' /\ LeaseIsCurrent' /\ Counts' /\ ReadBounded'
  BY DEF OneOwner, LeaseIsCurrent, Counts, DeadLetterSpent, NewIsUnclaimed, ReadBounded, Processable
<1> QED BY <1>1, <1>2, <1>3

\* A due job is in nobody's hands, so marking the rows of a claim takes no
\* job from another runner.
LEMMA DueIsIdle ==
  ASSUME RunnerInv, NEW j \in Jobs, Processable(j)
  PROVE  /\ \A r \in Runners : stage[r][j] = "none"
         /\ attempts[j] \in 0 .. MaxAttempts
BY JobRunnerAssumption
   DEF RunnerInv, LeaseIsCurrent, TypeOK, Counts, DeadLetterSpent, NewIsUnclaimed, Attempts

\* The rows after the UPDATE of a claim.
LEMMA MarkRunningRows ==
  ASSUME RunnerInv, NEW r \in Runners, Unlock(r), MarkRunning(locked[r])
  PROVE  /\ status' \in [Jobs -> Statuses]
         /\ attempts' \in [Jobs -> Attempts]
         /\ locked' \in [Runners -> SUBSET Jobs]
         /\ Locks'
         /\ Counts'
<1> USE DEF RunnerInv, Unlock, MarkRunning
<1>1. \A j \in locked[r] : j \in Jobs /\ Processable(j) /\ attempts[j] + 1 \in Attempts
  BY DueIsIdle, JobRunnerAssumption DEF TypeOK, Locks, Attempts
<1>2. status' \in [Jobs -> Statuses]
  BY DEF TypeOK, Statuses
<1>3. attempts' \in [Jobs -> Attempts]
  BY <1>1 DEF TypeOK
<1>4. locked' \in [Runners -> SUBSET Jobs]
  BY DEF TypeOK
<1>5. Locks'
  BY DEF TypeOK, Locks, Processable
<1>6. Counts'
  BY DEF Counts, DeadLetterSpent, NewIsUnclaimed, Processable
<1> QED BY <1>2, <1>3, <1>4, <1>5, <1>6

LEMMA CommitInv ==
  ASSUME RunnerInv, NEW r \in Runners, ClaimCommit(r)
  PROVE  RunnerInv'
<1> USE DEF RunnerInv, ClaimCommit
<1>1. /\ status' \in [Jobs -> Statuses]
      /\ attempts' \in [Jobs -> Attempts]
      /\ locked' \in [Runners -> SUBSET Jobs]
      /\ Locks'
      /\ Counts'
  BY MarkRunningRows
<1>2. \A j \in locked[r] : /\ j \in Jobs
                           /\ \A s \in Runners : stage[s][j] = "none"
                           /\ attempts[j] \in 0 .. MaxAttempts
  BY DueIsIdle DEF TypeOK, Locks
<1>3. /\ stage' \in [Runners -> [Jobs -> Stages]]
      /\ read' \in [Runners -> [Jobs -> Attempts]]
  BY DEF TypeOK, Stages
<1>4. TypeOK'
  BY <1>1, <1>3 DEF TypeOK
<1>5. \A s \in Runners, j \in Jobs :
        /\ stage'[s][j] = IF s = r /\ j \in locked[r] THEN "claimed" ELSE stage[s][j]
        /\ read'[s][j] = IF s = r /\ j \in locked[r] THEN attempts[j] ELSE read[s][j]
        /\ attempts'[j] = IF j \in locked[r] THEN attempts[j] + 1 ELSE attempts[j]
        /\ status'[j] = IF j \in locked[r] THEN "RUNNING" ELSE status[j]
  BY DEF TypeOK, MarkRunning
<1>6. OneOwner'
  BY <1>2, <1>5 DEF OneOwner
<1>7. LeaseIsCurrent'
  BY <1>2, <1>5 DEF LeaseIsCurrent, Processable
<1>8. ReadBounded'
  BY <1>2, <1>5, JobRunnerAssumption DEF ReadBounded
<1> QED BY <1>1, <1>4, <1>6, <1>7, <1>8

LEMMA LostInv ==
  ASSUME RunnerInv, NEW r \in Runners, ClaimLost(r) \/ ClaimRollback(r)
  PROVE  RunnerInv'
<1> USE DEF RunnerInv
<1>1. CASE ClaimLost(r)
  <2>1. /\ status' \in [Jobs -> Statuses]
        /\ attempts' \in [Jobs -> Attempts]
        /\ locked' \in [Runners -> SUBSET Jobs]
        /\ Locks'
        /\ Counts'
    BY <1>1, MarkRunningRows DEF ClaimLost
  <2>2. \A j \in locked[r] : j \in Jobs /\ \A s \in Runners : stage[s][j] = "none"
    BY DueIsIdle DEF TypeOK, Locks
  <2>3. UNCHANGED <<mode, stage, read, late>>
    BY <1>1 DEF ClaimLost
  <2>4. TypeOK'
    BY <2>1, <2>3 DEF TypeOK
  <2>5. LeaseIsCurrent'
    BY <1>1, <2>2, <2>3 DEF ClaimLost, MarkRunning, LeaseIsCurrent, Processable
  <2>6. OneOwner' /\ ReadBounded'
    BY <2>3 DEF OneOwner, ReadBounded
  <2> QED BY <2>1, <2>4, <2>5, <2>6
<1>2. CASE ClaimRollback(r)
  <2> USE <1>2 DEF ClaimRollback, tableVars, Unlock
  <2>1. TypeOK' /\ Locks'
    BY DEF TypeOK, Locks, Processable
  <2>2. OneOwner' /\ LeaseIsCurrent' /\ Counts' /\ ReadBounded'
    BY DEF OneOwner, LeaseIsCurrent, Counts, DeadLetterSpent, NewIsUnclaimed, ReadBounded, Processable
  <2> QED BY <2>1, <2>2
<1> QED BY <1>1, <1>2

\* Starting or dropping claimed jobs gives no job to anybody new.
LEMMA StartInv ==
  ASSUME RunnerInv, NEW r \in Runners, NEW S \in SUBSET Jobs, StartBatch(r, S)
  PROVE  RunnerInv'
<1> USE DEF RunnerInv, StartBatch, tableVars
<1>1. stage' \in [Runners -> [Jobs -> Stages]]
  BY DEF TypeOK, Stages
<1>2. \A s \in Runners, j \in Jobs : stage'[s][j] # "none" => stage[s][j] # "none"
  BY DEF TypeOK, AtStage
<1>3. TypeOK'
  BY <1>1 DEF TypeOK
<1>4. Locks' /\ Counts'
  BY DEF Locks, Counts, DeadLetterSpent, NewIsUnclaimed, Processable
<1>5. OneOwner' /\ LeaseIsCurrent' /\ ReadBounded'
  BY <1>2 DEF OneOwner, LeaseIsCurrent, ReadBounded, Processable
<1> QED BY <1>3, <1>4, <1>5

-----------------------------------------------------------------------------
(* Steps of one job *)

\* What a job in some runner's hands is: claimed by that runner alone, counted,
\* not due.
LEMMA HeldJob ==
  ASSUME RunnerInv, NEW r \in Runners, NEW j \in Jobs, stage[r][j] # "none"
  PROVE  /\ \A s \in Runners \ {r} : stage[s][j] = "none"
         /\ \A s \in Runners : j \notin locked[s]
         /\ read[r][j] \in 0 .. MaxAttempts
         /\ attempts[j] = read[r][j] + 1
BY JobRunnerAssumption
   DEF RunnerInv, OneOwner, LeaseIsCurrent, ReadBounded, Locks, TypeOK, Attempts

\* A step that moves one job of one runner to another stage, or out of its
\* hands, and leaves the table alone.
LEMMA MoveInv ==
  ASSUME RunnerInv, NEW r \in Runners, NEW j \in Jobs,
         NEW from \in Stages \ {"none"}, NEW to \in Stages, Move(r, j, from, to),
         UNCHANGED <<tableVars, mode, locked, read>>,
         late' \in SUBSET (Runners \X Jobs)
  PROVE  RunnerInv'
<1> USE DEF RunnerInv, Move, tableVars
<1>1. TypeOK'
  BY DEF TypeOK
<1>2. \A s \in Runners, i \in Jobs : stage'[s][i] # "none" => stage[s][i] # "none"
  BY DEF TypeOK
<1>3. Locks' /\ Counts'
  BY DEF Locks, Counts, DeadLetterSpent, NewIsUnclaimed, Processable
<1>4. OneOwner' /\ LeaseIsCurrent' /\ ReadBounded'
  BY <1>2 DEF OneOwner, LeaseIsCurrent, ReadBounded, Processable
<1> QED BY <1>1, <1>3, <1>4

\* The write of an outcome: the job leaves the hands of its runner.
LEMMA OutcomeInv ==
  ASSUME RunnerInv, NEW r \in Runners, NEW j \in Jobs,
         NEW from \in Stages \ {"none"}, Move(r, j, from, "none"),
         UNCHANGED <<attempts, mode, locked, read, late>>,
         \/ status' = [status EXCEPT ![j] = "COMPLETED"]
         \/ status' = [status EXCEPT ![j] = FailedStatus(read[r][j])]
  PROVE  RunnerInv'
<1> USE DEF RunnerInv, Move
<1>1. /\ \A s \in Runners \ {r} : stage[s][j] = "none"
      /\ \A s \in Runners : j \notin locked[s]
      /\ read[r][j] \in 0 .. MaxAttempts
      /\ attempts[j] = read[r][j] + 1
  BY HeldJob
<1>2. /\ status'[j] \in {"COMPLETED", "DEAD_LETTER", "RETRYING"}
      /\ status'[j] = "DEAD_LETTER" => attempts[j] = MaxAttempts + 1
      /\ status'[j] = "RETRYING" => attempts[j] <= MaxAttempts
      /\ \A i \in Jobs \ {j} : status'[i] = status[i]
  BY <1>1, JobRunnerAssumption DEF FailedStatus, TypeOK
<1>3. /\ \A s \in Runners : stage'[s][j] = "none"
      /\ \A s \in Runners, i \in Jobs \ {j} : stage'[s][i] = stage[s][i]
  BY <1>1 DEF TypeOK
<1>4. TypeOK'
  BY DEF TypeOK, Statuses, Stages, FailedStatus
<1>5. Locks'
  BY <1>1, <1>2 DEF Locks, Processable, TypeOK
<1>6. Counts'
  BY <1>2 DEF Counts, DeadLetterSpent, NewIsUnclaimed, Processable
<1>7. OneOwner' /\ LeaseIsCurrent' /\ ReadBounded'
  BY <1>2, <1>3 DEF OneOwner, LeaseIsCurrent, ReadBounded, Processable
<1> QED BY <1>4, <1>5, <1>6, <1>7

\* completeJob took effect and was reported as failed: the job stays in the
\* hands of its runner, COMPLETED and not due.
LEMMA UnreportedInv ==
  ASSUME RunnerInv, NEW r \in Runners, NEW j \in Jobs,
         Move(r, j, "completing", "failing"),
         UNCHANGED <<attempts, mode, locked, read, late>>,
         status' = [status EXCEPT ![j] = "COMPLETED"]
  PROVE  RunnerInv'
<1> USE DEF RunnerInv, Move
<1>1. \A s \in Runners : j \notin locked[s]
  BY HeldJob
<1>2. /\ status'[j] = "COMPLETED"
      /\ \A i \in Jobs \ {j} : status'[i] = status[i]
      /\ \A s \in Runners, i \in Jobs : stage'[s][i] # "none" => stage[s][i] # "none"
  BY DEF TypeOK
<1>3. TypeOK'
  BY DEF TypeOK, Statuses, Stages
<1>4. Locks' /\ Counts'
  BY <1>1, <1>2 DEF Locks, Counts, DeadLetterSpent, NewIsUnclaimed, Processable, TypeOK
<1>5. OneOwner' /\ LeaseIsCurrent' /\ ReadBounded'
  BY <1>2 DEF OneOwner, LeaseIsCurrent, ReadBounded, Processable
<1> QED BY <1>3, <1>4, <1>5

LEMMA ProcessInv ==
  ASSUME RunnerInv, NEW r \in Runners, NEW j \in Jobs, Process(r, j)
  PROVE  RunnerInv'
<1>1. late \in SUBSET (Runners \X Jobs)
  BY DEF RunnerInv, TypeOK
<1>2. CASE Handle(r, j)
  BY <1>1, <1>2, MoveInv DEF Handle, HandlerReturns, HandlerThrows, Timeout, Stages
<1>3. CASE Complete(r, j) \/ Fail(r, j)
  BY <1>3, OutcomeInv DEF Complete, Fail, Stages
<1>4. CASE CompleteRejected(r, j)
  <2>1. CASE status' = status
    BY <1>1, <1>4, <2>1, MoveInv DEF CompleteRejected, Stages, tableVars
  <2>2. CASE status' = [status EXCEPT ![j] = "COMPLETED"]
    BY <1>4, <2>2, UnreportedInv DEF CompleteRejected
  <2> QED BY <1>4, <2>1, <2>2 DEF CompleteRejected
<1>5. CASE FailRejected(r, j)
  <2>1. CASE status' = status
    BY <1>1, <1>5, <2>1, MoveInv DEF FailRejected, Stages, tableVars
  <2>2. CASE status' = [status EXCEPT ![j] = FailedStatus(read[r][j])]
    BY <1>5, <2>2, OutcomeInv DEF FailRejected, Stages
  <2> QED BY <1>5, <2>1, <2>2 DEF FailRejected
<1> QED BY <1>2, <1>3, <1>4, <1>5 DEF Process

-----------------------------------------------------------------------------
(* Insertion, processes that stop and start, late handlers *)

LEMMA ProcessesInv ==
  ASSUME RunnerInv, NEW r \in Runners, Close(r) \/ Crash(r) \/ Start(r)
  PROVE  RunnerInv'
<1> USE DEF RunnerInv
<1>1. CASE Close(r) \/ Start(r)
  <2> USE <1>1 DEF Close, Start, tableVars
  <2>1. TypeOK'
    BY DEF TypeOK
  <2>2. Locks' /\ Counts' /\ OneOwner' /\ LeaseIsCurrent' /\ ReadBounded'
    BY DEF Locks, Counts, DeadLetterSpent, NewIsUnclaimed, OneOwner, LeaseIsCurrent,
           ReadBounded, Processable
  <2> QED BY <2>1, <2>2
<1>2. CASE Crash(r)
  <2> USE <1>2 DEF Crash, tableVars
  <2>1. mode' \in [Runners -> {"up", "stopping", "down"}] /\ late' \subseteq Runners \X Jobs
    BY DEF TypeOK
  <2>2. locked' \in [Runners -> SUBSET Jobs] /\ \A s \in Runners : locked'[s] \subseteq locked[s]
    BY DEF TypeOK
  <2>3. stage' \in [Runners -> [Jobs -> Stages]]
    BY DEF TypeOK, Stages
  <2>4. TypeOK'
    BY <2>1, <2>2, <2>3 DEF TypeOK
  <2>5. \A s \in Runners, j \in Jobs : stage'[s][j] # "none" => stage[s][j] # "none"
    BY DEF TypeOK
  <2>6. Locks'
    BY <2>2 DEF Locks, Processable
  <2>7. Counts' /\ OneOwner' /\ LeaseIsCurrent' /\ ReadBounded'
    BY <2>5 DEF Counts, DeadLetterSpent, NewIsUnclaimed, OneOwner, LeaseIsCurrent, ReadBounded,
       Processable
  <2> QED BY <2>4, <2>6, <2>7
<1> QED BY <1>1, <1>2

LEMMA OutsideInv ==
  ASSUME RunnerInv,
         \/ \E j \in Jobs : Enqueue(j)
         \/ \E r \in Runners, j \in Jobs : LateHandlerEnds(r, j)
         \/ UNCHANGED vars
  PROVE  RunnerInv'
<1> USE DEF RunnerInv
<1>1. ASSUME NEW j \in Jobs, Enqueue(j) PROVE RunnerInv'
  <2> USE <1>1 DEF Enqueue
  <2>1. TypeOK'
    BY DEF TypeOK, Statuses
  <2>2. Counts'
    BY JobRunnerAssumption DEF Counts, DeadLetterSpent, NewIsUnclaimed, Processable, TypeOK
  <2>3. \A r \in Runners : stage[r][j] = "none"
    BY DEF LeaseIsCurrent, Counts, NewIsUnclaimed, TypeOK, Attempts
  <2>4. Locks'
    BY DEF Locks, Processable, TypeOK
  <2>5. OneOwner' /\ LeaseIsCurrent' /\ ReadBounded'
    BY <2>3 DEF OneOwner, LeaseIsCurrent, ReadBounded, Processable, TypeOK
  <2> QED BY <2>1, <2>2, <2>4, <2>5
<1>2. ASSUME NEW r \in Runners, NEW j \in Jobs, LateHandlerEnds(r, j) PROVE RunnerInv'
  BY <1>2 DEF LateHandlerEnds, tableVars, TypeOK, Locks, Counts, DeadLetterSpent, NewIsUnclaimed,
     OneOwner, LeaseIsCurrent, ReadBounded, Processable
<1>3. CASE UNCHANGED vars
  BY <1>3 DEF vars, TypeOK, Locks, Counts, DeadLetterSpent, NewIsUnclaimed, OneOwner,
     LeaseIsCurrent, ReadBounded, Processable
<1> QED BY <1>1, <1>2, <1>3

(***************************************************************************)
(* The theorems                                                            *)
(***************************************************************************)

LEMMA NextInv == RunnerInv /\ [Next]_vars => RunnerInv'
<1> SUFFICES ASSUME RunnerInv, [Next]_vars PROVE RunnerInv'
  OBVIOUS
<1>1. ASSUME NEW r \in Runners, Tick(r) PROVE RunnerInv'
  BY <1>1, SelectInv, StartInv, CommitInv, LostInv DEF Tick
<1>2. ASSUME NEW r \in Runners, Close(r) \/ Crash(r) \/ Start(r) PROVE RunnerInv'
  BY <1>2, ProcessesInv
<1>3. ASSUME NEW r \in Runners, NEW j \in Jobs, Process(r, j) PROVE RunnerInv'
  BY <1>3, ProcessInv
<1> QED BY <1>1, <1>2, <1>3, OutsideInv DEF Next

THEOREM Invariance == Spec => []RunnerInv
BY InitInv, NextInv, PTL DEF Spec

\* The columns and the runners' copies stay in their domains; attempts never
\* exceeds max_attempts by more than the one the code grants.
THEOREM Typing == Spec => []TypeOK
<1>1. RunnerInv => TypeOK
  BY DEF RunnerInv
<1> QED BY <1>1, Invariance, PTL

\* A job is in the hands of one runner at most, whatever crashes, is rejected or
\* gets no answer.
THEOREM Exclusion == Spec => []OneOwner
<1>1. RunnerInv => OneOwner
  BY DEF RunnerInv
<1> QED BY <1>1, Invariance, PTL

\* A runner's copy of the row it works on is current.
THEOREM Currency == Spec => []LeaseIsCurrent
<1>1. RunnerInv => LeaseIsCurrent
  BY DEF RunnerInv
<1> QED BY <1>1, Invariance, PTL

\* No job is given up early, and none is due with its attempts used up.
THEOREM Retries == Spec => []DeadLetterSpent
<1>1. RunnerInv => DeadLetterSpent
  BY DEF RunnerInv, Counts
<1> QED BY <1>1, Invariance, PTL

(***************************************************************************)
(* Where nothing fails: the table implements JobLease                      *)
(***************************************************************************)

\* Without lost answers a job in a runner's hands is RUNNING: the runner does not
\* go on with a job whose outcome was written.
HeldIsRunning == \A r \in Runners, j \in Jobs : stage[r][j] # "none" => status[j] = "RUNNING"

ReliableInv == RunnerInv /\ HeldIsRunning

\* The steps of a system in which nothing fails.
ReliableTick(r) ==
  \/ \E B \in SUBSET Jobs : ClaimSelect(r, B) \/ StartBatch(r, B)
  \/ ClaimCommit(r)
  \/ ClaimRollback(r)

ReliableProcess(r, j) == Handle(r, j) \/ Complete(r, j) \/ Fail(r, j)

LEMMA ReliableNext ==
  ASSUME ~Faults, Next
  PROVE  \/ \E j \in Jobs : Enqueue(j)
         \/ \E r \in Runners : ReliableTick(r) \/ Start(r)
         \/ \E r \in Runners, j \in Jobs : ReliableProcess(r, j) \/ LateHandlerEnds(r, j)
BY DEF Next, Tick, Process, ReliableTick, ReliableProcess, ClaimLost, Close, Crash,
   CompleteRejected, FailRejected

\* What a claim does to each job.
LEMMA CommitEffect ==
  ASSUME RunnerInv, NEW r \in Runners, ClaimCommit(r)
  PROVE  /\ locked[r] # {}
         /\ \A j \in locked[r] : /\ j \in Jobs
                                 /\ Processable(j)
                                 /\ \A s \in Runners : stage[s][j] = "none"
                                 /\ attempts[j] \in 0 .. MaxAttempts
         /\ \A s \in Runners, j \in Jobs :
              stage'[s][j] = IF s = r /\ j \in locked[r] THEN "claimed" ELSE stage[s][j]
         /\ \A j \in Jobs : status'[j] = IF j \in locked[r] THEN "RUNNING" ELSE status[j]
         /\ attempts' = [j \in Jobs |-> IF j \in locked[r] THEN attempts[j] + 1 ELSE attempts[j]]
<1> USE DEF RunnerInv, ClaimCommit, Unlock, MarkRunning
<1>1. \A j \in locked[r] : j \in Jobs /\ Processable(j)
  BY DEF TypeOK, Locks
<1>2. \A s \in Runners, j \in Jobs :
        stage'[s][j] = IF s = r /\ j \in locked[r] THEN "claimed" ELSE stage[s][j]
  BY DEF TypeOK
<1> QED BY <1>1, <1>2, DueIsIdle

\* What a step of one job does to each job.
LEMMA MoveEffect ==
  ASSUME RunnerInv, NEW r \in Runners, NEW j \in Jobs, NEW from \in Stages, NEW to \in Stages,
         Move(r, j, from, to)
  PROVE  \A s \in Runners, i \in Jobs :
           stage'[s][i] = IF s = r /\ i = j THEN to ELSE stage[s][i]
BY DEF RunnerInv, TypeOK, Move

LEMMA RunningKept ==
  ASSUME ~Faults, ReliableInv, [Next]_vars
  PROVE  HeldIsRunning'
<1> USE DEF ReliableInv, HeldIsRunning
<1>1. ASSUME NEW j \in Jobs, Enqueue(j) PROVE HeldIsRunning'
  BY <1>1 DEF Enqueue, RunnerInv, TypeOK
<1>2. ASSUME NEW r \in Runners, ClaimCommit(r) PROVE HeldIsRunning'
  BY <1>2, CommitEffect
<1>3. ASSUME NEW r \in Runners, NEW B \in SUBSET Jobs, ClaimSelect(r, B) PROVE HeldIsRunning'
  BY <1>3 DEF ClaimSelect, tableVars
<1>4. ASSUME NEW r \in Runners, NEW S \in SUBSET Jobs, StartBatch(r, S) PROVE HeldIsRunning'
  <2>1. \A s \in Runners, j \in Jobs : stage'[s][j] # "none" => stage[s][j] # "none"
    BY <1>4 DEF StartBatch, AtStage, RunnerInv, TypeOK
  <2> QED BY <1>4, <2>1 DEF StartBatch, tableVars
<1>5. ASSUME NEW r \in Runners, ClaimRollback(r) \/ Start(r) PROVE HeldIsRunning'
  BY <1>5 DEF ClaimRollback, Start, tableVars
<1>6. ASSUME NEW r \in Runners, NEW j \in Jobs, Handle(r, j) PROVE HeldIsRunning'
  <2>1. PICK to \in Stages : Move(r, j, "handler", to) /\ UNCHANGED status
    BY <1>6 DEF Handle, HandlerReturns, HandlerThrows, Timeout, Stages, tableVars
  <2>2. stage[r][j] # "none"
    BY <2>1 DEF Move
  <2> QED BY <2>1, <2>2, MoveEffect DEF Stages
<1>7. ASSUME NEW r \in Runners, NEW j \in Jobs, Complete(r, j) \/ Fail(r, j)
      PROVE HeldIsRunning'
  <2>1. PICK from \in Stages \ {"none"} : Move(r, j, from, "none")
    BY <1>7 DEF Complete, Fail, Stages
  <2>2. \A s \in Runners, i \in Jobs : stage'[s][i] # "none" => i # j /\ stage[s][i] # "none"
    <3>1. \A s \in Runners \ {r} : stage[s][j] = "none"
      BY <2>1, HeldJob DEF Move
    <3>2. \A s \in Runners, i \in Jobs :
            stage'[s][i] = IF s = r /\ i = j THEN "none" ELSE stage[s][i]
      BY <2>1, MoveEffect DEF Stages
    <3> QED BY <3>1, <3>2
  <2>3. \A i \in Jobs \ {j} : status'[i] = status[i]
    BY <1>7 DEF Complete, Fail, RunnerInv, TypeOK
  <2> QED BY <2>2, <2>3
<1>8. ASSUME NEW r \in Runners, NEW j \in Jobs, LateHandlerEnds(r, j) PROVE HeldIsRunning'
  BY <1>8 DEF LateHandlerEnds, tableVars
<1>9. CASE UNCHANGED vars
  BY <1>9 DEF vars
<1> QED BY <1>1, <1>2, <1>3, <1>4, <1>5, <1>6, <1>7, <1>8, <1>9, ReliableNext
        DEF ReliableTick, ReliableProcess

\* A step that changes neither table nor who holds what is invisible to JobLease.
LEMMA Invisible ==
  ASSUME UNCHANGED tableVars,
         \A r \in Runners, j \in Jobs : stage'[r][j] # "none" <=> stage[r][j] # "none"
  PROVE  UNCHANGED Lease!leaseVars
<1>1. UNCHANGED <<Due, Settled, attempts>>
  BY DEF tableVars, Due, Settled, Processable
<1>2. UNCHANGED Held
  BY DEF Held
<1> QED BY <1>1, <1>2 DEF Lease!leaseVars

\* The claim of a batch is one Acquire.
LEMMA CommitAcquires ==
  ASSUME ReliableInv, NEW r \in Runners, ClaimCommit(r)
  PROVE  Lease!Acquire(r, locked[r])
<1> DEFINE B == locked[r]
<1> USE DEF ReliableInv
<1>1. /\ B # {}
      /\ \A j \in B : /\ j \in Jobs
                      /\ Processable(j)
                      /\ \A s \in Runners : stage[s][j] = "none"
                      /\ attempts[j] \in 0 .. MaxAttempts
      /\ \A s \in Runners, j \in Jobs :
           stage'[s][j] = IF s = r /\ j \in B THEN "claimed" ELSE stage[s][j]
      /\ \A j \in Jobs : status'[j] = IF j \in B THEN "RUNNING" ELSE status[j]
      /\ attempts' = [j \in Jobs |-> IF j \in B THEN attempts[j] + 1 ELSE attempts[j]]
  BY CommitEffect
<1>2. B \subseteq Due
  BY <1>1 DEF Due
<1>3. \A j \in B : Lease!Holders(j) = {}
  BY <1>1 DEF Lease!Holders, Held
<1>4. \A j \in B : attempts[j] < MaxAttempts + 1
  BY <1>1, JobRunnerAssumption
<1>5. Due' = Due \ B
  BY <1>1 DEF Due, Processable
<1>6. Held' = Held \cup ({r} \X B)
  BY <1>1 DEF Held
<1>7. Settled' = Settled
  BY <1>1 DEF Settled, Processable
<1> QED BY <1>1, <1>2, <1>3, <1>4, <1>5, <1>6, <1>7 DEF Lease!Acquire

\* A batch that is cut short loses the leases of the jobs it drops.
LEMMA StartLoses ==
  ASSUME ReliableInv, NEW r \in Runners, NEW S \in SUBSET Jobs, StartBatch(r, S)
  PROVE  Lease!Lose(r, AtStage(r, "claimed") \ S)
<1> DEFINE B == AtStage(r, "claimed") \ S
<1>1. \A s \in Runners, j \in Jobs :
        stage'[s][j] # "none" <=> stage[s][j] # "none" /\ ~(s = r /\ j \in B)
  BY DEF StartBatch, AtStage, ReliableInv, RunnerInv, TypeOK
<1>2. {r} \X B \subseteq Held
  BY DEF AtStage, Held
<1>3. Held' = Held \ ({r} \X B)
  BY <1>1 DEF Held
<1>4. UNCHANGED <<Due, Settled, attempts>>
  BY DEF StartBatch, tableVars, Due, Settled, Processable
<1> QED BY <1>2, <1>3, <1>4 DEF Lease!Lose

\* The outcome of a job settles it or gives it back for another try.
LEMMA OutcomeReleases ==
  ASSUME ReliableInv, NEW r \in Runners, NEW j \in Jobs, Complete(r, j) \/ Fail(r, j)
  PROVE  Lease!Settle(r, j) \/ Lease!GiveBack(r, j)
<1> USE DEF ReliableInv
<1>1. PICK from \in Stages \ {"none"} : Move(r, j, from, "none")
  BY DEF Complete, Fail, Stages
<1>2. /\ stage[r][j] # "none"
      /\ \A s \in Runners, i \in Jobs :
           stage'[s][i] = IF s = r /\ i = j THEN "none" ELSE stage[s][i]
  <2>1. stage[r][j] # "none"
    BY <1>1 DEF Move
  <2> QED BY <1>1, <2>1, MoveEffect DEF Stages
<1>3. /\ <<r, j>> \in Held
      /\ Held' = Held \ {<<r, j>>}
  BY <1>2 DEF Held
<1>4. /\ status[j] = "RUNNING"
      /\ attempts[j] = read[r][j] + 1
      /\ read[r][j] \in 0 .. MaxAttempts
  BY <1>2, HeldJob DEF HeldIsRunning
<1>5. /\ UNCHANGED attempts
      /\ \A i \in Jobs \ {j} : status'[i] = status[i]
      /\ \/ status'[j] \in {"COMPLETED", "DEAD_LETTER"}
         \/ status'[j] = "RETRYING" /\ read[r][j] < MaxAttempts
  BY <1>4, JobRunnerAssumption DEF Complete, Fail, FailedStatus, RunnerInv, TypeOK
<1>6. CASE status'[j] \in {"COMPLETED", "DEAD_LETTER"}
  <2>1. Settled' = Settled \cup {j} /\ Due' = Due
    BY <1>4, <1>5, <1>6 DEF Settled, Due, Processable
  <2> QED BY <1>3, <1>5, <2>1 DEF Lease!Settle
<1>7. CASE status'[j] = "RETRYING" /\ read[r][j] < MaxAttempts
  <2>1. Due' = Due \cup {j} /\ Settled' = Settled
    BY <1>4, <1>5, <1>7 DEF Settled, Due, Processable
  <2>2. attempts[j] < MaxAttempts + 1
    BY <1>4, <1>7, JobRunnerAssumption
  <2> QED BY <1>3, <1>5, <2>1, <2>2 DEF Lease!GiveBack
<1> QED BY <1>5, <1>6, <1>7

\* A new row is a new job.
LEMMA EnqueueSubmits ==
  ASSUME ReliableInv, NEW j \in Jobs, Enqueue(j)
  PROVE  Lease!Submit(j)
<1> USE DEF ReliableInv, Enqueue
<1>1. j \notin Due \cup Settled
  BY DEF Due, Settled, Processable
<1>2. Lease!Holders(j) = {}
  BY DEF Lease!Holders, Held, HeldIsRunning
<1>3. attempts[j] = 0
  BY DEF RunnerInv, Counts, NewIsUnclaimed
<1>4. Due' = Due \cup {j} /\ UNCHANGED <<Held, Settled, attempts>>
  BY DEF Due, Settled, Held, Processable, RunnerInv, TypeOK
<1> QED BY <1>1, <1>2, <1>3, <1>4 DEF Lease!Submit

LEMMA LeaseStep ==
  ASSUME ~Faults, ReliableInv, [Next]_vars
  PROVE  [Lease!LeaseNext]_Lease!leaseVars
<1> USE DEF Lease!LeaseNext
<1>1. ASSUME NEW j \in Jobs, Enqueue(j) PROVE Lease!LeaseNext
  BY <1>1, EnqueueSubmits
<1>2. ASSUME NEW r \in Runners, ClaimCommit(r) PROVE Lease!LeaseNext
  <2>1. locked[r] \in SUBSET Jobs
    BY DEF ReliableInv, RunnerInv, TypeOK
  <2> QED BY <1>2, <2>1, CommitAcquires
<1>3. ASSUME NEW r \in Runners, NEW S \in SUBSET Jobs, StartBatch(r, S) PROVE Lease!LeaseNext
  <2>1. AtStage(r, "claimed") \ S \in SUBSET Jobs
    BY DEF AtStage
  <2> QED BY <1>3, <2>1, StartLoses
<1>4. ASSUME NEW r \in Runners, NEW j \in Jobs, Complete(r, j) \/ Fail(r, j)
      PROVE Lease!LeaseNext
  BY <1>4, OutcomeReleases
<1>5. ASSUME NEW r \in Runners,
             \/ \E B \in SUBSET Jobs : ClaimSelect(r, B)
             \/ ClaimRollback(r)
             \/ Start(r)
             \/ \E j \in Jobs : LateHandlerEnds(r, j)
      PROVE  UNCHANGED Lease!leaseVars
  BY <1>5, Invisible DEF ClaimSelect, ClaimRollback, Start, LateHandlerEnds
<1>6. ASSUME NEW r \in Runners, NEW j \in Jobs, Handle(r, j) PROVE UNCHANGED Lease!leaseVars
  <2>1. PICK to \in Stages \ {"none"} : Move(r, j, "handler", to) /\ UNCHANGED tableVars
    BY <1>6 DEF Handle, HandlerReturns, HandlerThrows, Timeout, Stages
  <2>2. \A s \in Runners, i \in Jobs :
          stage'[s][i] = IF s = r /\ i = j THEN to ELSE stage[s][i]
    BY <2>1, MoveEffect DEF Stages, ReliableInv
  <2>3. stage[r][j] = "handler"
    BY <2>1 DEF Move
  <2> QED BY <2>1, <2>2, <2>3, Invisible
<1>7. CASE UNCHANGED vars
  BY <1>7, Invisible DEF vars, tableVars
<1> QED BY <1>1, <1>2, <1>3, <1>4, <1>5, <1>6, <1>7, ReliableNext
        DEF ReliableTick, ReliableProcess

\* Where no query is rejected and no process stops, the runners hand out leases:
\* one holder per job, tries counted and bounded, settled jobs final.
THEOREM LeaseRefinement == ~Faults => (Spec => ImplementsLease)
<1> SUFFICES ASSUME ~Faults PROVE Spec => ImplementsLease
  OBVIOUS
<1>1. Init => Lease!LeaseInit /\ HeldIsRunning
  BY DEF Init, Lease!LeaseInit, HeldIsRunning, Due, Held, Settled, Processable
<1>2. ReliableInv /\ [Next]_vars => HeldIsRunning'
  BY RunningKept
<1>3. ReliableInv /\ [Next]_vars => [Lease!LeaseNext]_Lease!leaseVars
  BY LeaseStep
<1> QED BY <1>1, <1>2, <1>3, Invariance, PTL DEF Spec, ReliableInv, ImplementsLease, Lease!LeaseSpec

\* Where nothing fails, COMPLETED and DEAD_LETTER are final.
THEOREM Finality == ~Faults => (Spec => TerminalStays)
<1> SUFFICES ASSUME ~Faults PROVE Spec => TerminalStays
  OBVIOUS
<1>1. Init => HeldIsRunning
  BY DEF Init, HeldIsRunning
<1>2. ReliableInv /\ [Next]_vars => HeldIsRunning'
  BY RunningKept
<1>3. ReliableInv /\ [Next]_vars
        => [\A j \in Jobs : status[j] \in {"COMPLETED", "DEAD_LETTER"}
              => status'[j] = status[j]]_vars
  <2> SUFFICES ASSUME ReliableInv, Next, NEW j \in Jobs,
                      status[j] \in {"COMPLETED", "DEAD_LETTER"}
               PROVE  status'[j] = status[j]
    OBVIOUS
  <2> USE DEF ReliableInv
  <2>1. ASSUME NEW r \in Runners, ClaimCommit(r) PROVE status'[j] = status[j]
    BY <2>1, CommitEffect DEF Processable
  <2>2. ASSUME NEW r \in Runners, NEW i \in Jobs, Complete(r, i) \/ Fail(r, i)
        PROVE status'[j] = status[j]
    <3>1. i # j
      BY <2>2 DEF Complete, Fail, Move, HeldIsRunning
    <3> QED BY <2>2, <3>1 DEF Complete, Fail, RunnerInv, TypeOK
  <2>3. ASSUME NEW i \in Jobs, Enqueue(i) PROVE status'[j] = status[j]
    BY <2>3 DEF Enqueue, RunnerInv, TypeOK
  <2>4. ASSUME NEW r \in Runners,
               \/ \E B \in SUBSET Jobs : ClaimSelect(r, B) \/ StartBatch(r, B)
               \/ ClaimRollback(r)
               \/ Start(r)
               \/ \E i \in Jobs : Handle(r, i) \/ LateHandlerEnds(r, i)
        PROVE  UNCHANGED status
    BY <2>4 DEF ClaimSelect, StartBatch, ClaimRollback, Start, Handle, HandlerReturns,
       HandlerThrows, Timeout, LateHandlerEnds, tableVars
  <2> QED BY <2>1, <2>2, <2>3, <2>4, ReliableNext DEF ReliableTick, ReliableProcess
<1> QED BY <1>1, <1>2, <1>3, Invariance, PTL DEF Spec, ReliableInv, TerminalStays

(***************************************************************************)
(* The whole: schedulers and runners over one table                        *)
(***************************************************************************)

\* What a step of a scheduler is to the runners: an Enqueue or nothing.
LEMMA SchedulingIsEnqueue ==
  ASSUME NEW p \in Runners, Scheduling(p)
  PROVE  (\E j \in Jobs : Enqueue(j)) \/ UNCHANGED vars
<1>1. UNCHANGED <<attempts, mode, locked, stage, read, late>>
  BY DEF Scheduling, runnerVars
<1>2. CASE UNCHANGED status
  BY <1>1, <1>2 DEF vars
<1>3. CASE ~UNCHANGED status
  <2>1. Sched!Insert(p) /\ Sched!Recent(p) = {}
    BY <1>3 DEF Scheduling, Sched!Schedule, Sched!TryStep, Sched!StartTick, Sched!Try, Sched!Lock,
       Sched!LockTimeout, Sched!Rejected, Sched!Fails, Sched!Insert
  <2> DEFINE j == CHOOSE i \in Jobs : status[i] = "Absent"
  <2>2. j \in Jobs /\ status[j] = "Absent"
    BY <2>1 DEF Sched!Insert
  <2>3. status' = [status EXCEPT ![j] = "PENDING"]
    BY <2>1 DEF Sched!Insert
  <2> QED BY <1>1, <2>2, <2>3 DEF Enqueue
<1> QED BY <1>2, <1>3

\* The steps of the whole that are steps of the runners alone.
RunnerStep ==
  \/ \E r \in Runners : Tick(r) \/ Close(r) \/ Crash(r) \/ Start(r)
  \/ \E r \in Runners, j \in Jobs : Process(r, j) \/ LateHandlerEnds(r, j)

LEMMA SystemStep ==
  ASSUME [SystemNext]_systemVars
  PROVE  [Next]_vars
<1>1. ASSUME NEW p \in Runners, Scheduling(p) PROVE [Next]_vars
  BY <1>1, SchedulingIsEnqueue DEF Next
<1>2. CASE RunnerStep
  BY <1>2 DEF RunnerStep, Next
<1>3. CASE Sched!PassTime /\ UNCHANGED runnerVars
  BY <1>3 DEF Sched!PassTime, runnerVars, vars
<1>4. CASE UNCHANGED systemVars
  BY <1>4 DEF systemVars
<1> QED BY <1>1, <1>2, <1>3, <1>4 DEF SystemNext, RunnerStep, Running, Working

\* The scheduler's INSERT is an Enqueue of the runners: the whole implements them.
THEOREM RunnerRefinement == SystemSpec => ImplementsRunner
<1>1. SystemInit => Init
  BY DEF SystemInit
<1>2. [SystemNext]_systemVars => [Next]_vars
  BY SystemStep
<1> QED BY <1>1, <1>2, PTL DEF SystemSpec, ImplementsRunner, Spec

\* So what is proved of the runners holds with the schedulers beside them, under
\* every failure: one owner, a current copy, no early dead letter.
COROLLARY SystemSafety == SystemSpec => [](OneOwner /\ LeaseIsCurrent /\ DeadLetterSpent)
<1>1. RunnerInv => OneOwner /\ LeaseIsCurrent /\ DeadLetterSpent
  BY DEF RunnerInv, Counts
<1> QED BY <1>1, RunnerRefinement, Invariance, PTL DEF ImplementsRunner

\* Where nothing fails, the whole implements the lease and outcomes are final.
COROLLARY SystemLease == ~Faults => (SystemSpec => ImplementsLease /\ TerminalStays)
BY RunnerRefinement, LeaseRefinement, Finality DEF ImplementsRunner


-----------------------------------------------------------------------------
(* What the schedulers leave behind *)

\* A row has a type as soon as it is inserted.
FreshRows == \A j \in Jobs : status[j] = "Absent" <=> kind[j] = NoSchedule

\* lastRunAt is the time of a tick that is over or was before the try of the schedule.
RunsArePast ==
  /\ \A p \in Runners, s \in Schedules : lastRun[p][s] <= now
  /\ \A p \in Runners : trying[p] # NoSchedule => lastRun[p][trying[p]] <= begun[p]

Served(p, s) == \E j \in Jobs : kind[j] = s /\ created[j] > lastRun[p][s] - Interval

\* A schedule that counts as run is still to try, is tried now, was tried in vain or
\* has its job: RunIsServed alone forgets the schedules of a tick under way.
Accounted ==
  \A p \in Runners, s \in Schedules :
    lastRun[p][s] > 0 => s \in todo[p] \/ trying[p] = s \/ s \in missed[p] \/ Served(p, s)

SchedulerInv ==
  /\ Sched!SchedTypeOK
  /\ FreshRows
  /\ RunsArePast
  /\ Accounted

SystemInv == RunnerInv /\ SchedulerInv

LEMMA ConstantsOK ==
  /\ Interval \in Nat \ {0}
  /\ MaxTime \in Nat /\ Interval <= MaxTime
  /\ Nobody \notin Runners
  /\ NoSchedule \notin Schedules
BY SystemAssumption DEF Sched!SchedulerAssumption

LEMMA SchedulerInit ==
  ASSUME SystemInit
  PROVE  SchedulerInv
<1> USE ConstantsOK DEF SystemInit, Init, Sched!SchedInit
<1>1. 0 \in Sched!Times /\ Interval \in Sched!Times
  BY DEF Sched!Times
<1>2. Sched!SchedTypeOK
  BY <1>1 DEF Sched!SchedTypeOK
<1>3. FreshRows
  BY DEF FreshRows
<1>4. RunsArePast /\ Accounted
  BY DEF RunsArePast, Accounted
<1> QED BY <1>2, <1>3, <1>4 DEF SchedulerInv

\* The runners insert no row and take none back.
LEMMA RowsStay ==
  ASSUME RunnerInv, RunnerStep
  PROVE  \A j \in Jobs : status'[j] = "Absent" <=> status[j] = "Absent"
<1> USE DEF RunnerInv, TypeOK
<1>1. ASSUME NEW r \in Runners, Tick(r)
      PROVE  \A j \in Jobs : status'[j] = "Absent" <=> status[j] = "Absent"
  <2>1. \A j \in locked[r] : status[j] # "Absent"
    BY DEF Locks, Processable
  <2>2. UNCHANGED status \/ MarkRunning(locked[r])
    BY <1>1 DEF Tick, ClaimSelect, StartBatch, ClaimCommit, ClaimRollback, ClaimLost, tableVars
  <2> QED BY <2>1, <2>2 DEF MarkRunning
<1>2. ASSUME NEW r \in Runners, Close(r) \/ Crash(r) \/ Start(r) PROVE UNCHANGED status
  BY <1>2 DEF Close, Crash, Start, tableVars
<1>3. ASSUME NEW r \in Runners, NEW j \in Jobs, Process(r, j) \/ LateHandlerEnds(r, j)
      PROVE  \A i \in Jobs : status'[i] = "Absent" <=> status[i] = "Absent"
  <2>1. UNCHANGED status \/ stage[r][j] # "none"
    BY <1>3 DEF Process, Handle, HandlerReturns, HandlerThrows, Timeout, Complete,
       CompleteRejected, Fail, FailRejected, LateHandlerEnds, Move, tableVars
  <2>2. CASE UNCHANGED status
    BY <2>2
  <2>3. CASE stage[r][j] # "none"
    <3>1. status[j] # "Absent"
      BY <2>3, HeldJob DEF Counts, NewIsUnclaimed
    <3>2. \/ UNCHANGED status
          \/ status' = [status EXCEPT ![j] = "COMPLETED"]
          \/ status' = [status EXCEPT ![j] = FailedStatus(read[r][j])]
      BY <1>3 DEF Process, Handle, HandlerReturns, HandlerThrows, Timeout, Complete,
         CompleteRejected, Fail, FailRejected, LateHandlerEnds, tableVars
    <3> QED BY <3>1, <3>2 DEF FailedStatus
  <2> QED BY <2>1, <2>2, <2>3
<1> QED BY <1>1, <1>2, <1>3 DEF RunnerStep

-----------------------------------------------------------------------------
(* The steps of a tick of the scheduler *)

LEMMA StartTickInv ==
  ASSUME SchedulerInv, NEW p \in Runners, Sched!StartTick(p)
  PROVE  SchedulerInv'
<1> USE ConstantsOK DEF SchedulerInv, Sched!SchedTypeOK, Sched!StartTick
<1> DEFINE D == Sched!Due(p)
<1>1. /\ D \in SUBSET Schedules
      /\ now \in Sched!Times
      /\ todo[p] = {} /\ trying[p] = NoSchedule
  BY DEF Sched!Due, Sched!Resting
<1>2. /\ \A q \in Runners : todo'[q] = IF q = p THEN D ELSE todo[q]
      /\ \A q \in Runners, s \in Schedules :
           lastRun'[q][s] = IF q = p /\ s \in D THEN now ELSE lastRun[q][s]
      /\ \A q \in Runners : missed'[q] = IF q = p THEN missed[q] \ D ELSE missed[q]
      /\ UNCHANGED <<status, kind, created, now, trying, begun, holder>>
  OBVIOUS
<1>3. Sched!SchedTypeOK'
  <2>1. lastRun' \in [Runners -> [Schedules -> Sched!Times]]
    BY <1>1
  <2>2. todo' \in [Runners -> SUBSET Schedules] /\ missed' \in [Runners -> SUBSET Schedules]
    BY <1>1
  <2> QED BY <1>2, <2>1, <2>2 DEF Sched!Times
<1>4. FreshRows'
  BY <1>2 DEF FreshRows
<1>5. RunsArePast'
  <2>1. now \in Nat
    BY <1>1 DEF Sched!Times
  <2>2. \A q \in Runners : trying[q] # NoSchedule => q # p /\ trying[q] \in Schedules
    BY <1>1
  <2> QED BY <1>2, <2>1, <2>2 DEF RunsArePast
<1>6. Accounted'
  <2> SUFFICES ASSUME NEW q \in Runners, NEW s \in Schedules, lastRun'[q][s] > 0
               PROVE  s \in todo'[q] \/ trying'[q] = s \/ s \in missed'[q] \/ Served(q, s)'
    BY DEF Accounted
  <2>1. CASE q = p /\ s \in D
    BY <1>2, <2>1
  <2>2. CASE ~(q = p /\ s \in D)
    BY <1>1, <1>2, <2>2 DEF Accounted, Served
  <2> QED BY <2>1, <2>2
<1> QED BY <1>3, <1>4, <1>5, <1>6

LEMMA TryInv ==
  ASSUME SchedulerInv, NEW p \in Runners, NEW s \in Schedules, Sched!Try(p, s)
  PROVE  SchedulerInv'
<1> USE ConstantsOK DEF SchedulerInv, Sched!SchedTypeOK, Sched!Try
<1>1. /\ todo' = [todo EXCEPT ![p] = @ \ {s}]
      /\ trying' = [trying EXCEPT ![p] = s]
      /\ begun' = [begun EXCEPT ![p] = now]
      /\ UNCHANGED <<status, kind, created, now, lastRun, holder, missed>>
  OBVIOUS
<1>2. Sched!SchedTypeOK'
  BY <1>1 DEF Sched!Times
<1>3. FreshRows'
  BY <1>1 DEF FreshRows
<1>4. RunsArePast'
  BY <1>1 DEF RunsArePast
<1>5. Accounted'
  BY <1>1 DEF Accounted, Served
<1> QED BY <1>2, <1>3, <1>4, <1>5

\* A try that ends leaves no schedule unaccounted for if it was missed or has its job.
LEMMA EndTryInv ==
  ASSUME SchedulerInv, NEW p \in Runners, NEW t \in Schedules, trying[p] = t, Sched!EndTry(p),
         UNCHANGED <<now, lastRun, todo>>,
         missed' \in [Runners -> SUBSET Schedules],
         \A q \in Runners : missed[q] \subseteq missed'[q],
         kind' \in [Jobs -> Schedules \cup {NoSchedule}],
         created' \in [Jobs -> Sched!Times],
         FreshRows',
         \A j \in Jobs : kind[j] # NoSchedule => kind'[j] = kind[j] /\ created'[j] = created[j],
         t \in missed'[p] \/ Served(p, t)'
  PROVE  SchedulerInv'
<1> USE ConstantsOK DEF SchedulerInv, Sched!SchedTypeOK, Sched!EndTry
<1>1. /\ \A q \in Runners : trying'[q] = IF q = p THEN NoSchedule ELSE trying[q]
      /\ \A q \in Runners : begun'[q] = IF q = p THEN 0 ELSE begun[q]
      /\ holder' = IF holder = p THEN Nobody ELSE holder
  OBVIOUS
<1>2. Sched!SchedTypeOK'
  <2>1. trying' \in [Runners -> Schedules \cup {NoSchedule}]
    OBVIOUS
  <2>2. begun' \in [Runners -> Sched!Times]
    BY DEF Sched!Times
  <2>3. holder' = Nobody \/ (holder' \in Runners /\ trying'[holder'] # NoSchedule)
    BY <1>1
  <2> QED BY <2>1, <2>2, <2>3 DEF Sched!Times
<1>3. RunsArePast'
  BY <1>1 DEF RunsArePast
<1>4. Accounted'
  <2> SUFFICES ASSUME NEW q \in Runners, NEW s \in Schedules, lastRun[q][s] > 0
               PROVE  s \in todo[q] \/ trying'[q] = s \/ s \in missed'[q] \/ Served(q, s)'
    BY DEF Accounted
  <2>1. CASE q = p /\ s = t
    BY <2>1
  <2>2. CASE ~(q = p /\ s = t)
    <3>1. s \in todo[q] \/ trying'[q] = s \/ s \in missed'[q] \/ Served(q, s)
      BY <1>1, <2>2 DEF Accounted
    <3>2. Served(q, s) => Served(q, s)'
      BY DEF Served
    <3> QED BY <3>1, <3>2
  <2> QED BY <2>1, <2>2
<1> QED BY <1>2, <1>3, <1>4

LEMMA MissInv ==
  ASSUME SchedulerInv, NEW p \in Runners, Sched!LockTimeout(p) \/ Sched!Rejected(p)
  PROVE  SchedulerInv'
<1>1. PICK t \in Schedules : trying[p] = t
  BY ConstantsOK DEF Sched!LockTimeout, Sched!Rejected, SchedulerInv, Sched!SchedTypeOK
<1>2. /\ Sched!EndTry(p)
      /\ missed' = [missed EXCEPT ![p] = @ \cup {trying[p]}]
      /\ UNCHANGED <<status, kind, created, now, lastRun, todo>>
  BY DEF Sched!LockTimeout, Sched!Rejected, Sched!Fails
<1>3. /\ missed' \in [Runners -> SUBSET Schedules]
      /\ \A q \in Runners : missed[q] \subseteq missed'[q]
      /\ t \in missed'[p]
  BY <1>1, <1>2 DEF SchedulerInv, Sched!SchedTypeOK
<1>4. FreshRows'
  BY <1>2 DEF SchedulerInv, FreshRows
<1> QED BY <1>1, <1>2, <1>3, <1>4, EndTryInv DEF SchedulerInv, Sched!SchedTypeOK

\* The row an INSERT writes: new, of the schedule that is tried, as old as its BEGIN.
LEMMA InsertEffect ==
  ASSUME SchedulerInv, NEW p \in Runners, Sched!Insert(p), Sched!Recent(p) = {}
  PROVE  \E j \in Jobs : /\ status[j] = "Absent"
                         /\ status' = [status EXCEPT ![j] = "PENDING"]
                         /\ kind' = [kind EXCEPT ![j] = trying[p]]
                         /\ created' = [created EXCEPT ![j] = begun[p]]
<1> DEFINE j == CHOOSE i \in Jobs : status[i] = "Absent"
<1>1. j \in Jobs /\ status[j] = "Absent"
  BY DEF Sched!Insert
<1> QED BY <1>1 DEF Sched!Insert

LEMMA InsertInv ==
  ASSUME RunnerInv, SchedulerInv, NEW p \in Runners, Sched!Insert(p)
  PROVE  SchedulerInv'
<1>1. PICK t \in Schedules : /\ trying[p] = t
                             /\ lastRun[p][t] <= begun[p]
                             /\ begun[p] \in Sched!Times
                             /\ lastRun[p][t] \in Sched!Times
  BY ConstantsOK DEF Sched!Insert, SchedulerInv, Sched!SchedTypeOK, RunsArePast
<1>2. /\ Sched!EndTry(p)
      /\ UNCHANGED <<now, lastRun, todo, missed>>
  BY DEF Sched!Insert
<1>3. CASE Sched!Recent(p) # {}
  <2>1. UNCHANGED <<status, kind, created>>
    BY <1>3 DEF Sched!Insert
  <2>2. PICK j \in Jobs : kind[j] = t /\ created[j] > begun[p] - Interval
    BY <1>1, <1>3 DEF Sched!Recent
  <2>3. created[j] > lastRun[p][t] - Interval
    BY <1>1, <2>2, ConstantsOK DEF SchedulerInv, Sched!SchedTypeOK, Sched!Times
  <2>4. Served(p, t)'
    <3>1. Served(p, t)
      BY <2>2, <2>3 DEF Served
    <3> QED BY <1>2, <2>1, <2>2, <2>3 DEF Served
  <2>5. FreshRows'
    BY <2>1 DEF SchedulerInv, FreshRows
  <2> QED BY <1>1, <1>2, <2>1, <2>4, <2>5, EndTryInv, ConstantsOK DEF SchedulerInv, Sched!SchedTypeOK
<1>4. CASE Sched!Recent(p) = {}
  <2>1. PICK j \in Jobs : /\ status[j] = "Absent"
                          /\ status' = [status EXCEPT ![j] = "PENDING"]
                          /\ kind' = [kind EXCEPT ![j] = t]
                          /\ created' = [created EXCEPT ![j] = begun[p]]
    BY <1>1, <1>4, InsertEffect
  <2>2. /\ kind[j] = NoSchedule
        /\ kind' \in [Jobs -> Schedules \cup {NoSchedule}]
        /\ created' \in [Jobs -> Sched!Times]
        /\ \A i \in Jobs : kind[i] # NoSchedule => kind'[i] = kind[i] /\ created'[i] = created[i]
    BY <1>1, <2>1 DEF SchedulerInv, Sched!SchedTypeOK, FreshRows
  <2>3. FreshRows'
    BY <1>1, <2>1, ConstantsOK DEF SchedulerInv, Sched!SchedTypeOK, FreshRows, RunnerInv, TypeOK
  <2>4. kind'[j] = t /\ created'[j] > lastRun[p][t] - Interval
    BY <1>1, <2>1, ConstantsOK DEF SchedulerInv, Sched!SchedTypeOK, Sched!Times
  <2>5. Served(p, t)'
    BY <1>2, <2>4 DEF Served
  <2> QED BY <1>1, <1>2, <2>2, <2>3, <2>5, EndTryInv, ConstantsOK DEF SchedulerInv, Sched!SchedTypeOK
<1> QED BY <1>3, <1>4

-----------------------------------------------------------------------------
(* The other steps of a process, and the clock *)

LEMMA LeavingInv ==
  ASSUME RunnerInv, SchedulerInv, NEW p \in Runners,
         (Close(p) /\ Sched!StopTicking(p)) \/ (Crash(p) /\ Sched!Forget(p))
  PROVE  SchedulerInv'
<1> USE ConstantsOK DEF SchedulerInv, Sched!SchedTypeOK
<1>1. FreshRows'
  BY DEF FreshRows, Close, Crash, tableVars, Sched!StopTicking, Sched!Forget
<1>2. CASE Sched!StopTicking(p)
  <2> USE <1>2 DEF Sched!StopTicking
  <2>1. Sched!SchedTypeOK'
    BY DEF Sched!Times
  <2>2. RunsArePast'
    BY DEF RunsArePast
  <2>3. Accounted'
    BY DEF Accounted, Served
  <2> QED BY <1>1, <2>1, <2>2, <2>3
<1>3. CASE Sched!Forget(p)
  <2> USE <1>3 DEF Sched!Forget
  <2>1. /\ \A q \in Runners : trying'[q] = IF q = p THEN NoSchedule ELSE trying[q]
        /\ \A q \in Runners : begun'[q] = IF q = p THEN 0 ELSE begun[q]
        /\ \A q \in Runners : todo'[q] = IF q = p THEN {} ELSE todo[q]
        /\ \A q \in Runners : missed'[q] = IF q = p THEN {} ELSE missed[q]
        /\ \A q \in Runners, s \in Schedules :
             lastRun'[q][s] = IF q = p THEN 0 ELSE lastRun[q][s]
        /\ holder' = IF holder = p THEN Nobody ELSE holder
        /\ UNCHANGED <<kind, created, now>>
    BY DEF Sched!EndTry
  <2>2. 0 \in Sched!Times /\ Sched!Times \subseteq Nat
    BY DEF Sched!Times
  <2>3. /\ lastRun' \in [Runners -> [Schedules -> Sched!Times]]
        /\ trying' \in [Runners -> Schedules \cup {NoSchedule}]
        /\ begun' \in [Runners -> Sched!Times]
    BY <2>2 DEF Sched!EndTry
  <2>4. /\ todo' \in [Runners -> SUBSET Schedules]
        /\ missed' \in [Runners -> SUBSET Schedules]
    OBVIOUS
  <2>5. holder' = Nobody \/ (holder' \in Runners /\ trying'[holder'] # NoSchedule)
    BY <2>1
  <2>6. Sched!SchedTypeOK'
    BY <2>1, <2>3, <2>4, <2>5 DEF Sched!Times
  <2>7. RunsArePast'
    BY <2>1, <2>2 DEF RunsArePast
  <2>8. Accounted'
    BY <2>1 DEF Accounted, Served
  <2> QED BY <1>1, <2>6, <2>7, <2>8
<1> QED BY <1>2, <1>3

LEMMA RunnerAloneInv ==
  ASSUME RunnerInv, SchedulerInv, RunnerStep, UNCHANGED schedVars
  PROVE  SchedulerInv'
<1> USE DEF SchedulerInv, schedVars
<1>1. FreshRows'
  BY RowsStay DEF FreshRows
<1>2. Sched!SchedTypeOK' /\ RunsArePast' /\ Accounted'
  BY DEF Sched!SchedTypeOK, Sched!Times, RunsArePast, Accounted, Served
<1> QED BY <1>1, <1>2

LEMMA ClockInv ==
  ASSUME SchedulerInv, Sched!PassTime \/ UNCHANGED systemVars
  PROVE  SchedulerInv'
<1> USE DEF SchedulerInv, Sched!PassTime, systemVars, vars, schedVars
<1>1. now' \in Sched!Times
  BY ConstantsOK DEF Sched!SchedTypeOK, Sched!Times
<1>2. Sched!SchedTypeOK'
  BY <1>1 DEF Sched!SchedTypeOK, Sched!Times
<1>3. RunsArePast'
  BY ConstantsOK DEF RunsArePast, Sched!SchedTypeOK, Sched!Times
<1>4. FreshRows' /\ Accounted'
  BY DEF FreshRows, Accounted, Served
<1> QED BY <1>2, <1>3, <1>4

LEMMA LockInv ==
  ASSUME SchedulerInv, NEW p \in Runners, Sched!Lock(p)
  PROVE  SchedulerInv'
BY DEF SchedulerInv, Sched!Lock, Sched!SchedTypeOK, Sched!Times, FreshRows, RunsArePast, Accounted, Served

LEMMA SystemNextInv ==
  ASSUME SystemInv, [SystemNext]_systemVars
  PROVE  SystemInv'
<1> USE DEF SystemInv
<1>1. RunnerInv'
  BY SystemStep, NextInv
<1>2. ASSUME NEW p \in Runners, Scheduling(p) PROVE SchedulerInv'
  BY <1>2, StartTickInv, TryInv, LockInv, MissInv, InsertInv
     DEF Scheduling, Sched!Schedule, Sched!TryStep
<1>3. ASSUME RunnerStep, UNCHANGED schedVars PROVE SchedulerInv'
  BY <1>3, RunnerAloneInv
<1>4. ASSUME NEW p \in Runners,
             (Close(p) /\ Sched!StopTicking(p)) \/ (Crash(p) /\ Sched!Forget(p))
      PROVE  SchedulerInv'
  BY <1>4, LeavingInv
<1>5. ASSUME Sched!PassTime \/ UNCHANGED systemVars PROVE SchedulerInv'
  BY <1>5, ClockInv
<1> QED BY <1>1, <1>2, <1>3, <1>4, <1>5 DEF SystemNext, Running, Working, RunnerStep

LEMMA SystemInvariance == SystemSpec => []SystemInv
<1>1. SystemInit => SystemInv
  BY InitInv, SchedulerInit DEF SystemInv, SystemInit
<1>2. SystemInv /\ [SystemNext]_systemVars => SystemInv'
  BY SystemNextInv
<1> QED BY <1>1, <1>2, PTL DEF SystemSpec

\* The rows, the clock and what the processes remember of their ticks stay in their domains.
THEOREM SystemTyping == SystemSpec => [](TypeOK /\ Sched!SchedTypeOK)
<1>1. SystemInv => TypeOK /\ Sched!SchedTypeOK
  BY DEF SystemInv, SchedulerInv, RunnerInv
<1> QED BY <1>1, SystemInvariance, PTL

\* Whatever fails, a schedule that a finished tick counted as run has a recent job or
\* its try failed.
THEOREM NothingSkipped == SystemSpec => []RunIsServed
<1>1. SystemInv => RunIsServed
  <2> SUFFICES ASSUME SystemInv PROVE Sched!RunIsServed
    BY DEF RunIsServed
  <2>1. \A p \in Runners, s \in Schedules :
          lastRun[p][s] > 0 => s \in todo[p] \/ trying[p] = s \/ s \in missed[p] \/ Served(p, s)
    BY DEF SystemInv, SchedulerInv, Accounted
  <2> QED BY <2>1, ConstantsOK DEF Sched!RunIsServed, Sched!Resting, Served
<1> QED BY <1>1, SystemInvariance, PTL

-----------------------------------------------------------------------------
(* Where nothing fails: unfinished jobs of a schedule are an interval apart *)

\* The runners take up no job that is over: an outcome is only written by the runner
\* in whose hands the job still is.
LEMMA NothingRevived ==
  ASSUME ~Faults, ReliableInv, RunnerStep
  PROVE  \A j \in Jobs : Sched!Active(j)' => Sched!Active(j)
<1> USE DEF ReliableInv, Sched!Active
<1>1. ASSUME NEW r \in Runners, Tick(r)
      PROVE  \A j \in Jobs : Sched!Active(j)' => Sched!Active(j)
  <2>1. CASE ClaimCommit(r)
    BY <2>1, CommitEffect DEF Processable
  <2>2. CASE ~ClaimCommit(r)
    BY <1>1, <2>2 DEF Tick, ClaimSelect, StartBatch, ClaimRollback, ClaimLost, tableVars
  <2> QED BY <2>1, <2>2
<1>2. ASSUME NEW r \in Runners, Close(r) \/ Crash(r) \/ Start(r) PROVE UNCHANGED status
  BY <1>2 DEF Close, Crash, Start, tableVars
<1>3. ASSUME NEW r \in Runners, NEW j \in Jobs, Complete(r, j) \/ Fail(r, j)
      PROVE  \A i \in Jobs : Sched!Active(i)' => Sched!Active(i)
  <2>1. status[j] = "RUNNING"
    BY <1>3 DEF Complete, Fail, Move, HeldIsRunning
  <2>2. \A i \in Jobs \ {j} : status'[i] = status[i]
    BY <1>3 DEF Complete, Fail, RunnerInv, TypeOK
  <2> QED BY <2>1, <2>2
<1>4. ASSUME NEW r \in Runners, NEW j \in Jobs, Process(r, j) \/ LateHandlerEnds(r, j),
             ~Complete(r, j), ~Fail(r, j)
      PROVE  UNCHANGED status
  BY <1>4 DEF Process, Handle, HandlerReturns, HandlerThrows, Timeout, CompleteRejected,
     FailRejected, LateHandlerEnds, tableVars
<1> QED BY <1>1, <1>2, <1>3, <1>4 DEF RunnerStep

\* The INSERT looks at the unfinished jobs of its schedule.
LEMMA InsertApart ==
  ASSUME RunnerInv, SchedulerInv, NoDuplicateActive, NEW p \in Runners, Sched!Insert(p)
  PROVE  NoDuplicateActive'
<1> USE DEF NoDuplicateActive
<1>1. CASE Sched!Recent(p) # {}
  BY <1>1 DEF Sched!Insert, Sched!NoDuplicateActive, Sched!Active
<1>2. CASE Sched!Recent(p) = {}
  <2>1. PICK j \in Jobs : /\ status[j] = "Absent"
                          /\ status' = [status EXCEPT ![j] = "PENDING"]
                          /\ kind' = [kind EXCEPT ![j] = trying[p]]
                          /\ created' = [created EXCEPT ![j] = begun[p]]
    BY <1>2, InsertEffect
  <2>2. /\ begun[p] \in Nat /\ Interval \in Nat
        /\ \A k \in Jobs : created[k] \in Nat
    BY ConstantsOK DEF SchedulerInv, Sched!SchedTypeOK, Sched!Times
  <2>3. /\ kind'[j] = trying[p] /\ created'[j] = begun[p]
        /\ \A k \in Jobs \ {j} :
             status'[k] = status[k] /\ kind'[k] = kind[k] /\ created'[k] = created[k]
    BY <2>1 DEF SchedulerInv, Sched!SchedTypeOK, RunnerInv, TypeOK
  <2>4. \A k \in Jobs \ {j} :
          Sched!Active(k)' /\ kind'[k] = kind'[j] => created'[j] - created'[k] >= Interval
    <3> SUFFICES ASSUME NEW k \in Jobs \ {j}, Sched!Active(k), kind[k] = trying[p]
                 PROVE  begun[p] - created[k] >= Interval
      BY <2>3 DEF Sched!Active
    <3>1. ~(created[k] > begun[p] - Interval)
      BY <1>2 DEF Sched!Recent
    <3>2. created[k] \in Nat
      BY <2>2
    <3> QED BY <2>2, <3>1, <3>2
  <2>5. \A k, l \in Jobs \ {j} :
          k # l /\ kind'[k] = kind'[l] /\ Sched!Active(k)' /\ Sched!Active(l)' =>
            created'[k] - created'[l] >= Interval \/ created'[l] - created'[k] >= Interval
    BY <2>3 DEF Sched!NoDuplicateActive, Sched!Active
  <2> QED BY <2>4, <2>5 DEF Sched!NoDuplicateActive
<1> QED BY <1>1, <1>2

LEMMA ApartKept ==
  ASSUME ~Faults, SystemInv, HeldIsRunning, NoDuplicateActive, [SystemNext]_systemVars
  PROVE  NoDuplicateActive'
<1> USE DEF NoDuplicateActive, SystemInv
<1>1. ASSUME NEW p \in Runners, Scheduling(p) PROVE NoDuplicateActive'
  <2>1. CASE Sched!Insert(p)
    BY <2>1, InsertApart
  <2>2. CASE ~Sched!Insert(p)
    <3>1. UNCHANGED <<status, kind, created>>
      BY <1>1, <2>2 DEF Scheduling, Sched!Schedule, Sched!TryStep, Sched!StartTick, Sched!Try,
         Sched!Lock, Sched!LockTimeout, Sched!Rejected, Sched!Fails
    <3> QED BY <3>1 DEF Sched!NoDuplicateActive, Sched!Active
  <2> QED BY <2>1, <2>2
<1>2. ASSUME RunnerStep, UNCHANGED <<kind, created>> PROVE NoDuplicateActive'
  <2>1. \A j \in Jobs : Sched!Active(j)' => Sched!Active(j)
    BY <1>2, NothingRevived DEF ReliableInv
  <2> QED BY <1>2, <2>1 DEF Sched!NoDuplicateActive
<1>3. ASSUME Sched!PassTime \/ UNCHANGED systemVars PROVE NoDuplicateActive'
  BY <1>3 DEF Sched!PassTime, systemVars, vars, schedVars, Sched!NoDuplicateActive, Sched!Active
<1> QED BY <1>1, <1>2, <1>3
        DEF SystemNext, Running, Working, RunnerStep, schedVars, Sched!StopTicking, Sched!Forget

\* Where nothing fails, two unfinished jobs of a schedule were created at least an
\* interval apart, however the ticks of the processes interleave.
THEOREM NoDuplicates == ~Faults => (SystemSpec => []NoDuplicateActive)
<1> SUFFICES ASSUME ~Faults PROVE SystemSpec => []NoDuplicateActive
  OBVIOUS
<1>1. SystemInit => HeldIsRunning /\ NoDuplicateActive
  BY DEF SystemInit, Init, HeldIsRunning, NoDuplicateActive, Sched!NoDuplicateActive, Sched!Active
<1>2. SystemInv /\ HeldIsRunning /\ [SystemNext]_systemVars => HeldIsRunning'
  BY SystemStep, RunningKept DEF SystemInv, ReliableInv
<1>3. SystemInv /\ HeldIsRunning /\ NoDuplicateActive /\ [SystemNext]_systemVars
        => NoDuplicateActive'
  BY ApartKept
<1> QED BY <1>1, <1>2, <1>3, SystemInvariance, PTL DEF SystemSpec


=============================================================================
