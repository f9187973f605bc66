----------------------------- MODULE JobSystem ------------------------------
(***************************************************************************)
(* The job subsystem of several server processes: schedulers that insert   *)
(* and runners that process, over one table.  They share the column status *)
(* and the life of the process, nothing else.                              *)
(***************************************************************************)
EXTENDS JobRunner, Integers

CONSTANTS Schedules, Interval, MaxTime, Nobody, NoSchedule

VARIABLES kind, created, now, lastRun, todo, trying, begun, holder, missed

Sched == INSTANCE JobScheduler WITH Servers <- Runners, LockFaults <- Faults

ASSUME SystemAssumption == Sched!SchedulerAssumption

schedVars == <<kind, created, now, lastRun, todo, trying, begun, holder, missed>>
runnerVars == <<attempts, mode, locked, stage, read, late>>
systemVars == <<vars, schedVars>>

SystemInit == Init /\ Sched!SchedInit

\* Only a process that is up begins a tick; a try goes on after close().
Scheduling(p) ==
  /\ mode[p] # "down"
  /\ mode[p] = "up" \/ ~Sched!Resting(p)
  /\ Sched!Schedule(p)
  /\ UNCHANGED runnerVars

Running(r) == Tick(r) /\ UNCHANGED schedVars

Working(r, j) == Process(r, j) /\ UNCHANGED schedVars

SystemNext ==
  \/ \E p \in Runners :
       \/ Scheduling(p)
       \/ Running(p)
       \/ Close(p) /\ Sched!StopTicking(p)
       \/ Crash(p) /\ Sched!Forget(p)
       \/ Start(p) /\ UNCHANGED schedVars
  \/ \E r \in Runners, j \in Jobs :
       \/ Working(r, j)
       \/ LateHandlerEnds(r, j) /\ UNCHANGED schedVars
  \/ Sched!PassTime /\ UNCHANGED runnerVars

SystemSpec == SystemInit /\ [][SystemNext]_systemVars

\* The timers of both parts, and answers to their queries
SystemFairSpec ==
  /\ SystemSpec
  /\ \A p \in Runners : WF_systemVars(Scheduling(p))
  /\ \A r \in Runners : WF_systemVars(Running(r))
  /\ \A r \in Runners, j \in Jobs : WF_systemVars(Working(r, j))

-----------------------------------------------------------------------------
(* Properties of the whole *)

\* The scheduler's INSERT is an Enqueue of the runners, and nothing else it does touches
\* them: what is proved of JobRunner's Spec holds of the whole.
ImplementsRunner == Spec

\* Two unfinished jobs of a schedule are an interval apart (see JobScheduler).
NoDuplicateActive == Sched!NoDuplicateActive

\* What a tick counted as run has a recent job, or its try failed (see JobScheduler).
RunIsServed == Sched!RunIsServed

\* No schedule is forgotten while some process gets the lock (see JobScheduler).
NeverForgotten == Sched!NeverForgotten

\* One job per schedule and interval, which does not hold (see JobScheduler).
OnePerInterval == Sched!OnePerInterval

=============================================================================
