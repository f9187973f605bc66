------------------------------ MODULE JobLease ------------------------------
(***************************************************************************)
(* What the job table promises to its runners: a job is leased to at most  *)
(* one runner at a time, is tried at most MaxTries times, and once settled *)
(* it stays settled.  A lease may be lost: then nobody works on the job.   *)
(***************************************************************************)
EXTENDS Naturals

CONSTANTS Jobs, Runners, MaxTries

VARIABLES
  free,     \* jobs waiting for a runner
  lease,    \* pairs <<runner, job>>
  settled,  \* jobs that are over
  tries     \* tries[j]: leases of j so far

leaseVars == <<free, lease, settled, tries>>

Holders(j) == {r \in Runners : <<r, j>> \in lease}

LeaseInit ==
  /\ free = {}
  /\ lease = {}
  /\ settled = {}
  /\ tries = [j \in Jobs |-> 0]

Submit(j) ==
  /\ j \notin free \cup settled
  /\ Holders(j) = {}
  /\ tries[j] = 0
  /\ free' = free \cup {j}
  /\ UNCHANGED <<lease, settled, tries>>

\* Only free jobs that nobody holds are leased, together or not at all.
Acquire(r, B) ==
  /\ B # {}
  /\ B \subseteq free
  /\ \A j \in B : Holders(j) = {} /\ tries[j] < MaxTries
  /\ free' = free \ B
  /\ lease' = lease \cup ({r} \X B)
  /\ tries' = [j \in Jobs |-> IF j \in B THEN tries[j] + 1 ELSE tries[j]]
  /\ UNCHANGED settled

Settle(r, j) ==
  /\ <<r, j>> \in lease
  /\ lease' = lease \ {<<r, j>>}
  /\ settled' = settled \cup {j}
  /\ UNCHANGED <<free, tries>>

\* Another try is left.
GiveBack(r, j) ==
  /\ <<r, j>> \in lease
  /\ tries[j] < MaxTries
  /\ lease' = lease \ {<<r, j>>}
  /\ free' = free \cup {j}
  /\ UNCHANGED <<settled, tries>>

Lose(r, B) ==
  /\ {r} \X B \subseteq lease
  /\ lease' = lease \ ({r} \X B)
  /\ UNCHANGED <<free, settled, tries>>

LeaseNext ==
  \/ \E j \in Jobs : Submit(j)
  \/ \E r \in Runners, B \in SUBSET Jobs : Acquire(r, B) \/ Lose(r, B)
  \/ \E r \in Runners, j \in Jobs : Settle(r, j) \/ GiveBack(r, j)

LeaseSpec == LeaseInit /\ [][LeaseNext]_leaseVars

=============================================================================
