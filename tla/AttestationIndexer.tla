------------------------- MODULE AttestationIndexer -------------------------
(***************************************************************************)
(* The indexer of program events (solana/indexer) over the chain of        *)
(* signalforge-attestation: a log listener that hands over new             *)
(* transactions as they are confirmed, and recoveries that walk back from  *)
(* the newest transaction and keep a checkpoint.  Both pass the events to  *)
(* processEvent, which records them once in solana_indexer_events.         *)
(*                                                                         *)
(* Both give processEvent the discriminator of the event in hexadecimal    *)
(* for its type, which none of its cases is: an event is recorded and then *)
(* ends as UNSUPPORTED_EVENT_TYPE, so recording it is all that happens.    *)
(***************************************************************************)
EXTENDS OnChainAttestation

CONSTANTS
  Recoveries,   \* runs of recoverFromCheckpoint that may overlap
  PageSize,     \* DEFAULT_BATCH_SIZE
  MaxPerRun,    \* maxSlots
  MaxFaults     \* bound: failed RPC calls and queries, crashes

ASSUME IndexerAssumption ==
  /\ IsFiniteSet(Recoveries)
  /\ PageSize \in Nat \ {0} /\ MaxPerRun \in Nat \ {0}
  /\ MaxFaults \in Nat

VARIABLES
  seen,        \* solana_indexer_events: indices of chain, one event each
  checkpoint,  \* last_processed_slot, 0 without a row
  listening,   \* the entry of ACTIVE_SUBSCRIPTIONS
  inbox,       \* transactions handed to the listener and not yet processed
  pc,          \* each recovery: what it does next
  last,        \* ... lastSlot
  page,        \* ... the rest of the page, walked from the newest on
  oldest,      \* ... `before`, the oldest of the page (0 before the first)
  count,       \* ... processedCount
  faults,
  upto         \* history: the transactions its first page could show

dbVars == <<seen, checkpoint>>
listenerVars == <<listening, inbox>>
recoveryVars == <<pc, last, page, oldest, count, upto>>
indexerVars == <<seen, checkpoint, listening, inbox,
                 pc, last, page, oldest, count, faults, upto>>
vars == <<programVars, indexerVars>>

Slots == 0..MaxTxs

IndexerTypeOK ==
  /\ seen \subseteq DOMAIN chain
  /\ checkpoint \in Slots
  /\ listening \in BOOLEAN /\ inbox \subseteq DOMAIN chain
  /\ pc \in [Recoveries -> {"idle", "page", "walk", "last", "save"}]
  /\ last \in [Recoveries -> Slots]
  /\ page \in [Recoveries -> SUBSET DOMAIN chain]
  /\ oldest \in [Recoveries -> {0} \cup DOMAIN chain]
  /\ count \in [Recoveries -> 0..MaxPerRun]
  /\ faults \in 0..MaxFaults
  /\ upto \in [Recoveries -> {0} \cup DOMAIN chain]

TypeOK == AttestationTypeOK /\ IndexerTypeOK

IndexerInit ==
  /\ seen = {} /\ checkpoint = 0
  /\ listening = FALSE /\ inbox = {}
  /\ pc = [r \in Recoveries |-> "idle"]
  /\ last = [r \in Recoveries |-> 0]
  /\ page = [r \in Recoveries |-> {}]
  /\ oldest = [r \in Recoveries |-> 0]
  /\ count = [r \in Recoveries |-> 0]
  /\ faults = 0
  /\ upto = [r \in Recoveries |-> 0]

Succeeded(i) == chain[i].event # "Failed"

\* Its log has a line "Program data:".
Logs(i) == chain[i].event \notin {"Failed", "Other"}

\* INSERT ... ON CONFLICT (tx_signature, event_type) DO NOTHING
Record(i) == seen' = seen \cup ({i} \cap {j \in DOMAIN chain : Logs(j)})

Faulty == faults < MaxFaults /\ faults' = faults + 1

-----------------------------------------------------------------------------
(* The listener *)

StartListening ==
  /\ ~listening
  /\ listening' = TRUE
  /\ UNCHANGED <<dbVars, inbox, recoveryVars, faults>>

\* Callbacks that run already go on.
StopListening ==
  /\ listening
  /\ listening' = FALSE
  /\ UNCHANGED <<dbVars, inbox, recoveryVars, faults>>

\* A program step: what it lands is handed to the subscription, if there is one.
Confirm ==
  /\ ProgramNext
  /\ inbox' = IF listening THEN inbox \cup {Len(chain')} ELSE inbox
  /\ UNCHANGED <<dbVars, listening, recoveryVars, faults>>

\* Callbacks do not wait for each other; a rejected query is logged.
Process(i) ==
  /\ i \in inbox
  /\ inbox' = inbox \ {i}
  /\ \/ Record(i) /\ UNCHANGED faults
     \/ Faulty /\ UNCHANGED seen
  /\ UNCHANGED <<checkpoint, listening, recoveryVars>>

-----------------------------------------------------------------------------
(* Recovery *)

\* recoverFromCheckpoint: lastSlot is the checkpoint
Begin(r) ==
  /\ pc[r] = "idle"
  /\ pc' = [pc EXCEPT ![r] = "page"]
  /\ last' = [last EXCEPT ![r] = checkpoint]
  /\ UNCHANGED <<dbVars, listenerVars, page, oldest, count, faults, upto>>

\* The recovery returns and its variables are gone.
Return(r) ==
  /\ pc' = [pc EXCEPT ![r] = "idle"]
  /\ last' = [last EXCEPT ![r] = 0]
  /\ page' = [page EXCEPT ![r] = {}]
  /\ oldest' = [oldest EXCEPT ![r] = 0]
  /\ count' = [count EXCEPT ![r] = 0]
  /\ upto' = [upto EXCEPT ![r] = 0]

\* getSignaturesForAddress: the newest PageSize transactions before `before`
Top(b) == IF b = 0 THEN Len(chain) ELSE b - 1
Bottom(b) == IF Top(b) < PageSize THEN 1 ELSE Top(b) - PageSize + 1
PageBefore(b) == Bottom(b) .. Top(b)

\* Mutant: failed transactions are not skipped.
SkipsOldOnly(i, l) == chain[i].slot <= l

\* sig.slot <= lastSlot, sig.err
Skips(i, l) == chain[i].slot <= l \/ ~Succeeded(i)

\* Mutant: a page with nothing to replay is taken for the last one.
StopsAtIdlePage(r, rest, short, l, n) ==
  LET left == {i \in rest : n # MaxPerRun /\ ~Skips(i, l)}
  IN /\ page' = [page EXCEPT ![r] = left]
     /\ pc' = [pc EXCEPT ![r] = IF left = {} THEN "save" ELSE IF short THEN "last" ELSE "walk"]
     /\ last' = [last EXCEPT ![r] = l]
     /\ count' = [count EXCEPT ![r] = n]

\* The loop goes from one await to the next: past what it skips to a transaction
\* to fetch, to another page ("short" is set when this one was the last), or to
\* the checkpoint. `l` is lastSlot, `n` processedCount.
Continue(r, rest, short, l, n) ==
  LET left == {i \in rest : n # MaxPerRun /\ ~Skips(i, l)}
      over == short \/ n = MaxPerRun
  IN /\ page' = [page EXCEPT ![r] = left]
     /\ pc' = [pc EXCEPT ![r] =
          CASE left # {} -> IF short THEN "last" ELSE "walk"
            [] left = {} /\ over -> "save"
            [] OTHER -> "page"]
     /\ last' = [last EXCEPT ![r] = l]
     /\ count' = [count EXCEPT ![r] = n]

FetchPage(r) ==
  /\ pc[r] = "page"
  /\ oldest' = [oldest EXCEPT ![r] = IF Top(@) = 0 THEN @ ELSE Bottom(@)]
  /\ upto' = [upto EXCEPT ![r] = IF oldest[r] = 0 THEN Len(chain) ELSE @]
  /\ Continue(r, PageBefore(oldest[r]), Top(oldest[r]) < PageSize, last[r], count[r])
  /\ UNCHANGED <<dbVars, listenerVars, faults>>

\* The RPC fails: the recovery ends without saving anything.
FetchFails(r) ==
  /\ pc[r] = "page" /\ Faulty
  /\ Return(r)
  /\ UNCHANGED <<dbVars, listenerVars>>

\* The loop is at transaction i.
WalksAt(r, i) ==
  /\ pc[r] \in {"walk", "last"}
  /\ i \in page[r] /\ \A j \in page[r] : j <= i

\* getTransaction fails or has no meta: the walk goes on.
TransactionFails(r) ==
  /\ Faulty
  /\ \E i \in page[r] :
       /\ WalksAt(r, i)
       /\ Continue(r, page[r] \ {i}, pc[r] = "last", last[r], count[r])
  /\ UNCHANGED <<dbVars, listenerVars, oldest, upto>>

\* The events of one transaction, if it has any; a rejected query is logged.  lastSlot
\* and processedCount move in either case.
Replay(r) ==
  /\ \E i \in page[r] :
       /\ WalksAt(r, i)
       /\ \/ Record(i) /\ UNCHANGED faults
          \/ Faulty /\ UNCHANGED seen
       /\ Continue(r, page[r] \ {i}, pc[r] = "last", chain[i].slot, count[r] + 1)
  /\ UNCHANGED <<checkpoint, listenerVars, oldest, upto>>

\* Mutant: ON CONFLICT DO UPDATE without GREATEST.
LastWriteWins(slot) == slot

\* GREATEST(last_processed_slot, EXCLUDED.last_processed_slot)
Saved(slot) == IF slot > checkpoint THEN slot ELSE checkpoint

\* Skipped when lastSlot is still the checkpoint read, which changes nothing.
SaveCheckpoint(r) ==
  /\ pc[r] = "save"
  /\ \/ checkpoint' = Saved(last[r]) /\ UNCHANGED faults
     \/ Faulty /\ UNCHANGED checkpoint
  /\ Return(r)
  /\ UNCHANGED <<seen, listenerVars>>

-----------------------------------------------------------------------------

\* The process dies: subscriptions, callbacks and recoveries are gone.
Crash ==
  /\ Faulty
  /\ listening' = FALSE /\ inbox' = {}
  /\ pc' = [r \in Recoveries |-> "idle"]
  /\ page' = [r \in Recoveries |-> {}]
  /\ last' = [r \in Recoveries |-> 0] /\ oldest' = [r \in Recoveries |-> 0]
  /\ count' = [r \in Recoveries |-> 0] /\ upto' = [r \in Recoveries |-> 0]
  /\ UNCHANGED dbVars

RecoveryStep(r) ==
  Begin(r) \/ FetchPage(r) \/ Replay(r) \/ SaveCheckpoint(r)

IndexerNext ==
  \/ StartListening \/ StopListening
  \/ \E i \in inbox : Process(i)
  \/ \E r \in Recoveries : RecoveryStep(r) \/ FetchFails(r) \/ TransactionFails(r)
  \/ Crash

Init == ProgramInit /\ IndexerInit
Next == Confirm \/ (IndexerNext /\ UNCHANGED programVars)
Spec == Init /\ [][Next]_vars

-----------------------------------------------------------------------------
(* Properties *)

\* The checkpoint is the slot of a transaction that succeeded and was replayed: while
\* no call fails, the event it logged, if it did, is recorded.  Overlapping recoveries,
\* failed transactions and empty pages never move it elsewhere
\* (indexer-recovery.service.js, lastSlot; saveCheckpoint).
CheckpointIsReplayed ==
  checkpoint # 0 =>
    \E i \in DOMAIN chain :
      /\ chain[i].slot = checkpoint /\ Succeeded(i)
      /\ faults = 0 /\ Logs(i) => i \in seen

\* A recovery no call of which fails gets past everything its first page could show:
\* however many pages of failed transactions lie on top, the slot it saves is not
\* before any transaction that had succeeded by then. (That every event up to it is
\* recorded is more than the code does: CheckpointCovers.)
RecoveryReaches ==
  faults = 0 =>
    \A r \in Recoveries, i \in DOMAIN chain :
      pc[r] = "save" /\ i <= upto[r] /\ Succeeded(i) => chain[i].slot <= last[r]

\* Two recoveries that overlap may save in either order: the checkpoint never
\* goes back (GREATEST in saveCheckpoint).
CheckpointAdvances == [][checkpoint' >= checkpoint]_vars

\* indexer-checkpoint.service.js: "Checkpoints are updated only after a slot has
\* been fully processed": every event up to the checkpoint is recorded.
CheckpointCovers ==
  \A i \in DOMAIN chain : Logs(i) /\ chain[i].slot <= checkpoint => i \in seen

=============================================================================
