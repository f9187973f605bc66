------------------------- MODULE BlinkConfirmation --------------------------
(***************************************************************************)
(* Confirmation of Blink payments (solana/actions/confirmations): a        *)
(* webhook or a job delivers a signature, the reconciler sweeps rows that  *)
(* are still open, and both end in confirmSignature, which verifies the    *)
(* signature, writes CONFIRMED and then activates what was paid for.       *)
(*                                                                         *)
(* An action is one query, RPC or service call with the code up to the     *)
(* next one.  Rows of one sweep do not depend on each other, so a sweep is *)
(* taken row by row: listed, verified, confirmed or recovered.             *)
(*                                                                         *)
(* External: the chain, the RPC, the subscription service.                 *)
(***************************************************************************)
EXTENDS Naturals

CONSTANTS
  Sigs,        \* signatures; each belongs to one Blink conversion
  Workers,     \* requests and jobs that may run at the same time
  NoSig,       \* a worker without a signature
  MaxAttempts, \* ACTIONS_CONFIRMATION_MAX_POLL_ATTEMPTS
  MaxFaults    \* bound: processes that die, queries that are rejected

ASSUME BlinkAssumption ==
  /\ NoSig \notin Sigs
  /\ MaxAttempts \in Nat
  /\ MaxFaults \in Nat

VARIABLES
  conf,       \* solana_actions_confirmations.status, "none" without a row
  attempts,   \* .raw_payload.attempts
  key,        \* solana_actions_idempotency: "none", "reserved", "attached"
  conversion, \* solana_blink_conversions.status
  chain,      \* what getSignatureStatuses shows
  commitment, \* .commitment: what listPending asks for, or another level
  rowNames,   \* which of .blink_id and .conversion_id are not null
  granted,    \* subscriptions activated for the signature; 2 stands for more
  pc,         \* a worker's next query
  sig,        \* the signature it works on
  swept,      \* confirmSignature was called by reconcilePending
  named,      \* what the caller names of the payment
  fresh,      \* `existing` was null
  record,     \* reservation.record is not null
  error,      \* the error on its way to the sweep's catch: "timeout", "other"
  read,       \* the attempts the sweep's listing read
  faults,     \* bounded by MaxFaults
  mishaps     \* history: what disturbed the handling of a signature

bornVars == <<commitment, rowNames>>
rowVars == <<conf, attempts, key, conversion, bornVars>>
localVars == <<sig, swept, named, fresh, record, error, read>>
vars == <<conf, attempts, key, conversion, commitment, rowNames, chain, granted, pc, sig,
          swept, named, fresh, record, error, read, faults, mishaps>>

Open == {"pending", "processing"}

\* What a caller of confirmSignature may pass with the signature, each on its own.
Names == {"blink", "wallet", "conversion"}

PCs == {"idle", "lookup", "reserve", "create", "verify", "fail", "failConversion", "confirm",
        "activate", "convert", "attach", "sweepVerify", "recover", "recoverConversion", "expire"}

TypeOK ==
  /\ conf \in [Sigs -> Open \cup {"none", "confirmed", "failed", "expired"}]
  /\ attempts \in [Sigs -> 0 .. MaxAttempts]
  /\ key \in [Sigs -> {"none", "reserved", "attached"}]
  /\ conversion \in [Sigs -> {"PENDING", "CONFIRMED", "FAILED"}]
  /\ commitment \in [Sigs -> {"configured", "other"}]
  /\ rowNames \in [Sigs -> SUBSET Names]
  /\ chain \in [Sigs -> {"unknown", "landed", "rejected"}]
  /\ granted \in [Sigs -> 0 .. 2]
  /\ pc \in [Workers -> PCs]
  /\ sig \in [Workers -> Sigs \cup {NoSig}]
  /\ \A w \in Workers : pc[w] # "idle" => sig[w] \in Sigs
  /\ swept \in [Workers -> BOOLEAN]
  /\ named \in [Workers -> SUBSET Names]
  /\ fresh \in [Workers -> BOOLEAN]
  /\ record \in [Workers -> BOOLEAN]
  /\ error \in [Workers -> {"none", "timeout", "other"}]
  /\ read \in [Workers -> 0 .. MaxAttempts]
  /\ faults \in 0 .. MaxFaults
  /\ mishaps \in [Sigs -> SUBSET {"overlap", "unwound"}]

Init ==
  /\ conf = [s \in Sigs |-> "none"]
  /\ attempts = [s \in Sigs |-> 0]
  /\ key = [s \in Sigs |-> "none"]
  /\ conversion = [s \in Sigs |-> "PENDING"]
  /\ commitment = [s \in Sigs |-> "configured"]
  /\ rowNames = [s \in Sigs |-> {}]
  /\ chain = [s \in Sigs |-> "unknown"]
  /\ granted = [s \in Sigs |-> 0]
  /\ pc = [w \in Workers |-> "idle"]
  /\ sig = [w \in Workers |-> NoSig]
  /\ swept = [w \in Workers |-> FALSE]
  /\ named = [w \in Workers |-> {}]
  /\ fresh = [w \in Workers |-> FALSE]
  /\ record = [w \in Workers |-> FALSE]
  /\ error = [w \in Workers |-> "none"]
  /\ read = [w \in Workers |-> 0]
  /\ faults = 0
  /\ mishaps = [s \in Sigs |-> {}]

-----------------------------------------------------------------------------
(* Control of a worker *)

At(w, from) == pc[w] = from

\* What a worker holds is forgotten when its handler is over.
Go(w, to) ==
  /\ pc' = [pc EXCEPT ![w] = to]
  /\ IF to = "idle"
     THEN /\ sig' = [sig EXCEPT ![w] = NoSig]
          /\ swept' = [swept EXCEPT ![w] = FALSE]
          /\ named' = [named EXCEPT ![w] = {}]
          /\ fresh' = [fresh EXCEPT ![w] = FALSE]
          /\ record' = [record EXCEPT ![w] = FALSE]
          /\ error' = [error EXCEPT ![w] = "none"]
          /\ read' = [read EXCEPT ![w] = 0]
     ELSE UNCHANGED localVars

Busy(s) == \E w \in Workers : sig[w] = s

Begin(w, s, to) ==
  /\ At(w, "idle")
  /\ pc' = [pc EXCEPT ![w] = to]
  /\ sig' = [sig EXCEPT ![w] = s]

Note(s, what) == mishaps' = [mishaps EXCEPT ![s] = @ \cup what]

NoteBegin(s) == Note(s, IF Busy(s) THEN {"overlap"} ELSE {})

\* An error thrown out of confirmSignature ends a request; a sweep catches it.
Throw(w, e) ==
  IF swept[w]
  THEN /\ pc' = [pc EXCEPT ![w] = "recover"]
       /\ error' = [error EXCEPT ![w] = e]
       /\ UNCHANGED <<sig, swept, named, fresh, record, read>>
  ELSE Go(w, "idle")

-----------------------------------------------------------------------------
(* confirmSignature *)

\* Mutant: a confirmed row is not recognised.
NeverConfirmed(s) == FALSE

\* The early return of the first lookup: nothing happens.
AlreadyConfirmed(s) == conf[s] = "confirmed"

\* A delivery: the webhook passes what its payload happened to name of the payment, the
\* job PROCESS_BLINK_CONFIRMATION the signature only (names = {}).
Deliver(w, s, names) ==
  /\ ~AlreadyConfirmed(s)
  /\ Begin(w, s, "reserve")
  /\ named' = [named EXCEPT ![w] = names]
  /\ fresh' = [fresh EXCEPT ![w] = conf[s] = "none"]
  /\ NoteBegin(s)
  /\ UNCHANGED <<rowVars, chain, granted, swept, record, error, read, faults>>

\* The same lookup, in a call made by the reconciler, which passes the columns of the
\* row it read (they are written once; wallet is NOT NULL).
Lookup(w) ==
  LET s == sig[w] IN
    /\ At(w, "lookup")
    /\ IF AlreadyConfirmed(s)
       THEN Go(w, "idle")
       ELSE /\ pc' = [pc EXCEPT ![w] = "reserve"]
            /\ named' = [named EXCEPT ![w] = rowNames[s] \cup {"wallet"}]
            /\ fresh' = [fresh EXCEPT ![w] = conf[s] = "none"]
            /\ UNCHANGED <<sig, swept, record, error, read>>
    /\ UNCHANGED <<rowVars, chain, granted, faults, mishaps>>

\* INSERT ... ON CONFLICT DO NOTHING RETURNING *: a row comes back only when it is
\* new, and then its conversion_id is NULL, so `duplicate` is never returned.
Reserve(w) ==
  LET s == sig[w] IN
    /\ At(w, "reserve")
    /\ pc' = [pc EXCEPT ![w] = IF fresh[w] THEN "create" ELSE "verify"]
    /\ record' = [record EXCEPT ![w] = key[s] = "none"]
    /\ key' = [key EXCEPT ![s] = IF @ = "none" THEN "reserved" ELSE @]
    /\ UNCHANGED <<conf, attempts, conversion, bornVars, chain, granted, sig, swept, named,
                   fresh, error, read, faults, mishaps>>

\* The INSERT violates UNIQUE (signature) when the row exists by now, NOT NULL (wallet)
\* when the caller named no wallet.
Create(w) ==
  LET s == sig[w] IN
    /\ At(w, "create")
    /\ IF conf[s] = "none" /\ "wallet" \in named[w]
       THEN /\ conf' = [conf EXCEPT ![s] = "processing"]
            /\ attempts' = [attempts EXCEPT ![s] = 0]
            /\ rowNames' = [rowNames EXCEPT ![s] = named[w] \ {"wallet"}]
            /\ \E c \in {"configured", "other"} :
                 commitment' = [commitment EXCEPT ![s] = c]
            /\ Go(w, "verify")
       ELSE Throw(w, "other") /\ UNCHANGED <<conf, attempts, bornVars>>
    /\ UNCHANGED <<key, conversion, chain, granted, faults, mishaps>>

\* Mutant: a signature the RPC does not know yet passes.
PassUnknown(w, from, to) ==
  /\ At(w, from)
  /\ chain[sig[w]] # "rejected"
  /\ Go(w, to)
  /\ UNCHANGED <<rowVars, chain, granted, faults, mishaps>>

VerifyPass(w, from, to) ==
  /\ At(w, from)
  /\ chain[sig[w]] = "landed"
  /\ Go(w, to)
  /\ UNCHANGED <<rowVars, chain, granted, faults, mishaps>>

\* Polling ends without a status: a timeout; the transaction failed or the RPC does
\* not answer: another error.
VerifyError(w) == IF chain[sig[w]] = "unknown" THEN {"timeout", "other"} ELSE {"other"}

VerifyThrow(w, from, to) ==
  /\ At(w, from)
  /\ \E e \in VerifyError(w) : error' = [error EXCEPT ![w] = e]
  /\ pc' = [pc EXCEPT ![w] = to]
  /\ UNCHANGED <<rowVars, chain, granted, sig, swept, named, fresh, record, read, faults,
                 mishaps>>

\* updateStatus has no condition on the present status.
WriteFailed(w) ==
  LET s == sig[w] IN
    /\ At(w, "fail")
    /\ conf' = [conf EXCEPT ![s] = IF @ = "none" THEN @ ELSE "failed"]
    /\ IF "conversion" \in named[w] THEN Go(w, "failConversion") ELSE Throw(w, error[w])
    /\ UNCHANGED <<attempts, key, conversion, bornVars, chain, granted, faults, mishaps>>

FailConversion(w) ==
  /\ At(w, "failConversion")
  /\ conversion' = [conversion EXCEPT ![sig[w]] = "FAILED"]
  /\ Throw(w, error[w])
  /\ UNCHANGED <<conf, attempts, key, bornVars, chain, granted, faults, mishaps>>

\* The last part of a confirmation that names no Blink, or is past its activation.
AfterActivation(w) == IF "conversion" \in named[w] THEN "convert" ELSE "attach"

\* commitment becomes the confirmationStatus the RPC reported.
Confirm(w) ==
  LET s == sig[w] IN
    /\ At(w, "confirm")
    /\ conf' = [conf EXCEPT ![s] = IF @ = "none" THEN @ ELSE "confirmed"]
    /\ \E c \in {"configured", "other"} :
         commitment' = [commitment EXCEPT ![s] = IF conf[s] = "none" THEN @ ELSE c]
    /\ Go(w, IF "blink" \in named[w] THEN "activate" ELSE AfterActivation(w))
    /\ UNCHANGED <<attempts, key, conversion, rowNames, chain, granted, faults, mishaps>>

\* findBlinkById, activateSubscription and attributeReferral.  No subscription may come
\* of it: the Blink is not found, the service has no activateFromBlink, or its call
\* throws and the error is swallowed.
Activate(w) ==
  /\ At(w, "activate")
  /\ \E g \in {0, 1} :
       granted' = [granted EXCEPT ![sig[w]] = IF @ + g > 2 THEN 2 ELSE @ + g]
  /\ Go(w, AfterActivation(w))
  /\ UNCHANGED <<rowVars, chain, faults, mishaps>>

Convert(w) ==
  /\ At(w, "convert")
  /\ conversion' = [conversion EXCEPT ![sig[w]] = "CONFIRMED"]
  /\ Go(w, "attach")
  /\ UNCHANGED <<conf, attempts, key, bornVars, chain, granted, faults, mishaps>>

\* attachConversion for the worker that reserved, then the events.
Attach(w) ==
  LET s == sig[w] IN
    /\ At(w, "attach")
    /\ key' = [key EXCEPT ![s] =
         IF record[w] /\ "conversion" \in named[w] /\ @ # "none" THEN "attached" ELSE @]
    /\ Go(w, "idle")
    /\ UNCHANGED <<conf, attempts, conversion, bornVars, chain, granted, faults, mishaps>>

-----------------------------------------------------------------------------
(* The reconciler *)

\* A row of listPending, with the attempts it had: open and of the configured commitment.
\* Its age and the LIMIT may keep a row out of the listing; the action need not be taken.
SweepList(w, s) ==
  /\ conf[s] \in Open
  /\ commitment[s] = "configured"
  /\ Begin(w, s, "sweepVerify")
  /\ swept' = [swept EXCEPT ![w] = TRUE]
  /\ read' = [read EXCEPT ![w] = attempts[s]]
  /\ NoteBegin(s)
  /\ UNCHANGED <<rowVars, chain, granted, named, fresh, record, error, faults>>

\* The catch of reconcilePending, deciding on the row as it was listed.
Recover(w) ==
  LET s == sig[w]
      spent == read[w] >= MaxAttempts
      outcome == IF error[w] = "other" THEN "failed" ELSE IF spent THEN "expired" ELSE "pending"
  IN
    /\ At(w, "recover")
    /\ conf' = [conf EXCEPT ![s] = IF @ = "none" THEN @ ELSE outcome]
    /\ attempts' = [attempts EXCEPT ![s] = IF outcome = "pending" THEN read[w] + 1 ELSE @]
    /\ Go(w, IF outcome = "failed" THEN "recoverConversion" ELSE "idle")
    /\ UNCHANGED <<key, conversion, bornVars, chain, granted, faults, mishaps>>

RecoverConversion(w) ==
  /\ At(w, "recoverConversion")
  /\ conversion' = [conversion EXCEPT ![sig[w]] = "FAILED"]
  /\ Go(w, "idle")
  /\ UNCHANGED <<conf, attempts, key, bornVars, chain, granted, faults, mishaps>>

\* reconcileSignature, called for a row that is neither confirmed nor failed
ReconcileSignature(w, s) ==
  /\ conf[s] \in Open \cup {"expired"}
  /\ Begin(w, s, "lookup")
  /\ NoteBegin(s)
  /\ UNCHANGED <<rowVars, chain, granted, swept, named, fresh, record, error, read, faults>>

\* reconcileExpired lists the rows whose attempts are spent, then writes them.
ExpireList(w, s) ==
  /\ conf[s] \in Open
  /\ attempts[s] >= MaxAttempts
  /\ Begin(w, s, "expire")
  /\ NoteBegin(s)
  /\ UNCHANGED <<rowVars, chain, granted, swept, named, fresh, record, error, read, faults>>

ExpireWrite(w) ==
  /\ At(w, "expire")
  /\ conf' = [conf EXCEPT ![sig[w]] = IF @ = "none" THEN @ ELSE "expired"]
  /\ Go(w, "idle")
  /\ UNCHANGED <<attempts, key, conversion, bornVars, chain, granted, faults, mishaps>>

-----------------------------------------------------------------------------
(* Clean-up, the chain, failures *)

\* deleteOldConfirmations and cleanupExpired: days later, no handler still runs.
Cleanup(s) ==
  /\ ~Busy(s)
  /\ conf[s] \in {"failed", "expired"}
  /\ conf' = [conf EXCEPT ![s] = "none"]
  /\ key' = [key EXCEPT ![s] = "none"]
  /\ attempts' = [attempts EXCEPT ![s] = 0]
  /\ commitment' = [commitment EXCEPT ![s] = "configured"]
  /\ rowNames' = [rowNames EXCEPT ![s] = {}]
  /\ UNCHANGED <<conversion, chain, granted, pc, localVars, faults, mishaps>>

Land(s) ==
  /\ chain[s] = "unknown"
  /\ \E r \in {"landed", "rejected"} : chain' = [chain EXCEPT ![s] = r]
  /\ UNCHANGED <<rowVars, granted, pc, localVars, faults, mishaps>>

\* The process dies, or the query of a request is rejected: its handler ends here.
Abort(w) ==
  /\ ~At(w, "idle")
  /\ faults < MaxFaults
  /\ faults' = faults + 1
  /\ Go(w, "idle")
  /\ UNCHANGED <<rowVars, chain, granted, mishaps>>

\* A query of confirmSignature is rejected under a sweep, whose catch takes over.
Unwind(w) ==
  /\ swept[w]
  /\ pc[w] \notin {"sweepVerify", "verify", "recover", "recoverConversion"}
  /\ faults < MaxFaults
  /\ faults' = faults + 1
  /\ Note(sig[w], {"unwound"})
  /\ Throw(w, "other")
  /\ UNCHANGED <<rowVars, chain, granted>>

-----------------------------------------------------------------------------
Progress(w) ==
  \/ Lookup(w)
  \/ Reserve(w)
  \/ Create(w)
  \/ VerifyPass(w, "verify", "confirm")
  \/ VerifyThrow(w, "verify", "fail")
  \/ WriteFailed(w)
  \/ FailConversion(w)
  \/ Confirm(w)
  \/ Activate(w)
  \/ Convert(w)
  \/ Attach(w)
  \/ VerifyPass(w, "sweepVerify", "lookup")
  \/ VerifyThrow(w, "sweepVerify", "recover")
  \/ Recover(w)
  \/ RecoverConversion(w)
  \/ ExpireWrite(w)

Next ==
  \/ \E w \in Workers, s \in Sigs :
       \/ \E names \in SUBSET Names : Deliver(w, s, names)
       \/ SweepList(w, s)
       \/ ReconcileSignature(w, s)
       \/ ExpireList(w, s)
  \/ \E s \in Sigs : Cleanup(s) \/ Land(s)
  \/ \E w \in Workers : Progress(w) \/ Abort(w) \/ Unwind(w)

Spec == Init /\ [][Next]_vars

-----------------------------------------------------------------------------
(* Properties *)

\* Under any overlap and failure, what is confirmed or activated was seen landed on
\* the chain: a stale worker may write an old verdict, never a wrong one.
ConfirmedOnChain ==
  \A s \in Sigs :
    conf[s] = "confirmed" \/ conversion[s] = "CONFIRMED" \/ granted[s] > 0 => chain[s] = "landed"

\* Deliveries that do not overlap activate a signature at most once, even when
\* processes die in between; only a sweep that catches an error after the confirming
\* UPDATE (and marks the row failed) opens the way to a second activation.
GrantedOnce ==
  \A s \in Sigs : mishaps[s] \cap {"overlap", "unwound"} = {} => granted[s] <= 1

-----------------------------------------------------------------------------
(* What the repository says and the code does not keep *)

\* A signature activates its subscription at most once.
ActivatedOnce == \A s \in Sigs : granted[s] <= 1

\* "No payment is ever left ambiguous after a webhook is lost or delayed": an open row is
\* confirmed, failed or expired in the end.  Nothing schedules the reconcilers.
NothingAmbiguous == \A s \in Sigs : conf[s] \in Open ~> conf[s] \notin Open

\* A confirmed payment was activated or is about to be.  A delivery that does not name the
\* Blink, a crash after the confirming UPDATE and a service without activateFromBlink
\* each leave it without, for ever.
ConfirmedIsGranted ==
  \A s \in Sigs :
    conf[s] = "confirmed" =>
      granted[s] > 0 \/ \E w \in Workers : sig[w] = s /\ At(w, "activate")

=============================================================================
