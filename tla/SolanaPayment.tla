--------------------------- MODULE SolanaPayment ----------------------------
(***************************************************************************)
(* The server's payment records (table solana_payments) and the requests   *)
(* that move them: create, attach-signature, confirm, mark-confirmed,      *)
(* mark-failed, refund and the two sweeps.                                 *)
(*                                                                         *)
(* A handler is a sequence of queries with an await between them and no    *)
(* transaction around them, so an action is one query together with the    *)
(* code up to the next one.  A rejected request changes nothing and is     *)
(* not a step unless it ends a handler that already ran a query.           *)
(*                                                                         *)
(* External: the chain, where a transaction lands or fails, and the        *)
(* rows it gives their amount, whether or not in their token.              *)
(***************************************************************************)
EXTENDS Naturals, FiniteSets

CONSTANTS
  Payments,    \* rows of solana_payments
  Sigs,        \* signatures of transfers
  NoSig,       \* tx_signature IS NULL
  RefundSigs,  \* signatures of refund transfers
  Clients,     \* requests and jobs that may run at the same time
  Gives,       \* [Sigs -> SUBSET Payments]: the rows whose recipient a transaction gives
               \* their amount, in SOL for a row in SOL, else in tokens of any mint
  Pays,        \* [Sigs -> SUBSET Payments]: those of them it pays in the row's token
  Expiring,    \* rows whose expires_at may pass
  Overridable, \* rows an administrator may mark by hand
  SweepLimit,  \* LIMIT of the pending sweep
  Faults       \* TRUE when queries may fail and processes may die

ASSUME SolanaPaymentAssumption ==
  /\ NoSig \notin Sigs
  /\ Gives \in [Sigs -> SUBSET Payments]
  /\ Pays \in [Sigs -> SUBSET Payments]
  /\ \A s \in Sigs : Pays[s] \subseteq Gives[s]
  /\ Expiring \subseteq Payments
  /\ Overridable \subseteq Payments
  /\ SweepLimit \in Nat
  /\ Faults \in BOOLEAN

VARIABLES
  status,      \* solana_payments.status, "Absent" before the INSERT
  sig,         \* .tx_signature
  confirmed,   \* rows with confirmed_at set
  refundTx,    \* .refund_tx_signature
  overdue,     \* rows whose expires_at is past
  older,       \* older[p]: rows with a .submitted_at before that of p
  announced,   \* rows for which emitPaymentConfirmed published an event
  landed,      \* the chain: what getTransaction shows of a signature
  pc, row, arg, todo, \* a client: next query, the row, signature and batch it holds
  attached,    \* history: signatures ever written to a row
  overridden   \* history: rows marked confirmed by an administrator

rowVars == <<status, sig, confirmed, refundTx, overdue, older>>
clientVars == <<pc, row, arg, todo>>
historyVars == <<attached, overridden>>
vars == <<status, sig, confirmed, refundTx, overdue, older, announced, landed,
          pc, row, arg, todo, attached, overridden>>

Statuses == {"Absent", "AWAITING_SIGNATURE", "SUBMITTED", "CONFIRMED", "FAILED",
             "EXPIRED", "REFUNDED"}

PCs == {"idle", "attachRead", "attachWrite", "verifyRead", "fetch", "confirmWrite",
        "announce", "refundWrite", "expireWrite", "confirmNext"}

TypeOK ==
  /\ status \in [Payments -> Statuses]
  /\ sig \in [Payments -> Sigs \cup {NoSig}]
  /\ confirmed \subseteq Payments
  /\ refundTx \in [Payments -> RefundSigs \cup {NoSig}]
  /\ overdue \subseteq Payments
  /\ older \in [Payments -> SUBSET Payments]
  /\ announced \subseteq Payments
  /\ landed \in [Sigs -> {"unknown", "ok", "failed"}]
  /\ pc \in [Clients -> PCs]
  /\ row \in [Clients -> Payments \cup {NoSig}]
  /\ arg \in [Clients -> Sigs \cup RefundSigs \cup {NoSig}]
  /\ \A c \in Clients : pc[c] = "fetch" => arg[c] \in Sigs
  /\ todo \in [Clients -> SUBSET Payments]
  /\ attached \in [Payments -> SUBSET Sigs]
  /\ overridden \subseteq Payments

Init ==
  /\ status = [p \in Payments |-> "Absent"]
  /\ sig = [p \in Payments |-> NoSig]
  /\ confirmed = {}
  /\ refundTx = [p \in Payments |-> NoSig]
  /\ overdue = {}
  /\ older = [p \in Payments |-> {}]
  /\ announced = {}
  /\ landed = [s \in Sigs |-> "unknown"]
  /\ pc = [c \in Clients |-> "idle"]
  /\ row = [c \in Clients |-> NoSig]
  /\ arg = [c \in Clients |-> NoSig]
  /\ todo = [c \in Clients |-> {}]
  /\ attached = [p \in Payments |-> {}]
  /\ overridden = {}

-----------------------------------------------------------------------------
(* Control of a client *)

\* The values a client no longer needs are forgotten: the row when the handler is
\* over, the signature once it was written or verified.
Step(c, from, to) ==
  /\ pc[c] = from
  /\ pc' = [pc EXCEPT ![c] = to]
  /\ row' = IF to \in {"idle", "confirmNext"} THEN [row EXCEPT ![c] = NoSig] ELSE row
  /\ arg' = IF to \in {"attachWrite", "refundWrite"} THEN arg ELSE [arg EXCEPT ![c] = NoSig]

\* The client begins a handler about p with argument s.
Begin(c, p, s, to) ==
  /\ pc[c] = "idle"
  /\ pc' = [pc EXCEPT ![c] = to]
  /\ row' = [row EXCEPT ![c] = p]
  /\ arg' = [arg EXCEPT ![c] = s]
  /\ UNCHANGED todo

\* The handler about one row is over: a sweep goes on with its batch.
AfterRow(c) == IF todo[c] = {} THEN "idle" ELSE "confirmNext"

-----------------------------------------------------------------------------
(* createPayment: one INSERT *)

Create(p) ==
  /\ status[p] = "Absent"
  /\ status' = [status EXCEPT ![p] = "AWAITING_SIGNATURE"]
  /\ UNCHANGED <<sig, confirmed, refundTx, overdue, older, announced, landed,
                 clientVars, historyVars>>

-----------------------------------------------------------------------------
(* attachSignature: findBySignature, findById, UPDATE *)

\* Mutant: the uniqueness check of attachSignature left out.
AttachWithoutLookup(c, p, s) ==
  /\ Begin(c, p, s, "attachRead")
  /\ UNCHANGED <<rowVars, announced, landed, historyVars>>

\* findBySignature has LIMIT 1: when p itself holds s it may be the row found.
AttachLookup(c, p, s) ==
  /\ \/ \A q \in Payments : sig[q] # s
     \/ sig[p] = s
  /\ Begin(c, p, s, "attachRead")
  /\ UNCHANGED <<rowVars, announced, landed, historyVars>>

AttachRead(c) ==
  /\ Step(c, "attachRead",
          IF status[row[c]] = "AWAITING_SIGNATURE" THEN "attachWrite" ELSE "idle")
  /\ UNCHANGED <<rowVars, announced, landed, todo, historyVars>>

\* The UPDATE names the row by id only.
AttachWrite(c) ==
  /\ Step(c, "attachWrite", "idle")
  /\ LET p == row[c] IN
       /\ status' = [status EXCEPT ![p] = "SUBMITTED"]
       /\ sig' = [sig EXCEPT ![p] = arg[c]]
       /\ older' = [q \in Payments |-> IF q = p THEN {r \in Payments \ {p} : sig[r] # NoSig}
                                       ELSE older[q] \ {p}]
       /\ attached' = [attached EXCEPT ![p] = @ \cup {arg[c]}]
  /\ UNCHANGED <<confirmed, refundTx, overdue, announced, landed, todo, overridden>>

-----------------------------------------------------------------------------
(* confirmPayment: findById, verifyPayment's findById, getTransaction,
   UPDATE, findById and the event *)

\* The early returns of confirmPayment (FINALIZED is never written)
OpenToConfirmation(p) ==
  /\ status[p] \notin {"Absent", "CONFIRMED"}
  /\ sig[p] # NoSig

ConfirmRead(c, p) ==
  /\ OpenToConfirmation(p)
  /\ Begin(c, p, NoSig, "verifyRead")
  /\ UNCHANGED <<rowVars, announced, landed, historyVars>>

\* verifyPayment looks for a missing signature once more: none is ever removed.
VerifyRead(c) ==
  /\ pc[c] = "verifyRead"
  /\ pc' = [pc EXCEPT ![c] = "fetch"]
  /\ arg' = [arg EXCEPT ![c] = sig[row[c]]]
  /\ UNCHANGED <<rowVars, announced, landed, row, todo, historyVars>>

\* Mutant: verifyTransaction trusts any transaction without an error.
LandedOnly(s, p) == landed[s] = "ok"

\* Mutant: verifyTransaction forgets tx.meta.err.
LandedOrFailed(s, p) == landed[s] # "unknown" /\ p \in Gives[s]

\* verifyTransaction: found, without error, and the balances of the recipient grew
\* by the amount.  The token accounts it adds up may be of any mint.
Verified(s, p) == landed[s] = "ok" /\ p \in Gives[s]

VerifyPass(c) ==
  /\ Step(c, "fetch", "confirmWrite")
  /\ Verified(arg[c], row[c])
  /\ UNCHANGED <<rowVars, announced, landed, todo, historyVars>>


\* Not found, errored, another amount, or FETCH_FAILED
VerifyReject(c) ==
  /\ Step(c, "fetch", AfterRow(c))
  /\ Faults \/ ~Verified(arg[c], row[c])
  /\ UNCHANGED <<rowVars, announced, landed, todo, historyVars>>

\* updateStatus(CONFIRMED): the UPDATE names the row by id only and keeps
\* tx_signature.
WriteConfirmed(p) ==
  /\ status' = [status EXCEPT ![p] = "CONFIRMED"]
  /\ confirmed' = confirmed \cup {p}
  /\ UNCHANGED <<sig, refundTx, overdue, older>>

ConfirmWrite(c) ==
  /\ Step(c, "confirmWrite", "announce")
  /\ WriteConfirmed(row[c])
  /\ UNCHANGED <<announced, landed, todo, historyVars>>

Announce(c) ==
  /\ Step(c, "announce", AfterRow(c))
  /\ announced' = announced \cup {row[c]}
  /\ UNCHANGED <<rowVars, landed, todo, historyVars>>

\* An administrator's mark-confirmed: markConfirmed alone, from any status.
MarkConfirmed(c, p) ==
  /\ p \in Overridable
  /\ status[p] # "Absent"
  /\ Begin(c, p, NoSig, "announce")
  /\ WriteConfirmed(p)
  /\ overridden' = overridden \cup {p}
  /\ UNCHANGED <<announced, landed, attached>>

\* An administrator's mark-failed: one UPDATE, from any status.
MarkFailed(c, p) ==
  /\ p \in Overridable
  /\ pc[c] = "idle"
  /\ status[p] # "Absent"
  /\ status' = [status EXCEPT ![p] = "FAILED"]
  /\ UNCHANGED <<sig, confirmed, refundTx, overdue, older, announced, landed,
                 clientVars, historyVars>>

-----------------------------------------------------------------------------
(* refundPayment: findById, UPDATE *)

\* Mutant: refundPayment does not look at the status.
RefundUnchecked(c, p, t) ==
  /\ status[p] # "Absent"
  /\ Begin(c, p, t, "refundWrite")
  /\ UNCHANGED <<rowVars, announced, landed, historyVars>>

RefundRead(c, p, t) ==
  /\ status[p] = "CONFIRMED"
  /\ Begin(c, p, t, "refundWrite")
  /\ UNCHANGED <<rowVars, announced, landed, historyVars>>

RefundWrite(c) ==
  /\ Step(c, "refundWrite", "idle")
  /\ status' = [status EXCEPT ![row[c]] = "REFUNDED"]
  /\ refundTx' = [refundTx EXCEPT ![row[c]] = arg[c]]
  /\ UNCHANGED <<sig, confirmed, overdue, older, announced, landed, todo,
                 historyVars>>

-----------------------------------------------------------------------------
(* The sweeps: a SELECT, then the rows of the batch one by one *)

Due == {p \in Payments : status[p] = "AWAITING_SIGNATURE" /\ p \in overdue}

\* findExpired (its LIMIT of 200 is above every batch here)
SweepExpired(c) ==
  /\ Due # {}
  /\ Step(c, "idle", "expireWrite")
  /\ todo' = [todo EXCEPT ![c] = Due]
  /\ UNCHANGED <<rowVars, announced, landed, historyVars>>

\* markExpired of one row of the batch
ExpireWrite(c, p) ==
  /\ p \in todo[c]
  /\ Step(c, "expireWrite", IF todo[c] = {p} THEN "idle" ELSE "expireWrite")
  /\ todo' = [todo EXCEPT ![c] = @ \ {p}]
  /\ status' = [status EXCEPT ![p] = "EXPIRED"]
  /\ UNCHANGED <<sig, confirmed, refundTx, overdue, older, announced, landed,
                 historyVars>>

Pending == {p \in Payments : status[p] = "SUBMITTED"}

\* findPendingForVerification: the oldest SweepLimit pending rows
PendingBatch == {p \in Pending : Cardinality(Pending \cap older[p]) < SweepLimit}

SweepPending(c) ==
  /\ PendingBatch # {}
  /\ Step(c, "idle", "confirmNext")
  /\ todo' = [todo EXCEPT ![c] = PendingBatch]
  /\ UNCHANGED <<rowVars, announced, landed, historyVars>>

\* The next confirmPayment of the batch, with its first query.  Any row may be
\* next: the code's order, that of submitted_at, is one of those.
ConfirmNext(c, p) ==
  /\ p \in todo[c]
  /\ todo' = [todo EXCEPT ![c] = @ \ {p}]
  /\ pc[c] = "confirmNext"
  /\ IF OpenToConfirmation(p)
       THEN /\ pc' = [pc EXCEPT ![c] = "verifyRead"]
            /\ row' = [row EXCEPT ![c] = p]
       ELSE /\ pc' = [pc EXCEPT ![c] = IF todo[c] = {p} THEN "idle" ELSE "confirmNext"]
            /\ UNCHANGED row
  /\ UNCHANGED <<rowVars, announced, landed, arg, historyVars>>

-----------------------------------------------------------------------------
(* Failures *)

\* A query rejects the handler, or the process dies.
Abort(c) ==
  /\ Faults
  /\ pc[c] # "idle"
  /\ Step(c, pc[c], "idle")
  /\ todo' = [todo EXCEPT ![c] = {}]
  /\ UNCHANGED <<rowVars, announced, landed, historyVars>>

\* confirmPendingPayments catches the error of one row and goes on.
SkipRow(c) ==
  /\ Faults
  /\ todo[c] # {}
  /\ pc[c] \in {"verifyRead", "confirmWrite", "announce"}
  /\ Step(c, pc[c], "confirmNext")
  /\ UNCHANGED <<rowVars, announced, landed, todo, historyVars>>

-----------------------------------------------------------------------------
(* The outside *)

Land(s, outcome) ==
  /\ landed[s] = "unknown"
  /\ landed' = [landed EXCEPT ![s] = outcome]
  /\ UNCHANGED <<rowVars, announced, clientVars, historyVars>>

PassDeadline(p) ==
  /\ p \in Expiring \ overdue
  /\ status[p] # "Absent"
  /\ overdue' = overdue \cup {p}
  /\ UNCHANGED <<status, sig, confirmed, refundTx, older, announced, landed,
                 clientVars, historyVars>>

-----------------------------------------------------------------------------
Attach(c) ==
  \/ \E p \in Payments, s \in Sigs : AttachLookup(c, p, s)
  \/ AttachRead(c)
  \/ AttachWrite(c)

Confirm(c) ==
  \/ \E p \in Payments : ConfirmRead(c, p)
  \/ VerifyRead(c)
  \/ VerifyPass(c)
  \/ VerifyReject(c)
  \/ ConfirmWrite(c)
  \/ Announce(c)

Refund(c) ==
  \/ \E p \in Payments, t \in RefundSigs \cup {NoSig} : RefundRead(c, p, t)
  \/ RefundWrite(c)

Sweep(c) ==
  \/ SweepExpired(c)
  \/ \E p \in Payments : ExpireWrite(c, p)
  \/ SweepPending(c)
  \/ \E p \in Payments : ConfirmNext(c, p)

Next ==
  \/ \E p \in Payments : Create(p) \/ PassDeadline(p)
  \/ \E c \in Clients : Attach(c) \/ Confirm(c) \/ Refund(c) \/ Sweep(c)
  \/ \E c \in Clients : Abort(c) \/ SkipRow(c)
  \/ \E c \in Clients, p \in Payments : MarkConfirmed(c, p) \/ MarkFailed(c, p)
  \/ \E s \in Sigs, o \in {"ok", "failed"} : Land(s, o)

Spec == Init /\ [][Next]_vars

\* A handler that waits for a query goes on.
Continue(c) ==
  \/ AttachRead(c)
  \/ AttachWrite(c)
  \/ VerifyRead(c)
  \/ VerifyPass(c)
  \/ VerifyReject(c)
  \/ ConfirmWrite(c)
  \/ Announce(c)
  \/ RefundWrite(c)
  \/ \E p \in Payments : ExpireWrite(c, p) \/ ConfirmNext(c, p)

FairSpec ==
  /\ Spec
  /\ \A c \in Clients : WF_vars(Continue(c))

-----------------------------------------------------------------------------
(* Properties of concurrent requests that fail at any point *)

\* The chain shows that s gave the recipient of p its amount.
Received(s, p) ==
  /\ s \in Sigs
  /\ landed[s] = "ok"
  /\ p \in Gives[s]

\* A payment confirmed by confirmPayment reached its recipient: some signature that
\* was attached to it landed without error and gave the amount, be it in another
\* token.  The signature is read, checked on the chain and acted on in three steps
\* with other requests between them (verifyPayment, verifyTransaction,
\* markConfirmed).
ConfirmedByChain ==
  \A p \in confirmed \ overridden : \E s \in attached[p] : Received(s, p)

\* Money is returned only for a payment that was confirmed at some time, however
\* the refund's check and its UPDATE are interleaved with other requests.
RefundedWasConfirmed ==
  \A p \in Payments : status[p] = "REFUNDED" \/ refundTx[p] # NoSig => p \in confirmed

-----------------------------------------------------------------------------
(* Properties of requests that do not overlap *)

\* One transfer pays for one payment (the check at the head of attachSignature).
SignatureUnique ==
  \A p, q \in Payments : sig[p] # NoSig /\ sig[p] = sig[q] => p = q

\* The signature a confirmed record shows, which attachSignature may replace until
\* then, is one that gave its recipient the amount, be it in another token.
ShownIsReceived ==
  \A p \in Payments \ overridden : status[p] = "CONFIRMED" => Received(sig[p], p)

-----------------------------------------------------------------------------
(* What the repository says and the code does not keep *)

\* Verification establishes that the transaction moved the expected funds: a
\* confirmed payment was paid in its own token.  (The header of
\* payment-verification.service.js says so; verifyTransaction looks at no mint.)
ConfirmedIsPaid ==
  \A p \in confirmed \ overridden :
    \E s \in attached[p] : landed[s] = "ok" /\ p \in Pays[s]

\* The refund, failure or expiry of a payment is its last status, as
\* TERMINAL_SOLANA_PAYMENT_STATUSES has it.
TerminalStays ==
  [][\A p \in Payments :
       status[p] \in {"FAILED", "EXPIRED", "REFUNDED"} => status'[p] = status[p]]_vars

\* A confirmed payment is not forgotten: its SOLANA_PAYMENT_CONFIRMED event is
\* published or is about to be.  False once a process dies before it publishes.
NoSilentConfirmation ==
  \A p \in confirmed :
    p \in announced \/ \E c \in Clients : pc[c] = "announce" /\ row[c] = p

-----------------------------------------------------------------------------
(* Liveness *)


=============================================================================
