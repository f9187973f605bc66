--------------------------- MODULE OnChainPayment ---------------------------
(***************************************************************************)
(* The Anchor program signalforge-payment: one treasury account and one    *)
(* account per payment reference.  An instruction is a transaction: it     *)
(* takes effect completely or, when a constraint, a require! or a          *)
(* checked_add fails, not at all.                                          *)
(*                                                                         *)
(* Accounts are kept by field: a variable for each field of the treasury,  *)
(* a function of the reference for each field of the payment accounts.     *)
(* Fields the program stores and never reads again (payer, mint,           *)
(* subscription reference, texts) and the limits on their lengths are left *)
(* out.                                                                    *)
(***************************************************************************)
EXTENDS Integers, FiniteSets

CONSTANTS
  Refs,        \* payment references, the seeds of the payment accounts
  Keys,        \* public keys that may sign
  NoKey,       \* Pubkey::default()
  Amounts,     \* u64 amounts a client may ask for
  MinAmount,   \* MIN_PAYMENT_AMOUNT
  MaxAmount,   \* MAX_PAYMENT_AMOUNT
  Times,       \* unix timestamps the Clock sysvar may show
  MaxCount     \* the largest value of a u64 counter

ASSUME PaymentAssumption ==
  /\ IsFiniteSet(Refs)
  /\ NoKey \notin Keys
  /\ Amounts \subseteq Nat
  /\ MinAmount \in Nat \ {0} /\ MaxAmount \in Nat
  /\ Times \subseteq Nat \ {0}
  /\ MaxCount \in Nat

VARIABLES
  authority,                       \* Treasury.authority, NoKey before init
  created, confirmed, refunded,    \* Treasury.payments_*
  status, amount, resolver,        \* Payment.status, .amount, .authority
  confirmedAt, refundedAt,         \* Payment.confirmed_at, .refunded_at
  funded                           \* references paid to the treasury (external)

treasuryVars == <<authority, created, confirmed, refunded>>
paymentVars == <<status, amount, resolver, confirmedAt, refundedAt>>
vars == <<authority, created, confirmed, refunded,
          status, amount, resolver, confirmedAt, refundedAt, funded>>

Statuses == {"Absent", "Pending", "Confirmed", "Refunded"}
Counters == 0..MaxCount

TypeOK ==
  /\ authority \in Keys \cup {NoKey}
  /\ created \in Counters /\ confirmed \in Counters /\ refunded \in Counters
  /\ status \in [Refs -> Statuses]
  /\ amount \in [Refs -> {0} \cup MinAmount..MaxAmount]
  /\ resolver \in [Refs -> Keys \cup {NoKey}]
  /\ confirmedAt \in [Refs -> Times \cup {0}]
  /\ refundedAt \in [Refs -> Times \cup {0}]
  /\ funded \subseteq Refs

InStatus(s) == {r \in Refs : status[r] = s}
Accounts == {r \in Refs : status[r] # "Absent"}

Init ==
  /\ authority = NoKey
  /\ created = 0 /\ confirmed = 0 /\ refunded = 0
  /\ status = [r \in Refs |-> "Absent"]
  /\ amount = [r \in Refs |-> 0]
  /\ resolver = [r \in Refs |-> NoKey]
  /\ confirmedAt = [r \in Refs |-> 0]
  /\ refundedAt = [r \in Refs |-> 0]
  /\ funded = {}

-----------------------------------------------------------------------------
(* Account constraints shared by the instructions *)

Initialized == authority # NoKey

\* Mutant: the counter may step past its width.
CountsPastLimit(n) == n <= MaxCount

\* record_payment, record_confirmation, record_refund: checked_add(1)
CanCount(n) == n < MaxCount

-----------------------------------------------------------------------------
(* Instructions *)

\* `init` on the treasury account: the first caller becomes the authority.
InitializeTreasury(k) ==
  /\ ~Initialized
  /\ authority' = k
  /\ created' = 0 /\ confirmed' = 0 /\ refunded' = 0
  /\ UNCHANGED <<paymentVars, funded>>

CreatePayment(r, a) ==
  /\ Initialized
  /\ status[r] = "Absent"
  /\ a \in MinAmount..MaxAmount
  /\ CanCount(created)
  /\ status' = [status EXCEPT ![r] = "Pending"]
  /\ amount' = [amount EXCEPT ![r] = a]
  /\ resolver' = [resolver EXCEPT ![r] = NoKey]
  /\ confirmedAt' = [confirmedAt EXCEPT ![r] = 0]
  /\ refundedAt' = [refundedAt EXCEPT ![r] = 0]
  /\ created' = created + 1
  /\ UNCHANGED <<authority, confirmed, refunded, funded>>

\* What confirm_payment writes once its checks have passed
RecordConfirmation(r, now) ==
  /\ CanCount(confirmed)
  /\ status' = [status EXCEPT ![r] = "Confirmed"]
  /\ resolver' = [resolver EXCEPT ![r] = authority]
  /\ confirmedAt' = [confirmedAt EXCEPT ![r] = now]
  /\ confirmed' = confirmed + 1
  /\ UNCHANGED <<authority, created, refunded, amount, refundedAt, funded>>

\* Mutant: the pending check of confirm_payment forgotten.
ConfirmAnyPayment(k, r, now) ==
  /\ Initialized /\ k = authority
  /\ status[r] # "Absent"
  /\ RecordConfirmation(r, now)

ConfirmPayment(k, r, now) ==
  /\ Initialized /\ k = authority
  /\ status[r] = "Pending"
  /\ RecordConfirmation(r, now)

\* What refund_payment writes once its checks have passed
RecordRefund(r, now) ==
  /\ CanCount(refunded)
  /\ status' = [status EXCEPT ![r] = "Refunded"]
  /\ resolver' = [resolver EXCEPT ![r] = authority]
  /\ refundedAt' = [refundedAt EXCEPT ![r] = now]
  /\ refunded' = refunded + 1
  /\ UNCHANGED <<authority, created, confirmed, amount, confirmedAt, funded>>

\* Mutant: refund_payment checks is_refunded only.
RefundConfirmedPayment(k, r, now) ==
  /\ Initialized /\ k = authority
  /\ status[r] \notin {"Absent", "Refunded"}
  /\ RecordRefund(r, now)

RefundPayment(k, r, now) ==
  /\ Initialized /\ k = authority
  /\ status[r] \notin {"Absent", "Confirmed", "Refunded"}
  /\ RecordRefund(r, now)

\* External: the payer transfers the tokens of an intent to the treasury.
\* No instruction of the program reads it.
Transfer(r) ==
  /\ status[r] # "Absent"
  /\ r \notin funded
  /\ funded' = funded \cup {r}
  /\ UNCHANGED <<treasuryVars, paymentVars>>

Next ==
  \/ \E k \in Keys : InitializeTreasury(k)
  \/ \E r \in Refs, a \in Amounts : CreatePayment(r, a)
  \/ \E k \in Keys, r \in Refs, t \in Times : ConfirmPayment(k, r, t)
  \/ \E k \in Keys, r \in Refs, t \in Times : RefundPayment(k, r, t)
  \/ \E r \in Refs : Transfer(r)

Spec == Init /\ [][Next]_vars

-----------------------------------------------------------------------------
(* Properties *)

\* The three counters of the treasury are exactly the numbers of payment
\* accounts created, confirmed and refunded: no instruction may count twice,
\* count without changing a payment, or lose a count when it aborts on the
\* counter's limit (state/treasury.rs, record_*).
CountersReconcile ==
  /\ created = Cardinality(Accounts)
  /\ confirmed = Cardinality(InStatus("Confirmed"))
  /\ refunded = Cardinality(InStatus("Refunded"))

\* confirm_payment and refund_payment race for the same intent; whichever is
\* first wins for good.  A payment account shows the timestamp of its outcome,
\* never the timestamps of both, and names the treasury's authority.
OneOutcome ==
  \A r \in Refs :
    /\ confirmedAt[r] # 0 <=> status[r] = "Confirmed"
    /\ refundedAt[r] # 0 <=> status[r] = "Refunded"
    /\ resolver[r] = (IF status[r] \in {"Confirmed", "Refunded"} THEN authority ELSE NoKey)

\* lib.rs, confirm_payment: "The payer's tokens must have been transferred to
\* the treasury before confirmation."
ConfirmedWasFunded == InStatus("Confirmed") \subseteq funded

-----------------------------------------------------------------------------
(* The program implements the life of a payment intent: the accounts sorted
   by status are the intent's three sets, the counters are its books. *)

Intent == INSTANCE PaymentIntent WITH
  Count <- Cardinality,
  open <- InStatus("Pending"),
  settled <- InStatus("Confirmed"),
  returned <- InStatus("Refunded"),
  books <- <<created, confirmed, refunded>>

\* Every instruction is one step of PaymentIntent or leaves it alone: an intent
\* is opened once, settled or returned at most once and never both, and the
\* treasury's counters always report it.
ImplementsIntent == Intent!Spec

=============================================================================
