------------------------ MODULE OnChainPaymentProofs ------------------------
(***************************************************************************)
(* Theorems about OnChainPayment for every set of references and keys,     *)
(* every width of the counters and every bound on the amount.              *)
(***************************************************************************)
EXTENDS OnChainPayment, FiniteSetTheorems, TLAPS

(***************************************************************************)
(* Types                                                                   *)
(***************************************************************************)

\* A counter that may still count stays in its range.
LEMMA CountFits ==
  ASSUME NEW n \in Counters, CanCount(n)
  PROVE  n + 1 \in Counters
BY PaymentAssumption DEF CanCount, Counters

\* Every instruction keeps the accounts well-formed; the counters stay inside
\* u64 because checked_add aborts the transaction at the limit.
THEOREM Typing == Spec => []TypeOK
<1> USE PaymentAssumption DEF TypeOK
<1>1. Init => TypeOK
  BY DEF Init, Statuses, Counters
<1>2. TypeOK /\ [Next]_vars => TypeOK'
  <2> SUFFICES ASSUME TypeOK, [Next]_vars PROVE TypeOK'
    OBVIOUS
  <2>1. ASSUME NEW k \in Keys, InitializeTreasury(k) PROVE TypeOK'
    BY <2>1 DEF InitializeTreasury, paymentVars, Counters
  <2>2. ASSUME NEW r \in Refs, NEW a \in Amounts, CreatePayment(r, a) PROVE TypeOK'
    BY <2>2, CountFits DEF CreatePayment, Statuses
  <2>3. ASSUME NEW k \in Keys, NEW r \in Refs, NEW t \in Times, ConfirmPayment(k, r, t)
        PROVE TypeOK'
    BY <2>3, CountFits DEF ConfirmPayment, RecordConfirmation, Statuses
  <2>4. ASSUME NEW k \in Keys, NEW r \in Refs, NEW t \in Times, RefundPayment(k, r, t)
        PROVE TypeOK'
    BY <2>4, CountFits DEF RefundPayment, RecordRefund, Statuses
  <2>5. ASSUME NEW r \in Refs, Transfer(r) PROVE TypeOK'
    BY <2>5 DEF Transfer, treasuryVars, paymentVars
  <2>6. CASE UNCHANGED vars
    BY <2>6 DEF vars
  <2> QED BY <2>1, <2>2, <2>3, <2>4, <2>5, <2>6 DEF Next
<1> QED BY <1>1, <1>2, PTL DEF Spec

(***************************************************************************)
(* One outcome per intent                                                  *)
(***************************************************************************)

\* There is no payment account before there is a treasury: OneOutcome needs
\* it, because it names the authority and initialize_treasury sets it.
NoAccountBeforeTreasury == ~Initialized => Accounts = {}

\* create_payment takes the treasury account, so no payment precedes it.
THEOREM AccountsNeedTreasury == Spec => []NoAccountBeforeTreasury
<1> USE DEF NoAccountBeforeTreasury, Accounts, Initialized
<1>1. Init => NoAccountBeforeTreasury
  BY DEF Init
<1>2. NoAccountBeforeTreasury /\ [Next]_vars => NoAccountBeforeTreasury'
  BY PaymentAssumption
     DEF Next, vars, InitializeTreasury, CreatePayment, ConfirmPayment, RecordConfirmation,
         RefundPayment, RecordRefund, Transfer, treasuryVars, paymentVars
<1> QED BY <1>1, <1>2, PTL DEF Spec

OutcomeInv == NoAccountBeforeTreasury /\ OneOutcome

\* Whatever order confirm_payment and refund_payment are sent in, a payment
\* account carries the marks of at most one of them, the one in its status.
THEOREM Outcome == Spec => []OneOutcome
<1> USE PaymentAssumption DEF TypeOK, OutcomeInv, NoAccountBeforeTreasury, OneOutcome,
        Accounts, Initialized
<1>1. Init => OutcomeInv
  BY DEF Init
<1>2. TypeOK /\ OutcomeInv /\ [Next]_vars => OutcomeInv'
  <2> SUFFICES ASSUME TypeOK, OutcomeInv, [Next]_vars PROVE OutcomeInv'
    OBVIOUS
  <2>1. ASSUME NEW k \in Keys, InitializeTreasury(k) PROVE OutcomeInv'
    BY <2>1 DEF InitializeTreasury, paymentVars
  <2>2. ASSUME NEW r \in Refs, NEW a \in Amounts, CreatePayment(r, a) PROVE OutcomeInv'
    BY <2>2 DEF CreatePayment
  <2>3. ASSUME NEW k \in Keys, NEW r \in Refs, NEW t \in Times, ConfirmPayment(k, r, t)
        PROVE OutcomeInv'
    BY <2>3 DEF ConfirmPayment, RecordConfirmation
  <2>4. ASSUME NEW k \in Keys, NEW r \in Refs, NEW t \in Times, RefundPayment(k, r, t)
        PROVE OutcomeInv'
    BY <2>4 DEF RefundPayment, RecordRefund, Statuses
  <2>5. ASSUME NEW r \in Refs, Transfer(r) PROVE OutcomeInv'
    BY <2>5 DEF Transfer, treasuryVars, paymentVars
  <2>6. CASE UNCHANGED vars
    BY <2>6 DEF vars
  <2> QED BY <2>1, <2>2, <2>3, <2>4, <2>5, <2>6 DEF Next
<1>3. OutcomeInv => OneOutcome
  OBVIOUS
<1> QED BY <1>1, <1>2, <1>3, Typing, PTL DEF Spec

(***************************************************************************)
(* The counters                                                            *)
(***************************************************************************)

\* The sets the counters count are finite.
LEMMA FiniteAccounts ==
  /\ IsFiniteSet(Accounts)
  /\ \A s : IsFiniteSet(InStatus(s))
BY PaymentAssumption, FS_Subset DEF Accounts, InStatus

CountInv == NoAccountBeforeTreasury /\ CountersReconcile

\* The counters of the treasury report the payment accounts exactly.
THEOREM Counting == Spec => []CountersReconcile
<1> USE DEF CountInv, CountersReconcile
<1>1. Init => CountInv
  <2> SUFFICES ASSUME Init PROVE CountInv
    OBVIOUS
  <2>1. Accounts = {} /\ InStatus("Confirmed") = {} /\ InStatus("Refunded") = {}
    BY DEF Init, Accounts, InStatus
  <2> QED BY <2>1, FS_EmptySet DEF Init, NoAccountBeforeTreasury
<1>2. TypeOK /\ CountInv /\ [Next]_vars => CountInv'
  <2> SUFFICES ASSUME TypeOK, CountInv, [Next]_vars PROVE CountInv'
    OBVIOUS
  <2>1. ASSUME NEW k \in Keys, InitializeTreasury(k) PROVE CountInv'
    <3>1. InStatus("Confirmed") = {} /\ InStatus("Refunded") = {} /\ Accounts = {}
      BY <2>1 DEF InitializeTreasury, NoAccountBeforeTreasury, Accounts, InStatus
    <3>2. Accounts' = Accounts /\ \A s : InStatus(s)' = InStatus(s)
      BY <2>1 DEF InitializeTreasury, paymentVars, Accounts, InStatus
    <3> QED BY <2>1, <3>1, <3>2, FS_EmptySet DEF InitializeTreasury, NoAccountBeforeTreasury
  <2>2. ASSUME NEW r \in Refs, NEW a \in Amounts, CreatePayment(r, a) PROVE CountInv'
    <3>1. Accounts' = Accounts \cup {r} /\ r \notin Accounts
      BY <2>2 DEF CreatePayment, Accounts, TypeOK
    <3>2. InStatus("Confirmed")' = InStatus("Confirmed") /\ InStatus("Refunded")' = InStatus("Refunded")
      BY <2>2 DEF CreatePayment, InStatus, TypeOK
    <3>3. Cardinality(Accounts') = Cardinality(Accounts) + 1
      BY <3>1, FiniteAccounts, FS_AddElement
    <3> QED BY <2>2, <3>2, <3>3 DEF CreatePayment, NoAccountBeforeTreasury, Initialized
  <2>3. ASSUME NEW k \in Keys, NEW r \in Refs, NEW t \in Times, ConfirmPayment(k, r, t)
        PROVE CountInv'
    <3>1. /\ InStatus("Confirmed")' = InStatus("Confirmed") \cup {r}
          /\ r \notin InStatus("Confirmed")
      BY <2>3 DEF ConfirmPayment, RecordConfirmation, InStatus, TypeOK
    <3>2. Accounts' = Accounts /\ InStatus("Refunded")' = InStatus("Refunded")
      BY <2>3 DEF ConfirmPayment, RecordConfirmation, Accounts, InStatus, TypeOK
    <3>3. Cardinality(InStatus("Confirmed")') = Cardinality(InStatus("Confirmed")) + 1
      BY <3>1, FiniteAccounts, FS_AddElement
    <3> QED BY <2>3, <3>2, <3>3
            DEF ConfirmPayment, RecordConfirmation, NoAccountBeforeTreasury, Initialized
  <2>4. ASSUME NEW k \in Keys, NEW r \in Refs, NEW t \in Times, RefundPayment(k, r, t)
        PROVE CountInv'
    <3>1. /\ InStatus("Refunded")' = InStatus("Refunded") \cup {r}
          /\ r \notin InStatus("Refunded")
      BY <2>4 DEF RefundPayment, RecordRefund, InStatus, TypeOK
    <3>2. Accounts' = Accounts /\ InStatus("Confirmed")' = InStatus("Confirmed")
      BY <2>4 DEF RefundPayment, RecordRefund, Accounts, InStatus, TypeOK
    <3>3. Cardinality(InStatus("Refunded")') = Cardinality(InStatus("Refunded")) + 1
      BY <3>1, FiniteAccounts, FS_AddElement
    <3> QED BY <2>4, <3>2, <3>3
            DEF RefundPayment, RecordRefund, NoAccountBeforeTreasury, Initialized
  <2>5. ASSUME UNCHANGED <<authority, created, confirmed, refunded, status>> PROVE CountInv'
    BY <2>5 DEF NoAccountBeforeTreasury, Initialized, Accounts, InStatus
  <2>6. ASSUME NEW r \in Refs, Transfer(r) PROVE CountInv'
    BY <2>5, <2>6 DEF Transfer, treasuryVars, paymentVars
  <2>7. CASE UNCHANGED vars
    BY <2>5, <2>7 DEF vars
  <2> QED BY <2>1, <2>2, <2>3, <2>4, <2>6, <2>7 DEF Next
<1>3. CountInv => CountersReconcile
  OBVIOUS
<1> QED BY <1>1, <1>2, <1>3, Typing, PTL DEF Spec

(***************************************************************************)
(* The program implements PaymentIntent                                    *)
(***************************************************************************)

\* The books of the intent are the counters, because the sets they count make
\* up the accounts.
LEMMA Books ==
  ASSUME TypeOK, CountersReconcile
  PROVE  <<created, confirmed, refunded>> =
           Intent!Counts(InStatus("Pending"), InStatus("Confirmed"), InStatus("Refunded"))
<1>1. Accounts = InStatus("Pending") \cup InStatus("Confirmed") \cup InStatus("Refunded")
  BY DEF TypeOK, Statuses, Accounts, InStatus
<1> QED BY <1>1 DEF CountersReconcile, Intent!Counts

\* The same of the state a step leads to.
LEMMA BooksNext ==
  ASSUME TypeOK', CountersReconcile'
  PROVE  <<created, confirmed, refunded>>' =
           Intent!Counts(InStatus("Pending")', InStatus("Confirmed")', InStatus("Refunded")')
<1>1. Accounts' = InStatus("Pending")' \cup InStatus("Confirmed")' \cup InStatus("Refunded")'
  BY DEF TypeOK, Statuses, Accounts, InStatus
<1> QED BY <1>1 DEF CountersReconcile, Intent!Counts

\* Every instruction opens, settles or returns one intent and keeps the books,
\* or leaves both alone (initialize_treasury, a transfer of tokens).
THEOREM Refinement == Spec => ImplementsIntent
<1>1. Init => Intent!Init
  BY DEF Init, Intent!Init, InStatus
<1>2. /\ TypeOK /\ TypeOK' /\ NoAccountBeforeTreasury
      /\ CountersReconcile /\ CountersReconcile' /\ [Next]_vars
      => [Intent!Next]_(Intent!vars)
  <2> SUFFICES ASSUME TypeOK, TypeOK', NoAccountBeforeTreasury,
                      CountersReconcile, CountersReconcile', [Next]_vars
               PROVE  [Intent!Next]_(Intent!vars)
    OBVIOUS
  <2> DEFINE Same == UNCHANGED <<status, created, confirmed, refunded>>
  <2>1. Same => UNCHANGED Intent!vars
    BY DEF Intent!vars, InStatus
  <2>2. ASSUME NEW k \in Keys, InitializeTreasury(k) PROVE Same
    <3>1. InStatus("Confirmed") = {} /\ InStatus("Refunded") = {} /\ Accounts = {}
      BY <2>2 DEF InitializeTreasury, NoAccountBeforeTreasury, Accounts, InStatus
    <3> QED BY <2>2, <3>1, FS_EmptySet DEF InitializeTreasury, paymentVars, CountersReconcile
  <2>3. ASSUME NEW r \in Refs, NEW a \in Amounts, CreatePayment(r, a) PROVE Intent!Next
    <3>1. Intent!Open(r)
      BY <2>3 DEF CreatePayment, Intent!Open, InStatus, TypeOK
    <3> QED BY <3>1, BooksNext DEF Intent!Next
  <2>4. ASSUME NEW k \in Keys, NEW r \in Refs, NEW t \in Times, ConfirmPayment(k, r, t)
        PROVE Intent!Next
    <3>1. Intent!Settle(r)
      BY <2>4 DEF ConfirmPayment, RecordConfirmation, Intent!Settle, InStatus, TypeOK
    <3> QED BY <3>1, BooksNext DEF Intent!Next
  <2>5. ASSUME NEW k \in Keys, NEW r \in Refs, NEW t \in Times, RefundPayment(k, r, t)
        PROVE Intent!Next
    <3>1. Intent!Return(r)
      BY <2>5 DEF RefundPayment, RecordRefund, Intent!Return, InStatus, TypeOK, Statuses
    <3> QED BY <3>1, BooksNext DEF Intent!Next
  <2>6. ASSUME NEW r \in Refs, Transfer(r) PROVE Same
    BY <2>6 DEF Transfer, treasuryVars, paymentVars
  <2>7. CASE UNCHANGED vars
    BY <2>1, <2>7 DEF vars
  <2> QED BY <2>1, <2>2, <2>3, <2>4, <2>5, <2>6, <2>7 DEF Next
<1> QED BY <1>1, <1>2, Typing, Counting, AccountsNeedTreasury, PTL
        DEF Spec, ImplementsIntent, Intent!Spec

=============================================================================
