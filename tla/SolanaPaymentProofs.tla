------------------------- MODULE SolanaPaymentProofs ------------------------
(***************************************************************************)
(* Theorems about SolanaPayment for every set of payments, signatures and  *)
(* clients, every LIMIT, and with queries that fail and processes that die. *)
(***************************************************************************)
EXTENDS SolanaPayment, TLAPS

(***************************************************************************)
(* The inductive invariant: what a client that waits for a query holds     *)
(***************************************************************************)

Columns ==
  /\ status \in [Payments -> Statuses]
  /\ sig \in [Payments -> Sigs \cup {NoSig}]
  /\ confirmed \subseteq Payments
  /\ refundTx \in [Payments -> RefundSigs \cup {NoSig}]
  /\ overdue \subseteq Payments
  /\ older \in [Payments -> SUBSET Payments]
  /\ announced \subseteq Payments
  /\ landed \in [Sigs -> {"unknown", "ok", "failed"}]
  /\ attached \in [Payments -> SUBSET Sigs]
  /\ overridden \subseteq Payments

Locals ==
  /\ pc \in [Clients -> PCs]
  /\ row \in [Clients -> Payments \cup {NoSig}]
  /\ arg \in [Clients -> Sigs \cup RefundSigs \cup {NoSig}]
  /\ todo \in [Clients -> SUBSET Payments]

\* What the rows say of their past.
History ==
  /\ \A p \in Payments : sig[p] # NoSig => sig[p] \in attached[p]
  /\ \A p \in Payments : status[p] \in {"CONFIRMED", "REFUNDED"} => p \in confirmed
  /\ \A p \in Payments : refundTx[p] # NoSig => p \in confirmed
  /\ \A p \in confirmed \ overridden : \E s \in attached[p] : Received(s, p)

\* What the locals of client c promise at each of its queries.
Holds(c) ==
  /\ pc[c] \in {"attachRead", "attachWrite"} => row[c] \in Payments /\ arg[c] \in Sigs
  /\ pc[c] = "verifyRead" => row[c] \in Payments /\ sig[row[c]] # NoSig
  /\ pc[c] = "fetch" => row[c] \in Payments /\ arg[c] \in Sigs /\ arg[c] \in attached[row[c]]
  /\ pc[c] = "confirmWrite" =>
       row[c] \in Payments /\ \E s \in attached[row[c]] : Received(s, row[c])
  /\ pc[c] = "announce" => row[c] \in confirmed
  /\ pc[c] = "refundWrite" => row[c] \in confirmed /\ arg[c] \in RefundSigs \cup {NoSig}

PaymentInv ==
  /\ Columns
  /\ Locals
  /\ History
  /\ \A c \in Clients : Holds(c)

LEMMA InitInv == Init => PaymentInv
BY SolanaPaymentAssumption
   DEF Init, PaymentInv, Columns, Locals, History, Holds, Statuses, PCs

-----------------------------------------------------------------------------
(* A step of one client: the locals of the others stay *)

\* Nothing a client relies on is ever taken back: a signature stays attached,
\* a row stays confirmed, a transaction that landed stays landed.
Grows ==
  /\ \A p \in Payments : sig[p] # NoSig => sig'[p] # NoSig
  /\ \A p \in Payments : attached[p] \subseteq attached'[p]
  /\ confirmed \subseteq confirmed'
  /\ \A s \in Sigs : landed[s] = "ok" => landed'[s] = "ok"

SameLocals(c) == pc'[c] = pc[c] /\ row'[c] = row[c] /\ arg'[c] = arg[c]

\* What an idle or waiting client relies on survives the steps of the others.
LEMMA OthersHold ==
  ASSUME PaymentInv, Grows, NEW c \in Clients, SameLocals(c)
  PROVE  Holds(c)'
<1> USE DEF PaymentInv, SameLocals
<1>1. /\ Holds(c)
      /\ Columns
  OBVIOUS
<1>2. ASSUME pc[c] = "confirmWrite"
      PROVE  row[c] \in Payments /\ \E s \in attached'[row[c]] : Received(s, row[c])'
  <2>1. PICK s \in attached[row[c]] : Received(s, row[c])
    BY <1>1, <1>2 DEF Holds
  <2>2. s \in attached'[row[c]] /\ row[c] \in Payments
    BY <1>1, <1>2 DEF Holds, Grows
  <2>3. Received(s, row[c])'
    BY <2>1 DEF Received, Grows
  <2> QED BY <2>2, <2>3
<1>3. ASSUME pc[c] = "fetch" PROVE row[c] \in Payments /\ arg[c] \in Sigs /\ arg[c] \in attached'[row[c]]
  BY <1>1, <1>3 DEF Holds, Grows
<1>4. ASSUME pc[c] = "verifyRead" PROVE row[c] \in Payments /\ sig'[row[c]] # NoSig
  BY <1>1, <1>4 DEF Holds, Grows
<1>5. ASSUME pc[c] \in {"announce", "refundWrite"} PROVE row[c] \in confirmed'
  BY <1>1, <1>5 DEF Holds, Grows
<1> QED BY <1>1, <1>2, <1>3, <1>4, <1>5 DEF Holds

\* To preserve the invariant, a step of c need only look after the rows and c.
LEMMA ActorOnly ==
  ASSUME PaymentInv, Columns', Locals', History', Grows,
         NEW c \in Clients, Holds(c)',
         \A d \in Clients \ {c} : SameLocals(d)
  PROVE  PaymentInv'
<1>1. ASSUME NEW d \in Clients PROVE Holds(d)'
  <2>1. CASE d = c
    BY <2>1
  <2>2. CASE d # c
    BY <2>2, OthersHold
  <2> QED BY <2>1, <2>2
<1> QED BY <1>1 DEF PaymentInv

\* Locals of the actor after Step and Begin.
LEMMA StepLocals ==
  ASSUME Locals, NEW c \in Clients, NEW from \in PCs, NEW to \in PCs, Step(c, from, to),
         todo' \in [Clients -> SUBSET Payments]
  PROVE  /\ Locals'
         /\ \A d \in Clients \ {c} : SameLocals(d)
         /\ pc'[c] = to
         /\ to \notin {"idle", "confirmNext"} => row'[c] = row[c]
         /\ to \in {"attachWrite", "refundWrite"} => arg'[c] = arg[c]
BY DEF Locals, Step, SameLocals

LEMMA BeginLocals ==
  ASSUME Locals, NEW c \in Clients, NEW p \in Payments,
         NEW s \in Sigs \cup RefundSigs \cup {NoSig}, NEW to \in PCs, Begin(c, p, s, to)
  PROVE  /\ Locals'
         /\ \A d \in Clients \ {c} : SameLocals(d)
         /\ pc'[c] = to
         /\ row'[c] = p
         /\ arg'[c] = s
BY DEF Locals, Begin, SameLocals

\* A step that leaves the rows, the chain and the histories alone.
Quiet == UNCHANGED <<rowVars, landed, attached, overridden>> /\ announced' \subseteq Payments

LEMMA QuietRows ==
  ASSUME PaymentInv, Quiet
  PROVE  Columns' /\ History' /\ Grows
<1> USE DEF Quiet, rowVars
<1>1. Columns'
  BY DEF PaymentInv, Columns
<1>2. History'
  BY DEF PaymentInv, History, Received
<1>3. Grows
  BY DEF Grows
<1> QED BY <1>1, <1>2, <1>3

-----------------------------------------------------------------------------
(* attachSignature *)

LEMMA AttachInv ==
  ASSUME PaymentInv, NEW c \in Clients, Attach(c)
  PROVE  PaymentInv'
<1> USE DEF PaymentInv
<1>1. ASSUME NEW p \in Payments, NEW s \in Sigs, AttachLookup(c, p, s) PROVE PaymentInv'
  <2>1. Columns' /\ History' /\ Grows
    BY <1>1, QuietRows DEF AttachLookup, Quiet, historyVars, Columns
  <2>2. Begin(c, p, s, "attachRead")
    BY <1>1 DEF AttachLookup
  <2>3. /\ Locals'
        /\ \A d \in Clients \ {c} : SameLocals(d)
        /\ pc'[c] = "attachRead" /\ row'[c] = p /\ arg'[c] = s
    BY <2>2, BeginLocals DEF PCs
  <2>4. Holds(c)'
    BY <2>3 DEF Holds
  <2> QED BY <2>1, <2>3, <2>4, ActorOnly
<1>2. ASSUME AttachRead(c) PROVE PaymentInv'
  <2>1. Columns' /\ History' /\ Grows
    BY <1>2, QuietRows DEF AttachRead, Quiet, historyVars, Columns
  <2>2. PICK to \in {"attachWrite", "idle"} : Step(c, "attachRead", to)
    BY <1>2 DEF AttachRead
  <2>3. /\ Locals'
        /\ \A d \in Clients \ {c} : SameLocals(d)
        /\ pc'[c] = to
        /\ to = "attachWrite" => row'[c] = row[c] /\ arg'[c] = arg[c]
    BY <1>2, <2>2, StepLocals DEF AttachRead, PCs, Locals
  <2>4. pc[c] = "attachRead"
    BY <2>2 DEF Step
  <2>5. Holds(c)'
    BY <2>3, <2>4 DEF Holds
  <2> QED BY <2>1, <2>3, <2>5, ActorOnly
<1>3. ASSUME AttachWrite(c) PROVE PaymentInv'
  <2>1. pc[c] = "attachWrite" /\ row[c] \in Payments /\ arg[c] \in Sigs
    BY <1>3 DEF AttachWrite, Step, Holds
  <2> DEFINE p == row[c]
             s == arg[c]
  <2>2. /\ status' = [status EXCEPT ![p] = "SUBMITTED"]
        /\ sig' = [sig EXCEPT ![p] = s]
        /\ attached' = [attached EXCEPT ![p] = @ \cup {s}]
        /\ UNCHANGED <<confirmed, refundTx, overdue, announced, landed, todo, overridden>>
    BY <1>3 DEF AttachWrite
  <2>3. older' \in [Payments -> SUBSET Payments]
    BY <1>3, <2>1 DEF AttachWrite, Columns
  <2>4. Columns'
    BY <2>1, <2>2, <2>3 DEF Columns, Statuses
  <2>5. Grows
    BY <2>1, <2>2, SolanaPaymentAssumption DEF Grows, Columns
  <2>6. \A q \in confirmed' \ overridden' : \E r \in attached'[q] : Received(r, q)'
    BY <2>2, <2>5 DEF History, Columns, Grows, Received
  <2>7. History'
    BY <2>1, <2>2, <2>6 DEF History, Columns
  <2>8. /\ Locals'
        /\ \A d \in Clients \ {c} : SameLocals(d)
        /\ pc'[c] = "idle"
    BY <1>3, <2>2, StepLocals DEF AttachWrite, PCs, Locals
  <2>9. Holds(c)'
    BY <2>8 DEF Holds
  <2> QED BY <2>4, <2>5, <2>7, <2>8, <2>9, ActorOnly
<1> QED BY <1>1, <1>2, <1>3 DEF Attach

-----------------------------------------------------------------------------
(* confirmPayment *)

\* The row a write of CONFIRMED leaves: used by both ways to confirm.
LEMMA WriteConfirmedRows ==
  ASSUME PaymentInv, NEW p \in Payments, WriteConfirmed(p),
         UNCHANGED <<announced, landed, attached>>,
         overridden' = overridden \/ overridden' = overridden \cup {p},
         p \in overridden' \/ \E s \in attached[p] : Received(s, p)
  PROVE  Columns' /\ History' /\ Grows /\ p \in confirmed'
<1> USE DEF PaymentInv, WriteConfirmed
<1>1. Columns'
  BY DEF Columns, Statuses
<1>2. Grows
  BY DEF Grows
<1>3. \A q \in confirmed' \ overridden' : \E s \in attached'[q] : Received(s, q)'
  BY DEF History, Received
<1>4. History'
  BY <1>3 DEF History, Columns
<1> QED BY <1>1, <1>2, <1>4

LEMMA ConfirmInv ==
  ASSUME PaymentInv, NEW c \in Clients, Confirm(c)
  PROVE  PaymentInv'
<1> USE DEF PaymentInv
<1>1. ASSUME NEW p \in Payments, ConfirmRead(c, p) PROVE PaymentInv'
  <2>1. Columns' /\ History' /\ Grows
    BY <1>1, QuietRows DEF ConfirmRead, Quiet, historyVars, Columns
  <2>2. Begin(c, p, NoSig, "verifyRead") /\ sig[p] # NoSig
    BY <1>1 DEF ConfirmRead, OpenToConfirmation
  <2>3. /\ Locals'
        /\ \A d \in Clients \ {c} : SameLocals(d)
        /\ pc'[c] = "verifyRead" /\ row'[c] = p
    BY <2>2, BeginLocals DEF PCs
  <2>4. Holds(c)'
    BY <2>1, <2>2, <2>3 DEF Holds, Grows
  <2> QED BY <2>1, <2>3, <2>4, ActorOnly
<1>2. ASSUME VerifyRead(c) PROVE PaymentInv'
  <2>1. Columns' /\ History' /\ Grows
    BY <1>2, QuietRows DEF VerifyRead, Quiet, historyVars, Columns
  <2>2. row[c] \in Payments /\ sig[row[c]] # NoSig
    BY <1>2 DEF VerifyRead, Holds
  <2>3. sig[row[c]] \in Sigs /\ sig[row[c]] \in attached[row[c]]
    BY <2>2 DEF Columns, History
  <2>4. /\ Locals'
        /\ \A d \in Clients \ {c} : SameLocals(d)
        /\ pc'[c] = "fetch" /\ row'[c] = row[c] /\ arg'[c] = sig[row[c]]
    BY <1>2, <2>3 DEF VerifyRead, Locals, SameLocals, PCs
  <2>5. Holds(c)'
    BY <1>2, <2>2, <2>3, <2>4 DEF Holds, VerifyRead, historyVars
  <2> QED BY <2>1, <2>4, <2>5, ActorOnly
<1>3. ASSUME VerifyPass(c) PROVE PaymentInv'
  <2>1. Columns' /\ History' /\ Grows
    BY <1>3, QuietRows DEF VerifyPass, Quiet, historyVars, Columns
  <2>2. /\ row[c] \in Payments /\ arg[c] \in attached[row[c]]
        /\ Received(arg[c], row[c])
    BY <1>3 DEF VerifyPass, Step, Holds, Verified, Received
  <2>3. /\ Locals'
        /\ \A d \in Clients \ {c} : SameLocals(d)
        /\ pc'[c] = "confirmWrite" /\ row'[c] = row[c]
    BY <1>3, StepLocals DEF VerifyPass, PCs, Locals
  <2>4. UNCHANGED <<landed, attached>>
    BY <1>3 DEF VerifyPass, historyVars
  <2>5. Holds(c)'
    BY <2>2, <2>3, <2>4 DEF Holds, Received
  <2> QED BY <2>1, <2>3, <2>5, ActorOnly
<1>4. ASSUME VerifyReject(c) PROVE PaymentInv'
  <2>1. Columns' /\ History' /\ Grows
    BY <1>4, QuietRows DEF VerifyReject, Quiet, historyVars, Columns
  <2>2. PICK to \in {"idle", "confirmNext"} : Step(c, "fetch", to)
    BY <1>4 DEF VerifyReject, AfterRow
  <2>3. /\ Locals'
        /\ \A d \in Clients \ {c} : SameLocals(d)
        /\ pc'[c] = to
    BY <1>4, <2>2, StepLocals DEF VerifyReject, PCs, Locals
  <2>4. Holds(c)'
    BY <2>3 DEF Holds
  <2> QED BY <2>1, <2>3, <2>4, ActorOnly
<1>5. ASSUME ConfirmWrite(c) PROVE PaymentInv'
  <2>1. row[c] \in Payments /\ \E s \in attached[row[c]] : Received(s, row[c])
    BY <1>5 DEF ConfirmWrite, Step, Holds
  <2>2. WriteConfirmed(row[c]) /\ UNCHANGED <<announced, landed, todo, attached, overridden>>
    BY <1>5 DEF ConfirmWrite, historyVars
  <2>3. Columns' /\ History' /\ Grows /\ row[c] \in confirmed'
    BY <2>1, <2>2, WriteConfirmedRows
  <2>4. /\ Locals'
        /\ \A d \in Clients \ {c} : SameLocals(d)
        /\ pc'[c] = "announce" /\ row'[c] = row[c]
    BY <1>5, <2>2, StepLocals DEF ConfirmWrite, PCs, Locals
  <2>5. Holds(c)'
    BY <2>3, <2>4 DEF Holds
  <2> QED BY <2>3, <2>4, <2>5, ActorOnly
<1>6. ASSUME Announce(c) PROVE PaymentInv'
  <2>1. row[c] \in Payments
    BY <1>6 DEF Announce, Step, Holds, Columns
  <2>2. Columns' /\ History' /\ Grows
    BY <1>6, <2>1, QuietRows DEF Announce, Quiet, historyVars, Columns
  <2>3. PICK to \in {"idle", "confirmNext"} : Step(c, "announce", to)
    BY <1>6 DEF Announce, AfterRow
  <2>4. /\ Locals'
        /\ \A d \in Clients \ {c} : SameLocals(d)
        /\ pc'[c] = to
    BY <1>6, <2>3, StepLocals DEF Announce, PCs, Locals
  <2>5. Holds(c)'
    BY <2>4 DEF Holds
  <2> QED BY <2>2, <2>4, <2>5, ActorOnly
<1> QED BY <1>1, <1>2, <1>3, <1>4, <1>5, <1>6 DEF Confirm

LEMMA OverrideInv ==
  ASSUME PaymentInv, NEW c \in Clients, NEW p \in Payments,
         MarkConfirmed(c, p) \/ MarkFailed(c, p)
  PROVE  PaymentInv'
<1> USE DEF PaymentInv
<1>1. CASE MarkConfirmed(c, p)
  <2>1. /\ WriteConfirmed(p)
        /\ overridden' = overridden \cup {p}
        /\ UNCHANGED <<announced, landed, attached>>
        /\ Begin(c, p, NoSig, "announce")
    BY <1>1 DEF MarkConfirmed
  <2>2. Columns' /\ History' /\ Grows /\ p \in confirmed'
    BY <2>1, WriteConfirmedRows
  <2>3. /\ Locals'
        /\ \A d \in Clients \ {c} : SameLocals(d)
        /\ pc'[c] = "announce" /\ row'[c] = p
    BY <2>1, BeginLocals DEF PCs
  <2>4. Holds(c)'
    BY <2>2, <2>3 DEF Holds
  <2> QED BY <2>2, <2>3, <2>4, ActorOnly
<1>2. CASE MarkFailed(c, p)
  <2> USE <1>2 DEF MarkFailed, clientVars, historyVars
  <2>1. Columns' /\ Locals' /\ Grows
    BY DEF Columns, Locals, Statuses, Grows
  <2>2. History'
    BY DEF History, Columns, Received
  <2>3. \A d \in Clients : SameLocals(d)
    BY DEF SameLocals
  <2> QED BY <2>1, <2>2, <2>3, OthersHold
<1> QED BY <1>1, <1>2

-----------------------------------------------------------------------------
(* refundPayment *)

LEMMA RefundInv ==
  ASSUME PaymentInv, NEW c \in Clients, Refund(c)
  PROVE  PaymentInv'
<1> USE DEF PaymentInv
<1>1. ASSUME NEW p \in Payments, NEW t \in RefundSigs \cup {NoSig}, RefundRead(c, p, t)
      PROVE PaymentInv'
  <2>1. Columns' /\ History' /\ Grows
    BY <1>1, QuietRows DEF RefundRead, Quiet, historyVars, Columns
  <2>2. Begin(c, p, t, "refundWrite") /\ p \in confirmed
    BY <1>1 DEF RefundRead, History
  <2>3. /\ Locals'
        /\ \A d \in Clients \ {c} : SameLocals(d)
        /\ pc'[c] = "refundWrite" /\ row'[c] = p /\ arg'[c] = t
    BY <2>2, BeginLocals DEF PCs
  <2>4. Holds(c)'
    BY <2>1, <2>2, <2>3 DEF Holds, Grows
  <2> QED BY <2>1, <2>3, <2>4, ActorOnly
<1>2. ASSUME RefundWrite(c) PROVE PaymentInv'
  <2>1. row[c] \in confirmed /\ arg[c] \in RefundSigs \cup {NoSig}
    BY <1>2 DEF RefundWrite, Step, Holds
  <2>2. /\ status' = [status EXCEPT ![row[c]] = "REFUNDED"]
        /\ refundTx' = [refundTx EXCEPT ![row[c]] = arg[c]]
        /\ UNCHANGED <<sig, confirmed, overdue, older, announced, landed, todo, attached,
                       overridden>>
    BY <1>2 DEF RefundWrite, historyVars
  <2>3. Columns' /\ Grows
    BY <2>1, <2>2 DEF Columns, Statuses, Grows
  <2>4. History'
    BY <2>1, <2>2 DEF History, Columns, Received
  <2>5. /\ Locals'
        /\ \A d \in Clients \ {c} : SameLocals(d)
        /\ pc'[c] = "idle"
    BY <1>2, <2>2, StepLocals DEF RefundWrite, PCs, Locals
  <2>6. Holds(c)'
    BY <2>5 DEF Holds
  <2> QED BY <2>3, <2>4, <2>5, <2>6, ActorOnly
<1> QED BY <1>1, <1>2 DEF Refund

-----------------------------------------------------------------------------
(* The sweeps, the failures and the outside *)

LEMMA SweepInv ==
  ASSUME PaymentInv, NEW c \in Clients, Sweep(c)
  PROVE  PaymentInv'
<1> USE DEF PaymentInv
<1>1. ASSUME SweepExpired(c) \/ SweepPending(c) PROVE PaymentInv'
  <2>1. Columns' /\ History' /\ Grows
    BY <1>1, QuietRows DEF SweepExpired, SweepPending, Quiet, historyVars, Columns
  <2>2. todo' \in [Clients -> SUBSET Payments]
    BY <1>1 DEF SweepExpired, SweepPending, Due, PendingBatch, Pending, Locals
  <2>3. PICK to \in {"expireWrite", "confirmNext"} : Step(c, "idle", to)
    BY <1>1 DEF SweepExpired, SweepPending
  <2>4. /\ Locals'
        /\ \A d \in Clients \ {c} : SameLocals(d)
        /\ pc'[c] = to
    BY <2>2, <2>3, StepLocals DEF PCs
  <2>5. Holds(c)'
    BY <2>4 DEF Holds
  <2> QED BY <2>1, <2>4, <2>5, ActorOnly
<1>2. ASSUME NEW p \in Payments, ExpireWrite(c, p) PROVE PaymentInv'
  <2>1. /\ status' = [status EXCEPT ![p] = "EXPIRED"]
        /\ todo' = [todo EXCEPT ![c] = @ \ {p}]
        /\ UNCHANGED <<sig, confirmed, refundTx, overdue, older, announced, landed, attached,
                       overridden>>
    BY <1>2 DEF ExpireWrite, historyVars
  <2>2. Columns' /\ Grows
    BY <2>1 DEF Columns, Statuses, Grows
  <2>3. History'
    BY <2>1 DEF History, Columns, Received
  <2>4. PICK to \in {"idle", "expireWrite"} : Step(c, "expireWrite", to)
    BY <1>2 DEF ExpireWrite
  <2>5. /\ Locals'
        /\ \A d \in Clients \ {c} : SameLocals(d)
        /\ pc'[c] = to
    BY <2>1, <2>4, StepLocals DEF PCs, Locals
  <2>6. Holds(c)'
    BY <2>5 DEF Holds
  <2> QED BY <2>2, <2>3, <2>5, <2>6, ActorOnly
<1>3. ASSUME NEW p \in Payments, ConfirmNext(c, p) PROVE PaymentInv'
  <2>1. Columns' /\ History' /\ Grows
    BY <1>3, QuietRows DEF ConfirmNext, Quiet, historyVars, Columns
  <2>2. todo' \in [Clients -> SUBSET Payments] /\ arg' = arg
    BY <1>3 DEF ConfirmNext, Locals
  <2>3. CASE OpenToConfirmation(p)
    <3>1. /\ pc' = [pc EXCEPT ![c] = "verifyRead"]
          /\ row' = [row EXCEPT ![c] = p]
          /\ sig[p] # NoSig
      BY <1>3, <2>3 DEF ConfirmNext, OpenToConfirmation
    <3>2. /\ Locals'
          /\ \A d \in Clients \ {c} : SameLocals(d)
          /\ pc'[c] = "verifyRead" /\ row'[c] = p
      BY <2>2, <3>1 DEF Locals, PCs, SameLocals
    <3>3. Holds(c)'
      BY <2>1, <3>1, <3>2 DEF Holds, Grows
    <3> QED BY <2>1, <3>2, <3>3, ActorOnly
  <2>4. CASE ~OpenToConfirmation(p)
    <3>1. PICK to \in {"idle", "confirmNext"} : pc' = [pc EXCEPT ![c] = to] /\ row' = row
      BY <1>3, <2>4 DEF ConfirmNext
    <3>2. /\ Locals'
          /\ \A d \in Clients \ {c} : SameLocals(d)
          /\ pc'[c] = to
      BY <2>2, <3>1 DEF Locals, PCs, SameLocals
    <3>3. Holds(c)'
      BY <3>2 DEF Holds
    <3> QED BY <2>1, <3>2, <3>3, ActorOnly
  <2> QED BY <2>3, <2>4
<1> QED BY <1>1, <1>2, <1>3 DEF Sweep

LEMMA FailureInv ==
  ASSUME PaymentInv, NEW c \in Clients, Abort(c) \/ SkipRow(c)
  PROVE  PaymentInv'
<1> USE DEF PaymentInv
<1>1. Columns' /\ History' /\ Grows
  BY QuietRows DEF Abort, SkipRow, Quiet, historyVars, Columns
<1>2. todo' \in [Clients -> SUBSET Payments]
  BY DEF Abort, SkipRow, Locals
<1>3. PICK to \in {"idle", "confirmNext"} : Step(c, pc[c], to)
  BY DEF Abort, SkipRow
<1>4. pc[c] \in PCs
  BY DEF Locals
<1>5. /\ Locals'
      /\ \A d \in Clients \ {c} : SameLocals(d)
      /\ pc'[c] = to
  BY <1>2, <1>3, <1>4, StepLocals DEF PCs
<1>6. Holds(c)'
  BY <1>5 DEF Holds
<1> QED BY <1>1, <1>5, <1>6, ActorOnly

\* Steps in which no client moves: a new row, a deadline, the chain.
LEMMA OutsideInv ==
  ASSUME PaymentInv,
         \/ \E p \in Payments : Create(p) \/ PassDeadline(p)
         \/ \E s \in Sigs, o \in {"ok", "failed"} : Land(s, o)
         \/ UNCHANGED vars
  PROVE  PaymentInv'
<1> USE DEF PaymentInv
<1> SUFFICES Columns' /\ Locals' /\ History' /\ Grows /\ \A d \in Clients : SameLocals(d)
  BY OthersHold
<1>1. ASSUME NEW p \in Payments, Create(p)
      PROVE  Columns' /\ Locals' /\ History' /\ Grows /\ \A d \in Clients : SameLocals(d)
  <2> USE <1>1 DEF Create, clientVars, historyVars
  <2>1. Columns' /\ Locals' /\ Grows /\ \A d \in Clients : SameLocals(d)
    BY DEF Columns, Locals, Statuses, Grows, SameLocals
  <2>2. History'
    BY DEF History, Columns, Received
  <2> QED BY <2>1, <2>2
<1>2. ASSUME NEW p \in Payments, PassDeadline(p)
      PROVE  Columns' /\ Locals' /\ History' /\ Grows /\ \A d \in Clients : SameLocals(d)
  <2> USE <1>2 DEF PassDeadline, clientVars, historyVars
  <2>1. Columns' /\ Locals' /\ Grows /\ \A d \in Clients : SameLocals(d)
    BY DEF Columns, Locals, Grows, SameLocals
  <2>2. History'
    BY DEF History, Columns, Received
  <2> QED BY <2>1, <2>2
<1>3. ASSUME NEW s \in Sigs, NEW o \in {"ok", "failed"}, Land(s, o)
      PROVE  Columns' /\ Locals' /\ History' /\ Grows /\ \A d \in Clients : SameLocals(d)
  <2> USE <1>3 DEF Land, rowVars, clientVars, historyVars
  <2>1. Columns' /\ Locals' /\ Grows /\ \A d \in Clients : SameLocals(d)
    BY DEF Columns, Locals, Grows, SameLocals
  <2>2. \A q \in confirmed' \ overridden' : \E r \in attached'[q] : Received(r, q)'
    BY <2>1 DEF History, Columns, Grows, Received
  <2>3. History'
    BY <2>2 DEF History
  <2> QED BY <2>1, <2>3
<1>4. ASSUME UNCHANGED vars
      PROVE  Columns' /\ Locals' /\ History' /\ Grows /\ \A d \in Clients : SameLocals(d)
  BY <1>4 DEF vars, Columns, Locals, History, Grows, SameLocals, Received
<1> QED BY <1>1, <1>2, <1>3, <1>4

(***************************************************************************)
(* The theorems                                                            *)
(***************************************************************************)

LEMMA NextInv == PaymentInv /\ [Next]_vars => PaymentInv'
<1> SUFFICES ASSUME PaymentInv, [Next]_vars PROVE PaymentInv'
  OBVIOUS
<1>1. ASSUME NEW c \in Clients, Attach(c) \/ Confirm(c) \/ Refund(c) \/ Sweep(c)
      PROVE PaymentInv'
  BY <1>1, AttachInv, ConfirmInv, RefundInv, SweepInv
<1>2. ASSUME NEW c \in Clients, Abort(c) \/ SkipRow(c) PROVE PaymentInv'
  BY <1>2, FailureInv
<1>3. ASSUME NEW c \in Clients, NEW p \in Payments, MarkConfirmed(c, p) \/ MarkFailed(c, p)
      PROVE PaymentInv'
  BY <1>3, OverrideInv
<1> QED BY <1>1, <1>2, <1>3, OutsideInv DEF Next

THEOREM Invariance == Spec => []PaymentInv
BY InitInv, NextInv, PTL DEF Spec

\* The columns stay in their domains, and a transaction is only asked for with a
\* signature in hand: none is ever removed from a row.
THEOREM Typing == Spec => []TypeOK
<1>1. PaymentInv => TypeOK
  BY DEF PaymentInv, TypeOK, Columns, Locals, Holds
<1> QED BY <1>1, Invariance, PTL

\* However attach, confirm, refund and the sweeps overlap and fail, a payment
\* that confirmPayment confirmed reached its recipient by a signature attached to it.
THEOREM ChainBacked == Spec => []ConfirmedByChain
<1>1. PaymentInv => ConfirmedByChain
  BY DEF PaymentInv, History, ConfirmedByChain
<1> QED BY <1>1, Invariance, PTL

\* No refund of a payment that was never confirmed.
THEOREM RefundBacked == Spec => []RefundedWasConfirmed
<1>1. PaymentInv => RefundedWasConfirmed
  BY DEF PaymentInv, History, RefundedWasConfirmed
<1> QED BY <1>1, Invariance, PTL

-----------------------------------------------------------------------------
(* Requests that do not overlap *)

OneAtATime == \A c, d \in Clients : c = d

\* What one client at a time knows of the row it works on: the signature it is
\* about to attach is on no other row, the one it verifies is the row's.
KnowsRow(c) ==
  /\ pc[c] \in {"attachRead", "attachWrite"} =>
       \A q \in Payments : sig[q] = arg[c] => q = row[c]
  /\ pc[c] = "fetch" => arg[c] = sig[row[c]]
  /\ pc[c] = "confirmWrite" => Received(sig[row[c]], row[c])

SerialInv ==
  /\ PaymentInv
  /\ SignatureUnique
  /\ ShownIsReceived
  /\ \A c \in Clients : KnowsRow(c)

\* Until the client attaches, signatures stay where they are: a row becomes
\* CONFIRMED by hand or because its own signature gave the amount.
LEMMA RowsKept ==
  ASSUME SerialInv, PaymentInv', UNCHANGED sig,
         \A s \in Sigs : landed[s] = "ok" => landed'[s] = "ok",
         overridden \subseteq overridden',
         \A p \in Payments \ overridden' :
           status'[p] = "CONFIRMED" => status[p] = "CONFIRMED" \/ Received(sig[p], p),
         \A c \in Clients : KnowsRow(c)'
  PROVE  SerialInv'
<1>1. SignatureUnique'
  BY DEF SerialInv, SignatureUnique
<1>2. ShownIsReceived'
  BY DEF SerialInv, ShownIsReceived, Received
<1> QED BY <1>1, <1>2 DEF SerialInv

LEMMA SerialAttach ==
  ASSUME OneAtATime, SerialInv, PaymentInv', NEW c \in Clients, Attach(c)
  PROVE  SerialInv'
<1> USE DEF OneAtATime
<1>1. ASSUME NEW p \in Payments, NEW s \in Sigs, AttachLookup(c, p, s) PROVE SerialInv'
  <2>1. pc'[c] = "attachRead" /\ row'[c] = p /\ arg'[c] = s
    BY <1>1 DEF AttachLookup, Begin, SerialInv, PaymentInv, Locals
  <2>2. UNCHANGED <<rowVars, landed, historyVars>>
    BY <1>1 DEF AttachLookup
  <2>3. \A q \in Payments : sig[q] = s => q = p
    <3>1. CASE \A q \in Payments : sig[q] # s
      BY <3>1
    <3>2. CASE sig[p] = s
      BY <3>2, SolanaPaymentAssumption DEF SerialInv, SignatureUnique
    <3> QED BY <1>1, <3>1, <3>2 DEF AttachLookup
  <2>4. KnowsRow(c)'
    BY <2>1, <2>2, <2>3 DEF KnowsRow, rowVars
  <2> QED BY <2>2, <2>4, RowsKept DEF rowVars, historyVars
<1>2. ASSUME AttachRead(c) PROVE SerialInv'
  <2>1. UNCHANGED <<rowVars, landed, historyVars>>
    BY <1>2 DEF AttachRead
  <2>2. PICK to \in {"attachWrite", "idle"} : Step(c, "attachRead", to)
    BY <1>2 DEF AttachRead
  <2>3. /\ pc[c] = "attachRead" /\ pc'[c] = to
        /\ to = "attachWrite" => row'[c] = row[c] /\ arg'[c] = arg[c]
    BY <2>2 DEF Step, SerialInv, PaymentInv, Locals
  <2>4. KnowsRow(c)'
    BY <2>1, <2>3 DEF KnowsRow, rowVars, SerialInv
  <2> QED BY <2>1, <2>4, RowsKept DEF rowVars, historyVars
<1>3. ASSUME AttachWrite(c) PROVE SerialInv'
  <2> DEFINE p == row[c]
             s == arg[c]
  <2>1. /\ pc[c] = "attachWrite" /\ p \in Payments /\ s \in Sigs
        /\ \A q \in Payments : sig[q] = s => q = p
    BY <1>3 DEF AttachWrite, Step, SerialInv, PaymentInv, Holds, KnowsRow
  <2>2. /\ \A q \in Payments : sig'[q] = IF q = p THEN s ELSE sig[q]
        /\ \A q \in Payments : status'[q] = IF q = p THEN "SUBMITTED" ELSE status[q]
        /\ UNCHANGED <<landed, overridden>>
    BY <1>3 DEF AttachWrite, SerialInv, PaymentInv, Columns
  <2>3. SignatureUnique'
    BY <2>1, <2>2 DEF SerialInv, SignatureUnique
  <2>4. ShownIsReceived'
    BY <2>2 DEF SerialInv, ShownIsReceived, Received
  <2>5. pc'[c] = "idle"
    BY <1>3 DEF AttachWrite, Step, SerialInv, PaymentInv, Locals
  <2>6. KnowsRow(c)'
    BY <2>5 DEF KnowsRow
  <2> QED BY <2>3, <2>4, <2>6 DEF SerialInv
<1> QED BY <1>1, <1>2, <1>3 DEF Attach

LEMMA SerialConfirm ==
  ASSUME OneAtATime, SerialInv, PaymentInv', NEW c \in Clients, Confirm(c)
  PROVE  SerialInv'
<1> USE DEF OneAtATime
<1>1. ASSUME ConfirmWrite(c) PROVE SerialInv'
  <2>1. row[c] \in Payments /\ Received(sig[row[c]], row[c])
    BY <1>1 DEF ConfirmWrite, Step, SerialInv, PaymentInv, Holds, KnowsRow
  <2>2. /\ status' = [status EXCEPT ![row[c]] = "CONFIRMED"]
        /\ UNCHANGED <<sig, landed, overridden>>
    BY <1>1 DEF ConfirmWrite, WriteConfirmed, historyVars
  <2>3. pc'[c] = "announce"
    BY <1>1 DEF ConfirmWrite, Step, SerialInv, PaymentInv, Locals
  <2>4. KnowsRow(c)'
    BY <2>3 DEF KnowsRow
  <2>5. \A p \in Payments \ overridden' :
          status'[p] = "CONFIRMED" => status[p] = "CONFIRMED" \/ Received(sig[p], p)
    BY <2>1, <2>2 DEF SerialInv, PaymentInv, Columns
  <2> QED BY <2>2, <2>4, <2>5, RowsKept
<1>2. ASSUME ~ConfirmWrite(c) PROVE SerialInv'
  <2>1. UNCHANGED <<rowVars, landed, historyVars>>
    BY <1>2 DEF Confirm, ConfirmRead, VerifyRead, VerifyPass, VerifyReject, Announce
  <2>2. ASSUME VerifyRead(c) PROVE KnowsRow(c)'
    BY <2>1, <2>2 DEF VerifyRead, KnowsRow, rowVars, SerialInv, PaymentInv, Locals
  <2>3. ASSUME VerifyPass(c) PROVE KnowsRow(c)'
    <3>1. /\ Verified(arg[c], row[c]) /\ arg[c] \in Sigs /\ arg[c] = sig[row[c]]
      BY <2>3 DEF VerifyPass, Step, SerialInv, PaymentInv, Holds, KnowsRow
    <3>2. pc'[c] = "confirmWrite" /\ row'[c] = row[c]
      BY <2>3 DEF VerifyPass, Step, SerialInv, PaymentInv, Locals
    <3> QED BY <2>1, <3>1, <3>2 DEF KnowsRow, Received, Verified, rowVars
  <2>4. ASSUME \/ \E p \in Payments : ConfirmRead(c, p)
               \/ VerifyReject(c)
               \/ Announce(c)
        PROVE KnowsRow(c)'
    <3>1. pc'[c] \in {"verifyRead", "idle", "confirmNext"}
      BY <2>4 DEF ConfirmRead, VerifyReject, Announce, Begin, Step, AfterRow, SerialInv,
         PaymentInv, Locals
    <3> QED BY <3>1 DEF KnowsRow
  <2>5. KnowsRow(c)'
    BY <1>2, <2>2, <2>3, <2>4 DEF Confirm
  <2> QED BY <2>1, <2>5, RowsKept DEF rowVars, historyVars
<1> QED BY <1>1, <1>2

\* The other steps of the client leave every signature and end at a query that
\* relies on none.
LEMMA SerialElsewhere ==
  ASSUME OneAtATime, SerialInv, PaymentInv', NEW c \in Clients,
         Refund(c) \/ Sweep(c) \/ Abort(c) \/ SkipRow(c)
  PROVE  SerialInv'
<1>1. UNCHANGED <<sig, landed, overridden>>
  BY DEF Refund, RefundRead, RefundWrite, Sweep, SweepExpired, ExpireWrite, SweepPending,
     ConfirmNext, Abort, SkipRow, rowVars, historyVars
<1>2. pc'[c] \in {"idle", "verifyRead", "refundWrite", "expireWrite", "confirmNext"}
  BY DEF Refund, RefundRead, RefundWrite, Sweep, SweepExpired, ExpireWrite, SweepPending,
     ConfirmNext, Abort, SkipRow, Begin, Step, SerialInv, PaymentInv, Locals
<1>3. \A d \in Clients : KnowsRow(d)'
  BY <1>2 DEF KnowsRow, OneAtATime
<1>4. \A p \in Payments : status'[p] = "CONFIRMED" => status[p] = "CONFIRMED"
  <2>1. CASE RefundWrite(c)
    BY <2>1 DEF RefundWrite, SerialInv, PaymentInv, Columns
  <2>2. CASE \E p \in Payments : ExpireWrite(c, p)
    BY <2>2 DEF ExpireWrite, SerialInv, PaymentInv, Columns
  <2>3. CASE ~RefundWrite(c) /\ ~\E p \in Payments : ExpireWrite(c, p)
    BY <2>3 DEF Refund, RefundRead, Sweep, SweepExpired, SweepPending, ConfirmNext, Abort,
       SkipRow, rowVars
  <2> QED BY <2>1, <2>2, <2>3
<1> QED BY <1>1, <1>3, <1>4, RowsKept

\* Steps in which the client stays where it is, and the override.
LEMMA SerialOutside ==
  ASSUME OneAtATime, SerialInv, PaymentInv',
         \/ \E p \in Payments : Create(p) \/ PassDeadline(p)
         \/ \E c \in Clients, p \in Payments : MarkConfirmed(c, p) \/ MarkFailed(c, p)
         \/ \E s \in Sigs, o \in {"ok", "failed"} : Land(s, o)
         \/ UNCHANGED vars
  PROVE  SerialInv'
<1>1. UNCHANGED sig
  BY DEF Create, PassDeadline, MarkConfirmed, MarkFailed, WriteConfirmed, Land, vars, rowVars
<1>2. \A s \in Sigs : landed[s] = "ok" => landed'[s] = "ok"
  BY DEF Create, PassDeadline, MarkConfirmed, MarkFailed, Land, vars, SerialInv, PaymentInv,
     Columns
<1>3. overridden \subseteq overridden'
  BY DEF Create, PassDeadline, MarkConfirmed, MarkFailed, Land, vars, historyVars
<1>4. \A p \in Payments \ overridden' : status'[p] = "CONFIRMED" => status[p] = "CONFIRMED"
  BY DEF Create, PassDeadline, MarkConfirmed, MarkFailed, WriteConfirmed, Land, vars, rowVars,
     SerialInv, PaymentInv, Columns
<1>5. ASSUME NEW c \in Clients PROVE KnowsRow(c)'
  <2>1. CASE \E d \in Clients, p \in Payments : MarkConfirmed(d, p)
    <3>1. pc'[c] = "announce"
      BY <2>1 DEF MarkConfirmed, Begin, OneAtATime, SerialInv, PaymentInv, Locals
    <3> QED BY <3>1 DEF KnowsRow
  <2>2. CASE ~\E d \in Clients, p \in Payments : MarkConfirmed(d, p)
    <3>1. UNCHANGED clientVars
      BY <2>2 DEF Create, PassDeadline, MarkFailed, Land, vars, clientVars
    <3>2. KnowsRow(c)
      BY DEF SerialInv
    <3> QED BY <1>1, <1>2, <3>1, <3>2 DEF KnowsRow, Received, clientVars
  <2> QED BY <2>1, <2>2
<1> QED BY <1>1, <1>2, <1>3, <1>4, <1>5, RowsKept

LEMMA Serial == OneAtATime => (Spec => []SerialInv)
<1> SUFFICES ASSUME OneAtATime PROVE Spec => []SerialInv
  OBVIOUS
<1>1. Init => SerialInv
  BY InitInv DEF Init, SerialInv, SignatureUnique, ShownIsReceived, KnowsRow
<1>2. SerialInv /\ [Next]_vars => SerialInv'
  <2> SUFFICES ASSUME SerialInv, [Next]_vars PROVE SerialInv'
    OBVIOUS
  <2>1. PaymentInv'
    BY NextInv DEF SerialInv
  <2>2. ASSUME NEW c \in Clients,
               \/ Attach(c) \/ Confirm(c) \/ Refund(c) \/ Sweep(c)
               \/ Abort(c) \/ SkipRow(c)
        PROVE SerialInv'
    BY <2>1, <2>2, SerialAttach, SerialConfirm, SerialElsewhere
  <2> QED BY <2>1, <2>2, SerialOutside DEF Next
<1> QED BY <1>1, <1>2, PTL DEF Spec

\* Where requests do not overlap, one transfer pays for one payment: the lookup
\* at the head of attachSignature still holds when the UPDATE is sent.
THEOREM OneTransferOnePayment == OneAtATime => (Spec => []SignatureUnique)
<1>1. SerialInv => SignatureUnique
  BY DEF SerialInv
<1> QED BY <1>1, Serial, PTL

\* Where requests do not overlap, the signature a confirmed record shows is the
\* one that gave the amount.
THEOREM SignatureShownReceived == OneAtATime => (Spec => []ShownIsReceived)
<1>1. SerialInv => ShownIsReceived
  BY DEF SerialInv
<1> QED BY <1>1, Serial, PTL

=============================================================================
