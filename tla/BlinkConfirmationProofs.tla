---------------------- MODULE BlinkConfirmationProofs -----------------------
(***************************************************************************)
(* Theorems about BlinkConfirmation for every set of signatures and        *)
(* workers, every number of attempts and of failures.                      *)
(***************************************************************************)
EXTENDS BlinkConfirmation, TLAPS

(***************************************************************************)
(* The inductive invariant                                                 *)
(***************************************************************************)

\* A worker that is idle holds no signature and no sweep, one that is not holds a signature.
HoldsSig ==
  \A w \in Workers : (pc[w] = "idle" <=> sig[w] = NoSig) /\ (pc[w] = "idle" => ~swept[w])

\* From the verification on, the signature a worker works on is known to have landed.
Verified ==
  \A w \in Workers : pc[w] \in {"confirm", "activate", "convert"} => chain[sig[w]] = "landed"

\* Handlings of s did not overlap, and no sweep caught an error of a confirmation.
Calm(s) == mishaps[s] \cap {"overlap", "unwound"} = {}

Alone(s) == \A v, w \in Workers : sig[v] = s /\ sig[w] = s => v = w

\* What the row of s shows to the worker on it.
Sees(s, w) ==
  /\ pc[w] \in {"activate", "convert", "attach"} <=> conf[s] = "confirmed"
  /\ pc[w] = "activate" => granted[s] = 0
  /\ pc[w] \in {"verify", "fail", "failConversion", "confirm"} => conf[s] # "none"
  /\ pc[w] = "reserve" /\ conf[s] = "none" => fresh[w]

Serial ==
  \A s \in Sigs : Calm(s) =>
    /\ Alone(s)
    /\ granted[s] <= 1
    /\ granted[s] > 0 => conf[s] = "confirmed"
    /\ \A w \in Workers : sig[w] = s => Sees(s, w)

BlinkInv ==
  /\ TypeOK
  /\ HoldsSig
  /\ ConfirmedOnChain /\ Verified
  /\ Serial

LEMMA InitInv == Init => BlinkInv
BY BlinkAssumption
   DEF Init, BlinkInv, TypeOK, PCs, Open, HoldsSig, ConfirmedOnChain, Verified,
       Serial, Calm, Alone, Sees

-----------------------------------------------------------------------------
(* A step of a worker on the signature it holds *)

LocalsType ==
  /\ pc \in [Workers -> PCs]
  /\ sig \in [Workers -> Sigs \cup {NoSig}]
  /\ swept \in [Workers -> BOOLEAN]
  /\ named \in [Workers -> SUBSET Names]
  /\ fresh \in [Workers -> BOOLEAN]
  /\ record \in [Workers -> BOOLEAN]
  /\ error \in [Workers -> {"none", "timeout", "other"}]
  /\ read \in [Workers -> 0 .. MaxAttempts]

\* The control of w goes to "to"; the other workers keep what they have.
Moved(w, to) ==
  /\ LocalsType'
  /\ \A v \in Workers : pc'[v] = IF v = w THEN to ELSE pc[v]
  /\ \A v \in Workers : sig'[v] = IF v = w /\ to = "idle" THEN NoSig ELSE sig[v]
  /\ \A v \in Workers \ {w} :
       fresh'[v] = fresh[v] /\ swept'[v] = swept[v]
  /\ to = "idle" => ~swept'[w]

\* Nothing but the row of s changes, and what disturbed its handling is not forgotten.
OnlyRow(s) ==
  /\ conf' \in [Sigs -> Open \cup {"none", "confirmed", "failed", "expired"}]
  /\ attempts' \in [Sigs -> 0 .. MaxAttempts]
  /\ key' \in [Sigs -> {"none", "reserved", "attached"}]
  /\ conversion' \in [Sigs -> {"PENDING", "CONFIRMED", "FAILED"}]
  /\ commitment' \in [Sigs -> {"configured", "other"}]
  /\ rowNames' \in [Sigs -> SUBSET Names]
  /\ granted' \in [Sigs -> 0 .. 2]
  /\ faults' \in 0 .. MaxFaults
  /\ mishaps' \in [Sigs -> SUBSET {"overlap", "unwound"}]
  /\ chain' = chain
  /\ mishaps[s] \subseteq mishaps'[s]
  /\ \A t \in Sigs \ {s} :
       /\ conf'[t] = conf[t]
       /\ conversion'[t] = conversion[t]
       /\ granted'[t] = granted[t]
       /\ mishaps'[t] = mishaps[t]

\* What a step of w on s has to show about its own row.
Backed(s, to) ==
  \/ chain[s] = "landed"
  \/ /\ to \notin {"confirm", "activate", "convert"}
     /\ conf'[s] = "confirmed" => conf[s] = "confirmed"
     /\ conversion'[s] = "CONFIRMED" => conversion[s] = "CONFIRMED"
     /\ granted'[s] > 0 => granted[s] > 0

Calming(s, w, to) ==
  Calm(s)' =>
    /\ granted'[s] <= 1
    /\ granted'[s] > 0 => conf'[s] = "confirmed"
    /\ to # "idle" => Sees(s, w)'

\* Such a step leaves the other workers, and the other rows, as the invariant has them.
LEMMA WorkerStep ==
  ASSUME BlinkInv, NEW w \in Workers, NEW to \in PCs, NEW s \in Sigs, sig[w] = s,
         Moved(w, to), OnlyRow(s), Backed(s, to),
         Calm(s)' /\ Calm(s) /\ Alone(s) /\ Sees(s, w) => Calming(s, w, to)
  PROVE  BlinkInv'
<1> USE DEF BlinkInv
<1>1. TypeOK' /\ HoldsSig'
  BY BlinkAssumption DEF Moved, OnlyRow, LocalsType, TypeOK, HoldsSig
<1>2. ConfirmedOnChain' /\ Verified'
  BY DEF TypeOK, HoldsSig, Moved, OnlyRow, Backed, ConfirmedOnChain, Verified
<1>3. Serial'
  <2> SUFFICES ASSUME NEW t \in Sigs, Calm(t)'
               PROVE  /\ Alone(t)'
                      /\ granted'[t] <= 1
                      /\ granted'[t] > 0 => conf'[t] = "confirmed"
                      /\ \A v \in Workers : sig'[v] = t => Sees(t, v)'
    BY DEF Serial
  <2>1. Calm(t)
    BY DEF Calm, OnlyRow
  <2>2. Alone(t) /\ \A v \in Workers : sig[v] = t => Sees(t, v)
    BY <2>1 DEF Serial
  <2>3. \A v \in Workers : sig'[v] = t => sig[v] = t
    BY BlinkAssumption DEF Moved
  <2>4. CASE t = s
    <3>1. Calming(s, w, to)
      BY <2>1, <2>2, <2>4
    <3>2. \A v \in Workers : sig'[v] = t => v = w
      BY <2>2, <2>3, <2>4 DEF Alone
    <3>3. to = "idle" => sig'[w] # t
      BY BlinkAssumption DEF Moved
    <3> QED BY <2>4, <3>1, <3>2, <3>3 DEF Calming, Alone
  <2>5. CASE t # s
    <3>1. \A v \in Workers : sig'[v] = t => Sees(t, v)'
      BY <2>2, <2>3, <2>5 DEF Sees, Moved, OnlyRow
    <3>2. granted[t] <= 1 /\ (granted[t] > 0 => conf[t] = "confirmed")
      BY <2>1 DEF Serial
    <3> QED BY <2>2, <2>3, <2>5, <3>1, <3>2 DEF Alone, OnlyRow
  <2> QED BY <2>4, <2>5
<1> QED BY <1>1, <1>2, <1>3

\* Going on keeps what the worker knows, ending its handler forgets it.
LEMMA GoMoves ==
  ASSUME TypeOK, NEW w \in Workers, NEW to \in PCs, Go(w, to)
  PROVE  /\ Moved(w, to)
         /\ to # "idle" => fresh'[w] = fresh[w]
<1>1. CASE to = "idle"
  <2>1. read' \in [Workers -> 0 .. MaxAttempts]
    BY <1>1, BlinkAssumption DEF Go, TypeOK
  <2>2. pc' \in [Workers -> PCs] /\ sig' \in [Workers -> Sigs \cup {NoSig}]
    BY <1>1 DEF Go, TypeOK
  <2>3. /\ swept' = [swept EXCEPT ![w] = FALSE] /\ swept \in [Workers -> BOOLEAN]
        /\ named' = [named EXCEPT ![w] = {}] /\ named \in [Workers -> SUBSET Names]
        /\ fresh' = [fresh EXCEPT ![w] = FALSE] /\ fresh \in [Workers -> BOOLEAN]
        /\ record' = [record EXCEPT ![w] = FALSE] /\ record \in [Workers -> BOOLEAN]
    BY <1>1 DEF Go, TypeOK
  <2>4. error' \in [Workers -> {"none", "timeout", "other"}]
    BY <1>1 DEF Go, TypeOK
  <2>5. LocalsType'
    BY <2>1, <2>2, <2>3, <2>4 DEF LocalsType
  <2> QED BY <1>1, <2>5 DEF Go, TypeOK, Moved
<1>2. CASE to # "idle"
  BY <1>2 DEF Go, TypeOK, LocalsType, localVars, Moved
<1> QED BY <1>1, <1>2

\* An error ends a request and takes a sweep to its catch.
LEMMA ThrowMoves ==
  ASSUME TypeOK, NEW w \in Workers, NEW e \in {"none", "timeout", "other"}, Throw(w, e)
  PROVE  \E to \in {"idle", "recover"} : Moved(w, to)
<1>1. CASE swept[w]
  BY <1>1 DEF Throw, TypeOK, LocalsType, Moved, PCs
<1>2. CASE ~swept[w]
  BY <1>2, GoMoves DEF Throw, PCs
<1> QED BY <1>1, <1>2

-----------------------------------------------------------------------------
(* The steps of confirmSignature and of the reconciler *)

\* A worker that is not idle holds a signature, and sees its row.
LEMMA OnSig ==
  ASSUME BlinkInv, NEW w \in Workers, pc[w] # "idle"
  PROVE  sig[w] \in Sigs
BY DEF BlinkInv, TypeOK

LEMMA LookupInv ==
  ASSUME BlinkInv, NEW w \in Workers, Lookup(w)
  PROVE  BlinkInv'
<1> USE DEF BlinkInv
<1>1. PICK s \in Sigs : s = sig[w]
  BY OnSig DEF Lookup, At
<1>2. OnlyRow(s)
  BY DEF Lookup, rowVars, OnlyRow, TypeOK, bornVars
<1>3. pc[w] = "lookup" /\ UNCHANGED <<conf, conversion, granted>>
  BY DEF Lookup, rowVars, At
<1>4. CASE AlreadyConfirmed(s)
  <2>1. Moved(w, "idle")
    BY <1>1, <1>4, GoMoves DEF Lookup, PCs
  <2>2. Backed(s, "idle")
    BY <1>3 DEF Backed, TypeOK
  <2>3. Calm(s) /\ Alone(s) /\ Sees(s, w) => Calming(s, w, "idle")
    BY <1>1, <1>3 DEF Calming, Serial
  <2> QED BY <1>1, <1>2, <2>1, <2>2, <2>3, WorkerStep DEF PCs
<1>5. CASE ~AlreadyConfirmed(s)
  <2>1. LocalsType'
    <3>1. /\ pc' = [pc EXCEPT ![w] = "reserve"] /\ pc \in [Workers -> PCs]
          /\ named' = [named EXCEPT ![w] = rowNames[s] \cup {"wallet"}]
          /\ named \in [Workers -> SUBSET Names] /\ rowNames[s] \cup {"wallet"} \in SUBSET Names
          /\ fresh' = [fresh EXCEPT ![w] = conf[s] = "none"] /\ fresh \in [Workers -> BOOLEAN]
          /\ UNCHANGED <<sig, swept, record, error, read>>
      BY <1>1, <1>5 DEF Lookup, TypeOK, Names
    <3> QED BY <3>1 DEF LocalsType, TypeOK, PCs
  <2>2. Moved(w, "reserve") /\ fresh'[w] = (conf[s] = "none")
    BY <1>1, <1>5, <2>1 DEF Lookup, Moved, TypeOK, PCs
  <2>3. Backed(s, "reserve")
    BY <1>3, <2>2 DEF Backed, TypeOK
  <2>4. Calm(s) /\ Alone(s) /\ Sees(s, w) => Calming(s, w, "reserve")
    BY <1>1, <1>3, <1>5, <2>2 DEF Calming, Serial, Sees, AlreadyConfirmed, Moved
  <2> QED BY <1>1, <1>2, <2>2, <2>3, <2>4, WorkerStep DEF PCs
<1> QED BY <1>4, <1>5

LEMMA ReserveInv ==
  ASSUME BlinkInv, NEW w \in Workers, Reserve(w)
  PROVE  BlinkInv'
<1> USE DEF BlinkInv
<1>1. PICK s \in Sigs : s = sig[w]
  BY OnSig DEF Reserve, At
<1>2. pc[w] = "reserve" /\ UNCHANGED <<conf, conversion, granted, mishaps>>
  BY DEF Reserve, At
<1>3. OnlyRow(s)
  <2>1. key' \in [Sigs -> {"none", "reserved", "attached"}]
    BY DEF Reserve, TypeOK
  <2> QED BY <2>1 DEF Reserve, OnlyRow, TypeOK, bornVars
<1>4. PICK to \in {"create", "verify"} : to = IF fresh[w] THEN "create" ELSE "verify"
  OBVIOUS
<1>5. Moved(w, to)
  <2>1. /\ pc' = [pc EXCEPT ![w] = to] /\ pc \in [Workers -> PCs]
        /\ record' = [record EXCEPT ![w] = key[s] = "none"] /\ record \in [Workers -> BOOLEAN]
        /\ UNCHANGED <<sig, swept, named, fresh, error, read>>
    BY <1>1, <1>4 DEF Reserve, TypeOK
  <2>2. LocalsType'
    BY <2>1 DEF LocalsType, TypeOK, PCs
  <2> QED BY <2>1, <2>2 DEF Moved
<1>6. Backed(s, to)
  BY <1>1, <1>2, <1>5 DEF Backed, TypeOK
<1>7. Calm(s) /\ Alone(s) /\ Sees(s, w) => Calming(s, w, to)
  BY <1>1, <1>2, <1>4, <1>5 DEF Calming, Serial, Sees, Moved
<1> QED BY <1>1, <1>3, <1>5, <1>6, <1>7, WorkerStep DEF PCs

LEMMA CreateInv ==
  ASSUME BlinkInv, NEW w \in Workers, Create(w)
  PROVE  BlinkInv'
<1> USE DEF BlinkInv
<1>1. PICK s \in Sigs : s = sig[w]
  BY OnSig DEF Create, At
<1>2. pc[w] = "create" /\ UNCHANGED <<conversion, granted, mishaps>>
  BY DEF Create, At
<1>3. CASE conf[s] = "none" /\ "wallet" \in named[w]
  <2>1. /\ conf' = [conf EXCEPT ![s] = "processing"]
        /\ attempts' = [attempts EXCEPT ![s] = 0]
        /\ rowNames' = [rowNames EXCEPT ![s] = named[w] \ {"wallet"}]
        /\ \E c \in {"configured", "other"} : commitment' = [commitment EXCEPT ![s] = c]
        /\ Go(w, "verify")
    BY <1>1, <1>3 DEF Create
  <2>2. OnlyRow(s)
    BY <2>1, BlinkAssumption DEF Create, OnlyRow, TypeOK, bornVars, Open
  <2>3. Moved(w, "verify")
    BY <2>1, GoMoves DEF PCs
  <2>4. Backed(s, "verify")
    BY <1>2, <1>3, <2>1, <2>3 DEF Backed, TypeOK
  <2>5. Calm(s) /\ Alone(s) /\ Sees(s, w) => Calming(s, w, "verify")
    BY <1>1, <1>2, <1>3, <2>1, <2>3 DEF Calming, Serial, Sees, Moved, TypeOK
  <2> QED BY <1>1, <2>2, <2>3, <2>4, <2>5, WorkerStep DEF PCs
<1>4. CASE ~(conf[s] = "none" /\ "wallet" \in named[w])
  <2>1. Throw(w, "other") /\ UNCHANGED <<conf, attempts, bornVars>>
    BY <1>1, <1>4 DEF Create
  <2>2. PICK to \in {"idle", "recover"} : Moved(w, to)
    BY <2>1, ThrowMoves
  <2>3. OnlyRow(s)
    BY <2>1 DEF Create, OnlyRow, TypeOK, bornVars
  <2>4. Backed(s, to)
    BY <1>2, <2>1 DEF Backed, TypeOK
  <2>5. Calm(s) /\ Alone(s) /\ Sees(s, w) => Calming(s, w, to)
    BY <1>1, <1>2, <2>1, <2>2 DEF Calming, Serial, Sees, Moved
  <2> QED BY <1>1, <2>2, <2>3, <2>4, <2>5, WorkerStep DEF PCs
<1> QED BY <1>3, <1>4

\* The answers of the RPC, to confirmSignature and to the sweep.
LEMMA VerifyInv ==
  ASSUME BlinkInv, NEW w \in Workers,
         \/ VerifyPass(w, "verify", "confirm") \/ VerifyPass(w, "sweepVerify", "lookup")
         \/ VerifyThrow(w, "verify", "fail") \/ VerifyThrow(w, "sweepVerify", "recover")
  PROVE  BlinkInv'
<1> USE DEF BlinkInv
<1>1. PICK s \in Sigs : s = sig[w]
  BY OnSig DEF VerifyPass, VerifyThrow, At
<1>2. UNCHANGED <<conf, conversion, granted, mishaps>>
  BY DEF VerifyPass, VerifyThrow, rowVars
<1>3. OnlyRow(s)
  BY DEF VerifyPass, VerifyThrow, rowVars, OnlyRow, TypeOK, bornVars
<1>4. CASE VerifyPass(w, "verify", "confirm") \/ VerifyPass(w, "sweepVerify", "lookup")
  <2>1. PICK to \in {"confirm", "lookup"} :
          /\ Go(w, to) /\ chain[s] = "landed"
          /\ to = "confirm" => pc[w] = "verify"
          /\ to = "lookup" => pc[w] = "sweepVerify"
    BY <1>1, <1>4 DEF VerifyPass, At
  <2>2. Moved(w, to)
    BY <2>1, GoMoves DEF PCs
  <2>3. Backed(s, to)
    BY <1>1, <1>2, <2>1, <2>2 DEF Backed, TypeOK
  <2>4. Calm(s) /\ Alone(s) /\ Sees(s, w) => Calming(s, w, to)
    BY <1>1, <1>2, <2>1, <2>2 DEF Calming, Serial, Sees, Moved
  <2> QED BY <1>1, <1>3, <2>2, <2>3, <2>4, WorkerStep DEF PCs
<1>5. CASE VerifyThrow(w, "verify", "fail") \/ VerifyThrow(w, "sweepVerify", "recover")
  <2>1. PICK to \in {"fail", "recover"} :
          /\ VerifyThrow(w, pc[w], to)
          /\ to = "fail" => pc[w] = "verify"
          /\ to = "recover" => pc[w] = "sweepVerify"
    BY <1>5 DEF VerifyThrow, At
  <2>2. Moved(w, to)
    <3>1. /\ pc' = [pc EXCEPT ![w] = to] /\ pc \in [Workers -> PCs]
          /\ \E e \in {"timeout", "other"} : error' = [error EXCEPT ![w] = e]
          /\ UNCHANGED <<sig, swept, named, fresh, record, read>>
      BY <2>1 DEF VerifyThrow, VerifyError, TypeOK
    <3> QED BY <3>1 DEF Moved, LocalsType, TypeOK, PCs
  <2>3. Backed(s, to)
    BY <1>2, <2>1 DEF Backed, TypeOK
  <2>4. Calm(s) /\ Alone(s) /\ Sees(s, w) => Calming(s, w, to)
    BY <1>1, <1>2, <2>1, <2>2 DEF Calming, Serial, Sees, Moved
  <2> QED BY <1>1, <1>3, <2>2, <2>3, <2>4, WorkerStep DEF PCs
<1> QED BY <1>4, <1>5

\* The verdict is written, and the error goes on to the caller.
LEMMA WriteFailedInv ==
  ASSUME BlinkInv, NEW w \in Workers, WriteFailed(w)
  PROVE  BlinkInv'
<1> USE DEF BlinkInv
<1>1. PICK s \in Sigs : s = sig[w]
  BY OnSig DEF WriteFailed, At
<1>2. /\ pc[w] = "fail" /\ UNCHANGED <<conversion, granted, mishaps>>
      /\ conf'[s] = IF conf[s] = "none" THEN "none" ELSE "failed"
  BY <1>1 DEF WriteFailed, At, TypeOK
<1>3. OnlyRow(s)
  BY <1>1 DEF WriteFailed, OnlyRow, TypeOK, bornVars
<1>4. PICK to \in {"idle", "recover", "failConversion"} : Moved(w, to)
  BY GoMoves, ThrowMoves DEF WriteFailed, PCs, TypeOK
<1>5. Backed(s, to)
  BY <1>2 DEF Backed, TypeOK
<1>6. Calm(s) /\ Alone(s) /\ Sees(s, w) => Calming(s, w, to)
  BY <1>1, <1>2, <1>4 DEF Calming, Serial, Sees, Moved
<1> QED BY <1>1, <1>3, <1>4, <1>5, <1>6, WorkerStep DEF PCs

LEMMA FailConversionInv ==
  ASSUME BlinkInv, NEW w \in Workers, FailConversion(w)
  PROVE  BlinkInv'
<1> USE DEF BlinkInv
<1>1. PICK s \in Sigs : s = sig[w]
  BY OnSig DEF FailConversion, At
<1>2. /\ pc[w] = "failConversion" /\ UNCHANGED <<conf, granted, mishaps>>
      /\ conversion'[s] = "FAILED"
  BY <1>1 DEF FailConversion, At, TypeOK
<1>3. OnlyRow(s)
  BY <1>1 DEF FailConversion, OnlyRow, TypeOK, bornVars
<1>4. PICK to \in {"idle", "recover"} : Moved(w, to)
  BY ThrowMoves DEF FailConversion, TypeOK
<1>5. Backed(s, to)
  BY <1>2 DEF Backed, TypeOK
<1>6. Calm(s) /\ Alone(s) /\ Sees(s, w) => Calming(s, w, to)
  BY <1>1, <1>2, <1>4 DEF Calming, Serial, Sees, Moved
<1> QED BY <1>1, <1>3, <1>4, <1>5, <1>6, WorkerStep DEF PCs

\* CONFIRMED, and what follows it.
LEMMA ConfirmInv ==
  ASSUME BlinkInv, NEW w \in Workers, Confirm(w)
  PROVE  BlinkInv'
<1> USE DEF BlinkInv
<1>1. PICK s \in Sigs : s = sig[w]
  BY OnSig DEF Confirm, At
<1>2. /\ pc[w] = "confirm" /\ UNCHANGED <<conversion, granted, mishaps>>
      /\ conf'[s] = IF conf[s] = "none" THEN "none" ELSE "confirmed"
  BY <1>1 DEF Confirm, At, TypeOK
<1>3. OnlyRow(s)
  BY <1>1 DEF Confirm, OnlyRow, TypeOK, bornVars
<1>4. PICK to \in {"activate", "convert", "attach"} : Moved(w, to)
  BY GoMoves DEF Confirm, AfterActivation, PCs
<1>5. Backed(s, to)
  BY <1>1, <1>2, <1>4 DEF Backed, TypeOK, Verified
<1>6. Calm(s) /\ Alone(s) /\ Sees(s, w) => Calming(s, w, to)
  BY <1>1, <1>2, <1>4 DEF Calming, Serial, Sees, Moved, TypeOK
<1> QED BY <1>1, <1>3, <1>4, <1>5, <1>6, WorkerStep DEF PCs

LEMMA ActivateInv ==
  ASSUME BlinkInv, NEW w \in Workers, Activate(w)
  PROVE  BlinkInv'
<1> USE DEF BlinkInv
<1>1. PICK s \in Sigs : s = sig[w]
  BY OnSig DEF Activate, At
<1>2. /\ pc[w] = "activate" /\ UNCHANGED <<conf, conversion, mishaps>>
      /\ \E g \in {0, 1} : granted'[s] = IF granted[s] + g > 2 THEN 2 ELSE granted[s] + g
  BY <1>1 DEF Activate, At, TypeOK, rowVars
<1>3. OnlyRow(s)
  <2>1. granted' \in [Sigs -> 0 .. 2]
    BY <1>1 DEF Activate, TypeOK
  <2> QED BY <1>1, <2>1 DEF Activate, OnlyRow, TypeOK, rowVars, bornVars
<1>4. PICK to \in {"convert", "attach"} : Moved(w, to)
  BY GoMoves DEF Activate, AfterActivation, PCs
<1>5. Backed(s, to)
  BY <1>1, <1>2 DEF Backed, TypeOK, Verified
<1>6. Calm(s) /\ Alone(s) /\ Sees(s, w) => Calming(s, w, to)
  <2>1. granted[s] = 0 /\ Sees(s, w) => granted'[s] \in {0, 1}
    BY <1>2
  <2> QED BY <1>1, <1>2, <1>4, <2>1 DEF Calming, Serial, Sees, Moved, TypeOK
<1> QED BY <1>1, <1>3, <1>4, <1>5, <1>6, WorkerStep DEF PCs

LEMMA ConvertInv ==
  ASSUME BlinkInv, NEW w \in Workers, Convert(w)
  PROVE  BlinkInv'
<1> USE DEF BlinkInv
<1>1. PICK s \in Sigs : s = sig[w]
  BY OnSig DEF Convert, At
<1>2. pc[w] = "convert" /\ UNCHANGED <<conf, granted, mishaps>>
  BY DEF Convert, At
<1>3. OnlyRow(s)
  BY <1>1 DEF Convert, OnlyRow, TypeOK, bornVars
<1>4. Moved(w, "attach")
  BY GoMoves DEF Convert, PCs
<1>5. Backed(s, "attach")
  BY <1>1, <1>2 DEF Backed, TypeOK, Verified
<1>6. Calm(s) /\ Alone(s) /\ Sees(s, w) => Calming(s, w, "attach")
  BY <1>1, <1>2, <1>4 DEF Calming, Serial, Sees, Moved
<1> QED BY <1>1, <1>3, <1>4, <1>5, <1>6, WorkerStep DEF PCs

LEMMA AttachInv ==
  ASSUME BlinkInv, NEW w \in Workers, Attach(w)
  PROVE  BlinkInv'
<1> USE DEF BlinkInv
<1>1. PICK s \in Sigs : s = sig[w]
  BY OnSig DEF Attach, At
<1>2. pc[w] = "attach" /\ UNCHANGED <<conf, conversion, granted, mishaps>>
  BY DEF Attach, At
<1>3. OnlyRow(s)
  <2>1. key' \in [Sigs -> {"none", "reserved", "attached"}]
    BY DEF Attach, TypeOK
  <2> QED BY <2>1 DEF Attach, OnlyRow, TypeOK, bornVars
<1>4. Moved(w, "idle")
  BY GoMoves DEF Attach, PCs
<1>5. Backed(s, "idle")
  BY <1>2 DEF Backed, TypeOK
<1>6. Calm(s) /\ Alone(s) /\ Sees(s, w) => Calming(s, w, "idle")
  BY <1>1, <1>2 DEF Calming, Serial
<1> QED BY <1>1, <1>3, <1>4, <1>5, <1>6, WorkerStep DEF PCs

\* The catch of a sweep, on the row as it was listed.
LEMMA RecoverInv ==
  ASSUME BlinkInv, NEW w \in Workers, Recover(w)
  PROVE  BlinkInv'
<1> USE DEF BlinkInv
<1>1. PICK s \in Sigs : s = sig[w]
  BY OnSig DEF Recover, At
<1>2. pc[w] = "recover" /\ UNCHANGED <<conversion, granted, mishaps>>
  BY DEF Recover, At
<1>3. PICK outcome \in {"failed", "expired", "pending"} :
        /\ outcome = "pending" => read[w] + 1 \in 0 .. MaxAttempts
        /\ conf' = [conf EXCEPT ![s] = IF @ = "none" THEN @ ELSE outcome]
        /\ attempts' = [attempts EXCEPT ![s] = IF outcome = "pending" THEN read[w] + 1 ELSE @]
        /\ Go(w, IF outcome = "failed" THEN "recoverConversion" ELSE "idle")
  <2>1. read[w] \in 0 .. MaxAttempts
    BY DEF TypeOK
  <2>2. CASE error[w] = "other"
    BY <1>1, <2>2 DEF Recover
  <2>3. CASE error[w] # "other" /\ read[w] >= MaxAttempts
    BY <1>1, <2>3 DEF Recover
  <2>4. CASE error[w] # "other" /\ ~(read[w] >= MaxAttempts)
    <3>1. read[w] + 1 \in 0 .. MaxAttempts
      BY <2>1, <2>4, BlinkAssumption
    <3> QED BY <1>1, <2>4, <3>1 DEF Recover
  <2> QED BY <2>2, <2>3, <2>4
<1>4. OnlyRow(s)
  <2>1. conf' \in [Sigs -> Open \cup {"none", "confirmed", "failed", "expired"}]
    BY <1>3 DEF TypeOK, Open
  <2>2. attempts' \in [Sigs -> 0 .. MaxAttempts]
    BY <1>3 DEF TypeOK
  <2> QED BY <1>1, <1>3, <2>1, <2>2 DEF Recover, OnlyRow, TypeOK, bornVars
<1>5. PICK to \in {"idle", "recoverConversion"} : Moved(w, to)
  BY <1>3, GoMoves DEF PCs
<1>6. Backed(s, to)
  BY <1>2, <1>3 DEF Backed, TypeOK
<1>7. Calm(s) /\ Alone(s) /\ Sees(s, w) => Calming(s, w, to)
  BY <1>1, <1>2, <1>3, <1>5 DEF Calming, Serial, Sees, Moved, TypeOK
<1> QED BY <1>1, <1>4, <1>5, <1>6, <1>7, WorkerStep DEF PCs

\* The last writes of a sweep: the conversion of a failed row, a row that expires.
LEMMA SweepEndInv ==
  ASSUME BlinkInv, NEW w \in Workers, RecoverConversion(w) \/ ExpireWrite(w)
  PROVE  BlinkInv'
<1> USE DEF BlinkInv
<1>1. PICK s \in Sigs : s = sig[w]
  BY OnSig DEF RecoverConversion, ExpireWrite, At
<1>2. /\ pc[w] \in {"recoverConversion", "expire"} /\ UNCHANGED <<granted, mishaps>>
      /\ conf'[s] \in {conf[s], "none", "expired"}
      /\ conversion'[s] \in {conversion[s], "FAILED"}
  BY <1>1 DEF RecoverConversion, ExpireWrite, At, TypeOK
<1>3. OnlyRow(s)
  BY <1>1 DEF RecoverConversion, ExpireWrite, OnlyRow, TypeOK, bornVars
<1>4. Moved(w, "idle")
  BY GoMoves DEF RecoverConversion, ExpireWrite, PCs
<1>5. Backed(s, "idle")
  BY <1>2 DEF Backed, TypeOK
<1>6. Calm(s) /\ Alone(s) /\ Sees(s, w) => Calming(s, w, "idle")
  BY <1>1, <1>2 DEF Calming, Serial, Sees
<1> QED BY <1>1, <1>3, <1>4, <1>5, <1>6, WorkerStep DEF PCs

-----------------------------------------------------------------------------
(* Failures *)

LEMMA FaultInv ==
  ASSUME BlinkInv, NEW w \in Workers, Abort(w) \/ Unwind(w)
  PROVE  BlinkInv'
<1> USE DEF BlinkInv
<1>1. PICK s \in Sigs : s = sig[w]
  <2>1. pc[w] # "idle"
    BY DEF Abort, Unwind, At, HoldsSig
  <2> QED BY <2>1, OnSig
<1>2. UNCHANGED <<conf, conversion, granted>>
  BY DEF Abort, Unwind, rowVars
<1>3. /\ mishaps' \in [Sigs -> SUBSET {"overlap", "unwound"}]
      /\ mishaps[s] \subseteq mishaps'[s]
      /\ Unwind(w) => "unwound" \in mishaps'[s]
      /\ \A t \in Sigs \ {s} : mishaps'[t] = mishaps[t]
  BY <1>1 DEF Abort, Unwind, Note, TypeOK
<1>4. OnlyRow(s)
  BY <1>3, BlinkAssumption DEF Abort, Unwind, rowVars, OnlyRow, TypeOK, bornVars
<1>5. PICK to \in {"idle", "recover"} : Moved(w, to) /\ (to = "recover" => Unwind(w))
  BY GoMoves, ThrowMoves DEF Abort, Unwind, PCs
<1>6. Backed(s, to)
  BY <1>2, <1>3 DEF Backed, TypeOK
<1>7. Calm(s) /\ Alone(s) /\ Sees(s, w) => Calming(s, w, to)
  BY <1>1, <1>2, <1>3, <1>5 DEF Calming, Calm, Serial, Sees, Moved
<1> QED BY <1>1, <1>4, <1>5, <1>6, <1>7, WorkerStep DEF PCs

-----------------------------------------------------------------------------
(* Steps that start a handling, and steps no worker takes *)

\* A worker takes up s: if another one is on it, that is an overlap.
Taken(w, s, to) ==
  /\ to \in {"reserve", "lookup", "sweepVerify", "expire"}
  /\ LocalsType'
  /\ pc' = [pc EXCEPT ![w] = to]
  /\ sig' = [sig EXCEPT ![w] = s]
  /\ \A v \in Workers \ {w} :
       fresh'[v] = fresh[v] /\ swept'[v] = swept[v]
  /\ to = "reserve" => fresh'[w] = (conf[s] = "none")

LEMMA BeginStep ==
  ASSUME BlinkInv, NEW w \in Workers, NEW s \in Sigs, NEW to \in PCs,
         pc[w] = "idle", conf[s] # "confirmed", Taken(w, s, to), NoteBegin(s),
         UNCHANGED <<rowVars, chain, granted, faults>>
  PROVE  BlinkInv'
<1> USE DEF BlinkInv, rowVars, bornVars
<1>1. /\ mishaps' \in [Sigs -> SUBSET {"overlap", "unwound"}]
      /\ \A t \in Sigs : mishaps[t] \subseteq mishaps'[t]
      /\ \A t \in Sigs \ {s} : mishaps'[t] = mishaps[t]
      /\ Busy(s) => "overlap" \in mishaps'[s]
  BY DEF NoteBegin, Note, TypeOK
<1>2. /\ \A v \in Workers : pc'[v] = IF v = w THEN to ELSE pc[v]
      /\ \A v \in Workers : sig'[v] = IF v = w THEN s ELSE sig[v]
  BY DEF Taken, TypeOK
<1>3. TypeOK' /\ HoldsSig'
  BY <1>1, <1>2, BlinkAssumption DEF Taken, LocalsType, TypeOK, HoldsSig
<1>4. ConfirmedOnChain' /\ Verified'
  BY <1>2 DEF Taken, ConfirmedOnChain, Verified
<1>5. Serial'
  <2> SUFFICES ASSUME NEW t \in Sigs, Calm(t)'
               PROVE  /\ Alone(t)'
                      /\ granted'[t] <= 1
                      /\ granted'[t] > 0 => conf'[t] = "confirmed"
                      /\ \A v \in Workers : sig'[v] = t => Sees(t, v)'
    BY DEF Serial
  <2>1. Calm(t)
    BY <1>1 DEF Calm
  <2>2. /\ Alone(t) /\ granted[t] <= 1 /\ (granted[t] > 0 => conf[t] = "confirmed")
        /\ \A v \in Workers : sig[v] = t => Sees(t, v)
    BY <2>1 DEF Serial
  <2>3. CASE t = s
    <3>1. \A v \in Workers : sig[v] # s
      BY <1>1, <2>3 DEF Calm, Busy
    <3>2. \A v \in Workers : sig'[v] = s => v = w
      BY <1>2, <3>1
    <3>3. Sees(s, w)'
      BY <1>2 DEF Sees, Taken
    <3> QED BY <2>2, <2>3, <3>2, <3>3 DEF Alone
  <2>4. CASE t # s
    <3>1. \A v \in Workers : sig'[v] = t => v # w /\ sig[v] = t
      BY <1>2, <2>4
    <3>2. \A v \in Workers : sig'[v] = t => Sees(t, v)'
      BY <1>2, <2>2, <3>1 DEF Sees, Taken
    <3> QED BY <2>2, <3>1, <3>2 DEF Alone
  <2> QED BY <2>3, <2>4
<1> QED BY <1>3, <1>4, <1>5

LEMMA BeginInv ==
  ASSUME BlinkInv, NEW w \in Workers, NEW s \in Sigs,
         \/ \E names \in SUBSET Names : Deliver(w, s, names)
         \/ SweepList(w, s) \/ ReconcileSignature(w, s) \/ ExpireList(w, s)
  PROVE  BlinkInv'
<1> USE DEF BlinkInv
<1>1. ASSUME NEW names \in SUBSET Names, Deliver(w, s, names) PROVE BlinkInv'
  <2>1. /\ pc[w] = "idle" /\ conf[s] # "confirmed" /\ NoteBegin(s)
        /\ pc' = [pc EXCEPT ![w] = "reserve"] /\ pc \in [Workers -> PCs]
        /\ sig' = [sig EXCEPT ![w] = s]
        /\ named' = [named EXCEPT ![w] = names] /\ named \in [Workers -> SUBSET Names]
        /\ fresh' = [fresh EXCEPT ![w] = conf[s] = "none"] /\ fresh \in [Workers -> BOOLEAN]
        /\ UNCHANGED <<swept, record, error, read>>
        /\ UNCHANGED <<rowVars, chain, granted, faults>>
    BY <1>1 DEF Deliver, Begin, At, AlreadyConfirmed, TypeOK
  <2>2. LocalsType'
    BY <2>1 DEF LocalsType, TypeOK, PCs
  <2>3. Taken(w, s, "reserve")
    BY <2>1, <2>2 DEF Taken
  <2> QED BY <2>1, <2>3, BeginStep DEF PCs
<1>2. CASE SweepList(w, s)
  <2>1. /\ pc[w] = "idle" /\ conf[s] # "confirmed" /\ NoteBegin(s)
        /\ pc' = [pc EXCEPT ![w] = "sweepVerify"] /\ pc \in [Workers -> PCs]
        /\ sig' = [sig EXCEPT ![w] = s]
        /\ swept' = [swept EXCEPT ![w] = TRUE] /\ swept \in [Workers -> BOOLEAN]
        /\ read' = [read EXCEPT ![w] = attempts[s]]
        /\ UNCHANGED <<named, fresh, record, error>>
        /\ UNCHANGED <<rowVars, chain, granted, faults>>
    BY <1>2 DEF SweepList, Begin, At, Open, TypeOK
  <2>2. LocalsType'
    BY <2>1 DEF LocalsType, TypeOK, PCs
  <2>3. Taken(w, s, "sweepVerify")
    BY <2>1, <2>2 DEF Taken
  <2> QED BY <2>1, <2>3, BeginStep DEF PCs
<1>3. CASE ReconcileSignature(w, s) \/ ExpireList(w, s)
  <2>1. PICK to \in {"lookup", "expire"} :
        /\ pc[w] = "idle" /\ conf[s] # "confirmed" /\ NoteBegin(s)
        /\ pc' = [pc EXCEPT ![w] = to] /\ pc \in [Workers -> PCs]
        /\ sig' = [sig EXCEPT ![w] = s]
        /\ UNCHANGED <<swept, named, fresh, record, error, read>>
        /\ UNCHANGED <<rowVars, chain, granted, faults>>
    BY <1>3 DEF ReconcileSignature, ExpireList, Begin, At, Open, TypeOK
  <2>2. LocalsType'
    BY <2>1 DEF LocalsType, TypeOK, PCs
  <2>3. Taken(w, s, to)
    BY <2>1, <2>2 DEF Taken
  <2> QED BY <2>1, <2>3, BeginStep DEF PCs
<1> QED BY <1>1, <1>2, <1>3

\* Old rows go only where nobody works on them, and were never confirmed.
LEMMA CleanupInv ==
  ASSUME BlinkInv, NEW s \in Sigs, Cleanup(s)
  PROVE  BlinkInv'
<1> USE DEF BlinkInv, Cleanup, localVars
<1>1. \A w \in Workers : sig[w] # s
  BY DEF Busy
<1>2. TypeOK' /\ HoldsSig'
  <2>1. rowNames' \in [Sigs -> SUBSET Names] /\ attempts' \in [Sigs -> 0 .. MaxAttempts]
    BY BlinkAssumption DEF TypeOK
  <2>2. /\ conf' \in [Sigs -> Open \cup {"none", "confirmed", "failed", "expired"}]
        /\ key' \in [Sigs -> {"none", "reserved", "attached"}]
        /\ commitment' \in [Sigs -> {"configured", "other"}]
    BY DEF TypeOK
  <2> QED BY <2>1, <2>2 DEF TypeOK, HoldsSig
<1>3. ConfirmedOnChain' /\ Verified'
  BY DEF ConfirmedOnChain, Verified, TypeOK
<1>4. Serial'
  <2> SUFFICES ASSUME NEW t \in Sigs, Calm(t)
               PROVE  /\ Alone(t) /\ granted[t] <= 1
                      /\ granted[t] > 0 => conf'[t] = "confirmed"
                      /\ \A v \in Workers : sig[v] = t => Sees(t, v)'
    BY DEF Serial, Calm, Alone, Sees
  <2>1. /\ Alone(t) /\ granted[t] <= 1 /\ (granted[t] > 0 => conf[t] = "confirmed")
        /\ \A v \in Workers : sig[v] = t => Sees(t, v)
    BY DEF Serial
  <2> QED BY <1>1, <2>1 DEF Sees, TypeOK
<1> QED BY <1>2, <1>3, <1>4

\* A status on the chain is final.
LEMMA LandInv ==
  ASSUME BlinkInv, NEW s \in Sigs, Land(s)
  PROVE  BlinkInv'
<1> USE DEF BlinkInv, Land, localVars, rowVars, bornVars
<1>1. TypeOK' /\ HoldsSig'
  BY DEF TypeOK, HoldsSig
<1>2. ConfirmedOnChain' /\ Verified'
  BY DEF ConfirmedOnChain, Verified, TypeOK
<1>3. Serial'
  BY DEF Serial, Calm, Alone, Sees
<1> QED BY <1>1, <1>2, <1>3

-----------------------------------------------------------------------------
(* Theorems *)

LEMMA NextInv == BlinkInv /\ [Next]_vars => BlinkInv'
<1> SUFFICES ASSUME BlinkInv, [Next]_vars PROVE BlinkInv'
  OBVIOUS
<1>1. ASSUME NEW w \in Workers, Progress(w) PROVE BlinkInv'
  BY <1>1, LookupInv, ReserveInv, CreateInv, VerifyInv, WriteFailedInv, FailConversionInv,
     ConfirmInv, ActivateInv, ConvertInv, AttachInv, RecoverInv, SweepEndInv DEF Progress
<1>2. CASE UNCHANGED vars
  BY <1>2 DEF vars, BlinkInv, TypeOK, HoldsSig, ConfirmedOnChain, Verified, Serial, Calm, Alone,
     Sees
<1> QED BY <1>1, <1>2, BeginInv, CleanupInv, LandInv, FaultInv DEF Next

LEMMA Invariance == Spec => []BlinkInv
BY InitInv, NextInv, PTL DEF Spec

\* Columns, locals and counters stay in their domains; attempts never pass the limit.
THEOREM Typing == Spec => []TypeOK
BY Invariance, PTL DEF BlinkInv

\* Under every overlap of deliveries, sweeps, clean-ups and failures, whatever is confirmed
\* or activated has landed on the chain.
THEOREM ChainBacked == Spec => []ConfirmedOnChain
BY Invariance, PTL DEF BlinkInv

\* For every number of workers: handlings that do not overlap activate a signature at
\* most once, wherever processes die, unless a sweep caught an error of a confirmation.
THEOREM GrantingOnce == Spec => []GrantedOnce
<1>1. BlinkInv => GrantedOnce
  BY DEF BlinkInv, Serial, Calm, GrantedOnce
<1> QED BY <1>1, Invariance, PTL

=============================================================================
