------------------------- MODULE AttestationProofs --------------------------
(***************************************************************************)
(* Theorems about the attestation program and its indexer, for every set   *)
(* of accounts, signers, hashes and recoveries, every page size and limit, *)
(* and chains of any length.                                               *)
(***************************************************************************)
EXTENDS AttestationIndexer, FiniteSetTheorems, SequenceTheorems, TLAPS

(***************************************************************************)
(* The program                                                             *)
(***************************************************************************)

Writes(k) == EventsOf(k, {"Created", "Updated"})
Revs(k) == EventsOf(k, {"Revoked"})

\* The n-th transaction is at most in slot n, and slots come in order.
SlotsOrdered ==
  /\ \A i \in 1 .. Len(chain) : chain[i].slot <= i
  /\ \A i, j \in 1 .. Len(chain) : i <= j => chain[i].slot <= chain[j].slot

\* Before it has an authority the program has no accounts.
Uninitialized == authority = NoSigner => accounts = {}

\* What EventsTellAccounts says, with the last write named: every step keeps it.
AccountsTold ==
  \A k \in Keys :
    /\ k \in accounts =>
         \E m \in Writes(k) :
           /\ \A j \in Writes(k) : j <= m
           /\ chain[m].hash = hash[k] /\ chain[m].version = version[k]
    /\ k \notin accounts => Writes(k) = {}
    /\ \A i, j \in Writes(k) :
         (i < j /\ \A l \in Writes(k) : l <= i \/ j <= l) =>
            /\ chain[j].event = "Updated"
            /\ chain[j].oldHash = chain[i].hash
            /\ chain[j].oldVersion = chain[i].version
    /\ k \in revoked <=> Revs(k) # {}
    /\ \A i \in Revs(k), j \in Writes(k) \cup Revs(k) : j <= i

ProgramInv ==
  /\ AttestationTypeOK /\ SlotsOrdered
  /\ Uninitialized /\ CountersReconcile
  /\ AccountsTold

LEMMA ProgramInitInv == ProgramInit => ProgramInv
<1> SUFFICES ASSUME ProgramInit PROVE ProgramInv
  OBVIOUS
<1>1. chain = << >> /\ Len(chain) = 0 /\ DOMAIN chain = {} /\ chain \in Seq(Txs)
  BY EmptySeq, LenProperties DEF ProgramInit
<1>2. AttestationTypeOK
  BY <1>1, AttestationAssumption DEF ProgramInit, AttestationTypeOK, Hashes, Versions
<1>3. CountersReconcile
  BY FS_EmptySet DEF ProgramInit, CountersReconcile
<1>4. \A k \in Keys : Writes(k) = {} /\ Revs(k) = {}
  BY <1>1 DEF Writes, Revs, EventsOf
<1> QED BY <1>1, <1>2, <1>3, <1>4
        DEF ProgramInit, ProgramInv, SlotsOrdered, Uninitialized, AccountsTold

\* The chain only grows, by one transaction in the last slot or the next one.
LEMMA LandEffect ==
  ASSUME ProgramInv, NEW k \in Keys, NEW event \in Events, Land(event, k),
         hash' \in [Keys -> Hashes], version' \in [Keys -> Versions]
  PROVE  /\ chain' \in Seq(Txs) /\ SlotsOrdered'
         /\ Len(chain') = Len(chain) + 1 /\ Len(chain) \in Nat
         /\ DOMAIN chain = 1 .. Len(chain) /\ DOMAIN chain' = 1 .. Len(chain) + 1
         /\ \A i \in 1 .. Len(chain) : chain'[i] = chain[i]
         /\ LET tx == chain'[Len(chain) + 1]
            IN /\ tx.event = event /\ tx.key = k
               /\ tx.hash = hash'[k] /\ tx.version = version'[k]
               /\ tx.oldHash = hash[k] /\ tx.oldVersion = version[k]
<1> USE DEF ProgramInv, AttestationTypeOK
<1>1. chain \in Seq(Txs) /\ Len(chain) \in Nat /\ \A i \in 1 .. Len(chain) : chain[i] \in Txs
  BY LenProperties
<1>2. LastSlot \in 0 .. Len(chain) /\ \A i \in 1 .. Len(chain) : chain[i].slot <= LastSlot
  <2>1. CASE chain = << >>
    BY <1>1, <2>1 DEF LastSlot
  <2>2. CASE chain # << >>
    <3>1. Len(chain) \in 1 .. Len(chain)
      BY <1>1, <2>2, EmptySeq
    <3>2. chain[Len(chain)].slot \in 1 .. MaxTxs
      BY <1>1, <3>1 DEF Txs
    <3> QED BY <1>1, <2>2, <3>1, <3>2 DEF LastSlot, SlotsOrdered
  <2> QED BY <2>1, <2>2
<1>3. PICK s \in {LastSlot, LastSlot + 1} \ {0} :
        chain' = Append(chain,
          [slot |-> s, event |-> event, key |-> k,
           hash |-> hash'[k], version |-> version'[k],
           oldHash |-> hash[k], oldVersion |-> version[k]])
  BY DEF Land
<1>4. s \in 1 .. MaxTxs /\ s <= Len(chain) + 1 /\ s \in {LastSlot, LastSlot + 1}
  BY <1>1, <1>2, <1>3, AttestationAssumption DEF Land
<1> DEFINE tx == [slot |-> s, event |-> event, key |-> k,
                  hash |-> hash'[k], version |-> version'[k],
                  oldHash |-> hash[k], oldVersion |-> version[k]]
<1>5. tx \in Txs
  BY <1>4 DEF Txs
<1>6. /\ tx.slot = s /\ tx.event = event /\ tx.key = k
      /\ tx.hash = hash'[k] /\ tx.version = version'[k]
      /\ tx.oldHash = hash[k] /\ tx.oldVersion = version[k]
  OBVIOUS
<1> HIDE DEF tx
<1>7. /\ chain' \in Seq(Txs) /\ Len(chain') = Len(chain) + 1
      /\ \A i \in 1 .. Len(chain) : chain'[i] = chain[i]
      /\ chain'[Len(chain) + 1] = tx
  BY <1>1, <1>3, <1>5, AppendProperties DEF tx
<1>8. SlotsOrdered'
  <2>1. ASSUME NEW i \in 1 .. Len(chain) + 1 PROVE chain'[i].slot <= i
    <3>1. CASE i \in 1 .. Len(chain)
      BY <1>7, <3>1 DEF SlotsOrdered
    <3>2. CASE i = Len(chain) + 1
      BY <1>4, <1>6, <1>7, <3>2
    <3> QED BY <1>1, <3>1, <3>2
  <2>2. ASSUME NEW i \in 1 .. Len(chain) + 1, NEW j \in 1 .. Len(chain) + 1, i <= j
        PROVE  chain'[i].slot <= chain'[j].slot
    <3>1. CASE j \in 1 .. Len(chain)
      <4>1. i \in 1 .. Len(chain)
        BY <2>2, <3>1
      <4> QED BY <1>7, <2>2, <3>1, <4>1 DEF SlotsOrdered
    <3>2. CASE j = Len(chain) + 1 /\ i \in 1 .. Len(chain)
      <4>1. chain[i].slot <= LastSlot /\ chain[i].slot \in Int
        BY <1>1, <1>2, <3>2 DEF Txs
      <4>2. LastSlot <= s
        BY <1>2, <1>4
      <4>3. chain[i].slot <= s
        BY <1>2, <1>4, <4>1, <4>2
      <4> QED BY <1>6, <1>7, <3>2, <4>3
    <3>3. CASE i = Len(chain) + 1 /\ j = Len(chain) + 1
      BY <1>4, <1>6, <1>7, <3>3
    <3> QED BY <1>1, <2>2, <3>1, <3>2, <3>3
  <2> QED BY <1>7, <2>1, <2>2 DEF SlotsOrdered
<1> QED BY <1>1, <1>6, <1>7, <1>8, LenProperties

\* What the new transaction adds to the events of an account.
LEMMA EventsAfter ==
  ASSUME ProgramInv, NEW k \in Keys, NEW event \in Events, Land(event, k),
         hash' \in [Keys -> Hashes], version' \in [Keys -> Versions]
  PROVE  /\ Writes(k)' = IF event \in {"Created", "Updated"} THEN Writes(k) \cup {Len(chain) + 1}
                         ELSE Writes(k)
         /\ Revs(k)' = IF event = "Revoked" THEN Revs(k) \cup {Len(chain) + 1} ELSE Revs(k)
         /\ \A q \in Keys \ {k} : Writes(q)' = Writes(q) /\ Revs(q)' = Revs(q)
         /\ \A q \in Keys : Writes(q) \subseteq 1 .. Len(chain) /\ Revs(q) \subseteq 1 .. Len(chain)
         /\ \A i \in 1 .. Len(chain) : chain'[i] = chain[i]
<1>1. Len(chain) \in Nat /\ Len(chain) + 1 \notin 1 .. Len(chain)
  BY LandEffect
<1>2. \A i \in 1 .. Len(chain) + 1 : i = Len(chain) + 1 \/ i \in 1 .. Len(chain)
  BY <1>1
<1>3. /\ DOMAIN chain = 1 .. Len(chain) /\ DOMAIN chain' = 1 .. Len(chain) + 1
      /\ \A i \in 1 .. Len(chain) : chain'[i] = chain[i]
      /\ chain'[Len(chain) + 1].event = event /\ chain'[Len(chain) + 1].key = k
  BY LandEffect
<1>4. ASSUME NEW q \in Keys, NEW types
      PROVE  /\ q = k /\ event \in types => EventsOf(q, types)' = EventsOf(q, types) \cup {Len(chain) + 1}
             /\ q # k \/ event \notin types => EventsOf(q, types)' = EventsOf(q, types)
             /\ EventsOf(q, types) \subseteq 1 .. Len(chain)
  BY <1>1, <1>2, <1>3 DEF EventsOf
<1>5. event \in {"Revoked"} <=> event = "Revoked"
  OBVIOUS
<1> QED BY <1>3, <1>4, <1>5 DEF Writes, Revs

\* A transaction without effect on accounts tells nothing new.
LEMMA QuietTold ==
  ASSUME ProgramInv, NEW k \in Keys, NEW event \in {"Initialized", "Failed", "Other"}, Land(event, k),
         UNCHANGED accountVars
  PROVE  AccountsTold'
<1>1. event \in Events /\ hash' \in [Keys -> Hashes] /\ version' \in [Keys -> Versions]
  BY DEF ProgramInv, AttestationTypeOK, accountVars, Events
<1>2. ASSUME NEW q \in Keys PROVE Writes(q)' = Writes(q) /\ Revs(q)' = Revs(q)
  <2>1. event \notin {"Created", "Updated"} /\ event # "Revoked"
    OBVIOUS
  <2> QED BY <1>1, <2>1, EventsAfter
<1>3. \A q \in Keys : \A i \in Writes(q) \cup Revs(q) : chain'[i] = chain[i]
  BY <1>1, EventsAfter
<1> QED BY <1>2, <1>3 DEF ProgramInv, AccountsTold, accountVars

\* Creating or updating k: its last write is now this one.
LEMMA WriteTold ==
  ASSUME ProgramInv, NEW k \in Keys, NEW event \in {"Created", "Updated"}, Land(event, k),
         NEW h \in Hashes, NEW v \in Versions,
         hash' = [hash EXCEPT ![k] = h], version' = [version EXCEPT ![k] = v],
         accounts' = accounts \cup {k}, UNCHANGED revoked,
         k \notin revoked, event = "Created" <=> k \notin accounts
  PROVE  AccountsTold'
<1> DEFINE n == Len(chain) + 1
<1>1. /\ event \in Events /\ hash' \in [Keys -> Hashes] /\ version' \in [Keys -> Versions]
      /\ hash'[k] = h /\ version'[k] = v
      /\ \A q \in Keys \ {k} : hash'[q] = hash[q] /\ version'[q] = version[q]
  BY DEF ProgramInv, AttestationTypeOK, Events
<1>2. /\ Len(chain) \in Nat
      /\ chain'[n].event = event
      /\ chain'[n].hash = h /\ chain'[n].version = v
      /\ chain'[n].oldHash = hash[k] /\ chain'[n].oldVersion = version[k]
  BY <1>1, LandEffect
<1>3. /\ Writes(k)' = Writes(k) \cup {n} /\ Revs(k)' = Revs(k)
      /\ \A q \in Keys \ {k} : Writes(q)' = Writes(q) /\ Revs(q)' = Revs(q)
      /\ \A q \in Keys : Writes(q) \subseteq 1 .. Len(chain) /\ Revs(q) \subseteq 1 .. Len(chain)
      /\ \A i \in 1 .. Len(chain) : chain'[i] = chain[i]
  BY <1>1, EventsAfter
<1> HIDE DEF n
<1>4. n \in Int /\ \A i \in 1 .. Len(chain) : i < n /\ i \in Int
  BY <1>2 DEF n
<1>5. Revs(k) = {}
  BY DEF ProgramInv, AccountsTold
<1>6. ASSUME NEW q \in Keys, q # k
      PROVE  /\ q \in accounts' =>
                  \E m \in Writes(q)' :
                    /\ \A j \in Writes(q)' : j <= m
                    /\ chain'[m].hash = hash'[q] /\ chain'[m].version = version'[q]
             /\ q \notin accounts' => Writes(q)' = {}
             /\ \A i, j \in Writes(q)' :
                  (i < j /\ \A l \in Writes(q)' : l <= i \/ j <= l) =>
                     /\ chain'[j].event = "Updated"
                     /\ chain'[j].oldHash = chain'[i].hash
                     /\ chain'[j].oldVersion = chain'[i].version
             /\ q \in revoked' <=> Revs(q)' # {}
             /\ \A i \in Revs(q)', j \in Writes(q)' \cup Revs(q)' : j <= i
  BY <1>1, <1>3, <1>6 DEF ProgramInv, AccountsTold
<1>7. \E m \in Writes(k)' :
        /\ \A j \in Writes(k)' : j <= m
        /\ chain'[m].hash = hash'[k] /\ chain'[m].version = version'[k]
  BY <1>1, <1>2, <1>3, <1>4
<1>8. ASSUME NEW i \in Writes(k)', NEW j \in Writes(k)', i < j,
             \A l \in Writes(k)' : l <= i \/ j <= l
      PROVE  /\ chain'[j].event = "Updated"
             /\ chain'[j].oldHash = chain'[i].hash
             /\ chain'[j].oldVersion = chain'[i].version
  <2>1. i \in Writes(k) /\ i \in 1 .. Len(chain)
    BY <1>3, <1>4, <1>8
  <2>2. CASE j \in Writes(k)
    BY <1>3, <1>8, <2>1, <2>2 DEF ProgramInv, AccountsTold
  <2>3. CASE j = n
    <3>1. k \in accounts /\ event = "Updated"
      BY <2>1 DEF ProgramInv, AccountsTold
    <3>2. PICK m \in Writes(k) :
            /\ \A l \in Writes(k) : l <= m
            /\ chain[m].hash = hash[k] /\ chain[m].version = version[k]
      BY <3>1 DEF ProgramInv, AccountsTold
    <3>3. m <= i \/ n <= m
      BY <1>3, <1>8, <2>3
    <3>4. m = i
      BY <1>3, <1>4, <2>1, <3>2, <3>3
    <3> QED BY <1>2, <1>3, <2>1, <2>3, <3>1, <3>2, <3>4
  <2> QED BY <1>3, <2>2, <2>3
<1>9. \A q \in Keys : q \in revoked' <=> Revs(q)' # {}
  BY <1>3 DEF ProgramInv, AccountsTold
<1> QED BY <1>3, <1>5, <1>6, <1>7, <1>8, <1>9 DEF AccountsTold

\* Revoking k: the revocation is its last event.
LEMMA RevokeTold ==
  ASSUME ProgramInv, NEW k \in Keys, Land("Revoked", k),
         k \in accounts \ revoked, revoked' = revoked \cup {k},
         UNCHANGED <<accounts, hash, version>>
  PROVE  AccountsTold'
<1> DEFINE n == Len(chain) + 1
<1>1. hash' \in [Keys -> Hashes] /\ version' \in [Keys -> Versions] /\ "Revoked" \in Events
  BY DEF ProgramInv, AttestationTypeOK, Events
<1>2. Len(chain) \in Nat
  BY <1>1, LandEffect
<1>3. /\ Revs(k)' = Revs(k) \cup {n}
      /\ \A q \in Keys : Writes(q)' = Writes(q)
      /\ \A q \in Keys \ {k} : Revs(q)' = Revs(q)
      /\ \A q \in Keys : Writes(q) \subseteq 1 .. Len(chain) /\ Revs(q) \subseteq 1 .. Len(chain)
      /\ \A i \in 1 .. Len(chain) : chain'[i] = chain[i]
  BY <1>1, EventsAfter
<1> HIDE DEF n
<1>4. n \in Int /\ \A i \in 1 .. Len(chain) : i <= n
  BY <1>2 DEF n
<1>5. Revs(k) = {}
  BY DEF ProgramInv, AccountsTold
<1>6. \A q \in Keys : q \in revoked' <=> Revs(q)' # {}
  BY <1>3 DEF ProgramInv, AccountsTold
<1>7. \A q \in Keys : \A i \in Revs(q)', j \in Writes(q)' \cup Revs(q)' : j <= i
  <2> SUFFICES ASSUME NEW q \in Keys, NEW i \in Revs(q)', NEW j \in Writes(q)' \cup Revs(q)'
               PROVE  j <= i
    OBVIOUS
  <2>1. CASE q = k
    BY <1>3, <1>4, <1>5, <2>1
  <2>2. CASE q # k
    BY <1>3, <2>2 DEF ProgramInv, AccountsTold
  <2> QED BY <2>1, <2>2
<1>8. \A q \in Keys :
        /\ q \in accounts => \E m \in Writes(q)' :
             /\ \A j \in Writes(q)' : j <= m
             /\ chain'[m].hash = hash[q] /\ chain'[m].version = version[q]
        /\ q \notin accounts => Writes(q)' = {}
        /\ \A i, j \in Writes(q)' :
             (i < j /\ \A l \in Writes(q)' : l <= i \/ j <= l) =>
                /\ chain'[j].event = "Updated"
                /\ chain'[j].oldHash = chain'[i].hash
                /\ chain'[j].oldVersion = chain'[i].version
  BY <1>3 DEF ProgramInv, AccountsTold
<1> QED BY <1>6, <1>7, <1>8 DEF AccountsTold

-----------------------------------------------------------------------------
(* Instructions *)

\* Sets of accounts are finite.
LEMMA FiniteAccounts ==
  ASSUME AttestationTypeOK
  PROVE  IsFiniteSet(accounts) /\ IsFiniteSet(revoked)
BY AttestationAssumption, FS_Subset DEF AttestationTypeOK

LEMMA InitializeInv ==
  ASSUME ProgramInv, NEW k \in Keys, NEW s \in Signers, InitializeAuthority(s, k)
  PROVE  ProgramInv'
<1> USE DEF ProgramInv, InitializeAuthority
<1>1. /\ "Initialized" \in Events /\ UNCHANGED <<accounts, hash, version, revoked>>
      /\ hash' \in [Keys -> Hashes] /\ version' \in [Keys -> Versions]
  BY DEF Events, accountVars, AttestationTypeOK
<1>2. chain' \in Seq(Txs) /\ SlotsOrdered'
  BY <1>1, LandEffect
<1>3. AttestationTypeOK'
  BY <1>1, <1>2, AttestationAssumption DEF AttestationTypeOK
<1>4. CountersReconcile'
  <2>1. accounts = {} /\ revoked = {}
    BY DEF Uninitialized, AttestationTypeOK
  <2> QED BY <1>1, <2>1, FS_EmptySet DEF CountersReconcile
<1>5. Uninitialized'
  BY AttestationAssumption DEF Uninitialized
<1>6. AccountsTold'
  BY QuietTold
<1> QED BY <1>2, <1>3, <1>4, <1>5, <1>6

LEMMA CreateInv ==
  ASSUME ProgramInv, NEW k \in Keys, NEW s \in Signers, NEW h \in Hashes, NEW v \in Versions,
         CreateAttestation(s, k, h, v)
  PROVE  ProgramInv'
<1> USE DEF ProgramInv, CreateAttestation
<1>1. "Created" \in Events /\ hash' \in [Keys -> Hashes] /\ version' \in [Keys -> Versions]
  BY DEF Events, AttestationTypeOK
<1>2. chain' \in Seq(Txs) /\ SlotsOrdered'
  BY <1>1, LandEffect
<1>3. AttestationTypeOK'
  BY <1>1, <1>2, AttestationAssumption DEF AttestationTypeOK
<1>4. CountersReconcile'
  BY FiniteAccounts, FS_AddElement DEF CountersReconcile
<1>5. AccountsTold'
  BY WriteTold DEF AttestationTypeOK
<1> QED BY <1>2, <1>3, <1>4, <1>5 DEF Uninitialized

LEMMA UpdateInv ==
  ASSUME ProgramInv, NEW k \in Keys, NEW s \in Signers, NEW h \in Hashes, NEW v \in Versions,
         UpdateAttestation(s, k, h, v)
  PROVE  ProgramInv'
<1> USE DEF ProgramInv, UpdateAttestation
<1>1. "Updated" \in Events /\ hash' \in [Keys -> Hashes] /\ version' \in [Keys -> Versions]
  BY DEF Events, AttestationTypeOK
<1>2. chain' \in Seq(Txs) /\ SlotsOrdered'
  BY <1>1, LandEffect
<1>3. AttestationTypeOK'
  BY <1>1, <1>2 DEF AttestationTypeOK
<1>4. CountersReconcile' /\ Uninitialized'
  BY DEF CountersReconcile, Uninitialized
<1>5. AccountsTold'
  <2>1. accounts' = accounts \cup {k}
    OBVIOUS
  <2> QED BY <2>1, WriteTold
<1> QED BY <1>2, <1>3, <1>4, <1>5

LEMMA RevokeInv ==
  ASSUME ProgramInv, NEW k \in Keys, NEW s \in Signers, RevokeAttestation(s, k)
  PROVE  ProgramInv'
<1> USE DEF ProgramInv, RevokeAttestation
<1>1. "Revoked" \in Events /\ hash' \in [Keys -> Hashes] /\ version' \in [Keys -> Versions]
  BY DEF Events, AttestationTypeOK
<1>2. chain' \in Seq(Txs) /\ SlotsOrdered'
  BY <1>1, LandEffect
<1>3. AttestationTypeOK'
  BY <1>1, <1>2, AttestationAssumption DEF AttestationTypeOK
<1>4. CountersReconcile' /\ Uninitialized'
  BY FiniteAccounts, FS_AddElement DEF CountersReconcile, Uninitialized
<1>5. AccountsTold'
  BY RevokeTold
<1> QED BY <1>2, <1>3, <1>4, <1>5

LEMMA AbortInv ==
  ASSUME ProgramInv, NEW k \in Keys, Abort(k) \/ Mention(k)
  PROVE  ProgramInv'
<1> USE DEF ProgramInv, Abort, Mention
<1>1. /\ {"Failed", "Other"} \subseteq Events /\ UNCHANGED <<accounts, hash, version, revoked>>
      /\ hash' \in [Keys -> Hashes] /\ version' \in [Keys -> Versions]
  BY DEF Events, accountVars, AttestationTypeOK
<1>2. chain' \in Seq(Txs) /\ SlotsOrdered'
  BY <1>1, LandEffect
<1>3. AttestationTypeOK'
  BY <1>1, <1>2 DEF AttestationTypeOK
<1>4. CountersReconcile' /\ Uninitialized'
  BY <1>1 DEF CountersReconcile, Uninitialized
<1>5. AccountsTold'
  BY QuietTold
<1> QED BY <1>2, <1>3, <1>4, <1>5

LEMMA ProgramStep == ProgramInv /\ ProgramNext => ProgramInv'
BY InitializeInv, CreateInv, UpdateInv, RevokeInv, AbortInv DEF ProgramNext

LEMMA ProgramStutter == ProgramInv /\ UNCHANGED programVars => ProgramInv'
BY DEF programVars, ProgramInv, AttestationTypeOK, SlotsOrdered, Uninitialized,
       CountersReconcile, AccountsTold, Writes, Revs, EventsOf

LEMMA ProgramInvariance == ProgramSpec => []ProgramInv
<1>1. ProgramInv /\ [ProgramNext]_programVars => ProgramInv'
  BY ProgramStep, ProgramStutter
<1> QED BY <1>1, ProgramInitInv, PTL DEF ProgramSpec

\* Accounts and counters stay in their domains, also at the limit of a counter.
THEOREM ProgramTyping == ProgramSpec => []AttestationTypeOK
BY ProgramInvariance, PTL DEF ProgramInv

\* For any number of accounts and signers: the counters of the authority account are the
\* numbers of attestations that exist and that are revoked.
THEOREM Reconciliation == ProgramSpec => []CountersReconcile
BY ProgramInvariance, PTL DEF ProgramInv

\* The largest element of a set that has one
LEMMA LatestIs ==
  ASSUME NEW S \in SUBSET Int, NEW m \in S, \A j \in S : j <= m
  PROVE  Latest(S) = m
<1>1. \A n \in S : (\A j \in S : j <= n) => n = m
  OBVIOUS
<1>2. Latest(S) \in S /\ \A j \in S : j <= Latest(S)
  BY DEF Latest
<1> QED BY <1>1, <1>2

\* For chains of any length: whoever replays the events has the accounts.
THEOREM Replayable == ProgramSpec => []EventsTellAccounts
<1>1. ProgramInv => EventsTellAccounts
  <2> SUFFICES ASSUME ProgramInv, NEW k \in Keys
               PROVE  /\ k \in accounts <=> Writes(k) # {}
                      /\ Writes(k) # {} =>
                           /\ chain[Latest(Writes(k))].hash = hash[k]
                           /\ chain[Latest(Writes(k))].version = version[k]
                      /\ \A i, j \in Writes(k) :
                           (i < j /\ \A l \in Writes(k) : l <= i \/ j <= l) =>
                              /\ chain[j].event = "Updated"
                              /\ chain[j].oldHash = chain[i].hash
                              /\ chain[j].oldVersion = chain[i].version
                      /\ k \in revoked <=> Revs(k) # {}
                      /\ \A i \in Revs(k), j \in Writes(k) \cup Revs(k) : j <= i
    BY DEF EventsTellAccounts, Writes, Revs
  <2>1. Writes(k) \subseteq Int
    BY LenProperties DEF Writes, EventsOf, ProgramInv, AttestationTypeOK
  <2>2. k \in accounts <=> Writes(k) # {}
    BY DEF ProgramInv, AccountsTold
  <2>3. ASSUME Writes(k) # {}
        PROVE  /\ chain[Latest(Writes(k))].hash = hash[k]
               /\ chain[Latest(Writes(k))].version = version[k]
    <3>1. PICK m \in Writes(k) :
            /\ \A j \in Writes(k) : j <= m
            /\ chain[m].hash = hash[k] /\ chain[m].version = version[k]
      BY <2>2, <2>3 DEF ProgramInv, AccountsTold
    <3> QED BY <2>1, <3>1, LatestIs
  <2> QED BY <2>2, <2>3 DEF ProgramInv, AccountsTold
<1> QED BY <1>1, ProgramInvariance, PTL

-----------------------------------------------------------------------------
(***************************************************************************)
(* The indexer                                                             *)
(***************************************************************************)

\* Slot l is no slot yet, or that of a transaction that succeeded, and its event, if it
\* logged one, is recorded while no call fails.
Replayed(l) ==
  l # 0 => \E i \in DOMAIN chain :
             chain[i].slot = l /\ Succeeded(i) /\ (faults = 0 /\ Logs(i) => i \in seen)

\* What is left of a page can be replayed: its transactions succeeded, and the limit of
\* the run is not reached.
PageOpen ==
  \A r \in Recoveries :
    /\ \A i \in page[r] : Succeeded(i)
    /\ page[r] # {} => count[r] < MaxPerRun

\* The two loops: the walk goes down a page whose oldest transaction is oldest[r], past
\* slots that are later than lastSlot.
LoopFits(r) ==
  /\ page[r] # {} => pc[r] \in {"walk", "last"}
  /\ pc[r] = "page" => count[r] < MaxPerRun
  /\ pc[r] = "idle" => count[r] = 0 /\ upto[r] = 0 /\ oldest[r] = 0
  /\ pc[r] = "last" => oldest[r] = 1
  /\ oldest[r] = 0 => upto[r] = 0
  /\ \A i \in page[r] : oldest[r] <= i /\ last[r] < chain[i].slot

\* Of what its first page could show, a recovery has passed everything, but for the rest of
\* its page and what lies before the page.
Covered(r) ==
  faults = 0 =>
    \A i \in DOMAIN chain :
      i <= upto[r] /\ Succeeded(i) =>
        \/ chain[i].slot <= last[r]
        \/ i \in page[r]
        \/ i < oldest[r] /\ pc[r] # "save"

Walks == \A r \in Recoveries : LoopFits(r) /\ Covered(r)

SlotsReplayed == Replayed(checkpoint) /\ \A r \in Recoveries : Replayed(last[r])

IndexerInv ==
  /\ ProgramInv
  /\ IndexerTypeOK
  /\ PageOpen
  /\ SlotsReplayed
  /\ Walks

\* The chain as the indexer reads it
LEMMA ChainType ==
  ASSUME ProgramInv
  PROVE  /\ Len(chain) \in Nat /\ DOMAIN chain = 1 .. Len(chain)
         /\ \A i \in DOMAIN chain : chain[i].slot \in Slots
<1>1. Len(chain) \in Nat /\ DOMAIN chain = 1 .. Len(chain) /\ \A i \in DOMAIN chain : chain[i] \in Txs
  BY LenProperties DEF ProgramInv, AttestationTypeOK
<1>2. \A tx \in Txs : tx.slot \in Slots
  BY AttestationAssumption DEF Txs, Slots
<1> QED BY <1>1, <1>2

LEMMA IndexerInitInv == Init => IndexerInv
<1> SUFFICES ASSUME Init PROVE IndexerInv
  OBVIOUS
<1>1. ProgramInv
  BY ProgramInitInv DEF Init
<1>2. IndexerTypeOK
  <2>1. 0 \in Slots /\ 0 \in 0 .. MaxFaults /\ 0 \in 0 .. MaxPerRun
    BY AttestationAssumption, IndexerAssumption DEF Slots
  <2> QED BY <2>1 DEF Init, IndexerInit, IndexerTypeOK
<1>3. Walks
  <2>1. \A i \in DOMAIN chain : ~(i <= 0)
    BY <1>1, ChainType
  <2> QED BY <2>1 DEF Init, IndexerInit, Walks, LoopFits, Covered
<1> QED BY <1>1, <1>2, <1>3 DEF Init, IndexerInit, IndexerInv, PageOpen, SlotsReplayed, Replayed

\* What was replayed stays so: the chain and the recorded events only grow.
LEMMA ReplayedKept ==
  ASSUME NEW l, Replayed(l), UNCHANGED chain, seen \subseteq seen',
         faults \in Nat, faults' = faults \/ faults' = faults + 1
  PROVE  Replayed(l)'
BY DEF Replayed, Logs, Succeeded

-----------------------------------------------------------------------------
(* Steps of the listener *)

\* A transaction lands: nothing that an index stands for changes.
LEMMA ConfirmInv ==
  ASSUME IndexerInv, Confirm
  PROVE  IndexerInv'
<1> USE DEF IndexerInv, Confirm, dbVars, recoveryVars
<1>1. ProgramInv'
  BY ProgramStep
<1>2. /\ Len(chain') = Len(chain) + 1
      /\ DOMAIN chain' = 1 .. Len(chain) + 1
      /\ \A i \in 1 .. Len(chain) : chain'[i] = chain[i]
  <2>1. PICK k \in Keys, event \in Events : Land(event, k)
    BY DEF ProgramNext, InitializeAuthority, CreateAttestation, UpdateAttestation,
           RevokeAttestation, Abort, Mention, Events
  <2>2. hash' \in [Keys -> Hashes] /\ version' \in [Keys -> Versions]
    BY <1>1 DEF ProgramInv, AttestationTypeOK
  <2> QED BY <2>1, <2>2, LandEffect
<1>3. Len(chain) \in Nat /\ DOMAIN chain = 1 .. Len(chain)
  BY ChainType
<1>4. DOMAIN chain \subseteq DOMAIN chain' /\ Len(chain') \in DOMAIN chain'
  BY <1>2, <1>3
<1>5. IndexerTypeOK'
  BY <1>4 DEF IndexerTypeOK
<1>6. PageOpen'
  BY <1>2, <1>3 DEF PageOpen, IndexerTypeOK, Succeeded
<1>7. SlotsReplayed'
  BY <1>2, <1>3, <1>4 DEF SlotsReplayed, Replayed, Logs, Succeeded
<1>8. Walks'
  <2>1. \A r \in Recoveries : LoopFits(r)'
    BY <1>2, <1>3 DEF Walks, LoopFits, IndexerTypeOK
  <2>2. ASSUME NEW r \in Recoveries PROVE Covered(r)'
    <3>1. \A i \in DOMAIN chain' : i <= upto[r] => i \in DOMAIN chain
      BY <1>2, <1>3 DEF IndexerTypeOK
    <3> QED BY <1>2, <1>3, <3>1 DEF Walks, Covered, Succeeded
  <2> QED BY <2>1, <2>2 DEF Walks
<1> QED BY <1>1, <1>5, <1>6, <1>7, <1>8

\* A call that succeeds, or one more that fails.
LEMMA FaultsType ==
  ASSUME IndexerTypeOK, UNCHANGED faults \/ Faulty
  PROVE  /\ faults \in Nat /\ faults' \in 0 .. MaxFaults
         /\ faults' = faults \/ faults' = faults + 1
BY IndexerAssumption DEF IndexerTypeOK, Faulty

\* Recording adds events of the chain only.
LEMMA RecordType ==
  ASSUME IndexerTypeOK, NEW i \in DOMAIN chain, Record(i) \/ UNCHANGED seen
  PROVE  /\ seen' \subseteq DOMAIN chain /\ seen \subseteq seen'
         /\ Record(i) /\ Logs(i) => i \in seen'
BY DEF IndexerTypeOK, Record

LEMMA ListenerInv ==
  ASSUME IndexerInv, UNCHANGED programVars,
         StartListening \/ StopListening \/ \E i \in inbox : Process(i)
  PROVE  IndexerInv'
<1> USE DEF IndexerInv, dbVars, recoveryVars
<1>1. ProgramInv' /\ UNCHANGED chain
  BY ProgramStutter DEF programVars
<1>2. /\ UNCHANGED <<checkpoint, pc, last, page, oldest, count, upto>>
      /\ UNCHANGED faults \/ Faulty
      /\ seen' \subseteq DOMAIN chain /\ seen \subseteq seen'
      /\ listening' \in BOOLEAN /\ inbox' \subseteq DOMAIN chain
  BY RecordType DEF StartListening, StopListening, Process, IndexerTypeOK
<1>3. IndexerTypeOK'
  BY <1>1, <1>2, FaultsType DEF IndexerTypeOK
<1>4. PageOpen'
  BY <1>1, <1>2 DEF PageOpen, Succeeded
<1>5. SlotsReplayed'
  BY <1>1, <1>2, FaultsType, ReplayedKept DEF SlotsReplayed
<1>6. Walks'
  BY <1>1, <1>2, FaultsType DEF Walks, LoopFits, Covered, Succeeded
<1> QED BY <1>1, <1>3, <1>4, <1>5, <1>6

-----------------------------------------------------------------------------
(* Steps of a recovery *)

LoopType ==
  /\ pc' \in [Recoveries -> {"idle", "page", "walk", "last", "save"}]
  /\ last' \in [Recoveries -> Slots]
  /\ page' \in [Recoveries -> SUBSET DOMAIN chain]
  /\ oldest' \in [Recoveries -> {0} \cup DOMAIN chain]
  /\ count' \in [Recoveries -> 0 .. MaxPerRun]
  /\ upto' \in [Recoveries -> {0} \cup DOMAIN chain]

\* A step of r keeps the invariant when r is left with events to replay and the slot of
\* one that was.
LEMMA RecoveryKept ==
  ASSUME IndexerInv, UNCHANGED programVars, NEW r \in Recoveries, LoopType,
         seen' \subseteq DOMAIN chain, seen \subseteq seen', checkpoint' \in Slots,
         UNCHANGED <<listening, inbox>>, UNCHANGED faults \/ Faulty,
         \A q \in Recoveries \ {r} :
           /\ last'[q] = last[q] /\ page'[q] = page[q] /\ count'[q] = count[q]
           /\ pc'[q] = pc[q] /\ oldest'[q] = oldest[q] /\ upto'[q] = upto[q],
         LoopFits(r)', Covered(r)',
         \A i \in page'[r] : Succeeded(i),
         page'[r] # {} => count'[r] < MaxPerRun,
         Replayed(checkpoint)', \A l : l = last'[r] => Replayed(l)'
  PROVE  IndexerInv'
<1> USE DEF IndexerInv
<1>1. ProgramInv' /\ UNCHANGED chain
  BY ProgramStutter DEF programVars
<1>2. IndexerTypeOK'
  BY <1>1, FaultsType DEF IndexerTypeOK, LoopType
<1>3. PageOpen'
  BY <1>1 DEF PageOpen, Succeeded
<1>4. SlotsReplayed'
  <2>1. ASSUME NEW q \in Recoveries PROVE \A l : l = last'[q] => Replayed(l)'
    BY <1>1, FaultsType, ReplayedKept DEF SlotsReplayed
  <2> QED BY <2>1 DEF SlotsReplayed, Replayed
<1>5. Walks'
  BY <1>1, FaultsType DEF Walks, LoopFits, Covered, Succeeded
<1> QED BY <1>1, <1>2, <1>3, <1>4, <1>5

\* The loop of r went on with lastSlot l and n transactions replayed: what it left of
\* the page, and where it went.
Walked(r, rest, short, l, n) ==
  /\ pc' \in [Recoveries -> {"idle", "page", "walk", "last", "save"}]
  /\ last' \in [Recoveries -> Slots]
  /\ page' \in [Recoveries -> SUBSET DOMAIN chain]
  /\ count' \in [Recoveries -> 0 .. MaxPerRun]
  /\ last'[r] = l /\ count'[r] = n
  /\ \A q \in Recoveries \ {r} :
       /\ last'[q] = last[q] /\ page'[q] = page[q] /\ count'[q] = count[q]
       /\ pc'[q] = pc[q]
  /\ \A i \in page'[r] : Succeeded(i)
  /\ page'[r] # {} => count'[r] < MaxPerRun
  /\ page'[r] = {i \in rest : n # MaxPerRun /\ ~Skips(i, l)}
  /\ page'[r] # {} => pc'[r] = IF short THEN "last" ELSE "walk"
  /\ page'[r] = {} => pc'[r] = IF short \/ n = MaxPerRun THEN "save" ELSE "page"

\* The loop of recoverFromCheckpoint goes on with what can be replayed.
LEMMA ContinueEffect ==
  ASSUME IndexerTypeOK, NEW r \in Recoveries, NEW rest \in SUBSET DOMAIN chain,
         NEW short \in BOOLEAN, NEW l \in Slots, NEW n \in 0 .. MaxPerRun,
         Continue(r, rest, short, l, n)
  PROVE  Walked(r, rest, short, l, n)
<1> DEFINE left == {i \in rest : n # MaxPerRun /\ ~Skips(i, l)}
           to == CASE left # {} -> IF short THEN "last" ELSE "walk"
                   [] left = {} /\ (short \/ n = MaxPerRun) -> "save"
                   [] OTHER -> "page"
<1>1. /\ page' = [page EXCEPT ![r] = left] /\ pc' = [pc EXCEPT ![r] = to]
      /\ last' = [last EXCEPT ![r] = l] /\ count' = [count EXCEPT ![r] = n]
  BY DEF Continue
<1>2. /\ to \in {"idle", "page", "walk", "last", "save"}
      /\ left # {} => to = IF short THEN "last" ELSE "walk"
      /\ left = {} => to = IF short \/ n = MaxPerRun THEN "save" ELSE "page"
  OBVIOUS
<1>3. left \subseteq DOMAIN chain /\ \A i \in left : Succeeded(i)
  BY DEF Skips
<1>4. left # {} => n < MaxPerRun
  BY IndexerAssumption
<1>5. left = {i \in rest : n # MaxPerRun /\ ~Skips(i, l)}
  OBVIOUS
<1> HIDE DEF left, to
<1>6. /\ page'[r] = left /\ pc'[r] = to /\ last'[r] = l /\ count'[r] = n
      /\ \A q \in Recoveries \ {r} :
           /\ last'[q] = last[q] /\ page'[q] = page[q] /\ count'[q] = count[q]
           /\ pc'[q] = pc[q]
      /\ pc' \in [Recoveries -> {"idle", "page", "walk", "last", "save"}]
      /\ last' \in [Recoveries -> Slots]
      /\ page' \in [Recoveries -> SUBSET DOMAIN chain]
      /\ count' \in [Recoveries -> 0 .. MaxPerRun]
  BY <1>1, <1>2, <1>3 DEF IndexerTypeOK
<1> QED BY <1>2, <1>3, <1>4, <1>5, <1>6 DEF Walked

\* A page lies on the chain, and so does its oldest transaction.
LEMMA PageType ==
  ASSUME ProgramInv, NEW b \in {0} \cup DOMAIN chain
  PROVE  /\ PageBefore(b) \subseteq DOMAIN chain
         /\ (IF Top(b) = 0 THEN b ELSE Bottom(b)) \in {0} \cup DOMAIN chain
         /\ \A i \in PageBefore(b) : Bottom(b) <= i
         /\ \A i \in 1 .. Top(b) : i < Bottom(b) \/ i \in PageBefore(b)
         /\ Top(b) \in 0 .. Len(chain) /\ Bottom(b) \in 1 .. Len(chain) + 1
         /\ Top(b) < PageSize => Bottom(b) = 1
<1>1. Len(chain) \in Nat /\ DOMAIN chain = 1 .. Len(chain)
  BY ChainType
<1>2. Top(b) \in 0 .. Len(chain)
  BY <1>1 DEF Top
<1>3. Bottom(b) \in 1 .. Top(b) + 1 /\ (Top(b) # 0 => Bottom(b) <= Top(b))
  BY <1>1, <1>2, IndexerAssumption DEF Bottom
<1>4. /\ \A i \in PageBefore(b) : Bottom(b) <= i
      /\ \A i \in 1 .. Top(b) : i < Bottom(b) \/ i \in PageBefore(b)
      /\ PageBefore(b) \subseteq 1 .. Len(chain)
  <2>1. Top(b) \in Nat /\ Bottom(b) \in Nat /\ Top(b) <= Len(chain) /\ Bottom(b) >= 1
    BY <1>1, <1>2, <1>3
  <2> QED BY <1>1, <2>1 DEF PageBefore
<1>5. Top(b) < PageSize => Bottom(b) = 1
  BY DEF Bottom
<1>6. Bottom(b) \in 1 .. Len(chain) + 1 /\ (Top(b) # 0 => Bottom(b) \in 1 .. Len(chain))
  BY <1>1, <1>2, <1>3
<1> QED BY <1>1, <1>2, <1>4, <1>5, <1>6

LEMMA BeginInv ==
  ASSUME IndexerInv, UNCHANGED programVars, NEW r \in Recoveries, Begin(r)
  PROVE  IndexerInv'
<1> USE DEF IndexerInv, Begin, dbVars, listenerVars
<1>1. UNCHANGED chain
  BY DEF programVars
<1>2. LoopType
  BY DEF LoopType, IndexerTypeOK
<1>3. last'[r] = checkpoint
  BY DEF IndexerTypeOK
<1>4. Replayed(checkpoint)' /\ \A l : Replayed(l) => Replayed(l)'
  BY <1>1 DEF SlotsReplayed, Replayed, Logs, Succeeded
<1>5. LoopFits(r)' /\ Covered(r)'
  <2>1. pc[r] = "idle" /\ pc'[r] = "page" /\ LoopFits(r)
    BY DEF Walks, IndexerTypeOK
  <2>2. page[r] = {} /\ count[r] = 0 /\ upto[r] = 0 /\ oldest[r] = 0
    BY <2>1 DEF LoopFits
  <2>3. \A i \in DOMAIN chain : ~(i <= 0)
    BY ChainType
  <2> QED BY <1>1, <2>1, <2>2, <2>3, IndexerAssumption DEF LoopFits, Covered
<1>6. \A q \in Recoveries \ {r} : last'[q] = last[q] /\ pc'[q] = pc[q]
  BY DEF IndexerTypeOK
<1> QED BY <1>2, <1>3, <1>4, <1>5, <1>6, RecoveryKept DEF SlotsReplayed, PageOpen, IndexerTypeOK

LEMMA FetchInv ==
  ASSUME IndexerInv, UNCHANGED programVars, NEW r \in Recoveries, FetchPage(r)
  PROVE  IndexerInv'
<1> USE DEF IndexerInv, dbVars, listenerVars
<1>1. UNCHANGED chain /\ UNCHANGED <<seen, checkpoint, listening, inbox, faults>>
  BY DEF programVars, FetchPage
<1>2. /\ oldest[r] \in {0} \cup DOMAIN chain /\ last[r] \in Slots
      /\ count[r] \in 0 .. MaxPerRun /\ upto[r] \in {0} \cup DOMAIN chain
  BY DEF IndexerTypeOK
<1> DEFINE b == oldest[r]
           bottom == IF Top(b) = 0 THEN b ELSE Bottom(b)
           top == IF b = 0 THEN Len(chain) ELSE upto[r]
           short == Top(b) < PageSize
<1>3. /\ Len(chain) \in Nat /\ DOMAIN chain = 1 .. Len(chain)
      /\ bottom \in {0} \cup DOMAIN chain /\ top \in {0} \cup DOMAIN chain
  BY <1>2, ChainType, PageType
<1>4. /\ oldest' = [oldest EXCEPT ![r] = bottom] /\ upto' = [upto EXCEPT ![r] = top]
      /\ Continue(r, PageBefore(b), short, last[r], count[r])
  BY DEF FetchPage
<1>5. PageBefore(b) \in SUBSET DOMAIN chain /\ short \in BOOLEAN
  BY <1>2, PageType
<1>6. Walked(r, PageBefore(b), short, last[r], count[r])
  BY <1>2, <1>4, <1>5, ContinueEffect
<1>7. LoopType
  <2>1. /\ oldest' \in [Recoveries -> {0} \cup DOMAIN chain]
        /\ upto' \in [Recoveries -> {0} \cup DOMAIN chain]
    BY <1>3, <1>4 DEF IndexerTypeOK
  <2> QED BY <1>6, <2>1 DEF Walked, LoopType
<1>8. /\ oldest'[r] = bottom /\ upto'[r] = top
      /\ \A q \in Recoveries \ {r} : oldest'[q] = oldest[q] /\ upto'[q] = upto[q]
  BY <1>4 DEF IndexerTypeOK
<1>9. pc[r] = "page" /\ page[r] = {} /\ count[r] < MaxPerRun /\ (b = 0 => upto[r] = 0)
  BY DEF FetchPage, Walks, LoopFits
<1>10. \A i \in PageBefore(b) : i \in page'[r] \/ ~Succeeded(i) \/ chain[i].slot <= last[r]
  BY <1>6, <1>9, IndexerAssumption DEF Walked, Skips
<1>11. /\ \A i \in PageBefore(b) : bottom <= i /\ Top(b) # 0
       /\ \A i \in DOMAIN chain : i <= Top(b) => i < bottom \/ i \in PageBefore(b)
       /\ short => bottom \in {0, 1}
       /\ Top(b) = IF b = 0 THEN Len(chain) ELSE b - 1
  <2>1. \A i \in PageBefore(b) : i \in Nat /\ i <= Top(b) /\ i \in DOMAIN chain
    BY <1>2, <1>3, <1>5, PageType DEF PageBefore
  <2>2. /\ \A i \in PageBefore(b) : Bottom(b) <= i
        /\ \A i \in 1 .. Top(b) : i < Bottom(b) \/ i \in PageBefore(b)
        /\ Top(b) \in 0 .. Len(chain) /\ (short => Bottom(b) = 1)
    BY <1>2, PageType
  <2>3. Top(b) = IF b = 0 THEN Len(chain) ELSE b - 1
    BY DEF Top
  <2>4. \A i \in PageBefore(b) : Top(b) # 0
    BY <1>3, <2>1, <2>2
  <2>5. CASE Top(b) = 0
    BY <1>2, <1>3, <2>2, <2>3, <2>4, <2>5
  <2>6. CASE Top(b) # 0
    BY <1>3, <2>2, <2>3, <2>4, <2>6
  <2> QED BY <2>5, <2>6
<1> HIDE DEF b, bottom, top, short
<1>12. LoopFits(r)'
  <2>1. /\ page'[r] # {} => pc'[r] \in {"walk", "last"}
        /\ pc'[r] # "idle" /\ (pc'[r] = "page" => count'[r] < MaxPerRun)
    BY <1>6, <1>9 DEF Walked
  <2>2. \A i \in page'[r] : bottom <= i /\ last[r] < chain[i].slot /\ Top(b) # 0
    <3>1. \A i \in page'[r] : i \in PageBefore(b) /\ ~(chain[i].slot <= last[r])
      BY <1>6 DEF Walked, Skips
    <3>2. \A i \in page'[r] : chain[i].slot \in Nat /\ last[r] \in Nat
      BY <1>2, <1>5, <3>1, ChainType, AttestationAssumption DEF Slots
    <3> QED BY <1>11, <3>1, <3>2
  <2>3. pc'[r] = "last" => bottom = 1
    <3>1. pc'[r] = "last" => short /\ page'[r] # {}
      BY <1>6 DEF Walked
    <3>2. bottom = 0 => Top(b) = 0
      BY <1>2, PageType DEF bottom, b
    <3> QED BY <1>11, <2>2, <3>1, <3>2
  <2>4. bottom = 0 => top = 0
    BY <1>2, <1>3, IndexerAssumption DEF bottom, top, b, Bottom, Top
  <2> QED BY <1>1, <1>6, <1>8, <2>1, <2>2, <2>3, <2>4 DEF LoopFits, Walked
<1>13. Covered(r)'
  <2> SUFFICES ASSUME faults = 0, NEW i \in DOMAIN chain, i <= top, Succeeded(i)
               PROVE  \/ chain[i].slot <= last[r]
                      \/ i \in page'[r]
                      \/ i < bottom /\ pc'[r] # "save"
    BY <1>1, <1>6, <1>8 DEF Covered, Walked, Succeeded
  <2>1. CASE i <= Top(b)
    <3>1. i < bottom => pc'[r] # "save"
      <4>1. i < bottom => ~short
        BY <1>3, <1>11
      <4> QED BY <1>6, <1>9, <4>1, IndexerAssumption DEF Walked
    <3> QED BY <1>10, <1>11, <2>1, <3>1
  <2>2. CASE ~(i <= Top(b))
    <3>1. b # 0 /\ ~(i < b) /\ i <= upto[r]
      BY <1>2, <1>3, <1>11, <2>2 DEF b, top
    <3> QED BY <1>9, <3>1 DEF Walks, Covered, b
  <2> QED BY <2>1, <2>2
<1>14. \A q \in Recoveries \ {r} :
         /\ last'[q] = last[q] /\ page'[q] = page[q] /\ count'[q] = count[q]
         /\ pc'[q] = pc[q] /\ oldest'[q] = oldest[q] /\ upto'[q] = upto[q]
  BY <1>6, <1>8 DEF Walked
<1>15. /\ last'[r] = last[r]
       /\ \A i \in page'[r] : Succeeded(i)
       /\ page'[r] # {} => count'[r] < MaxPerRun
  BY <1>6 DEF Walked
<1>16. \A l : Replayed(l) => Replayed(l)'
  BY <1>1 DEF Replayed, Logs, Succeeded
<1> QED BY <1>1, <1>7, <1>12, <1>13, <1>14, <1>15, <1>16, RecoveryKept
        DEF SlotsReplayed, IndexerTypeOK

\* The walk of r goes on past transaction i of its page.
LEMMA WalkFits ==
  ASSUME IndexerInv, UNCHANGED <<chain, oldest, upto>>, NEW r \in Recoveries, NEW i \in page[r],
         NEW l \in Slots, NEW n \in 0 .. MaxPerRun,
         Continue(r, page[r] \ {i}, pc[r] = "last", l, n)
  PROVE  /\ LoopType /\ LoopFits(r)' /\ last'[r] = l
         /\ \A q \in Recoveries \ {r} :
              /\ last'[q] = last[q] /\ page'[q] = page[q] /\ count'[q] = count[q]
              /\ pc'[q] = pc[q] /\ oldest'[q] = oldest[q] /\ upto'[q] = upto[q]
         /\ \A j \in page'[r] : Succeeded(j)
         /\ page'[r] # {} => count'[r] < MaxPerRun
<1> USE DEF IndexerInv
<1> DEFINE short == pc[r] = "last"
<1>1. page[r] \ {i} \in SUBSET DOMAIN chain /\ short \in BOOLEAN
  BY DEF IndexerTypeOK
<1>2. Walked(r, page[r] \ {i}, short, l, n)
  BY <1>1, ContinueEffect
<1>3. LoopType
  BY <1>2 DEF Walked, LoopType, IndexerTypeOK
<1>4. LoopFits(r) /\ page[r] # {}
  BY DEF Walks
<1>5. \A j \in page'[r] : oldest[r] <= j /\ l < chain[j].slot
  <2>1. \A j \in page'[r] : j \in page[r] /\ ~(chain[j].slot <= l)
    BY <1>2 DEF Walked, Skips
  <2>2. \A j \in page[r] : chain[j].slot \in Nat /\ l \in Nat
    BY ChainType, AttestationAssumption DEF IndexerTypeOK, Slots
  <2> QED BY <1>4, <2>1, <2>2 DEF LoopFits
<1>6. /\ page'[r] # {} => pc'[r] \in {"walk", "last"}
      /\ pc'[r] = "page" => n < MaxPerRun
      /\ pc'[r] # "idle"
      /\ pc'[r] = "last" => pc[r] = "last"
  BY <1>2, IndexerAssumption DEF Walked
<1>7. LoopFits(r)'
  BY <1>2, <1>4, <1>5, <1>6 DEF LoopFits, Walked
<1> QED BY <1>2, <1>3, <1>7 DEF Walked

LEMMA TransactionFailsInv ==
  ASSUME IndexerInv, UNCHANGED programVars, NEW r \in Recoveries, TransactionFails(r)
  PROVE  IndexerInv'
<1> USE DEF IndexerInv, dbVars, listenerVars
<1>1. /\ UNCHANGED chain /\ UNCHANGED <<seen, checkpoint, listening, inbox, oldest, upto>>
      /\ Faulty
  BY DEF programVars, TransactionFails
<1>2. PICK i \in page[r] : Continue(r, page[r] \ {i}, pc[r] = "last", last[r], count[r])
  BY DEF TransactionFails
<1>3. last[r] \in Slots /\ count[r] \in 0 .. MaxPerRun
  BY DEF IndexerTypeOK
<1>4. Covered(r)'
  BY <1>1, FaultsType DEF Covered, Faulty
<1>5. \A l : Replayed(l) => Replayed(l)'
  BY <1>1, FaultsType, ReplayedKept
<1> QED BY <1>1, <1>2, <1>3, <1>4, <1>5, WalkFits, RecoveryKept DEF SlotsReplayed, IndexerTypeOK

\* lastSlot becomes the slot of a transaction whose event, if it has one, was just passed
\* on: everything before it in the chain is behind it now.
LEMMA ReplayInv ==
  ASSUME IndexerInv, UNCHANGED programVars, NEW r \in Recoveries, Replay(r)
  PROVE  IndexerInv'
<1> USE DEF IndexerInv, dbVars, listenerVars
<1>1. UNCHANGED chain /\ UNCHANGED <<checkpoint, listening, inbox, oldest, upto>>
  BY DEF programVars, Replay
<1>2. PICK i \in page[r] :
        /\ WalksAt(r, i)
        /\ \/ Record(i) /\ UNCHANGED faults
           \/ Faulty /\ UNCHANGED seen
        /\ Continue(r, page[r] \ {i}, pc[r] = "last", chain[i].slot, count[r] + 1)
  BY DEF Replay
<1>3. i \in DOMAIN chain /\ Succeeded(i) /\ chain[i].slot \in Slots
  BY ChainType DEF IndexerTypeOK, PageOpen
<1>4. count[r] + 1 \in 0 .. MaxPerRun
  BY IndexerAssumption DEF IndexerTypeOK, PageOpen
<1>5. /\ seen' \subseteq DOMAIN chain /\ seen \subseteq seen'
      /\ UNCHANGED faults \/ Faulty
      /\ faults' = 0 /\ Logs(i) => i \in seen'
  <2>1. Faulty => faults' # 0
    BY FaultsType DEF Faulty
  <2> QED BY <1>2, <1>3, <2>1, RecordType
<1>6. \A l : Replayed(l) => Replayed(l)'
  BY <1>1, <1>5, FaultsType, ReplayedKept
<1>7. \A l : l = chain[i].slot => Replayed(l)'
  BY <1>1, <1>3, <1>5 DEF Replayed, Logs, Succeeded
<1>8. last'[r] = chain[i].slot
  BY <1>1, <1>2, <1>3, <1>4, WalkFits
<1>9. Covered(r)'
  <2> SUFFICES ASSUME faults = 0, NEW j \in DOMAIN chain, j <= upto[r], Succeeded(j)
               PROVE  chain[j].slot <= chain[i].slot
    BY <1>1, <1>5, <1>8, FaultsType DEF Covered, Succeeded
  <2>1. /\ i \in Nat /\ j \in Nat /\ oldest[r] \in Nat /\ last[r] \in Nat
        /\ chain[i].slot \in Nat /\ chain[j].slot \in Nat
    BY <1>3, ChainType, AttestationAssumption DEF IndexerTypeOK, Slots
  <2>2. oldest[r] <= i /\ last[r] < chain[i].slot
    BY DEF Walks, LoopFits
  <2>3. j <= i => chain[j].slot <= chain[i].slot
    BY <1>3, ChainType DEF ProgramInv, SlotsOrdered
  <2>4. chain[j].slot <= last[r] \/ j \in page[r] \/ j < oldest[r]
    BY DEF Walks, Covered
  <2>5. j \in page[r] => j <= i
    BY <1>2 DEF WalksAt
  <2> QED BY <2>1, <2>2, <2>3, <2>4, <2>5
<1> QED BY <1>1, <1>2, <1>3, <1>4, <1>5, <1>6, <1>7, <1>9, WalkFits, RecoveryKept
        DEF SlotsReplayed, IndexerTypeOK

\* The checkpoint becomes a slot that was replayed, or stays what it is.
LEMMA SaveInv ==
  ASSUME IndexerInv, UNCHANGED programVars, NEW r \in Recoveries,
         SaveCheckpoint(r) \/ FetchFails(r)
  PROVE  IndexerInv'
<1> USE DEF IndexerInv, dbVars, listenerVars
<1>1. /\ UNCHANGED chain /\ UNCHANGED <<seen, listening, inbox>>
      /\ UNCHANGED faults \/ Faulty
      /\ checkpoint' \in {checkpoint, last[r]}
  BY DEF programVars, SaveCheckpoint, FetchFails, Saved
<1>2. LoopType /\ last'[r] = 0 /\ page'[r] = {}
  <2>1. /\ pc' = [pc EXCEPT ![r] = "idle"] /\ last' = [last EXCEPT ![r] = 0]
        /\ page' = [page EXCEPT ![r] = {}] /\ oldest' = [oldest EXCEPT ![r] = 0]
        /\ count' = [count EXCEPT ![r] = 0] /\ upto' = [upto EXCEPT ![r] = 0]
    BY DEF SaveCheckpoint, FetchFails, Return
  <2>2. 0 \in Slots /\ 0 \in 0 .. MaxPerRun
    BY AttestationAssumption, IndexerAssumption DEF Slots
  <2> QED BY <2>1, <2>2 DEF LoopType, IndexerTypeOK
<1>3. \A q \in Recoveries \ {r} :
        /\ last'[q] = last[q] /\ page'[q] = page[q] /\ count'[q] = count[q]
        /\ pc'[q] = pc[q] /\ oldest'[q] = oldest[q] /\ upto'[q] = upto[q]
  BY DEF SaveCheckpoint, FetchFails, Return, IndexerTypeOK
<1>4. \A l : Replayed(l) => Replayed(l)'
  BY <1>1, FaultsType, ReplayedKept
<1>5. checkpoint' \in Slots /\ Replayed(checkpoint)'
  <2>1. \A l : l = checkpoint' => Replayed(l)
    BY <1>1 DEF SlotsReplayed
  <2>2. \A l : l = checkpoint' /\ Replayed(l)' => Replayed(checkpoint)'
    BY DEF Replayed
  <2> QED BY <1>1, <1>4, <2>1, <2>2 DEF IndexerTypeOK
<1>6. \A l : l = 0 => Replayed(l)'
  BY DEF Replayed
<1>7. LoopFits(r)' /\ Covered(r)'
  <2>1. /\ pc'[r] = "idle" /\ upto'[r] = 0 /\ oldest'[r] = 0 /\ count'[r] = 0
    BY DEF SaveCheckpoint, FetchFails, Return, IndexerTypeOK
  <2>2. \A i \in DOMAIN chain : ~(i <= 0)
    BY ChainType
  <2> QED BY <1>1, <1>2, <2>1, <2>2 DEF LoopFits, Covered
<1> QED BY <1>1, <1>2, <1>3, <1>5, <1>6, <1>7, RecoveryKept DEF IndexerTypeOK

\* A crash loses what is under way and nothing that was written.
LEMMA CrashInv ==
  ASSUME IndexerInv, UNCHANGED programVars, Crash
  PROVE  IndexerInv'
<1> USE DEF IndexerInv, Crash, dbVars
<1>1. ProgramInv' /\ UNCHANGED chain
  BY ProgramStutter DEF programVars
<1>2. IndexerTypeOK'
  <2>1. 0 \in Slots /\ 0 \in 0 .. MaxPerRun
    BY AttestationAssumption, IndexerAssumption DEF Slots
  <2> QED BY <1>1, <2>1, FaultsType DEF IndexerTypeOK
<1>3. PageOpen'
  BY DEF PageOpen
<1>4. SlotsReplayed'
  <2>1. \A l : Replayed(l) => Replayed(l)'
    BY <1>1, FaultsType, ReplayedKept
  <2> QED BY <2>1 DEF SlotsReplayed, Replayed
<1>5. Walks'
  BY FaultsType DEF Faulty, Walks, LoopFits, Covered
<1> QED BY <1>1, <1>2, <1>3, <1>4, <1>5

LEMMA IndexerStep == IndexerInv /\ [Next]_vars => IndexerInv'
<1> SUFFICES ASSUME IndexerInv, [Next]_vars PROVE IndexerInv'
  OBVIOUS
<1>1. CASE UNCHANGED vars
  <2>1. ProgramInv' /\ UNCHANGED chain
    BY <1>1, ProgramStutter DEF IndexerInv, vars, programVars
  <2> QED BY <1>1, <2>1 DEF vars, indexerVars, IndexerInv, IndexerTypeOK, PageOpen, SlotsReplayed,
     Replayed, Logs, Succeeded, Walks, LoopFits, Covered
<1> QED BY <1>1, ConfirmInv, ListenerInv, BeginInv, FetchInv, TransactionFailsInv, ReplayInv,
           SaveInv, CrashInv DEF Next, IndexerNext, RecoveryStep

LEMMA IndexerInvariance == Spec => []IndexerInv
BY IndexerInitInv, IndexerStep, PTL DEF Spec

\* Indices point into the chain, a run replays at most its limit.
THEOREM IndexerTyping == Spec => []TypeOK
<1>1. IndexerInv => TypeOK
  BY DEF IndexerInv, ProgramInv, TypeOK
<1> QED BY <1>1, IndexerInvariance, PTL

\* For any number of overlapping recoveries, with crashes and rejected calls at any point:
\* the checkpoint is the slot of a transaction that succeeded and was replayed.
THEOREM CheckpointBacked == Spec => []CheckpointIsReplayed
<1>1. IndexerInv => CheckpointIsReplayed
  BY DEF IndexerInv, SlotsReplayed, Replayed, CheckpointIsReplayed
<1> QED BY <1>1, IndexerInvariance, PTL

\* For every page size, limit and length of the chain: a recovery that meets no failure gets
\* past all its first page could show, however many pages have nothing to replay.
THEOREM Reaching == Spec => []RecoveryReaches
<1>1. IndexerInv => RecoveryReaches
  <2> SUFFICES ASSUME IndexerInv, faults = 0, NEW r \in Recoveries, NEW i \in DOMAIN chain,
                      pc[r] = "save", i <= upto[r], Succeeded(i)
               PROVE  chain[i].slot <= last[r]
    BY DEF RecoveryReaches
  <2>1. page[r] = {}
    BY DEF IndexerInv, Walks, LoopFits
  <2> QED BY <2>1 DEF IndexerInv, Walks, Covered
<1> QED BY <1>1, IndexerInvariance, PTL

\* In whichever order overlapping recoveries save, the checkpoint never goes back.
THEOREM CheckpointMonotone == Spec => CheckpointAdvances
<1>1. IndexerInv /\ [Next]_vars => [checkpoint' >= checkpoint]_vars
  <2> SUFFICES ASSUME IndexerInv, Next PROVE checkpoint' >= checkpoint
    OBVIOUS
  <2>1. checkpoint \in Nat /\ \A r \in Recoveries : last[r] \in Nat
    BY AttestationAssumption DEF IndexerInv, IndexerTypeOK, Slots
  <2>2. ASSUME NEW r \in Recoveries, SaveCheckpoint(r) PROVE checkpoint' >= checkpoint
    BY <2>1, <2>2 DEF SaveCheckpoint, Saved
  <2>3. CASE ~\E r \in Recoveries : SaveCheckpoint(r)
    <3>1. checkpoint' = checkpoint
      BY <2>3 DEF Next, IndexerNext, RecoveryStep, Confirm, StartListening, StopListening, Process,
         Begin, FetchPage, Replay, FetchFails, TransactionFails, Crash, dbVars
    <3> QED BY <2>1, <3>1
  <2> QED BY <2>2, <2>3
<1> QED BY <1>1, IndexerInvariance, PTL DEF Spec, CheckpointAdvances

\* The indexer watches and never disturbs the program: what is proved of ProgramSpec
\* holds of the chain it reads.
THEOREM ProgramKept == Spec => ProgramSpec
<1>1. Init => ProgramInit
  BY DEF Init
<1>2. [Next]_vars => [ProgramNext]_programVars
  BY DEF Next, Confirm, vars
<1> QED BY <1>1, <1>2, PTL DEF Spec, ProgramSpec

=============================================================================
