------------------------- MODULE OnChainAttestation -------------------------
(***************************************************************************)
(* The Anchor program signalforge-attestation: one authority account and   *)
(* one attestation account per subject and kind.  An instruction is a      *)
(* transaction: it takes effect completely or, when a constraint, a        *)
(* require! or a checked_add fails, not at all.                            *)
(*                                                                         *)
(* `chain` holds the program's transactions in the order the cluster       *)
(* accepted them, with their slot and the event their log carries: it is   *)
(* all an observer outside the program gets to see.  Accounts are kept by  *)
(* field; texts, their length limits and timestamps are left out.          *)
(***************************************************************************)
EXTENDS Integers, FiniteSets, Sequences

CONSTANTS
  Keys,         \* attestation accounts, a subject and a kind each
  Signers,      \* public keys that may sign
  NoSigner,     \* the authority before initialize_authority
  Payloads,     \* payload hashes other than all zeroes
  ZeroHash,     \* the hash the program refuses
  MaxVersion,   \* the largest version a client asks for (u16)
  MaxCount,     \* the largest value of a u64 counter
  MaxTxs        \* bound: transactions of the program

ASSUME AttestationAssumption ==
  /\ IsFiniteSet(Keys)
  /\ NoSigner \notin Signers
  /\ ZeroHash \notin Payloads
  /\ MaxVersion \in Nat /\ MaxCount \in Nat /\ MaxTxs \in Nat

VARIABLES
  authority,              \* AttestationAuthority.authority
  created, revocations,   \* .attestations_created, .attestations_revoked
  accounts,               \* the attestation accounts that exist
  hash, version,          \* Attestation.payload_hash, .version
  revoked,                \* the accounts with Attestation.revoked
  chain

accountVars == <<accounts, hash, version, revoked>>
programVars == <<authority, created, revocations, accounts, hash, version,
                 revoked, chain>>

Hashes == Payloads \cup {ZeroHash}
Versions == 0..MaxVersion
Events == {"Initialized", "Created", "Updated", "Revoked", "Failed", "Other"}

\* A transaction of the chain.  "Failed": it had no effect; "Other": it succeeded and
\* only names the program.  Neither logs an event.
Txs == [slot : 1..MaxTxs, event : Events, key : Keys, hash : Hashes,
        version : Versions, oldHash : Hashes, oldVersion : Versions]

AttestationTypeOK ==
  /\ authority \in Signers \cup {NoSigner}
  /\ created \in 0..MaxCount /\ revocations \in 0..MaxCount
  /\ accounts \subseteq Keys /\ revoked \subseteq accounts
  /\ hash \in [Keys -> Hashes]
  /\ version \in [Keys -> Versions]
  /\ chain \in Seq(Txs)

ProgramInit ==
  /\ authority = NoSigner
  /\ created = 0 /\ revocations = 0
  /\ accounts = {} /\ revoked = {}
  /\ hash = [k \in Keys |-> ZeroHash]
  /\ version = [k \in Keys |-> 0]
  /\ chain = <<>>

-----------------------------------------------------------------------------
(* Landing on the chain (external): several transactions may share a slot *)

LastSlot == IF chain = <<>> THEN 0 ELSE chain[Len(chain)].slot

Land(event, k) ==
  /\ Len(chain) < MaxTxs
  /\ \E s \in {LastSlot, LastSlot + 1} \ {0} :
       chain' = Append(chain,
         [slot |-> s, event |-> event, key |-> k,
          hash |-> hash'[k], version |-> version'[k],
          oldHash |-> hash[k], oldVersion |-> version[k]])

-----------------------------------------------------------------------------
(* Instructions *)

\* `init` on the authority account: the first caller becomes the authority.
InitializeAuthority(s, k) ==
  /\ authority = NoSigner
  /\ authority' = s
  /\ created' = 0 /\ revocations' = 0
  /\ UNCHANGED accountVars
  /\ Land("Initialized", k)

CreateAttestation(s, k, h, v) ==
  /\ authority # NoSigner /\ s = authority
  /\ k \notin accounts
  /\ h # ZeroHash
  /\ created < MaxCount
  /\ accounts' = accounts \cup {k}
  /\ hash' = [hash EXCEPT ![k] = h]
  /\ version' = [version EXCEPT ![k] = v]
  /\ created' = created + 1
  /\ UNCHANGED <<authority, revocations, revoked>>
  /\ Land("Created", k)

\* Mutant: a revoked attestation may be updated.
UpdateRevoked(s, k, h, v) ==
  /\ authority # NoSigner /\ s = authority
  /\ k \in accounts
  /\ h # ZeroHash
  /\ v >= version[k]
  /\ hash' = [hash EXCEPT ![k] = h]
  /\ version' = [version EXCEPT ![k] = v]
  /\ UNCHANGED <<authority, created, revocations, accounts, revoked>>
  /\ Land("Updated", k)

\* The version may stay what it is.
UpdateAttestation(s, k, h, v) ==
  /\ authority # NoSigner /\ s = authority
  /\ k \in accounts \ revoked
  /\ h # ZeroHash
  /\ v >= version[k]
  /\ hash' = [hash EXCEPT ![k] = h]
  /\ version' = [version EXCEPT ![k] = v]
  /\ UNCHANGED <<authority, created, revocations, accounts, revoked>>
  /\ Land("Updated", k)

\* Mutant: revoking again is not refused.
RevokeTwice(s, k) ==
  /\ authority # NoSigner /\ s = authority
  /\ k \in accounts
  /\ revocations < MaxCount
  /\ revoked' = revoked \cup {k}
  /\ revocations' = revocations + 1
  /\ UNCHANGED <<authority, created, accounts, hash, version>>
  /\ Land("Revoked", k)

RevokeAttestation(s, k) ==
  /\ authority # NoSigner /\ s = authority
  /\ k \in accounts \ revoked
  /\ revocations < MaxCount
  /\ revoked' = revoked \cup {k}
  /\ revocations' = revocations + 1
  /\ UNCHANGED <<authority, created, accounts, hash, version>>
  /\ Land("Revoked", k)

\* An instruction that fails may still land, with its fee and without effect.
Abort(k) ==
  /\ UNCHANGED <<authority, created, revocations, accountVars>>
  /\ Land("Failed", k)

\* A transaction of anybody's that lists the program's address and calls none of its
\* instructions: the cluster shows it among the program's transactions.
Mention(k) ==
  /\ UNCHANGED <<authority, created, revocations, accountVars>>
  /\ Land("Other", k)

ProgramNext ==
  \E k \in Keys, s \in Signers :
    \/ InitializeAuthority(s, k)
    \/ \E h \in Hashes, v \in Versions :
         CreateAttestation(s, k, h, v) \/ UpdateAttestation(s, k, h, v)
    \/ RevokeAttestation(s, k)
    \/ Abort(k)
    \/ Mention(k)

ProgramSpec == ProgramInit /\ [][ProgramNext]_programVars

-----------------------------------------------------------------------------
(* Properties *)

\* The counters of the authority account are the numbers of attestations that
\* exist and that are revoked: no instruction counts twice, counts without
\* effect, or takes effect when its counter is at the limit (state/authority.rs,
\* record_attestation and record_revocation).
CountersReconcile ==
  /\ created = Cardinality(accounts)
  /\ revocations = Cardinality(revoked)

EventsOf(k, types) ==
  {i \in DOMAIN chain : chain[i].key = k /\ chain[i].event \in types}

Latest(S) == CHOOSE i \in S : \A j \in S : j <= i

\* Whoever replays the program's events in order ends up with the accounts: the
\* last AttestationCreated or AttestationUpdated of an account carries its hash
\* and version, an update names the hash and version of the event before it,
\* and an account is revoked exactly when AttestationRevoked is its last event
\* (events.rs; emitted by each handler after its writes).
EventsTellAccounts ==
  \A k \in Keys :
    LET writes == EventsOf(k, {"Created", "Updated"})
        revs == EventsOf(k, {"Revoked"})
    IN /\ k \in accounts <=> writes # {}
       /\ writes # {} =>
            /\ chain[Latest(writes)].hash = hash[k]
            /\ chain[Latest(writes)].version = version[k]
       /\ \A i, j \in writes :
            (i < j /\ \A l \in writes : l <= i \/ j <= l) =>
               /\ chain[j].event = "Updated"
               /\ chain[j].oldHash = chain[i].hash
               /\ chain[j].oldVersion = chain[i].version
       /\ k \in revoked <=> revs # {}
       /\ \A i \in revs, j \in writes \cup revs : j <= i

=============================================================================
