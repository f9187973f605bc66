--------------------------- MODULE KycApplication ---------------------------
(***************************************************************************)
(* The KYC applications of one user (server/modules/kyc): her requests     *)
(* open, complete, submit and resubmit an application, staff and provider  *)
(* webhooks decide it.  Every handler is a sequence of queries without a   *)
(* transaction, and every write is by id, whatever the row became since it *)
(* was read.                                                               *)
(*                                                                         *)
(* An action is one query with the code up to the next one.  Queries of    *)
(* different users never meet in a row, so one user is enough.             *)
(***************************************************************************)
EXTENDS Integers, FiniteSets

CONSTANTS
  Requests,        \* requests the user has running
  Staff,           \* requests of reviewers and admins, provider webhooks
  Kinds,           \* the kinds of file to upload: SELFIE and identity documents
  MaxApplications, \* bound: applications the user opens
  Faults           \* TRUE: a query may be rejected

ASSUME KycAssumption ==
  /\ Requests \cap Staff = {}
  /\ Kinds \subseteq {"DOCUMENT", "SELFIE"}
  /\ MaxApplications \in Nat \ {0}
  /\ Faults \in BOOLEAN

VARIABLES
  status,     \* kyc_applications.status; applications in the order of created_at
  documents,  \* the kinds of kyc_documents an application has
  userStatus, \* users.kyc_status
  pc,         \* a handler's next query
  app,        \* the application it read, 0 before
  value       \* the status it is about to write, or the kind of document

rows == <<status, documents, userStatus>>
handlers == <<pc, app, value>>

Handlers == Requests \cup Staff

Apps == 1 .. MaxApplications

ClosedStatuses == {"VERIFIED", "REJECTED", "EXPIRED", "SUSPENDED"}

Statuses == ClosedStatuses \cup {"PENDING", "UNDER_REVIEW"}

Opened == {a \in Apps : status[a] # "none"}

\* findActiveApplicationByUserId and findApplicationByUserId: the newest one.
ActiveApps == {a \in Opened : status[a] \notin ClosedStatuses}
IsNewest(a, S) == a \in S /\ \A b \in S : b <= a

KycTypeOK ==
  /\ status \in [Apps -> Statuses \cup {"none"}]
  /\ documents \in [Apps -> SUBSET Kinds]
  /\ userStatus \in ClosedStatuses \cup {"NOT_STARTED"}
  /\ pc \in [Handlers -> {"idle", "last", "insert", "documents", "apply", "user",
                          "clear", "store", "remove"}]
  /\ app \in [Handlers -> Apps \cup {0}]
  /\ value \in [Handlers -> Statuses \cup Kinds \cup {"none"}]

KycInit ==
  /\ status = [a \in Apps |-> "none"]
  /\ documents = [a \in Apps |-> {}]
  /\ userStatus = "NOT_STARTED"
  /\ pc = [h \in Handlers |-> "idle"]
  /\ app = [h \in Handlers |-> 0]
  /\ value = [h \in Handlers |-> "none"]

Goto(h, at) == pc' = [pc EXCEPT ![h] = at]

\* h holds the application a and goes on to write v.
Begin(h, at, a, v) ==
  /\ pc[h] = "idle"
  /\ Goto(h, at)
  /\ app' = [app EXCEPT ![h] = a]
  /\ value' = [value EXCEPT ![h] = v]
  /\ UNCHANGED rows

\* The handler is over: nothing it read is used again.
Finish(h) ==
  /\ Goto(h, "idle")
  /\ app' = [app EXCEPT ![h] = 0]
  /\ value' = [value EXCEPT ![h] = "none"]

-----------------------------------------------------------------------------
(* The user's requests *)

\* getOrCreateForUser finds no active application; updateDocumentType calls it.
GetOrCreate(q) ==
  /\ ActiveApps = {}
  /\ Opened # Apps
  /\ Begin(q, "last", 0, "none")

\* A user whose newest application is VERIFIED opens no other one here.
CheckLast(q) ==
  /\ pc[q] = "last"
  /\ UNCHANGED rows
  /\ \/ /\ \E a \in Opened : IsNewest(a, Opened) /\ status[a] = "VERIFIED"
        /\ Finish(q)
     \/ /\ \A a \in Opened : IsNewest(a, Opened) => status[a] # "VERIFIED"
        /\ Goto(q, "insert")
        /\ UNCHANGED <<app, value>>

\* updatePersonalInfo finds no active application and opens one without that check.
UpdatePersonalInfo(q) ==
  /\ ActiveApps = {}
  /\ Opened # Apps
  /\ Begin(q, "insert", 0, "none")

Insert(q) ==
  /\ pc[q] = "insert"
  /\ \E a \in Apps \ Opened :
       /\ \A b \in Apps : b < a => b \in Opened
       /\ status' = [status EXCEPT ![a] = "PENDING"]
  /\ Finish(q)
  /\ UNCHANGED <<documents, userStatus>>

Submit(q) ==
  \E a \in ActiveApps :
    /\ IsNewest(a, ActiveApps)
    /\ status[a] \in {"PENDING", "REJECTED"}
    /\ Begin(q, "documents", a, "UNDER_REVIEW")

\* A document and, as in production, a selfie are required.
CheckDocuments(q) ==
  /\ pc[q] = "documents"
  /\ UNCHANGED rows
  /\ \/ Kinds \subseteq documents[app[q]] /\ Goto(q, "apply") /\ UNCHANGED <<app, value>>
     \/ ~(Kinds \subseteq documents[app[q]]) /\ Finish(q)

\* Mutant: any application of the user, not the newest.
ResubmitAny(q) ==
  \E a \in Opened :
    /\ status[a] \in {"REJECTED", "EXPIRED"}
    /\ Begin(q, "apply", a, "PENDING")

\* Mutant: whatever was decided.
ResubmitDecided(q) ==
  \E a \in Opened :
    /\ IsNewest(a, Opened)
    /\ status[a] \in ClosedStatuses
    /\ Begin(q, "apply", a, "PENDING")

Resubmit(q) ==
  \E a \in Opened :
    /\ IsNewest(a, Opened)
    /\ status[a] \in {"REJECTED", "EXPIRED"}
    /\ Begin(q, "apply", a, "PENDING")

\* A selfie replaces the one the application has.
Upload(q, kind) ==
  \E a \in ActiveApps :
    /\ IsNewest(a, ActiveApps)
    /\ Begin(q, IF kind = "SELFIE" THEN "clear" ELSE "store", a, kind)

Clear(q) ==
  /\ pc[q] = "clear"
  /\ documents' = [documents EXCEPT ![app[q]] = @ \ {"SELFIE"}]
  /\ Goto(q, "store")
  /\ UNCHANGED <<status, userStatus, app, value>>

Store(q) ==
  /\ pc[q] = "store"
  /\ documents' = [documents EXCEPT ![app[q]] = @ \cup {value[q]}]
  /\ Finish(q)
  /\ UNCHANGED <<status, userStatus>>

\* Whatever the status of the application is.
DeleteDocument(q, a, kind) ==
  /\ kind \in documents[a]
  /\ Begin(q, "remove", a, kind)

Remove(q) ==
  /\ pc[q] = "remove"
  /\ documents' = [documents EXCEPT ![app[q]] = @ \ {value[q]}]
  /\ Finish(q)
  /\ UNCHANGED <<status, userStatus>>

-----------------------------------------------------------------------------
(* Decisions *)

\* approve and reject refuse what is already decided, not what is expired or pending.
Review(s, a, decision) ==
  /\ status[a] \notin {"none", "VERIFIED", "REJECTED", "SUSPENDED"}
  /\ Begin(s, "apply", a, decision)

RequestResubmission(s, a) ==
  /\ status[a] # "none"
  /\ Begin(s, "apply", a, "REJECTED")

\* The provider's verdict, whatever the status is.
ProviderWebhook(s, a, verdict) ==
  /\ status[a] # "none"
  /\ Begin(s, "apply", a, verdict)

TriggerReverification(s) ==
  \E a \in Opened :
    /\ IsNewest(a, Opened)
    /\ Begin(s, "apply", a, "EXPIRED")

\* updateApplication; a decision goes on to the user's row.
Apply(h) ==
  /\ pc[h] = "apply"
  /\ status' = [status EXCEPT ![app[h]] = value[h]]
  /\ \/ h \in Staff /\ Goto(h, "user") /\ UNCHANGED <<app, value>>
     \/ h \in Requests /\ Finish(h)
  /\ UNCHANGED <<documents, userStatus>>

ApplyToUser(s) ==
  /\ pc[s] = "user"
  /\ userStatus' = value[s]
  /\ Finish(s)
  /\ UNCHANGED <<status, documents>>

\* A query is rejected: the handler answers with the error.
Reject(h) ==
  /\ Faults
  /\ pc[h] # "idle"
  /\ Finish(h)
  /\ UNCHANGED rows

-----------------------------------------------------------------------------
RequestStep(q) ==
  \/ GetOrCreate(q) \/ CheckLast(q) \/ UpdatePersonalInfo(q) \/ Insert(q)
  \/ Submit(q) \/ CheckDocuments(q) \/ Resubmit(q)
  \/ \E kind \in Kinds : Upload(q, kind)
  \/ Clear(q) \/ Store(q)
  \/ \E a \in Apps, kind \in Kinds : DeleteDocument(q, a, kind)
  \/ Remove(q)

DecisionStep(s) ==
  \/ \E a \in Apps, decision \in {"VERIFIED", "REJECTED"} :
       Review(s, a, decision) \/ ProviderWebhook(s, a, decision)
  \/ \E a \in Apps : RequestResubmission(s, a)
  \/ TriggerReverification(s)

=============================================================================
