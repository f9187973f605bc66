----------------------- MODULE ComplianceReviewProofs -----------------------
(***************************************************************************)
(* Theorems about ComplianceReview for every number of handlers, kinds of  *)
(* file, applications and connections, with rejected queries.              *)
(***************************************************************************)
EXTENDS ComplianceReview, FiniteSetTheorems, TLAPS

(***************************************************************************)
(* What every handler and request holds                                    *)
(***************************************************************************)

\* The applications of the user are opened one after the other and stay.
InOrder == \A a \in Opened : \A b \in Apps : b < a => b \in Opened

\* What the locals of a handler of modules/kyc promise at each of its queries: staff
\* only closes applications, the user only reopens or submits them.
Holds(h) ==
  /\ pc[h] \in {"documents", "apply", "user"} => app[h] \in Opened
  /\ pc[h] \in {"clear", "store", "remove"} => app[h] \in Apps /\ value[h] \in Kinds
  /\ h \in Staff => pc[h] \in {"idle", "apply", "user"}
  /\ h \in Staff /\ pc[h] # "idle" => value[h] \in ClosedStatuses
  /\ h \in Requests => pc[h] # "user"
  /\ h \in Requests /\ pc[h] \in {"documents", "apply"} => value[h] \in {"PENDING", "UNDER_REVIEW"}

Writing == {"select", "begin", "app", "user", "commit"}

\* The same of a request of the console.
ReviewHolds(r) ==
  /\ rpc[r] # "idle" => rapp[r] \in Opened
  /\ rpc[r] \in Writing => rvalue[r] \in ClosedStatuses
  /\ rpc[r] \in {"begin", "commit"} => rvalue[r] # "SUSPENDED"

\* An open transaction wrote rows that exist, a connection without one wrote nothing.
WroteRows ==
  \A c \in Conns :
    /\ \A a \in Apps : wrote[c][a] # "none" => a \in Opened /\ wrote[c][a] \in ClosedStatuses
    /\ c \notin open => wrote[c] = Nothing /\ wroteUser[c] = "none"

RowsInv ==
  /\ TypeOK
  /\ InOrder
  /\ \A h \in Handlers : Holds(h)
  /\ \A r \in Reviewers : ReviewHolds(r)
  /\ WroteRows

-----------------------------------------------------------------------------
(* The parts of the type invariant *)

RowTypes ==
  /\ status \in [Apps -> Statuses \cup {"none"}]
  /\ documents \in [Apps -> SUBSET Kinds]
  /\ userStatus \in ClosedStatuses \cup {"NOT_STARTED"}

PCs == {"idle", "last", "insert", "documents", "apply", "user", "clear", "store", "remove"}

Values == Statuses \cup Kinds \cup {"none"}

LocalTypes ==
  /\ pc \in [Handlers -> PCs]
  /\ app \in [Handlers -> Apps \cup {0}]
  /\ value \in [Handlers -> Values]

PoolTypes ==
  /\ open \subseteq Conns
  /\ wrote \in [Conns -> [Apps -> Statuses \cup {"none"}]]
  /\ wroteUser \in [Conns -> ClosedStatuses \cup {"none"}]

ReviewTypes ==
  /\ rpc \in [Reviewers -> {"idle", "select", "begin", "app", "user", "commit", "rollback"}]
  /\ rapp \in [Reviewers -> Apps \cup {0}]
  /\ rvalue \in [Reviewers -> ClosedStatuses \cup {"none"}]
  /\ reviews \in 0 .. MaxReviews

LEMMA TypeParts ==
  TypeOK <=> /\ RowTypes /\ LocalTypes /\ PoolTypes /\ ReviewTypes
             /\ disturbed \in BOOLEAN
BY DEF TypeOK, KycTypeOK, RowTypes, LocalTypes, PoolTypes, ReviewTypes, PCs, Values

LEMMA TypePartsNext ==
  ASSUME RowTypes', LocalTypes', PoolTypes', ReviewTypes', disturbed' \in BOOLEAN
  PROVE  TypeOK'
BY DEF TypeOK, KycTypeOK, RowTypes, LocalTypes, PoolTypes, ReviewTypes, PCs, Values

LEMMA InitRows == Init => RowsInv
<1> SUFFICES ASSUME Init PROVE RowsInv
  OBVIOUS
<1> USE DEF Init, KycInit
<1>2. TypeOK
  <2>1. RowTypes /\ LocalTypes
    BY DEF RowTypes, LocalTypes, PCs, Values
  <2>2. PoolTypes
    BY DEF PoolTypes, Nothing
  <2>3. ReviewTypes
    BY ComplianceAssumption DEF ReviewTypes
  <2>4. disturbed \in BOOLEAN
    OBVIOUS
  <2> HIDE DEF Init
  <2> QED BY <2>1, <2>2, <2>3, <2>4, TypeParts
<1>3. InOrder
  BY DEF InOrder, Opened
<1>4. \A h \in Handlers : Holds(h)
  BY DEF Holds, Handlers
<1>5. \A r \in Reviewers : ReviewHolds(r)
  BY DEF ReviewHolds, Writing
<1>6. WroteRows
  BY DEF WroteRows, Nothing
<1> QED BY <1>2, <1>3, <1>4, <1>5, <1>6 DEF RowsInv

-----------------------------------------------------------------------------
(* A step of one handler of modules/kyc *)

SameLocals(h) == pc'[h] = pc[h] /\ app'[h] = app[h] /\ value'[h] = value[h]

\* h goes on to query `at` with application a and value v, the others stay.
Sets(h, at, a, v) ==
  /\ LocalTypes'
  /\ pc'[h] = at /\ app'[h] = a /\ value'[h] = v
  /\ \A g \in Handlers \ {h} : SameLocals(g)

LEMMA BeginSets ==
  ASSUME LocalTypes, NEW h \in Handlers, NEW at \in PCs, NEW a \in Apps \cup {0},
         NEW v \in Values, Begin(h, at, a, v)
  PROVE  Sets(h, at, a, v)
BY DEF LocalTypes, Begin, Goto, Sets, SameLocals

LEMMA GotoSets ==
  ASSUME LocalTypes, NEW h \in Handlers, NEW at \in PCs, Goto(h, at), UNCHANGED <<app, value>>
  PROVE  Sets(h, at, app[h], value[h])
BY DEF LocalTypes, Goto, Sets, SameLocals

LEMMA FinishSets ==
  ASSUME LocalTypes, NEW h \in Handlers, Finish(h)
  PROVE  Sets(h, "idle", 0, "none")
<1>1. 0 \in Apps \cup {0} /\ "none" \in Values /\ "idle" \in PCs
  BY DEF Values, PCs
<1> QED BY <1>1 DEF LocalTypes, Finish, Goto, Sets, SameLocals

\* To preserve the invariant, such a step need only look after the rows and h.
LEMMA HandlerMoves ==
  ASSUME RowsInv, NEW h \in Handlers, NEW at, NEW a, NEW v, Sets(h, at, a, v), Holds(h)',
         RowTypes', InOrder', Opened \subseteq Opened',
         disturbed' \in BOOLEAN,
         UNCHANGED <<poolVars, reviewVars>>
  PROVE  RowsInv'
<1> USE DEF RowsInv, poolVars, reviewVars
<1>1. TypeOK'
  <2>1. PoolTypes' /\ ReviewTypes'
    BY TypeParts DEF PoolTypes, ReviewTypes
  <2>2. LocalTypes'
    BY DEF Sets
  <2> QED BY <2>1, <2>2, TypePartsNext
<1>2. ASSUME NEW g \in Handlers \ {h} PROVE Holds(g)'
  BY <1>2 DEF Sets, SameLocals, Holds
<1>3. \A r \in Reviewers : ReviewHolds(r)'
  BY DEF ReviewHolds
<1>4. WroteRows'
  BY DEF WroteRows, Nothing
<1> QED BY <1>1, <1>2, <1>3, <1>4

LEMMA SameRows ==
  ASSUME RowsInv, UNCHANGED rows
  PROVE  RowTypes' /\ InOrder' /\ Opened' = Opened
BY TypeParts DEF RowsInv, rows, RowTypes, InOrder, Opened

LEMMA RequestRows ==
  ASSUME RowsInv, NEW q \in Requests, RequestStep(q),
         UNCHANGED <<poolVars, reviewVars, disturbed>>
  PROVE  RowsInv'
<1>1. q \in Handlers /\ LocalTypes /\ RowTypes /\ disturbed' \in BOOLEAN
  BY TypeParts DEF RowsInv, Handlers
<1>2. q \notin Staff
  BY KycAssumption
<1>3. Holds(q)
  BY <1>1 DEF RowsInv
<1>4. CASE GetOrCreate(q) \/ UpdatePersonalInfo(q)
  <2>1. PICK at \in {"last", "insert"} : Begin(q, at, 0, "none")
    BY <1>4 DEF GetOrCreate, UpdatePersonalInfo
  <2>2. Sets(q, at, 0, "none")
    BY <1>1, <2>1, BeginSets DEF PCs, Values
  <2>3. Holds(q)'
    BY <1>2, <2>2 DEF Sets, Holds
  <2> QED BY <1>1, <2>1, <2>2, <2>3, SameRows, HandlerMoves DEF Begin
<1>5. CASE CheckLast(q)
  <2>1. PICK at \in {"idle", "insert"}, a \in Apps \cup {0}, v \in Values : Sets(q, at, a, v)
    BY <1>1, <1>5, FinishSets, GotoSets DEF CheckLast, PCs, Values, LocalTypes
  <2>2. Holds(q)'
    BY <1>2, <2>1 DEF Sets, Holds
  <2> QED BY <1>1, <1>5, <2>1, <2>2, SameRows, HandlerMoves DEF CheckLast
<1>6. CASE Insert(q)
  <2>1. PICK n \in Apps \ Opened : /\ \A b \in Apps : b < n => b \in Opened
                                   /\ status' = [status EXCEPT ![n] = "PENDING"]
    BY <1>6 DEF Insert
  <2>2. Sets(q, "idle", 0, "none") /\ UNCHANGED <<documents, userStatus>>
    BY <1>1, <1>6, FinishSets DEF Insert
  <2>3. RowTypes'
    BY <1>1, <2>1, <2>2 DEF RowTypes, Statuses
  <2>4. Opened' = Opened \cup {n}
    BY <1>1, <2>1 DEF RowTypes, Opened
  <2>5. InOrder'
    BY <2>1, <2>4 DEF RowsInv, InOrder
  <2>6. Holds(q)'
    BY <1>2, <2>2 DEF Sets, Holds
  <2> QED BY <1>1, <2>2, <2>3, <2>4, <2>5, <2>6, HandlerMoves
<1>7. CASE Submit(q) \/ Resubmit(q)
  <2>1. PICK at \in {"documents", "apply"}, a \in Opened, v \in {"UNDER_REVIEW", "PENDING"} :
          Begin(q, at, a, v)
    BY <1>7 DEF Submit, Resubmit, ActiveApps
  <2>2. Sets(q, at, a, v)
    BY <1>1, <2>1, BeginSets DEF PCs, Values, Statuses, Opened
  <2>3. UNCHANGED rows /\ Opened' = Opened
    BY <2>1, SameRows DEF Begin
  <2>4. Holds(q)'
    BY <1>2, <2>2, <2>3 DEF Sets, Holds, Opened
  <2> QED BY <1>1, <2>2, <2>3, <2>4, SameRows, HandlerMoves
<1>8. CASE CheckDocuments(q)
  <2>1. UNCHANGED rows /\ Opened' = Opened
    BY <1>8, SameRows DEF CheckDocuments
  <2>2. CASE Finish(q)
    <3>1. Sets(q, "idle", 0, "none")
      BY <1>1, <2>2, FinishSets
    <3>2. Holds(q)'
      BY <1>2, <3>1 DEF Sets, Holds
    <3> QED BY <1>1, <2>1, <3>1, <3>2, SameRows, HandlerMoves
  <2>3. CASE Goto(q, "apply") /\ UNCHANGED <<app, value>>
    <3>1. Sets(q, "apply", app[q], value[q])
      BY <1>1, <2>3, GotoSets DEF PCs
    <3>2. app[q] \in Opened /\ value[q] \in {"PENDING", "UNDER_REVIEW"}
      BY <1>3, <1>8 DEF CheckDocuments, Holds
    <3>3. Holds(q)'
      BY <1>2, <2>1, <3>1, <3>2 DEF Sets, Holds
    <3> QED BY <1>1, <2>1, <3>1, <3>3, SameRows, HandlerMoves
  <2> QED BY <1>8, <2>2, <2>3 DEF CheckDocuments
<1>9. ASSUME \/ \E kind \in Kinds : Upload(q, kind)
             \/ \E a \in Apps, kind \in Kinds : DeleteDocument(q, a, kind)
      PROVE  RowsInv'
  <2>1. PICK at \in {"clear", "store", "remove"}, a \in Apps, kind \in Kinds :
          Begin(q, at, a, kind)
    <3>1. ASSUME NEW kind \in Kinds, Upload(q, kind)
          PROVE  \E at \in {"clear", "store", "remove"}, a \in Apps : Begin(q, at, a, kind)
      BY <3>1 DEF Upload, ActiveApps, Opened
    <3> QED BY <1>9, <3>1 DEF DeleteDocument
  <2>2. Sets(q, at, a, kind)
    BY <1>1, <2>1, BeginSets DEF PCs, Values
  <2>3. UNCHANGED rows /\ Opened' = Opened
    BY <2>1, SameRows DEF Begin
  <2>4. Holds(q)'
    BY <1>2, <2>2 DEF Sets, Holds
  <2> QED BY <1>1, <2>2, <2>3, <2>4, SameRows, HandlerMoves
<1>10. CASE Clear(q) \/ Store(q) \/ Remove(q)
  <2>1. /\ documents' \in [Apps -> SUBSET Kinds]
        /\ UNCHANGED <<status, userStatus>>
    <3>1. app[q] \in Apps /\ (pc[q] # "clear" => value[q] \in Kinds)
      BY <1>3, <1>10 DEF Clear, Store, Remove, Holds
    <3> QED BY <1>1, <1>10, <3>1 DEF Clear, Store, Remove, RowTypes
  <2>2. RowTypes' /\ InOrder' /\ Opened' = Opened
    BY <1>1, <2>1 DEF RowTypes, RowsInv, InOrder, Opened
  <2>3. CASE Clear(q)
    <3>1. Sets(q, "store", app[q], value[q])
      BY <1>1, <2>3, GotoSets DEF Clear, PCs
    <3>2. app[q] \in Apps /\ value[q] \in Kinds
      BY <1>3, <2>3 DEF Clear, Holds
    <3>3. Holds(q)'
      BY <1>2, <3>1, <3>2 DEF Sets, Holds
    <3> QED BY <1>1, <2>2, <3>1, <3>3, HandlerMoves
  <2>4. CASE Store(q) \/ Remove(q)
    <3>1. Sets(q, "idle", 0, "none")
      BY <1>1, <2>4, FinishSets DEF Store, Remove
    <3>2. Holds(q)'
      BY <1>2, <3>1 DEF Sets, Holds
    <3> QED BY <1>1, <2>2, <3>1, <3>2, HandlerMoves
  <2> QED BY <1>10, <2>3, <2>4
<1> QED BY <1>4, <1>5, <1>6, <1>7, <1>8, <1>9, <1>10 DEF RequestStep

LEMMA DecisionRows ==
  ASSUME RowsInv, NEW s \in Staff, DecisionStep(s),
         UNCHANGED <<poolVars, reviewVars, disturbed>>
  PROVE  RowsInv'
<1>1. s \in Handlers /\ LocalTypes /\ disturbed' \in BOOLEAN
  BY TypeParts DEF RowsInv, Handlers
<1>2. PICK a \in Opened, v \in ClosedStatuses : Begin(s, "apply", a, v)
  <2>1. ASSUME NEW a \in Apps, NEW v \in {"VERIFIED", "REJECTED"},
               Review(s, a, v) \/ ProviderWebhook(s, a, v)
        PROVE  a \in Opened /\ v \in ClosedStatuses /\ Begin(s, "apply", a, v)
    BY <2>1 DEF Review, ProviderWebhook, Opened, ClosedStatuses
  <2>2. ASSUME NEW a \in Apps, RequestResubmission(s, a)
        PROVE  a \in Opened /\ Begin(s, "apply", a, "REJECTED")
    BY <2>2 DEF RequestResubmission, Opened
  <2>3. ASSUME TriggerReverification(s)
        PROVE  \E a \in Opened : Begin(s, "apply", a, "EXPIRED")
    BY <2>3 DEF TriggerReverification
  <2> QED BY <2>1, <2>2, <2>3 DEF DecisionStep, ClosedStatuses
<1>3. Sets(s, "apply", a, v)
  BY <1>1, <1>2, BeginSets DEF PCs, Values, Statuses, Opened
<1>4. UNCHANGED rows /\ Opened' = Opened
  BY <1>2, SameRows DEF Begin
<1>5. Holds(s)'
  BY <1>3, <1>4, KycAssumption DEF Sets, Holds
<1> QED BY <1>1, <1>3, <1>4, <1>5, SameRows, HandlerMoves

\* The rows after an application that was opened gets another status.
LEMMA StatusWritten ==
  ASSUME RowsInv, NEW a \in Opened, NEW v \in Statuses, status' = [status EXCEPT ![a] = v],
         UNCHANGED <<documents, userStatus>>
  PROVE  RowTypes' /\ InOrder' /\ Opened' = Opened
<1>1. RowTypes /\ a \in Apps /\ v # "none"
  BY TypeParts DEF RowsInv, Opened, Statuses, ClosedStatuses
<1>2. RowTypes'
  BY <1>1 DEF RowTypes
<1>3. Opened' = Opened
  BY <1>1 DEF RowTypes, Opened
<1>4. InOrder'
  BY <1>3 DEF RowsInv, InOrder
<1> QED BY <1>2, <1>3, <1>4

LEMMA WriteRows ==
  ASSUME RowsInv, NEW h \in Handlers, KycWrite(h)
  PROVE  RowsInv'
<1>1. LocalTypes /\ RowTypes /\ Holds(h)
  BY TypeParts DEF RowsInv
<1>2. disturbed' \in BOOLEAN /\ UNCHANGED <<poolVars, reviewVars>>
  BY DEF KycWrite
<1>3. CASE Apply(h)
  <2>1. app[h] \in Opened /\ value[h] \in Statuses
    BY <1>1, <1>3, KycAssumption DEF Apply, Holds, Statuses, ClosedStatuses, Handlers
  <2>2. RowTypes' /\ InOrder' /\ Opened' = Opened
    BY <1>3, <2>1, StatusWritten DEF Apply
  <2>3. CASE h \in Staff /\ Goto(h, "user") /\ UNCHANGED <<app, value>>
    <3>1. Sets(h, "user", app[h], value[h])
      BY <1>1, <2>3, GotoSets DEF PCs
    <3>2. value[h] \in ClosedStatuses
      BY <1>1, <1>3, <2>3 DEF Apply, Holds
    <3>3. Holds(h)'
      BY <2>1, <2>2, <2>3, <3>1, <3>2, KycAssumption DEF Sets, Holds
    <3> QED BY <1>2, <2>2, <3>1, <3>3, HandlerMoves
  <2>4. CASE Finish(h)
    <3>1. Sets(h, "idle", 0, "none")
      BY <1>1, <2>4, FinishSets
    <3>2. Holds(h)'
      BY <3>1 DEF Sets, Holds
    <3> QED BY <1>2, <2>2, <3>1, <3>2, HandlerMoves
  <2> QED BY <1>3, <2>3, <2>4 DEF Apply
<1>4. CASE ApplyToUser(h)
  <2>1. Sets(h, "idle", 0, "none")
    BY <1>1, <1>4, FinishSets DEF ApplyToUser
  <2>2. value[h] \in ClosedStatuses
    BY <1>1, <1>4 DEF ApplyToUser, Holds, Handlers
  <2>3. RowTypes' /\ InOrder' /\ Opened' = Opened
    BY <1>1, <1>4, <2>2 DEF ApplyToUser, RowTypes, RowsInv, InOrder, Opened
  <2>4. Holds(h)'
    BY <2>1 DEF Sets, Holds
  <2> QED BY <1>2, <2>1, <2>3, <2>4, HandlerMoves
<1> QED BY <1>3, <1>4 DEF KycWrite

LEMMA RejectedRows ==
  ASSUME RowsInv, NEW h \in Handlers, KycRejected(h)
  PROVE  RowsInv'
<1>1. Sets(h, "idle", 0, "none")
  BY TypeParts, FinishSets DEF KycRejected, Reject, RowsInv
<1>2. disturbed' \in BOOLEAN
  BY TypeParts DEF KycRejected, RowsInv
<1>3. Holds(h)'
  BY <1>1 DEF Sets, Holds
<1> QED BY <1>1, <1>2, <1>3, SameRows, HandlerMoves DEF KycRejected, Reject

-----------------------------------------------------------------------------
(* A step of one request of the console *)

SameReview(r) == rpc'[r] = rpc[r] /\ rapp'[r] = rapp[r] /\ rvalue'[r] = rvalue[r]

\* r goes on to statement `at`, or is over.
ReviewSets(r, at) ==
  /\ ReviewTypes'
  /\ rpc'[r] = at
  /\ at # "idle" => rapp'[r] = rapp[r] /\ rvalue'[r] = rvalue[r]
  /\ \A s \in Reviewers \ {r} : SameReview(s)

LEMMA ReviewGoes ==
  ASSUME ReviewTypes, NEW r \in Reviewers,
         NEW at \in {"select", "begin", "app", "user", "commit", "rollback"},
         ReviewGoto(r, at), UNCHANGED <<rapp, rvalue, reviews>>
  PROVE  ReviewSets(r, at)
BY DEF ReviewTypes, ReviewGoto, ReviewSets, SameReview

LEMMA ReviewEnds ==
  ASSUME ReviewTypes, NEW r \in Reviewers, EndReview(r)
  PROVE  ReviewSets(r, "idle")
BY DEF ReviewTypes, EndReview, ReviewGoto, ReviewSets, SameReview

\* To preserve the invariant, such a step need only look after the rows, the pool and r.
LEMMA ReviewerMoves ==
  ASSUME RowsInv, NEW r \in Reviewers, ReviewTypes', ReviewHolds(r)',
         \A s \in Reviewers \ {r} : SameReview(s),
         RowTypes', Opened' = Opened, PoolTypes', WroteRows',
         disturbed' \in BOOLEAN, UNCHANGED handlers
  PROVE  RowsInv'
<1> USE DEF RowsInv, handlers
<1>1. TypeOK'
  <2>1. LocalTypes'
    BY TypeParts DEF LocalTypes
  <2> QED BY <2>1, TypePartsNext
<1>2. InOrder'
  BY DEF InOrder
<1>3. \A h \in Handlers : Holds(h)'
  BY DEF Holds
<1>4. ASSUME NEW s \in Reviewers \ {r} PROVE ReviewHolds(s)'
  BY <1>4 DEF SameReview, ReviewHolds
<1> QED BY <1>1, <1>2, <1>3, <1>4

\* A statement that writes nothing.
LEMMA PoolMoves ==
  ASSUME RowsInv, NEW r \in Reviewers, ReviewTypes', ReviewHolds(r)',
         \A s \in Reviewers \ {r} : SameReview(s),
         open' \subseteq Conns, open \subseteq open',
         UNCHANGED <<rows, handlers, wrote, wroteUser, disturbed>>
  PROVE  RowsInv'
<1>1. disturbed' \in BOOLEAN
  BY TypeParts DEF RowsInv
<1>2. RowTypes' /\ Opened' = Opened
  BY SameRows
<1>3. PoolTypes'
  BY TypeParts DEF RowsInv, PoolTypes
<1>4. WroteRows'
  BY <1>2 DEF RowsInv, WroteRows, Nothing
<1> QED BY <1>1, <1>2, <1>3, <1>4, ReviewerMoves

LEMMA StartRows ==
  ASSUME RowsInv, NEW r \in Reviewers, NEW a \in Apps,
         NEW decision \in {"VERIFIED", "REJECTED", "SUSPENDED"},
         StartReview(r, a, decision)
  PROVE  RowsInv'
<1>1. ReviewTypes /\ PoolTypes
  BY TypeParts DEF RowsInv
<1>2. reviews' \in 0 .. MaxReviews
  BY <1>1, ComplianceAssumption DEF StartReview, ReviewTypes
<1>3. /\ ReviewTypes'
      /\ rpc'[r] = "select" /\ rapp'[r] = a
      /\ \A s \in Reviewers \ {r} : SameReview(s)
  BY <1>1, <1>2 DEF StartReview, ReviewTypes, ReviewGoto, SameReview, ClosedStatuses
<1>4. UNCHANGED <<rows, handlers, open, wrote, wroteUser, disturbed>>
  BY DEF StartReview, poolVars
<1>5. rvalue'[r] \in ClosedStatuses
  BY <1>1 DEF StartReview, ReviewTypes, ClosedStatuses
<1>6. a \in Opened'
  BY <1>4, SameRows DEF StartReview, Opened
<1>7. ReviewHolds(r)'
  BY <1>3, <1>5, <1>6 DEF ReviewHolds, Writing
<1> QED BY <1>1, <1>3, <1>4, <1>7, PoolMoves DEF PoolTypes

LEMMA SelectRows ==
  ASSUME RowsInv, NEW r \in Reviewers, NEW c \in Conns, Select(r, c)
  PROVE  RowsInv'
<1>1. ReviewTypes /\ PoolTypes /\ ReviewHolds(r)
  BY TypeParts DEF RowsInv
<1>2. PICK at \in {"idle", "app", "begin"} :
        ReviewSets(r, at) /\ (at = "begin" => rvalue[r] # "SUSPENDED")
  <2>1. CASE EndReview(r)
    BY <1>1, <2>1, ReviewEnds
  <2>2. CASE ~EndReview(r)
    BY <1>1, <2>2, ReviewGoes DEF Select
  <2> QED BY <2>1, <2>2
<1>3. UNCHANGED <<rows, handlers, open, wrote, wroteUser, disturbed>>
  BY DEF Select, poolVars
<1>4. rapp[r] \in Opened /\ rvalue[r] \in ClosedStatuses
  BY <1>1 DEF Select, ReviewHolds, Writing
<1>5. ReviewHolds(r)'
  BY <1>2, <1>3, <1>4, SameRows DEF ReviewSets, ReviewHolds, Writing
<1> QED BY <1>1, <1>2, <1>3, <1>5, PoolMoves DEF PoolTypes, ReviewSets

LEMMA BeginRows ==
  ASSUME RowsInv, NEW r \in Reviewers, NEW c \in Conns, BeginTransaction(r, c)
  PROVE  RowsInv'
<1>1. ReviewTypes /\ PoolTypes /\ ReviewHolds(r)
  BY TypeParts DEF RowsInv
<1>2. ReviewSets(r, "app")
  BY <1>1, ReviewGoes DEF BeginTransaction
<1>3. /\ open' = open \cup {c}
      /\ UNCHANGED <<rows, handlers, wrote, wroteUser, disturbed>>
  BY DEF BeginTransaction
<1>4. rapp[r] \in Opened /\ rvalue[r] \in ClosedStatuses
  BY <1>1 DEF BeginTransaction, ReviewHolds, Writing
<1>5. ReviewHolds(r)'
  BY <1>2, <1>3, <1>4, SameRows DEF ReviewSets, ReviewHolds
<1> QED BY <1>1, <1>2, <1>3, <1>5, PoolMoves DEF PoolTypes, ReviewSets

LEMMA WriteAppRows ==
  ASSUME RowsInv, NEW r \in Reviewers, NEW c \in Conns, WriteApp(r, c)
  PROVE  RowsInv'
<1> DEFINE a == rapp[r]
           v == rvalue[r]
<1>1. ReviewTypes /\ PoolTypes /\ RowTypes /\ ReviewHolds(r) /\ WroteRows
  BY TypeParts DEF RowsInv
<1>2. a \in Opened /\ a \in Apps /\ v \in ClosedStatuses
  BY <1>1 DEF WriteApp, ReviewHolds, Writing, Opened
<1>3. ReviewSets(r, "user")
  BY <1>1, ReviewGoes DEF WriteApp
<1>4. UNCHANGED <<documents, userStatus, handlers, open, wroteUser>> /\ disturbed' \in BOOLEAN
  BY DEF WriteApp
<1>5. RowTypes' /\ Opened' = Opened
  <2>1. CASE status' = [status EXCEPT ![a] = v]
    BY <1>2, <1>4, <2>1, StatusWritten DEF Statuses
  <2>2. CASE UNCHANGED status
    BY <1>4, <2>2, SameRows DEF rows
  <2> QED BY <2>1, <2>2 DEF WriteApp
<1>6. PoolTypes' /\ WroteRows'
  <2>1. CASE c \in open
    <3>1. wrote' = [wrote EXCEPT ![c][a] = v]
      BY <2>1 DEF WriteApp
    <3>2. wrote' \in [Conns -> [Apps -> Statuses \cup {"none"}]]
      BY <1>1, <1>2, <3>1 DEF PoolTypes, Statuses
    <3>3. PoolTypes'
      BY <1>1, <1>4, <3>2 DEF PoolTypes
    <3>4. /\ \A d \in Conns \ {c} : wrote'[d] = wrote[d]
          /\ \A b \in Apps : wrote'[c][b] = IF b = a THEN v ELSE wrote[c][b]
      BY <1>1, <1>2, <3>1 DEF PoolTypes
    <3>5. WroteRows'
      BY <1>1, <1>2, <1>4, <1>5, <2>1, <3>4 DEF WroteRows, Nothing
    <3> QED BY <3>3, <3>5
  <2>2. CASE c \notin open
    <3>1. UNCHANGED wrote
      BY <2>2 DEF WriteApp
    <3> QED BY <1>1, <1>4, <1>5, <3>1 DEF PoolTypes, WroteRows, Nothing
  <2> QED BY <2>1, <2>2
<1>7. ReviewHolds(r)'
  BY <1>2, <1>3, <1>5 DEF ReviewSets, ReviewHolds
<1> QED BY <1>3, <1>4, <1>5, <1>6, <1>7, ReviewerMoves DEF ReviewSets

LEMMA WriteUserRows ==
  ASSUME RowsInv, NEW r \in Reviewers, NEW c \in Conns, WriteUser(r, c)
  PROVE  RowsInv'
<1> DEFINE v == rvalue[r]
<1>1. ReviewTypes /\ PoolTypes /\ RowTypes /\ ReviewHolds(r) /\ WroteRows
  BY TypeParts DEF RowsInv
<1>2. rapp[r] \in Opened /\ v \in ClosedStatuses
  BY <1>1 DEF WriteUser, ReviewHolds, Writing
<1>3. PICK at \in {"idle", "commit"} : ReviewSets(r, at) /\ (at = "commit" => v # "SUSPENDED")
  BY <1>1, ReviewGoes, ReviewEnds DEF WriteUser
<1>4. UNCHANGED <<status, documents, handlers, open, wrote>> /\ disturbed' \in BOOLEAN
  BY DEF WriteUser
<1>5. RowTypes' /\ Opened' = Opened
  BY <1>1, <1>2, <1>4 DEF WriteUser, RowTypes, Opened
<1>6. PoolTypes' /\ WroteRows'
  <2>1. CASE c \in open
    <3>1. wroteUser' = [wroteUser EXCEPT ![c] = v]
      BY <2>1 DEF WriteUser
    <3> QED BY <1>1, <1>2, <1>4, <1>5, <2>1, <3>1 DEF PoolTypes, WroteRows, Nothing
  <2>2. CASE c \notin open
    <3>1. UNCHANGED wroteUser
      BY <2>2 DEF WriteUser
    <3> QED BY <1>1, <1>4, <1>5, <3>1 DEF PoolTypes, WroteRows, Nothing
  <2> QED BY <2>1, <2>2
<1>7. ReviewHolds(r)'
  BY <1>2, <1>3, <1>5 DEF ReviewSets, ReviewHolds, Writing
<1> QED BY <1>3, <1>4, <1>5, <1>6, <1>7, ReviewerMoves DEF ReviewSets

\* The connection c after the end of its transaction.
LEMMA Closed ==
  ASSUME RowsInv, NEW c \in Conns, Close(c), Opened' = Opened
  PROVE  PoolTypes' /\ WroteRows'
<1>1. PoolTypes /\ WroteRows
  BY TypeParts DEF RowsInv
<1>2. Nothing \in [Apps -> Statuses \cup {"none"}]
  BY DEF Nothing
<1>3. PoolTypes'
  BY <1>1, <1>2 DEF Close, PoolTypes
<1>4. /\ \A d \in Conns \ {c} : wrote'[d] = wrote[d] /\ wroteUser'[d] = wroteUser[d]
      /\ wrote'[c] = Nothing /\ wroteUser'[c] = "none"
  BY <1>1 DEF Close, PoolTypes
<1>5. Nothing' = Nothing /\ \A a \in Apps : Nothing[a] = "none"
  BY DEF Nothing
<1>6. open' = open \ {c}
  BY DEF Close
<1>7. WroteRows'
  BY <1>1, <1>4, <1>5, <1>6 DEF WroteRows
<1> QED BY <1>3, <1>7

\* A COMMIT writes closed statuses to applications that exist.
LEMMA Published ==
  ASSUME RowsInv, NEW c \in Conns, Publish(c)
  PROVE  RowTypes' /\ Opened' = Opened /\ ActiveApps' \subseteq ActiveApps
<1>1. PoolTypes /\ RowTypes /\ WroteRows
  BY TypeParts DEF RowsInv
<1>2. \A a \in Apps : \/ status'[a] = status[a]
                      \/ status'[a] \in ClosedStatuses /\ a \in Opened
  BY <1>1 DEF Publish, Seen, WroteRows
<1>3. status' \in [Apps -> Statuses \cup {"none"}]
  BY <1>1, <1>2 DEF Publish, RowTypes, Statuses
<1>4. userStatus' \in ClosedStatuses \cup {"NOT_STARTED"}
  BY <1>1 DEF Publish, PoolTypes, RowTypes
<1>5. RowTypes'
  BY <1>1, <1>3, <1>4 DEF Publish, RowTypes
<1>6. Opened' = Opened /\ ActiveApps' \subseteq ActiveApps
  BY <1>2 DEF Opened, ActiveApps, ClosedStatuses
<1> QED BY <1>5, <1>6

LEMMA CommitRows ==
  ASSUME RowsInv, NEW r \in Reviewers, NEW c \in Conns, Commit(r, c)
  PROVE  RowsInv'
<1>1. ReviewSets(r, "idle")
  BY TypeParts, ReviewEnds DEF Commit, RowsInv
<1>2. Close(c) /\ Publish(c) /\ UNCHANGED handlers /\ disturbed' \in BOOLEAN
  BY DEF Commit
<1>3. RowTypes' /\ Opened' = Opened /\ PoolTypes' /\ WroteRows'
  BY <1>2, Closed, Published
<1>4. ReviewHolds(r)'
  BY <1>1 DEF ReviewSets, ReviewHolds, Writing
<1> QED BY <1>1, <1>2, <1>3, <1>4, ReviewerMoves DEF ReviewSets

LEMMA AbandonRows ==
  ASSUME RowsInv, NEW r \in Reviewers, NEW c \in Conns, Rollback(r, c) \/ StatementFails(r, c)
  PROVE  RowsInv'
<1>1. ReviewTypes /\ ReviewHolds(r)
  BY TypeParts DEF RowsInv
<1>2. PICK at \in {"idle", "rollback"} : ReviewSets(r, at) /\ (at = "rollback" => rpc[r] # "idle")
  <2>1. CASE EndReview(r)
    BY <1>1, <2>1, ReviewEnds
  <2>2. CASE ~EndReview(r)
    BY <1>1, <2>2, ReviewGoes DEF Rollback, StatementFails
  <2> QED BY <2>1, <2>2
<1>3. Close(c) /\ UNCHANGED <<rows, handlers>> /\ disturbed' \in BOOLEAN
  BY TypeParts DEF Rollback, StatementFails, RowsInv
<1>4. RowTypes' /\ Opened' = Opened /\ PoolTypes' /\ WroteRows'
  BY <1>3, SameRows, Closed
<1>5. ReviewHolds(r)'
  BY <1>1, <1>2, <1>4 DEF ReviewSets, ReviewHolds, Writing
<1> QED BY <1>2, <1>3, <1>4, <1>5, ReviewerMoves DEF ReviewSets

LEMMA OthersRows ==
  ASSUME RowsInv, NEW c \in Conns, OthersEnd(c)
  PROVE  RowsInv'
<1>1. Close(c) /\ UNCHANGED <<handlers, reviewVars>> /\ disturbed' \in BOOLEAN
  BY DEF OthersEnd
<1>2. RowTypes' /\ Opened' = Opened
  BY SameRows, Published DEF OthersEnd
<1>3. PoolTypes' /\ WroteRows'
  BY <1>1, <1>2, Closed
<1>4. LocalTypes' /\ ReviewTypes'
  BY <1>1, TypeParts DEF RowsInv, LocalTypes, ReviewTypes, handlers, reviewVars
<1>5. InOrder' /\ \A h \in Handlers : Holds(h)'
  BY <1>1, <1>2 DEF RowsInv, InOrder, Holds, handlers
<1>6. \A r \in Reviewers : ReviewHolds(r)'
  BY <1>1, <1>2 DEF RowsInv, ReviewHolds, reviewVars
<1> QED BY <1>1, <1>2, <1>3, <1>4, <1>5, <1>6, TypePartsNext DEF RowsInv

LEMMA RowsNext ==
  ASSUME RowsInv, [Next]_vars
  PROVE  RowsInv'
<1>1. ASSUME NEW h \in Handlers, KycStep(h) PROVE RowsInv'
  BY <1>1, RequestRows, DecisionRows DEF KycStep
<1>2. ASSUME NEW r \in Reviewers, ReviewStep(r) PROVE RowsInv'
  BY <1>2, StartRows, SelectRows, BeginRows, WriteAppRows, WriteUserRows, CommitRows, AbandonRows
     DEF ReviewStep
<1>3. CASE UNCHANGED vars
  <2>1. TypeOK'
    BY <1>3 DEF RowsInv, TypeOK, KycTypeOK, vars, rows, handlers, poolVars, reviewVars
  <2> QED BY <1>3, <2>1 DEF RowsInv, vars, rows, handlers, poolVars, reviewVars, InOrder, Opened,
             Holds, ReviewHolds, WroteRows, Nothing
<1> QED BY <1>1, <1>2, <1>3, WriteRows, RejectedRows, OthersRows DEF Next

LEMMA RowsInvariance == Spec => []RowsInv
BY InitRows, RowsNext, PTL DEF Spec

\* Rows, locals and connections stay in their domains, whatever overlaps or fails: a
\* decision is made of an application that exists, and staff only closes applications.
THEOREM Typing == Spec => []TypeOK
<1>1. RowsInv => TypeOK
  BY DEF RowsInv
<1> QED BY <1>1, RowsInvariance, PTL

(***************************************************************************)
(* Requests of the user that do not overlap                                *)
(***************************************************************************)

OneRequest == \A p, q \in Requests : p = q

\* What a request is about to reactivate or to insert will be the newest application,
\* and no other is active.
ActiveIsNewest ==
  /\ \A a \in ActiveApps : IsNewest(a, Opened)
  /\ \A q \in Requests :
       /\ pc[q] \in {"documents", "apply"} => IsNewest(app[q], Opened)
       /\ pc[q] \in {"last", "insert"} => ActiveApps = {}

\* Nobody but the user's request opens or reopens an application: a step of anybody else
\* closes some at most.
LEMMA OthersClose ==
  ASSUME ActiveIsNewest, ActiveApps' \subseteq ActiveApps, Opened' = Opened,
         \A q \in Requests : pc'[q] = pc[q] /\ app'[q] = app[q]
  PROVE  ActiveIsNewest'
BY DEF ActiveIsNewest, IsNewest

LEMMA ReviewerCloses ==
  ASSUME RowsInv, NEW r \in Reviewers, ReviewStep(r)
  PROVE  /\ ActiveApps' \subseteq ActiveApps
         /\ Opened' = Opened
         /\ UNCHANGED handlers
<1>1. RowTypes /\ ReviewTypes /\ ReviewHolds(r)
  BY TypeParts DEF RowsInv
<1>2. ASSUME NEW c \in Conns, WriteApp(r, c)
      PROVE  ActiveApps' \subseteq ActiveApps /\ Opened' = Opened
  <2>1. rapp[r] \in Opened /\ rvalue[r] \in ClosedStatuses
    BY <1>1, <1>2 DEF WriteApp, ReviewHolds, Writing
  <2>2. status' = status \/ status' = [status EXCEPT ![rapp[r]] = rvalue[r]]
    BY <1>2 DEF WriteApp
  <2> QED BY <1>1, <2>1, <2>2 DEF RowTypes, ActiveApps, Opened, ClosedStatuses
<1>3. ASSUME NEW c \in Conns, Commit(r, c)
      PROVE  ActiveApps' \subseteq ActiveApps /\ Opened' = Opened
  BY <1>3, Published DEF Commit
<1>4. \/ UNCHANGED status
      \/ \E c \in Conns : WriteApp(r, c) \/ Commit(r, c)
  BY DEF ReviewStep, StartReview, Select, BeginTransaction, WriteUser, Rollback, StatementFails, rows
<1>5. UNCHANGED handlers
  BY DEF ReviewStep, StartReview, Select, BeginTransaction, WriteApp, WriteUser, Commit, Rollback,
     StatementFails
<1>6. UNCHANGED status => ActiveApps' = ActiveApps /\ Opened' = Opened
  BY DEF ActiveApps, Opened
<1> QED BY <1>2, <1>3, <1>4, <1>5, <1>6

LEMMA StaffCloses ==
  ASSUME RowsInv, NEW s \in Staff, KycStep(s) \/ KycWrite(s) \/ KycRejected(s)
  PROVE  /\ ActiveApps' \subseteq ActiveApps
         /\ Opened' = Opened
         /\ \A q \in Requests : pc'[q] = pc[q] /\ app'[q] = app[q]
<1>1. RowTypes /\ LocalTypes /\ Holds(s) /\ s \in Handlers
  BY TypeParts DEF RowsInv, Handlers
<1>2. s \notin Requests /\ Requests \subseteq Handlers
  BY KycAssumption DEF Handlers
<1>3. \A q \in Requests : pc'[q] = pc[q] /\ app'[q] = app[q]
  <2>1. CASE KycStep(s)
    <3>1. DecisionStep(s)
      BY <1>2, <2>1 DEF KycStep
    <3>2. \E a \in Apps, v \in Values : Begin(s, "apply", a, v)
      BY <3>1 DEF DecisionStep, Review, RequestResubmission, ProviderWebhook,
         TriggerReverification, Opened, Values, Statuses, ClosedStatuses
    <3> QED BY <1>1, <1>2, <3>2 DEF Begin, Goto, LocalTypes
  <2>2. CASE KycWrite(s)
    BY <1>1, <1>2, <2>2 DEF KycWrite, Apply, ApplyToUser, Goto, Finish, LocalTypes
  <2>3. CASE KycRejected(s)
    BY <1>1, <1>2, <2>3 DEF KycRejected, Reject, Goto, Finish, LocalTypes
  <2> QED BY <2>1, <2>2, <2>3
<1>4. ActiveApps' \subseteq ActiveApps /\ Opened' = Opened
  <2>1. CASE Apply(s)
    <3>1. app[s] \in Opened /\ value[s] \in ClosedStatuses
      BY <1>1, <2>1 DEF Apply, Holds
    <3>2. status' = [status EXCEPT ![app[s]] = value[s]]
      BY <2>1 DEF Apply
    <3> QED BY <1>1, <3>1, <3>2 DEF RowTypes, ActiveApps, Opened, ClosedStatuses
  <2>2. CASE ~Apply(s)
    <3>1. UNCHANGED status
      BY <1>2, <2>2 DEF KycStep, DecisionStep, Review, RequestResubmission, ProviderWebhook,
         TriggerReverification, Begin, KycWrite, ApplyToUser, KycRejected, Reject, rows
    <3> QED BY <3>1 DEF ActiveApps, Opened
  <2> QED BY <2>1, <2>2
<1> QED BY <1>3, <1>4

\* A step of the request keeps the rows, unless it inserts or writes.
LEMMA RequestReads ==
  ASSUME OneRequest, RowsInv, ActiveIsNewest, NEW q \in Requests,
         UNCHANGED status,
         pc'[q] \in {"documents", "apply"} => IsNewest(app'[q], Opened),
         pc'[q] \in {"last", "insert"} => ActiveApps = {}
  PROVE  ActiveIsNewest'
<1>1. Opened' = Opened /\ ActiveApps' = ActiveApps
  BY DEF Opened, ActiveApps
<1>2. \A p \in Requests : p = q
  BY DEF OneRequest
<1> QED BY <1>1, <1>2 DEF ActiveIsNewest, IsNewest

LEMMA RequestActive ==
  ASSUME OneRequest, RowsInv, ActiveIsNewest, NEW q \in Requests, RequestStep(q)
  PROVE  ActiveIsNewest'
<1>1. RowTypes /\ LocalTypes /\ q \in Handlers /\ Holds(q)
  BY TypeParts DEF RowsInv, Handlers
<1>2. CASE GetOrCreate(q) \/ UpdatePersonalInfo(q)
  <2>1. ActiveApps = {} /\ UNCHANGED status /\ pc'[q] \in {"last", "insert"}
    BY <1>1, <1>2 DEF GetOrCreate, UpdatePersonalInfo, Begin, Goto, LocalTypes, rows
  <2> QED BY <2>1, RequestReads
<1>3. CASE CheckLast(q)
  <2>1. ActiveApps = {} /\ UNCHANGED status /\ pc'[q] \in {"idle", "insert"}
    BY <1>1, <1>3 DEF CheckLast, ActiveIsNewest, Finish, Goto, LocalTypes, rows
  <2> QED BY <2>1, RequestReads
<1>4. CASE Insert(q)
  <2>1. PICK n \in Apps \ Opened : /\ \A b \in Apps : b < n => b \in Opened
                                   /\ status' = [status EXCEPT ![n] = "PENDING"]
    BY <1>4 DEF Insert
  <2>2. ActiveApps = {}
    BY <1>4 DEF Insert, ActiveIsNewest
  <2>3. Opened' = Opened \cup {n} /\ ActiveApps' \subseteq {n}
    BY <1>1, <2>1, <2>2 DEF RowTypes, Opened, ActiveApps
  <2>4. \A b \in Opened : b < n
    BY <2>1, KycAssumption DEF RowsInv, InOrder, Opened, Apps
  <2>5. n \in Nat
    BY <2>1, KycAssumption DEF Apps
  <2>6. IsNewest(n, Opened')
    BY <2>3, <2>4, <2>5 DEF IsNewest, Opened, Apps
  <2>7. pc'[q] = "idle"
    BY <1>1, <1>4 DEF Insert, Finish, Goto, LocalTypes
  <2> QED BY <2>3, <2>6, <2>7 DEF ActiveIsNewest, OneRequest, IsNewest
<1>5. CASE Submit(q) \/ Resubmit(q)
  <2>1. PICK at \in PCs, a \in Opened, v \in Values :
          Begin(q, at, a, v) /\ IsNewest(a, Opened) /\ at \in {"documents", "apply"}
    <3>1. CASE Submit(q)
      BY <3>1 DEF Submit, ActiveIsNewest, ActiveApps, PCs, Values, Statuses
    <3>2. CASE Resubmit(q)
      BY <3>2 DEF Resubmit, PCs, Values, Statuses
    <3> QED BY <1>5, <3>1, <3>2
  <2>2. UNCHANGED status /\ pc'[q] = at /\ app'[q] = a
    BY <1>1, <2>1 DEF Begin, Goto, LocalTypes, rows
  <2> QED BY <2>1, <2>2, RequestReads
<1>6. CASE CheckDocuments(q)
  <2>1. /\ IsNewest(app[q], Opened) /\ UNCHANGED status
        /\ pc'[q] = "idle" \/ (pc'[q] = "apply" /\ app'[q] = app[q])
    BY <1>1, <1>6 DEF CheckDocuments, ActiveIsNewest, Finish, Goto, LocalTypes, rows
  <2> QED BY <2>1, RequestReads
<1>7. ASSUME \/ \E kind \in Kinds : Upload(q, kind)
             \/ \E a \in Apps, kind \in Kinds : DeleteDocument(q, a, kind)
             \/ Clear(q) \/ Store(q) \/ Remove(q)
      PROVE  ActiveIsNewest'
  <2>1. UNCHANGED status /\ pc'[q] \in {"idle", "clear", "store", "remove"}
    BY <1>1, <1>7 DEF Upload, DeleteDocument, Clear, Store, Remove, Begin, Finish, Goto,
       LocalTypes, rows
  <2> QED BY <2>1, RequestReads
<1> QED BY <1>2, <1>3, <1>4, <1>5, <1>6, <1>7 DEF RequestStep

LEMMA RequestWrites ==
  ASSUME OneRequest, RowsInv, ActiveIsNewest, NEW q \in Requests, KycWrite(q) \/ KycRejected(q)
  PROVE  ActiveIsNewest'
<1>1. RowTypes /\ LocalTypes /\ q \in Handlers /\ q \notin Staff /\ Holds(q)
  BY TypeParts, KycAssumption DEF RowsInv, Handlers
<1>2. CASE Apply(q)
  <2>1. IsNewest(app[q], Opened) /\ value[q] \in {"PENDING", "UNDER_REVIEW"}
    BY <1>1, <1>2 DEF Apply, ActiveIsNewest, Holds
  <2>2. status' = [status EXCEPT ![app[q]] = value[q]] /\ pc'[q] = "idle"
    BY <1>1, <1>2 DEF Apply, Finish, Goto, LocalTypes
  <2>3. Opened' = Opened /\ ActiveApps' \subseteq ActiveApps \cup {app[q]}
    BY <1>1, <2>1, <2>2 DEF RowTypes, Opened, ActiveApps, IsNewest
  <2> QED BY <2>1, <2>2, <2>3 DEF ActiveIsNewest, OneRequest, IsNewest
<1>3. CASE ~Apply(q)
  <2>1. UNCHANGED status /\ pc'[q] = "idle"
    BY <1>1, <1>3 DEF KycWrite, ApplyToUser, KycRejected, Reject, Finish, Goto, Holds, LocalTypes, rows
  <2> QED BY <2>1, RequestReads
<1> QED BY <1>2, <1>3

\* Where the user's requests do not overlap she has one active application at most,
\* whatever any number of staff and console requests decide meanwhile.
THEOREM OneActiveApplication == OneRequest => (Spec => []OneActive)
<1> SUFFICES ASSUME OneRequest PROVE Spec => []OneActive
  OBVIOUS
<1>1. Init => ActiveIsNewest
  BY DEF Init, KycInit, ActiveIsNewest, ActiveApps, Opened, Handlers
<1>2. RowsInv /\ ActiveIsNewest /\ [Next]_vars => ActiveIsNewest'
  <2> SUFFICES ASSUME RowsInv, ActiveIsNewest, [Next]_vars PROVE ActiveIsNewest'
    OBVIOUS
  <2>1. ASSUME NEW q \in Requests, KycStep(q) \/ KycWrite(q) \/ KycRejected(q)
        PROVE  ActiveIsNewest'
    BY <2>1, KycAssumption, RequestActive, RequestWrites DEF KycStep
  <2>2. ASSUME NEW s \in Staff, KycStep(s) \/ KycWrite(s) \/ KycRejected(s)
        PROVE  ActiveIsNewest'
    BY <2>2, StaffCloses, OthersClose
  <2>3. ASSUME NEW r \in Reviewers, ReviewStep(r) PROVE ActiveIsNewest'
    BY <2>3, ReviewerCloses, OthersClose DEF handlers
  <2>4. CASE UNCHANGED vars
    BY <2>4, OthersClose DEF vars, rows, handlers, ActiveApps, Opened
  <2>5. ASSUME NEW c \in Conns, OthersEnd(c) PROVE ActiveIsNewest'
    <3>1. UNCHANGED rows => ActiveApps' = ActiveApps /\ Opened' = Opened
      BY DEF rows, ActiveApps, Opened
    <3> QED BY <2>5, <3>1, Published, OthersClose DEF OthersEnd, handlers
  <2> QED BY <2>1, <2>2, <2>3, <2>4, <2>5 DEF Next, Handlers
<1>3. RowsInv /\ ActiveIsNewest => OneActive
  <2>1. \A a, b \in Apps : a <= b /\ b <= a => a = b
    BY KycAssumption DEF Apps
  <2> QED BY <2>1 DEF ActiveIsNewest, IsNewest, OneActive, ActiveApps, Opened
<1> QED BY <1>1, <1>2, <1>3, RowsInvariance, PTL DEF Spec

-----------------------------------------------------------------------------
(* The user's row goes with her applications *)

Agrees ==
  /\ userStatus = "VERIFIED" => \E a \in Apps : status[a] = "VERIFIED"
  /\ (\E a \in Apps : status[a] \in ClosedStatuses) => userStatus # "NOT_STARTED"

\* Between the two writes of a decision.
Halfway == \E h \in Handlers : pc[h] = "user"

\* InStep speaks of quiet states only.  As long as the writers follow one another, the
\* rows agree but for the one decision that is halfway, and what a writer read is so.
Orderly ==
  /\ Halfway \/ Agrees
  /\ \A h \in Handlers : pc[h] = "user" => status[app[h]] = value[h]
  /\ \A q \in Requests : pc[q] \in {"documents", "apply"} => status[app[q]] # "VERIFIED"

\* A step of the user that writes no status reads one, or goes on with what it read.
LEMMA RequestOrderly ==
  ASSUME RowsInv, Orderly, NEW q \in Requests, RequestStep(q)
  PROVE  Orderly'
<1>1. /\ RowTypes /\ LocalTypes /\ q \in Handlers /\ Holds(q)
      /\ \A h \in Handlers : Holds(h)
      /\ Requests \subseteq Handlers
  BY TypeParts DEF RowsInv, Handlers
<1>2. UNCHANGED userStatus
  BY DEF RequestStep, GetOrCreate, CheckLast, UpdatePersonalInfo, Insert, Submit, CheckDocuments,
     Resubmit, Upload, Clear, Store, DeleteDocument, Remove, Begin, rows
<1>3. \/ UNCHANGED status
      \/ \E n \in Apps \ Opened : status' = [status EXCEPT ![n] = "PENDING"]
  BY DEF RequestStep, GetOrCreate, CheckLast, UpdatePersonalInfo, Insert, Submit, CheckDocuments,
     Resubmit, Upload, Clear, Store, DeleteDocument, Remove, Begin, rows
<1>4. \A a \in Opened : status'[a] = status[a]
  BY <1>1, <1>3 DEF RowTypes, Opened
<1>5. Agrees => Agrees'
  BY <1>1, <1>2, <1>3 DEF Agrees, RowTypes, Opened, ClosedStatuses
<1>6. \A h \in Handlers \ {q} : pc'[h] = pc[h] /\ app'[h] = app[h] /\ value'[h] = value[h]
  BY <1>1 DEF RequestStep, GetOrCreate, CheckLast, UpdatePersonalInfo, Insert, Submit,
     CheckDocuments, Resubmit, Upload, Clear, Store, DeleteDocument, Remove, Begin, Finish, Goto,
     LocalTypes
<1>7. pc[q] # "user" /\ pc'[q] # "user"
  <2>1. pc[q] # "user"
    BY <1>1 DEF Holds
  <2> QED BY <1>1, <2>1 DEF RequestStep, GetOrCreate, CheckLast, UpdatePersonalInfo, Insert,
             Submit, CheckDocuments, Resubmit, Upload, Clear, Store, DeleteDocument, Remove,
             Begin, Finish, Goto, LocalTypes
<1>8. Halfway' <=> Halfway
  BY <1>6, <1>7 DEF Halfway
<1>9. \A h \in Handlers : pc'[h] = "user" => status'[app'[h]] = value'[h]
  BY <1>1, <1>4, <1>6, <1>7 DEF Orderly, Holds
<1>10. pc'[q] \in {"documents", "apply"} => app'[q] \in Opened /\ status[app'[q]] # "VERIFIED"
  <2>1. ASSUME NEW a \in Opened, NEW at, NEW v, Begin(q, at, a, v), status[a] # "VERIFIED"
        PROVE  app'[q] \in Opened /\ status[app'[q]] # "VERIFIED"
    BY <1>1, <2>1 DEF Begin, LocalTypes
  <2>2. CASE Submit(q) \/ Resubmit(q)
    BY <2>1, <2>2 DEF Submit, Resubmit, ActiveApps
  <2>3. CASE CheckDocuments(q)
    BY <1>1, <2>3 DEF CheckDocuments, Finish, Goto, Holds, LocalTypes, Orderly
  <2>4. CASE ~Submit(q) /\ ~Resubmit(q) /\ ~CheckDocuments(q)
    BY <1>1, <2>4 DEF RequestStep, GetOrCreate, CheckLast, UpdatePersonalInfo, Insert, Upload,
       Clear, Store, DeleteDocument, Remove, Begin, Finish, Goto, LocalTypes
  <2> QED BY <2>2, <2>3, <2>4
<1>11. ASSUME NEW p \in Requests, pc'[p] \in {"documents", "apply"}
       PROVE  status'[app'[p]] # "VERIFIED"
  <2>1. CASE p = q
    BY <1>4, <1>10, <1>11, <2>1
  <2>2. CASE p # q
    BY <1>1, <1>4, <1>6, <1>11, <2>2 DEF Orderly, Holds
  <2> QED BY <2>1, <2>2
<1> QED BY <1>5, <1>8, <1>9, <1>11 DEF Orderly

\* Staff reads, and a handler that is rejected writes nothing: halfway it is recorded.
LEMMA ReaderOrderly ==
  ASSUME RowsInv, Orderly, NEW h \in Handlers, ~disturbed',
         (h \in Staff /\ DecisionStep(h)) \/ KycRejected(h)
  PROVE  Orderly'
<1>1. /\ LocalTypes /\ Requests \subseteq Handlers /\ Requests \cap Staff = {}
  BY TypeParts, KycAssumption DEF RowsInv, Handlers
<1>2. UNCHANGED <<status, userStatus>>
  BY DEF DecisionStep, Review, ProviderWebhook, RequestResubmission, TriggerReverification, Begin,
     KycRejected, Reject, rows
<1>3. \A g \in Handlers \ {h} : pc'[g] = pc[g] /\ app'[g] = app[g] /\ value'[g] = value[g]
  BY <1>1 DEF DecisionStep, Review, ProviderWebhook, RequestResubmission, TriggerReverification,
     Begin, Goto, KycRejected, Reject, Finish, LocalTypes
<1>4. pc[h] # "user" /\ pc'[h] # "user"
  BY <1>1 DEF DecisionStep, Review, ProviderWebhook, RequestResubmission, TriggerReverification,
     Begin, Goto, KycRejected, Reject, Finish, LocalTypes
<1>5. h \in Requests => pc'[h] = "idle"
  BY <1>1 DEF KycRejected, Reject, Finish, Goto, LocalTypes
<1>6. Agrees' <=> Agrees
  BY <1>2 DEF Agrees
<1>7. Halfway' <=> Halfway
  BY <1>3, <1>4 DEF Halfway
<1> QED BY <1>1, <1>2, <1>3, <1>4, <1>5, <1>6, <1>7 DEF Orderly

\* A writer that is alone finds the rows agreeing, or finishes what it began.
LEMMA WriterOrderly ==
  ASSUME RowsInv, Orderly, NEW h \in Handlers, KycWrite(h), ~disturbed'
  PROVE  Orderly'
<1>1. /\ RowTypes /\ LocalTypes /\ Holds(h) /\ Requests \subseteq Handlers
      /\ Requests \cap Staff = {}
  BY TypeParts, KycAssumption DEF RowsInv, Handlers
<1>2. Writers = {h}
  BY DEF KycWrite
<1>3. \A g \in Handlers \ {h} : pc[g] \notin {"documents", "apply", "user"}
  BY <1>2 DEF Writers
<1>4. \A g \in Handlers \ {h} : pc'[g] = pc[g] /\ app'[g] = app[g] /\ value'[g] = value[g]
  BY <1>1 DEF KycWrite, Apply, ApplyToUser, Goto, Finish, LocalTypes
<1>5. CASE Apply(h)
  <2>1. /\ pc[h] = "apply" /\ app[h] \in Apps
        /\ status' = [status EXCEPT ![app[h]] = value[h]] /\ UNCHANGED userStatus
    BY <1>1, <1>5 DEF Apply, Holds, Opened
  <2>2. CASE h \in Staff /\ Goto(h, "user") /\ UNCHANGED <<app, value>>
    <3>1. pc'[h] = "user" /\ status'[app'[h]] = value'[h]
      BY <1>1, <2>1, <2>2 DEF Goto, LocalTypes, RowTypes
    <3> QED BY <1>1, <1>3, <1>4, <2>2, <3>1 DEF Orderly, Halfway
  <2>3. CASE h \in Requests /\ Finish(h)
    <3>1. pc'[h] = "idle"
      BY <1>1, <2>3 DEF Finish, Goto, LocalTypes
    <3>2. ~Halfway
      BY <1>3, <2>1 DEF Halfway
    <3>3. status[app[h]] # "VERIFIED" /\ value[h] \in {"PENDING", "UNDER_REVIEW"}
      BY <1>1, <2>1, <2>3 DEF Orderly, Holds
    <3>4. Agrees'
      BY <1>1, <2>1, <3>2, <3>3 DEF Orderly, Agrees, RowTypes, ClosedStatuses
    <3> QED BY <1>1, <1>3, <1>4, <3>1, <3>4 DEF Orderly
  <2> QED BY <1>5, <2>2, <2>3 DEF Apply
<1>6. CASE ApplyToUser(h)
  <2>1. /\ pc[h] = "user" /\ pc'[h] = "idle" /\ userStatus' = value[h] /\ UNCHANGED status
    BY <1>1, <1>6 DEF ApplyToUser, Finish, Goto, LocalTypes
  <2>2. h \in Staff /\ value[h] \in ClosedStatuses /\ app[h] \in Apps
    BY <1>1, <2>1 DEF Holds, Handlers, Opened
  <2>3. status[app[h]] = value[h]
    BY <2>1 DEF Orderly
  <2>4. Agrees'
    BY <2>1, <2>2, <2>3 DEF Agrees, ClosedStatuses
  <2> QED BY <1>1, <1>3, <1>4, <2>1, <2>4 DEF Orderly
<1> QED BY <1>5, <1>6 DEF KycWrite

\* What was disturbed stays so: the console and the other modules always leave it.
LEMMA DisturbedStays ==
  ASSUME [Next]_vars, RowsInv, ~disturbed'
  PROVE  /\ ~disturbed
         /\ \A c \in Conns : ~OthersEnd(c)
         /\ \A r \in Reviewers, c \in Conns : ~WriteApp(r, c) /\ ~WriteUser(r, c) /\ ~Commit(r, c)
<1>1. disturbed' # TRUE
  OBVIOUS
<1>2. \A c \in Conns : ~OthersEnd(c)
  BY <1>1 DEF OthersEnd
<1>3. \A r \in Reviewers, c \in Conns : ~WriteApp(r, c) /\ ~WriteUser(r, c) /\ ~Commit(r, c)
  BY <1>1 DEF WriteApp, WriteUser, Commit
<1>4. ASSUME NEW h \in Handlers, KycStep(h) \/ KycWrite(h) \/ KycRejected(h) PROVE ~disturbed
  BY <1>4 DEF KycStep, KycWrite, KycRejected
<1>5. ASSUME NEW r \in Reviewers, ReviewStep(r) PROVE ~disturbed
  BY <1>3, <1>5 DEF ReviewStep, StartReview, Select, BeginTransaction, Rollback, StatementFails
<1>6. ASSUME UNCHANGED vars PROVE ~disturbed
  <2>1. disturbed' = disturbed
    BY <1>6 DEF vars
  <2> QED BY <2>1
<1> QED BY <1>2, <1>3, <1>4, <1>5, <1>6 DEF Next

\* As long as no two writers of the user's rows overlap, no decision of modules/kyc is cut
\* short and the console writes none, the user's row follows her applications in every
\* quiet state, for any number of handlers and applications.
THEOREM RowsInStep == Spec => []InStep
<1>1. Init => (~disturbed => Orderly)
  BY DEF Init, KycInit, Orderly, Agrees, Handlers, ClosedStatuses
<1>2. RowsInv /\ (~disturbed => Orderly) /\ [Next]_vars => (~disturbed' => Orderly')
  <2> SUFFICES ASSUME RowsInv, ~disturbed => Orderly, [Next]_vars, ~disturbed' PROVE Orderly'
    OBVIOUS
  <2>1. Orderly
    BY DisturbedStays
  <2>2. ASSUME NEW h \in Handlers, KycStep(h) \/ KycWrite(h) \/ KycRejected(h) PROVE Orderly'
    BY <2>1, <2>2, RequestOrderly, ReaderOrderly, WriterOrderly DEF KycStep, KycRejected
  <2>3. ASSUME NEW r \in Reviewers, ReviewStep(r) PROVE Orderly'
    <3>1. UNCHANGED <<rows, handlers>>
      BY <2>3, DisturbedStays DEF ReviewStep, StartReview, Select, BeginTransaction, Rollback,
         StatementFails
    <3> QED BY <2>1, <3>1 DEF rows, handlers, Orderly, Halfway, Agrees
  <2>4. CASE UNCHANGED vars
    BY <2>1, <2>4 DEF vars, rows, handlers, Orderly, Halfway, Agrees
  <2> QED BY <2>2, <2>3, <2>4, DisturbedStays DEF Next
<1>3. (~disturbed => Orderly) => InStep
  BY DEF Orderly, Halfway, Agrees, InStep
<1> QED BY <1>1, <1>2, <1>3, RowsInvariance, PTL DEF Spec

=============================================================================
