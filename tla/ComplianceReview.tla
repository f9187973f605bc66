-------------------------- MODULE ComplianceReview --------------------------
(***************************************************************************)
(* The compliance console (server/modules/compliance/review) decides the   *)
(* applications of KycApplication between BEGIN and COMMIT, but sends each *)
(* statement through the pool: pool.query takes an idle connection, runs   *)
(* one statement and gives it back.  The whole server uses that pool, and  *)
(* nothing ties the statements of one decision to one connection: each     *)
(* runs on whichever is idle, in whichever transaction that one is left.   *)
(*                                                                         *)
(* A statement is a step; a transaction that is open keeps its writes and  *)
(* the locks of the rows it wrote, until a COMMIT or ROLLBACK meets its    *)
(* connection, of the console or of anybody else, or the pool drops it.    *)
(* External: PostgreSQL, the pool of pg and the modules that share it.     *)
(***************************************************************************)
EXTENDS KycApplication

CONSTANTS
  Reviewers,  \* requests of the compliance console
  Conns,      \* connections of the pool
  MaxReviews  \* bound: decisions the console starts

ASSUME ComplianceAssumption == MaxReviews \in Nat

VARIABLES
  open,       \* connections in a transaction
  wrote,      \* the statuses of applications an open transaction has written
  wroteUser,  \* the kyc_status it has written
  rpc,        \* a request's next statement
  rapp,       \* its application
  rvalue,     \* its decision
  reviews,    \* decisions started
  disturbed   \* history: writers of the rows overlapped, one was cut short, or
              \* the console wrote one

poolVars == <<open, wrote, wroteUser>>
reviewVars == <<rpc, rapp, rvalue, reviews>>
vars == <<rows, handlers, poolVars, reviewVars, disturbed>>

TypeOK ==
  /\ KycTypeOK
  /\ open \subseteq Conns
  /\ wrote \in [Conns -> [Apps -> Statuses \cup {"none"}]]
  /\ wroteUser \in [Conns -> ClosedStatuses \cup {"none"}]
  /\ rpc \in [Reviewers -> {"idle", "select", "begin", "app", "user", "commit", "rollback"}]
  /\ rapp \in [Reviewers -> Apps \cup {0}]
  /\ rvalue \in [Reviewers -> ClosedStatuses \cup {"none"}]
  /\ reviews \in 0 .. MaxReviews
  /\ disturbed \in BOOLEAN

Nothing == [a \in Apps |-> "none"]

Init ==
  /\ KycInit
  /\ open = {}
  /\ wrote = [c \in Conns |-> Nothing]
  /\ wroteUser = [c \in Conns |-> "none"]
  /\ rpc = [r \in Reviewers |-> "idle"]
  /\ rapp = [r \in Reviewers |-> 0]
  /\ rvalue = [r \in Reviewers |-> "none"]
  /\ reviews = 0
  /\ disturbed = FALSE

\* What a statement on c sees: the writes of its own transaction first.
Seen(c, a) == IF wrote[c][a] = "none" THEN status[a] ELSE wrote[c][a]

\* A row written by an open transaction is locked for all other connections.
AppLocked(a, others) == \E c \in others : wrote[c][a] # "none"
UserLocked(others) == \E c \in others : wroteUser[c] # "none"

\* COMMIT: all see what the transaction of c wrote.
Publish(c) ==
  /\ status' = [a \in Apps |-> Seen(c, a)]
  /\ userStatus' = IF wroteUser[c] = "none" THEN userStatus ELSE wroteUser[c]
  /\ UNCHANGED documents

\* The transaction of c is over and its writes are forgotten.
Close(c) ==
  /\ open' = open \ {c}
  /\ wrote' = [wrote EXCEPT ![c] = Nothing]
  /\ wroteUser' = [wroteUser EXCEPT ![c] = "none"]

-----------------------------------------------------------------------------
(* Requests of the console, a statement each, on connection c *)

ReviewGoto(r, at) == rpc' = [rpc EXCEPT ![r] = at]

EndReview(r) ==
  /\ ReviewGoto(r, "idle")
  /\ rapp' = [rapp EXCEPT ![r] = 0]
  /\ rvalue' = [rvalue EXCEPT ![r] = "none"]
  /\ UNCHANGED reviews

\* approve, reject or resubmit, suspend.
StartReview(r, a, decision) ==
  /\ rpc[r] = "idle"
  /\ status[a] # "none"
  /\ reviews < MaxReviews
  /\ reviews' = reviews + 1
  /\ ReviewGoto(r, "select")
  /\ rapp' = [rapp EXCEPT ![r] = a]
  /\ rvalue' = [rvalue EXCEPT ![r] = decision]
  /\ UNCHANGED <<rows, handlers, poolVars, disturbed>>

\* The approval of a VERIFIED application ends here; a suspension opens no transaction.
Select(r, c) ==
  /\ rpc[r] = "select"
  /\ IF rvalue[r] = "VERIFIED" /\ Seen(c, rapp[r]) = "VERIFIED"
       THEN EndReview(r)
       ELSE /\ ReviewGoto(r, IF rvalue[r] = "SUSPENDED" THEN "app" ELSE "begin")
            /\ UNCHANGED <<rapp, rvalue, reviews>>
  /\ UNCHANGED <<rows, handlers, poolVars, disturbed>>

\* In a connection that is in a transaction already, BEGIN is only a warning.
BeginTransaction(r, c) ==
  /\ rpc[r] = "begin"
  /\ open' = open \cup {c}
  /\ ReviewGoto(r, "app")
  /\ UNCHANGED <<rows, handlers, wrote, wroteUser, rapp, rvalue, reviews, disturbed>>

\* The row changes at once when the connection is in no transaction.
WriteApp(r, c) ==
  LET a == rapp[r]
  IN /\ rpc[r] = "app"
     /\ ~AppLocked(a, open \ {c})
     /\ IF c \in open
          THEN wrote' = [wrote EXCEPT ![c][a] = rvalue[r]] /\ UNCHANGED status
          ELSE status' = [status EXCEPT ![a] = rvalue[r]] /\ UNCHANGED wrote
     /\ ReviewGoto(r, "user")
     /\ disturbed' = TRUE
     /\ UNCHANGED <<documents, userStatus, handlers, open, wroteUser, rapp, rvalue, reviews>>

WriteUser(r, c) ==
  /\ rpc[r] = "user"
  /\ ~UserLocked(open \ {c})
  /\ IF c \in open
       THEN wroteUser' = [wroteUser EXCEPT ![c] = rvalue[r]] /\ UNCHANGED userStatus
       ELSE userStatus' = rvalue[r] /\ UNCHANGED wroteUser
  /\ IF rvalue[r] = "SUSPENDED"
       THEN EndReview(r)
       ELSE ReviewGoto(r, "commit") /\ UNCHANGED <<rapp, rvalue, reviews>>
  /\ disturbed' = TRUE
  /\ UNCHANGED <<status, documents, handlers, open, wrote>>

\* Outside a transaction COMMIT and ROLLBACK are only warnings.
Commit(r, c) ==
  /\ rpc[r] = "commit"
  /\ Publish(c)
  /\ Close(c)
  /\ EndReview(r)
  /\ disturbed' = TRUE
  /\ UNCHANGED handlers

Rollback(r, c) ==
  /\ rpc[r] = "rollback"
  /\ Close(c)
  /\ EndReview(r)
  /\ UNCHANGED <<rows, handlers, disturbed>>

\* A statement is rejected: the pool drops its connection, whose transaction the server
\* rolls back, and the catch block sends ROLLBACK through the pool.
StatementFails(r, c) ==
  /\ Faults
  /\ rpc[r] # "idle"
  /\ Close(c)
  /\ IF rpc[r] \in {"app", "user", "commit"} /\ rvalue[r] # "SUSPENDED"
       THEN ReviewGoto(r, "rollback") /\ UNCHANGED <<rapp, rvalue, reviews>>
       ELSE EndReview(r)
  /\ UNCHANGED <<rows, handlers, disturbed>>

\* Another module takes c for a transaction of its own, in which the one left open is
\* committed or rolled back; or c is idle for too long and closed.
OthersEnd(c) ==
  /\ c \in open
  /\ Publish(c) \/ UNCHANGED rows
  /\ Close(c)
  /\ disturbed' = TRUE
  /\ UNCHANGED <<handlers, reviewVars>>

-----------------------------------------------------------------------------
(* The handlers of KycApplication use a pool of their own *)

\* The handlers that will still write a row of the user.
Writers == {h \in Handlers : pc[h] \in {"documents", "apply", "user"}}

\* A write waits for the rows of open transactions.
KycWrite(h) ==
  /\ \/ Apply(h) /\ ~AppLocked(app[h], open)
     \/ ApplyToUser(h) /\ ~UserLocked(open)
  /\ disturbed' = (disturbed \/ Writers # {h})
  /\ UNCHANGED <<poolVars, reviewVars>>

KycStep(h) ==
  /\ \/ h \in Requests /\ RequestStep(h)
     \/ h \in Staff /\ DecisionStep(h)
  /\ UNCHANGED <<poolVars, reviewVars, disturbed>>

KycRejected(h) ==
  /\ Reject(h)
  /\ disturbed' = (disturbed \/ pc[h] = "user")
  /\ UNCHANGED <<poolVars, reviewVars>>

ReviewStep(r) ==
  \/ \E a \in Apps, decision \in {"VERIFIED", "REJECTED", "SUSPENDED"} :
       StartReview(r, a, decision)
  \/ \E c \in Conns :
       \/ Select(r, c) \/ BeginTransaction(r, c) \/ WriteApp(r, c) \/ WriteUser(r, c)
       \/ Commit(r, c) \/ Rollback(r, c) \/ StatementFails(r, c)

Next ==
  \/ \E h \in Handlers : KycStep(h) \/ KycWrite(h) \/ KycRejected(h)
  \/ \E r \in Reviewers : ReviewStep(r)
  \/ \E c \in Conns : OthersEnd(c)

Spec == Init /\ [][Next]_vars

-----------------------------------------------------------------------------
(* Properties *)

\* Requests of the user that do not overlap leave her one active application at most,
\* whatever staff decides meanwhile: findActiveApplicationByUserId has one answer.
OneActive == \A a, b \in ActiveApps : a = b

\* Where modules/kyc alone decides, one writer after the other and none cut short, the
\* user's row follows her applications: no reopening, submission or verdict leaves her
\* VERIFIED without an application that is, and no decision stops before her row.
InStep ==
  (\A h \in Handlers : pc[h] = "idle") /\ ~disturbed =>
    /\ userStatus = "VERIFIED" => \E a \in Apps : status[a] = "VERIFIED"
    /\ (\E a \in Apps : status[a] \in ClosedStatuses) => userStatus # "NOT_STARTED"

\* Not so: a transaction does not outlive the request that opened it.
NothingLeftOpen == open # {} => \E r \in Reviewers : rpc[r] # "idle"

=============================================================================
