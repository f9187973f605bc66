-------------------------- MODULE MigrationsProofs --------------------------
(***************************************************************************)
(* Theorems about Migrations for every set of servers, every release and   *)
(* number of files, with commands of the administrator, rejected files,    *)
(* crashes, lost connections and lost answers in any order.                *)
(***************************************************************************)
EXTENDS Migrations, SequenceTheorems, TLAPS

(***************************************************************************)
(* Sequences without repetitions                                           *)
(***************************************************************************)

Distinct(q) == \A i, j \in 1 .. Len(q) : q[i] = q[j] => i = j

\* The elements of a sequence, by its length.
LEMMA Elements ==
  ASSUME NEW S, NEW q \in Seq(S)
  PROVE  /\ ToSet(q) \subseteq S
         /\ \A x : x \in ToSet(q) <=> \E i \in 1 .. Len(q) : q[i] = x
BY LenProperties DEF ToSet

LEMMA EmptyElements == << >> \in Seq(Numbers) /\ ToSet(<< >>) = {} /\ Distinct(<< >>)
<1>1. << >> \in Seq(Numbers) /\ Len(<< >>) = 0
  BY EmptySeq
<1>2. \A i : i \notin 1 .. 0
  OBVIOUS
<1>3. \A x : x \notin ToSet(<< >>)
  BY <1>1, <1>2, Elements
<1> QED BY <1>1, <1>2, <1>3 DEF Distinct

\* Taking off the first element takes off nothing else.
LEMMA TailElements ==
  ASSUME NEW S, NEW q \in Seq(S), q # << >>, Distinct(q)
  PROVE  /\ Distinct(Tail(q))
         /\ ToSet(Tail(q)) = ToSet(q) \ {Head(q)}
         /\ Head(q) \in ToSet(q)
<1>1. /\ Tail(q) \in Seq(S) /\ Len(Tail(q)) = Len(q) - 1 /\ Len(q) \in Nat \ {0}
      /\ \A i \in 1 .. Len(Tail(q)) : Tail(q)[i] = q[i + 1]
  BY HeadTailProperties, EmptySeq
<1>2. Head(q) = q[1]
  OBVIOUS
<1>3. Distinct(Tail(q))
  BY <1>1 DEF Distinct
<1>4. Head(q) \in ToSet(q)
  BY <1>1, <1>2, Elements
<1>5. ASSUME NEW x PROVE x \in ToSet(Tail(q)) <=> x \in ToSet(q) \ {Head(q)}
  <2>1. ASSUME x \in ToSet(Tail(q)) PROVE x \in ToSet(q) \ {Head(q)}
    <3>1. PICK i \in 1 .. Len(Tail(q)) : Tail(q)[i] = x
      BY <1>1, <2>1, Elements
    <3>2. i + 1 \in 1 .. Len(q) /\ 1 \in 1 .. Len(q) /\ q[i + 1] = x /\ i + 1 # 1
      BY <1>1, <3>1
    <3> QED BY <1>2, <3>2, Elements DEF Distinct
  <2>2. ASSUME x \in ToSet(q), x # Head(q) PROVE x \in ToSet(Tail(q))
    <3>1. PICK i \in 1 .. Len(q) : q[i] = x
      BY <2>2, Elements
    <3>2. i - 1 \in 1 .. Len(Tail(q)) /\ Tail(q)[i - 1] = x
      BY <1>1, <1>2, <2>2, <3>1
    <3>3. \E k \in 1 .. Len(Tail(q)) : Tail(q)[k] = x
      BY <3>2
    <3>4. Tail(q) \in Seq(S)
      BY <1>1
    <3> QED BY <3>3, <3>4, Elements
  <2> QED BY <2>1, <2>2
<1> QED BY <1>3, <1>4, <1>5

\* So does taking off any other.
LEMMA RemoveElements ==
  ASSUME NEW S, NEW q \in Seq(S), Distinct(q), NEW i \in 1 .. Len(q)
  PROVE  /\ RemoveAt(q, i) \in Seq(S)
         /\ Distinct(RemoveAt(q, i))
         /\ ToSet(RemoveAt(q, i)) = ToSet(q) \ {q[i]}
<1> DEFINE n == Len(q)
           a == SubSeq(q, 1, i - 1)
           b == SubSeq(q, i + 1, n)
           r == RemoveAt(q, i)
<1>1. n \in Nat /\ \A k \in 1 .. n : q[k] \in S
  BY LenProperties
<1>2. /\ a \in Seq(S) /\ Len(a) = i - 1
      /\ \A k \in 1 .. i - 1 : a[k] = q[k]
  <2>1. \A k \in 1 .. i - 1 : q[k] \in S
    BY <1>1
  <2> QED BY <1>1, <2>1, SubSeqProperties
<1>3. /\ b \in Seq(S) /\ Len(b) = n - i
      /\ \A k \in 1 .. n - i : b[k] = q[i + k]
  <2>1. \A k \in i + 1 .. n : q[k] \in S
    BY <1>1
  <2>2. /\ b \in Seq(S)
        /\ Len(b) = IF i + 1 <= n THEN n - (i + 1) + 1 ELSE 0
        /\ \A k \in 1 .. n - (i + 1) + 1 : b[k] = q[(i + 1) + k - 1]
    BY <1>1, <2>1, SubSeqProperties, i + 1 \in Int, n \in Int
  <2> QED BY <1>1, <2>2
<1>4. /\ r \in Seq(S) /\ Len(r) = n - 1
      /\ \A k \in 1 .. n - 1 : r[k] = IF k < i THEN q[k] ELSE q[k + 1]
  <2>1. r = a \o b
    BY DEF RemoveAt
  <2>2. /\ a \o b \in Seq(S) /\ Len(a \o b) = (i - 1) + (n - i)
        /\ \A k \in 1 .. (i - 1) + (n - i) :
             (a \o b)[k] = IF k <= i - 1 THEN a[k] ELSE b[k - (i - 1)]
    <3> HIDE DEF a, b
    <3>1. /\ a \o b \in Seq(S) /\ Len(a \o b) = Len(a) + Len(b)
          /\ \A k \in 1 .. Len(a) + Len(b) :
               (a \o b)[k] = IF k <= Len(a) THEN a[k] ELSE b[k - Len(a)]
      BY <1>2, <1>3, ConcatProperties
    <3> QED BY <1>2, <1>3, <3>1
  <2> HIDE DEF a, b, r
  <2>3. r \in Seq(S) /\ Len(r) = n - 1
    BY <1>1, <2>1, <2>2
  <2>4. ASSUME NEW k \in 1 .. n - 1 PROVE r[k] = IF k < i THEN q[k] ELSE q[k + 1]
    <3>1. CASE k < i
      BY <1>1, <1>2, <2>1, <2>2, <3>1
    <3>2. CASE ~(k < i)
      <4>1. k - (i - 1) \in 1 .. n - i /\ i + (k - (i - 1)) = k + 1
        BY <1>1, <3>2
      <4> QED BY <1>1, <1>3, <2>1, <2>2, <3>2, <4>1
    <3> QED BY <3>1, <3>2
  <2> QED BY <2>3, <2>4
<1> HIDE DEF a, b, r
<1>5. Distinct(r)
  BY <1>1, <1>4 DEF Distinct
<1>6. ASSUME NEW x PROVE x \in ToSet(r) <=> x \in ToSet(q) \ {q[i]}
  <2>1. ASSUME x \in ToSet(r) PROVE x \in ToSet(q) /\ x # q[i]
    <3>1. PICK k \in 1 .. n - 1 : r[k] = x
      BY <1>4, <2>1, Elements
    <3>2. PICK m \in 1 .. n : m # i /\ q[m] = x
      BY <1>1, <1>4, <3>1
    <3> QED BY <3>2, Elements DEF Distinct
  <2>2. ASSUME x \in ToSet(q), x # q[i] PROVE x \in ToSet(r)
    <3>1. PICK m \in 1 .. n : q[m] = x
      BY <2>2, Elements
    <3>2. PICK k \in 1 .. n - 1 : k = IF m < i THEN m ELSE m - 1
      BY <1>1, <2>2, <3>1
    <3>3. r[k] = x
      BY <1>1, <1>4, <2>2, <3>1, <3>2
    <3> QED BY <1>4, <3>3, Elements
  <2> QED BY <2>1, <2>2
<1> QED BY <1>4, <1>5, <1>6 DEF r

\* So does adding an element that was not there.
LEMMA AppendElements ==
  ASSUME NEW S, NEW q \in Seq(S), Distinct(q), NEW x \in S, x \notin ToSet(q)
  PROVE  /\ Append(q, x) \in Seq(S)
         /\ Distinct(Append(q, x))
         /\ ToSet(Append(q, x)) = ToSet(q) \cup {x}
<1> DEFINE r == Append(q, x)
<1>1. /\ r \in Seq(S) /\ Len(r) = Len(q) + 1 /\ Len(q) \in Nat
      /\ \A i \in 1 .. Len(q) : r[i] = q[i]
      /\ r[Len(q) + 1] = x
  BY AppendProperties, LenProperties
<1> HIDE DEF r
<1>2. \A i \in 1 .. Len(q) : q[i] # x
  BY Elements
<1>3. Distinct(r)
  BY <1>1, <1>2 DEF Distinct
<1>4. ASSUME NEW y PROVE y \in ToSet(r) <=> y \in ToSet(q) \cup {x}
  <2>1. y \in ToSet(r) <=> \E i \in 1 .. Len(q) + 1 : r[i] = y
    BY <1>1, Elements
  <2>2. y \in ToSet(q) <=> \E i \in 1 .. Len(q) : q[i] = y
    BY Elements
  <2> QED BY <1>1, <2>1, <2>2
<1> QED BY <1>1, <1>3, <1>4 DEF r

-----------------------------------------------------------------------------
(***************************************************************************)
(* The inductive invariant                                                 *)
(***************************************************************************)

\* The lock is held from before schema_migrations is read until the transaction ends.
LockHeld == \A s \in Servers : pc[s] \in {"reading", "running"} => lock = s

\* What a server read is still what is recorded, and its transaction adds to that
\* only files of its own build.
Snapshot ==
  \A s \in Servers :
    /\ pc[s] = "running" => seen[s] = recorded
    /\ work[s] # {} => pc[s] = "running"
    /\ work[s] \subseteq FilesOf(s) \ seen[s]

\* A command has its files left, each once: none of them recorded when it migrates,
\* all of them when it rolls back.  _migrations has a file once.
CommandInv ==
  /\ mode = "idle" <=> todo = << >>
  /\ open # 0 => todo # << >> /\ open = Head(todo)
  /\ Distinct(todo) /\ Distinct(table)
  /\ mode = "migrate" => ToSet(todo) \cap ToSet(table) = {}
  /\ mode = "rollback" => ToSet(todo) \subseteq ToSet(table)

ServerInv == LockHeld /\ Snapshot /\ AllOrNothing

MigrationsInv == TypeOK /\ ServerInv /\ CommandInv

LEMMA InitInv == Init => MigrationsInv
<1> SUFFICES ASSUME Init PROVE MigrationsInv
  OBVIOUS
<1>1. table = << >> /\ todo = << >> /\ mode = "idle" /\ open = 0
  BY DEF Init
<1>2. CommandInv
  BY <1>1, EmptyElements DEF CommandInv
<1>3. /\ attempt \in [Servers -> 0 .. MaxAttempts]
      /\ commands \in 0 .. MaxCommands /\ faults \in 0 .. MaxFaults /\ open \in 0 .. Files
  BY MigrationsAssumption DEF Init
<1>5. pc \in [Servers -> {"down", "locking", "reading", "running", "retrying", "ready"}]
  BY DEF Init
<1>6. seen \in [Servers -> SUBSET Numbers] /\ work \in [Servers -> SUBSET Numbers]
  BY DEF Init
<1>4. TypeOK
  BY <1>1, <1>3, <1>5, <1>6, EmptyElements DEF Init, TypeOK
<1> QED BY <1>1, <1>2, <1>4, EmptyElements
        DEF Init, MigrationsInv, ServerInv, LockHeld, Snapshot, AllOrNothing

-----------------------------------------------------------------------------
(* Steps of a server *)

\* The administrator's part of the invariant does not see what a server does.
LEMMA CommandKept ==
  ASSUME CommandInv, UNCHANGED <<table, mode, todo, open>>
  PROVE  CommandInv'
BY DEF CommandInv, Distinct

\* A step up to COMMIT that leaves the tables alone.
LEMMA WaitInv ==
  ASSUME MigrationsInv, NEW s \in Servers,
         Boot(s) \/ AcquireLock(s) \/ ReadApplied(s) \/ (Apply(s) /\ UNCHANGED pc)
  PROVE  MigrationsInv'
<1> USE DEF MigrationsInv
<1>1. UNCHANGED <<recorded, table, adminVars, faults>>
  BY DEF Boot, AcquireLock, ReadApplied, Apply, dbVars
<1>2. Left(s) \subseteq Numbers
  <2>1. Release[s] \in Nat /\ Release[s] <= Files /\ Files \in Nat
    BY MigrationsAssumption
  <2> QED BY <2>1 DEF Left, FilesOf, Numbers
<1>3. TypeOK'
  <2>1. CASE Apply(s)
    <3>1. /\ pc[s] = "running" /\ UNCHANGED <<lock, pc, seen, attempt>>
          /\ \E f \in Left(s) : work' = [work EXCEPT ![s] = @ \cup {f}]
      BY <2>1 DEF Boot, AcquireLock, ReadApplied, Apply, End, TypeOK
    <3>2. work' \in [Servers -> SUBSET Numbers]
      BY <1>2, <3>1 DEF TypeOK
    <3> QED BY <1>1, <3>1, <3>2 DEF TypeOK, adminVars
  <2>2. CASE ~Apply(s)
    BY <1>1, <2>2 DEF TypeOK, Boot, AcquireLock, ReadApplied, dbVars, adminVars
  <2> QED BY <2>1, <2>2
<1>4. LockHeld'
  <2>1. CASE AcquireLock(s)
    BY <2>1, MigrationsAssumption DEF AcquireLock, ServerInv, LockHeld, TypeOK
  <2>2. CASE ~AcquireLock(s)
    BY <2>2 DEF ServerInv, LockHeld, TypeOK, Boot, ReadApplied, Apply, End, dbVars
  <2> QED BY <2>1, <2>2
<1>5. Snapshot'
  <2>1. CASE Boot(s) \/ AcquireLock(s)
    BY <1>1, <2>1 DEF Boot, AcquireLock, ServerInv, Snapshot, TypeOK
  <2>2. CASE ReadApplied(s)
    BY <1>1, <2>2 DEF ReadApplied, ServerInv, Snapshot, TypeOK
  <2>3. CASE Apply(s)
    <3>1. /\ pc[s] = "running" /\ UNCHANGED <<pc, seen>>
          /\ \E f \in Left(s) : work' = [work EXCEPT ![s] = @ \cup {f}]
      BY <2>3 DEF Boot, AcquireLock, ReadApplied, Apply, End, TypeOK
    <3> QED BY <1>1, <3>1 DEF Left, ServerInv, Snapshot, TypeOK
  <2> QED BY <2>1, <2>2, <2>3
<1>6. AllOrNothing'
  BY <1>1 DEF ServerInv, AllOrNothing
<1> QED BY <1>1, <1>3, <1>4, <1>5, <1>6, CommandKept DEF ServerInv, adminVars

\* A server that stops, or lost its connection, gives up its lock and its work.
LEMMA StopInv ==
  ASSUME MigrationsInv, NEW s \in Servers,
         LockTimeout(s) \/ (Apply(s) /\ End(s)) \/ Abort(s) \/ Retry(s) \/ LoseConnection(s)
  PROVE  MigrationsInv'
<1> USE DEF MigrationsInv
<1>1. UNCHANGED <<recorded, table, adminVars>>
  BY DEF LockTimeout, Apply, Abort, Retry, LoseConnection
<1>2. /\ pc' \in [Servers -> {"down", "locking", "reading", "running", "retrying", "ready"}]
      /\ seen' \in [Servers -> SUBSET Numbers] /\ work' \in [Servers -> SUBSET Numbers]
      /\ \A t \in Servers \ {s} : pc'[t] = pc[t] /\ seen'[t] = seen[t] /\ work'[t] = work[t]
      /\ pc'[s] \in {"down", "retrying"} /\ work'[s] = {}
      /\ lock' = lock \/ (lock = s /\ lock' = NoServer)
  <2>1. CASE End(s)
    <3>1. /\ pc' = [pc EXCEPT ![s] = "down"]
          /\ seen' = [seen EXCEPT ![s] = {}] /\ work' = [work EXCEPT ![s] = {}]
          /\ lock' = lock \/ (lock = s /\ lock' = NoServer)
      BY <2>1 DEF End
    <3>2. pc' \in [Servers -> {"down", "locking", "reading", "running", "retrying", "ready"}]
      BY <3>1 DEF TypeOK
    <3>3. seen' \in [Servers -> SUBSET Numbers] /\ work' \in [Servers -> SUBSET Numbers]
      BY <3>1 DEF TypeOK
    <3> QED BY <3>1, <3>2, <3>3 DEF TypeOK
  <2>2. CASE LoseConnection(s)
    BY <2>2 DEF LoseConnection, TypeOK, ServerInv, LockHeld
  <2>3. CASE Retry(s) /\ UNCHANGED <<pc, seen, work, lock>>
    <3>1. pc[s] = "retrying"
      BY <2>3 DEF Retry
    <3> QED BY <2>3, <3>1 DEF TypeOK, ServerInv, Snapshot
  <2> QED BY <2>1, <2>2, <2>3 DEF LockTimeout, Abort, Retry
<1>3. attempt' \in [Servers -> 0 .. MaxAttempts]
  <2>1. 0 \in 0 .. MaxAttempts /\ 1 \in 0 .. MaxAttempts
    BY MigrationsAssumption
  <2>2. CASE End(s) \/ LoseConnection(s)
    BY <2>1, <2>2 DEF End, LoseConnection, TypeOK
  <2>3. CASE Retry(s) /\ ~End(s)
    <3>1. attempt[s] + 1 \in 0 .. MaxAttempts /\ attempt' = [attempt EXCEPT ![s] = @ + 1]
      BY <2>3, MigrationsAssumption DEF Retry, TypeOK
    <3> QED BY <3>1 DEF TypeOK
  <2> QED BY <2>2, <2>3 DEF LockTimeout, Abort
<1>7. faults' \in 0 .. MaxFaults
  BY MigrationsAssumption DEF LockTimeout, Apply, Abort, Retry, LoseConnection, Faulty, TypeOK
<1>4. TypeOK'
  BY <1>1, <1>2, <1>3, <1>7 DEF TypeOK, adminVars
<1>5. LockHeld' /\ Snapshot' /\ AllOrNothing'
  BY <1>1, <1>2 DEF ServerInv, LockHeld, Snapshot, AllOrNothing, TypeOK
<1> QED BY <1>1, <1>4, <1>5, CommandKept DEF ServerInv, adminVars

\* A COMMIT records all that its build expects: nobody else committed since the read.
LEMMA CommitInv ==
  ASSUME MigrationsInv, NEW s \in Servers, Commit(s)
  PROVE  MigrationsInv'
<1> USE DEF MigrationsInv
<1>1. /\ pc[s] = "running" /\ Left(s) = {} /\ lock = s /\ seen[s] = recorded
      /\ recorded' = recorded \cup work[s]
      /\ UNCHANGED <<table, adminVars>>
  BY DEF Commit, ServerInv, LockHeld, Snapshot
<1>2. FilesOf(s) \subseteq recorded \cup work[s] /\ work[s] \subseteq FilesOf(s)
  BY <1>1 DEF Left, ServerInv, Snapshot
<1>3. \A t \in Servers : Release[t] \in Nat /\ Release[t] <= Files
  BY MigrationsAssumption
<1>4. /\ pc' = [pc EXCEPT ![s] = pc'[s]] /\ pc'[s] \in {"ready", "down"}
      /\ seen' = [seen EXCEPT ![s] = {}]
      /\ work' = [work EXCEPT ![s] = {}]
      /\ lock' = NoServer
  BY <1>1 DEF Commit, End, TypeOK
<1>5. attempt' \in [Servers -> 0 .. MaxAttempts] /\ faults' \in 0 .. MaxFaults
  <2>1. attempt' = attempt \/ attempt' = [attempt EXCEPT ![s] = 0]
    BY DEF Commit, End
  <2>2. attempt' \in [Servers -> 0 .. MaxAttempts]
    <3>1. 0 \in 0 .. MaxAttempts
      BY MigrationsAssumption
    <3> QED BY <2>1, <3>1 DEF TypeOK
  <2>3. faults' \in 0 .. MaxFaults
    BY MigrationsAssumption DEF Commit, Faulty, TypeOK
  <2> QED BY <2>2, <2>3
<1>6. TypeOK'
  BY <1>1, <1>4, <1>5 DEF TypeOK, adminVars
<1>7. LockHeld' /\ Snapshot'
  <2>1. \A t \in Servers : t # s => pc[t] \notin {"reading", "running"} /\ work[t] = {}
    BY <1>1 DEF ServerInv, LockHeld, Snapshot
  <2> QED BY <1>4, <2>1 DEF LockHeld, Snapshot, TypeOK
<1>8. AllOrNothing'
  <2>1. recorded' = recorded \cup FilesOf(s)
    BY <1>1, <1>2
  <2>2. CASE recorded = {}
    BY <2>1, <2>2 DEF AllOrNothing
  <2>3. ASSUME NEW t \in Servers, recorded = FilesOf(t) PROVE AllOrNothing'
    <3>1. FilesOf(t) \cup FilesOf(s) = FilesOf(t) \/ FilesOf(t) \cup FilesOf(s) = FilesOf(s)
      BY <1>3 DEF FilesOf
    <3> QED BY <2>1, <2>3, <3>1 DEF AllOrNothing, FilesOf
  <2> QED BY <2>2, <2>3 DEF ServerInv, AllOrNothing
<1> QED BY <1>1, <1>6, <1>7, <1>8, CommandKept DEF ServerInv, adminVars

-----------------------------------------------------------------------------
(* Steps of a command *)

\* The servers' part of the invariant does not see what a command does.
LEMMA ServerKept ==
  ASSUME ServerInv, UNCHANGED <<recorded, lock, serverVars>>
  PROVE  ServerInv'
BY DEF ServerInv, LockHeld, Snapshot, AllOrNothing, FilesOf, serverVars

\* A command picks its files from _migrations as it is.
LEMMA StartInv ==
  ASSUME MigrationsInv, StartMigrate \/ StartRollback
  PROVE  MigrationsInv'
<1> USE DEF MigrationsInv
<1>1. /\ UNCHANGED <<dbVars, serverVars, open, faults>>
      /\ mode = "idle" /\ open = 0 /\ todo = << >>
      /\ commands' \in 0 .. MaxCommands
  BY MigrationsAssumption DEF StartMigrate, StartRollback, CommandInv, TypeOK
<1>2. CASE StartMigrate
  <2>1. todo' \in InOrder(Numbers \ ToSet(table))
    BY <1>2 DEF StartMigrate
  <2>2. PICK n \in 0 .. Files : todo' \in [1 .. n -> Numbers \ ToSet(table)]
    BY <2>1 DEF InOrder
  <2>3. todo' \in Seq(Numbers) /\ DOMAIN todo' = 1 .. Len(todo') /\ Len(todo') \in Nat
    BY <2>2, LenProperties, n \in Nat, MigrationsAssumption
  <2>4. Distinct(todo)'
    <3>1. \A i, j \in 1 .. Len(todo') : i < j => todo'[i] < todo'[j]
      BY <2>1, <2>3 DEF InOrder
    <3>2. \A i \in 1 .. Len(todo') : todo'[i] \in Numbers
      BY <2>3, LenProperties
    <3>3. \A x \in Numbers : x \in Int
      BY DEF Numbers
    <3> QED BY <2>3, <3>1, <3>2, <3>3 DEF Distinct
  <2>5. ToSet(todo)' = Numbers \ ToSet(table)
    BY <2>1 DEF InOrder, ToSet
  <2>6. CommandInv'
    BY <1>1, <1>2, <2>4, <2>5 DEF CommandInv, StartMigrate, Distinct, dbVars
  <2>7. TypeOK'
    BY <1>1, <1>2, <2>3 DEF TypeOK, StartMigrate, dbVars, serverVars
  <2> QED BY <1>1, <2>6, <2>7, ServerKept DEF dbVars, serverVars
<1>3. CASE StartRollback
  <2>1. PICK step \in 1 .. Len(table) : todo' = SubSeq(table, Len(table) - step + 1, Len(table))
    BY <1>3 DEF StartRollback
  <2> DEFINE m == Len(table) - step
  <2>2. table \in Seq(Numbers) /\ Len(table) \in Nat /\ \A i \in 1 .. Len(table) : table[i] \in Numbers
    BY LenProperties DEF TypeOK
  <2>3. m \in Nat /\ \A i \in m + 1 .. Len(table) : table[i] \in Numbers
    BY <2>2
  <2>4. /\ todo' \in Seq(Numbers)
        /\ Len(todo') = IF m + 1 <= Len(table) THEN Len(table) - (m + 1) + 1 ELSE 0
        /\ \A i \in 1 .. Len(table) - (m + 1) + 1 : todo'[i] = table[(m + 1) + i - 1]
    <3>1. m + 1 \in Int /\ Len(table) \in Int /\ todo' = SubSeq(table, m + 1, Len(table))
      BY <2>1, <2>2, <2>3
    <3> HIDE DEF m
    <3> QED BY <2>3, <3>1, SubSeqProperties
  <2>5. Len(todo') = step /\ \A i \in 1 .. step : todo'[i] = table[m + i] /\ m + i \in 1 .. Len(table)
    BY <2>2, <2>4
  <2>6. Distinct(todo)' /\ todo' # << >>
    <3>1. m \in Int /\ step \in Int
      BY <2>2
    <3> HIDE DEF m
    <3>2. \A i, j \in 1 .. step : todo'[i] = todo'[j] => m + i = m + j
      BY <2>5 DEF CommandInv, Distinct
    <3> QED BY <2>5, <3>1, <3>2, EmptySeq DEF Distinct
  <2>7. ToSet(todo)' \subseteq ToSet(table)
    <3> SUFFICES ASSUME NEW x \in ToSet(todo') PROVE x \in ToSet(table)
      BY DEF ToSet
    <3>1. PICK i \in 1 .. step : todo'[i] = x
      BY <2>4, <2>5, Elements
    <3>2. m + i \in 1 .. Len(table) /\ table[m + i] = x
      BY <2>5, <3>1
    <3> HIDE DEF m
    <3>3. \E j \in 1 .. Len(table) : table[j] = x
      BY <3>2
    <3> QED BY <2>2, <3>3, Elements
  <2>8. CommandInv'
    <3>1. mode' = "rollback" /\ open' = 0 /\ table' = table
      BY <1>1, <1>3 DEF StartRollback, dbVars
    <3>2. ToSet(table)' = ToSet(table) /\ Distinct(table)'
      BY <3>1 DEF CommandInv, ToSet, Distinct
    <3> QED BY <2>6, <2>7, <3>1, <3>2 DEF CommandInv
  <2>9. TypeOK'
    BY <1>1, <1>3, <2>4 DEF TypeOK, StartRollback, dbVars, serverVars
  <2> QED BY <1>1, <2>8, <2>9, ServerKept DEF dbVars, serverVars
<1> QED BY <1>2, <1>3

\* A command that ends leaves _migrations as it is.
LEMMA EndCommandInv ==
  ASSUME TypeOK, CommandInv, EndCommand,
         UNCHANGED <<dbVars, serverVars, commands>>, faults' \in 0 .. MaxFaults
  PROVE  TypeOK' /\ CommandInv'
<1>1. mode' = "idle" /\ todo' = << >> /\ open' = 0 /\ << >> \in Seq(Numbers)
  BY EmptyElements DEF EndCommand
<1>2. Distinct(todo)'
  BY <1>1, EmptyElements DEF Distinct
<1>3. CommandInv'
  BY <1>1, <1>2 DEF CommandInv, Distinct, dbVars
<1>4. TypeOK'
  BY <1>1, MigrationsAssumption DEF TypeOK, dbVars, serverVars
<1> QED BY <1>3, <1>4

LEMMA RunFileInv ==
  ASSUME MigrationsInv, RunFile
  PROVE  MigrationsInv'
<1> USE DEF MigrationsInv, RunFile
<1>0. faults' \in 0 .. MaxFaults /\ (EndCommand \/ (open' = Head(todo) /\ UNCHANGED <<mode, todo>>))
  BY DEF TypeOK
<1>1. CASE EndCommand
  <2>1. UNCHANGED <<dbVars, serverVars, commands>>
    OBVIOUS
  <2> QED BY <1>0, <1>1, <2>1, EndCommandInv, ServerKept DEF dbVars
<1>4. CASE open' = Head(todo) /\ UNCHANGED <<mode, todo>>
  <2>1. todo # << >> /\ Head(todo) \in Numbers
    BY HeadTailProperties DEF CommandInv, TypeOK
  <2>2. TypeOK'
    BY <1>4, <2>1 DEF TypeOK, dbVars, serverVars, Numbers
  <2>3. CommandInv'
    BY <1>4, <2>1 DEF CommandInv, Distinct, dbVars
  <2> QED BY <2>2, <2>3, ServerKept DEF dbVars
<1> QED BY <1>0, <1>1, <1>4

\* up or down and the row go together.
LEMMA CommitFileInv ==
  ASSUME MigrationsInv, CommitFile
  PROVE  MigrationsInv'
<1> USE DEF MigrationsInv
<1>1. /\ todo # << >> /\ open = Head(todo) /\ open \in Numbers /\ open \in ToSet(todo)
      /\ mode \in {"migrate", "rollback"}
      /\ open' = 0 /\ todo' = Tail(todo)
      /\ mode' = IF todo' = << >> THEN "idle" ELSE mode
      /\ UNCHANGED <<recorded, lock, serverVars, commands, faults>>
  BY TailElements DEF CommitFile, CommandInv, TypeOK, Numbers
<1>5. mode' \in {"idle", "migrate", "rollback"} /\ open' \in 0 .. Files
  BY <1>1, MigrationsAssumption
<1>2. /\ Distinct(todo)' /\ todo' \in Seq(Numbers)
      /\ ToSet(todo)' = ToSet(todo) \ {open}
  BY <1>1, TailElements, HeadTailProperties DEF CommandInv, TypeOK
<1>3. CASE mode = "migrate"
  <2>1. table' = Append(table, open)
    BY <1>3 DEF CommitFile
  <2>2. /\ table' \in Seq(Numbers) /\ Distinct(table)'
        /\ ToSet(table)' = ToSet(table) \cup {open}
    BY <1>1, <1>3, <2>1, AppendElements DEF CommandInv, TypeOK
  <2>3. CommandInv'
    BY <1>1, <1>2, <1>3, <2>2 DEF CommandInv
  <2>4. TypeOK'
    BY <1>1, <1>2, <1>5, <2>1, <2>2 DEF TypeOK, serverVars
  <2> QED BY <1>1, <2>3, <2>4, ServerKept
<1>4. CASE mode = "rollback"
  <2>1. \E i \in DOMAIN table : table[i] = open /\ table' = RemoveAt(table, i)
    BY <1>4 DEF CommitFile
  <2>2. /\ table' \in Seq(Numbers) /\ Distinct(table)'
        /\ ToSet(table)' = ToSet(table) \ {open}
    BY <2>1, RemoveElements, LenProperties DEF CommandInv, TypeOK
  <2>3. CommandInv'
    BY <1>1, <1>2, <1>4, <2>2 DEF CommandInv
  <2>4. TypeOK'
    BY <1>1, <1>2, <1>5, <2>1, <2>2 DEF TypeOK, serverVars
  <2> QED BY <1>1, <2>3, <2>4, ServerKept
<1> QED BY <1>1, <1>3, <1>4

LEMMA AbortCommandInv ==
  ASSUME MigrationsInv, AbortCommand
  PROVE  MigrationsInv'
<1>1. EndCommand /\ UNCHANGED <<dbVars, serverVars, commands>>
  BY DEF AbortCommand
<1>2. faults' \in 0 .. MaxFaults
  BY MigrationsAssumption DEF MigrationsInv, AbortCommand, Faulty, TypeOK
<1> QED BY <1>1, <1>2, EndCommandInv, ServerKept DEF MigrationsInv, dbVars

-----------------------------------------------------------------------------
(* Theorems *)

LEMMA NextInv == MigrationsInv /\ [Next]_vars => MigrationsInv'
<1> SUFFICES ASSUME MigrationsInv, [Next]_vars PROVE MigrationsInv'
  OBVIOUS
<1>1. CASE UNCHANGED vars
  <2>1. TypeOK'
    BY <1>1 DEF vars, MigrationsInv, TypeOK
  <2> QED BY <1>1, <2>1, ServerKept, CommandKept DEF vars, serverVars, MigrationsInv
<1>2. ASSUME NEW s \in Servers, Apply(s) PROVE MigrationsInv'
  <2>1. UNCHANGED pc \/ End(s)
    BY <1>2 DEF Apply
  <2> QED BY <1>2, <2>1, WaitInv, StopInv
<1> QED BY <1>1, <1>2, WaitInv, StopInv, CommitInv, StartInv, RunFileInv, CommitFileInv, AbortCommandInv
        DEF Next

LEMMA Invariance == Spec => []MigrationsInv
BY InitInv, NextInv, PTL DEF Spec

\* Tables hold numbers of files, a server tries a migration at most MaxAttempts times.
THEOREM Typing == Spec => []TypeOK
BY Invariance, PTL DEF MigrationsInv

\* For any number of servers starting at once: no up runs that schema_migrations has.
THEOREM RunOnce == Spec => []NoReapply
<1>1. MigrationsInv => NoReapply
  BY DEF MigrationsInv, ServerInv, Snapshot, NoReapply
<1> QED BY <1>1, Invariance, PTL

\* For every release: schema_migrations is empty or exactly what some build expects.
THEOREM Atomicity == Spec => []AllOrNothing
BY Invariance, PTL DEF MigrationsInv, ServerInv

\* _migrations has a file at most once: its primary key is never violated.
THEOREM PrimaryKey == Spec => []Distinct(table)
<1>1. MigrationsInv => Distinct(table)
  BY DEF MigrationsInv, CommandInv
<1> QED BY <1>1, Invariance, PTL

=============================================================================
