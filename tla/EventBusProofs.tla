--------------------------- MODULE EventBusProofs ---------------------------
(***************************************************************************)
(* Theorems about EventBus for every number of processes, events and       *)
(* failures, whatever breaks, reconnects and closes at the same time.      *)
(***************************************************************************)
EXTENDS EventBus, FiniteSetTheorems, TLAPS

(***************************************************************************)
(* The inductive invariant                                                 *)
(***************************************************************************)

BusType ==
  /\ client \in [Servers -> [Clients -> {"unused", "opening", "listening", "stuck", "gone"}]]
  /\ held \in [Servers -> Clients \cup {None}]
  /\ recon \in [Servers -> {"no", "sleeping", "opening"}]
  /\ closing \in [Servers -> BOOLEAN]
  /\ queue \in [Servers -> SUBSET (Clients \X Events)]
  /\ by \in [Events -> Servers \cup {None}]
  /\ call \in [Events -> {"idle", "notified", "done", "failed"}]
  /\ heard \in [Servers -> [Events -> Nat]]
  /\ missed \in [Servers -> SUBSET Events]

\* A client that listens is the one listenClient names, and the other way round.
HeldListens ==
  \A p \in Servers, c \in Clients : client[p][c] = "listening" <=> held[p] = c

\* One client is opened, and only while reconnecting says so; no client is held then.
OneOpening ==
  \A p \in Servers :
    /\ recon[p] # "no" => held[p] = None
    /\ \A c \in Clients : client[p][c] = "opening" => recon[p] = "opening"
    /\ \A c, d \in Clients : client[p][c] = "opening" /\ client[p][d] = "opening" => c = d

ClientInv == BusType /\ HeldListens /\ OneOpening

\* The client of a publishing call is known.
CallerKnown == \A e \in Events : call[e] # "idle" => by[e] \in Servers

LEMMA ClientNotNone == \A c \in Clients : c # None
BY EventBusAssumption DEF Clients

LEMMA InitClient == Init => ClientInv /\ CallerKnown
<1> SUFFICES ASSUME Init PROVE ClientInv /\ CallerKnown
  OBVIOUS
<1>1. 1 \in Clients
  BY EventBusAssumption DEF Clients
<1> QED BY <1>1, ClientNotNone DEF Init, ClientInv, BusType, HeldListens, OneOpening, CallerKnown

-----------------------------------------------------------------------------
(* Steps that leave the clients alone *)

\* One more for an event keeps the counts natural numbers.
LEMMA HearType ==
  ASSUME BusType, NEW p \in Servers, NEW e \in Events, Hear(p, e)
  PROVE  heard' \in [Servers -> [Events -> Nat]]
BY DEF BusType, Hear

\* What PostgreSQL sends is addressed to clients that exist.
LEMMA DeliverType ==
  ASSUME BusType, NEW e \in Events, Deliver(e)
  PROVE  /\ queue' \in [Servers -> SUBSET (Clients \X Events)]
         /\ missed' \in [Servers -> SUBSET Events]
BY DEF BusType, Deliver, Listening

\* Publishing and receiving move no client.
LEMMA EventStep ==
  ASSUME ClientInv, CallerKnown, NEW e \in Events,
         \/ EmitLocally(e)
         \/ \E p \in Servers : Notify(p, e) \/ NotifyRejected(p, e)
         \/ \E p \in Servers, c \in Clients : Receive(p, c, e)
  PROVE  ClientInv' /\ CallerKnown'
<1>1. UNCHANGED clientVars
  BY DEF EmitLocally, Notify, NotifyRejected, Receive
<1>2. (HeldListens /\ OneOpening)'
  BY <1>1 DEF ClientInv, HeldListens, OneOpening, clientVars
<1>3. CASE EmitLocally(e)
  <2>1. by[e] \in Servers
    BY <1>3 DEF EmitLocally, CallerKnown
  <2> QED BY <1>1, <1>2, <1>3, <2>1, HearType DEF EmitLocally, ClientInv, BusType, CallerKnown, clientVars
<1>4. ASSUME NEW p \in Servers, Notify(p, e) \/ NotifyRejected(p, e)
      PROVE  ClientInv' /\ CallerKnown'
  <2>1. /\ queue' \in [Servers -> SUBSET (Clients \X Events)]
        /\ missed' \in [Servers -> SUBSET Events]
    BY <1>4, DeliverType DEF Notify, NotifyRejected, ClientInv, BusType
  <2>2. /\ by \in [Events -> Servers \cup {None}]
        /\ call \in [Events -> {"idle", "notified", "done", "failed"}]
    BY DEF ClientInv, BusType
  <2>3. PICK s \in {"notified", "failed"} :
          /\ by' = [by EXCEPT ![e] = p] /\ call' = [call EXCEPT ![e] = s]
          /\ heard' = heard
    BY <1>4 DEF Notify, NotifyRejected
  <2>4. /\ by' \in [Events -> Servers \cup {None}] /\ CallerKnown'
        /\ call' \in [Events -> {"idle", "notified", "done", "failed"}]
    BY <2>2, <2>3 DEF CallerKnown
  <2> QED BY <1>1, <1>2, <2>1, <2>3, <2>4 DEF ClientInv, BusType, clientVars
<1>5. ASSUME NEW p \in Servers, NEW c \in Clients, Receive(p, c, e)
      PROVE  ClientInv' /\ CallerKnown'
  BY <1>1, <1>2, <1>5, HearType DEF Receive, ClientInv, BusType, CallerKnown, clientVars
<1> QED BY <1>3, <1>4, <1>5

-----------------------------------------------------------------------------
(* Steps of the clients *)

\* The clients C of p are gone, all others stay.
LEMMA DropEffect ==
  ASSUME BusType, NEW p \in Servers, NEW C \in SUBSET Clients, Drop(p, C)
  PROVE  /\ client' \in [Servers -> [Clients -> {"unused", "opening", "listening", "stuck", "gone"}]]
         /\ queue' \in [Servers -> SUBSET (Clients \X Events)]
         /\ missed' \in [Servers -> SUBSET Events]
         /\ \A q \in Servers, c \in Clients :
              client'[q][c] = IF q = p /\ c \in C THEN "gone" ELSE client[q][c]
<1> USE DEF Drop, BusType
<1>1. client' \in [Servers -> [Clients -> {"unused", "opening", "listening", "stuck", "gone"}]]
  OBVIOUS
<1>2. queue' \in [Servers -> SUBSET (Clients \X Events)]
  OBVIOUS
<1>3. {x[2] : x \in {y \in queue[p] : y[1] \in C}} \subseteq Events
  OBVIOUS
<1>4. missed' \in [Servers -> SUBSET Events]
  BY <1>3
<1> QED BY <1>1, <1>2, <1>4

\* An error and close() drop the client that is held, and with it every one that listens.
LEMMA ReleaseStep ==
  ASSUME ClientInv, CallerKnown, NEW p \in Servers,
         Close(p) \/ \E c \in Clients : Error(p, c)
  PROVE  ClientInv' /\ CallerKnown'
<1> DEFINE Only(C) == \A c \in Clients : c \in C <=> held[p] = c
<1>1. PICK C \in SUBSET Clients : Drop(p, C) /\ Only(C)
  <2>1. Own(p) \in SUBSET Clients /\ Only(Own(p))
    BY ClientNotNone DEF Own, ClientInv, BusType
  <2>2. Listening(p) \subseteq Own(p)
    BY ClientNotNone DEF Listening, Own, ClientInv, HeldListens
  <2>3. \A c \in Clients : (Listening(p) \cap {c}) \cup Own(p) = Own(p)
    BY <2>2
  <2> QED BY <2>1, <2>3 DEF Close, Error
<1>2. /\ held' = [held EXCEPT ![p] = None]
      /\ recon' = recon \/ (~closing[p] /\ recon[p] = "no" /\ recon' = [recon EXCEPT ![p] = "sleeping"])
      /\ closing' \in [Servers -> BOOLEAN]
      /\ UNCHANGED <<by, call, heard>>
  BY DEF Close, Error, Reconnect, ClientInv, BusType
<1>3. \A q \in Servers, c \in Clients :
        client'[q][c] = IF q = p /\ c \in C THEN "gone" ELSE client[q][c]
  BY <1>1, DropEffect DEF ClientInv
<1>4. BusType'
  <2>1. /\ client' \in [Servers -> [Clients -> {"unused", "opening", "listening", "stuck", "gone"}]]
        /\ queue' \in [Servers -> SUBSET (Clients \X Events)]
        /\ missed' \in [Servers -> SUBSET Events]
    BY <1>1, DropEffect DEF ClientInv
  <2> QED BY <1>2, <2>1 DEF ClientInv, BusType
<1>5. HeldListens'
  BY <1>1, <1>2, <1>3, ClientNotNone DEF ClientInv, HeldListens, BusType
<1>6. OneOpening'
  BY <1>1, <1>2, <1>3 DEF ClientInv, OneOpening, BusType
<1> QED BY <1>2, <1>4, <1>5, <1>6 DEF ClientInv, CallerKnown

\* Reconnecting opens a client only when none listens and none is being opened.
LEMMA ReconnectingStep ==
  ASSUME ClientInv, CallerKnown, NEW p \in Servers, Reconnecting(p)
  PROVE  ClientInv' /\ CallerKnown'
<1> USE DEF ClientInv
<1>1. UNCHANGED <<closing, eventVars>>
  BY DEF Reconnecting, Connect, ConnectFails, WakeClosed, Listen, ListenFails
<1>2. BusType' /\ CallerKnown'
  <2>1. /\ client' \in [Servers -> [Clients -> {"unused", "opening", "listening", "stuck", "gone"}]]
        /\ held' \in [Servers -> Clients \cup {None}]
        /\ recon' \in [Servers -> {"no", "sleeping", "opening"}]
    <3> USE DEF BusType
    <3>1. CASE \E c \in Clients : Connect(p, c)
      BY <3>1 DEF Connect
    <3>2. CASE \E c \in Clients : Listen(p, c)
      BY <3>2 DEF Listen
    <3>3. CASE \E c \in Clients : ListenFails(p, c)
      BY <3>3 DEF ListenFails, GiveUp
    <3>4. CASE ConnectFails(p) \/ WakeClosed(p)
      BY <3>4 DEF ConnectFails, WakeClosed, GiveUp
    <3> QED BY <3>1, <3>2, <3>3, <3>4 DEF Reconnecting
  <2> QED BY <1>1, <2>1 DEF BusType, CallerKnown, eventVars
<1>3. ASSUME NEW c \in Clients, Connect(p, c) PROVE HeldListens' /\ OneOpening'
  BY <1>3, ClientNotNone DEF Connect, BusType, HeldListens, OneOpening
<1>4. ASSUME NEW c \in Clients, Listen(p, c) PROVE HeldListens' /\ OneOpening'
  <2>1. recon[p] = "opening" /\ held[p] = None
    BY <1>4 DEF Listen, OneOpening
  <2> QED BY <1>4, <2>1, ClientNotNone DEF Listen, BusType, HeldListens, OneOpening
<1>5. ASSUME NEW c \in Clients, ListenFails(p, c) PROVE HeldListens' /\ OneOpening'
  BY <1>5, ClientNotNone DEF ListenFails, GiveUp, BusType, HeldListens, OneOpening
<1>6. CASE ConnectFails(p) \/ WakeClosed(p)
  <2>1. /\ recon[p] = "sleeping" /\ recon' = [recon EXCEPT ![p] = "no"]
        /\ UNCHANGED <<client, held>>
    BY <1>6 DEF ConnectFails, WakeClosed, GiveUp
  <2>2. HeldListens'
    BY <2>1 DEF HeldListens
  <2>3. \A c \in Clients : client[p][c] # "opening"
    BY <2>1 DEF OneOpening
  <2>4. \A q \in Servers : recon'[q] = IF q = p THEN "no" ELSE recon[q]
    BY <2>1 DEF BusType
  <2>5. OneOpening'
    BY <2>1, <2>3, <2>4 DEF OneOpening
  <2> QED BY <1>2, <2>2, <2>5
<1> QED BY <1>2, <1>3, <1>4, <1>5, <1>6 DEF Reconnecting

LEMMA NextClient == ClientInv /\ CallerKnown /\ [Next]_vars => ClientInv' /\ CallerKnown'
<1> SUFFICES ASSUME ClientInv, CallerKnown, [Next]_vars PROVE ClientInv' /\ CallerKnown'
  OBVIOUS
<1>1. CASE UNCHANGED vars
  BY <1>1 DEF vars, clientVars, eventVars, ClientInv, BusType, HeldListens, OneOpening, CallerKnown
<1> QED BY <1>1, EventStep, ReleaseStep, ReconnectingStep DEF Next

LEMMA Invariance == Spec => [](ClientInv /\ CallerKnown)
BY InitClient, NextClient, PTL DEF Spec

-----------------------------------------------------------------------------
(* Theorems *)

\* However breaks, reconnections and close() overlap, a process never has two clients
\* that listen or are about to: no notification comes twice.
THEOREM OneClientEach == Spec => []OneClient
<1>1. ClientInv => OneClient
  <2> SUFFICES ASSUME ClientInv, NEW p \in Servers PROVE Cardinality(Live(p)) <= 1
    BY DEF OneClient
  <2>1. \A c, d \in Live(p) : c = d
    BY ClientNotNone DEF Live, ClientInv, HeldListens, OneOpening
  <2>2. CASE Live(p) = {}
    BY <2>2, FS_EmptySet
  <2>3. CASE Live(p) # {}
    <3>1. PICK c : Live(p) = {c}
      BY <2>1, <2>3
    <3> QED BY <3>1, FS_Singleton
  <2> QED BY <2>2, <2>3
<1> QED BY <1>1, Invariance, PTL

\* What an event that was notified is at, for the subscribers of p: heard, missed, on the
\* way to a client of p, or of no use after close().
Accounted(p, e) ==
  heard[p][e] > 0 \/ e \in missed[p] \/ closing[p] \/ \E c \in Clients : <<c, e>> \in queue[p]

NothingDropped ==
  \A p \in Servers, e \in Events : call[e] \in {"notified", "done"} => Accounted(p, e)

\* A count never falls and close() is final.
LEMMA HearKeeps ==
  ASSUME BusType, NEW p \in Servers, NEW e \in Events, Hear(p, e)
  PROVE  /\ closing[p] \/ heard'[p][e] > 0
         /\ \A q \in Servers, f \in Events : heard[q][f] > 0 => heard'[q][f] > 0
BY DEF BusType, Hear

\* Dropping clients turns what was on the way to them into missed events.
LEMMA DropKeeps ==
  ASSUME BusType, NEW p \in Servers, NEW C \in SUBSET Clients, Drop(p, C),
         NEW q \in Servers, NEW c \in Clients, NEW e \in Events, <<c, e>> \in queue[q]
  PROVE  <<c, e>> \in queue'[q] \/ e \in missed'[q]
<1>1. q # p \/ c \notin C => <<c, e>> \in queue'[q]
  BY DEF Drop, BusType
<1>2. ASSUME q = p, c \in C PROVE e \in missed'[q]
  <2>1. <<c, e>> \in {y \in queue[p] : y[1] \in C}
    BY <1>2
  <2>2. e \in {x[2] : x \in {y \in queue[p] : y[1] \in C}}
    BY <2>1
  <2> QED BY <1>2, <2>2 DEF Drop, BusType
<1> QED BY <1>1, <1>2

LEMMA DropMissed ==
  ASSUME BusType, NEW p \in Servers, NEW C \in SUBSET Clients, Drop(p, C)
  PROVE  \A q \in Servers : missed[q] \subseteq missed'[q]
BY DEF Drop, BusType

\* No step loses track of an event.
LEMMA NextAccounted ==
  ClientInv /\ CallerKnown /\ NothingDropped /\ [Next]_vars => NothingDropped'
<1> SUFFICES ASSUME ClientInv, CallerKnown, NothingDropped, [Next]_vars,
                    NEW p \in Servers, NEW e \in Events, call'[e] \in {"notified", "done"}
             PROVE  Accounted(p, e)'
  BY DEF NothingDropped
<1> USE DEF ClientInv
<1>1. CASE UNCHANGED vars
  BY <1>1 DEF vars, clientVars, eventVars, NothingDropped, Accounted
<1>2. ASSUME NEW f \in Events, EmitLocally(f) PROVE Accounted(p, e)'
  <2>1. by[f] \in Servers
    BY <1>2 DEF EmitLocally, CallerKnown
  <2>2. call[e] \in {"notified", "done"}
    BY <1>2 DEF EmitLocally, BusType
  <2> QED BY <1>2, <2>1, <2>2, HearKeeps DEF EmitLocally, NothingDropped, Accounted, clientVars
<1>3. ASSUME NEW q \in Servers, NEW f \in Events, Notify(q, f) \/ NotifyRejected(q, f)
      PROVE  Accounted(p, e)'
  <2>1. CASE f = e
    <3>1. Notify(q, e)
      BY <1>3, <2>1 DEF NotifyRejected, BusType
    <3>2. CASE Listening(p) = {}
      BY <3>1, <3>2 DEF Notify, Deliver, Accounted
    <3>3. ASSUME NEW c \in Listening(p) PROVE Accounted(p, e)'
      BY <3>1, <3>3 DEF Notify, Deliver, Accounted, Listening
    <3> QED BY <3>2, <3>3
  <2>2. CASE f # e
    <3>1. call[e] \in {"notified", "done"}
      BY <1>3, <2>2 DEF Notify, NotifyRejected, BusType
    <3>2. \/ UNCHANGED <<queue, missed>>
          \/ queue[p] \subseteq queue'[p] /\ missed[p] \subseteq missed'[p]
      BY <1>3 DEF Notify, NotifyRejected, Deliver
    <3> QED BY <1>3, <3>1, <3>2 DEF Notify, NotifyRejected, NothingDropped, Accounted, clientVars
  <2> QED BY <2>1, <2>2
<1>4. ASSUME NEW q \in Servers, NEW c \in Clients, NEW f \in Events, Receive(q, c, f)
      PROVE  Accounted(p, e)'
  <2>1. Accounted(p, e)
    BY <1>4 DEF Receive, NothingDropped
  <2>2. \A d \in Clients : <<d, e>> \in queue[p] =>
          <<d, e>> \in queue'[p] \/ (p = q /\ e = f)
    BY <1>4 DEF Receive, BusType
  <2> QED BY <1>4, <2>1, <2>2, HearKeeps DEF Receive, Accounted, clientVars
<1>5. ASSUME NEW q \in Servers, Close(q) \/ \E c \in Clients : Error(q, c)
      PROVE  Accounted(p, e)'
  <2>1. PICK C \in SUBSET Clients : Drop(q, C)
    <3>1. Own(q) \subseteq Clients /\ Listening(q) \subseteq Clients
      BY DEF Own, Listening, BusType
    <3> QED BY <1>5, <3>1 DEF Close, Error
  <2>2. UNCHANGED <<call, heard>> /\ (closing[p] => closing'[p])
    BY <1>5 DEF Close, Error, BusType
  <2> QED BY <2>1, <2>2, DropKeeps, DropMissed DEF NothingDropped, Accounted
<1>6. ASSUME NEW q \in Servers, Reconnecting(q) PROVE Accounted(p, e)'
  <2>1. UNCHANGED <<closing, eventVars>>
    BY <1>6 DEF Reconnecting, Connect, ConnectFails, WakeClosed, Listen, ListenFails
  <2> QED BY <2>1 DEF eventVars, NothingDropped, Accounted
<1> QED BY <1>1, <1>2, <1>3, <1>4, <1>5, <1>6 DEF Next

\* The safety half of EveryoneHears: an event whose NOTIFY committed is never lost track
\* of, except where the process was not listening, lost its client or closed.
THEOREM Delivery == Spec => []NothingDropped
<1>1. Init => NothingDropped
  BY DEF Init, NothingDropped
<1> QED BY <1>1, Invariance, NextAccounted, PTL DEF Spec

-----------------------------------------------------------------------------
(* No event comes twice from the database *)

Local(p, e) == IF by[e] = p /\ call[e] = "done" THEN 1 ELSE 0

\* What p heard of e: its own emission and one notification, which is either still on the
\* way to one client or was counted.
Copies(p, e) ==
  /\ call[e] = "idle" => heard[p][e] = 0 /\ \A c \in Clients : <<c, e>> \notin queue[p]
  /\ \A c, d \in Clients : <<c, e>> \in queue[p] /\ <<d, e>> \in queue[p] => c = d
  /\ heard[p][e] <= Local(p, e) + 1
  /\ \A c \in Clients : <<c, e>> \in queue[p] => heard[p][e] <= Local(p, e)

CopiesInv == \A p \in Servers, e \in Events : Copies(p, e)

\* A subscriber is called once for an event of another process, and for one of its own at
\* most once more: when publish() returns and when its NOTIFY comes back.
HeardOnce == \A p \in Servers, e \in Events : heard[p][e] <= IF by[e] = p THEN 2 ELSE 1

\* Publishing: the first and only time that PostgreSQL is given e, to one client of each
\* process at most.
LEMMA NotifyCopies ==
  ASSUME ClientInv, CopiesInv, NEW q \in Servers, NEW f \in Events,
         Notify(q, f) \/ NotifyRejected(q, f),
         NEW p \in Servers, NEW e \in Events
  PROVE  Copies(p, e)'
<1> USE DEF ClientInv
<1>1. /\ call[f] = "idle" /\ heard' = heard
      /\ \A d \in Events \ {f} : call'[d] = call[d] /\ by'[d] = by[d]
      /\ call'[f] \in {"notified", "failed"}
      /\ Deliver(f) \/ UNCHANGED queue
  BY DEF Notify, NotifyRejected, BusType
<1>2. Copies(p, e)
  BY DEF CopiesInv
<1>3. heard[p][e] \in Nat
  BY DEF BusType
<1>4. CASE e = f
  <2>1. heard[p][e] = 0 /\ \A c \in Clients : <<c, e>> \notin queue[p]
    BY <1>1, <1>2, <1>4 DEF Copies
  <2>2. \A c \in Clients : <<c, e>> \in queue'[p] => c \in Listening(p)
    BY <1>1, <1>4, <2>1 DEF Deliver
  <2>3. \A c, d \in Listening(p) : c = d
    BY DEF Listening, HeldListens
  <2>4. Local(p, e)' = 0
    BY <1>1, <1>4 DEF Local
  <2> QED BY <1>1, <1>4, <2>1, <2>2, <2>3, <2>4 DEF Copies
<1>5. CASE e # f
  <2>1. \A c \in Clients : <<c, e>> \in queue'[p] <=> <<c, e>> \in queue[p]
    BY <1>1, <1>5 DEF Deliver
  <2>2. Local(p, e)' = Local(p, e)
    BY <1>1, <1>5 DEF Local
  <2> QED BY <1>1, <1>2, <1>5, <2>1, <2>2 DEF Copies
<1> QED BY <1>4, <1>5

\* Hearing counts one more, of one event of one process.
LEMMA HearOne ==
  ASSUME BusType, NEW q \in Servers, NEW f \in Events, Hear(q, f),
         NEW p \in Servers, NEW e \in Events
  PROVE  /\ heard[p][e] \in Nat
         /\ heard'[p][e] = heard[p][e] \/ (p = q /\ e = f /\ heard'[p][e] = heard[p][e] + 1)
BY DEF BusType, Hear

LEMMA HearCopies ==
  ASSUME ClientInv, CopiesInv, CallerKnown, NEW f \in Events,
         EmitLocally(f) \/ \E q \in Servers, c \in Clients : Receive(q, c, f),
         NEW p \in Servers, NEW e \in Events
  PROVE  Copies(p, e)'
<1> USE DEF ClientInv
<1>1. Copies(p, e)
  BY DEF CopiesInv
<1>2. CASE EmitLocally(f)
  <2>1. /\ by[f] \in Servers /\ Hear(by[f], f) /\ UNCHANGED <<queue, by>>
        /\ call[f] = "notified" /\ call' = [call EXCEPT ![f] = "done"]
    BY <1>2 DEF EmitLocally, CallerKnown
  <2>2. /\ call'[e] = "idle" => call[e] = "idle" /\ e # f
        /\ Local(p, e) \in {0, 1}
        /\ Local(p, e)' = IF p = by[f] /\ e = f THEN 1 ELSE Local(p, e)
        /\ p = by[f] /\ e = f => Local(p, e) = 0
    BY <2>1 DEF Local, BusType
  <2>3. /\ heard[p][e] \in Nat
        /\ heard'[p][e] = heard[p][e] \/ (p = by[f] /\ e = f /\ heard'[p][e] = heard[p][e] + 1)
    BY <2>1, HearOne
  <2> QED BY <1>1, <2>1, <2>2, <2>3 DEF Copies
<1>3. ASSUME NEW q \in Servers, NEW c \in Clients, Receive(q, c, f) PROVE Copies(p, e)'
  <2>1. /\ <<c, f>> \in queue[q] /\ Hear(q, f) /\ UNCHANGED <<by, call>>
        /\ queue' = [queue EXCEPT ![q] = @ \ {<<c, f>>}]
    BY <1>3 DEF Receive
  <2>2. Local(p, e)' = Local(p, e) /\ Local(p, e) \in {0, 1}
    BY <2>1 DEF Local
  <2>3. /\ heard[p][e] \in Nat
        /\ heard'[p][e] = heard[p][e] \/ (p = q /\ e = f /\ heard'[p][e] = heard[p][e] + 1)
    BY <2>1, HearOne
  <2>4. \A d \in Clients : <<d, e>> \in queue'[p] => <<d, e>> \in queue[p] /\ ~(p = q /\ e = f /\ d = c)
    BY <2>1 DEF BusType
  <2>5. CASE p = q /\ e = f
    <3>1. call[e] # "idle" /\ heard[p][e] <= Local(p, e) /\ \A d \in Clients : <<d, e>> \notin queue'[p]
      BY <1>1, <2>1, <2>4, <2>5 DEF Copies
    <3> QED BY <2>1, <2>2, <2>3, <3>1 DEF Copies
  <2>6. CASE ~(p = q /\ e = f)
    BY <1>1, <2>1, <2>2, <2>3, <2>4, <2>6 DEF Copies
  <2> QED BY <2>5, <2>6
<1> QED BY <1>2, <1>3

LEMMA NextCopies ==
  ClientInv /\ CallerKnown /\ CopiesInv /\ [Next]_vars => CopiesInv'
<1> SUFFICES ASSUME ClientInv, CallerKnown, CopiesInv, [Next]_vars,
                    NEW p \in Servers, NEW e \in Events
             PROVE  Copies(p, e)'
  BY DEF CopiesInv
<1>1. ASSUME UNCHANGED <<heard, by, call>>,
             \A c \in Clients : <<c, e>> \in queue'[p] => <<c, e>> \in queue[p]
      PROVE  Copies(p, e)'
  BY <1>1 DEF CopiesInv, Copies, Local
<1>2. CASE UNCHANGED vars
  BY <1>1, <1>2 DEF vars, eventVars
<1>3. ASSUME NEW q \in Servers, Close(q) \/ \E c \in Clients : Error(q, c)
      PROVE  Copies(p, e)'
  <2>1. PICK C : Drop(q, C)
    BY <1>3 DEF Close, Error
  <2>2. \A c \in Clients : <<c, e>> \in queue'[p] => <<c, e>> \in queue[p]
    BY <2>1 DEF Drop, ClientInv, BusType
  <2> QED BY <1>1, <1>3, <2>2 DEF Close, Error
<1>4. ASSUME NEW q \in Servers, Reconnecting(q) PROVE Copies(p, e)'
  <2>1. UNCHANGED eventVars
    BY <1>4 DEF Reconnecting, Connect, ConnectFails, WakeClosed, Listen, ListenFails
  <2> QED BY <1>1, <2>1 DEF eventVars
<1> QED BY <1>2, <1>3, <1>4, NotifyCopies, HearCopies DEF Next

LEMMA CopiesInvariance == Spec => []CopiesInv
<1>1. Init => CopiesInv
  BY DEF Init, CopiesInv, Copies, Local
<1> QED BY <1>1, Invariance, NextCopies, PTL DEF Spec

\* However clients break and are replaced between NOTIFY and its answer, the database
\* brings an event to a process once at most.
THEOREM NoThirdCall == Spec => []HeardOnce
<1>1. ClientInv /\ CopiesInv => HeardOnce
  <2> SUFFICES ASSUME ClientInv, CopiesInv, NEW p \in Servers, NEW e \in Events
               PROVE  heard[p][e] <= IF by[e] = p THEN 2 ELSE 1
    BY DEF HeardOnce
  <2>1. heard[p][e] \in Nat /\ heard[p][e] <= Local(p, e) + 1
    BY DEF ClientInv, BusType, CopiesInv, Copies
  <2> QED BY <2>1 DEF Local
<1> QED BY <1>1, Invariance, CopiesInvariance, PTL

FaultsType == faults \in 0 .. MaxFaults /\ gaveUp \in [Servers -> BOOLEAN]

\* Failures are counted up to their bound.
LEMMA NextFaults == FaultsType /\ [Next]_vars => FaultsType'
<1> SUFFICES ASSUME FaultsType, [Next]_vars PROVE FaultsType'
  OBVIOUS
<1>1. UNCHANGED faults \/ Fault
  BY DEF Next, vars, Notify, NotifyRejected, EmitLocally, Receive, Error, Close, Reconnecting,
     Connect, ConnectFails, WakeClosed, Listen, ListenFails
<1>2. \/ UNCHANGED gaveUp
      \/ \E p \in Servers, b \in BOOLEAN : gaveUp' = [gaveUp EXCEPT ![p] = b]
  BY DEF Next, vars, Notify, NotifyRejected, EmitLocally, Receive, Error, Close, Reconnecting,
     Connect, ConnectFails, WakeClosed, Listen, ListenFails, GiveUp
<1> QED BY <1>1, <1>2, EventBusAssumption DEF FaultsType, Fault

\* Clients, queues and counts stay in their domains; the held client listens.
THEOREM Typing == Spec => []TypeOK
<1>1. Init => FaultsType
  BY EventBusAssumption DEF Init, FaultsType
<1>2. ClientInv /\ HeardOnce /\ FaultsType => TypeOK
  <2> SUFFICES ASSUME ClientInv, HeardOnce, FaultsType PROVE TypeOK
    OBVIOUS
  <2>1. heard \in [Servers -> [Events -> 0 .. MaxFaults + 2]]
    <3>1. \A p \in Servers, e \in Events : heard[p][e] \in 0 .. MaxFaults + 2
      <4> TAKE p \in Servers, e \in Events
      <4>1. heard[p][e] \in Nat
        BY DEF ClientInv, BusType
      <4>2. heard[p][e] <= 2
        BY <4>1 DEF HeardOnce
      <4> QED BY <4>1, <4>2, EventBusAssumption
    <3> QED BY <3>1 DEF ClientInv, BusType
  <2>2. \A p \in Servers : held[p] # None => client[p][held[p]] = "listening"
    BY DEF ClientInv, BusType, HeldListens
  <2> QED BY <2>1, <2>2 DEF TypeOK, ClientInv, BusType, FaultsType
<1> QED BY <1>1, <1>2, Invariance, NoThirdCall, NextFaults, PTL DEF Spec

=============================================================================
