------------------------------ MODULE EventBus ------------------------------
(***************************************************************************)
(* The event bus of several server processes (bootstrap/initEventBus.js):  *)
(* publish() notifies a PostgreSQL channel and then emits locally; each    *)
(* process listens on a client of its own and takes a fresh one when that  *)
(* client errors.                                                          *)
(*                                                                         *)
(* The order of notifications is not kept.  Callbacks run to completion:   *)
(* a step ends where the code awaits.                                      *)
(*                                                                         *)
(* External: PostgreSQL, its client library, and failures.                 *)
(***************************************************************************)
EXTENDS Naturals, FiniteSets

CONSTANTS
  Servers,    \* processes
  Events,     \* envelopes, by eventId
  MaxFaults,  \* bound: failures of any kind
  None

ASSUME EventBusAssumption ==
  /\ MaxFaults \in Nat
  /\ None \notin Servers \cup Nat

VARIABLES
  client,  \* client[p][c]: "unused", "opening", "listening", "stuck" (LISTEN failed), "gone"
  held,    \* listenClient
  recon,   \* "no", or where reconnecting waits: "sleeping", "opening"
  closing, \* closing[p]: close() was called
  queue,   \* queue[p]: notifications on the way to the clients of p
  by,      \* by[e]: who publishes e
  call,    \* its publish(): "idle", "notified", "done", "failed"
  heard,   \* heard[p][e]: how often the subscribers of p got e
  missed,  \* history: events p was not listening for, or lost with a client
  gaveUp,  \* history: the last reconnection of p failed
  faults   \* failures so far

clientVars == <<client, held, recon, closing>>
eventVars == <<queue, by, call, heard, missed>>
vars == <<clientVars, eventVars, gaveUp, faults>>

\* The clients a process can come to need
Clients == 1 .. MaxFaults + 1

Live(p) == {c \in Clients : client[p][c] \in {"opening", "listening"}}

TypeOK ==
  /\ client \in [Servers -> [Clients -> {"unused", "opening", "listening", "stuck", "gone"}]]
  /\ held \in [Servers -> Clients \cup {None}]
  /\ \A p \in Servers : held[p] # None => client[p][held[p]] = "listening"
  /\ recon \in [Servers -> {"no", "sleeping", "opening"}]
  /\ closing \in [Servers -> BOOLEAN]
  /\ queue \in [Servers -> SUBSET (Clients \X Events)]
  /\ by \in [Events -> Servers \cup {None}]
  /\ call \in [Events -> {"idle", "notified", "done", "failed"}]
  /\ heard \in [Servers -> [Events -> 0 .. MaxFaults + 2]]
  /\ missed \in [Servers -> SUBSET Events]
  /\ gaveUp \in [Servers -> BOOLEAN]
  /\ faults \in 0 .. MaxFaults

\* initEventBus awaits its first client before it returns.
Init ==
  /\ client = [p \in Servers |-> [c \in Clients |-> IF c = 1 THEN "listening" ELSE "unused"]]
  /\ held = [p \in Servers |-> 1]
  /\ recon = [p \in Servers |-> "no"]
  /\ closing = [p \in Servers |-> FALSE]
  /\ queue = [p \in Servers |-> {}]
  /\ by = [e \in Events |-> None]
  /\ call = [e \in Events |-> "idle"]
  /\ heard = [p \in Servers |-> [e \in Events |-> 0]]
  /\ missed = [p \in Servers |-> {}]
  /\ gaveUp = [p \in Servers |-> FALSE]
  /\ faults = 0

Fault ==
  /\ faults < MaxFaults
  /\ faults' = faults + 1

-----------------------------------------------------------------------------
(* publish *)

Listening(p) == {c \in Clients : client[p][c] = "listening"}

\* emitter.emit for the type and for "*": close() took the subscribers away.
Hear(p, e) ==
  heard' = IF closing[p] THEN heard ELSE [heard EXCEPT ![p][e] = @ + 1]

\* pg_notify commits: PostgreSQL sends e to every client that listens.
Deliver(e) ==
  /\ queue' = [p \in Servers |-> queue[p] \cup (Listening(p) \X {e})]
  /\ missed' = [p \in Servers |-> IF Listening(p) = {} THEN missed[p] \cup {e} ELSE missed[p]]

Notify(p, e) ==
  /\ call[e] = "idle"
  /\ ~closing[p]
  /\ Deliver(e)
  /\ by' = [by EXCEPT ![e] = p]
  /\ call' = [call EXCEPT ![e] = "notified"]
  /\ UNCHANGED <<clientVars, heard, gaveUp, faults>>

\* The query rejects, and publish with it; it may have committed.
NotifyRejected(p, e) ==
  /\ call[e] = "idle"
  /\ ~closing[p]
  /\ Fault
  /\ Deliver(e) \/ UNCHANGED <<queue, missed>>
  /\ by' = [by EXCEPT ![e] = p]
  /\ call' = [call EXCEPT ![e] = "failed"]
  /\ UNCHANGED <<clientVars, heard, gaveUp>>

EmitLocally(e) ==
  /\ call[e] = "notified"
  /\ Hear(by[e], e)
  /\ call' = [call EXCEPT ![e] = "done"]
  /\ UNCHANGED <<clientVars, queue, by, missed, gaveUp, faults>>

-----------------------------------------------------------------------------
(* The callbacks of a client *)

\* Mutant: a notification that comes before publish() has returned is dropped.
ReceiveAfterCall(p, c, e) ==
  /\ <<c, e>> \in queue[p]
  /\ queue' = [queue EXCEPT ![p] = @ \ {<<c, e>>}]
  /\ IF call[e] = "done" THEN Hear(p, e) ELSE UNCHANGED heard
  /\ UNCHANGED <<clientVars, by, call, missed, gaveUp, faults>>

Receive(p, c, e) ==
  /\ <<c, e>> \in queue[p]
  /\ queue' = [queue EXCEPT ![p] = @ \ {<<c, e>>}]
  /\ Hear(p, e)
  /\ UNCHANGED <<clientVars, by, call, missed, gaveUp, faults>>

\* The clients C of p are gone, with what was on the way to them.
Drop(p, C) ==
  /\ client' = [client EXCEPT ![p] = [c \in Clients |-> IF c \in C THEN "gone" ELSE @[c]]]
  /\ queue' = [queue EXCEPT ![p] = {x \in @ : x[1] \notin C}]
  /\ missed' = [missed EXCEPT ![p] = @ \cup {x[2] : x \in {y \in queue[p] : y[1] \in C}}]

Own(p) == {held[p]} \ {None}

\* Mutant: the flag reconnecting is not looked at.
ReconnectAlways(p) == IF closing[p] THEN recon[p] ELSE "sleeping"

\* scheduleReconnect
Reconnect(p) == IF closing[p] \/ recon[p] # "no" THEN recon[p] ELSE "sleeping"

\* 'error': whatever client is held is released, not the one that broke.  One whose
\* LISTEN failed keeps its callbacks and may call again.
Error(p, c) ==
  /\ client[p][c] \in {"listening", "stuck"}
  /\ Fault
  /\ Drop(p, (Listening(p) \cap {c}) \cup Own(p))
  /\ held' = [held EXCEPT ![p] = None]
  /\ recon' = [recon EXCEPT ![p] = Reconnect(p)]
  /\ UNCHANGED <<closing, by, call, heard, gaveUp>>

-----------------------------------------------------------------------------
(* scheduleReconnect and acquireListenClient *)

\* The reconnection is over; nothing starts another one.
GiveUp(p) ==
  /\ recon' = [recon EXCEPT ![p] = "no"]
  /\ gaveUp' = [gaveUp EXCEPT ![p] = TRUE]

\* After the delay: a client of the pool, with its callbacks
Connect(p, c) ==
  /\ recon[p] = "sleeping"
  /\ ~closing[p]
  /\ client[p][c] = "unused"
  /\ client' = [client EXCEPT ![p][c] = "opening"]
  /\ recon' = [recon EXCEPT ![p] = "opening"]
  /\ UNCHANGED <<held, closing, eventVars, gaveUp, faults>>

ConnectFails(p) ==
  /\ recon[p] = "sleeping"
  /\ ~closing[p]
  /\ Fault
  /\ GiveUp(p)
  /\ UNCHANGED <<client, held, closing, eventVars>>

WakeClosed(p) ==
  /\ recon[p] = "sleeping"
  /\ closing[p]
  /\ recon' = [recon EXCEPT ![p] = "no"]
  /\ UNCHANGED <<client, held, closing, eventVars, gaveUp, faults>>

\* Mutant: reconnecting is not reset.
ListenKeepsFlag(p, c) ==
  /\ client[p][c] = "opening"
  /\ client' = [client EXCEPT ![p][c] = "listening"]
  /\ held' = [held EXCEPT ![p] = c]
  /\ gaveUp' = [gaveUp EXCEPT ![p] = FALSE]
  /\ UNCHANGED <<recon, closing, eventVars, faults>>

\* LISTEN is answered; closing is not looked at again.
Listen(p, c) ==
  /\ client[p][c] = "opening"
  /\ client' = [client EXCEPT ![p][c] = "listening"]
  /\ held' = [held EXCEPT ![p] = c]
  /\ recon' = [recon EXCEPT ![p] = "no"]
  /\ gaveUp' = [gaveUp EXCEPT ![p] = FALSE]
  /\ UNCHANGED <<closing, eventVars, faults>>

\* LISTEN is rejected: the client is never released.  If it broke, its 'error' came
\* while reconnecting and scheduled nothing.
ListenFails(p, c) ==
  /\ client[p][c] = "opening"
  /\ Fault
  /\ client' = [client EXCEPT ![p][c] = "stuck"]
  /\ GiveUp(p)
  /\ UNCHANGED <<held, closing, eventVars>>

-----------------------------------------------------------------------------
(* close *)

Close(p) ==
  /\ ~closing[p]
  /\ closing' = [closing EXCEPT ![p] = TRUE]
  /\ Drop(p, Own(p))
  /\ held' = [held EXCEPT ![p] = None]
  /\ UNCHANGED <<recon, by, call, heard, gaveUp, faults>>

-----------------------------------------------------------------------------
Reconnecting(p) ==
  \/ \E c \in Clients : Connect(p, c) \/ Listen(p, c) \/ ListenFails(p, c)
  \/ ConnectFails(p)
  \/ WakeClosed(p)

Next ==
  \/ \E e \in Events : EmitLocally(e)
  \/ \E p \in Servers, e \in Events : Notify(p, e) \/ NotifyRejected(p, e)
  \/ \E p \in Servers, c \in Clients : Error(p, c) \/ \E e \in Events : Receive(p, c, e)
  \/ \E p \in Servers : Reconnecting(p) \/ Close(p)

Spec == Init /\ [][Next]_vars

\* Timers fire, queries are answered and notifications arrive; nothing has to fail.
FairSpec ==
  /\ Spec
  /\ \A p \in Servers : WF_vars(Reconnecting(p))
  /\ \A e \in Events : WF_vars(EmitLocally(e))
  /\ \A p \in Servers, c \in Clients, e \in Events : WF_vars(Receive(p, c, e))

-----------------------------------------------------------------------------
(* Properties *)

\* However breaks, reconnections and close() overlap, a process has one client at a
\* time: a second one would bring every notification twice.
OneClient == \A p \in Servers : Cardinality(Live(p)) <= 1

\* Every event that was notified reaches the subscribers of every process, except where
\* the process was not listening, lost its client or closed meanwhile.
EveryoneHears ==
  \A p \in Servers, e \in Events :
    call[e] = "notified" ~> heard[p][e] > 0 \/ e \in missed[p] \/ closing[p]

\* A process that lost its client listens again, unless an attempt failed or it closed.
Rejoins ==
  \A p \in Servers : recon[p] # "no" ~> held[p] # None \/ gaveUp[p] \/ closing[p]

\* What the repository says and the code does not keep: after a break a fresh client is
\* acquired.
AlwaysRejoins == \A p \in Servers : recon[p] # "no" ~> held[p] # None \/ closing[p]

=============================================================================
