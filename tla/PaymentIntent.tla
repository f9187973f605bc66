--------------------------- MODULE PaymentIntent ----------------------------
(***************************************************************************)
(* What signalforge-payment promises about payment intents, without        *)
(* accounts, signers or timestamps: an intent is opened once and then      *)
(* either settled or returned, for good; the books always show how many    *)
(* were opened, settled and returned.                                      *)
(***************************************************************************)
EXTENDS Naturals

CONSTANTS
  Refs,      \* the references an intent may have
  Count(_)   \* the number of elements of a set

VARIABLES open, settled, returned, books

vars == <<open, settled, returned, books>>

Counts(o, s, r) == <<Count(o \cup s \cup r), Count(s), Count(r)>>

Init ==
  /\ open = {} /\ settled = {} /\ returned = {}
  /\ books = <<0, 0, 0>>

Open(r) ==
  /\ r \notin open \cup settled \cup returned
  /\ open' = open \cup {r}
  /\ UNCHANGED <<settled, returned>>

Settle(r) ==
  /\ r \in open
  /\ open' = open \ {r}
  /\ settled' = settled \cup {r}
  /\ UNCHANGED returned

Return(r) ==
  /\ r \in open
  /\ open' = open \ {r}
  /\ returned' = returned \cup {r}
  /\ UNCHANGED settled

Next ==
  /\ \E r \in Refs : Open(r) \/ Settle(r) \/ Return(r)
  /\ books' = Counts(open', settled', returned')

Spec == Init /\ [][Next]_vars

=============================================================================
