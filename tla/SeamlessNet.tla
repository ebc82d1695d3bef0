---------------------------- MODULE SeamlessNet -----------------------------
(***************************************************************************)
(* What a network of RedBoxes promises the stations (SANs) behind them,    *)
(* with no LAN, ring, copy or table in sight: every station receives a     *)
(* frame at most once, never its own, and every addressed station gets it  *)
(* in the end.                                                             *)
(***************************************************************************)
EXTENDS Sequences, Naturals

CONSTANTS
    Nodes,     \* the RedBoxes; a station is named after its RedBox
    Ids,       \* the frames stations send
    Sender,    \* [Ids -> Nodes]
    Addressed  \* [Ids -> SUBSET Nodes], the stations a frame is for

VARIABLES
    sent,   \* the frames sent so far
    inbox   \* station -> the frames it received, in order

nvars == <<sent, inbox>>

Received(n) == {inbox[n][k] : k \in DOMAIN inbox[n]}

Init ==
    /\ sent = {}
    /\ inbox = [n \in Nodes |-> <<>>]

Send(id) ==
    /\ id \notin sent
    /\ sent' = sent \cup {id}
    /\ UNCHANGED inbox

Deliver(n, id) ==
    /\ id \in sent
    /\ n # Sender[id]
    /\ id \notin Received(n)
    /\ inbox' = [inbox EXCEPT ![n] = Append(@, id)]
    /\ UNCHANGED sent

Next ==
    \/ \E id \in Ids : Send(id)
    \/ \E n \in Nodes, id \in Ids : Deliver(n, id)

Arrives == \A id \in Ids : \A n \in Addressed[id] : id \in sent ~> id \in Received(n)

Spec == Init /\ [][Next]_nvars
=============================================================================
