----------------------------- MODULE SeenWindow -----------------------------
(***************************************************************************)
(* What the duplicate-detection table promises the frame handlers, with    *)
(* no table in sight: a lookup answers "seen" for every key registered     *)
(* within the forget time, unless the key was flushed or so many other     *)
(* keys were registered since that a table of the configured size need no  *)
(* longer know it; and it never answers "seen" for any other key.          *)
(***************************************************************************)
EXTENDS Integers, FiniteSets

CONSTANTS Macs, Seqs, Forget, MaxSize, MaxTime

VARIABLES
    now,      \* the clock
    last,     \* key -> time of its latest registration
    flushed,  \* keys flushed since their latest registration
    verdict   \* <<>>, or <<key, answer>> of the latest lookup

svars == <<now, last, flushed, verdict>>

Keys == Macs \X Seqs

Remembered(k) ==
    /\ k \in DOMAIN last
    /\ k \notin flushed
    /\ now - last[k] <= Forget

(* Enough other keys were registered no earlier than k to fill the table.  *)
Overrun(k) ==
    Cardinality({j \in DOMAIN last \ {k} : last[k] <= last[j]}) >= MaxSize

Init ==
    /\ now = 0
    /\ last = [k \in {} |-> 0]
    /\ flushed = {}
    /\ verdict = <<>>

Lookup(k) ==
    /\ \E seen \in BOOLEAN :
          /\ seen => Remembered(k)
          /\ Remembered(k) /\ ~Overrun(k) => seen
          /\ verdict' = <<k, seen>>
    /\ UNCHANGED <<now, last, flushed>>

Register(k) ==
    /\ last' = [x \in DOMAIN last \cup {k} |-> IF x = k THEN now ELSE last[x]]
    /\ flushed' = flushed \ {k}
    /\ verdict' = <<>>
    /\ UNCHANGED now

Flush(mac) ==
    /\ flushed' = flushed \cup {k \in DOMAIN last : k[1] = mac}
    /\ verdict' = <<>>
    /\ UNCHANGED <<now, last>>

Tick ==
    /\ now < MaxTime
    /\ now' = now + 1
    /\ UNCHANGED <<last, flushed, verdict>>

Next ==
    \/ \E k \in Keys : Lookup(k) \/ Register(k)
    \/ \E mac \in Macs : Flush(mac)
    \/ Tick

Spec == Init /\ [][Next]_svars
=============================================================================
