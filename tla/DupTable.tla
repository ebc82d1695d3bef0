------------------------------ MODULE DupTable ------------------------------
(***************************************************************************)
(* The duplicate-detection table of internal/nodetable as a value: a       *)
(* partial function from keys <<source MAC, sequence number>> to the time  *)
(* LastSeen.  A Go map is a function whose domain is the set of its keys.  *)
(* The lifetime of an entry is the same for every entry (every caller      *)
(* passes entryForgetMs()), so it is the constant Forget; the LANID field  *)
(* is stored by the code and never read, so it has no counterpart here.    *)
(***************************************************************************)
EXTENDS Integers, FiniteSets, Functions

CONSTANTS
    Forget,    \* entry_forget_time, in clock ticks
    MaxSize    \* max_node_table_size; NewNode replaces a value <= 0 by 256

ASSUME DupTableAssumption ==
    /\ Forget \in Nat
    /\ MaxSize \in Nat \ {0}

EmptyMap == [x \in {} |-> 0]

(* m[k] = v on a Go map. *)
Assign(m, k, v) == [x \in DOMAIN m \cup {k} |-> IF x = k THEN v ELSE m[x]]

(* delete(m, k) for every k in K. *)
Delete(m, K) == Restrict(m, DOMAIN m \ K)

-----------------------------------------------------------------------------
(* A comparison the wrong way round at the boundary: an entry whose age is *)
(* exactly the forget time is no longer found.                             *)
FindTooStrict(t, k, now) == k \in DOMAIN t /\ now - t[k] < Forget

(* No expiry check at all. *)
FindNoExpiry(t, k, now) == k \in DOMAIN t

Find(t, k, now) == k \in DOMAIN t /\ now - t[k] <= Forget

(* The eviction loop keeps the first strictly smaller time stamp of a map  *)
(* iteration, whose order Go leaves open: any entry with the least time    *)
(* stamp may be the one deleted.                                           *)
Newest(t) == {k \in DOMAIN t : \A j \in DOMAIN t : t[j] <= t[k]}
Oldest(t) == {k \in DOMAIN t : \A j \in DOMAIN t : t[k] <= t[j]}

(* Two wrong insertions: one that never evicts, one that stores the time   *)
(* of expiry.                                                              *)
InsertUnbounded(t, k, now) == {Assign(t, k, now)}
InsertExpiry(t, k, now) == {Assign(t, k, now + Forget)}

(* The set of tables InsertWithExpiry may leave behind. *)
InsertWithExpiry(t, k, now) ==
    LET u == Assign(t, k, now)
    IN  IF Cardinality(DOMAIN u) > MaxSize
        THEN {Delete(u, {old}) : old \in Oldest(u)}
        ELSE {u}

(* A flush that misses its entries. *)
FlushNothing(t, mac) == t

FlushFor(t, mac) == Delete(t, {k \in DOMAIN t : k[1] = mac})

(* A sweep that also removes the entries whose age is exactly the forget   *)
(* time.                                                                   *)
CleanupTooEager(t, at) == Delete(t, {k \in DOMAIN t : at - t[k] >= Forget})

(* The sweep of Cleanup with the clock value at that it has read.          *)
Cleanup(t, at) == Delete(t, {k \in DOMAIN t : at - t[k] > Forget})
=============================================================================
