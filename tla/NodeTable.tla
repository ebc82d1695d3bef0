----------------------------- MODULE NodeTable ------------------------------
(***************************************************************************)
(* nodetable.Table in use.  The processFrames goroutine looks a key up     *)
(* (Find) and, when it is not there, inserts it (InsertWithExpiry) under a *)
(* second acquisition of the lock; frames injected from the interlink are  *)
(* inserted without a lookup; a detected peer restart flushes a MAC.  The  *)
(* timer goroutine sweeps the table (Cleanup), and reads the clock before  *)
(* it takes the lock.  Every lock section is one action.                   *)
(***************************************************************************)
EXTENDS DupTable

CONSTANTS
    Macs, Seqs,
    MaxTime    \* bound on the clock, for model checking

ASSUME NodeTableAssumption ==
    /\ IsFiniteSet(Macs) /\ IsFiniteSet(Seqs)
    /\ MaxTime \in Nat

VARIABLES
    entries,   \* Table.entries
    now,       \* the clock behind t.now()
    pending,   \* keys not found and not yet inserted: {} or one key
    sweeping,  \* clock values read by a Cleanup still waiting for the lock
    \* History: what the table has been asked, for the promise it makes.
    last, flushed, verdict

vars == <<entries, now, pending, sweeping, last, flushed, verdict>>

Keys == Macs \X Seqs

Promise == INSTANCE SeenWindow

Init ==
    /\ entries = EmptyMap
    /\ pending = {}
    /\ sweeping = {}
    /\ Promise!Init

-----------------------------------------------------------------------------
(* Both handlers hold the frame's key between lookup and insertion.        *)
FindFrame(k) ==
    /\ pending = {}
    /\ pending' = IF Find(entries, k, now) THEN {} ELSE {k}
    /\ verdict' = <<k, Find(entries, k, now)>>
    /\ UNCHANGED <<entries, now, sweeping, last, flushed>>

Registered(k) ==
    /\ entries' \in InsertWithExpiry(entries, k, now)
    /\ last' = Assign(last, k, now)
    /\ flushed' = flushed \ {k}
    /\ verdict' = <<>>
    /\ UNCHANGED <<now, sweeping>>

(* The frame was not found: it is accepted. *)
AcceptFrame(k) ==
    /\ k \in pending
    /\ pending' = {}
    /\ Registered(k)

(* A frame injected into the ring is registered without a lookup. *)
RegisterFrame(k) ==
    /\ pending = {}
    /\ UNCHANGED pending
    /\ Registered(k)

FlushPeer(mac) ==
    /\ pending = {}
    /\ entries' = FlushFor(entries, mac)
    /\ flushed' = flushed \cup {k \in DOMAIN last : k[1] = mac}
    /\ verdict' = <<>>
    /\ UNCHANGED <<now, pending, sweeping, last>>

(* Cleanup reads the clock ... *)
CleanupReadsClock ==
    /\ sweeping = {}
    /\ sweeping' = {now}
    /\ UNCHANGED <<entries, now, pending, last, flushed, verdict>>

(* ... and sweeps once it has the lock. *)
CleanupSweeps ==
    /\ \E at \in sweeping : entries' = Cleanup(entries, at)
    /\ sweeping' = {}
    /\ UNCHANGED <<now, pending, last, flushed, verdict>>

Tick ==
    /\ now < MaxTime
    /\ now' = now + 1
    /\ UNCHANGED <<entries, pending, sweeping, last, flushed, verdict>>

Next ==
    \/ \E k \in Keys : FindFrame(k) \/ AcceptFrame(k) \/ RegisterFrame(k)
    \/ \E mac \in Macs : FlushPeer(mac)
    \/ CleanupReadsClock
    \/ CleanupSweeps
    \/ Tick

Spec == Init /\ [][Next]_vars

-----------------------------------------------------------------------------
TypeOK ==
    /\ now \in 0..MaxTime
    /\ DOMAIN entries \subseteq Keys
    /\ \A k \in DOMAIN entries : entries[k] \in 0..now
    /\ pending \in SUBSET Keys
    /\ sweeping \in SUBSET (0..now)
    /\ DOMAIN last \subseteq Keys
    /\ \A k \in DOMAIN last : last[k] \in 0..now
    /\ flushed \in SUBSET Keys
    /\ verdict = <<>> \/ verdict \in Keys \X BOOLEAN

(* However many keys are inserted, the table holds at most                 *)
(* max_node_table_size entries: one eviction per insertion is enough       *)
(* (nodetable.go, InsertWithExpiry).                                       *)
SizeBound == Cardinality(DOMAIN entries) <= MaxSize

(* An entry always carries the time of the latest registration of its key, *)
(* and never survives a flush of its MAC.                                  *)
EntriesAreRegistrations ==
    \A k \in DOMAIN entries :
        k \in DOMAIN last /\ k \notin flushed /\ entries[k] = last[k]

(* Evicting the oldest entry is the right choice: a key registered within  *)
(* the forget time and not flushed is missing from the table only when at  *)
(* least MaxSize other keys were registered no earlier.  Sweeps with an    *)
(* old clock value, flushes of other MACs and refreshed entries do not     *)
(* change that.                                                            *)
RememberedUntilOverrun ==
    \A k \in Keys :
        Promise!Remembered(k) /\ ~Promise!Overrun(k) => k \in DOMAIN entries

(* At most one acceptance per window: although Find and InsertWithExpiry   *)
(* are two lock sections, a frame about to be accepted is never one that   *)
(* the table was bound to remember (handleIncomingPRPFrame,                *)
(* handleIncomingHSRFrame).                                                *)
NoSecondAcceptance ==
    \A k \in pending : Promise!Remembered(k) => Promise!Overrun(k)

(* A sweep is invisible: whatever clock value Cleanup has read before it   *)
(* got the lock, no later lookup answers differently because of it.        *)
SweepInvisible ==
    [][CleanupSweeps =>
         \A k \in Keys : Find(entries', k, now') <=> Find(entries, k, now)]_vars

(* The table implements the window it promises. *)
PromiseKept == Promise!Spec
=============================================================================
