-------------------------- MODULE NodeTableProofs ---------------------------
(***************************************************************************)
(* Proofs about the duplicate table, for every set of MACs and sequence    *)
(* numbers, table size and forget time.  The argument: an entry is always  *)
(* the latest registration of its key, and a key that should be remembered *)
(* but was evicted left MaxSize entries at least as young behind, which    *)
(* were registrations too; registrations only get younger, so the key      *)
(* stays overrun until it is registered again.                             *)
(***************************************************************************)
EXTENDS NodeTable, FiniteSetTheorems, TLAPS

(* There are finitely many keys, so every table and history is finite. *)
LEMMA KeysFinite == IsFiniteSet(Keys)
BY FS_Product, NodeTableAssumption DEF Keys

(* What assigning to and deleting from a Go map do. *)
LEMMA AssignFacts ==
  ASSUME NEW m, NEW k, NEW v
  PROVE  /\ DOMAIN Assign(m, k, v) = DOMAIN m \cup {k}
         /\ Assign(m, k, v)[k] = v
         /\ \A x \in DOMAIN m : x # k => Assign(m, k, v)[x] = m[x]
BY DEF Assign

LEMMA DeleteFacts ==
  ASSUME NEW m, NEW K
  PROVE  /\ DOMAIN Delete(m, K) = DOMAIN m \ K
         /\ \A x \in DOMAIN m \ K : Delete(m, K)[x] = m[x]
BY DEF Delete, Restrict

(* An insertion leaves no entry but those of the assignment. *)
LEMMA InsertKeeps ==
  ASSUME NEW t, NEW k, NEW at, NEW u \in InsertWithExpiry(t, k, at),
         NEW w, w = Assign(t, k, at)
  PROVE  DOMAIN u \subseteq DOMAIN w /\ \A x \in DOMAIN u : u[x] = w[x]
<1>1. u = w \/ \E old \in Oldest(w) : u = Delete(w, {old})
  BY DEF InsertWithExpiry
<1> QED
  BY <1>1 DEF Delete, Restrict

(* What an insertion leaves behind: every key keeps the time stamp of the  *)
(* assignment, and a key that is gone was oldest among MaxSize others.     *)
LEMMA InsertFacts ==
  ASSUME NEW t, NEW k \in Keys, NEW at,
         DOMAIN t \subseteq Keys, Cardinality(DOMAIN t) <= MaxSize,
         NEW u \in InsertWithExpiry(t, k, at),
         NEW w, w = Assign(t, k, at)
  PROVE  /\ DOMAIN u \subseteq DOMAIN w
         /\ \A x \in DOMAIN u : u[x] = w[x]
         /\ Cardinality(DOMAIN u) <= MaxSize
         /\ \A x \in DOMAIN w \ DOMAIN u :
               /\ \A y \in DOMAIN u : w[x] <= w[y]
               /\ x \notin DOMAIN u
               /\ Cardinality(DOMAIN u) >= MaxSize
<1>1. DOMAIN w = DOMAIN t \cup {k}
  BY AssignFacts
<1>2. /\ IsFiniteSet(DOMAIN t) /\ IsFiniteSet(DOMAIN w)
      /\ Cardinality(DOMAIN t) \in Nat /\ Cardinality(DOMAIN w) \in Nat
  <2>1. DOMAIN w \subseteq Keys
    BY <1>1
  <2>2. IsFiniteSet(DOMAIN t) /\ IsFiniteSet(DOMAIN w)
    BY <2>1, KeysFinite, FS_Subset
  <2> QED
    BY <2>2, FS_CardinalityType
<1>3. Cardinality(DOMAIN w) <= MaxSize + 1
  <2>1. Cardinality(DOMAIN w) = IF k \in DOMAIN t THEN Cardinality(DOMAIN t)
                                ELSE Cardinality(DOMAIN t) + 1
    BY <1>1, <1>2, FS_AddElement
  <2> QED
    BY <2>1, <1>2, DupTableAssumption
<1>4. CASE Cardinality(DOMAIN w) > MaxSize
  <2>1. PICK old \in Oldest(w) : u = Delete(w, {old})
    BY <1>4 DEF InsertWithExpiry
  <2>2. old \in DOMAIN w /\ \A y \in DOMAIN w : w[old] <= w[y]
    BY <2>1 DEF Oldest
  <2>3. /\ DOMAIN u = DOMAIN w \ {old}
        /\ \A x \in DOMAIN u : u[x] = w[x]
    BY <2>1 DEF Delete, Restrict
  <2>4. Cardinality(DOMAIN u) = Cardinality(DOMAIN w) - 1
    <3>1. Cardinality(DOMAIN w \ {old}) = Cardinality(DOMAIN w) - 1
      BY <2>2, <1>2, FS_RemoveElement
    <3> QED
      BY <2>3, <3>1
  <2>5. Cardinality(DOMAIN u) = MaxSize
    BY <2>4, <1>2, <1>3, <1>4, DupTableAssumption
  <2> QED
    BY <2>2, <2>3, <2>5, DupTableAssumption
<1>5. CASE ~(Cardinality(DOMAIN w) > MaxSize)
  <2>1. u = w
    BY <1>5 DEF InsertWithExpiry
  <2> QED
    BY <2>1, <1>2, <1>5, DupTableAssumption
<1> QED
  BY <1>4, <1>5

(* Registering other keys, or the same ones again, never makes room: a key *)
(* whose own registration is untouched stays overrun.                      *)
Younger(l, k) == {j \in DOMAIN l \ {k} : l[k] <= l[j]}

LEMMA SameCardinality == \A S : Promise!Cardinality(S) = Cardinality(S)
BY DEF Promise!Cardinality, Cardinality, Promise!IsFiniteSet, IsFiniteSet

LEMMA OverrunGrows ==
  ASSUME NEW l, NEW m, NEW k \in DOMAIN l,
         DOMAIN l \subseteq DOMAIN m, DOMAIN m \subseteq Keys,
         m[k] = l[k],
         \A j \in DOMAIN l : l[j] \in Int /\ m[j] \in Int /\ l[j] <= m[j],
         Cardinality(Younger(l, k)) >= MaxSize
  PROVE  Cardinality(Younger(m, k)) >= MaxSize
<1>1. Younger(l, k) \subseteq Younger(m, k)
  BY DEF Younger
<1>2. IsFiniteSet(Younger(m, k))
  <2>1. Younger(m, k) \subseteq Keys
    BY DEF Younger
  <2> QED BY <2>1, KeysFinite, FS_Subset
<1>3. Cardinality(Younger(l, k)) <= Cardinality(Younger(m, k))
  BY <1>1, <1>2, FS_Subset
<1>4. /\ Cardinality(Younger(l, k)) \in Nat
      /\ Cardinality(Younger(m, k)) \in Nat
  BY <1>1, <1>2, FS_Subset, FS_CardinalityType
<1> QED
  BY <1>3, <1>4, DupTableAssumption

-----------------------------------------------------------------------------
(* Every variable keeps its type: no time stamp, sweep or registration is  *)
(* ever ahead of the clock the table reads through t.now().                *)
THEOREM TypeCorrect == Spec => []TypeOK
<1>1. Init => TypeOK
  BY NodeTableAssumption DEF Init, Promise!Init, TypeOK, EmptyMap
<1>2. TypeOK /\ [Next]_vars => TypeOK'
  <2> SUFFICES ASSUME TypeOK, [Next]_vars PROVE TypeOK'
    OBVIOUS
  <2> USE NodeTableAssumption DEF TypeOK
  <2>1. ASSUME NEW k \in Keys, FindFrame(k) PROVE TypeOK'
    BY <2>1 DEF FindFrame, Find
  <2>2. ASSUME NEW k \in Keys, Registered(k), pending' \in SUBSET Keys
        PROVE  TypeOK'
    <3> DEFINE w == Assign(entries, k, now)
    <3>1. /\ DOMAIN entries' \subseteq DOMAIN w
          /\ \A x \in DOMAIN entries' : entries'[x] = w[x]
      BY <2>2, InsertKeeps DEF Registered
    <3>2. DOMAIN w \subseteq Keys /\ \A x \in DOMAIN w : w[x] \in 0..now
      BY DEF Assign
    <3>3. DOMAIN last' \subseteq Keys /\ \A x \in DOMAIN last' : last'[x] \in 0..now
      BY <2>2 DEF Registered, Assign
    <3> QED BY <2>2, <3>1, <3>2, <3>3 DEF Registered
  <2>3. ASSUME NEW k \in Keys, AcceptFrame(k) PROVE TypeOK'
    BY <2>2, <2>3 DEF AcceptFrame
  <2>4. ASSUME NEW k \in Keys, RegisterFrame(k) PROVE TypeOK'
    BY <2>2, <2>4 DEF RegisterFrame
  <2>5. ASSUME NEW mac \in Macs, FlushPeer(mac) PROVE TypeOK'
    BY <2>5 DEF FlushPeer, FlushFor, Delete, Restrict
  <2>6. CASE CleanupReadsClock
    BY <2>6 DEF CleanupReadsClock
  <2>7. CASE CleanupSweeps
    BY <2>7 DEF CleanupSweeps, Cleanup, Delete, Restrict
  <2>8. CASE Tick
    BY <2>8 DEF Tick
  <2>9. CASE UNCHANGED vars
    BY <2>9 DEF vars
  <2> QED
    BY <2>1, <2>3, <2>4, <2>5, <2>6, <2>7, <2>8, <2>9 DEF Next
<1> QED
  BY <1>1, <1>2, PTL DEF Spec

-----------------------------------------------------------------------------
(* The inductive invariant. *)
TableInv ==
    /\ SizeBound
    /\ EntriesAreRegistrations
    /\ RememberedUntilOverrun

(* Registering a key preserves it, whether the insertion evicts or not. *)
LEMMA RegisteredKeepsTable ==
  ASSUME TypeOK, TableInv, NEW k \in Keys, Registered(k)
  PROVE  TableInv'
<1> DEFINE w == Assign(entries, k, now)
<1>1. /\ DOMAIN entries' \subseteq DOMAIN w
      /\ \A x \in DOMAIN entries' : entries'[x] = w[x]
      /\ Cardinality(DOMAIN entries') <= MaxSize
      /\ \A x \in DOMAIN w \ DOMAIN entries' :
            /\ \A y \in DOMAIN entries' : w[x] <= w[y]
            /\ Cardinality(DOMAIN entries') >= MaxSize
  BY InsertFacts DEF Registered, TypeOK, TableInv, SizeBound
<1>2. /\ DOMAIN w = DOMAIN entries \cup {k} /\ w[k] = now
      /\ \A x \in DOMAIN entries : x # k => w[x] = entries[x]
  BY DEF Assign
<1>3. /\ DOMAIN last' = DOMAIN last \cup {k} /\ last'[k] = now
      /\ \A x \in DOMAIN last : x # k => last'[x] = last[x]
      /\ flushed' = flushed \ {k} /\ now' = now
  BY DEF Registered, Assign
<1> HIDE DEF w
<1>4. \A x \in DOMAIN w : x \in DOMAIN last' /\ x \notin flushed' /\ w[x] = last'[x]
  BY <1>2, <1>3 DEF TableInv, EntriesAreRegistrations
<1>5. EntriesAreRegistrations'
  BY <1>1, <1>4 DEF EntriesAreRegistrations
<1>6. ASSUME NEW x \in Keys, Promise!Remembered(x)', x \notin DOMAIN entries'
      PROVE  Promise!Overrun(x)'
  <2>1. x \in DOMAIN last' /\ x \notin flushed' /\ now' - last'[x] <= Forget
    BY <1>6 DEF Promise!Remembered
  <2>2. CASE x \in DOMAIN w
    (* x is the entry this insertion evicted. *)
    <3>1. DOMAIN entries' \subseteq Younger(last', x)
      BY <1>1, <1>4, <1>6, <2>2 DEF Younger
    <3>2. IsFiniteSet(Younger(last', x))
      <4>1. Younger(last', x) \subseteq Keys
        BY <1>3 DEF Younger, TypeOK
      <4> QED BY <4>1, KeysFinite, FS_Subset
    <3>3. /\ Cardinality(DOMAIN entries') <= Cardinality(Younger(last', x))
          /\ Cardinality(DOMAIN entries') \in Nat
          /\ Cardinality(Younger(last', x)) \in Nat
      BY <3>1, <3>2, FS_Subset, FS_CardinalityType
    <3>4. Cardinality(Younger(last', x)) >= MaxSize
      BY <1>1, <1>6, <2>2, <3>3, DupTableAssumption
    <3> QED BY <3>4, SameCardinality DEF Promise!Overrun, Younger
  <2>3. CASE x \notin DOMAIN w
    (* x had been evicted before. *)
    <3>1. x # k /\ x \in DOMAIN last /\ x \notin DOMAIN entries
      BY <1>2, <1>3, <2>1, <2>3
    <3>2. Promise!Remembered(x)
      BY <1>3, <2>1, <3>1 DEF Promise!Remembered
    <3>3. Promise!Overrun(x)
      BY <3>1, <3>2 DEF TableInv, RememberedUntilOverrun
    <3>4. Cardinality(Younger(last, x)) >= MaxSize
      BY <3>3, SameCardinality DEF Promise!Overrun, Younger
    <3>5. \A j \in DOMAIN last : last[j] \in Int /\ last'[j] \in Int /\ last[j] <= last'[j]
      BY <1>3 DEF TypeOK
    <3>6. DOMAIN last \subseteq DOMAIN last' /\ DOMAIN last' \subseteq Keys /\ last'[x] = last[x]
      BY <1>3, <3>1 DEF TypeOK
    <3>7. Cardinality(Younger(last', x)) >= MaxSize
      BY <3>1, <3>4, <3>5, <3>6, OverrunGrows
    <3> QED BY <3>7, SameCardinality DEF Promise!Overrun, Younger
  <2> QED BY <2>2, <2>3
<1>7. RememberedUntilOverrun'
  BY <1>6 DEF RememberedUntilOverrun
<1> QED
  BY <1>1, <1>5, <1>7 DEF TableInv, SizeBound

(* Every other step preserves it too. *)
LEMMA TableStep ==
  ASSUME TypeOK, TableInv, [Next]_vars
  PROVE  TableInv'
<1>1. ASSUME NEW k \in Keys, FindFrame(k) PROVE TableInv'
  BY <1>1 DEF FindFrame, TableInv, SizeBound, EntriesAreRegistrations,
     RememberedUntilOverrun, Promise!Remembered, Promise!Overrun
<1>2. ASSUME NEW k \in Keys, AcceptFrame(k) PROVE TableInv'
  BY <1>2, RegisteredKeepsTable DEF AcceptFrame
<1>3. ASSUME NEW k \in Keys, RegisterFrame(k) PROVE TableInv'
  BY <1>3, RegisteredKeepsTable DEF RegisterFrame
<1>4. ASSUME NEW K \in SUBSET DOMAIN entries, entries' = Delete(entries, K),
             now' = now, last' = last, flushed \subseteq flushed',
             flushed' \cap DOMAIN entries \subseteq K,
             \A k \in K : k \in flushed' \/ ~Find(entries, k, now)
      PROVE  TableInv'
  <2>1. DOMAIN entries' = DOMAIN entries \ K /\ \A x \in DOMAIN entries' : entries'[x] = entries[x]
    BY <1>4 DEF Delete, Restrict
  <2>2. SizeBound'
    <3>1. IsFiniteSet(DOMAIN entries)
      BY KeysFinite, FS_Subset DEF TypeOK
    <3>2. /\ Cardinality(DOMAIN entries') <= Cardinality(DOMAIN entries)
          /\ Cardinality(DOMAIN entries') \in Nat /\ Cardinality(DOMAIN entries) \in Nat
      BY <2>1, <3>1, FS_Subset, FS_CardinalityType
    <3> QED BY <3>2, DupTableAssumption DEF TableInv, SizeBound
  <2>3. EntriesAreRegistrations'
    BY <1>4, <2>1 DEF TableInv, EntriesAreRegistrations
  <2>4. RememberedUntilOverrun'
    BY <1>4, <2>1 DEF TableInv, EntriesAreRegistrations, RememberedUntilOverrun,
       Promise!Remembered, Promise!Overrun, Find
  <2> QED BY <2>2, <2>3, <2>4 DEF TableInv
<1>5. ASSUME NEW mac \in Macs, FlushPeer(mac) PROVE TableInv'
  <2> DEFINE K == {k \in DOMAIN entries : k[1] = mac}
  <2>1. /\ K \in SUBSET DOMAIN entries /\ entries' = Delete(entries, K)
        /\ now' = now /\ last' = last /\ flushed \subseteq flushed'
        /\ flushed' \cap DOMAIN entries \subseteq K
        /\ \A k \in K : k \in flushed'
    BY <1>5 DEF FlushPeer, FlushFor, TableInv, EntriesAreRegistrations
  <2> QED BY <1>4, <2>1
<1>6. CASE CleanupReadsClock
  BY <1>6 DEF CleanupReadsClock, TableInv, SizeBound, EntriesAreRegistrations,
     RememberedUntilOverrun, Promise!Remembered, Promise!Overrun
<1>7. CASE CleanupSweeps
  <2>1. PICK at \in sweeping : entries' = Cleanup(entries, at)
    BY <1>7 DEF CleanupSweeps
  <2> DEFINE K == {k \in DOMAIN entries : at - entries[k] > Forget}
  <2>2. \A k \in K : ~Find(entries, k, now)
    BY <2>1, DupTableAssumption, NodeTableAssumption DEF TypeOK, Find
  <2>3. /\ K \in SUBSET DOMAIN entries /\ entries' = Delete(entries, K)
        /\ now' = now /\ last' = last /\ flushed \subseteq flushed'
        /\ flushed' \cap DOMAIN entries \subseteq K
    BY <1>7, <2>1 DEF CleanupSweeps, Cleanup, TableInv, EntriesAreRegistrations
  <2> QED BY <1>4, <2>2, <2>3
<1>8. CASE Tick
  <2>1. \A k \in Keys : Promise!Remembered(k)' => Promise!Remembered(k)
    BY <1>8, DupTableAssumption DEF Tick, Promise!Remembered, TypeOK
  <2>2. \A k \in Keys : Promise!Overrun(k)' <=> Promise!Overrun(k)
    BY <1>8 DEF Tick, Promise!Overrun
  <2>3. RememberedUntilOverrun'
    BY <1>8, <2>1, <2>2 DEF Tick, TableInv, RememberedUntilOverrun
  <2> QED BY <1>8, <2>3 DEF Tick, TableInv, SizeBound, EntriesAreRegistrations
<1>9. CASE UNCHANGED vars
  BY <1>9 DEF vars, TableInv, SizeBound, EntriesAreRegistrations,
     RememberedUntilOverrun, Promise!Remembered, Promise!Overrun
<1> QED
  BY <1>1, <1>2, <1>3, <1>5, <1>6, <1>7, <1>8, <1>9 DEF Next

(* The table never outgrows max_node_table_size, holds only unflushed      *)
(* latest registrations, and forgets a key early only when it was overrun. *)
THEOREM TableCorrect ==
  Spec => [](SizeBound /\ EntriesAreRegistrations /\ RememberedUntilOverrun)
<1>1. Init => TableInv
  <2>1. Cardinality({}) = 0
    BY FS_EmptySet
  <2> QED
    BY <2>1, DupTableAssumption DEF Init, Promise!Init, EmptyMap, TableInv,
       SizeBound, EntriesAreRegistrations, RememberedUntilOverrun, Promise!Remembered
<1>2. TypeOK /\ TableInv /\ [Next]_vars => TableInv'
  BY TableStep
<1>3. TableInv => SizeBound /\ EntriesAreRegistrations /\ RememberedUntilOverrun
  BY DEF TableInv
<1> QED
  BY <1>1, <1>2, <1>3, TypeCorrect, PTL DEF Spec

(* No sequence of insertions, cleanups and flushes takes the table past    *)
(* max_node_table_size: one eviction per InsertWithExpiry is enough.       *)
COROLLARY TableBounded == Spec => []SizeBound
BY TableCorrect, PTL

(* Whatever the timer and processFrames do in between, an entry is the     *)
(* latest registration of its key (InsertWithExpiry, the flush of a MAC).  *)
COROLLARY EntriesGenuine == Spec => []EntriesAreRegistrations
BY TableCorrect, PTL

-----------------------------------------------------------------------------
(* Two lock sections are enough for duplicate discard: between the lookup  *)
(* that misses and the insertion, no step of the timer goroutine makes the *)
(* missed key one the table was bound to remember.                         *)
THEOREM SingleAcceptance == Spec => []NoSecondAcceptance
<1>1. Init => NoSecondAcceptance
  BY DEF Init, NoSecondAcceptance
<1>2. TypeOK /\ TableInv /\ NoSecondAcceptance /\ [Next]_vars => NoSecondAcceptance'
  <2> SUFFICES ASSUME TypeOK, TableInv, NoSecondAcceptance, [Next]_vars
               PROVE  NoSecondAcceptance'
    OBVIOUS
  <2> USE DEF NoSecondAcceptance
  <2>1. ASSUME NEW k \in Keys, FindFrame(k) PROVE NoSecondAcceptance'
    <3>1. Promise!Remembered(k) /\ ~Find(entries, k, now) => Promise!Overrun(k)
      BY <2>1 DEF TableInv, RememberedUntilOverrun, EntriesAreRegistrations,
         Promise!Remembered, Find
    <3>2. now' = now /\ last' = last /\ flushed' = flushed
      BY <2>1 DEF FindFrame
    <3>3. /\ Promise!Remembered(k)' <=> Promise!Remembered(k)
          /\ Promise!Overrun(k)' <=> Promise!Overrun(k)
      BY <3>2 DEF Promise!Remembered, Promise!Overrun
    <3> QED BY <2>1, <3>1, <3>3 DEF FindFrame
  <2>2. ASSUME NEW k \in Keys, AcceptFrame(k) \/ RegisterFrame(k) PROVE NoSecondAcceptance'
    BY <2>2 DEF AcceptFrame, RegisterFrame
  <2>3. ASSUME NEW mac \in Macs, FlushPeer(mac) PROVE NoSecondAcceptance'
    BY <2>3 DEF FlushPeer
  <2>4. CASE CleanupReadsClock \/ CleanupSweeps \/ UNCHANGED vars
    <3>1. now' = now /\ last' = last /\ flushed' = flushed /\ pending' = pending
      BY <2>4 DEF CleanupReadsClock, CleanupSweeps, vars
    <3> QED BY <3>1 DEF Promise!Remembered, Promise!Overrun
  <2>5. CASE Tick
    <3>1. last' = last /\ flushed' = flushed /\ pending' = pending /\ now' = now + 1
      BY <2>5 DEF Tick
    <3>2. \A k \in pending : Promise!Remembered(k)' => Promise!Remembered(k)
      BY <3>1, DupTableAssumption DEF Promise!Remembered, TypeOK
    <3>3. \A k \in pending : Promise!Overrun(k)' <=> Promise!Overrun(k)
      BY <3>1 DEF Promise!Overrun
    <3> QED BY <3>1, <3>2, <3>3
  <2> QED
    BY <2>1, <2>2, <2>3, <2>4, <2>5 DEF Next
<1>3. TableInv <=> SizeBound /\ EntriesAreRegistrations /\ RememberedUntilOverrun
  BY DEF TableInv
<1> QED
  BY <1>1, <1>2, <1>3, TypeCorrect, TableCorrect, PTL DEF Spec

(* A sweep with a clock value read before the lock was taken changes the   *)
(* answer of no lookup.                                                    *)
THEOREM SweepsAreInvisible == Spec => SweepInvisible
<1>1. TypeOK /\ CleanupSweeps =>
        \A k \in Keys : Find(entries', k, now') <=> Find(entries, k, now)
  <2> SUFFICES ASSUME TypeOK, CleanupSweeps, NEW k \in Keys
               PROVE  Find(entries', k, now') <=> Find(entries, k, now)
    OBVIOUS
  <2>1. PICK at \in sweeping : entries' = Cleanup(entries, at)
    BY DEF CleanupSweeps
  <2> DEFINE K == {x \in DOMAIN entries : at - entries[x] > Forget}
  <2>2. DOMAIN entries' = DOMAIN entries \ K /\ \A x \in DOMAIN entries' : entries'[x] = entries[x]
    BY <2>1 DEF Cleanup, Delete, Restrict
  <2>3. now' = now /\ at \in 0..now /\ now \in Nat
    BY NodeTableAssumption DEF CleanupSweeps, TypeOK
  <2>4. k \in K => ~Find(entries, k, now)
    BY <2>3, DupTableAssumption DEF Find, TypeOK
  <2> QED BY <2>2, <2>3, <2>4 DEF Find
<1> QED
  BY <1>1, TypeCorrect, PTL DEF SweepInvisible

-----------------------------------------------------------------------------
(* The table of internal/nodetable implements the window it promises: each *)
(* lock section is a lookup, registration, flush or tick of SeenWindow, or *)
(* invisible to it.                                                        *)
THEOREM TableKeepsPromise == Spec => PromiseKept
<1>1. Init => Promise!Init
  BY DEF Init
<1>2. TypeOK /\ TableInv /\ [Next]_vars => [Promise!Next]_(Promise!svars)
  <2> SUFFICES ASSUME TypeOK, TableInv, [Next]_vars
               PROVE  Promise!Next \/ UNCHANGED Promise!svars
    OBVIOUS
  <2> USE DEF Promise!Keys, Keys
  <2>1. ASSUME NEW k \in Keys, FindFrame(k) PROVE Promise!Lookup(k)
    <3>1. Find(entries, k, now) \in BOOLEAN
      BY DEF Find
    <3>2. Find(entries, k, now) => Promise!Remembered(k)
      BY DEF TableInv, EntriesAreRegistrations, Promise!Remembered, Find
    <3>3. Promise!Remembered(k) /\ ~Promise!Overrun(k) => Find(entries, k, now)
      BY DEF TableInv, RememberedUntilOverrun, EntriesAreRegistrations,
         Promise!Remembered, Find
    <3> QED BY <2>1, <3>1, <3>2, <3>3 DEF FindFrame, Promise!Lookup
  <2>2. ASSUME NEW k \in Keys, Registered(k) PROVE Promise!Register(k)
    BY <2>2 DEF Registered, Promise!Register, Assign
  <2>3. ASSUME NEW mac \in Macs, FlushPeer(mac) PROVE Promise!Flush(mac)
    BY <2>3 DEF FlushPeer, Promise!Flush
  <2>4. CASE CleanupReadsClock \/ CleanupSweeps \/ UNCHANGED vars
    BY <2>4 DEF CleanupReadsClock, CleanupSweeps, vars, Promise!svars
  <2>5. CASE Tick
    BY <2>5 DEF Tick, Promise!Tick, Promise!Next
  <2> QED
    BY <2>1, <2>2, <2>3, <2>4, <2>5 DEF Next, AcceptFrame, RegisterFrame, Promise!Next
<1>3. TableInv <=> SizeBound /\ EntriesAreRegistrations /\ RememberedUntilOverrun
  BY DEF TableInv
<1> QED
  BY <1>1, <1>2, <1>3, TypeCorrect, TableCorrect, PTL DEF Spec, PromiseKept, Promise!Spec
=============================================================================
