--------------------------- MODULE DiscardProofs ----------------------------
(***************************************************************************)
(* That no frame is taken for a duplicate of another.  The frames of a     *)
(* station are numbered in the order in which it sent them; two with one   *)
(* number are at least SeqMod apart in that order, so that a station which *)
(* does not send SeqMod frames within the time that a number may be under  *)
(* way and in a table is safe.                                             *)
(***************************************************************************)
EXTENDS OrderProofs, FiniteSetTheorems

(* Half a minute for a leaf. *)
USE SMTT(30)

LEMMA ModApart ==
    ASSUME NEW M \in Nat \ {0}, NEW a \in Nat, NEW b \in Nat, a < b, a % M = b % M
    PROVE  b - a >= M
<1>1. PICK q, s : q = a \div M /\ s = b \div M
  BY Zenon
<1>2. /\ q \in Int /\ a = M * q + (a % M) /\ a % M \in 0..(M - 1)
      /\ s \in Int /\ b = M * s + (b % M)
  BY <1>1
<1>3. PICK e \in Int : e = s - q
  BY <1>2
<1>4. b - a = M * e
  <2>1. M * s = M * q + M * e
    BY <1>2, <1>3
  <2>. QED BY <1>2, <2>1
<1>5. e <= 0 => M * e <= 0
  BY <1>3
<1>6. e >= 1 => M * e >= M
  BY <1>3
<1>. QED
  BY <1>3, <1>4, <1>5, <1>6

(* A finite set with elements of more than M ranks. *)
LEMMA Crowded ==
    ASSUME NEW S, IsFiniteSet(S), NEW M \in Nat, NEW a \in Nat, NEW rank,
           \A k \in a..(a + M) : \E x \in S : rank[x] = k
    PROVE  Cardinality(S) > M
<1>1. PICK T : T = {x \in S : rank[x] \in a..(a + M)}
  BY Zenon
<1>2. PICK g : g = [x \in T |-> rank[x]]
  BY Zenon
<1>3. IsFiniteSet(T) /\ Cardinality(T) <= Cardinality(S)
  BY <1>1, FS_Subset, Zenon
<1>4. g \in Surjection(T, a..(a + M))
  BY <1>1, <1>2, Zenon DEF Surjection
<1>5. Cardinality(a..(a + M)) <= Cardinality(T)
  BY <1>3, <1>4, FS_Surjection, Zenon
<1>6. Cardinality(a..(a + M)) = M + 1
  BY FS_Interval
<1>7. Cardinality(S) \in Nat /\ Cardinality(T) \in Nat
  BY <1>3, FS_CardinalityType, Zenon
<1>. QED
  BY <1>3, <1>5, <1>6, <1>7

(* Finitely many frames have been sent. *)
FiniteInv == IsFiniteSet(DOMAIN sentAt)

LEMMA FiniteNext ==
    ASSUME TypeInv, FiniteInv, [Next]_vars
    PROVE  FiniteInv'
<1>1. CASE sentAt' = sentAt
  BY <1>1, Zenon DEF FiniteInv
<1>2. ASSUME NEW id \in Ids, StationSends(id) PROVE FiniteInv'
  <2>1. PICK S, T : S = DOMAIN sentAt /\ T = DOMAIN sentAt'
    BY Zenon
  <2>2. T = S \cup {id}
    BY <1>2, <2>1, SendStep, Zenon
  <2>3. IsFiniteSet(S)
    BY <2>1, Zenon DEF FiniteInv
  <2>4. IsFiniteSet(S \cup {id})
    BY ONLY <2>3, FS_AddElement, Zenon
  <2>. QED BY <2>1, <2>2, <2>4, Zenon DEF FiniteInv
<1>3. ASSUME NEW n \in Nodes, SendSupervisionFrame(n) \/ periodicCleanup(n) \/ Restart(n)
      PROVE  sentAt' = sentAt
  BY <1>3, Zenon DEF SendSupervisionFrame, periodicCleanup, Restart
<1>4. ASSUME NEW i \in Ingress, Lose(i) PROVE sentAt' = sentAt
  BY <1>4, Zenon DEF Lose
<1>5. Tick \/ UNCHANGED vars => sentAt' = sentAt
  BY Zenon DEF Tick, vars
<1>6. ASSUME NEW n \in Nodes, NEW p \in Ports, handleFrame(n, p) PROVE sentAt' = sentAt
  <2>1. PICK f, node, out : Handling(n, p, f, node, out)
    BY <1>6, HandleFacts, Zenon
  <2>. QED BY <2>1, Zenon DEF Handling, Handles, Finish
<1>. QED
  BY <1>1, <1>2, <1>3, <1>4, <1>5, <1>6, Zenon DEF Next

-----------------------------------------------------------------------------
(* No frame is mistaken for a duplicate in a state with such numbers.      *)

LEMMA SameNumber ==
    ASSUME OneRedBoxEach, TypeInv, HistoryInv, FiniteInv, Paced,
           NEW num, NEW rank \in [Ids -> Nat], NEW cnt \in [Macs -> Nat], OrderInv(num, rank, cnt),
           NEW x \in Given, NEW y \in Given, Sends[x].src = Sends[y].src, num[x] = num[y],
           rank[x] < rank[y], now - sentAt[x] <= Forget + MaxDelay
    PROVE  FALSE
<1>1. PICK n, s, a, b : n = Sends[x].node /\ s = Sends[x].src /\ a = rank[x] /\ b = rank[y]
  BY Zenon
<1>2. x \in Ids /\ y \in Ids /\ Sends[y].node = n /\ GivesNumbers(n) /\ n \in Nodes /\ s \in Macs
  BY <1>1, NetworkAssumption, Zenon DEF OneRedBoxEach, Given, Macs
<1>3. a \in Nat /\ b \in Nat /\ a < b /\ b < cnt[s] /\ cnt[s] \in Nat
  BY <1>1, <1>2, Zenon DEF OrderInv
<1>4. PICK c : c = st[n].start
  BY Zenon
<1>5. c \in Nat /\ SeqMod \in Nat \ {0}
  BY <1>2, <1>4, NumberFacts DEF TypeInv, NodeOK, Number
<1>6. (c + a) % SeqMod = (c + b) % SeqMod
  BY <1>1, <1>2, <1>4 DEF OrderInv
<1>7. b - a >= SeqMod
  <2>1. PICK u \in Nat, v \in Nat : u = c + a /\ v = c + b
    BY <1>3, <1>5
  <2>2. u < v /\ u % SeqMod = v % SeqMod
    BY <1>3, <1>5, <1>6, <2>1
  <2>3. v - u >= SeqMod
    BY <1>5, <2>1, <2>2, ModApart, Zenon
  <2>. QED BY <1>3, <1>5, <2>1, <2>3
<1>8. PICK S : S = {id \in DOMAIN sentAt : Sends[id].src = s /\ now - sentAt[id] <= Forget + MaxDelay}
  BY Zenon
<1>9. IsFiniteSet(S) /\ Cardinality(S) <= SeqMod
  <2>1. S \subseteq DOMAIN sentAt
    BY <1>8, Zenon
  <2>. QED BY <1>1, <1>2, <1>8, <2>1, FS_Subset, Zenon DEF FiniteInv, Paced
<1>10. ASSUME NEW k \in a..(a + SeqMod) PROVE \E z \in S : rank[z] = k
  <2>1. k \in Nat /\ k < cnt[s] /\ (k = a \/ a < k)
    BY <1>3, <1>5, <1>7
  <2>2. PICK z \in Given : Sends[z].src = s /\ rank[z] = k
    BY <1>1, <1>2, <2>1 DEF OrderInv
  <2>3. z \in Ids /\ z \in DOMAIN sentAt
    BY <2>2, NetworkAssumption, Zenon DEF Given, HistoryInv
  <2>4. sentAt[x] <= sentAt[z]
    <3>1. CASE k = a
      <4>1. z = x
        BY <1>1, <2>2, <3>1 DEF OrderInv
      <4>2. sentAt[x] \in Nat
        BY <2>3, <4>1 DEF TypeInv
      <4>. QED BY <4>1, <4>2
    <3>2. CASE a < k
      BY <1>1, <2>2, <3>2, Zenon DEF OrderInv, Before
    <3>. QED BY <2>1, <3>1, <3>2, Zenon
  <2>5. sentAt[z] \in Nat /\ sentAt[x] \in Nat /\ now \in Nat /\ Forget \in Nat /\ MaxDelay \in Nat
    <3>1. x \in DOMAIN sentAt
      BY <1>2, NetworkAssumption, Zenon DEF Given, HistoryInv
    <3>. QED BY <2>3, <3>1, NetworkAssumption, DupTableAssumption DEF TypeInv
  <2>6. now - sentAt[z] <= Forget + MaxDelay
    BY <2>4, <2>5
  <2>. QED BY <1>8, <2>2, <2>3, <2>6, Zenon
<1>11. Cardinality(S) > SeqMod
  <2>1. SeqMod \in Nat
    BY <1>5, Zenon
  <2>2. \A k \in a..(a + SeqMod) : \E z \in S : rank[z] = k
    BY <1>10, Zenon
  <2>. QED BY ONLY <1>3, <1>9, <2>1, <2>2, Crowded, Zenon
<1>. QED
  BY <1>5, <1>9, <1>11, FS_CardinalityType

LEMMA DiscardOK ==
    ASSUME WellWired, OneRedBoxEach, TypeInv, TransitInv, HistoryInv, FiniteInv, MarkInv, Ordered, Paced
    PROVE  NoFreshDiscard
<1>1. SUFFICES ASSUME NEW n \in Nodes, NEW p \in Ports, Waiting(n, p), NEW f, f = Arrived(n, p), f.id # NoId,
                      HasTag(f) \/ HasRCT(f), Seen(n, f.src, SeqOf(f))
               PROVE  f.id \in handled[n]
  BY Zenon DEF NoFreshDiscard
<1>2. PICK num \in [Ids -> Number], rank \in [Ids -> Nat], cnt \in [Macs -> Nat] :
         NumberInv(num) /\ TableInv(num) /\ OrderInv(num, rank, cnt)
  BY Zenon DEF Ordered
<1>3. PICK y : y = f.id
  BY Zenon
<1>4. <<n, p>> \in Ingress /\ wire \in Wires /\ wire[<<n, p>>] # <<>>
  BY <1>1, Zenon DEF Ingress, TypeInv, Waiting
<1>5. f \in Frame /\ f \in Range(wire[<<n, p>>])
  <2>1. PICK w : w = [wire EXCEPT ![<<n, p>>] = Tail(@)]
    BY Zenon
  <2>. QED BY <1>1, <1>4, <2>1, TakeFacts, Zenon DEF Arrived
<1>6. f \in FrameType /\ y \in Ids /\ f.src = Sends[y].src /\ f.src \notin NodeMacs
  BY <1>1, <1>3, <1>5, Zenon DEF Frame, Genuine, WellWired, NodeMacs
<1>7. y \in Given /\ Bears(f, num[y]) /\ now - sentAt[y] <= MaxDelay
  BY <1>1, <1>2, <1>3, <1>4, <1>5, Zenon DEF MarkInv, NumberInv, TransitInv
<1>8. SeqOf(f) = num[y]
  BY <1>1, <1>6, <1>7, BearsTrailer, Zenon DEF SeqOf, Bears
<1>9. PICK key : key = <<f.src, num[y]>> /\ key[1] = f.src
  <2>1. PICK key : key = <<f.src, num[y]>>
    BY Zenon
  <2>2. key[1] = f.src
    BY <2>1, Zenon
  <2>. QED BY <2>1, <2>2, Zenon
<1>10. key \in DOMAIN st[n].dup /\ now - st[n].dup[key] <= Forget
  <2>1. Find(st[n].dup, key, now)
    BY <1>1, <1>8, <1>9, Zenon DEF Seen
  <2>2. TableOK(st[n].dup, now)
    BY Zenon DEF TypeInv, NodeOK
  <2>. QED BY <2>1, <2>2, Zenon DEF Find
<1>11. PICK x \in Given : x \in handled[n] /\ key = <<Sends[x].src, num[x]>> /\ st[n].dup[key] - sentAt[x] <= MaxDelay
  BY <1>2, <1>6, <1>9, <1>10, Zenon DEF TableInv
<1>12. Sends[x].src = Sends[y].src /\ num[x] = num[y]
  BY <1>6, <1>9, <1>11
<1>13. /\ x \in Ids /\ sentAt[x] \in Nat /\ sentAt[y] \in Nat /\ now \in Nat /\ st[n].dup[key] \in Nat
       /\ Forget \in Nat /\ MaxDelay \in Nat /\ rank[x] \in Nat /\ rank[y] \in Nat
  <2>1. x \in DOMAIN sentAt /\ y \in DOMAIN sentAt /\ x \in Ids /\ y \in Ids
    BY <1>7, NetworkAssumption, Zenon DEF Given, HistoryInv
  <2>2. TableOK(st[n].dup, now)
    BY Zenon DEF TypeInv, NodeOK
  <2>3. st[n].dup[key] \in Nat
    BY <1>10, <2>2 DEF TableOK
  <2>. QED BY <1>2, <2>1, <2>3, NetworkAssumption, DupTableAssumption DEF TypeInv
<1>14. CASE x = y
  BY <1>3, <1>11, <1>14, Zenon
<1>15. CASE rank[x] = rank[y]
  BY <1>2, <1>7, <1>12, <1>14, <1>15, Zenon DEF OrderInv
<1>16. CASE rank[x] < rank[y]
  <2>1. now - sentAt[x] <= Forget + MaxDelay
    BY <1>10, <1>11, <1>13
  <2>. QED BY <1>2, <1>7, <1>12, <1>16, <2>1, SameNumber, Zenon
<1>17. CASE rank[y] < rank[x]
  <2>1. now - sentAt[y] <= Forget + MaxDelay
    BY <1>7, <1>13
  <2>. QED BY <1>2, <1>7, <1>12, <1>17, <2>1, SameNumber, Zenon
<1>. QED
  BY <1>13, <1>15, <1>16, <1>17

(* No frame is taken for a duplicate of another, in any network that is    *)
(* wired as WellWired says and in which each station has one RedBox, even  *)
(* as the sequence numbers wrap (SequenceManager.Next, dupTable.Find): if  *)
(* no node restarts and no station sends more than SeqMod frames within    *)
(* the time that a frame may be under way and its number in a table.       *)
THEOREM FreshFramesAccepted ==
    ASSUME WellWired, OneRedBoxEach
    PROVE  Spec => []NoFreshDiscard
<1>1. TypeInv /\ RawInv /\ TransitInv /\ NumberingInv /\ [Next]_vars => NumberingInv'
  BY NumberingNext, Zenon
<1>2. TypeInv /\ FiniteInv /\ [Next]_vars => FiniteInv'
  BY FiniteNext, Zenon
<1>3. Init => FiniteInv
  BY FS_EmptySet, Zenon DEF Init, EmptyMap, FiniteInv
<1>4. TypeInv /\ TransitInv /\ FiniteInv /\ NumberingInv => NoFreshDiscard
  <2>1. ~(NoRestart /\ Paced) => NoFreshDiscard
    BY Zenon DEF NoFreshDiscard
  <2>. QED BY <2>1, DiscardOK, Zenon DEF NumberingInv
<1>. QED
  BY <1>1, <1>2, <1>3, <1>4, TypeAlways, RawAlways, TransitAlways, NumberingInit, PTL DEF Spec
=============================================================================
