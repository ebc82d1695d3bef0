---------------------------- MODULE OrderProofs -----------------------------
(***************************************************************************)
(* In which order the RedBoxes number the frames of their stations: in     *)
(* that of their sending, counting from the start value modulo SeqMod; and *)
(* which of these numbers a table may hold.                                *)
(***************************************************************************)
EXTENDS NumberProofs

(* Half a minute for a leaf. *)
USE SMTT(30)

(* Arithmetic modulo SeqMod. *)

LEMMA ModUnique ==
    ASSUME NEW M \in Nat \ {0}, NEW q \in Int, NEW r \in 0..(M - 1), NEW a, a = M * q + r
    PROVE  a % M = r
<1>1. PICK d : d = a \div M
  BY Zenon
<1>2. a \in Int /\ d \in Int /\ a = M * d + (a % M) /\ a % M \in 0..(M - 1)
  BY <1>1
<1>3. PICK e \in Int : e = q - d
  BY <1>2
<1>4. M * q = M * d + M * e
  BY <1>2, <1>3
<1>5. PICK x, y, z : x = M * q /\ y = M * d /\ z = M * e /\ x \in Int /\ y \in Int /\ z \in Int
  BY <1>2, <1>3
<1>6. PICK t : t = a % M
  BY Zenon
<1>7. a = x + r /\ a = y + t /\ x = y + z /\ t \in 0..(M - 1)
  BY <1>2, <1>4, <1>5, <1>6, Zenon
<1>8. z = t - r
  BY <1>5, <1>7
<1>9. (e >= 1 => z >= M) /\ (e <= -1 => z <= -M) /\ (e = 0 => z = 0)
  BY <1>3, <1>5
<1>. QED
  BY <1>3, <1>6, <1>7, <1>8, <1>9

LEMMA ModNext ==
    ASSUME NEW M \in Nat \ {0}, NEW a \in Nat
    PROVE  ((a % M) + 1) % M = (a + 1) % M
<1>1. PICK q : q = a \div M
  BY Zenon
<1>2. q \in Int /\ a = M * q + (a % M) /\ a % M \in 0..(M - 1)
  BY <1>1
<1>3. PICK r, b, c : r = a % M /\ b = a + 1 /\ c = r + 1
  BY Zenon
<1>4. CASE r + 1 < M
  <2>1. c \in 0..(M - 1) /\ b = M * q + c /\ c = M * 0 + c
    BY <1>2, <1>3, <1>4
  <2>2. b % M = c
    BY <1>2, <2>1, ModUnique
  <2>3. c % M = c
    BY <2>1, ModUnique
  <2>. QED BY <1>3, <2>2, <2>3, Zenon
<1>5. CASE r + 1 = M
  <2>1. PICK s, u, z : s = q + 1 /\ u = 1 /\ z = 0
    BY Zenon
  <2>2. s \in Int /\ u \in Int /\ z \in 0..(M - 1) /\ M * s = M * q + M /\ M * u = M
    BY <1>2, <2>1
  <2>3. PICK x, y : x = M * q /\ y = M * s /\ x \in Int /\ y = x + M
    BY <1>2, <2>2
  <2>4. a = x + r /\ r \in Int
    BY <1>2, <1>3, <2>3
  <2>5. b = y /\ c = M
    BY <1>3, <1>5, <2>3, <2>4
  <2>6. b = M * s + z /\ c = M * u + z
    BY <2>1, <2>2, <2>3, <2>5
  <2>7. b % M = z
    BY <2>2, <2>6, ModUnique
  <2>8. c % M = z
    BY <2>2, <2>6, ModUnique
  <2>. QED BY <1>3, <2>7, <2>8, Zenon
<1>. QED
  BY <1>2, <1>3, <1>4, <1>5

-----------------------------------------------------------------------------
(* The numbers that the RedBoxes have given.                               *)

GivesNumbers(n) == ServesStation(n) /\ (IsHSRNode(n) \/ Cfg[n].trailer)

Given == {id \in Ids : GivesNumbers(Sends[id].node) /\ id \in handled[Sends[id].node]}

HistoryInv == \A n \in Nodes : handled[n] \subseteq DOMAIN sentAt \cup {NoId}

(* What waits at the interlink of node n was sent in that order, after all *)
(* that the node has taken from there, and no node has handled it.         *)
InOrder(q) ==
    \A j, k \in DOMAIN q :
        j < k /\ q[j].id # NoId /\ q[k].id # NoId => sentAt[q[j].id] <= sentAt[q[k].id]

WaitsAt(n) ==
    /\ InOrder(wire[<<n, "interlink">>])
    /\ \A f \in Range(wire[<<n, "interlink">>]) : f.id # NoId =>
          /\ \A m \in Nodes : f.id \notin handled[m]
          /\ \A x \in Given : Sends[x].node = n => sentAt[x] <= sentAt[f.id]

WaitInv == \A n \in Nodes : ServesStation(n) => WaitsAt(n)

(* Only a frame that was given a number has a mark. *)
MarkInv ==
    \A i \in Ingress : \A f \in Range(wire[i]) :
        f.id # NoId /\ (HasTag(f) \/ HasRCT(f)) => f.id \in Given

(* A table holds numbers of frames that the node has handled, and not long *)
(* after they were sent.                                                   *)
TableInv(num) ==
    \A n \in Nodes : \A key \in DOMAIN st[n].dup : key[1] \notin NodeMacs =>
        \E x \in Given : /\ x \in handled[n] /\ key = <<Sends[x].src, num[x]>>
                         /\ st[n].dup[key] - sentAt[x] <= MaxDelay

(* The frames of a station are numbered in the order of their sending,     *)
(* from the start value of its RedBox: frame x was the rank[x]-th.         *)
Before(rank, x, y) == rank[x] < rank[y] /\ Sends[x].src = Sends[y].src

OrderInv(num, rank, cnt) ==
    /\ \A x \in Given : /\ rank[x] < cnt[Sends[x].src]
                        /\ num[x] = (st[Sends[x].node].start + rank[x]) % SeqMod
    /\ \A x, y \in Given : Before(rank, x, y) => sentAt[x] <= sentAt[y]
    /\ \A x, y \in Given : Sends[x].src = Sends[y].src /\ rank[x] = rank[y] => x = y
    /\ \A id \in Ids : GivesNumbers(Sends[id].node) =>
          /\ NextSeq(st[Sends[id].node], Sends[id].src)
               = (st[Sends[id].node].start + cnt[Sends[id].src]) % SeqMod
          /\ \A k \in Nat : k < cnt[Sends[id].src] =>
                \E x \in Given : Sends[x].src = Sends[id].src /\ rank[x] = k

Ordered ==
    \E num \in [Ids -> Number], rank \in [Ids -> Nat], cnt \in [Macs -> Nat] :
        NumberInv(num) /\ TableInv(num) /\ OrderInv(num, rank, cnt)

NumberingInv == NoRestart => FreshInv /\ HistoryInv /\ WaitInv /\ MarkInv /\ Ordered

-----------------------------------------------------------------------------

LEMMA NumberingInit == Init => NumberingInv
<1>1. SUFFICES ASSUME Init PROVE FreshInv /\ HistoryInv /\ WaitInv /\ MarkInv /\ Ordered
  BY Zenon DEF NumberingInv
<1>2. \A i \in Ingress : wire[i] = <<>> /\ Range(wire[i]) = {}
  BY <1>1, EmptyRange, Zenon DEF Init
<1>3. \A n \in Nodes : /\ handled[n] = {} /\ st[n].dup = EmptyMap /\ st[n].seqs = EmptyMap
                       /\ <<n, "interlink">> \in Ingress
  BY <1>1 DEF Init, Ingress, Ports, NewNode
<1>4. DOMAIN EmptyMap = {}
  BY Zenon DEF EmptyMap
<1>5. FreshInv
  BY <1>1, FreshInit, Zenon
<1>6. HistoryInv
  BY <1>1, <1>3, <1>4, Zenon DEF Init, HistoryInv
<1>7. Given = {}
  BY <1>3, NetworkAssumption, Zenon DEF Given
<1>8. WaitInv
  BY <1>2, <1>3 DEF WaitInv, WaitsAt, InOrder
<1>9. MarkInv
  BY <1>2, Zenon DEF MarkInv
<1>10. PICK num, rank, cnt : num = [id \in Ids |-> 0] /\ rank = [id \in Ids |-> 0] /\ cnt = [m \in Macs |-> 0]
  BY Zenon
<1>11. num \in [Ids -> Number] /\ rank \in [Ids -> Nat] /\ cnt \in [Macs -> Nat]
  BY <1>10, NumberFacts, Zenon
<1>12. NumberInv(num) /\ TableInv(num)
  BY <1>2, <1>3, <1>4, Zenon DEF NumberInv, TableInv
<1>13. OrderInv(num, rank, cnt)
  <2>1. SUFFICES ASSUME NEW id \in Ids, NEW n, n = Sends[id].node, NEW s, s = Sends[id].src
                 PROVE  /\ NextSeq(st[n], s) = (st[n].start + cnt[s]) % SeqMod
                        /\ ~\E k \in Nat : k < cnt[s]
    BY <1>7, Zenon DEF OrderInv
  <2>2. n \in Nodes /\ s \in Macs /\ cnt[s] = 0
    BY <1>10, <2>1, NetworkAssumption, Zenon DEF Macs
  <2>3. st[n].start \in Number /\ NextSeq(st[n], s) = st[n].start
    BY <1>1, <1>3, <1>4, <2>2, TypeInit, Zenon DEF TypeInv, NodeOK, NextSeq
  <2>4. (st[n].start + 0) % SeqMod = st[n].start
    BY <2>3, NumberFacts DEF Number
  <2>. QED BY <2>2, <2>3, <2>4
<1>. QED
  BY <1>5, <1>6, <1>8, <1>9, <1>11, <1>12, <1>13, Zenon DEF Ordered

-----------------------------------------------------------------------------
(* What handling a frame does to the numbers and the tables.               *)

SameNext(id) ==
    NextSeq(st'[Sends[id].node], Sends[id].src) = NextSeq(st[Sends[id].node], Sends[id].src)

(* No number is given. *)
GivesNone == Given' = Given /\ \A id \in Ids : GivesNumbers(Sends[id].node) => SameNext(id)

(* Node n gives frame f of its station the next number. *)
Gives(n, p, f) ==
    /\ p = "interlink" /\ GivesNumbers(n) /\ f.id \in Ids
    /\ Sends[f.id].node = n /\ f.src = Sends[f.id].src
    /\ f.id \notin Given /\ Given' = Given \cup {f.id}
    /\ NextSeq(st'[n], f.src) = (NextSeq(st[n], f.src) + 1) % SeqMod
    /\ \A id \in Ids : GivesNumbers(Sends[id].node) /\ Sends[id].src # f.src => SameNext(id)

LEMMA NextCounted ==
    ASSUME NEW n, NEW f, NEW node, node.seqs = Counted(n, f), node.start = st[n].start, NEW mac
    PROVE  NextSeq(node, mac) = IF mac = f.src THEN (NextSeq(st[n], f.src) + 1) % SeqMod
                                ELSE NextSeq(st[n], mac)
<1>1. PICK s, v : s = node.seqs /\ v = (NextSeq(st[n], f.src) + 1) % SeqMod
  BY Zenon
<1>2. /\ DOMAIN s = DOMAIN st[n].seqs \cup {f.src} /\ s[f.src] = v
      /\ \A x \in DOMAIN st[n].seqs : x # f.src => s[x] = st[n].seqs[x]
  BY <1>1, Zenon DEF Counted, Assign
<1>. QED
  BY <1>1, <1>2, Zenon DEF NextSeq

(* The frame that a node takes from its own station. *)
LEMMA OwnFrame ==
    ASSUME WellWired, TypeInv, RawInv, WaitInv, NEW n \in Nodes, ServesStation(n),
           NEW f \in Range(wire[<<n, "interlink">>]), f \in Frame, f.id # NoId
    PROVE  /\ f.id \in Ids /\ f.src = Sends[f.id].src /\ Sends[f.id].node = n
           /\ f.id \notin Given /\ \A m \in Nodes : f.id \notin handled[m]
<1>1. f.id \in Ids /\ f.src = Sends[f.id].src
  BY Zenon DEF Frame, Genuine
<1>2. Sends[f.id].node = n
  BY Zenon DEF RawInv, WellWired
<1>3. \A m \in Nodes : f.id \notin handled[m]
  BY Zenon DEF WaitInv, WaitsAt
<1>. QED
  BY <1>1, <1>2, <1>3, Zenon DEF Given

LEMMA NumbersGiven ==
    ASSUME WellWired, TypeInv, RawInv, WaitInv, MarkInv, NEW n \in Nodes, NEW p \in Ports,
           NEW f, NEW node, NEW out, Handling(n, p, f, node, out)
    PROVE  Gives(n, p, f) \/ GivesNone
<1>1. /\ f \in Frame /\ f \in Range(wire[<<n, p>>]) /\ <<n, p>> \in Ingress
      /\ Effect(n, p, f, node, out) /\ node.start = st[n].start /\ st' = [st EXCEPT ![n] = node]
  BY Zenon DEF Handling, Handles, Finish
<1>2. /\ st'[n] = node /\ \A m \in Nodes : m # n => st'[m] = st[m]
      /\ handled \in [Nodes -> SUBSET (Ids \cup {NoId})] /\ NoId \notin Ids
      /\ \A id \in Ids : Sends[id].node \in Nodes
  BY <1>1, NetworkAssumption, Zenon DEF TypeInv
<1>3. ASSUME node.seqs = st[n].seqs PROVE \A id \in Ids : SameNext(id)
  <2>1. SUFFICES ASSUME NEW m \in Nodes PROVE \A mac : NextSeq(st'[m], mac) = NextSeq(st[m], mac)
    BY <1>2, Zenon DEF SameNext
  <2>2. st'[m].seqs = st[m].seqs /\ st'[m].start = st[m].start
    BY <1>1, <1>2, <1>3, Zenon
  <2>. QED BY <2>2, Zenon DEF NextSeq
<1>4. ASSUME handled' = handled PROVE Given' = Given
  BY <1>4, Zenon DEF Given
<1>5. ASSUME Accepts(n, f), f.id = NoId \/ f.id \in Given \/ ~GivesNumbers(n) PROVE Given' = Given
  <2>1. ASSUME NEW id \in Ids, GivesNumbers(Sends[id].node)
        PROVE  id \in handled'[Sends[id].node] <=> id \in handled[Sends[id].node]
    <3>1. handled'[n] = handled[n] \cup {f.id} /\ \A m \in Nodes : m # n => handled'[m] = handled[m]
      BY <1>2, <1>5, Zenon DEF Accepts
    <3>2. ASSUME id = f.id, Sends[id].node = n PROVE id \in handled[n]
      BY <1>2, <1>5, <2>1, <3>2, Zenon DEF Given
    <3>. QED BY <1>2, <2>1, <3>1, <3>2, Zenon
  <2>. QED BY <2>1, Zenon DEF Given
<1>6. ASSUME node.seqs = Counted(n, f), f.id = NoId PROVE \A id \in Ids : SameNext(id)
  <2>1. f.src \in NodeMacs
    BY <1>1, <1>2, <1>6, Zenon DEF Frame, Genuine
  <2>2. \A id \in Ids : Sends[id].src # f.src
    BY <2>1, Zenon DEF WellWired, NodeMacs
  <2>3. \A mac : mac # f.src => NextSeq(node, mac) = NextSeq(st[n], mac)
    BY <1>1, <1>6, NextCounted
  <2>. QED BY <1>2, <2>2, <2>3, Zenon DEF SameNext
<1>7. ASSUME node.seqs = Counted(n, f), f.id # NoId, p = "interlink", GivesNumbers(n), Accepts(n, f)
      PROVE  Gives(n, p, f)
  <2>1. /\ f.id \in Ids /\ f.src = Sends[f.id].src /\ Sends[f.id].node = n /\ f.id \notin Given
    BY <1>1, <1>7, OwnFrame, Zenon DEF GivesNumbers
  <2>2. handled'[n] = handled[n] \cup {f.id} /\ \A m \in Nodes : m # n => handled'[m] = handled[m]
    BY <1>2, <1>7, Zenon DEF Accepts
  <2>3. Given' = Given \cup {f.id}
    <3>1. \A id \in Ids : id \in handled'[Sends[id].node] <=> id \in handled[Sends[id].node] \/ id = f.id
      BY <1>2, <2>1, <2>2, Zenon
    <3>. QED BY <1>7, <2>1, <3>1, Zenon DEF Given
  <2>4. /\ NextSeq(node, f.src) = (NextSeq(st[n], f.src) + 1) % SeqMod
        /\ \A mac : mac # f.src => NextSeq(node, mac) = NextSeq(st[n], mac)
    BY <1>1, <1>7, NextCounted
  <2>5. \A id \in Ids : Sends[id].src # f.src => SameNext(id)
    BY <1>2, <2>4, Zenon DEF SameNext
  <2>. QED BY <1>2, <1>7, <2>1, <2>3, <2>4, <2>5, Zenon DEF Gives
<1>8. ASSUME HasTag(f) \/ HasRCT(f), f.id # NoId PROVE f.id \in Given
  BY <1>1, <1>8, Zenon DEF MarkInv
<1>9. CASE Ignored(n, p, f, node, out) \/ Noted(n, p, f, node, out)
  BY <1>3, <1>4, <1>9, Zenon DEF Ignored, Noted, GivesNone
<1>10. CASE SentOut(n, p, f, node, out)
  <2>1. ServesStation(n) /\ ~IsHSRNode(n) /\ p = "interlink" /\ Accepts(n, f)
    BY <1>10, Zenon DEF SentOut, ServesStation, IsHSRNode, IsHSRHSR, IsHSRPRPCoupling
  <2>2. CASE Cfg[n].trailer
    <3>1. node.seqs = Counted(n, f) /\ GivesNumbers(n)
      BY <1>10, <2>1, <2>2, Zenon DEF SentOut, GivesNumbers
    <3>. QED BY <1>5, <1>6, <1>7, <2>1, <3>1, Zenon DEF GivesNone
  <2>3. CASE ~Cfg[n].trailer
    <3>1. node.seqs = st[n].seqs /\ ~GivesNumbers(n)
      BY <1>10, <2>1, <2>3, Zenon DEF SentOut, GivesNumbers
    <3>. QED BY <1>3, <1>5, <2>1, <3>1, Zenon DEF GivesNone
  <2>. QED BY <2>2, <2>3, Zenon
<1>11. CASE Checked(n, p, f, node, out)
  <2>1. node.seqs = st[n].seqs /\ Accepts(n, f) /\ (HasTag(f) \/ HasRCT(f))
    BY <1>11, Zenon DEF Checked, Marked
  <2>. QED BY <1>3, <1>5, <1>8, <2>1, Zenon DEF GivesNone
<1>12. CASE Entered(n, p, f, node, out)
  <2>1. /\ IsHSRNode(n) /\ p = "interlink" /\ Accepts(n, f) /\ InjectionSeq(n, f) # {}
        /\ node.seqs = IF ServesStation(n) THEN Counted(n, f) ELSE st[n].seqs
    BY <1>12, Zenon DEF Entered
  <2>2. CASE ServesStation(n)
    <3>1. node.seqs = Counted(n, f) /\ GivesNumbers(n)
      BY <2>1, <2>2, Zenon DEF GivesNumbers
    <3>. QED BY <1>5, <1>6, <1>7, <2>1, <3>1, Zenon DEF GivesNone
  <2>3. CASE ~ServesStation(n)
    <3>1. node.seqs = st[n].seqs /\ ~GivesNumbers(n)
      BY <2>1, <2>3, Zenon DEF GivesNumbers
    <3>. QED BY <1>3, <1>5, <2>1, <3>1, Zenon DEF GivesNone
  <2>. QED BY <2>2, <2>3, Zenon
<1>. QED
  BY <1>1, <1>9, <1>10, <1>11, <1>12, Zenon DEF Effect

-----------------------------------------------------------------------------
(* The tables. *)

LEMMA DeleteEntries ==
    ASSUME NEW d, NEW K, NEW g, g = Delete(d, K)
    PROVE  \A x \in DOMAIN g : x \in DOMAIN d /\ g[x] = d[x]
BY Zenon DEF Delete, Restrict

LEMMA InsertEntries ==
    ASSUME NEW d, NEW k, NEW t, NEW u \in InsertWithExpiry(d, k, t)
    PROVE  \A x \in DOMAIN u : (x \in DOMAIN d /\ u[x] = d[x]) \/ (x = k /\ u[x] = t)
<1>1. PICK g : g = Assign(d, k, t)
  BY Zenon
<1>2. \A x \in DOMAIN g : (x \in DOMAIN d /\ g[x] = d[x]) \/ (x = k /\ g[x] = t)
  BY <1>1, Zenon DEF Assign
<1>3. u = g \/ \E old : u = Delete(g, {old})
  BY <1>1, Zenon DEF InsertWithExpiry
<1>4. \A x \in DOMAIN u : x \in DOMAIN g /\ u[x] = g[x]
  BY <1>3, DeleteEntries, Zenon
<1>. QED
  BY <1>2, <1>4, Zenon

(* An entry that node n makes when it has taken frame f. *)
LEMMA NewEntry ==
    ASSUME WellWired, TypeInv, RawInv, WaitInv, MarkInv,
           NEW n \in Nodes, NEW p \in Ports, NEW f, NEW node, NEW out, Handling(n, p, f, node, out),
           NEW num \in [Ids -> Number], NumberInv(num), NEW new, new = Renumbered(n, p, f, num),
           NEW key \in DOMAIN node.dup, key[1] \notin NodeMacs,
           ~(key \in DOMAIN st[n].dup /\ node.dup[key] = st[n].dup[key])
    PROVE  /\ f.id \in Ids /\ f.id \in Given' /\ f.id \in handled'[n]
           /\ key = <<Sends[f.id].src, new[f.id]>> /\ node.dup[key] = now
<1>1. /\ f \in Frame /\ f \in Range(wire[<<n, p>>]) /\ <<n, p>> \in Ingress
      /\ Effect(n, p, f, node, out)
  BY Zenon DEF Handling, Handles
<1>2. /\ handled \in [Nodes -> SUBSET (Ids \cup {NoId})] /\ f \in FrameType
  BY <1>1, Zenon DEF TypeInv, Frame
<1>3. ASSUME NEW seq, node.dup \in InsertWithExpiry(st[n].dup, <<f.src, seq>>, now)
      PROVE  key = <<f.src, seq>> /\ node.dup[key] = now /\ f.id \in Ids /\ f.src = Sends[f.id].src
  <2>1. key = <<f.src, seq>> /\ node.dup[key] = now
    <3>1. PICK d, u, k : d = st[n].dup /\ u = node.dup /\ k = <<f.src, seq>>
      BY Zenon
    <3>2. u \in InsertWithExpiry(d, k, now) /\ key \in DOMAIN u /\ ~(key \in DOMAIN d /\ u[key] = d[key])
      BY <1>3, <3>1, Zenon
    <3>3. key = k /\ u[key] = now
      BY <3>2, InsertEntries
    <3>. QED BY <3>1, <3>3, Zenon
  <2>2. f.src \notin NodeMacs
    BY <2>1, Zenon
  <2>. QED BY <1>1, <2>1, <2>2, Zenon DEF Frame, Genuine
<1>4. ASSUME Accepts(n, f) PROVE f.id \in handled'[n]
  BY <1>2, <1>4, Zenon DEF Accepts
<1>5. ASSUME HasTag(f) \/ HasRCT(f), f.id \in Ids
      PROVE  f.id \in Given /\ Bears(f, num[f.id]) /\ ~(p = "interlink" /\ ServesStation(n))
  <2>1. f.id # NoId
    BY <1>5, NetworkAssumption, Zenon
  <2>2. f.id \in Given /\ Bears(f, num[f.id])
    BY <1>1, <1>5, <2>1, Zenon DEF MarkInv, NumberInv
  <2>3. ~(p = "interlink" /\ ServesStation(n))
    BY <1>1, <2>1, <2>2, OwnFrame, Zenon
  <2>. QED BY <2>2, <2>3, Zenon
<1>6. Given \subseteq Given'
  BY NumbersGiven, Zenon DEF Gives, GivesNone
<1>7. ~Ignored(n, p, f, node, out) /\ ~SentOut(n, p, f, node, out)
  BY Zenon DEF Ignored, SentOut
<1>8. ~Noted(n, p, f, node, out)
  <2>1. \A x \in DOMAIN FlushFor(st[n].dup, f.src) :
           x \in DOMAIN st[n].dup /\ FlushFor(st[n].dup, f.src)[x] = st[n].dup[x]
    BY DeleteEntries DEF FlushFor
  <2>. QED BY <2>1, Zenon DEF Noted
<1>9. CASE Checked(n, p, f, node, out)
  <2>1. /\ node.dup \in InsertWithExpiry(st[n].dup, <<f.src, SeqAt(n, f)>>, now)
        /\ Accepts(n, f) /\ Marked(n, f)
    BY <1>9, Zenon DEF Checked
  <2>2. key = <<f.src, SeqAt(n, f)>> /\ node.dup[key] = now /\ f.id \in Ids /\ f.src = Sends[f.id].src
    BY <1>3, <2>1, Zenon
  <2>3. f.id \in Given /\ Bears(f, num[f.id]) /\ ~(p = "interlink" /\ ServesStation(n))
    BY <1>5, <2>1, <2>2, Zenon DEF Marked
  <2>4. SeqAt(n, f) = num[f.id] /\ new = num
    BY <1>2, <2>1, <2>3, BearsTrailer, Zenon DEF SeqAt, Marked, Bears, Renumbered
  <2>. QED BY <1>4, <1>6, <2>1, <2>2, <2>3, <2>4, Zenon
<1>10. CASE Entered(n, p, f, node, out)
  <2>1. PICK seq \in InjectionSeq(n, f) : node.dup \in InsertWithExpiry(st[n].dup, <<f.src, seq>>, now)
    BY <1>10, Zenon DEF Entered
  <2>2. IsHSRNode(n) /\ ~IsHSRHSR(n) /\ p = "interlink" /\ Accepts(n, f)
    BY <1>10, Zenon DEF Entered
  <2>3. key = <<f.src, seq>> /\ node.dup[key] = now /\ f.id \in Ids /\ f.src = Sends[f.id].src
    BY <1>3, <2>1, Zenon
  <2>4. CASE ServesStation(n)
    <3>1. f.id # NoId
      BY <2>3, NetworkAssumption, Zenon
    <3>2. seq = NextSeq(st[n], f.src)
      BY <2>1, <2>4, Zenon DEF InjectionSeq, ServesStation
    <3>3. new[f.id] = seq
      BY <2>2, <2>3, <2>4, <3>1, <3>2, Zenon DEF Renumbered
    <3>4. Sends[f.id].node = n /\ f.id \in handled'[n]
      BY <1>1, <1>4, <2>2, <2>4, <3>1, OwnFrame, Zenon
    <3>5. f.id \in Given'
      BY <2>2, <2>3, <2>4, <3>4, Zenon DEF Given, GivesNumbers
    <3>. QED BY <2>3, <3>3, <3>4, <3>5, Zenon
  <2>5. CASE ~ServesStation(n)
    <3>1. HasRCT(f) /\ seq = Trailer(f).seq
      BY <2>1, <2>2, <2>5, Zenon DEF InjectionSeq, ServesStation
    <3>2. f.id \in Given /\ Bears(f, num[f.id])
      BY <1>5, <2>3, <3>1, Zenon
    <3>3. seq = num[f.id] /\ new = num
      BY <1>2, <2>5, <3>1, <3>2, BearsTrailer, Zenon DEF Renumbered
    <3>. QED BY <1>4, <1>6, <2>2, <2>3, <3>2, <3>3, Zenon
  <2>. QED BY <2>4, <2>5, Zenon
<1>. QED
  BY <1>1, <1>7, <1>8, <1>9, <1>10, Zenon DEF Effect

(* A number that was given stays the frame's. *)
LEMMA GivenKept ==
    ASSUME WellWired, TypeInv, RawInv, WaitInv, NEW n \in Nodes, NEW p \in Ports, NEW f, NEW node, NEW out,
           Handling(n, p, f, node, out),
           NEW num, NEW new, new = Renumbered(n, p, f, num)
    PROVE  \A x \in Given : new[x] = num[x]
<1>1. f \in Frame /\ f \in Range(wire[<<n, p>>])
  BY Zenon DEF Handling
<1>2. p = "interlink" /\ ServesStation(n) /\ f.id # NoId => f.id \notin Given
  BY <1>1, OwnFrame, Zenon
<1>. QED
  BY <1>2 DEF Renumbered

LEMMA TableHandle ==
    ASSUME WellWired, TypeInv, RawInv, WaitInv, MarkInv, TransitInv, HistoryInv,
           NEW n \in Nodes, NEW p \in Ports, NEW f, NEW node, NEW out, Handling(n, p, f, node, out),
           NEW num \in [Ids -> Number], NumberInv(num), TableInv(num),
           NEW new, new = Renumbered(n, p, f, num)
    PROVE  TableInv(new)'
<1>1. SUFFICES ASSUME NEW m \in Nodes, NEW key \in DOMAIN st'[m].dup, key[1] \notin NodeMacs
               PROVE  \E x \in Given' : /\ x \in handled'[m] /\ key = <<Sends[x].src, new[x]>>
                                        /\ st'[m].dup[key] - sentAt'[x] <= MaxDelay
  BY Zenon DEF TableInv
<1>2. /\ f \in Frame /\ f \in Range(wire[<<n, p>>]) /\ <<n, p>> \in Ingress
      /\ st' = [st EXCEPT ![n] = node] /\ sentAt' = sentAt
      /\ handled' \in {handled, [handled EXCEPT ![n] = @ \cup {f.id}]}
  BY Zenon DEF Handling, Handles, Finish
<1>3. /\ st'[n] = node /\ \A k \in Nodes : k # n => st'[k] = st[k]
      /\ \A k \in Nodes : handled[k] \subseteq handled'[k]
  BY <1>2, Zenon DEF TypeInv
<1>4. Given \subseteq Given'
  BY NumbersGiven, Zenon DEF Gives, GivesNone
<1>5. CASE key \in DOMAIN st[m].dup /\ st'[m].dup[key] = st[m].dup[key]
  <2>1. PICK x \in Given : /\ x \in handled[m] /\ key = <<Sends[x].src, num[x]>>
                           /\ st[m].dup[key] - sentAt[x] <= MaxDelay
    BY <1>1, <1>5, Zenon DEF TableInv
  <2>2. new[x] = num[x]
    BY GivenKept
  <2>. QED BY <1>2, <1>3, <1>4, <1>5, <2>1, <2>2, Zenon
<1>6. CASE ~(key \in DOMAIN st[m].dup /\ st'[m].dup[key] = st[m].dup[key])
  <2>1. m = n
    BY <1>1, <1>3, <1>6, Zenon
  <2>2. /\ f.id \in Ids /\ f.id \in Given' /\ f.id \in handled'[n]
        /\ key = <<Sends[f.id].src, new[f.id]>> /\ st'[m].dup[key] = now
    <3>1. key \in DOMAIN node.dup /\ ~(key \in DOMAIN st[n].dup /\ node.dup[key] = st[n].dup[key])
      BY <1>1, <1>3, <1>6, <2>1, Zenon
    <3>2. /\ f.id \in Ids /\ f.id \in Given' /\ f.id \in handled'[n]
          /\ key = <<Sends[f.id].src, new[f.id]>> /\ node.dup[key] = now
      BY <1>1, <3>1, NewEntry
    <3>. QED BY <1>3, <2>1, <3>2, Zenon
  <2>3. now - sentAt[f.id] <= MaxDelay
    BY <1>2, <2>2, NetworkAssumption, Zenon DEF TransitInv
  <2>. QED BY <1>2, <2>1, <2>2, <2>3, Zenon
<1>. QED
  BY <1>5, <1>6, Zenon

-----------------------------------------------------------------------------
(* The order. *)

SameStarts == \A n \in Nodes : st'[n].start = st[n].start
SentSame == \A x \in Given : sentAt'[x] = sentAt[x]

LEMMA OrderKept ==
    ASSUME GivesNone, SameStarts, SentSame, NEW num, NEW new, NEW rank, NEW cnt,
           OrderInv(num, rank, cnt), \A x \in Given : new[x] = num[x]
    PROVE  OrderInv(new, rank, cnt)'
<1>1. \A id \in Ids : Sends[id].node \in Nodes
  BY NetworkAssumption, Zenon
<1>2. Given' = Given /\ Given \subseteq Ids
  BY Zenon DEF GivesNone, Given
<1>3. \A x \in Given' : /\ rank[x] < cnt[Sends[x].src]
                        /\ new[x] = (st'[Sends[x].node].start + rank[x]) % SeqMod
  BY <1>1, <1>2, Zenon DEF OrderInv, SameStarts
<1>4. \A x, y \in Given' : Before(rank, x, y) => sentAt'[x] <= sentAt'[y]
  BY <1>2, Zenon DEF OrderInv, SentSame
<1>5. \A x, y \in Given' : Sends[x].src = Sends[y].src /\ rank[x] = rank[y] => x = y
  BY <1>2, Zenon DEF OrderInv
<1>6. ASSUME NEW id \in Ids, GivesNumbers(Sends[id].node)
      PROVE  /\ NextSeq(st'[Sends[id].node], Sends[id].src)
                  = (st'[Sends[id].node].start + cnt[Sends[id].src]) % SeqMod
             /\ \A k \in Nat : k < cnt[Sends[id].src] =>
                   \E x \in Given' : Sends[x].src = Sends[id].src /\ rank[x] = k
  BY <1>1, <1>2, <1>6, Zenon DEF OrderInv, SameStarts, GivesNone, SameNext
<1>. QED
  BY <1>3, <1>4, <1>5, <1>6, Zenon DEF OrderInv, Before

LEMMA OrderGives ==
    ASSUME OneRedBoxEach, TypeInv, NEW n \in Nodes, NEW p, NEW f, Gives(n, p, f), SameStarts,
           sentAt' = sentAt, NEW num \in [Ids -> Number],
           NEW rank \in [Ids -> Nat], NEW cnt \in [Macs -> Nat], OrderInv(num, rank, cnt),
           \A x \in Given : Sends[x].node = n => sentAt[x] <= sentAt[f.id],
           NEW new, new = Renumbered(n, p, f, num)
    PROVE  \E rank2 \in [Ids -> Nat], cnt2 \in [Macs -> Nat] : OrderInv(new, rank2, cnt2)'
<1>. PICK rank2, cnt2 : rank2 = [rank EXCEPT ![f.id] = cnt[f.src]] /\ cnt2 = [cnt EXCEPT ![f.src] = @ + 1]
  BY Zenon
<1>. new = [num EXCEPT ![f.id] = NextSeq(st[n], f.src)]
  BY NetworkAssumption, Zenon DEF Gives, GivesNumbers, Renumbered
<1>1. PICK y, s, c, M, b : y = f.id /\ s = f.src /\ c = cnt[s] /\ M = SeqMod /\ b = st[n].start
  BY Zenon
<1>2. /\ y \in Ids /\ Sends[y].node = n /\ Sends[y].src = s /\ s \in Macs /\ GivesNumbers(n)
      /\ y \notin Given /\ Given' = Given \cup {y} /\ Given \subseteq Ids
      /\ \A id \in Ids : Sends[id].src \in Macs /\ Sends[id].node \in Nodes
      /\ \A id \in Ids : Sends[id].src = s => Sends[id].node = n
  <2>1. /\ y \in Ids /\ Sends[y].node = n /\ Sends[y].src = s /\ GivesNumbers(n)
        /\ y \notin Given /\ Given' = Given \cup {y}
    BY <1>1, Zenon DEF Gives
  <2>2. \A id \in Ids : Sends[id].src \in Macs /\ Sends[id].node \in Nodes
    BY NetworkAssumption, Zenon DEF Macs
  <2>3. Given \subseteq Ids /\ \A id \in Ids : Sends[id].src = s => Sends[id].node = n
    BY <2>1, Zenon DEF Given, OneRedBoxEach
  <2>. QED BY <2>1, <2>2, <2>3, Zenon
<1>3. c \in Nat /\ M \in Nat \ {0} /\ b \in Nat /\ NextSeq(st[n], s) = (b + c) % M
  <2>1. b \in Number
    BY <1>1, Zenon DEF TypeInv, NodeOK
  <2>2. NextSeq(st[n], s) = (b + c) % M
    <3>1. y \in Ids /\ GivesNumbers(Sends[y].node) /\ Sends[y].node = n /\ Sends[y].src = s
      BY <1>2, Zenon
    <3>2. NextSeq(st[Sends[y].node], Sends[y].src) = (st[Sends[y].node].start + cnt[Sends[y].src]) % SeqMod
      BY <3>1, Zenon DEF OrderInv
    <3>. QED BY <1>1, <3>1, <3>2, Zenon
  <2>. QED BY <1>1, <1>2, <2>1, <2>2, NumberFacts DEF Number
<1>4. /\ rank2 \in [Ids -> Nat] /\ rank2[y] = c /\ \A x \in Ids : x # y => rank2[x] = rank[x]
      /\ cnt2 \in [Macs -> Nat] /\ cnt2[s] = c + 1 /\ \A m \in Macs : m # s => cnt2[m] = cnt[m]
      /\ new[y] = (b + c) % M /\ \A x \in Ids : x # y => new[x] = num[x]
  <2>1. /\ rank2 = [rank EXCEPT ![y] = c] /\ cnt2 = [cnt EXCEPT ![s] = c + 1]
        /\ new = [num EXCEPT ![y] = (b + c) % M]
    BY <1>1, <1>3, Zenon
  <2>2. rank2 \in [Ids -> Nat] /\ rank2[y] = c /\ \A x \in Ids : x # y => rank2[x] = rank[x]
    <3>1. y \in Ids /\ c \in Nat /\ rank2 = [rank EXCEPT ![y] = c] /\ rank \in [Ids -> Nat]
      BY <1>2, <1>3, <2>1, Zenon
    <3>. QED BY ONLY <3>1, Zenon
  <2>3. c + 1 \in Nat
    BY <1>3
  <2>4. cnt2 \in [Macs -> Nat] /\ cnt2[s] = c + 1 /\ \A m \in Macs : m # s => cnt2[m] = cnt[m]
    <3>1. s \in Macs /\ c + 1 \in Nat /\ cnt2 = [cnt EXCEPT ![s] = c + 1] /\ cnt \in [Macs -> Nat]
      BY <1>2, <2>1, <2>3, Zenon
    <3>. QED BY ONLY <3>1, Zenon
  <2>5. new[y] = (b + c) % M /\ \A x \in Ids : x # y => new[x] = num[x]
    BY <1>2, <2>1, Zenon
  <2>. QED BY <2>2, <2>4, <2>5, Zenon
<1>5. \A m \in Macs : cnt[m] \in Nat /\ cnt[m] <= cnt2[m]
  BY <1>1, <1>3, <1>4
<1>6. \A x \in Given : /\ x \in Ids /\ x # y /\ rank2[x] = rank[x] /\ new[x] = num[x]
                       /\ rank[x] \in Nat /\ rank[x] < cnt[Sends[x].src]
  BY <1>2, <1>4, Zenon DEF OrderInv
<1>7. ASSUME NEW x \in Given' PROVE /\ rank2[x] < cnt2[Sends[x].src]
                                    /\ new[x] = (st'[Sends[x].node].start + rank2[x]) % SeqMod
  <2>1. CASE x \in Given
    <3>1. rank2[x] < cnt2[Sends[x].src]
      BY <1>2, <1>5, <1>6, <2>1
    <3>2. new[x] = (st'[Sends[x].node].start + rank2[x]) % SeqMod
      <4>1. num[x] = (st[Sends[x].node].start + rank[x]) % SeqMod
        BY <2>1, Zenon DEF OrderInv
      <4>2. st'[Sends[x].node].start = st[Sends[x].node].start /\ rank2[x] = rank[x] /\ new[x] = num[x]
        BY <1>2, <1>6, <2>1, Zenon DEF SameStarts
      <4>. QED BY <4>1, <4>2, Zenon
    <3>. QED BY <3>1, <3>2, Zenon
  <2>2. CASE x = y
    <3>1. rank2[x] < cnt2[Sends[x].src]
      BY <1>2, <1>3, <1>4, <2>2
    <3>2. st'[Sends[x].node].start = b
      BY <1>1, <1>2, <2>2, Zenon DEF SameStarts
    <3>. QED BY <1>1, <1>4, <2>2, <3>1, <3>2, Zenon
  <2>. QED BY <1>2, <2>1, <2>2, Zenon
<1>8. ASSUME NEW x \in Given', NEW z \in Given', Before(rank2, x, z) PROVE sentAt'[x] <= sentAt'[z]
  <2>1. CASE x \in Given /\ z \in Given
    BY <1>6, <1>8, <2>1, Zenon DEF Before, OrderInv
  <2>2. CASE x \in Given /\ z = y
    BY <1>1, <1>2, <1>8, <2>2, Zenon DEF Before
  <2>3. CASE x = y /\ z \in Given
    <3>1. rank[z] < c /\ c < rank[z] /\ rank[z] \in Nat
      <4>1. Sends[z].src = s /\ rank2[y] < rank2[z]
        BY <1>2, <1>8, <2>3, Zenon DEF Before
      <4>2. rank2[y] = c /\ cnt[s] = c
        BY <1>1, <1>4, Zenon
      <4>3. rank2[z] = rank[z] /\ rank[z] \in Nat /\ rank[z] < cnt[Sends[z].src]
        BY <1>6, <2>3, Zenon
      <4>. QED BY ONLY <4>1, <4>2, <4>3, Zenon
    <3>. QED BY <1>3, <3>1
  <2>4. CASE x = y /\ z = y
    BY <1>3, <1>4, <1>8, <2>4 DEF Before
  <2>. QED BY <1>2, <2>1, <2>2, <2>3, <2>4, Zenon
<1>9. ASSUME NEW x \in Given', NEW z \in Given', Sends[x].src = Sends[z].src, rank2[x] = rank2[z]
      PROVE  x = z
  <2>1. CASE x \in Given /\ z \in Given
    <3>1. rank[x] = rank[z]
      BY <1>6, <1>9, <2>1, Zenon
    <3>. QED BY <1>9, <2>1, <3>1, Zenon DEF OrderInv
  <2>2. ASSUME NEW w \in Given, Sends[w].src = s, rank2[w] = rank2[y] PROVE FALSE
    <3>1. rank[w] < c /\ c = rank[w]
      <4>1. rank2[y] = c /\ cnt[s] = c
        BY <1>1, <1>4, Zenon
      <4>2. rank2[w] = rank[w] /\ rank[w] < cnt[Sends[w].src]
        BY <1>6, <2>2, Zenon
      <4>3. Sends[w].src = s /\ rank2[w] = rank2[y]
        BY <2>2, Zenon
      <4>. QED BY ONLY <4>1, <4>2, <4>3, Zenon
    <3>. QED BY <1>3, <3>1
  <2>. QED BY <1>2, <1>9, <2>1, <2>2, Zenon
<1>10. ASSUME NEW id \in Ids, GivesNumbers(Sends[id].node)
       PROVE  /\ NextSeq(st'[Sends[id].node], Sends[id].src)
                   = (st'[Sends[id].node].start + cnt2[Sends[id].src]) % SeqMod
              /\ \A k \in Nat : k < cnt2[Sends[id].src] =>
                    \E x \in Given' : Sends[x].src = Sends[id].src /\ rank2[x] = k
  <2>1. st'[Sends[id].node].start = st[Sends[id].node].start
    BY <1>2, Zenon DEF SameStarts
  <2>2. ASSUME NEW k \in Nat, k < cnt[Sends[id].src]
        PROVE  \E x \in Given' : Sends[x].src = Sends[id].src /\ rank2[x] = k
    <3>1. PICK x \in Given : Sends[x].src = Sends[id].src /\ rank[x] = k
      BY <1>10, <2>2, Zenon DEF OrderInv
    <3>. QED BY <1>2, <1>6, <3>1, Zenon
  <2>3. CASE Sends[id].src # s
    <3>1. SameNext(id)
      BY <1>1, <1>10, <2>3, Zenon DEF Gives
    <3>2. cnt2[Sends[id].src] = cnt[Sends[id].src]
      BY <1>2, <1>4, <2>3, Zenon
    <3>. QED BY <1>10, <2>1, <2>2, <3>1, <3>2, Zenon DEF OrderInv, SameNext
  <2>4. CASE Sends[id].src = s
    <3>1. Sends[id].node = n /\ NextSeq(st'[n], s) = (((b + c) % M) + 1) % M
      BY <1>1, <1>2, <1>3, <2>4, Zenon DEF Gives
    <3>2. PICK a : a = b + c
      BY Zenon
    <3>3. a \in Nat /\ a + 1 = b + (c + 1)
      BY <1>3, <3>2
    <3>4. ((a % M) + 1) % M = (a + 1) % M
      BY <1>3, <3>3, ModNext, Zenon
    <3>5. NextSeq(st'[n], s) = (b + cnt2[s]) % M
      BY <1>4, <3>1, <3>2, <3>3, <3>4, Zenon
    <3>6. ASSUME NEW k \in Nat, k < cnt2[s]
          PROVE  \E x \in Given' : Sends[x].src = s /\ rank2[x] = k
      <4>1. k < c \/ k = c
        BY <1>3, <1>4, <3>6
      <4>2. CASE k < c
        BY <1>1, <2>2, <2>4, <4>2, Zenon
      <4>3. CASE k = c
        <5>1. y \in Given' /\ Sends[y].src = s /\ rank2[y] = k
          BY <1>2, <1>4, <4>3, Zenon
        <5>. QED BY <5>1, Zenon
      <4>. QED BY <4>1, <4>2, <4>3, Zenon
    <3>. QED BY <1>1, <2>1, <2>4, <3>1, <3>5, <3>6, Zenon
  <2>. QED BY <2>3, <2>4, Zenon
<1>11. OrderInv(new, rank2, cnt2)'
  BY <1>7, <1>8, <1>9, <1>10, Zenon DEF OrderInv, Before
<1>. QED
  BY <1>4, <1>11, Zenon

-----------------------------------------------------------------------------
(* A node handles a frame. *)

(* A frame gets its first mark where it gets its number. *)
LEMMA HopMarks ==
    ASSUME NEW n, NEW p, NEW f, f.et # "sup", ~HasTag(f), ~HasRCT(f),
           NEW q, NEW g, Hop(n, p, f, q, g), HasTag(g) \/ HasRCT(g)
    PROVE  p = "interlink" /\ GivesNumbers(n)
<1>1. Sent(n, p, f, q, g) \/ Injected(n, p, f, q, g)
  BY Zenon DEF Hop, Bridged, Received, Circled, LeftRing, OtherRing
<1>2. CASE Sent(n, p, f, q, g)
  <2>1. p = "interlink" /\ ~IsHSRNode(n) /\ Cfg[n].trailer
    BY <1>2, Zenon DEF Sent
  <2>2. ServesStation(n)
    BY <2>1, Zenon DEF ServesStation, IsHSRNode, IsHSRHSR, IsHSRPRPCoupling
  <2>. QED BY <2>1, <2>2, Zenon DEF GivesNumbers
<1>3. CASE Injected(n, p, f, q, g)
  <2>1. p = "interlink" /\ IsHSRNode(n) /\ ~IsHSRHSR(n) /\ InjectionSeq(n, f) # {}
    BY <1>3, Zenon DEF Injected
  <2>2. ServesStation(n)
    BY <2>1, Zenon DEF InjectionSeq, ServesStation
  <2>. QED BY <2>1, <2>2, Zenon DEF GivesNumbers
<1>. QED
  BY <1>1, <1>2, <1>3, Zenon

LEMMA MarkHandle ==
    ASSUME WellWired, TypeInv, RawInv, WaitInv, MarkInv,
           NEW n \in Nodes, NEW p \in Ports, NEW f, NEW node, NEW out, Handling(n, p, f, node, out)
    PROVE  MarkInv'
<1>1. /\ f \in Frame /\ f \in Range(wire[<<n, p>>]) /\ <<n, p>> \in Ingress
      /\ Effect(n, p, f, node, out) /\ Spread(n, out)
      /\ \A q \in DOMAIN out : Kin(f, out[q]) /\ Hop(n, p, f, q, out[q])
  BY Zenon DEF Handling, Handles
<1>2. Given \subseteq Given'
  BY NumbersGiven, Zenon DEF Gives, GivesNone
<1>3. SUFFICES ASSUME NEW i \in Ingress, NEW g \in Range(wire'[i]), g.id # NoId, HasTag(g) \/ HasRCT(g)
               PROVE  g.id \in Given'
  BY Zenon DEF MarkInv
<1>4. CASE g \in Range(wire[i])
  BY <1>2, <1>3, <1>4, Zenon DEF MarkInv
<1>5. ASSUME NEW q \in DOMAIN out, g = out[q] PROVE g.id \in Given'
  <2>1. g.id = f.id /\ Hop(n, p, f, q, g)
    BY <1>1, <1>5, Zenon DEF Kin
  <2>2. CASE HasTag(f) \/ HasRCT(f)
    BY <1>1, <1>2, <1>3, <2>1, <2>2, Zenon DEF MarkInv
  <2>3. CASE ~HasTag(f) /\ ~HasRCT(f)
    <3>1. f.id \in Ids /\ f.et = "data"
      BY <1>1, <1>3, <2>1, Zenon DEF Frame, Genuine
    <3>2. p = "interlink" /\ GivesNumbers(n)
      BY <1>3, <2>1, <2>3, <3>1, HopMarks, Zenon
    <3>3. Sends[f.id].node = n
      BY <1>1, <1>3, <2>1, <3>2, OwnFrame, Zenon DEF GivesNumbers
    <3>4. Accepts(n, f)
      <4>1. ~Ignored(n, p, f, node, out)
        BY <1>5, SilenceFacts, Zenon DEF Ignored
      <4>2. ~Noted(n, p, f, node, out)
        BY <3>1, Zenon DEF Noted
      <4>. QED BY <1>1, <4>1, <4>2, Zenon DEF Effect, SentOut, Checked, Entered
    <3>5. f.id \in handled'[n]
      BY <3>4, Zenon DEF Accepts, TypeInv
    <3>. QED BY <2>1, <3>1, <3>2, <3>3, <3>5, Zenon DEF Given
  <2>. QED BY <2>2, <2>3, Zenon
<1>. QED
  BY <1>1, <1>4, <1>5, Zenon DEF Spread

LEMMA HistoryHandle ==
    ASSUME TypeInv, HistoryInv,
           NEW n \in Nodes, NEW p \in Ports, NEW f, NEW node, NEW out, Handling(n, p, f, node, out)
    PROVE  HistoryInv'
<1>1. /\ f \in Range(wire[<<n, p>>]) /\ <<n, p>> \in Ingress /\ sentAt' = sentAt
      /\ handled' \in {handled, [handled EXCEPT ![n] = @ \cup {f.id}]}
  BY Zenon DEF Handling, Handles, Finish
<1>2. f.id \in DOMAIN sentAt \cup {NoId}
  BY <1>1, Zenon DEF TypeInv
<1>3. \A m \in Nodes : handled'[m] \subseteq handled[m] \cup {f.id}
  BY <1>1, Zenon DEF TypeInv
<1>. QED
  BY <1>1, <1>2, <1>3, Zenon DEF HistoryInv

LEMMA OrderTail ==
    ASSUME NEW q \in Seq(Frame), q # <<>>, InOrder(q)
    PROVE  /\ InOrder(Tail(q))
           /\ \A g \in Range(Tail(q)) :
                 g.id # NoId /\ Head(q).id # NoId => sentAt[Head(q).id] <= sentAt[g.id]
<1>. /\ 1 \in DOMAIN q /\ Head(q) = q[1]
     /\ \A k \in DOMAIN Tail(q) : k \in Nat \ {0} /\ k + 1 \in DOMAIN q /\ Tail(q)[k] = q[k + 1]
  OBVIOUS
<1>. PICK r : r = Tail(q)
  BY Zenon
<1>1. InOrder(r)
  <2>. SUFFICES ASSUME NEW j \in DOMAIN r, NEW k \in DOMAIN r, j < k, r[j].id # NoId, r[k].id # NoId
                PROVE  sentAt[r[j].id] <= sentAt[r[k].id]
    BY Zenon DEF InOrder
  <2>1. j + 1 < k + 1 /\ r[j] = q[j + 1] /\ r[k] = q[k + 1] /\ j + 1 \in DOMAIN q /\ k + 1 \in DOMAIN q
    OBVIOUS
  <2>. QED BY <2>1, Zenon DEF InOrder
<1>2. ASSUME NEW g \in Range(r), g.id # NoId, Head(q).id # NoId PROVE sentAt[Head(q).id] <= sentAt[g.id]
  <2>1. PICK k \in DOMAIN r : g = r[k]
    BY Zenon DEF Range
  <2>2. g = q[k + 1] /\ k + 1 \in DOMAIN q /\ 1 < k + 1
    BY <2>1
  <2>. QED BY <1>2, <2>2, Zenon DEF InOrder
<1>. QED
  BY <1>1, <1>2, Zenon

LEMMA WaitHandle ==
    ASSUME WellWired, TypeInv, RawInv, FreshInv, WaitInv, MarkInv,
           NEW n \in Nodes, NEW p \in Ports, NEW f, NEW node, NEW out, Handling(n, p, f, node, out)
    PROVE  WaitInv'
<1>1. /\ f \in Range(wire[<<n, p>>]) /\ f = Head(wire[<<n, p>>]) /\ wire[<<n, p>>] # <<>>
      /\ sentAt' = sentAt /\ handled' \in {handled, [handled EXCEPT ![n] = @ \cup {f.id}]}
  BY Zenon DEF Handling, Handles, Finish
<1>2. \A k \in Nodes : handled'[k] \subseteq handled[k] \cup {f.id}
  BY <1>1, Zenon DEF TypeInv
<1>3. SUFFICES ASSUME NEW m \in Nodes, ServesStation(m) PROVE WaitsAt(m)'
  BY Zenon DEF WaitInv
<1>4. PICK j : j = <<m, "interlink">>
  BY Zenon
<1>5. /\ wire'[j] = IF j = <<n, p>> THEN Tail(wire[j]) ELSE wire[j]
      /\ Range(wire'[j]) \subseteq Range(wire[j])
      /\ \A g \in Range(wire'[j]) : g.id # NoId => g.id # f.id
  BY <1>3, <1>4, TakenOnce
<1>6. WaitsAt(m) /\ InOrder(wire[j]) /\ wire[j] \in Seq(Frame)
  BY <1>3, <1>4, Zenon DEF WaitInv, WaitsAt, TypeInv, Wires, Ingress, Ports
<1>7. j = <<n, p>> => /\ InOrder(wire'[j])
                      /\ \A g \in Range(wire'[j]) : g.id # NoId /\ f.id # NoId => sentAt[f.id] <= sentAt[g.id]
  <2>1. CASE j = <<n, p>>
    <3>1. PICK r : r = wire[j]
      BY Zenon
    <3>2. r \in Seq(Frame) /\ r # <<>> /\ InOrder(r) /\ f = Head(r) /\ wire'[j] = Tail(r)
      BY <1>1, <1>5, <1>6, <2>1, <3>1, Zenon
    <3>. QED BY <3>2, OrderTail, Zenon
  <2>. QED BY <2>1, Zenon
<1>8. InOrder(wire'[j])
  BY <1>5, <1>6, <1>7, Zenon
<1>9. ASSUME NEW g \in Range(wire'[j]), g.id # NoId, NEW x \in Given', Sends[x].node = m
      PROVE  sentAt[x] <= sentAt[g.id]
  <2>1. CASE x \in Given
    BY <1>4, <1>5, <1>6, <1>9, <2>1, Zenon DEF WaitsAt
  <2>2. CASE x \notin Given
    <3>1. Gives(n, p, f) /\ x = f.id
      BY <1>9, <2>2, NumbersGiven, Zenon DEF Gives, GivesNone
    <3>2. j = <<n, p>> /\ f.id # NoId
      BY <1>4, <1>9, <3>1, NetworkAssumption, Zenon DEF Gives
    <3>. QED BY <1>7, <1>9, <3>1, <3>2, Zenon
  <2>. QED BY <2>1, <2>2, Zenon
<1>10. ASSUME NEW g \in Range(wire'[j]), g.id # NoId, NEW k \in Nodes PROVE g.id \notin handled'[k]
  BY <1>2, <1>4, <1>5, <1>6, <1>10, Zenon DEF WaitsAt
<1>. QED
  BY <1>1, <1>4, <1>8, <1>9, <1>10, Zenon DEF WaitsAt, InOrder

LEMMA OrderedHandle ==
    ASSUME WellWired, OneRedBoxEach, TypeInv, RawInv, TransitInv, FreshInv, HistoryInv, WaitInv, MarkInv,
           Ordered, NEW n \in Nodes, NEW p \in Ports, NEW f, NEW node, NEW out, Handling(n, p, f, node, out)
    PROVE  Ordered'
<1>1. PICK num \in [Ids -> Number], rank \in [Ids -> Nat], cnt \in [Macs -> Nat] :
         NumberInv(num) /\ TableInv(num) /\ OrderInv(num, rank, cnt)
  BY Zenon DEF Ordered
<1>2. PICK new : new = Renumbered(n, p, f, num)
  BY Zenon
<1>3. new \in [Ids -> Number] /\ NumberInv(new)'
  BY <1>1, <1>2, NumberHandle, Zenon
<1>4. TableInv(new)'
  BY <1>1, <1>2, TableHandle, Zenon
<1>5. \A x \in Given : new[x] = num[x]
  BY <1>2, GivenKept
<1>6. f \in Range(wire[<<n, p>>]) /\ sentAt' = sentAt /\ SameStarts
  <2>1. st' = [st EXCEPT ![n] = node] /\ node.start = st[n].start
    BY Zenon DEF Handling, Handles, Finish
  <2>2. \A m \in Nodes : st'[m].start = st[m].start
    BY <2>1, Zenon DEF TypeInv
  <2>. QED BY <2>2, Zenon DEF Handling, Handles, Finish, SameStarts
<1>7. CASE GivesNone
  <2>1. OrderInv(new, rank, cnt)'
    BY <1>1, <1>5, <1>6, <1>7, OrderKept, Zenon DEF SentSame
  <2>. QED BY <1>1, <1>3, <1>4, <2>1, Zenon DEF Ordered
<1>8. CASE Gives(n, p, f)
  <2>1. p = "interlink" /\ ServesStation(n) /\ f.id # NoId
    BY <1>8, NetworkAssumption, Zenon DEF Gives, GivesNumbers
  <2>2. \A x \in Given : Sends[x].node = n => sentAt[x] <= sentAt[f.id]
    BY <1>6, <2>1, Zenon DEF WaitInv, WaitsAt
  <2>3. \E rank2 \in [Ids -> Nat], cnt2 \in [Macs -> Nat] : OrderInv(new, rank2, cnt2)'
    BY <1>1, <1>2, <1>6, <1>8, <2>2, OrderGives, Zenon
  <2>. QED BY <1>3, <1>4, <2>3, Zenon DEF Ordered
<1>. QED
  BY <1>7, <1>8, NumbersGiven, Zenon

-----------------------------------------------------------------------------
(* A step in which no node handles a frame. *)

Undisturbed ==
    /\ handled' = handled
    /\ \A n \in Nodes : /\ st'[n].seqs = st[n].seqs /\ st'[n].start = st[n].start
                        /\ \A key \in DOMAIN st'[n].dup :
                              key \in DOMAIN st[n].dup /\ st'[n].dup[key] = st[n].dup[key]

LEMMA UndisturbedSteps ==
    ASSUME TypeInv, [Next]_vars, boots' = boots, \A n \in Nodes, p \in Ports : ~handleFrame(n, p)
    PROVE  Undisturbed
<1>1. CASE st' = st /\ handled' = handled
  BY <1>1, Zenon DEF Undisturbed
<1>2. ASSUME NEW n \in Nodes, NEW node, st' = [st EXCEPT ![n] = node], handled' = handled,
             node.seqs = st[n].seqs, node.start = st[n].start,
             \A key \in DOMAIN node.dup : key \in DOMAIN st[n].dup /\ node.dup[key] = st[n].dup[key]
      PROVE  Undisturbed
  <2>1. st'[n] = node /\ \A m \in Nodes : m # n => st'[m] = st[m]
    BY <1>2, Zenon DEF TypeInv
  <2>2. SUFFICES ASSUME NEW m \in Nodes
                 PROVE  /\ st'[m].seqs = st[m].seqs /\ st'[m].start = st[m].start
                        /\ \A key \in DOMAIN st'[m].dup :
                              key \in DOMAIN st[m].dup /\ st'[m].dup[key] = st[m].dup[key]
    BY <1>2, Zenon DEF Undisturbed
  <2>3. CASE m = n
    BY <1>2, <2>1, <2>3
  <2>4. CASE m # n
    BY <2>1, <2>4, Zenon
  <2>. QED BY <2>3, <2>4, Zenon
<1>3. ASSUME NEW n \in Nodes, SendSupervisionFrame(n) PROVE Undisturbed
  <2>1. PICK seq : st' = [st EXCEPT ![n].supSeq = seq]
    BY <1>3, AnnounceStep, Zenon
  <2>2. PICK node : node = [st[n] EXCEPT !.supSeq = seq]
    BY Zenon
  <2>3. st' = [st EXCEPT ![n] = node]
    BY <2>1, <2>2, Zenon
  <2>4. node.seqs = st[n].seqs /\ node.start = st[n].start /\ node.dup = st[n].dup
    BY <2>2, Zenon DEF TypeInv, NodeOK, NodeFields
  <2>5. handled' = handled
    BY <1>3, Zenon DEF SendSupervisionFrame
  <2>. QED BY <1>2, <2>3, <2>4, <2>5, Zenon
<1>4. ASSUME NEW n \in Nodes, periodicCleanup(n) PROVE Undisturbed
  <2>1. PICK node : node = cleanupSupervisionSeen([st[n] EXCEPT !.dup = Cleanup(@, now)])
    BY Zenon
  <2>2. st' = [st EXCEPT ![n] = node] /\ handled' = handled
    BY <1>4, <2>1, Zenon DEF periodicCleanup
  <2>3. node.dup = Cleanup(st[n].dup, now) /\ node.seqs = st[n].seqs /\ node.start = st[n].start
    BY <2>1, CleanupFacts, Zenon DEF TypeInv
  <2>4. \A key \in DOMAIN node.dup : key \in DOMAIN st[n].dup /\ node.dup[key] = st[n].dup[key]
    BY <2>3, DeleteEntries DEF Cleanup
  <2>. QED BY <1>2, <2>2, <2>3, <2>4, Zenon
<1>5. ASSUME NEW n \in Nodes, Restart(n) PROVE FALSE
  BY <1>5 DEF Restart, TypeInv
<1>6. ASSUME NEW id \in Ids, StationSends(id) PROVE Undisturbed
  BY <1>1, <1>6, Zenon DEF StationSends
<1>7. ASSUME NEW i \in Ingress, Lose(i) PROVE Undisturbed
  BY <1>1, <1>7, Zenon DEF Lose
<1>8. Tick => Undisturbed
  BY <1>1, Zenon DEF Tick
<1>9. UNCHANGED vars => Undisturbed
  BY <1>1, Zenon DEF vars
<1>. QED
  BY <1>3, <1>4, <1>5, <1>6, <1>7, <1>8, <1>9, Zenon DEF Next

LEMMA GivenSent == ASSUME HistoryInv PROVE Given \subseteq DOMAIN sentAt
<1>1. \A id \in Ids : Sends[id].node \in Nodes /\ id # NoId
  BY NetworkAssumption, Zenon
<1>. QED
  BY <1>1, Zenon DEF HistoryInv, Given

LEMMA MarkQuiet ==
    ASSUME MarkInv, Quiet, Undisturbed
    PROVE  MarkInv'
<1>1. Given' = Given
  BY Zenon DEF Undisturbed, Given
<1>2. SUFFICES ASSUME NEW i \in Ingress, NEW g \in Range(wire'[i]), g.id # NoId, HasTag(g) \/ HasRCT(g)
               PROVE  g.id \in Given'
  BY Zenon DEF MarkInv
<1>3. CASE g \in Range(wire[i])
  BY <1>1, <1>2, <1>3, Zenon DEF MarkInv
<1>4. ASSUME g.id \in Ids, g = StationFrame(g.id) PROVE FALSE
  BY <1>2, <1>4, StationFrameFacts, Zenon DEF HasTag, HasRCT
<1>. QED
  BY <1>2, <1>3, <1>4, Zenon DEF Quiet

LEMMA OrderedQuiet ==
    ASSUME TypeInv, HistoryInv, Ordered, Quiet, Undisturbed, [Next]_vars
    PROVE  Ordered'
<1>1. PICK num \in [Ids -> Number], rank \in [Ids -> Nat], cnt \in [Macs -> Nat] :
         NumberInv(num) /\ TableInv(num) /\ OrderInv(num, rank, cnt)
  BY Zenon DEF Ordered
<1>2. Given' = Given /\ SentSame
  <2>1. \A x \in Given : sentAt'[x] = sentAt[x]
    BY GivenSent, SentKept, Zenon
  <2>. QED BY <2>1, Zenon DEF Undisturbed, Given, SentSame
<1>3. NumberInv(num)'
  <2>1. SUFFICES ASSUME NEW i \in Ingress, NEW g \in Range(wire'[i]), g.id # NoId PROVE Bears(g, num[g.id])
    BY Zenon DEF NumberInv
  <2>2. CASE g \in Range(wire[i])
    BY <1>1, <2>1, <2>2, Zenon DEF NumberInv
  <2>3. CASE g.id \in Ids /\ g = StationFrame(g.id)
    <3>1. g.hsr = <<>> /\ g.rct = <<>>
      BY <2>3, StationFrameFacts, Zenon
    <3>. QED BY <3>1 DEF Bears, HasTag
  <2>. QED BY <2>1, <2>2, <2>3, Zenon DEF Quiet
<1>4. TableInv(num)'
  <2>1. SUFFICES ASSUME NEW n \in Nodes, NEW key \in DOMAIN st'[n].dup, key[1] \notin NodeMacs
                 PROVE  \E x \in Given' : /\ x \in handled'[n] /\ key = <<Sends[x].src, num[x]>>
                                          /\ st'[n].dup[key] - sentAt'[x] <= MaxDelay
    BY Zenon DEF TableInv
  <2>2. key \in DOMAIN st[n].dup /\ st'[n].dup[key] = st[n].dup[key] /\ handled' = handled
    BY <2>1, Zenon DEF Undisturbed
  <2>3. PICK x \in Given : /\ x \in handled[n] /\ key = <<Sends[x].src, num[x]>>
                           /\ st[n].dup[key] - sentAt[x] <= MaxDelay
    BY <1>1, <2>1, <2>2, Zenon DEF TableInv
  <2>. QED BY <1>2, <2>2, <2>3, Zenon DEF SentSame
<1>5. SameStarts /\ GivesNone
  <2>1. SameStarts
    BY Zenon DEF Undisturbed, SameStarts
  <2>2. \A id \in Ids : SameNext(id)
    <3>1. SUFFICES ASSUME NEW m \in Nodes PROVE \A mac : NextSeq(st'[m], mac) = NextSeq(st[m], mac)
      BY NetworkAssumption, Zenon DEF SameNext
    <3>. QED BY Zenon DEF Undisturbed, NextSeq
  <2>. QED BY <1>2, <2>1, <2>2, Zenon DEF GivesNone
<1>6. OrderInv(num, rank, cnt)'
  BY <1>1, <1>2, <1>5, OrderKept, Zenon
<1>. QED
  BY <1>1, <1>3, <1>4, <1>6, Zenon DEF Ordered

(* What a station does to the queue at an interlink, or a bad connection.  *)
Waited(j) ==
    \/ wire'[j] = wire[j]
    \/ wire[j] # <<>> /\ wire'[j] = Tail(wire[j])
    \/ \E id \in Ids : StationSends(id) /\ wire'[j] = Append(wire[j], StationFrame(id))

LEMMA WaitedSteps ==
    ASSUME WellWired, TypeInv, [Next]_vars, boots' = boots,
           \A n \in Nodes, p \in Ports : ~handleFrame(n, p),
           NEW m \in Nodes, ServesStation(m), NEW j, j = <<m, "interlink">>
    PROVE  Waited(j)
<1>1. j \in Ingress /\ Isolated(j) /\ wire \in Wires
  BY Zenon DEF WellWired, Ingress, Ports, TypeInv
<1>2. CASE wire' = wire
  BY <1>2, Zenon DEF Waited
<1>3. ASSUME NEW n \in Nodes, SendSupervisionFrame(n) PROVE Waited(j)
  <2>1. PICK out : Announces(n, out)
    BY <1>3, AnnounceStep, Zenon
  <2>2. \A q \in DOMAIN out : j \notin Link[<<n, q>>]
    BY <1>1, <2>1, RedBoxAssumption, Zenon DEF Announces, Isolated, Ingress
  <2>. QED BY <1>1, <2>1, <2>2, Zenon DEF Announces, Written, Waited
<1>4. ASSUME NEW n \in Nodes, periodicCleanup(n) PROVE Waited(j)
  BY <1>2, <1>4, Zenon DEF periodicCleanup
<1>5. ASSUME NEW n \in Nodes, Restart(n) PROVE FALSE
  <2>1. boots' = boots + 1
    BY <1>5, Zenon DEF Restart
  <2>2. boots \in Nat
    BY DEF TypeInv
  <2>. QED BY <2>1, <2>2
<1>6. ASSUME NEW id \in Ids, StationSends(id) PROVE Waited(j)
  <2>1. PICK k, f : k = <<Sends[id].node, "interlink">> /\ f = StationFrame(id)
    BY Zenon
  <2>2. wire' = [wire EXCEPT ![k] = Append(@, f)]
    BY <1>6, <2>1, Zenon DEF StationSends
  <2>3. wire'[j] = wire[j] \/ wire'[j] = Append(wire[j], f)
    BY <1>1, <2>2, Zenon DEF Wires
  <2>. QED BY <1>6, <2>1, <2>3, Zenon DEF Waited
<1>7. ASSUME NEW i \in Ingress, Lose(i) PROVE Waited(j)
  <2>1. wire[i] # <<>> /\ wire' = [wire EXCEPT ![i] = Tail(@)]
    BY <1>7, Zenon DEF Lose
  <2>. QED BY <1>1, <2>1, Zenon DEF Wires, Waited
<1>8. Tick => Waited(j)
  BY <1>2, Zenon DEF Tick
<1>9. UNCHANGED vars => Waited(j)
  BY <1>2, Zenon DEF vars
<1>. QED
  BY <1>3, <1>4, <1>5, <1>6, <1>7, <1>8, <1>9, Zenon DEF Next

LEMMA WaitQuiet ==
    ASSUME WellWired, TypeInv, HistoryInv, WaitInv, Undisturbed, [Next]_vars, boots' = boots,
           \A n \in Nodes, p \in Ports : ~handleFrame(n, p)
    PROVE  WaitInv'
<1>1. SUFFICES ASSUME NEW m \in Nodes, ServesStation(m) PROVE WaitsAt(m)'
  BY Zenon DEF WaitInv
<1>2. PICK j : j = <<m, "interlink">>
  BY Zenon
<1>3. PICK q, r : q = wire[j] /\ r = wire'[j]
  BY Zenon
<1>4. j \in Ingress /\ q \in Seq(Frame) /\ InOrder(q) /\ WaitsAt(m)
  BY <1>1, <1>2, <1>3, Zenon DEF WaitInv, WaitsAt, TypeInv, Wires, Ingress, Ports
<1>5. Given' = Given /\ Given \subseteq DOMAIN sentAt /\ handled' = handled
  BY GivenSent, Zenon DEF Undisturbed, Given
<1>6. \A g \in Range(q) : g.id # NoId => g.id \in DOMAIN sentAt
  BY <1>3, <1>4, Zenon DEF TypeInv
<1>7. \A x \in DOMAIN sentAt : sentAt'[x] = sentAt[x]
  BY SentKept, Zenon
<1>8. ASSUME NEW g \in Range(q), g.id # NoId
      PROVE  /\ \A k \in Nodes : g.id \notin handled'[k]
             /\ \A x \in Given' : Sends[x].node = m => sentAt'[x] <= sentAt'[g.id]
  <2>1. sentAt'[g.id] = sentAt[g.id] /\ \A x \in Given' : sentAt'[x] = sentAt[x] /\ x \in Given
    BY <1>5, <1>6, <1>7, <1>8, Zenon
  <2>2. /\ \A k \in Nodes : g.id \notin handled[k]
        /\ \A x \in Given : Sends[x].node = m => sentAt[x] <= sentAt[g.id]
    BY <1>2, <1>3, <1>4, <1>8, Zenon DEF WaitsAt
  <2>. QED BY <1>5, <2>1, <2>2, Zenon
<1>9. SUFFICES /\ \A a, b \in DOMAIN r :
                     a < b /\ r[a].id # NoId /\ r[b].id # NoId => sentAt'[r[a].id] <= sentAt'[r[b].id]
               /\ \A g \in Range(r) : g.id # NoId =>
                     /\ \A k \in Nodes : g.id \notin handled'[k]
                     /\ \A x \in Given' : Sends[x].node = m => sentAt'[x] <= sentAt'[g.id]
  BY <1>2, <1>3, Zenon DEF WaitsAt, InOrder
<1>10. ASSUME NEW s \in Seq(Frame), InOrder(s), Range(s) \subseteq Range(q),
              NEW a \in DOMAIN s, NEW b \in DOMAIN s, a < b, s[a].id # NoId, s[b].id # NoId
       PROVE  sentAt'[s[a].id] <= sentAt'[s[b].id]
  <2>1. s[a] \in Range(q) /\ s[b] \in Range(q)
    BY <1>10, Zenon DEF Range
  <2>2. sentAt'[s[a].id] = sentAt[s[a].id] /\ sentAt'[s[b].id] = sentAt[s[b].id]
    BY <1>6, <1>7, <1>10, <2>1, Zenon
  <2>3. sentAt[s[a].id] <= sentAt[s[b].id]
    BY <1>10, Zenon DEF InOrder
  <2>. QED BY <2>2, <2>3, Zenon
<1>11. CASE r = q
  BY <1>4, <1>8, <1>10, <1>11, Zenon
<1>12. CASE q # <<>> /\ r = Tail(q)
  <2>1. r \in Seq(Frame) /\ InOrder(r) /\ Range(r) \subseteq Range(q)
    BY <1>4, <1>12, OrderTail, RangeTail, Zenon
  <2>. QED BY <1>8, <1>10, <2>1, Zenon
<1>13. ASSUME NEW id \in Ids, StationSends(id), r = Append(q, StationFrame(id))
       PROVE  /\ \A a, b \in DOMAIN r :
                     a < b /\ r[a].id # NoId /\ r[b].id # NoId => sentAt'[r[a].id] <= sentAt'[r[b].id]
              /\ \A g \in Range(r) : g.id # NoId =>
                     /\ \A k \in Nodes : g.id \notin handled'[k]
                     /\ \A x \in Given' : Sends[x].node = m => sentAt'[x] <= sentAt'[g.id]
  <2>1. PICK f : f = StationFrame(id)
    BY Zenon
  <2>2. f \in Frame /\ f.id = id /\ id # NoId
    BY <2>1, StationFrameFacts, NetworkAssumption, Zenon
  <2>3. id \notin DOMAIN sentAt /\ sentAt'[id] = now
    BY <1>13, SendStep, Zenon
  <2>4. \A x \in DOMAIN sentAt : sentAt'[x] <= sentAt'[id]
    <3>1. \A x \in DOMAIN sentAt : sentAt[x] \in 0..now
      BY Zenon DEF TypeInv
    <3>2. now \in Nat
      BY ClockFacts, Zenon
    <3>. QED BY <1>7, <2>3, <3>1, <3>2
  <2>5. /\ \A a \in DOMAIN r : (a \in DOMAIN q /\ r[a] = q[a]) \/ (a = Len(q) + 1 /\ r[a] = f)
        /\ \A a \in DOMAIN r : a \in 1..(Len(q) + 1) /\ Len(q) \in Nat
    BY <1>4, <1>13, <2>1, <2>2
  <2>6. ASSUME NEW a \in DOMAIN r, NEW b \in DOMAIN r, a < b, r[a].id # NoId, r[b].id # NoId
        PROVE  sentAt'[r[a].id] <= sentAt'[r[b].id]
    <3>1. a \in DOMAIN q /\ r[a] = q[a]
      BY <2>5, <2>6
    <3>2. CASE b \in DOMAIN q /\ r[b] = q[b]
      BY <1>4, <1>10, <2>6, <3>1, <3>2, Zenon
    <3>3. CASE r[b] = f
      <4>1. r[a] \in Range(q)
        BY <3>1, Zenon DEF Range
      <4>. QED BY <1>6, <2>2, <2>4, <2>6, <3>3, <4>1, Zenon
    <3>. QED BY <2>5, <3>2, <3>3, Zenon
  <2>7. ASSUME NEW g \in Range(r), g.id # NoId
        PROVE  /\ \A k \in Nodes : g.id \notin handled'[k]
               /\ \A x \in Given' : Sends[x].node = m => sentAt'[x] <= sentAt'[g.id]
    <3>1. g \in Range(q) \/ g = f
      BY <1>4, <1>13, <2>1, <2>2, RangeAppend, Zenon
    <3>2. CASE g = f
      <4>1. \A k \in Nodes : g.id \notin handled'[k]
        BY <1>5, <2>2, <2>3, <3>2, Zenon DEF HistoryInv
      <4>. QED BY <1>5, <2>2, <2>4, <3>2, <4>1, Zenon
    <3>. QED BY <1>8, <2>7, <3>1, <3>2, Zenon
  <2>. QED BY <2>6, <2>7, Zenon
<1>14. Waited(j)
  BY <1>1, <1>2, WaitedSteps, Zenon
<1>. QED
  BY <1>3, <1>11, <1>12, <1>13, <1>14, Zenon DEF Waited

LEMMA HistoryQuiet ==
    ASSUME TypeInv, HistoryInv, Undisturbed, [Next]_vars, boots' = boots,
           \A n \in Nodes, p \in Ports : ~handleFrame(n, p)
    PROVE  HistoryInv'
<1>1. CASE sentAt' = sentAt
  BY <1>1, Zenon DEF HistoryInv, Undisturbed
<1>2. ASSUME NEW id \in Ids, StationSends(id) PROVE HistoryInv'
  <2>1. PICK S, T : S = DOMAIN sentAt /\ T = DOMAIN sentAt'
    BY Zenon
  <2>2. T = S \cup {id}
    BY <1>2, <2>1, SendStep, Zenon
  <2>. QED BY <2>1, <2>2, Zenon DEF HistoryInv, Undisturbed
<1>3. ASSUME NEW n \in Nodes, SendSupervisionFrame(n) \/ periodicCleanup(n) \/ Restart(n)
      PROVE  sentAt' = sentAt
  BY <1>3, Zenon DEF SendSupervisionFrame, periodicCleanup, Restart
<1>4. ASSUME NEW i \in Ingress, Lose(i) PROVE sentAt' = sentAt
  BY <1>4, Zenon DEF Lose
<1>5. Tick \/ UNCHANGED vars => sentAt' = sentAt
  BY Zenon DEF Tick, vars
<1>. QED
  BY <1>1, <1>2, <1>3, <1>4, <1>5, Zenon DEF Next

LEMMA NumberingNext ==
    ASSUME WellWired, OneRedBoxEach, TypeInv, RawInv, TransitInv, NumberingInv, [Next]_vars
    PROVE  NumberingInv'
<1>1. SUFFICES ASSUME NoRestart'
               PROVE  FreshInv' /\ HistoryInv' /\ WaitInv' /\ MarkInv' /\ Ordered'
  BY Zenon DEF NumberingInv
<1>2. boots' = boots /\ NoRestart
  BY <1>1, BootsFacts, Zenon DEF NoRestart
<1>3. FreshInv /\ HistoryInv /\ WaitInv /\ MarkInv /\ Ordered
  BY <1>2, Zenon DEF NumberingInv
<1>4. FreshInv'
  BY <1>2, <1>3, FreshNext, Zenon
<1>5. ASSUME NEW n \in Nodes, NEW p \in Ports, handleFrame(n, p)
      PROVE  HistoryInv' /\ WaitInv' /\ MarkInv' /\ Ordered'
  <2>1. PICK f, node, out : Handling(n, p, f, node, out)
    BY <1>5, HandleFacts, Zenon
  <2>2. HistoryInv' /\ MarkInv'
    BY <1>3, <2>1, HistoryHandle, MarkHandle, Zenon
  <2>3. WaitInv'
    BY <1>3, <2>1, WaitHandle, Zenon
  <2>4. Ordered'
    BY <1>3, <2>1, OrderedHandle, Zenon
  <2>. QED BY <2>2, <2>3, <2>4, Zenon
<1>6. ASSUME \A n \in Nodes, p \in Ports : ~handleFrame(n, p)
      PROVE  HistoryInv' /\ WaitInv' /\ MarkInv' /\ Ordered'
  <2>1. Quiet /\ Undisturbed
    BY <1>2, <1>6, QuietSteps, UndisturbedSteps, Zenon
  <2>2. HistoryInv' /\ WaitInv'
    BY <1>2, <1>3, <1>6, <2>1, HistoryQuiet, WaitQuiet, Zenon
  <2>3. MarkInv' /\ Ordered'
    BY <1>3, <2>1, MarkQuiet, OrderedQuiet, Zenon
  <2>. QED BY <2>2, <2>3, Zenon
<1>. QED
  BY <1>4, <1>5, <1>6, Zenon
=============================================================================
