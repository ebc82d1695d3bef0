---------------------------- MODULE RedBoxProofs ----------------------------
(***************************************************************************)
(* Proofs about RedBox, for any number of nodes of any roles, however they *)
(* are wired.  A handler is first reduced to what it means for the rest of *)
(* the network (Handles): the change of the duplicate table and of the     *)
(* counters, and the Hop that each frame it writes is from the frame it    *)
(* has taken.  The invariants here and in the modules that extend this one *)
(* are then shown for a Hop, whichever handler takes it: here those of     *)
(* type correctness, of the VLAN filter and of the PathId rule.            *)
(***************************************************************************)
EXTENDS RedBox, TLAPS

Tags == [path : 0..15, seq : Number]
RCTs == [seq : Number, lan : {0, 1}]
HSRs == {h \in Seq(Tags) : Len(h) <= 1}

FrameType ==
    [id : Ids \cup {NoId}, src : Macs, dst : {Sends[id].dst : id \in Ids} \cup {SupMulticast},
     vlan : {Sends[id].vlan : id \in Ids} \cup {Untagged}, et : {"data", "sup"}, sup : Number,
     hsr : HSRs, rct : Seq(RCTs)]

(* Frame g is frame f with other marks. *)
Kin(f, g) ==
    /\ g.id = f.id /\ g.src = f.src /\ g.dst = f.dst
    /\ g.vlan = f.vlan /\ g.et = f.et /\ g.sup = f.sup

LEMMA NumberFacts == /\ SeqMod \in Nat /\ SeqMod > 0 /\ 0 \in Number
                     /\ \A k \in Nat : k % SeqMod \in Number
BY RedBoxAssumption DEF Number

LEMMA OneElement ==
    ASSUME NEW S, NEW h \in Seq(S), h # <<>>, Len(h) <= 1
    PROVE  Len(h) = 1 /\ h[1] \in S
<1>1. Len(h) \in Nat \ {0}
  OBVIOUS
<1>2. Len(h) = 1
  BY <1>1
<1>. QED
  BY <1>2

LEMMA FrameFields ==
    ASSUME NEW f \in FrameType
    PROVE  /\ f.id \in Ids \cup {NoId} /\ f.src \in Macs /\ f.sup \in Number
           /\ f.hsr \in Seq(Tags) /\ Len(f.hsr) <= 1 /\ f.rct \in Seq(RCTs)
<1>1. f.id \in Ids \cup {NoId} /\ f.src \in Macs /\ f.sup \in Number /\ f.rct \in Seq(RCTs)
  BY Zenon DEF FrameType
<1>2. f.hsr \in HSRs
  BY Zenon DEF FrameType
<1>. QED
  BY <1>1, <1>2, Zenon DEF HSRs

LEMMA EncodeRCTFacts ==
    ASSUME NEW f \in FrameType, NEW seq \in Number, NEW lan \in {0, 1},
           NEW g, g = EncodeRCT(f, seq, lan)
    PROVE  /\ g \in FrameType /\ Kin(f, g) /\ g.hsr = f.hsr
           /\ g.rct = Append(f.rct, [seq |-> seq, lan |-> lan])
<1>1. f.rct \in Seq(RCTs) /\ [seq |-> seq, lan |-> lan] \in RCTs
  BY Zenon DEF FrameType, RCTs
<1>2. Append(f.rct, [seq |-> seq, lan |-> lan]) \in Seq(RCTs)
  BY <1>1
<1>. QED
  BY <1>2, Zenon DEF FrameType, EncodeRCT, Kin

LEMMA TrailerFacts ==
    ASSUME NEW f \in FrameType, HasRCT(f)
    PROVE  /\ Len(f.rct) \in Nat \ {0} /\ Trailer(f) \in RCTs
           /\ Trailer(f).seq \in Number /\ Trailer(f).lan \in {0, 1}
<1>1. f.rct \in Seq(RCTs) /\ f.rct # <<>>
  BY FrameFields, Zenon DEF HasRCT
<1>2. Len(f.rct) \in Nat \ {0} /\ f.rct[Len(f.rct)] \in RCTs
  BY <1>1
<1>. QED
  BY <1>2, Zenon DEF Trailer, RCTs

LEMMA DropRCTFacts ==
    ASSUME NEW f \in FrameType, HasRCT(f), NEW g, g = DropRCT(f)
    PROVE  /\ g \in FrameType /\ Kin(f, g) /\ g.hsr = f.hsr
           /\ g.rct = SubSeq(f.rct, 1, Len(f.rct) - 1)
<1>1. f.rct \in Seq(RCTs) /\ Len(f.rct) \in Nat \ {0}
  BY TrailerFacts, FrameFields, Zenon
<1>2. SubSeq(f.rct, 1, Len(f.rct) - 1) \in Seq(RCTs)
  BY <1>1
<1>. QED
  BY <1>2, Zenon DEF FrameType, DropRCT, Kin

LEMMA EncodeHSRFacts ==
    ASSUME NEW f \in FrameType, NEW path \in 0..15, NEW seq \in Number,
           NEW g, g = EncodeHSR(f, path, seq)
    PROVE  /\ g \in FrameType /\ Kin(f, g) /\ g.rct = f.rct
           /\ HasTag(g) /\ Path(g) = path /\ TagSeq(g) = seq
<1>1. [path |-> path, seq |-> seq] \in Tags
  BY Zenon DEF Tags
<1>2. <<[path |-> path, seq |-> seq]>> \in HSRs
  BY <1>1 DEF HSRs
<1>3. g.hsr = <<[path |-> path, seq |-> seq]>>
  BY Zenon DEF FrameType, EncodeHSR
<1>. QED
  BY <1>2, <1>3, Zenon DEF FrameType, EncodeHSR, Kin, HasTag, Path, TagSeq

LEMMA TagFacts ==
    ASSUME NEW f \in FrameType, HasTag(f)
    PROVE  /\ f.hsr \in Seq(Tags) /\ Len(f.hsr) = 1 /\ f.hsr[1] \in Tags
           /\ Path(f) \in 0..15 /\ TagSeq(f) \in Number
<1>1. f.hsr \in Seq(Tags) /\ Len(f.hsr) <= 1 /\ f.hsr # <<>>
  BY FrameFields, Zenon DEF HasTag
<1>2. Len(f.hsr) = 1 /\ f.hsr[1] \in Tags
  BY <1>1, OneElement, Zenon
<1>. QED
  BY <1>1, <1>2, Zenon DEF Path, TagSeq, Tags

LEMMA RewriteFacts ==
    ASSUME NEW f \in FrameType, HasTag(f), NEW path \in 0..15,
           NEW g, g = RewriteHSRPath(f, path)
    PROVE  /\ g \in FrameType /\ Kin(f, g) /\ g.rct = f.rct
           /\ HasTag(g) /\ Path(g) = path /\ TagSeq(g) = TagSeq(f)
<1>1. f.hsr \in Seq(Tags) /\ Len(f.hsr) = 1 /\ f.hsr[1] \in Tags
  BY TagFacts, Zenon
<1>. DEFINE t == [f.hsr[1] EXCEPT !.path = path]
            h == [f.hsr EXCEPT ![1] = t]
<1>2. t \in Tags /\ t.path = path /\ t.seq = f.hsr[1].seq
  BY <1>1, Zenon DEF Tags
<1>3. g = [f EXCEPT !.hsr = h]
  BY Zenon DEF RewriteHSRPath
<1>. HIDE DEF t
<1>4. h \in Seq(Tags) /\ Len(h) = 1 /\ h[1] = t
  BY <1>1, <1>2
<1>. HIDE DEF h
<1>5. h \in HSRs
  <2>1. 1 <= 1
    OBVIOUS
  <2>. QED BY <1>4, <2>1, Zenon DEF HSRs
<1>6. g \in FrameType /\ Kin(f, g) /\ g.rct = f.rct /\ g.hsr = h
  BY <1>3, <1>5, Zenon DEF FrameType, Kin
<1>7. h # <<>>
  BY <1>4
<1>. QED
  BY <1>2, <1>4, <1>6, <1>7, Zenon DEF HasTag, Path, TagSeq

LEMMA RewriteLaneFacts ==
    ASSUME NEW f \in FrameType, HasTag(f), NEW lane \in {0, 1},
           NEW g, g = RewriteHSRPathLane(f, lane)
    PROVE  /\ g \in FrameType /\ Kin(f, g) /\ g.rct = f.rct
           /\ HasTag(g) /\ Path(g) \div 2 = Path(f) \div 2 /\ TagSeq(g) = TagSeq(f)
<1>1. Path(f) \in 0..15
  BY TagFacts, Zenon
<1>2. (Path(f) \div 2) * 2 + lane \in 0..15
      /\ ((Path(f) \div 2) * 2 + lane) \div 2 = Path(f) \div 2
  BY <1>1
<1>. QED
  <2>. DEFINE path == (Path(f) \div 2) * 2 + lane
  <2>1. path \in 0..15 /\ path \div 2 = Path(f) \div 2 /\ g = RewriteHSRPath(f, path)
    BY <1>2, Zenon DEF RewriteHSRPathLane
  <2>. HIDE DEF path
  <2>2. /\ g \in FrameType /\ Kin(f, g) /\ g.rct = f.rct
        /\ HasTag(g) /\ Path(g) = path /\ TagSeq(g) = TagSeq(f)
    BY <2>1, RewriteFacts, Zenon
  <2>. QED BY <2>1, <2>2, Zenon

LEMMA StripFacts ==
    ASSUME NEW f \in FrameType, NEW g, g = StripHSR(f)
    PROVE  g \in FrameType /\ Kin(f, g) /\ g.rct = f.rct /\ g.hsr = <<>>
<1>1. <<>> \in HSRs
  BY DEF HSRs
<1>. QED
  BY <1>1, Zenon DEF FrameType, StripHSR, Kin

-----------------------------------------------------------------------------
(* Sequences by the set of their elements. *)

LEMMA RangeElement ==
    ASSUME NEW S, NEW q \in Seq(S), NEW x \in Range(q)
    PROVE  x \in S /\ \E k \in DOMAIN q : q[k] = x
BY DEF Range

LEMMA RangeAppend ==
    ASSUME NEW S, NEW q \in Seq(S), NEW x \in S
    PROVE  Append(q, x) \in Seq(S) /\ Range(Append(q, x)) \subseteq Range(q) \cup {x}
<1>1. \A k \in DOMAIN Append(q, x) : Append(q, x)[k] = x \/ (k \in DOMAIN q /\ Append(q, x)[k] = q[k])
  OBVIOUS
<1>. QED
  BY <1>1 DEF Range

LEMMA RangeTail ==
    ASSUME NEW S, NEW q \in Seq(S), q # <<>>
    PROVE  /\ Tail(q) \in Seq(S) /\ Range(Tail(q)) \subseteq Range(q)
           /\ Head(q) \in S /\ Head(q) \in Range(q)
<1>1. \A k \in DOMAIN Tail(q) : k + 1 \in DOMAIN q /\ Tail(q)[k] = q[k + 1]
  OBVIOUS
<1>2. Tail(q) \in Seq(S) /\ Head(q) \in S /\ 1 \in DOMAIN q /\ Head(q) = q[1]
  OBVIOUS
<1>. QED
  BY <1>1, <1>2 DEF Range

LEMMA RangeSuffix ==
    ASSUME NEW S, NEW q \in Seq(S), NEW r \in Suffixes(q)
    PROVE  r \in Seq(S) /\ Range(r) \subseteq Range(q)
<1>1. PICK k \in 1..(Len(q) + 1) : r = SubSeq(q, k, Len(q))
  BY Zenon DEF Suffixes
<1>2. Len(q) \in Nat /\ \A i \in k..Len(q) : q[i] \in S /\ i \in DOMAIN q
  OBVIOUS
<1>3. /\ r \in Seq(S) /\ Len(r) = IF k <= Len(q) THEN Len(q) - k + 1 ELSE 0
      /\ \A i \in 1..(Len(q) - k + 1) : r[i] = q[k + i - 1]
  BY <1>1, <1>2
<1>4. \A j \in DOMAIN r : j \in Nat /\ 1 <= j /\ j <= Len(q) - k + 1
  BY <1>2, <1>3
<1>5. \A j \in DOMAIN r : k + j - 1 \in DOMAIN q /\ r[j] = q[k + j - 1]
  <2>1. SUFFICES ASSUME NEW j \in DOMAIN r PROVE k + j - 1 \in DOMAIN q /\ r[j] = q[k + j - 1]
    BY Zenon
  <2>2. j \in 1..(Len(q) - k + 1) /\ k + j - 1 \in k..Len(q)
    BY <1>2, <1>4
  <2>. QED
    BY <1>2, <1>3, <2>2, Zenon
<1>. QED
  BY <1>3, <1>5, Zenon DEF Range

-----------------------------------------------------------------------------
(* Tables and nodes. *)

TableOK(d, t) ==
    \A k \in DOMAIN d : k \in Macs \X Number /\ d[k] \in 0..t

NodeFields == {"dup", "seqs", "start", "proxy", "members", "supSeen", "supSeqs", "supSeq"}

NodeOK(node, t) ==
    /\ DOMAIN node = NodeFields
    /\ TableOK(node.dup, t)
    /\ \A mac \in DOMAIN node.seqs : node.seqs[mac] \in Number
    /\ node.start \in Number /\ node.supSeq \in Number

LEMMA DeleteOK ==
    ASSUME NEW d, NEW t, TableOK(d, t), NEW K, NEW g, g = Delete(d, K)
    PROVE  TableOK(g, t)
<1>1. DOMAIN g = DOMAIN d \ K /\ \A x \in DOMAIN g : g[x] = d[x]
  BY Zenon DEF Delete, Restrict
<1>. QED
  BY <1>1, Zenon DEF TableOK

LEMMA InsertOK ==
    ASSUME NEW d, NEW t \in Nat, TableOK(d, t), NEW k \in Macs \X Number,
           NEW u \in InsertWithExpiry(d, k, t)
    PROVE  TableOK(u, t)
<1>1. PICK g : g = Assign(d, k, t)
  BY Zenon
<1>2. DOMAIN g = DOMAIN d \cup {k} /\ g[k] = t /\ \A x \in DOMAIN d : x # k => g[x] = d[x]
  BY <1>1, Zenon DEF Assign
<1>3. TableOK(g, t)
  BY <1>2 DEF TableOK
<1>4. u = g \/ \E old : u = Delete(g, {old})
  BY <1>1, Zenon DEF InsertWithExpiry
<1>. QED
  BY <1>3, <1>4, DeleteOK, Zenon

LEMMA RememberFacts ==
    ASSUME NEW node, now \in Nat, NodeOK(node, now), NEW mac \in Macs, NEW seq \in Number,
           NEW m \in Remember(node, mac, seq)
    PROVE  /\ NodeOK(m, now) /\ m.dup \in InsertWithExpiry(node.dup, <<mac, seq>>, now)
           /\ m = [node EXCEPT !.dup = m.dup]
<1>1. PICK d \in InsertWithExpiry(node.dup, <<mac, seq>>, now) : m = [node EXCEPT !.dup = d]
  BY Zenon DEF Remember
<1>2. TableOK(d, now)
  BY InsertOK, Zenon DEF NodeOK
<1>3. m.dup = d
  BY <1>1, Zenon DEF NodeOK, NodeFields
<1>. QED
  BY <1>1, <1>2, <1>3, Zenon DEF NodeOK, NodeFields

LEMMA AdvanceFacts ==
    ASSUME NEW node, NEW t, NodeOK(node, t), NEW mac
    PROVE  NextSeq(node, mac) \in Number /\ NodeOK(Advance(node, mac), t)
<1>1. NextSeq(node, mac) \in Number
  BY Zenon DEF NodeOK, NextSeq
<1>2. (NextSeq(node, mac) + 1) % SeqMod \in Number
  BY <1>1, NumberFacts DEF Number
<1>3. PICK s : s = Assign(node.seqs, mac, (NextSeq(node, mac) + 1) % SeqMod)
  BY Zenon
<1>4. /\ DOMAIN s = DOMAIN node.seqs \cup {mac} /\ s[mac] = (NextSeq(node, mac) + 1) % SeqMod
      /\ \A x \in DOMAIN node.seqs : x # mac => s[x] = node.seqs[x]
  BY <1>3, Zenon DEF Assign
<1>5. \A x \in DOMAIN s : s[x] \in Number
  BY <1>2, <1>4, Zenon DEF NodeOK
<1>6. Advance(node, mac) = [node EXCEPT !.seqs = s]
  BY <1>3, Zenon DEF Advance
<1>. QED
  BY <1>1, <1>5, <1>6, Zenon DEF NodeOK, NodeFields

-----------------------------------------------------------------------------
(* What a frame may become on its way through a node.                      *)

(* A frame that some station sent, or an announcement of some node. *)
Genuine(f) ==
    \/ f.id \in Ids /\ f.src = Sends[f.id].src /\ f.vlan = Sends[f.id].vlan /\ f.et = "data"
    \/ f.id = NoId /\ f.src \in NodeMacs /\ f.et = "sup"

Frame == {f \in FrameType : Genuine(f)}

LEMMA KinGenuine ==
    ASSUME NEW f \in Frame, NEW g \in FrameType, Kin(f, g)
    PROVE  g \in Frame
BY Zenon DEF Frame, Kin, Genuine

(* Node n writes g to port q for frame f that came in at port p. *)
Bridged(n, p, f, q, g) == f.et = "sup" /\ IsHSRHSR(n) /\ g = f
Received(n, p, f, q, g) ==
    ~IsHSRNode(n) /\ p \in Lans /\ q = "interlink" /\ HasRCT(f) /\ g = DropRCT(f)
Sent(n, p, f, q, g) ==
    /\ ~IsHSRNode(n) /\ p = "interlink" /\ q \in Lans /\ ~VLANBlocked(n, f)
    /\ IF Cfg[n].trailer THEN g = EncodeRCT(f, NextSeq(st[n], f.src), ExpectedLan(q)) ELSE g = f
Circled(n, p, f, q, g) ==
    /\ IsHSRNode(n) /\ p \in Lans /\ q = Other(p) /\ HasTag(f)
    /\ g = RewriteHSRPathLane(f, Lane(q))
LeftRing(n, p, f, q, g) ==
    /\ IsHSRNode(n) /\ p \in Lans /\ q = "interlink" /\ HasTag(f)
    /\ \/ IsHSRHSR(n) /\ g = f
       \/ IsHSRPRPCoupling(n) /\ ~OfOwnNet(n, f) /\ g = couplingToPRP(n, f)
       \/ ~IsHSRHSR(n) /\ ~IsHSRPRPCoupling(n) /\ g = StripHSR(f)
OtherRing(n, p, f, q, g) ==
    IsHSRHSR(n) /\ p = "interlink" /\ q \in Lans /\ HasTag(f) /\ g = RewriteHSRPath(f, 0)
Injected(n, p, f, q, g) ==
    /\ IsHSRNode(n) /\ ~IsHSRHSR(n) /\ p = "interlink" /\ q \in Lans
    /\ \E seq \in InjectionSeq(n, f) : g = EncodeHSR(f, OwnPath(n), seq)

Hop(n, p, f, q, g) ==
    \/ Bridged(n, p, f, q, g) \/ Received(n, p, f, q, g) \/ Sent(n, p, f, q, g)
    \/ Circled(n, p, f, q, g) \/ LeftRing(n, p, f, q, g)
    \/ OtherRing(n, p, f, q, g) \/ Injected(n, p, f, q, g)

LEMMA OwnPathFacts ==
    ASSUME NEW n \in Nodes
    PROVE  LanID(n) \in {0, 1} /\ NetID(n) \in Nat /\ OwnPath(n) \in 0..15
<1>1. LanID(n) \in {0, 1} /\ NetID(n) \in Nat
  BY NetworkAssumption, Zenon DEF LanID, NetID
<1>2. NetID(n) * 2 + LanID(n) \in Nat
  BY <1>1
<1>. QED
  BY <1>1, <1>2 DEF OwnPath

LEMMA InjectionFacts ==
    ASSUME NEW n \in Nodes, NEW f \in FrameType, NodeOK(st[n], now), NEW seq \in InjectionSeq(n, f)
    PROVE  seq \in Number
BY AdvanceFacts, TrailerFacts, Zenon DEF InjectionSeq

LEMMA HopFacts ==
    ASSUME NEW n \in Nodes, NEW p \in Ports, NEW f \in Frame, NEW q, NEW g,
           NodeOK(st[n], now), Hop(n, p, f, q, g)
    PROVE  g \in Frame /\ Kin(f, g)
<1>. f \in FrameType
  BY Zenon DEF Frame
<1>1. SUFFICES g \in FrameType /\ Kin(f, g)
  BY KinGenuine, Zenon
<1>2. Kin(f, f)
  BY Zenon DEF Kin
<1>3. CASE Bridged(n, p, f, q, g)
  BY <1>2, <1>3, Zenon DEF Bridged
<1>4. CASE Received(n, p, f, q, g)
  BY <1>4, DropRCTFacts, Zenon DEF Received
<1>5. CASE Sent(n, p, f, q, g)
  <2>1. NextSeq(st[n], f.src) \in Number /\ ExpectedLan(q) \in {0, 1}
    BY AdvanceFacts, Zenon DEF ExpectedLan
  <2>. QED
    BY <1>2, <1>5, <2>1, EncodeRCTFacts, Zenon DEF Sent
<1>6. CASE Circled(n, p, f, q, g)
  BY <1>6, RewriteLaneFacts, Zenon DEF Circled, Lane
<1>7. CASE LeftRing(n, p, f, q, g)
  <2>1. CASE IsHSRHSR(n) /\ g = f
    BY <1>2, <2>1, Zenon
  <2>2. CASE g = StripHSR(f)
    BY <2>2, StripFacts, Zenon
  <2>3. CASE HasTag(f) /\ g = couplingToPRP(n, f)
    <3>1. PICK h : h = StripHSR(f)
      BY Zenon
    <3>2. h \in FrameType /\ Kin(f, h)
      BY <3>1, StripFacts, Zenon
    <3>3. g = EncodeRCT(h, TagSeq(f), LanID(n)) /\ TagSeq(f) \in Number /\ LanID(n) \in {0, 1}
      BY <2>3, <3>1, TagFacts, OwnPathFacts, Zenon DEF couplingToPRP
    <3>4. g \in FrameType /\ Kin(h, g)
      BY <3>2, <3>3, EncodeRCTFacts, Zenon
    <3>. QED
      BY <3>2, <3>4, Zenon DEF Kin
  <2>. QED
    BY <1>7, <2>1, <2>2, <2>3, Zenon DEF LeftRing
<1>8. CASE OtherRing(n, p, f, q, g)
  BY <1>8, RewriteFacts DEF OtherRing
<1>9. CASE Injected(n, p, f, q, g)
  BY <1>9, EncodeHSRFacts, OwnPathFacts, InjectionFacts, Zenon DEF Injected
<1>. QED
  BY <1>3, <1>4, <1>5, <1>6, <1>7, <1>8, <1>9, Zenon DEF Hop

-----------------------------------------------------------------------------
(* Reading a port and writing to the others. *)

Wires == [Ingress -> Seq(Frame)]
Deliveries == [Nodes -> Seq([frame : Frame, at : Nat])]

(* Queue v[i] is queue w[i], or w[i] and a frame that n wrote. *)
Written(w, v, n, out) ==
    \A i \in Ingress : \/ v[i] = w[i]
                       \/ \E q \in DOMAIN out : /\ i \in Link[<<n, q>>]
                                                /\ v[i] = Append(w[i], out[q])

LEMMA WriteFacts ==
    ASSUME NEW w \in Wires, NEW n \in Nodes, NEW out,
           \A q \in DOMAIN out : out[q] \in Frame,
           NEW v, v = Write(w, n, out)
    PROVE  v \in Wires /\ Written(w, v, n, out)
<1>1. \A i \in Ingress : \/ v[i] = w[i]
                         \/ \E q \in DOMAIN out : /\ i \in Link[<<n, q>>]
                                                  /\ v[i] = Append(w[i], out[q])
  <2>1. SUFFICES ASSUME NEW i \in Ingress, v[i] # w[i]
                 PROVE  \E q \in DOMAIN out : i \in Link[<<n, q>>] /\ v[i] = Append(w[i], out[q])
    BY Zenon
  <2>2. PICK via : via = {p \in DOMAIN out : i \in Link[<<n, p>>]}
    BY Zenon
  <2>3. v[i] = IF via = {} THEN w[i] ELSE Append(w[i], out[CHOOSE p \in via : TRUE])
    BY <2>2 DEF Write
  <2>4. via # {} /\ (CHOOSE p \in via : TRUE) \in via
    BY <2>1, <2>3, Zenon
  <2>. QED
    BY <2>2, <2>3, <2>4, Zenon
<1>2. \A i \in Ingress : v[i] \in Seq(Frame)
  <2>1. SUFFICES ASSUME NEW i \in Ingress PROVE v[i] \in Seq(Frame)
    BY Zenon
  <2>2. w[i] \in Seq(Frame)
    BY Zenon DEF Wires
  <2>3. ASSUME NEW q \in DOMAIN out PROVE Append(w[i], out[q]) \in Seq(Frame)
    BY <2>2, RangeAppend, Zenon
  <2>. QED
    BY <1>1, <2>2, <2>3, Zenon
<1>. QED
  BY <1>1, <1>2, Zenon DEF Write, Wires, Written

(* The frames at port i are old ones or were written there by node n. *)
Spread(n, out) ==
    \A i \in Ingress : \A g \in Range(wire'[i]) :
        g \in Range(wire[i]) \/ \E q \in DOMAIN out : i \in Link[<<n, q>>] /\ g = out[q]

(* A station receives nothing new but what n wrote to a free interlink. *)
Delivered(n, out) ==
    \/ got' = got
    \/ /\ "interlink" \in DOMAIN out /\ Link[<<n, "interlink">>] = {} /\ out["interlink"].id # NoId
       /\ got' = [got EXCEPT ![n] = Append(@, [frame |-> out["interlink"], at |-> now])]

LEMMA DeliveredFacts ==
    ASSUME NEW n \in Nodes, NEW out, now \in Nat, got \in Deliveries,
           \A q \in DOMAIN out : out[q] \in Frame, got' = ToStation(n, out)
    PROVE  got' \in Deliveries /\ Delivered(n, out)
<1>1. Delivered(n, out)
  BY Zenon DEF Delivered, ToStation
<1>2. got[n] \in Seq([frame : Frame, at : Nat])
  BY Zenon DEF Deliveries
<1>3. ASSUME "interlink" \in DOMAIN out
      PROVE  Append(got[n], [frame |-> out["interlink"], at |-> now]) \in Seq([frame : Frame, at : Nat])
  <2>1. [frame |-> out["interlink"], at |-> now] \in [frame : Frame, at : Nat]
    BY <1>3, Zenon
  <2>. QED BY <1>2, <2>1
<1>. QED
  BY <1>1, <1>3, Zenon DEF Delivered, Deliveries

LEMMA SpreadFacts ==
    ASSUME NEW n \in Nodes, NEW out, NEW w \in Wires, wire \in Wires,
           \A i \in Ingress : Range(w[i]) \subseteq Range(wire[i]),
           \A q \in DOMAIN out : out[q] \in Frame, wire' = Write(w, n, out)
    PROVE  wire' \in Wires /\ Spread(n, out)
<1>1. /\ wire' \in Wires
      /\ \A i \in Ingress : \/ wire'[i] = w[i]
                            \/ \E q \in DOMAIN out : /\ i \in Link[<<n, q>>]
                                                     /\ wire'[i] = Append(w[i], out[q])
  <2>1. wire' \in Wires /\ Written(w, wire', n, out)
    BY WriteFacts, Zenon
  <2>. QED BY <2>1, Zenon DEF Written
<1>2. SUFFICES ASSUME NEW i \in Ingress, NEW g \in Range(wire'[i]), g \notin Range(wire[i])
               PROVE  \E q \in DOMAIN out : i \in Link[<<n, q>>] /\ g = out[q]
  BY <1>1, Zenon DEF Spread
<1>3. PICK q \in DOMAIN out : i \in Link[<<n, q>>] /\ wire'[i] = Append(w[i], out[q])
  BY <1>1, <1>2, Zenon
<1>4. Range(wire'[i]) \subseteq Range(w[i]) \cup {out[q]}
  BY <1>3, RangeAppend, Zenon DEF Wires
<1>. QED
  BY <1>2, <1>3, <1>4, Zenon

LEMMA TakeFacts ==
    ASSUME NEW i \in Ingress, wire \in Wires, wire[i] # <<>>,
           NEW w, w = [wire EXCEPT ![i] = Tail(@)]
    PROVE  /\ w \in Wires /\ \A j \in Ingress : Range(w[j]) \subseteq Range(wire[j])
           /\ Head(wire[i]) \in Frame /\ Head(wire[i]) \in Range(wire[i])
<1>1. /\ Tail(wire[i]) \in Seq(Frame) /\ Range(Tail(wire[i])) \subseteq Range(wire[i])
      /\ Head(wire[i]) \in Frame /\ Head(wire[i]) \in Range(wire[i])
  BY RangeTail, Zenon DEF Wires
<1>. QED
  BY <1>1, Zenon DEF Wires

LEMMA FinishFacts ==
    ASSUME NEW n \in Nodes, NEW p \in Ports, Waiting(n, p), NEW node, NEW out,
           wire \in Wires, got \in Deliveries, now \in Nat,
           \A q \in DOMAIN out : out[q] \in Frame, Finish(n, p, node, out)
    PROVE  /\ wire' \in Wires /\ Spread(n, out)
           /\ got' \in Deliveries /\ Delivered(n, out)
<1>1. <<n, p>> \in Ingress
  BY Zenon DEF Ingress
<1>2. PICK w : w = [wire EXCEPT ![<<n, p>>] = Tail(@)]
  BY Zenon
<1>3. w \in Wires /\ \A j \in Ingress : Range(w[j]) \subseteq Range(wire[j])
  BY <1>1, <1>2, TakeFacts, Zenon DEF Waiting
<1>4. wire' = Write(w, n, out) /\ got' = ToStation(n, out)
  BY <1>2, Zenon DEF Finish
<1>. QED
  BY <1>3, <1>4, SpreadFacts, DeliveredFacts, Zenon

-----------------------------------------------------------------------------
(* What handling a frame amounts to: the handlers, by what they do to the  *)
(* duplicate table, to the counters and to the ports.                      *)

Outputs(n, p, f, out) == \A q \in DOMAIN out : q \in Ports /\ Hop(n, p, f, q, out[q])

Ignored(n, p, f, node, out) ==
    /\ out = Silence /\ node.dup = st[n].dup /\ node.seqs = st[n].seqs
    /\ handled' = handled

Noted(n, p, f, node, out) ==
    /\ f.et = "sup" /\ \A q \in DOMAIN out : Bridged(n, p, f, q, out[q])
    /\ node.dup \in {st[n].dup, FlushFor(st[n].dup, f.src)} /\ node.seqs = st[n].seqs
    /\ handled' = handled

(* The counters once frame f has been given a number. *)
Counted(n, f) == Assign(st[n].seqs, f.src, (NextSeq(st[n], f.src) + 1) % SeqMod)

SentOut(n, p, f, node, out) ==
    /\ ~IsHSRNode(n) /\ p = "interlink" /\ \A q \in DOMAIN out : Sent(n, p, f, q, out[q])
    /\ node.dup = st[n].dup
    /\ node.seqs = IF Cfg[n].trailer THEN Counted(n, f) ELSE st[n].seqs
    /\ Accepts(n, f)

(* The number by which node n knows frame f. *)
SeqAt(n, f) == IF IsHSRNode(n) THEN TagSeq(f) ELSE Trailer(f).seq
Marked(n, f) == IF IsHSRNode(n) THEN HasTag(f) ELSE HasRCT(f)

Checked(n, p, f, node, out) ==
    /\ p \in Lans \/ IsHSRHSR(n)
    /\ Marked(n, f) /\ ~Seen(n, f.src, SeqAt(n, f)) /\ f.src # Cfg[n].mac
    /\ node.dup \in InsertWithExpiry(st[n].dup, <<f.src, SeqAt(n, f)>>, now)
    /\ node.seqs = st[n].seqs
    /\ Accepts(n, f)

Entered(n, p, f, node, out) ==
    /\ IsHSRNode(n) /\ ~IsHSRHSR(n) /\ p = "interlink"
    /\ \E seq \in InjectionSeq(n, f) :
          /\ node.dup \in InsertWithExpiry(st[n].dup, <<f.src, seq>>, now)
          /\ out = Both(EncodeHSR(f, OwnPath(n), seq))
    /\ node.seqs = IF ServesStation(n) THEN Counted(n, f) ELSE st[n].seqs
    /\ Accepts(n, f)

Effect(n, p, f, node, out) ==
    /\ \/ Ignored(n, p, f, node, out) \/ Noted(n, p, f, node, out)
       \/ SentOut(n, p, f, node, out) \/ Checked(n, p, f, node, out)
       \/ Entered(n, p, f, node, out)
    /\ Outputs(n, p, f, out)

(* A node learns ring members from what comes in at its ring ports only,   *)
(* and from no frame that it knows already.                                *)
Members(n, p, f, node) ==
    \/ node.members = st[n].members
    \/ /\ IsHSRNode(n) /\ p \in Lans /\ node.members = Assign(st[n].members, f.src, now)
       /\ f.et = "sup" \/ (HasTag(f) /\ ~Seen(n, f.src, TagSeq(f)))

Handles(n, p, f, node, out) ==
    /\ Finish(n, p, node, out) /\ NodeOK(node, now) /\ node.start = st[n].start
    /\ Effect(n, p, f, node, out) /\ Members(n, p, f, node)
    /\ handled' \in {handled, [handled EXCEPT ![n] = @ \cup {f.id}]}

LEMMA SilenceFacts == DOMAIN Silence = {}
BY Zenon DEF Silence, EmptyMap

LEMMA BothFacts ==
    ASSUME NEW g PROVE DOMAIN Both(g) = Lans /\ \A q \in Lans : Both(g)[q] = g
BY Zenon DEF Both

LEMMA OnlyFacts ==
    ASSUME NEW q, NEW g PROVE DOMAIN Only(q, g) = {q} /\ Only(q, g)[q] = g
BY Zenon DEF Only

LEMMA DropStep ==
    ASSUME NEW n \in Nodes, NEW p \in Ports, NEW f, NodeOK(st[n], now), Drop(n, p)
    PROVE  \E node, out : Handles(n, p, f, node, out)
<1>1. Handles(n, p, f, st[n], Silence)
  BY SilenceFacts, Zenon DEF Drop, Handles, Effect, Ignored, Outputs, Members
<1>. QED
  BY <1>1, Zenon

LEMMA SupervisionStep ==
    ASSUME NEW n \in Nodes, NEW p \in Ports, NEW f \in Frame, f = Arrived(n, p),
           NodeOK(st[n], now), handleSupervisionFrame(n, p)
    PROVE  \E node, out : Handles(n, p, f, node, out)
<1>1. PICK node, out :
        /\ node = [st[n] EXCEPT
                     !.supSeen = Assign(@, f.src, now),
                     !.members = IF IsHSRNode(n) /\ p \in Lans THEN Assign(@, f.src, now) ELSE @,
                     !.dup     = IF Regressed(n, f) THEN FlushFor(@, f.src) ELSE @,
                     !.supSeqs = Assign(@, f.src, f.sup)]
        /\ out = BridgeSupervision(n, p, f)
  BY Zenon
<1>2. IsSupervision(n, p, f) /\ Finish(n, p, node, out) /\ handled' = handled
  BY <1>1, Zenon DEF handleSupervisionFrame
<1>3. /\ DOMAIN node = NodeFields
      /\ node.dup = IF Regressed(n, f) THEN FlushFor(st[n].dup, f.src) ELSE st[n].dup
      /\ node.members = IF IsHSRNode(n) /\ p \in Lans THEN Assign(st[n].members, f.src, now)
                        ELSE st[n].members
      /\ node.seqs = st[n].seqs /\ node.start = st[n].start /\ node.supSeq = st[n].supSeq
  BY <1>1, Zenon DEF NodeOK, NodeFields
<1>4. TableOK(FlushFor(st[n].dup, f.src), now)
  BY DeleteOK, Zenon DEF FlushFor, NodeOK
<1>5. NodeOK(node, now)
  BY <1>3, <1>4, Zenon DEF NodeOK
<1>6. f.et = "sup" /\ \A q \in DOMAIN out : q \in Ports /\ Bridged(n, p, f, q, out[q])
  <2>1. f.et = "sup"
    <3>1. IsSupervision(n, p, f)
      BY <1>2, Zenon
    <3>. QED BY <3>1, Zenon DEF IsSupervision
  <2>2. CASE ~IsHSRHSR(n)
    BY <1>1, <2>2, <2>1, SilenceFacts, Zenon DEF BridgeSupervision
  <2>3. CASE IsHSRHSR(n) /\ p \in Lans
    <3>1. out = Only("interlink", f)
      BY <1>1, <2>3, Zenon DEF BridgeSupervision
    <3>. QED BY <2>1, <2>3, <3>1, Zenon DEF Only, Ports, Bridged
  <2>4. CASE IsHSRHSR(n) /\ p \notin Lans
    <3>1. out = Both(f)
      BY <1>1, <2>4, Zenon DEF BridgeSupervision
    <3>. QED BY <2>1, <2>4, <3>1, Zenon DEF Both, Ports, Bridged
  <2>. QED BY <2>2, <2>3, <2>4, Zenon
<1>7. Effect(n, p, f, node, out)
  BY <1>2, <1>3, <1>6, Zenon DEF Effect, Noted, Outputs, Hop
<1>8. Members(n, p, f, node)
  BY <1>3, <1>6, Zenon DEF Members
<1>. QED
  BY <1>2, <1>3, <1>5, <1>7, <1>8, Zenon DEF Handles

LEMMA PRPStep ==
    ASSUME NEW n \in Nodes, NEW p \in Ports, NEW f \in Frame, f = Arrived(n, p), now \in Nat,
           NodeOK(st[n], now), handleIncomingPRPFrame(n, p)
    PROVE  \E node, out : Handles(n, p, f, node, out)
<1>1. p \in Lans /\ ~IsHSRNode(n)
  BY Zenon DEF handleIncomingPRPFrame
<1>2. CASE Drop(n, p)
  BY <1>2, DropStep, Zenon
<1>3. CASE ~DiscardsPRP(n, p, f)
  <2>. f \in FrameType /\ f.src \in Macs
    BY FrameFields, Zenon DEF Frame
  <2>1. HasRCT(f) /\ f.src # Cfg[n].mac /\ ~Seen(n, f.src, Trailer(f).seq)
    BY <1>3, Zenon DEF DiscardsPRP
  <2>2. PICK node \in Remember(st[n], f.src, Trailer(f).seq) :
          /\ Finish(n, p, node, IF shouldForwardToInterlink(n, f.dst)
                                THEN Only("interlink", DropRCT(f)) ELSE Silence)
          /\ Accepts(n, f)
    BY <1>3, <1>1, Zenon DEF handleIncomingPRPFrame, Drop, DiscardsPRP
  <2>3. PICK out : out = IF shouldForwardToInterlink(n, f.dst)
                         THEN Only("interlink", DropRCT(f)) ELSE Silence
    BY Zenon
  <2>4. Trailer(f).seq \in Number
    BY <2>1, TrailerFacts, Zenon
  <2>5. /\ NodeOK(node, now)
        /\ node.dup \in InsertWithExpiry(st[n].dup, <<f.src, Trailer(f).seq>>, now)
        /\ node = [st[n] EXCEPT !.dup = node.dup]
    BY <2>4, RememberFacts, Zenon
  <2>6. node.members = st[n].members /\ node.seqs = st[n].seqs /\ node.start = st[n].start
    BY <2>5, Zenon DEF NodeOK, NodeFields
  <2>7. \A q \in DOMAIN out : q \in Ports /\ Received(n, p, f, q, out[q])
    <3>1. CASE out = Silence
      BY <3>1, SilenceFacts, Zenon
    <3>2. CASE out = Only("interlink", DropRCT(f))
      BY <1>1, <2>1, <3>2, Zenon DEF Only, Ports, Received
    <3>. QED BY <2>3, <3>1, <3>2, Zenon
  <2>8. Effect(n, p, f, node, out)
    BY <1>1, <2>1, <2>2, <2>5, <2>6, <2>7, Zenon DEF Effect, Checked, Marked, SeqAt, Outputs, Hop
  <2>. QED
    BY <2>2, <2>3, <2>5, <2>6, <2>8, Zenon DEF Handles, Accepts, Members
<1>. QED
  BY <1>2, <1>3, Zenon DEF handleIncomingPRPFrame

LEMMA LearnProxy ==
    ASSUME NEW n \in Nodes, NodeOK(st[n], now), NEW m, NEW node, node = [st[n] EXCEPT !.proxy = m]
    PROVE  /\ NodeOK(node, now) /\ node.dup = st[n].dup /\ node.members = st[n].members
           /\ node.seqs = st[n].seqs /\ node.start = st[n].start
BY Zenon DEF NodeOK, NodeFields

LEMMA AdvanceKeeps ==
    ASSUME NEW node, NodeOK(node, now), NEW mac, NEW m, m = Advance(node, mac)
    PROVE  /\ NodeOK(m, now) /\ m.dup = node.dup /\ m.members = node.members
           /\ m.start = node.start
           /\ m.seqs = Assign(node.seqs, mac, (NextSeq(node, mac) + 1) % SeqMod)
<1>1. NodeOK(m, now)
  BY AdvanceFacts, Zenon
<1>. QED
  BY <1>1, Zenon DEF NodeOK, NodeFields, Advance

LEMMA InterlinkStep ==
    ASSUME NEW n \in Nodes, NEW p \in Ports, NEW f \in Frame, p = "interlink", f = Arrived(n, p),
           now \in Nat, NodeOK(st[n], now), handleInterlinkFrame(n)
    PROVE  \E node, out : Handles(n, p, f, node, out)
<1>1. ~IsHSRNode(n)
  BY Zenon DEF handleInterlinkFrame
<1>2. CASE Drop(n, p)
  BY <1>2, DropStep, Zenon
<1>3. CASE ~VLANBlocked(n, f)
  <2>1. PICK learned : learned = [st[n] EXCEPT !.proxy = Assign(@, f.src, now)]
    BY Zenon
  <2>2. /\ NodeOK(learned, now) /\ learned.dup = st[n].dup /\ learned.members = st[n].members
        /\ learned.seqs = st[n].seqs /\ learned.start = st[n].start
    BY <2>1, LearnProxy
  <2>3. PICK next : next = Advance(learned, f.src)
    BY Zenon
  <2>4. /\ NodeOK(next, now) /\ next.dup = learned.dup /\ next.members = learned.members
        /\ next.start = st[n].start /\ next.seqs = Counted(n, f)
    <3>1. /\ NodeOK(next, now) /\ next.dup = learned.dup /\ next.members = learned.members
          /\ next.start = learned.start
          /\ next.seqs = Assign(learned.seqs, f.src, (NextSeq(learned, f.src) + 1) % SeqMod)
      BY <2>2, <2>3, AdvanceKeeps
    <3>2. NextSeq(learned, f.src) = NextSeq(st[n], f.src)
      BY <2>2, Zenon DEF NextSeq
    <3>. QED BY <2>2, <3>1, <3>2, Zenon DEF Counted
  <2>5. /\ Accepts(n, f)
        /\ \/ Cfg[n].trailer /\ Finish(n, p, next, Duplicated(n, f, NextSeq(st[n], f.src)))
           \/ ~Cfg[n].trailer /\ Finish(n, p, learned, Both(f))
    BY <1>3, <2>1, <2>3, Zenon DEF handleInterlinkFrame
  <2>6. \A q \in Lans : Duplicated(n, f, NextSeq(st[n], f.src))[q]
                          = EncodeRCT(f, NextSeq(st[n], f.src), ExpectedLan(q))
    BY Zenon DEF Duplicated
  <2>7. CASE Cfg[n].trailer /\ Finish(n, p, next, Duplicated(n, f, NextSeq(st[n], f.src)))
    <3>1. PICK out : out = Duplicated(n, f, NextSeq(st[n], f.src))
      BY Zenon
    <3>2. DOMAIN out = Lans
      BY <3>1, Zenon DEF Duplicated
    <3>3. \A q \in DOMAIN out : q \in Ports /\ Sent(n, p, f, q, out[q])
      BY <1>1, <1>3, <2>6, <2>7, <3>1, <3>2, Zenon DEF Sent, Ports
    <3>4. Effect(n, p, f, next, out)
      BY <1>1, <2>2, <2>4, <2>5, <2>7, <3>3, Zenon DEF Effect, SentOut, Outputs, Hop
    <3>. QED
      BY <2>2, <2>4, <2>5, <2>7, <3>1, <3>4, Zenon DEF Handles, Accepts, Members
  <2>8. CASE ~Cfg[n].trailer /\ Finish(n, p, learned, Both(f))
    <3>1. \A q \in DOMAIN Both(f) : q \in Ports /\ Sent(n, p, f, q, Both(f)[q])
      BY <1>1, <1>3, <2>8, BothFacts, Zenon DEF Sent, Ports
    <3>2. Effect(n, p, f, learned, Both(f))
      BY <1>1, <2>2, <2>5, <2>8, <3>1, Zenon DEF Effect, SentOut, Outputs, Hop
    <3>. QED
      BY <2>2, <2>5, <2>8, <3>2, Zenon DEF Handles, Accepts, Members
  <2>. QED
    BY <2>5, <2>7, <2>8, Zenon
<1>. QED
  BY <1>2, <1>3, Zenon DEF handleInterlinkFrame

LEMMA LearnMember ==
    ASSUME NEW known, NodeOK(known, now), NEW mac, NEW node, node = learnRingMember(known, mac)
    PROVE  /\ NodeOK(node, now) /\ node.dup = known.dup
           /\ node.members = Assign(known.members, mac, now)
           /\ node.seqs = known.seqs /\ node.start = known.start
BY Zenon DEF NodeOK, NodeFields, learnRingMember

LEMMA CombinedFacts ==
    ASSUME NEW q \in Ports, NEW g, NEW frames, NEW out, out = Combined(Only(q, g), frames),
           q # "interlink"
    PROVE  /\ \A x \in DOMAIN out : x = q \/ x = "interlink"
           /\ out[q] = g
           /\ "interlink" \in DOMAIN out => out["interlink"] \in frames
<1>1. /\ DOMAIN out = {q} \cup {"interlink" : h \in frames}
      /\ \A x \in DOMAIN out : out[x] = IF x \in {q} THEN Only(q, g)[x] ELSE CHOOSE h \in frames : TRUE
  BY Zenon DEF Combined, Only
<1>2. Only(q, g)[q] = g
  BY OnlyFacts, Zenon
<1>3. "interlink" \in DOMAIN out => \E h : h \in frames
  BY <1>1, Zenon
<1>. QED
  BY <1>1, <1>2, <1>3, Zenon

LEMMA HSRStep ==
    ASSUME NEW n \in Nodes, NEW p \in Ports, NEW f \in Frame, f = Arrived(n, p), now \in Nat,
           NodeOK(st[n], now), handleIncomingHSRFrame(n, p)
    PROVE  \E node, out : Handles(n, p, f, node, out)
<1>1. p \in Lans /\ IsHSRNode(n)
  BY Zenon DEF handleIncomingHSRFrame
<1>2. CASE Drop(n, p)
  BY <1>2, DropStep, Zenon
<1>3. CASE ~DiscardsHSR(n, f)
  <2>. f \in FrameType /\ f.src \in Macs
    BY FrameFields, Zenon DEF Frame
  <2>1. HasTag(f) /\ f.src # Cfg[n].mac /\ ~Seen(n, f.src, TagSeq(f))
    BY <1>3, Zenon DEF DiscardsHSR
  <2>2. PICK known \in Remember(st[n], f.src, TagSeq(f)) :
          LET node == learnRingMember(known, f.src)
          IN  /\ Finish(n, p, node, Combined(ForwardOnRing(p, f), RingToInterlink(n, node, f)))
              /\ Accepts(n, f)
    BY <1>3, Zenon DEF handleIncomingHSRFrame
  <2>3. PICK node : node = learnRingMember(known, f.src)
    BY Zenon
  <2>4. PICK out : out = Combined(ForwardOnRing(p, f), RingToInterlink(n, node, f))
    BY Zenon
  <2>5. Finish(n, p, node, out) /\ handled' = [handled EXCEPT ![n] = @ \cup {f.id}]
    BY <2>2, <2>3, <2>4, Zenon DEF Accepts
  <2>6. TagSeq(f) \in Number
    BY <2>1, TagFacts, Zenon
  <2>7. /\ NodeOK(known, now)
        /\ known.dup \in InsertWithExpiry(st[n].dup, <<f.src, TagSeq(f)>>, now)
        /\ known = [st[n] EXCEPT !.dup = known.dup]
    BY <2>6, RememberFacts, Zenon
  <2>8. known.members = st[n].members /\ known.seqs = st[n].seqs /\ known.start = st[n].start
    BY <2>7, Zenon DEF NodeOK, NodeFields
  <2>9. /\ NodeOK(node, now) /\ node.dup = known.dup
        /\ node.members = Assign(st[n].members, f.src, now)
        /\ node.seqs = st[n].seqs /\ node.start = st[n].start
    BY <2>3, <2>7, <2>8, LearnMember
  <2>10. /\ Other(p) \in Ports /\ Other(p) # "interlink" /\ "interlink" \in Ports
    BY <1>1, Zenon DEF Other, Lans, Ports
  <2>11. /\ \A x \in DOMAIN out : x = Other(p) \/ x = "interlink"
         /\ out[Other(p)] = RewriteHSRPathLane(f, Lane(Other(p)))
         /\ "interlink" \in DOMAIN out => out["interlink"] \in RingToInterlink(n, node, f)
    BY <2>4, <2>10, CombinedFacts DEF ForwardOnRing
  <2>12. ASSUME NEW g \in RingToInterlink(n, node, f) PROVE LeftRing(n, p, f, "interlink", g)
    BY <1>1, <2>1, <2>12, Zenon DEF RingToInterlink, LeftRing
  <2>13. Circled(n, p, f, Other(p), out[Other(p)])
    BY <1>1, <2>1, <2>11, Zenon DEF Circled
  <2>14. \A q \in DOMAIN out : q \in Ports /\ Hop(n, p, f, q, out[q])
    BY <2>10, <2>11, <2>12, <2>13, Zenon DEF Hop
  <2>15. Effect(n, p, f, node, out)
    BY <1>1, <2>1, <2>5, <2>7, <2>9, <2>14, Zenon DEF Effect, Checked, Marked, SeqAt, Outputs, Accepts
  <2>. QED
    BY <1>1, <2>1, <2>5, <2>9, <2>15, Zenon DEF Handles, Members
<1>. QED
  BY <1>2, <1>3, Zenon DEF handleIncomingHSRFrame, DropHSR

LEMMA OtherRingStep ==
    ASSUME NEW n \in Nodes, NEW p \in Ports, NEW f \in Frame, p = "interlink", f = Arrived(n, p),
           now \in Nat, NodeOK(st[n], now), handleOtherRingFrame(n)
    PROVE  \E node, out : Handles(n, p, f, node, out)
<1>1. IsHSRHSR(n) /\ IsHSRNode(n)
  BY Zenon DEF handleOtherRingFrame, IsHSRHSR, IsHSRNode
<1>2. CASE Drop(n, p)
  BY <1>2, DropStep, Zenon
<1>3. CASE ~DiscardsHSR(n, f)
  <2>. f \in FrameType /\ f.src \in Macs
    BY FrameFields, Zenon DEF Frame
  <2>1. HasTag(f) /\ f.src # Cfg[n].mac /\ ~Seen(n, f.src, TagSeq(f))
    BY <1>3, Zenon DEF DiscardsHSR
  <2>2. PICK node \in Remember(st[n], f.src, TagSeq(f)) :
          Finish(n, p, node, InjectAfresh(f)) /\ Accepts(n, f)
    BY <1>3, Zenon DEF handleOtherRingFrame
  <2>3. TagSeq(f) \in Number
    BY <2>1, TagFacts, Zenon
  <2>4. /\ NodeOK(node, now)
        /\ node.dup \in InsertWithExpiry(st[n].dup, <<f.src, TagSeq(f)>>, now)
        /\ node = [st[n] EXCEPT !.dup = node.dup]
    BY <2>3, RememberFacts, Zenon
  <2>5. node.members = st[n].members /\ node.seqs = st[n].seqs /\ node.start = st[n].start
    BY <2>4, Zenon DEF NodeOK, NodeFields
  <2>6. \A q \in DOMAIN InjectAfresh(f) : q \in Ports /\ OtherRing(n, p, f, q, InjectAfresh(f)[q])
    BY <1>1, <2>1, BothFacts, Zenon DEF InjectAfresh, OtherRing, Ports
  <2>7. Effect(n, p, f, node, InjectAfresh(f))
    BY <1>1, <2>1, <2>2, <2>4, <2>5, <2>6, Zenon DEF Effect, Checked, Marked, SeqAt, Outputs, Hop
  <2>. QED
    BY <2>2, <2>4, <2>5, <2>7, Zenon DEF Handles, Accepts, Members
<1>. QED
  BY <1>2, <1>3, Zenon DEF handleOtherRingFrame

LEMMA InjectionStep ==
    ASSUME NEW n \in Nodes, NEW p \in Ports, NEW f \in Frame, p = "interlink", f = Arrived(n, p),
           now \in Nat, NodeOK(st[n], now), handleHSRInterlinkFrame(n)
    PROVE  \E node, out : Handles(n, p, f, node, out)
<1>. f \in FrameType /\ f.src \in Macs
  BY FrameFields, Zenon DEF Frame
<1>1. IsHSRNode(n) /\ ~IsHSRHSR(n)
  BY Zenon DEF handleHSRInterlinkFrame
<1>2. PICK learned : learned = [st[n] EXCEPT !.proxy = Assign(@, f.src, now)]
  BY Zenon
<1>3. /\ NodeOK(learned, now) /\ learned.dup = st[n].dup /\ learned.members = st[n].members
      /\ learned.seqs = st[n].seqs /\ learned.start = st[n].start
  BY <1>2, LearnProxy
<1>4. PICK counted : counted = IF IsHSRPRPCoupling(n) THEN learned ELSE Advance(learned, f.src)
  BY Zenon
<1>5. /\ NodeOK(counted, now) /\ counted.dup = st[n].dup /\ counted.members = st[n].members
      /\ counted.start = st[n].start
      /\ counted.seqs = IF IsHSRPRPCoupling(n) THEN st[n].seqs ELSE Counted(n, f)
  <2>1. CASE IsHSRPRPCoupling(n)
    BY <1>3, <1>4, <2>1, Zenon
  <2>2. CASE ~IsHSRPRPCoupling(n)
    <3>1. /\ NodeOK(counted, now) /\ counted.dup = learned.dup /\ counted.members = learned.members
          /\ counted.start = learned.start
          /\ counted.seqs = Assign(learned.seqs, f.src, (NextSeq(learned, f.src) + 1) % SeqMod)
      BY <1>3, <1>4, <2>2, AdvanceKeeps
    <3>2. NextSeq(learned, f.src) = NextSeq(st[n], f.src)
      BY <1>3, Zenon DEF NextSeq
    <3>. QED BY <1>3, <2>2, <3>1, <3>2, Zenon DEF Counted
  <2>. QED BY <2>1, <2>2, Zenon
<1>6. \/ Finish(n, p, learned, Silence) /\ UNCHANGED handled
      \/ \E seq \in InjectionSeq(n, f) : \E node \in registerFrameOut(counted, f.src, seq) :
           Finish(n, p, node, Both(EncodeHSR(f, OwnPath(n), seq))) /\ Accepts(n, f)
  BY <1>2, <1>4, Zenon DEF handleHSRInterlinkFrame
<1>7. CASE Finish(n, p, learned, Silence) /\ UNCHANGED handled
  BY <1>3, <1>7, SilenceFacts, Zenon DEF Handles, Effect, Ignored, Outputs, Members
<1>8. ASSUME NEW seq \in InjectionSeq(n, f), NEW node \in registerFrameOut(counted, f.src, seq),
             Finish(n, p, node, Both(EncodeHSR(f, OwnPath(n), seq))), Accepts(n, f)
      PROVE  \E m, out : Handles(n, p, f, m, out)
  <2>1. seq \in Number
    BY InjectionFacts, Zenon
  <2>2. /\ NodeOK(node, now) /\ node.dup \in InsertWithExpiry(counted.dup, <<f.src, seq>>, now)
        /\ node = [counted EXCEPT !.dup = node.dup]
    BY <1>5, <2>1, RememberFacts DEF registerFrameOut
  <2>3. node.members = st[n].members /\ node.seqs = counted.seqs /\ node.start = st[n].start
    BY <1>5, <2>2, Zenon DEF NodeOK, NodeFields
  <2>4. PICK out : out = Both(EncodeHSR(f, OwnPath(n), seq))
    BY Zenon
  <2>5. \A q \in DOMAIN out : q \in Ports /\ Injected(n, p, f, q, out[q])
    <3>1. DOMAIN out = Lans /\ \A q \in Lans : out[q] = EncodeHSR(f, OwnPath(n), seq)
      BY <2>4, Zenon DEF Both
    <3>. QED BY <1>1, <3>1, Zenon DEF Injected, Ports
  <2>6. Entered(n, p, f, node, out)
    BY <1>1, <1>5, <1>8, <2>2, <2>3, <2>4, Zenon DEF Entered, ServesStation
  <2>7. Effect(n, p, f, node, out)
    BY <2>5, <2>6, Zenon DEF Effect, Outputs, Hop
  <2>. QED
    BY <1>8, <2>2, <2>3, <2>4, <2>7, Zenon DEF Handles, Accepts, Members
<1>. QED
  BY <1>6, <1>7, <1>8, Zenon

LEMMA HandleStep ==
    ASSUME NEW n \in Nodes, NEW p \in Ports, NEW f \in Frame, f = Arrived(n, p), now \in Nat,
           NodeOK(st[n], now), handleFrame(n, p)
    PROVE  \E node, out : Handles(n, p, f, node, out)
BY SupervisionStep, PRPStep, HSRStep, InterlinkStep, OtherRingStep, InjectionStep, Zenon DEF handleFrame

-----------------------------------------------------------------------------
(* Type correctness. *)

TypeInv ==
    /\ wire \in Wires /\ got \in Deliveries
    /\ DOMAIN st = Nodes /\ \A n \in Nodes : NodeOK(st[n], now)
    /\ now \in 0..MaxTime /\ faulty \in Faults
    /\ supSent \in 0..MaxSup /\ boots \in 0..MaxBoots
    /\ DOMAIN sentAt \subseteq Ids /\ \A id \in DOMAIN sentAt : sentAt[id] \in 0..now
    /\ handled \in [Nodes -> SUBSET (Ids \cup {NoId})]
    /\ \A i \in Ingress : \A f \in Range(wire[i]) : f.id \in DOMAIN sentAt \cup {NoId}
    /\ \A n \in Nodes : \A d \in Range(got[n]) :
          d.frame.id \in DOMAIN sentAt /\ d.at <= now

LEMMA NewNodeOK ==
    ASSUME NEW start \in Starts, NEW t \in Nat, NEW node, node = NewNode(start)
    PROVE  NodeOK(node, t) /\ node.dup = EmptyMap /\ node.members = EmptyMap
<1>1. DOMAIN EmptyMap = {}
  BY Zenon DEF EmptyMap
<1>2. start \in Number /\ 0 \in Number
  BY RedBoxAssumption, NumberFacts, Zenon DEF Number
<1>3. /\ DOMAIN node = NodeFields /\ node.dup = EmptyMap /\ node.seqs = EmptyMap
      /\ node.start = start /\ node.supSeq = 0 /\ node.members = EmptyMap
  BY Zenon DEF NewNode, NodeFields
<1>. QED
  BY <1>1, <1>2, <1>3, Zenon DEF NodeOK, TableOK

LEMMA EmptyRange == Range(<<>>) = {}
BY DEF Range

LEMMA TypeInit == Init => TypeInv
<1>1. SUFFICES ASSUME Init PROVE TypeInv
  BY Zenon
<1>2. wire \in Wires /\ got \in Deliveries
  <2>1. <<>> \in Seq(Frame) /\ <<>> \in Seq([frame : Frame, at : Nat])
    OBVIOUS
  <2>. QED BY <1>1, <2>1, Zenon DEF Init, Wires, Deliveries
<1>3. PICK start \in [Nodes -> Starts] : st = [n \in Nodes |-> NewNode(start[n])]
  BY <1>1, Zenon DEF Init
<1>4. DOMAIN st = Nodes /\ now = 0 /\ \A n \in Nodes : st[n] = NewNode(start[n]) /\ start[n] \in Starts
  BY <1>1, <1>3, Zenon DEF Init
<1>5. \A n \in Nodes : NodeOK(st[n], now)
  BY <1>4, NewNodeOK, Zenon
<1>6. \A i \in Ingress : Range(wire[i]) = {}
  BY <1>1, EmptyRange, Zenon DEF Init
<1>7. \A n \in Nodes : Range(got[n]) = {}
  BY <1>1, EmptyRange, Zenon DEF Init
<1>8. DOMAIN sentAt = {}
  BY <1>1, Zenon DEF Init, EmptyMap
<1>9. /\ now \in 0..MaxTime /\ faulty \in Faults /\ supSent \in 0..MaxSup /\ boots \in 0..MaxBoots
      /\ handled \in [Nodes -> SUBSET (Ids \cup {NoId})]
  BY <1>1, NetworkAssumption DEF Init
<1>. QED
  BY <1>2, <1>4, <1>5, <1>6, <1>7, <1>8, <1>9, Zenon DEF TypeInv

(* What a write leaves behind satisfies the type invariant's part on       *)
(* frames.                                                                 *)
LEMMA FramesKnown ==
    ASSUME NEW n \in Nodes, NEW out, TypeInv, got' \in Deliveries,
           \A q \in DOMAIN out : out[q].id \in DOMAIN sentAt \cup {NoId},
           Spread(n, out), Delivered(n, out), sentAt' = sentAt, now' = now
    PROVE  /\ \A i \in Ingress : \A f \in Range(wire'[i]) : f.id \in DOMAIN sentAt' \cup {NoId}
           /\ \A m \in Nodes : \A d \in Range(got'[m]) :
                d.frame.id \in DOMAIN sentAt' /\ d.at <= now'
<1>1. \A i \in Ingress : \A f \in Range(wire'[i]) : f.id \in DOMAIN sentAt' \cup {NoId}
  <2>1. SUFFICES ASSUME NEW i \in Ingress, NEW f \in Range(wire'[i])
                 PROVE  f.id \in DOMAIN sentAt \cup {NoId}
    BY Zenon
  <2>2. f \in Range(wire[i]) \/ \E q \in DOMAIN out : f = out[q]
    BY <2>1, Zenon DEF Spread
  <2>3. \A g \in Range(wire[i]) : g.id \in DOMAIN sentAt \cup {NoId}
    BY Zenon DEF TypeInv
  <2>. QED BY <2>2, <2>3, Zenon
<1>2. SUFFICES ASSUME NEW m \in Nodes, NEW d \in Range(got'[m])
               PROVE  d.frame.id \in DOMAIN sentAt /\ d.at <= now
  BY <1>1, Zenon
<1>3. CASE d \in Range(got[m])
  BY <1>3, Zenon DEF TypeInv
<1>4. CASE d \notin Range(got[m])
  <2>1. /\ "interlink" \in DOMAIN out /\ m = n /\ out["interlink"].id # NoId
        /\ got' = [got EXCEPT ![n] = Append(@, [frame |-> out["interlink"], at |-> now])]
    BY <1>4, Zenon DEF Delivered, TypeInv, Deliveries
  <2>2. got'[n] = Append(got[n], [frame |-> out["interlink"], at |-> now])
    BY <2>1, Zenon DEF TypeInv, Deliveries
  <2>3. PICK k \in DOMAIN got'[n] : d = got'[n][k]
    BY <2>1, Zenon DEF Range
  <2>4. d = [frame |-> out["interlink"], at |-> now] \/ (k \in DOMAIN got[n] /\ d = got[n][k])
    BY <2>2, <2>3 DEF TypeInv, Deliveries
  <2>5. d = [frame |-> out["interlink"], at |-> now]
    BY <1>4, <2>1, <2>4, Zenon DEF Range
  <2>. QED
    BY <2>1, <2>5, NetworkAssumption DEF TypeInv
<1>. QED
  BY <1>3, <1>4, Zenon

(* All there is to say of the step in which node n, now node, has taken    *)
(* frame f from port p and written out.                                    *)
Handling(n, p, f, node, out) ==
    /\ <<n, p>> \in Ingress /\ wire[<<n, p>>] # <<>> /\ f = Head(wire[<<n, p>>])
    /\ f \in Frame /\ f \in Range(wire[<<n, p>>])
    /\ Handles(n, p, f, node, out)
    /\ \A q \in DOMAIN out :
          q \in Ports /\ out[q] \in Frame /\ Kin(f, out[q]) /\ Hop(n, p, f, q, out[q])
    /\ Written([wire EXCEPT ![<<n, p>>] = Tail(@)], wire', n, out)
    /\ wire' \in Wires /\ Spread(n, out) /\ got' \in Deliveries /\ Delivered(n, out)

LEMMA HandleFacts ==
    ASSUME TypeInv, NEW n \in Nodes, NEW p \in Ports, handleFrame(n, p)
    PROVE  \E f, node, out : Handling(n, p, f, node, out)
<1>1. PICK f : f = Arrived(n, p)
  BY Zenon
<1>2. Waiting(n, p) /\ <<n, p>> \in Ingress
  BY Zenon DEF handleFrame, Ingress
<1>3. wire \in Wires /\ got \in Deliveries /\ now \in Nat /\ NodeOK(st[n], now)
  BY NetworkAssumption DEF TypeInv
<1>4. PICK w : w = [wire EXCEPT ![<<n, p>>] = Tail(@)]
  BY Zenon
<1>5. w \in Wires /\ f \in Frame /\ f \in Range(wire[<<n, p>>])
  BY <1>1, <1>2, <1>3, <1>4, TakeFacts, Zenon DEF Waiting, Arrived
<1>6. PICK node, out : Handles(n, p, f, node, out)
  BY <1>1, <1>3, <1>5, HandleStep, Zenon
<1>7. \A q \in DOMAIN out :
         q \in Ports /\ out[q] \in Frame /\ Kin(f, out[q]) /\ Hop(n, p, f, q, out[q])
  BY <1>3, <1>5, <1>6, HopFacts, Zenon DEF Handles, Effect, Outputs
<1>8. Finish(n, p, node, out)
  BY <1>6, Zenon DEF Handles
<1>9. wire' \in Wires /\ Spread(n, out) /\ got' \in Deliveries /\ Delivered(n, out)
  BY <1>2, <1>3, <1>7, <1>8, FinishFacts, Zenon
<1>10. Written([wire EXCEPT ![<<n, p>>] = Tail(@)], wire', n, out)
  <2>1. wire' = Write(w, n, out)
    BY <1>4, <1>8, Zenon DEF Finish
  <2>2. Written(w, wire', n, out)
    BY <1>5, <1>7, <2>1, WriteFacts, Zenon
  <2>. QED BY <1>4, <2>2, Zenon
<1>. QED
  BY <1>1, <1>2, <1>5, <1>6, <1>7, <1>9, <1>10, Zenon DEF Handling, Waiting, Arrived

LEMMA TypeHandle ==
    ASSUME TypeInv, NEW n \in Nodes, NEW p \in Ports, handleFrame(n, p)
    PROVE  TypeInv'
<1>1. PICK f, node, out : Handling(n, p, f, node, out)
  BY HandleFacts, Zenon
<1>2. Handles(n, p, f, node, out) /\ f \in Frame /\ f \in Range(wire[<<n, p>>]) /\ <<n, p>> \in Ingress
  BY <1>1, Zenon DEF Handling
<1>3. wire' \in Wires /\ Spread(n, out) /\ got' \in Deliveries /\ Delivered(n, out)
  BY <1>1, Zenon DEF Handling
<1>4. NodeOK(node, now)
  BY <1>2, Zenon DEF Handles
<1>5. /\ st' = [st EXCEPT ![n] = node] /\ now' = now /\ faulty' = faulty
      /\ supSent' = supSent /\ boots' = boots /\ sentAt' = sentAt
  BY <1>2, Zenon DEF Handles, Finish
<1>6. \A q \in DOMAIN out : out[q].id \in DOMAIN sentAt \cup {NoId}
  <2>1. f.id \in DOMAIN sentAt \cup {NoId}
    BY <1>2, Zenon DEF TypeInv
  <2>2. \A q \in DOMAIN out : Kin(f, out[q])
    BY <1>1, Zenon DEF Handling
  <2>. QED BY <2>1, <2>2, Zenon DEF Kin
<1>7. handled' \in [Nodes -> SUBSET (Ids \cup {NoId})]
  <2>1. f.id \in Ids \cup {NoId}
    BY <1>2, FrameFields, Zenon DEF Frame
  <2>2. handled' = handled \/ handled' = [handled EXCEPT ![n] = @ \cup {f.id}]
    BY <1>2, Zenon DEF Handles
  <2>. QED BY <2>1, <2>2, Zenon DEF TypeInv
<1>8. DOMAIN st' = Nodes /\ \A m \in Nodes : NodeOK(st'[m], now')
  BY <1>4, <1>5, Zenon DEF TypeInv
<1>9. /\ \A i \in Ingress : \A g \in Range(wire'[i]) : g.id \in DOMAIN sentAt' \cup {NoId}
      /\ \A m \in Nodes : \A d \in Range(got'[m]) :
           d.frame.id \in DOMAIN sentAt' /\ d.at <= now'
  BY <1>3, <1>5, <1>6, FramesKnown, Zenon
<1>. QED
  BY <1>3, <1>5, <1>7, <1>8, <1>9, Zenon DEF TypeInv

LEMMA AnnouncementFacts ==
    ASSUME NEW n \in Nodes, NEW p \in Ports, NEW seq \in Number, NEW g, g = Announcement(n, p, seq)
    PROVE  g \in Frame /\ g.id = NoId
<1>1. PICK f : f = Build(Cfg[n].mac, seq)
  BY Zenon
<1>2. f \in Frame /\ f.id = NoId
  <2>1. <<>> \in HSRs /\ <<>> \in Seq(RCTs)
    BY DEF HSRs
  <2>2. Cfg[n].mac \in NodeMacs /\ Cfg[n].mac \in Macs
    BY Zenon DEF NodeMacs, Macs
  <2>3. f \in FrameType
    BY <1>1, <2>1, <2>2, Zenon DEF Build, FrameType
  <2>4. f.id = NoId /\ f.src = Cfg[n].mac /\ f.et = "sup"
    BY <1>1, Zenon DEF Build
  <2>. QED BY <2>2, <2>3, <2>4, Zenon DEF Frame, Genuine
<1>3. ASSUME NEW lan \in {0, 1}, NEW h, h = EncodeRCT(f, seq, lan) PROVE h \in Frame /\ h.id = NoId
  <2>1. f \in FrameType
    BY <1>2, Zenon DEF Frame
  <2>2. h \in FrameType /\ Kin(f, h)
    BY <1>3, <2>1, EncodeRCTFacts, Zenon
  <2>. QED BY <1>2, <2>2, KinGenuine, Zenon DEF Kin
<1>4. LanID(n) \in {0, 1}
  BY OwnPathFacts, Zenon
<1>5. \/ g = f
      \/ \E lan \in {0, 1} : g = EncodeRCT(f, seq, lan)
  BY <1>1, <1>4 DEF Announcement, BuildRCTed, BuildHSR
<1>. QED
  BY <1>2, <1>3, <1>5, Zenon

(* SendSupervisionFrame, as seen by the network. *)
Announces(n, out) ==
    /\ DOMAIN out \subseteq Ports
    /\ \A q \in DOMAIN out : out[q] \in Frame /\ out[q].id = NoId
    /\ Written(wire, wire', n, out) /\ Spread(n, out)
    /\ wire' \in Wires /\ got' = got

LEMMA AnnounceStep ==
    ASSUME TypeInv, NEW n \in Nodes, SendSupervisionFrame(n)
    PROVE  \E seq \in Number : \E out : Announces(n, out) /\ st' = [st EXCEPT ![n].supSeq = seq]
<1>1. PICK seq : seq = (st[n].supSeq + 1) % SeqMod
  BY Zenon
<1>2. PICK to : to = IF IsHSRPRPCoupling(n) \/ IsHSRHSR(n) THEN Ports ELSE Lans
  BY Zenon
<1>3. PICK out : out = [p \in to |-> Announcement(n, p, seq)]
  BY Zenon
<1>4. /\ st' = [st EXCEPT ![n].supSeq = seq]
      /\ wire' = Write(wire, n, out) /\ got' = ToStation(n, out)
  BY <1>1, <1>2, <1>3, Zenon DEF SendSupervisionFrame
<1>5. seq \in Number
  BY <1>1, NumberFacts DEF TypeInv, NodeOK, Number
<1>6. \A q \in DOMAIN out : q \in Ports /\ out[q] = Announcement(n, q, seq)
  BY <1>2, <1>3, Zenon DEF Ports
<1>7. \A q \in DOMAIN out : out[q] \in Frame /\ out[q].id = NoId
  BY <1>5, <1>6, AnnouncementFacts, Zenon
<1>8. wire \in Wires /\ got \in Deliveries /\ now \in Nat
  BY NetworkAssumption DEF TypeInv
<1>9. wire' \in Wires /\ Spread(n, out)
  BY <1>4, <1>7, <1>8, SpreadFacts, Zenon
<1>10. got' = got
  BY <1>4, <1>7, Zenon DEF ToStation
<1>11. Written(wire, wire', n, out)
  BY <1>4, <1>7, <1>8, WriteFacts, Zenon
<1>. QED
  BY <1>4, <1>5, <1>6, <1>7, <1>9, <1>10, <1>11, Zenon DEF Announces

LEMMA TypeAnnounce ==
    ASSUME TypeInv, NEW n \in Nodes, SendSupervisionFrame(n)
    PROVE  TypeInv'
<1>1. PICK seq, out : seq \in Number /\ Announces(n, out) /\ st' = [st EXCEPT ![n].supSeq = seq]
  BY AnnounceStep, Zenon
<1>2. /\ supSent < MaxSup /\ supSent' = supSent + 1 /\ now' = now /\ faulty' = faulty
      /\ boots' = boots /\ sentAt' = sentAt /\ handled' = handled
  BY Zenon DEF SendSupervisionFrame
<1>3. /\ \A i \in Ingress : \A g \in Range(wire'[i]) : g.id \in DOMAIN sentAt' \cup {NoId}
      /\ \A m \in Nodes : \A d \in Range(got'[m]) :
           d.frame.id \in DOMAIN sentAt' /\ d.at <= now'
  <2>1. /\ wire' \in Wires /\ Spread(n, out) /\ got' = got
        /\ \A q \in DOMAIN out : out[q].id \in DOMAIN sentAt \cup {NoId}
    BY <1>1, Zenon DEF Announces
  <2>2. got' \in Deliveries /\ Delivered(n, out)
    BY <2>1, Zenon DEF Delivered, TypeInv
  <2>. QED BY <1>2, <2>1, <2>2, FramesKnown, Zenon
<1>4. DOMAIN st' = Nodes /\ \A m \in Nodes : NodeOK(st'[m], now')
  <2>1. PICK node : node = [st[n] EXCEPT !.supSeq = seq]
    BY Zenon
  <2>2. st' = [st EXCEPT ![n] = node]
    BY <1>1, <2>1, Zenon
  <2>3. NodeOK(node, now)
    BY <1>1, <2>1, Zenon DEF TypeInv, NodeOK, NodeFields
  <2>. QED BY <1>2, <2>2, <2>3, Zenon DEF TypeInv
<1>5. supSent' \in 0..MaxSup
  BY <1>2, NetworkAssumption DEF TypeInv
<1>. QED
  BY <1>1, <1>2, <1>3, <1>4, <1>5, Zenon DEF TypeInv, Announces

LEMMA CleanupFacts ==
    ASSUME NEW node, NodeOK(node, now), NEW m, m = cleanupSupervisionSeen([node EXCEPT !.dup = Cleanup(@, now)])
    PROVE  /\ NodeOK(m, now) /\ m.dup = Cleanup(node.dup, now)
           /\ DOMAIN m.members \subseteq DOMAIN node.members
           /\ m.seqs = node.seqs /\ m.start = node.start
<1>1. PICK k : k = [node EXCEPT !.dup = Cleanup(@, now)]
  BY Zenon
<1>2. TableOK(Cleanup(node.dup, now), now)
  BY DeleteOK, Zenon DEF Cleanup, NodeOK
<1>3. /\ NodeOK(k, now) /\ k.dup = Cleanup(node.dup, now) /\ k.members = node.members
      /\ k.seqs = node.seqs /\ k.start = node.start
  BY <1>1, <1>2, Zenon DEF NodeOK, NodeFields
<1>4. CASE m = k
  BY <1>3, <1>4, Zenon
<1>5. CASE \E S, T : m = [k EXCEPT !.supSeen = Delete(@, S), !.members = Delete(@, T)]
  <2>1. PICK S, T : m = [k EXCEPT !.supSeen = Delete(@, S), !.members = Delete(@, T)]
    BY <1>5, Zenon
  <2>2. DOMAIN Delete(k.members, T) \subseteq DOMAIN k.members
    BY Zenon DEF Delete, Restrict
  <2>3. /\ m.members = Delete(k.members, T) /\ NodeOK(m, now) /\ m.dup = k.dup
        /\ m.seqs = k.seqs /\ m.start = k.start
    BY <1>3, <2>1, Zenon DEF NodeOK, NodeFields
  <2>. QED BY <1>3, <2>2, <2>3, Zenon
<1>6. m = cleanupSupervisionSeen(k)
  BY <1>1, Zenon
<1>. QED
  BY <1>4, <1>5, <1>6, Zenon DEF cleanupSupervisionSeen

LEMMA TypeCleanup ==
    ASSUME TypeInv, NEW n \in Nodes, periodicCleanup(n)
    PROVE  TypeInv'
<1>1. PICK node : node = cleanupSupervisionSeen([st[n] EXCEPT !.dup = Cleanup(@, now)])
  BY Zenon
<1>2. NodeOK(node, now)
  BY <1>1, CleanupFacts, Zenon DEF TypeInv
<1>3. st' = [st EXCEPT ![n] = node] /\ UNCHANGED <<wire, got, now, faulty, supSent, boots, sentAt, handled>>
  BY <1>1, Zenon DEF periodicCleanup
<1>. QED
  BY <1>2, <1>3, Zenon DEF TypeInv

LEMMA RestartFacts ==
    ASSUME TypeInv, NEW n \in Nodes, Restart(n)
    PROVE  /\ wire' \in Wires /\ \A i \in Ingress : Range(wire'[i]) \subseteq Range(wire[i])
           /\ \E start \in Starts : st' = [st EXCEPT ![n] = NewNode(start)]
<1>1. PICK a \in Suffixes(wire[<<n, "lan_a">>]), b \in Suffixes(wire[<<n, "lan_b">>]),
           c \in Suffixes(wire[<<n, "interlink">>]) :
          wire' = [wire EXCEPT ![<<n, "lan_a">>] = a, ![<<n, "lan_b">>] = b,
                               ![<<n, "interlink">>] = c]
  BY Zenon DEF Restart
<1>2. {<<n, "lan_a">>, <<n, "lan_b">>, <<n, "interlink">>} \subseteq Ingress
  BY DEF Ingress, Ports, Lans
<1>3. \A i \in Ingress : wire[i] \in Seq(Frame)
  BY Zenon DEF TypeInv, Wires
<1>4. /\ a \in Seq(Frame) /\ Range(a) \subseteq Range(wire[<<n, "lan_a">>])
      /\ b \in Seq(Frame) /\ Range(b) \subseteq Range(wire[<<n, "lan_b">>])
      /\ c \in Seq(Frame) /\ Range(c) \subseteq Range(wire[<<n, "interlink">>])
  BY <1>2, <1>3, RangeSuffix, Zenon
<1>5. /\ DOMAIN wire' = Ingress
      /\ \A i \in Ingress : \/ wire'[i] = wire[i]
                            \/ i = <<n, "lan_a">> /\ wire'[i] = a
                            \/ i = <<n, "lan_b">> /\ wire'[i] = b
                            \/ i = <<n, "interlink">> /\ wire'[i] = c
  BY <1>1, <1>2, Zenon DEF TypeInv, Wires
<1>6. \A i \in Ingress : wire'[i] \in Seq(Frame) /\ Range(wire'[i]) \subseteq Range(wire[i])
  BY <1>3, <1>4, <1>5, Zenon
<1>7. wire' \in Wires
  <2>1. wire' = [i \in Ingress |-> wire'[i]]
    BY <1>1, Zenon DEF TypeInv, Wires
  <2>. QED BY <1>6, <2>1, Zenon DEF Wires
<1>. QED
  BY <1>6, <1>7, Zenon DEF Restart

LEMMA TypeRestart ==
    ASSUME TypeInv, NEW n \in Nodes, Restart(n)
    PROVE  TypeInv'
<1>1. /\ wire' \in Wires /\ \A i \in Ingress : Range(wire'[i]) \subseteq Range(wire[i])
      /\ \E start \in Starts : st' = [st EXCEPT ![n] = NewNode(start)]
  BY RestartFacts, Zenon
<1>2. /\ boots < MaxBoots /\ boots' = boots + 1
      /\ UNCHANGED <<got, now, faulty, supSent, sentAt, handled>>
  BY Zenon DEF Restart
<1>3. boots' \in 0..MaxBoots /\ now \in Nat
  BY <1>2, NetworkAssumption DEF TypeInv
<1>4. DOMAIN st' = Nodes /\ \A m \in Nodes : NodeOK(st'[m], now')
  <2>1. PICK start \in Starts : st' = [st EXCEPT ![n] = NewNode(start)]
    BY <1>1, Zenon
  <2>2. NodeOK(NewNode(start), now)
    BY <1>3, NewNodeOK, Zenon
  <2>. QED BY <1>2, <2>1, <2>2, Zenon DEF TypeInv
<1>5. \A i \in Ingress : \A f \in Range(wire'[i]) : f.id \in DOMAIN sentAt' \cup {NoId}
  BY <1>1, <1>2, Zenon DEF TypeInv
<1>. QED
  BY <1>1, <1>2, <1>3, <1>4, <1>5, Zenon DEF TypeInv

LEMMA StationFrameFacts ==
    ASSUME NEW id \in Ids, NEW f, f = StationFrame(id)
    PROVE  /\ f \in Frame /\ f.id = id /\ f.vlan = Sends[id].vlan /\ f.src = Sends[id].src
           /\ f.hsr = <<>> /\ f.rct = <<>>
<1>1. <<>> \in HSRs /\ <<>> \in Seq(RCTs) /\ 0 \in Number
  BY NumberFacts DEF HSRs
<1>2. Sends[id].src \in Macs
  BY Zenon DEF Macs
<1>3. f \in FrameType
  BY <1>1, <1>2, Zenon DEF StationFrame, FrameType
<1>4. /\ f.id = id /\ f.vlan = Sends[id].vlan /\ f.src = Sends[id].src /\ f.et = "data"
      /\ f.hsr = <<>> /\ f.rct = <<>>
  BY Zenon DEF StationFrame
<1>. QED
  BY <1>3, <1>4, Zenon DEF Frame, Genuine

(* StationSends, as seen by the network. *)
LEMMA SendStep ==
    ASSUME TypeInv, NEW id \in Ids, StationSends(id)
    PROVE  /\ wire' \in Wires
           /\ \A i \in Ingress : \A g \in Range(wire'[i]) :
                 \/ g \in Range(wire[i])
                 \/ g = StationFrame(id) /\ i = <<Sends[id].node, "interlink">>
           /\ id \notin DOMAIN sentAt /\ DOMAIN sentAt' = DOMAIN sentAt \cup {id}
           /\ sentAt'[id] = now /\ \A x \in DOMAIN sentAt : sentAt'[x] = sentAt[x]
<1>1. PICK i0 : i0 = <<Sends[id].node, "interlink">>
  BY Zenon
<1>2. i0 \in Ingress
  BY <1>1, NetworkAssumption, Zenon DEF Ingress, Ports
<1>3. PICK f : f = StationFrame(id)
  BY Zenon
<1>4. f \in Frame
  BY <1>3, StationFrameFacts, Zenon
<1>5. wire[i0] \in Seq(Frame)
  BY <1>2, Zenon DEF TypeInv, Wires
<1>6. Append(wire[i0], f) \in Seq(Frame) /\ Range(Append(wire[i0], f)) \subseteq Range(wire[i0]) \cup {f}
  BY <1>4, <1>5, RangeAppend, Zenon
<1>7. wire' = [wire EXCEPT ![i0] = Append(@, f)] /\ id \notin DOMAIN sentAt
      /\ sentAt' = Assign(sentAt, id, now)
  BY <1>1, <1>3, Zenon DEF StationSends
<1>8. wire' \in Wires /\ \A i \in Ingress : \A g \in Range(wire'[i]) : g \in Range(wire[i]) \/ (g = f /\ i = i0)
  BY <1>2, <1>6, <1>7, Zenon DEF TypeInv, Wires
<1>9. /\ DOMAIN sentAt' = DOMAIN sentAt \cup {id} /\ sentAt'[id] = now
      /\ \A x \in DOMAIN sentAt : sentAt'[x] = sentAt[x]
  BY <1>7, Zenon DEF Assign
<1>. QED
  BY <1>1, <1>3, <1>7, <1>8, <1>9, Zenon

LEMMA TypeSends ==
    ASSUME TypeInv, NEW id \in Ids, StationSends(id)
    PROVE  TypeInv'
<1>1. /\ wire' \in Wires
      /\ \A i \in Ingress : \A g \in Range(wire'[i]) :
            g \in Range(wire[i]) \/ g = StationFrame(id)
      /\ DOMAIN sentAt' = DOMAIN sentAt \cup {id}
      /\ sentAt'[id] = now /\ \A x \in DOMAIN sentAt : sentAt'[x] = sentAt[x]
  BY SendStep, Zenon
<1>2. UNCHANGED <<st, got, now, faulty, supSent, boots, handled>>
  BY Zenon DEF StationSends
<1>3. StationFrame(id).id = id
  BY StationFrameFacts, Zenon
<1>4. \A i \in Ingress : \A g \in Range(wire'[i]) : g.id \in DOMAIN sentAt' \cup {NoId}
  BY <1>1, <1>3, Zenon DEF TypeInv
<1>5. \A n \in Nodes : \A d \in Range(got[n]) : d.frame.id \in DOMAIN sentAt' /\ d.at <= now
  BY <1>1, Zenon DEF TypeInv
<1>6. DOMAIN sentAt' \subseteq Ids /\ \A x \in DOMAIN sentAt' : sentAt'[x] \in 0..now
  BY <1>1, NetworkAssumption DEF TypeInv
<1>. QED
  BY <1>1, <1>2, <1>4, <1>5, <1>6, Zenon DEF TypeInv

LEMMA LoseFacts ==
    ASSUME TypeInv, NEW i \in Ingress, Lose(i)
    PROVE  wire' \in Wires /\ \A j \in Ingress : Range(wire'[j]) \subseteq Range(wire[j])
<1>1. wire[i] # <<>> /\ wire' = [wire EXCEPT ![i] = Tail(@)] /\ wire \in Wires
  BY Zenon DEF Lose, TypeInv
<1>. QED
  BY <1>1, TakeFacts, Zenon

LEMMA TypeLose ==
    ASSUME TypeInv, NEW i \in Ingress, Lose(i)
    PROVE  TypeInv'
<1>1. wire' \in Wires /\ \A j \in Ingress : Range(wire'[j]) \subseteq Range(wire[j])
  BY LoseFacts, Zenon
<1>2. UNCHANGED <<st, got, now, faulty, supSent, boots, sentAt, handled>>
  BY Zenon DEF Lose
<1>3. \A j \in Ingress : \A f \in Range(wire'[j]) : f.id \in DOMAIN sentAt' \cup {NoId}
  BY <1>1, <1>2, Zenon DEF TypeInv
<1>. QED
  BY <1>1, <1>2, <1>3, Zenon DEF TypeInv

LEMMA TypeTick == ASSUME TypeInv, Tick PROVE TypeInv'
<1>1. /\ now < MaxTime /\ now' = now + 1
      /\ UNCHANGED <<st, wire, got, faulty, supSent, boots, sentAt, handled>>
  BY Zenon DEF Tick
<1>2. now \in Nat /\ now' \in 0..MaxTime
  BY <1>1, NetworkAssumption DEF TypeInv
<1>3. ASSUME NEW n \in Nodes PROVE NodeOK(st[n], now')
  <2>1. NodeOK(st[n], now)
    BY Zenon DEF TypeInv
  <2>2. \A t \in 0..now : t \in 0..now'
    BY <1>1, <1>2
  <2>. QED BY <2>1, <2>2, Zenon DEF NodeOK, TableOK
<1>4. \A id \in DOMAIN sentAt : sentAt[id] \in 0..now'
  BY <1>1, <1>2 DEF TypeInv
<1>5. ASSUME NEW n \in Nodes, NEW d \in Range(got[n])
      PROVE  d.frame.id \in DOMAIN sentAt /\ d.at <= now'
  <2>1. d.at \in Nat
    <3>1. got[n] \in Seq([frame : Frame, at : Nat])
      BY Zenon DEF TypeInv, Deliveries
    <3>2. d \in [frame : Frame, at : Nat]
      BY <3>1, RangeElement, Zenon
    <3>. QED BY <3>2, Zenon
  <2>. QED BY <1>1, <1>2, <2>1 DEF TypeInv
<1>. QED
  BY <1>1, <1>2, <1>3, <1>4, <1>5, Zenon DEF TypeInv

LEMMA TypeNext == TypeInv /\ [Next]_vars => TypeInv'
<1>1. SUFFICES ASSUME TypeInv, [Next]_vars PROVE TypeInv'
  BY Zenon
<1>2. CASE UNCHANGED vars
  BY <1>1, <1>2, Zenon DEF vars, TypeInv
<1>3. CASE Next
  BY <1>1, <1>3, TypeHandle, TypeAnnounce, TypeCleanup, TypeRestart, TypeSends, TypeLose, TypeTick, Zenon
     DEF Next
<1>. QED
  BY <1>1, <1>2, <1>3, Zenon

LEMMA TypeAlways == Spec => []TypeInv
BY TypeInit, TypeNext, PTL DEF Spec

LEMMA TypeInvOK == TypeInv => TypeOK
<1>1. SUFFICES ASSUME TypeInv PROVE TypeOK
  BY Zenon
<1>2. ASSUME NEW n \in Nodes
      PROVE  /\ \A key \in DOMAIN st[n].dup : key[2] \in 0..(SeqMod - 1)
             /\ \A mac \in DOMAIN st[n].seqs : st[n].seqs[mac] \in 0..(SeqMod - 1)
             /\ st[n].supSeq \in 0..(SeqMod - 1)
  BY <1>1, Zenon DEF TypeInv, NodeOK, TableOK, Number
<1>3. ASSUME NEW i \in Ingress, NEW k \in DOMAIN wire[i], NEW f, f = wire[i][k]
      PROVE  /\ f.id \in DOMAIN sentAt \cup {NoId}
             /\ Len(f.hsr) <= 1 /\ (HasTag(f) => Path(f) \in 0..15)
  <2>1. wire[i] \in Seq(Frame) /\ f \in Range(wire[i])
    BY <1>1, <1>3, Zenon DEF TypeInv, Wires, Range
  <2>2. f \in FrameType
    BY <2>1, RangeElement DEF Frame
  <2>. QED BY <1>1, <2>1, <2>2, FrameFields, TagFacts, Zenon DEF TypeInv
<1>. QED
  BY <1>1, <1>2, <1>3, Zenon DEF TypeInv, TypeOK

(* Every RedBox network is type correct: sequence numbers in tables,       *)
(* counters and frames stay within 16 bits, a frame has at most one HSR    *)
(* tag with a 4-bit PathId, and every frame on a wire was sent by a        *)
(* station or announces a node (EncodeHSR, RewriteHSRPath,                 *)
(* SequenceManager.Next).                                                  *)
THEOREM TypeCorrect == Spec => []TypeOK
BY TypeAlways, TypeInvOK, PTL

-----------------------------------------------------------------------------
(* Where a frame on a wire, or in the hands of a station, comes from.      *)

LEMMA HopId ==
    ASSUME TypeInv, NEW n \in Nodes, NEW p \in Ports, NEW f \in Frame, NEW q, NEW g, Hop(n, p, f, q, g)
    PROVE  g.id = f.id /\ <<n, p>> \in Ingress
<1>1. NodeOK(st[n], now)
  BY Zenon DEF TypeInv
<1>2. Kin(f, g)
  BY <1>1, HopFacts, Zenon
<1>. QED
  BY <1>2, Zenon DEF Kin, Ingress

Origin(i, g) ==
    \/ g \in Range(wire[i])
    \/ g.id = NoId
    \/ \E id \in Ids : g = StationFrame(id) /\ i = <<Sends[id].node, "interlink">>
    \/ \E n \in Nodes, p, q \in Ports : \E f \in Range(wire[<<n, p>>]) :
          f \in Frame /\ Hop(n, p, f, q, g) /\ i \in Link[<<n, q>>]

GotFrom(n, d) ==
    \/ d \in Range(got[n])
    \/ \E p \in Ports : \E f \in Range(wire[<<n, p>>]) :
          /\ f \in Frame /\ Hop(n, p, f, "interlink", d.frame)
          /\ Link[<<n, "interlink">>] = {} /\ d.at = now

LEMMA GotAppend ==
    ASSUME NEW n \in Nodes, NEW out, got \in Deliveries, Delivered(n, out),
           \A q \in DOMAIN out : out[q] \in Frame,
           NEW m \in Nodes, NEW d \in Range(got'[m])
    PROVE  \/ d \in Range(got[m])
           \/ /\ m = n /\ "interlink" \in DOMAIN out /\ Link[<<n, "interlink">>] = {}
              /\ d = [frame |-> out["interlink"], at |-> now]
<1>1. CASE got' = got
  BY <1>1, Zenon
<1>2. CASE /\ "interlink" \in DOMAIN out /\ Link[<<n, "interlink">>] = {}
           /\ got' = [got EXCEPT ![n] = Append(@, [frame |-> out["interlink"], at |-> now])]
  <2>1. CASE m # n
    BY <1>2, <2>1, Zenon DEF Deliveries
  <2>2. CASE m = n
    <3>1. PICK e : e = [frame |-> out["interlink"], at |-> now]
      BY Zenon
    <3>2. got'[n] = Append(got[n], e) /\ got[n] \in Seq([frame : Frame, at : Nat])
      BY <1>2, <3>1, Zenon DEF Deliveries
    <3>3. PICK k \in DOMAIN got'[n] : d = got'[n][k]
      BY <2>2, Zenon DEF Range
    <3>4. d = e \/ (k \in DOMAIN got[n] /\ d = got[n][k])
      BY <3>2, <3>3
    <3>. QED BY <1>2, <2>2, <3>1, <3>4, Zenon DEF Range
  <2>. QED BY <2>1, <2>2, Zenon
<1>. QED
  BY <1>1, <1>2, Zenon DEF Delivered

LEMMA Origins ==
    ASSUME TypeInv, [Next]_vars
    PROVE  /\ \A i \in Ingress : \A g \in Range(wire'[i]) : Origin(i, g)
           /\ \A m \in Nodes : \A d \in Range(got'[m]) : GotFrom(m, d)
<1>. DEFINE Goal == /\ \A i \in Ingress : \A g \in Range(wire'[i]) : Origin(i, g)
                    /\ \A m \in Nodes : \A d \in Range(got'[m]) : GotFrom(m, d)
<1>1. CASE /\ \A i \in Ingress : Range(wire'[i]) \subseteq Range(wire[i])
           /\ got' = got
  BY <1>1, Zenon DEF Origin, GotFrom
<1>2. ASSUME NEW n \in Nodes, NEW p \in Ports, handleFrame(n, p) PROVE Goal
  <2>1. PICK f, node, out : Handling(n, p, f, node, out)
    BY <1>2, HandleFacts, Zenon
  <2>2. got \in Deliveries
    BY Zenon DEF TypeInv
  <2>3. f \in Frame /\ f \in Range(wire[<<n, p>>])
    BY <2>1, Zenon DEF Handling
  <2>4. \A q \in DOMAIN out : out[q] \in Frame /\ q \in Ports /\ Hop(n, p, f, q, out[q])
    BY <2>1, Zenon DEF Handling
  <2>5. Spread(n, out) /\ Delivered(n, out)
    BY <2>1, Zenon DEF Handling
  <2>6. ASSUME NEW i \in Ingress, NEW g \in Range(wire'[i]) PROVE Origin(i, g)
    <3>1. CASE g \in Range(wire[i])
      BY <3>1, Zenon DEF Origin
    <3>2. ASSUME NEW q \in DOMAIN out, i \in Link[<<n, q>>], g = out[q] PROVE Origin(i, g)
      <4>1. q \in Ports /\ Hop(n, p, f, q, g)
        BY <2>4, <3>2, Zenon
      <4>. QED BY <2>3, <3>2, <4>1, Zenon DEF Origin
    <3>. QED BY <2>5, <3>1, <3>2, Zenon DEF Spread
  <2>7. ASSUME NEW m \in Nodes, NEW d \in Range(got'[m]) PROVE GotFrom(m, d)
    <3>1. \/ d \in Range(got[m])
          \/ /\ m = n /\ "interlink" \in DOMAIN out /\ Link[<<n, "interlink">>] = {}
             /\ d = [frame |-> out["interlink"], at |-> now]
      BY <2>2, <2>4, <2>5, GotAppend, Zenon
    <3>2. CASE d \in Range(got[m])
      BY <3>2, Zenon DEF GotFrom
    <3>3. CASE /\ m = n /\ "interlink" \in DOMAIN out /\ Link[<<n, "interlink">>] = {}
               /\ d = [frame |-> out["interlink"], at |-> now]
      <4>1. Hop(n, p, f, "interlink", d.frame) /\ d.at = now
        BY <2>4, <3>3, Zenon
      <4>. QED BY <2>3, <3>3, <4>1, Zenon DEF GotFrom
    <3>. QED BY <3>1, <3>2, <3>3, Zenon
  <2>. QED BY <2>6, <2>7, Zenon
<1>3. ASSUME NEW n \in Nodes, SendSupervisionFrame(n) PROVE Goal
  <2>1. PICK out : Announces(n, out)
    BY <1>3, AnnounceStep, Zenon
  <2>2. ASSUME NEW i \in Ingress, NEW g \in Range(wire'[i]) PROVE Origin(i, g)
    <3>1. g \in Range(wire[i]) \/ g.id = NoId
      <4>1. Spread(n, out) /\ \A q \in DOMAIN out : out[q].id = NoId
        BY <2>1, Zenon DEF Announces
      <4>2. g \in Range(wire[i]) \/ \E q \in DOMAIN out : g = out[q]
        BY <4>1, Zenon DEF Spread
      <4>. QED BY <4>1, <4>2, Zenon
    <3>. QED BY <3>1, Zenon DEF Origin
  <2>3. ASSUME NEW m \in Nodes, NEW d \in Range(got'[m]) PROVE GotFrom(m, d)
    BY <2>1, <2>3, Zenon DEF Announces, GotFrom
  <2>. QED BY <2>2, <2>3, Zenon
<1>4. ASSUME NEW n \in Nodes, periodicCleanup(n) PROVE Goal
  BY <1>1, <1>4, Zenon DEF periodicCleanup
<1>5. ASSUME NEW n \in Nodes, Restart(n) PROVE Goal
  <2>1. \A i \in Ingress : Range(wire'[i]) \subseteq Range(wire[i])
    BY <1>5, RestartFacts, Zenon
  <2>. QED BY <1>1, <1>5, <2>1, Zenon DEF Restart
<1>6. ASSUME NEW id \in Ids, StationSends(id) PROVE Goal
  <2>1. \A i \in Ingress : \A g \in Range(wire'[i]) :
           \/ g \in Range(wire[i])
           \/ g = StationFrame(id) /\ i = <<Sends[id].node, "interlink">>
    BY <1>6, SendStep, Zenon
  <2>2. got' = got
    BY <1>6, Zenon DEF StationSends
  <2>. QED BY <2>1, <2>2, Zenon DEF Origin, GotFrom
<1>7. ASSUME NEW i \in Ingress, Lose(i) PROVE Goal
  <2>1. \A j \in Ingress : Range(wire'[j]) \subseteq Range(wire[j])
    BY <1>7, LoseFacts, Zenon
  <2>. QED BY <1>1, <1>7, <2>1, Zenon DEF Lose
<1>8. ASSUME Tick PROVE Goal
  BY <1>1, <1>8, Zenon DEF Tick
<1>9. ASSUME UNCHANGED vars PROVE Goal
  BY <1>1, <1>9, Zenon DEF vars
<1>. QED
  <2>. HIDE DEF Goal
  <2>1. Next \/ UNCHANGED vars
    BY Zenon
  <2>2. ASSUME Next PROVE Goal
    BY <2>2, <1>2, <1>3, <1>4, <1>5, <1>6, <1>7, <1>8, Zenon DEF Next
  <2>3. Goal
    BY <2>1, <2>2, <1>9, Zenon
  <2>. QED BY <2>3, Zenon DEF Goal

-----------------------------------------------------------------------------
(* The VLAN filter. *)

Allowed(id) ==
    Cfg[Sends[id].node].vlans = {} \/ Sends[id].vlan \in Cfg[Sends[id].node].vlans

(* A frame that the filter must stop is on the interlink of its own RedBox *)
(* or nowhere.                                                             *)
VlanInv ==
    /\ \A i \in Ingress : \A f \in Range(wire[i]) :
          f.id # NoId => Allowed(f.id) \/ i = <<Sends[f.id].node, "interlink">>
    /\ \A n \in Nodes : \A d \in Range(got[n]) : Allowed(d.frame.id)

LEMMA HopAllowed ==
    ASSUME TypeInv, FiltersAtPrp, NEW n \in Nodes, NEW p \in Ports, NEW q \in Ports, NEW f \in Frame, NEW g,
           Hop(n, p, f, q, g), g.id # NoId,
           Allowed(f.id) \/ <<n, p>> = <<Sends[f.id].node, "interlink">>
    PROVE  Allowed(g.id)
<1>1. NodeOK(st[n], now)
  BY Zenon DEF TypeInv
<1>2. g.id = f.id /\ f.id \in Ids /\ f.vlan = Sends[f.id].vlan /\ f.et = "data"
  <2>1. Kin(f, g)
    BY <1>1, HopFacts, Zenon
  <2>. QED BY <2>1, Zenon DEF Kin, Frame, Genuine
<1>3. CASE n = Sends[f.id].node /\ p = "interlink" /\ Cfg[n].vlans # {}
  <2>1. ~IsHSRNode(n) /\ ~IsHSRHSR(n)
    BY <1>2, <1>3, Zenon DEF FiltersAtPrp, IsHSRNode, IsHSRHSR
  <2>2. Sent(n, p, f, q, g)
    BY <1>2, <1>3, <2>1, Zenon DEF Hop, Bridged, Received, Circled, LeftRing, OtherRing, Injected, Lans
  <2>. QED BY <1>2, <1>3, <2>2, Zenon DEF Sent, VLANBlocked, Allowed
<1>. QED
  BY <1>2, <1>3, Zenon DEF Allowed

LEMMA VlanInit == Init => VlanInv
BY EmptyRange, Zenon DEF Init, VlanInv

LEMMA VlanNext == FiltersAtPrp /\ TypeInv /\ VlanInv /\ [Next]_vars => VlanInv'
<1>1. SUFFICES ASSUME FiltersAtPrp, TypeInv, VlanInv, [Next]_vars PROVE VlanInv'
  BY Zenon
<1>2. ASSUME NEW i \in Ingress, NEW g \in Range(wire'[i]), g.id # NoId
      PROVE  Allowed(g.id) \/ i = <<Sends[g.id].node, "interlink">>
  <2>1. Origin(i, g)
    BY <1>1, <1>2, Origins, Zenon
  <2>2. CASE g \in Range(wire[i])
    BY <1>1, <1>2, <2>2, Zenon DEF VlanInv
  <2>3. ASSUME NEW id \in Ids, g = StationFrame(id), i = <<Sends[id].node, "interlink">>
        PROVE  i = <<Sends[g.id].node, "interlink">>
    BY <2>3, StationFrameFacts, Zenon
  <2>4. ASSUME NEW n \in Nodes, NEW p \in Ports, NEW q \in Ports, NEW f \in Range(wire[<<n, p>>]),
               f \in Frame, Hop(n, p, f, q, g)
        PROVE  Allowed(g.id)
    <3>1. g.id = f.id /\ <<n, p>> \in Ingress
      BY <1>1, <2>4, HopId, Zenon
    <3>2. Allowed(f.id) \/ <<n, p>> = <<Sends[f.id].node, "interlink">>
      BY <1>1, <1>2, <3>1, Zenon DEF VlanInv
    <3>. QED BY <1>1, <1>2, <2>4, <3>2, HopAllowed, Zenon
  <2>. QED BY <1>2, <2>1, <2>2, <2>3, <2>4, Zenon DEF Origin
<1>3. ASSUME NEW m \in Nodes, NEW d \in Range(got'[m]) PROVE Allowed(d.frame.id)
  <2>1. GotFrom(m, d) /\ d.frame.id # NoId
    <3>1. TypeInv'
      BY <1>1, TypeNext, Zenon
    <3>. QED BY <1>1, <1>3, <3>1, Origins, NetworkAssumption, Zenon DEF TypeInv
  <2>2. CASE d \in Range(got[m])
    BY <1>1, <1>3, <2>2, Zenon DEF VlanInv
  <2>3. ASSUME NEW p \in Ports, NEW f \in Range(wire[<<m, p>>]), f \in Frame,
               Hop(m, p, f, "interlink", d.frame)
        PROVE  Allowed(d.frame.id)
    <3>1. d.frame.id = f.id /\ <<m, p>> \in Ingress /\ "interlink" \in Ports
      BY <1>1, <2>3, HopId DEF Ports
    <3>2. Allowed(f.id) \/ <<m, p>> = <<Sends[f.id].node, "interlink">>
      BY <1>1, <2>1, <3>1, Zenon DEF VlanInv
    <3>. QED BY <1>1, <2>1, <2>3, <3>1, <3>2, HopAllowed, Zenon
  <2>. QED BY <1>3, <2>1, <2>2, <2>3, Zenon DEF GotFrom
<1>. QED
  BY <1>2, <1>3, Zenon DEF VlanInv

(* The VLAN filter of a prp-san RedBox holds across every network: however *)
(* the RedBoxes are wired and whatever is lost, delayed or restarted, a    *)
(* frame with a VLAN outside the filter reaches no station                 *)
(* (handleInterlinkFrame).                                                 *)
THEOREM VlanIsolated == ASSUME FiltersAtPrp PROVE Spec => []VlanIsolation
<1>1. VlanInv /\ TypeInv => VlanIsolation
  BY Zenon DEF VlanInv, VlanIsolation, Allowed, Range
<1>. QED
  BY <1>1, TypeAlways, VlanInit, VlanNext, PTL DEF Spec

-----------------------------------------------------------------------------
(* The PathId rule of the coupling RedBoxes. *)

OfPrp(f) == f.id # NoId /\ ~IsHSRNode(Sends[f.id].node)
OfCoupledNet(f) == \A n \in Nodes : IsHSRPRPCoupling(n) => Path(f) \div 2 = NetID(n)

(* A frame of the PRP network waits at its own RedBox, or carries one      *)
(* trailer and, on the ring, the NetID of the network in its PathId.       *)
PathInv ==
    \A i \in Ingress : \A f \in Range(wire[i]) : OfPrp(f) =>
        \/ i = <<Sends[f.id].node, "interlink">> /\ f.hsr = <<>> /\ f.rct = <<>>
        \/ Len(f.rct) = 1 /\ (HasTag(f) => OfCoupledNet(f))

LEMMA CoupledPath ==
    ASSUME NEW m \in Nodes, IsHSRPRPCoupling(m), NetID(m) <= 7,
           \A n \in Nodes : IsHSRPRPCoupling(n) => NetID(m) = NetID(n),
           NEW g, Path(g) = OwnPath(m)
    PROVE  OfCoupledNet(g)
<1>1. NetID(m) \in Nat /\ LanID(m) \in {0, 1}
  BY OwnPathFacts, Zenon
<1>2. ((NetID(m) * 2 + LanID(m)) % 16) \div 2 = NetID(m)
  BY <1>1
<1>3. Path(g) \div 2 = NetID(m)
  BY <1>2, Zenon DEF OwnPath
<1>. QED
  BY <1>3, Zenon DEF OfCoupledNet

LEMMA PathHop ==
    ASSUME TypeInv, OneCoupledNetwork, NEW n \in Nodes, NEW p \in Ports, NEW q \in Ports,
           NEW f \in Frame, NEW g, Hop(n, p, f, q, g), OfPrp(f), NEW i \in Link[<<n, q>>],
           \/ <<n, p>> = <<Sends[f.id].node, "interlink">> /\ f.hsr = <<>> /\ f.rct = <<>>
           \/ /\ Len(f.rct) = 1 /\ (HasTag(f) => OfCoupledNet(f))
              /\ p = "interlink" => IsHSRPRPCoupling(n)
    PROVE  Len(g.rct) = 1 /\ (HasTag(g) => OfCoupledNet(g))
<1>. f \in FrameType /\ NodeOK(st[n], now) /\ f.id \in Ids /\ f.et = "data"
  BY Zenon DEF TypeInv, Frame, OfPrp, Genuine
<1>1. ~IsHSRHSR(n)
  BY Zenon DEF OneCoupledNetwork
<1>2. CASE <<n, p>> = <<Sends[f.id].node, "interlink">> /\ f.hsr = <<>> /\ f.rct = <<>>
  <2>1. ~IsHSRNode(n) /\ p = "interlink" /\ Cfg[n].trailer
    BY <1>2, Zenon DEF OfPrp, OneCoupledNetwork
  <2>2. Sent(n, p, f, q, g)
    BY <1>1, <2>1, Zenon DEF Hop, Bridged, Received, Circled, LeftRing, OtherRing, Injected, Lans
  <2>3. NextSeq(st[n], f.src) \in Number /\ ExpectedLan(q) \in {0, 1}
    BY AdvanceFacts, Zenon DEF ExpectedLan
  <2>4. g = EncodeRCT(f, NextSeq(st[n], f.src), ExpectedLan(q))
    BY <2>1, <2>2, Zenon DEF Sent
  <2>5. PICK t : t = [seq |-> NextSeq(st[n], f.src), lan |-> ExpectedLan(q)]
    BY Zenon
  <2>6. g.hsr = <<>> /\ g.rct = Append(<<>>, t)
    <3>1. PICK seq, lan : seq = NextSeq(st[n], f.src) /\ lan = ExpectedLan(q)
      BY Zenon
    <3>2. seq \in Number /\ lan \in {0, 1} /\ g = EncodeRCT(f, seq, lan)
      BY <2>3, <2>4, <3>1, Zenon
    <3>3. g.hsr = f.hsr /\ g.rct = Append(f.rct, [seq |-> seq, lan |-> lan])
      BY <3>2, EncodeRCTFacts, Zenon
    <3>. QED BY <1>2, <2>5, <3>1, <3>3, Zenon
  <2>. QED BY <2>6 DEF HasTag
<1>3. CASE /\ Len(f.rct) = 1 /\ (HasTag(f) => OfCoupledNet(f))
           /\ p = "interlink" => IsHSRPRPCoupling(n)
  <2>1. ~Bridged(n, p, f, q, g) /\ ~OtherRing(n, p, f, q, g)
    BY <1>1, Zenon DEF Bridged, OtherRing
  <2>2. ~Received(n, p, f, q, g)
    BY Zenon DEF Received, OneCoupledNetwork
  <2>3. ~Sent(n, p, f, q, g)
    BY <1>3, Zenon DEF Sent, IsHSRPRPCoupling, IsHSRNode
  <2>4. CASE Circled(n, p, f, q, g)
    <3>1. g.rct = f.rct /\ HasTag(f) /\ Path(g) \div 2 = Path(f) \div 2
      BY <2>4, RewriteLaneFacts, Zenon DEF Circled, Lane
    <3>. QED BY <1>3, <3>1, Zenon DEF OfCoupledNet
  <2>5. CASE LeftRing(n, p, f, q, g)
    <3>1. HasTag(f) /\ ~IsHSRPRPCoupling(n) /\ g = StripHSR(f)
      BY <1>1, <1>3, <2>5, Zenon DEF LeftRing, OfOwnNet, OfCoupledNet
    <3>2. g.rct = f.rct /\ g.hsr = <<>>
      BY <3>1, StripFacts, Zenon
    <3>. QED BY <1>3, <3>2, Zenon DEF HasTag
  <2>6. CASE Injected(n, p, f, q, g)
    <3>1. IsHSRPRPCoupling(n) /\ \E seq \in InjectionSeq(n, f) : g = EncodeHSR(f, OwnPath(n), seq)
      BY <1>3, <2>6, Zenon DEF Injected
    <3>2. g.rct = f.rct /\ Path(g) = OwnPath(n)
      <4>1. PICK seq \in InjectionSeq(n, f) : g = EncodeHSR(f, OwnPath(n), seq)
        BY <3>1, Zenon
      <4>2. seq \in Number /\ OwnPath(n) \in 0..15
        BY InjectionFacts, OwnPathFacts, Zenon
      <4>. QED BY <4>1, <4>2, EncodeHSRFacts, Zenon
    <3>3. NetID(n) <= 7 /\ \A m \in Nodes : IsHSRPRPCoupling(m) => NetID(n) = NetID(m)
      BY <3>1, Zenon DEF OneCoupledNetwork
    <3>. QED BY <1>3, <3>1, <3>2, <3>3, CoupledPath, Zenon
  <2>. QED BY <2>1, <2>2, <2>3, <2>4, <2>5, <2>6, Zenon DEF Hop
<1>. QED
  BY <1>2, <1>3, Zenon

LEMMA PathInit == Init => PathInv
BY EmptyRange, Zenon DEF Init, PathInv

(* Only a station writes to an isolated interlink. *)
RawInv ==
    \A n \in Nodes : Isolated(<<n, "interlink">>) =>
        \A f \in Range(wire[<<n, "interlink">>]) : f.id # NoId => f = StationFrame(f.id) /\ Sends[f.id].node = n

LEMMA RawInit == Init => RawInv
<1>1. \A n \in Nodes : <<n, "interlink">> \in Ingress
  BY Zenon DEF Ingress, Ports
<1>. QED
  BY <1>1, EmptyRange, Zenon DEF Init, RawInv

LEMMA RawNext == TypeInv /\ RawInv /\ [Next]_vars => RawInv'
<1>1. SUFFICES ASSUME TypeInv, RawInv, [Next]_vars, NEW n \in Nodes, Isolated(<<n, "interlink">>),
                      NEW g \in Range(wire'[<<n, "interlink">>]), g.id # NoId
               PROVE  g = StationFrame(g.id) /\ Sends[g.id].node = n
  BY Zenon DEF RawInv
<1>2. Origin(<<n, "interlink">>, g) /\ <<n, "interlink">> \in Ingress
  BY <1>1, Origins, Zenon DEF Ingress, Ports
<1>3. CASE g \in Range(wire[<<n, "interlink">>])
  BY <1>1, <1>3, Zenon DEF RawInv
<1>4. ASSUME NEW id \in Ids, g = StationFrame(id), <<n, "interlink">> = <<Sends[id].node, "interlink">>
      PROVE  g = StationFrame(g.id) /\ Sends[g.id].node = n
  BY <1>4, StationFrameFacts, Zenon
<1>5. ASSUME NEW m \in Nodes, NEW q \in Ports PROVE <<n, "interlink">> \notin Link[<<m, q>>]
  BY <1>1, Zenon DEF Isolated, Ingress
<1>. QED
  BY <1>1, <1>2, <1>3, <1>4, <1>5, Zenon DEF Origin

LEMMA RawAlways == Spec => []RawInv
BY TypeAlways, RawInit, RawNext, PTL DEF Spec

LEMMA PathNext == OneCoupledNetwork /\ TypeInv /\ RawInv /\ PathInv /\ [Next]_vars => PathInv'
<1>1. SUFFICES ASSUME OneCoupledNetwork, TypeInv, RawInv, PathInv, [Next]_vars,
                      NEW i \in Ingress, NEW g \in Range(wire'[i]), OfPrp(g)
               PROVE  \/ i = <<Sends[g.id].node, "interlink">> /\ g.hsr = <<>> /\ g.rct = <<>>
                      \/ Len(g.rct) = 1 /\ (HasTag(g) => OfCoupledNet(g))
  BY Zenon DEF PathInv
<1>2. Origin(i, g) /\ g.id # NoId
  BY <1>1, Origins, Zenon DEF OfPrp
<1>3. CASE g \in Range(wire[i])
  BY <1>1, <1>3, Zenon DEF PathInv
<1>4. ASSUME NEW id \in Ids, g = StationFrame(id), i = <<Sends[id].node, "interlink">>
      PROVE  i = <<Sends[g.id].node, "interlink">> /\ g.hsr = <<>> /\ g.rct = <<>>
  BY <1>4, StationFrameFacts, Zenon
<1>5. ASSUME NEW n \in Nodes, NEW p \in Ports, NEW q \in Ports, NEW f \in Range(wire[<<n, p>>]),
             f \in Frame, Hop(n, p, f, q, g), i \in Link[<<n, q>>]
      PROVE  Len(g.rct) = 1 /\ (HasTag(g) => OfCoupledNet(g))
  <2>1. g.id = f.id /\ <<n, p>> \in Ingress
    BY <1>1, <1>5, HopId, Zenon
  <2>2. OfPrp(f)
    BY <1>1, <2>1, Zenon DEF OfPrp
  <2>3. CASE p = "interlink" /\ ~IsHSRPRPCoupling(n)
    <3>1. f = StationFrame(f.id) /\ Sends[f.id].node = n /\ f.id \in Ids
      BY <1>1, <1>2, <1>5, <2>1, <2>3, Zenon DEF RawInv, OneCoupledNetwork, Frame, Genuine
    <3>2. f.hsr = <<>> /\ f.rct = <<>>
      BY <3>1, StationFrameFacts, Zenon
    <3>. QED BY <1>1, <1>5, <2>2, <2>3, <3>1, <3>2, PathHop, Zenon
  <2>4. CASE p = "interlink" => IsHSRPRPCoupling(n)
    <3>1. \/ <<n, p>> = <<Sends[f.id].node, "interlink">> /\ f.hsr = <<>> /\ f.rct = <<>>
          \/ Len(f.rct) = 1 /\ (HasTag(f) => OfCoupledNet(f))
      BY <1>1, <2>1, <2>2, Zenon DEF PathInv
    <3>. QED BY <1>1, <1>5, <2>2, <2>4, <3>1, PathHop, Zenon
  <2>. QED BY <2>3, <2>4, Zenon
<1>. QED
  BY <1>2, <1>3, <1>4, <1>5, Zenon DEF Origin

(* A frame of the coupled PRP network never comes back to one of its LANs  *)
(* from the ring, with any number of coupling RedBoxes and ring nodes, and *)
(* whatever is lost, delayed or restarted: the PathId rule does not need   *)
(* the duplicate tables (handleIncomingHSRFrame, couplingToPRP).           *)
THEOREM NeverReinjected == ASSUME OneCoupledNetwork PROVE Spec => []NoReinjection
<1>1. TypeInv /\ PathInv => NoReinjection
  <2>1. SUFFICES ASSUME TypeInv, PathInv, NEW i \in Ingress, NEW k \in DOMAIN wire[i], NEW f, f = wire[i][k],
                        Cfg[i[1]].role = "prp-san", i[2] \in Lans,
                        f.id # NoId, Cfg[Sends[f.id].node].role = "prp-san"
                 PROVE  Len(f.rct) = 1
    BY Zenon DEF NoReinjection
  <2>2. f \in Range(wire[i]) /\ OfPrp(f)
    BY <2>1, Zenon DEF Range, OfPrp, IsHSRNode
  <2>3. i # <<Sends[f.id].node, "interlink">>
    BY <2>1 DEF Lans
  <2>. QED BY <2>1, <2>2, <2>3, Zenon DEF PathInv
<1>. QED
  BY <1>1, TypeAlways, RawAlways, PathInit, PathNext, PTL DEF Spec
=============================================================================
