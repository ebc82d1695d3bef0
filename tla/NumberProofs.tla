---------------------------- MODULE NumberProofs ----------------------------
(***************************************************************************)
(* What any frame under way in the network is.  One that its RedBox has    *)
(* not taken yet is nowhere else; all the marks of a frame, on all its     *)
(* copies, bear one number; and no copy is older than MaxDelay.            *)
(***************************************************************************)
EXTENDS RedBoxProofs

(* Half a minute for a leaf. *)
USE SMTT(30)

Distinct(q) == \A j, k \in DOMAIN q : q[j].id = q[k].id /\ q[j].id # NoId => j = k

(* The interlink of node m holds each of its station's frames once, and no *)
(* copy of a frame that waits there is anywhere else.                      *)
FreshAt(m) ==
    /\ Distinct(wire[<<m, "interlink">>])
    /\ \A f \in Range(wire[<<m, "interlink">>]) : f.id # NoId =>
          /\ \A i \in Ingress \ {<<m, "interlink">>} : \A g \in Range(wire[i]) : g.id # f.id
          /\ \A n \in Nodes : \A d \in Range(got[n]) : d.frame.id # f.id

FreshInv == \A n \in Nodes : ServesStation(n) => FreshAt(n)

(* Every mark on a frame bears the number its RedBox gave it. *)
Bears(f, seq) ==
    (HasTag(f) => TagSeq(f) = seq) /\ (\A k \in DOMAIN f.rct : f.rct[k].seq = seq)

NumberInv(num) ==
    \A i \in Ingress : \A f \in Range(wire[i]) : f.id # NoId => Bears(f, num[f.id])

(* Where the frames of stations are that have no hsr-san RedBox. *)
Coupled == \E n \in Nodes : IsHSRPRPCoupling(n)

Placed(i, f) ==
    LET s == Sends[f.id].node
    IN  \/ i = <<s, "interlink">> /\ f = StationFrame(f.id)
        \/ IsHSRNode(s) /\ ServesStation(s)
        \/ ~IsHSRNode(s) /\ ~HasTag(f) /\ \E p \in Lans : i \in Link[<<s, p>>]
        \/ ~IsHSRNode(s) /\ HasTag(f) /\ Coupled /\ OfCoupledNet(f) /\ IsHSRNode(i[1])

PlaceInv == \A i \in Ingress : \A f \in Range(wire[i]) : f.id # NoId => Placed(i, f)

-----------------------------------------------------------------------------
(* A frame that waits at its RedBox is nowhere else. *)

LEMMA DistinctTail ==
    ASSUME NEW q \in Seq(Frame), q # <<>>, Distinct(q)
    PROVE  /\ Distinct(Tail(q))
           /\ \A f \in Range(Tail(q)) : f.id # NoId => f.id # Head(q).id
<1>. /\ 1 \in DOMAIN q /\ Head(q) = q[1]
     /\ \A k \in DOMAIN Tail(q) : k \in Nat \ {0} /\ k + 1 \in DOMAIN q /\ Tail(q)[k] = q[k + 1]
  OBVIOUS
<1>. PICK r : r = Tail(q)
  BY Zenon
<1>1. Distinct(r)
  <2>. SUFFICES ASSUME NEW j \in DOMAIN r, NEW k \in DOMAIN r, r[j].id = r[k].id, r[j].id # NoId
                PROVE  j = k
    BY Zenon DEF Distinct
  <2>1. j + 1 = k + 1
    BY DEF Distinct
  <2>. QED BY <2>1
<1>2. ASSUME NEW f \in Range(r), f.id # NoId PROVE f.id # Head(q).id
  <2>1. PICK k \in DOMAIN r : f = r[k]
    BY Zenon DEF Range
  <2>2. f = q[k + 1] /\ k + 1 \in DOMAIN q /\ k + 1 # 1
    BY <2>1
  <2>. QED BY <1>2, <2>2, Zenon DEF Distinct
<1>. QED
  BY <1>1, <1>2, Zenon

LEMMA DistinctAppend ==
    ASSUME NEW q \in Seq(Frame), NEW f \in Frame, Distinct(q),
           \A g \in Range(q) : g.id # f.id
    PROVE  Distinct(Append(q, f))
<1>. PICK r : r = Append(q, f)
  BY Zenon
<1>1. \A k \in DOMAIN r : (k \in DOMAIN q /\ r[k] = q[k]) \/ (k = Len(q) + 1 /\ r[k] = f)
  OBVIOUS
<1>2. \A k \in DOMAIN q : q[k].id # f.id
  BY Zenon DEF Range
<1>. QED
  BY <1>1, <1>2, Zenon DEF Distinct

(* A step whose new frames and deliveries are copies of frame f, taken     *)
(* from another port or from the head of this one.                         *)
LEMMA FreshCopies ==
    ASSUME TypeInv, NEW m \in Nodes, NEW j, j = <<m, "interlink">>, FreshAt(m), NEW x,
           \A i \in Ingress \ {j} : \A g \in Range(wire'[i]) : g \in Range(wire[i]) \/ g.id = x,
           \A n \in Nodes : \A d \in Range(got'[n]) : d \in Range(got[n]) \/ d.frame.id = x,
           Distinct(wire'[j]), Range(wire'[j]) \subseteq Range(wire[j]),
           \A f \in Range(wire'[j]) : f.id # NoId => f.id # x
    PROVE  FreshAt(m)'
BY Zenon DEF FreshAt

(* What is left at an interlink when a node has taken frame f. *)
LEMMA TakenOnce ==
    ASSUME WellWired, TypeInv, FreshInv, NEW n \in Nodes, NEW p \in Ports, NEW f, NEW node, NEW out,
           Handling(n, p, f, node, out), NEW m \in Nodes, ServesStation(m), NEW j, j = <<m, "interlink">>
    PROVE  /\ wire'[j] = IF j = <<n, p>> THEN Tail(wire[j]) ELSE wire[j]
           /\ Distinct(wire'[j]) /\ Range(wire'[j]) \subseteq Range(wire[j])
           /\ \A g \in Range(wire'[j]) : g.id # NoId => g.id # f.id
<1>. j \in Ingress /\ FreshAt(m) /\ Isolated(j) /\ Distinct(wire[j])
  BY Zenon DEF FreshInv, FreshAt, WellWired, Ingress, Ports
<1>. wire \in Wires /\ wire[j] \in Seq(Frame)
  BY Zenon DEF TypeInv, Wires
<1>. /\ <<n, p>> \in Ingress /\ wire[<<n, p>>] # <<>> /\ f = Head(wire[<<n, p>>])
     /\ f \in Range(wire[<<n, p>>]) /\ \A q \in DOMAIN out : q \in Ports
     /\ Written([wire EXCEPT ![<<n, p>>] = Tail(@)], wire', n, out)
  BY Zenon DEF Handling
<1>. wire'[j] = IF j = <<n, p>> THEN Tail(wire[j]) ELSE wire[j]
  <2>1. \A q \in DOMAIN out : j \notin Link[<<n, q>>]
    BY Zenon DEF Isolated, Ingress
  <2>2. wire'[j] = [wire EXCEPT ![<<n, p>>] = Tail(@)][j]
    BY <2>1, Zenon DEF Written
  <2>. QED BY <2>2, Zenon DEF Wires
<1>1. Distinct(wire'[j]) /\ Range(wire'[j]) \subseteq Range(wire[j])
  BY DistinctTail, RangeTail, Zenon
<1>2. ASSUME NEW g \in Range(wire'[j]), g.id # NoId PROVE g.id # f.id
  <2>1. CASE j = <<n, p>>
    BY <1>2, <2>1, DistinctTail, Zenon
  <2>2. CASE j # <<n, p>>
    BY <1>1, <1>2, <2>2, Zenon DEF FreshAt
  <2>. QED BY <2>1, <2>2, Zenon
<1>. QED
  BY <1>1, <1>2, Zenon

LEMMA FreshHandle ==
    ASSUME WellWired, TypeInv, FreshInv, NEW n \in Nodes, NEW p \in Ports, NEW f, NEW node, NEW out,
           Handling(n, p, f, node, out)
    PROVE  FreshInv'
<1>. SUFFICES ASSUME NEW m \in Nodes, ServesStation(m) PROVE FreshAt(m)'
  BY Zenon DEF FreshInv, FreshAt
<1>. PICK j : j = <<m, "interlink">>
  BY Zenon
<1>1. /\ Distinct(wire'[j]) /\ Range(wire'[j]) \subseteq Range(wire[j])
      /\ \A g \in Range(wire'[j]) : g.id # NoId => g.id # f.id
  BY TakenOnce
<1>. /\ \A q \in DOMAIN out : q \in Ports /\ out[q] \in Frame /\ out[q].id = f.id
     /\ Spread(n, out) /\ Delivered(n, out) /\ got \in Deliveries
  BY Zenon DEF Handling, Kin, TypeInv
<1>2. \A i \in Ingress \ {j} : \A g \in Range(wire'[i]) : g \in Range(wire[i]) \/ g.id = f.id
  <2>. SUFFICES ASSUME NEW i \in Ingress, NEW g \in Range(wire'[i]) PROVE g \in Range(wire[i]) \/ g.id = f.id
    BY Zenon
  <2>1. g \in Range(wire[i]) \/ \E q \in DOMAIN out : g = out[q]
    BY Zenon DEF Spread
  <2>. QED BY <2>1, Zenon
<1>3. \A k \in Nodes : \A d \in Range(got'[k]) : d \in Range(got[k]) \/ d.frame.id = f.id
  <2>. SUFFICES ASSUME NEW k \in Nodes, NEW d \in Range(got'[k]) PROVE d \in Range(got[k]) \/ d.frame.id = f.id
    BY Zenon
  <2>1. \/ d \in Range(got[k])
        \/ "interlink" \in DOMAIN out /\ d = [frame |-> out["interlink"], at |-> now]
    BY GotAppend, Zenon
  <2>. QED BY <2>1
<1>. QED
  BY <1>1, <1>2, <1>3, FreshCopies, Zenon DEF FreshInv

LEMMA FreshSends ==
    ASSUME WellWired, TypeInv, FreshInv, NEW id \in Ids, StationSends(id)
    PROVE  FreshInv'
<1>. SUFFICES ASSUME NEW m \in Nodes, ServesStation(m) PROVE FreshAt(m)'
  BY Zenon DEF FreshInv, FreshAt
<1>. PICK j : j = <<m, "interlink">>
  BY Zenon
<1>. j \in Ingress /\ FreshAt(m) /\ wire \in Wires /\ wire[j] \in Seq(Frame) /\ Distinct(wire[j])
  BY Zenon DEF FreshInv, FreshAt, Ingress, Ports, TypeInv, Wires
<1>. PICK f : f = StationFrame(id)
  BY Zenon
<1>. f \in Frame /\ f.id = id /\ id # NoId
  BY StationFrameFacts, NetworkAssumption, Zenon
<1>. PICK k : k = <<Sends[id].node, "interlink">>
  BY Zenon
<1>1. k \in Ingress
  BY NetworkAssumption, Zenon DEF Ingress, Ports
<1>. wire' = [wire EXCEPT ![k] = Append(@, f)] /\ got' = got /\ id \notin DOMAIN sentAt
  BY Zenon DEF StationSends
<1>2. \A i \in Ingress : \A g \in Range(wire[i]) : g.id # id
  BY Zenon DEF TypeInv
<1>3. \A n \in Nodes : \A d \in Range(got[n]) : d.frame.id # id
  BY Zenon DEF TypeInv
<1>4. \A i \in Ingress : \A g \in Range(wire'[i]) : g \in Range(wire[i]) \/ (i = k /\ g = f)
  BY SendStep, Zenon
<1>5. Distinct(wire'[j])
  <2>1. CASE j # k
    BY <1>1, <2>1, Zenon DEF Wires
  <2>2. CASE j = k
    BY <1>1, <1>2, <2>2, DistinctAppend, Zenon DEF Wires
  <2>. QED BY <2>1, <2>2, Zenon
<1>6. ASSUME NEW g \in Range(wire'[j]), g.id # NoId,
             NEW i \in Ingress \ {j}, NEW h \in Range(wire'[i])
      PROVE  h.id # g.id
  <2>1. CASE g \in Range(wire[j]) /\ h \in Range(wire[i])
    BY <1>6, <2>1, Zenon DEF FreshAt
  <2>. QED BY <1>2, <1>4, <1>6, <2>1, Zenon
<1>7. ASSUME NEW g \in Range(wire'[j]), g.id # NoId, NEW n \in Nodes, NEW d \in Range(got'[n])
      PROVE  d.frame.id # g.id
  <2>1. CASE g \in Range(wire[j])
    BY <1>7, <2>1, Zenon DEF FreshAt
  <2>. QED BY <1>3, <1>4, <2>1, Zenon
<1>. QED
  BY <1>5, <1>6, <1>7, Zenon DEF FreshAt

LEMMA FreshAnnounces ==
    ASSUME WellWired, TypeInv, FreshInv, NEW n \in Nodes, SendSupervisionFrame(n)
    PROVE  FreshInv'
<1>. SUFFICES ASSUME NEW m \in Nodes, ServesStation(m) PROVE FreshAt(m)'
  BY Zenon DEF FreshInv
<1>. PICK j : j = <<m, "interlink">>
  BY Zenon
<1>. j \in Ingress /\ FreshAt(m) /\ Isolated(j)
  BY Zenon DEF FreshInv, WellWired, Ingress, Ports
<1>. PICK out : Announces(n, out)
  BY AnnounceStep, Zenon
<1>. /\ \A q \in DOMAIN out : out[q] \in Frame /\ out[q].id = NoId
     /\ Written(wire, wire', n, out) /\ Spread(n, out) /\ got' = got
  BY Zenon DEF Announces
<1>1. wire'[j] = wire[j]
  <2>1. \A q \in DOMAIN out : j \in Link[<<n, q>>] => FALSE
    <3>1. \A i \in DOMAIN Link : j \notin Link[i]
      BY RedBoxAssumption, Zenon DEF Isolated
    <3>2. DOMAIN Link = Ingress
      BY RedBoxAssumption, Zenon
    <3>3. DOMAIN out \subseteq Ports
      BY Zenon DEF Announces
    <3>. QED BY <3>1, <3>2, <3>3, Zenon DEF Ingress
  <2>. QED BY <2>1, Zenon DEF Written
<1>2. Distinct(wire'[j]) /\ Range(wire'[j]) \subseteq Range(wire[j])
      /\ \A f \in Range(wire'[j]) : f.id # NoId => f.id # NoId
  BY <1>1, Zenon DEF FreshAt
<1>3. \A i \in Ingress \ {j} : \A g \in Range(wire'[i]) : g \in Range(wire[i]) \/ g.id = NoId
  <2>. SUFFICES ASSUME NEW i \in Ingress, NEW g \in Range(wire'[i]) PROVE g \in Range(wire[i]) \/ g.id = NoId
    BY Zenon
  <2>1. g \in Range(wire[i]) \/ \E q \in DOMAIN out : g = out[q]
    BY Zenon DEF Spread
  <2>. QED BY <2>1, Zenon
<1>. QED
  BY <1>2, <1>3, FreshCopies, Zenon

LEMMA FreshLose ==
    ASSUME WellWired, TypeInv, FreshInv, NEW i \in Ingress, Lose(i)
    PROVE  FreshInv'
<1>. SUFFICES ASSUME NEW m \in Nodes, ServesStation(m) PROVE FreshAt(m)'
  BY Zenon DEF FreshInv
<1>. PICK j : j = <<m, "interlink">>
  BY Zenon
<1>. j \in Ingress /\ FreshAt(m) /\ wire \in Wires /\ wire[j] \in Seq(Frame)
  BY Zenon DEF FreshInv, TypeInv, Ingress, Ports, Wires
<1>. wire[i] # <<>> /\ wire' = [wire EXCEPT ![i] = Tail(@)] /\ got' = got
  BY Zenon DEF Lose
<1>1. \A k \in Ingress : Range(wire'[k]) \subseteq Range(wire[k])
  BY LoseFacts, Zenon
<1>2. Distinct(wire'[j])
  <2>1. CASE i = j
    BY <2>1, DistinctTail, Zenon DEF FreshAt, Wires
  <2>2. CASE i # j
    BY <2>2, Zenon DEF FreshAt, Wires
  <2>. QED BY <2>1, <2>2, Zenon
<1>. QED
  BY <1>1, <1>2, Zenon DEF FreshAt

LEMMA FreshInit == Init => FreshInv
<1>1. \A n \in Nodes : <<n, "interlink">> \in Ingress
  BY Zenon DEF Ingress, Ports
<1>2. Init => \A i \in Ingress : wire[i] = <<>> /\ Range(wire[i]) = {}
  BY EmptyRange, Zenon DEF Init
<1>. QED
  BY <1>1, <1>2 DEF FreshInv, FreshAt, Distinct

LEMMA FreshNext ==
    ASSUME WellWired, TypeInv, FreshInv, [Next]_vars, boots' = boots
    PROVE  FreshInv'
<1>1. CASE wire' = wire /\ got' = got
  BY <1>1, Zenon DEF FreshInv, FreshAt
<1>2. ASSUME NEW n \in Nodes, NEW p \in Ports, handleFrame(n, p) PROVE FreshInv'
  BY <1>2, HandleFacts, FreshHandle, Zenon
<1>3. ASSUME NEW n \in Nodes, SendSupervisionFrame(n) PROVE FreshInv'
  BY <1>3, FreshAnnounces, Zenon
<1>4. ASSUME NEW n \in Nodes, periodicCleanup(n) PROVE FreshInv'
  BY <1>1, <1>4, Zenon DEF periodicCleanup
<1>5. ASSUME NEW n \in Nodes, Restart(n) PROVE FALSE
  BY <1>5 DEF Restart, TypeInv
<1>6. ASSUME NEW id \in Ids, StationSends(id) PROVE FreshInv'
  BY <1>6, FreshSends, Zenon
<1>7. ASSUME NEW i \in Ingress, Lose(i) PROVE FreshInv'
  BY <1>7, FreshLose, Zenon
<1>8. Tick => FreshInv'
  BY <1>1, Zenon DEF Tick
<1>9. UNCHANGED vars => FreshInv'
  BY <1>1, Zenon DEF vars
<1>. QED
  BY <1>2, <1>3, <1>4, <1>5, <1>6, <1>7, <1>8, <1>9, Zenon DEF Next

-----------------------------------------------------------------------------
(* Where the frames are. *)

LEMMA PlaceHop ==
    ASSUME WellWired, TypeInv, RawInv, NEW n \in Nodes, NEW p \in Ports, NEW q \in Ports,
           NEW f \in Range(wire[<<n, p>>]), f \in Frame, f.id # NoId, Placed(<<n, p>>, f),
           NEW g, Hop(n, p, f, q, g), g.id = f.id, NEW i \in Link[<<n, q>>]
    PROVE  Placed(i, g)
<1>. f \in FrameType /\ NodeOK(st[n], now) /\ f.id \in Ids /\ f.et = "data" /\ <<n, p>> \in Ingress
  BY Zenon DEF TypeInv, Frame, Genuine, Ingress
<1>. PICK s : s = Sends[f.id].node
  BY Zenon
<1>. s \in Nodes
  BY NetworkAssumption, Zenon
<1>. ~Bridged(n, p, f, q, g)
  BY Zenon DEF Bridged
<1>. \A m \in Nodes : ServesStation(m) => Isolated(<<m, "interlink">>) /\ Link[<<m, "interlink">>] = {}
  BY Zenon DEF WellWired
<1>. ~Received(n, p, f, q, g)
  BY Zenon DEF Received, ServesStation, IsHSRNode, IsHSRHSR, IsHSRPRPCoupling
<1>1. ASSUME IsHSRNode(n), q \in Lans PROVE IsHSRNode(i[1])
  BY <1>1, Zenon DEF WellWired
<1>2. CASE <<n, p>> = <<s, "interlink">> /\ f = StationFrame(f.id)
  <2>. n = s /\ p = "interlink" /\ p \notin Lans
    BY <1>2, Zenon DEF Lans
  <2>. f.hsr = <<>> /\ f.rct = <<>>
    BY <1>2, StationFrameFacts
  <2>. ~HasTag(f) /\ ~HasRCT(f)
    BY Zenon DEF HasTag, HasRCT
  <2>1. ~Circled(n, p, f, q, g) /\ ~LeftRing(n, p, f, q, g) /\ ~OtherRing(n, p, f, q, g)
    BY Zenon DEF Circled, LeftRing, OtherRing
  <2>2. CASE Sent(n, p, f, q, g)
    <3>1. ~IsHSRNode(s) /\ q \in Lans
      BY <2>2, Zenon DEF Sent
    <3>2. g.hsr = f.hsr
      BY <2>2, Zenon DEF Sent, EncodeRCT, FrameType
    <3>. QED BY <3>1, <3>2, Zenon DEF Placed, HasTag
  <2>3. CASE Injected(n, p, f, q, g)
    <3>1. ~IsHSRPRPCoupling(n) /\ IsHSRNode(n) /\ ~IsHSRHSR(n)
      BY <2>3, Zenon DEF Injected, InjectionSeq
    <3>. QED BY <3>1, Zenon DEF Placed, ServesStation
  <2>. QED BY <2>1, <2>2, <2>3, Zenon DEF Hop
<1>3. CASE IsHSRNode(s) /\ ServesStation(s)
  BY <1>3, Zenon DEF Placed
<1>4. CASE Injected(n, p, f, q, g) /\ IsHSRPRPCoupling(n) /\ ~IsHSRNode(s)
  <2>1. PICK seq \in InjectionSeq(n, f) : g = EncodeHSR(f, OwnPath(n), seq)
    BY <1>4, Zenon DEF Injected
  <2>2. seq \in Number /\ OwnPath(n) \in 0..15
    BY InjectionFacts, OwnPathFacts, Zenon
  <2>3. PICK path \in 0..15 : path = OwnPath(n)
    BY <2>2, Zenon
  <2>4. f \in FrameType /\ g = EncodeHSR(f, path, seq)
    BY <2>1, <2>3, Zenon
  <2>5. HasTag(g) /\ Path(g) = path
    BY ONLY <2>2, <2>3, <2>4, EncodeHSRFacts, Zenon
  <2>6. NetID(n) <= 7 /\ \A m \in Nodes : IsHSRPRPCoupling(m) => NetID(n) = NetID(m)
    BY <1>4, Zenon DEF WellWired
  <2>7. OfCoupledNet(g)
    BY <1>4, <2>3, <2>5, <2>6, CoupledPath, Zenon
  <2>8. IsHSRNode(i[1])
    BY <1>1, <1>4, Zenon DEF Injected
  <2>. QED BY <1>4, <2>3, <2>5, <2>7, <2>8, Zenon DEF Placed, Coupled
<1>5. CASE ~IsHSRNode(s) /\ ~HasTag(f) /\ \E r \in Lans : <<n, p>> \in Link[<<s, r>>]
  <2>1. ~Isolated(<<n, p>>)
    BY <1>5, Zenon DEF Isolated, Ingress, Ports
  <2>2. ~Circled(n, p, f, q, g) /\ ~LeftRing(n, p, f, q, g) /\ ~OtherRing(n, p, f, q, g)
    BY <1>5, Zenon DEF Circled, LeftRing, OtherRing
  <2>3. ~Sent(n, p, f, q, g)
    BY <2>1, Zenon DEF Sent, ServesStation, IsHSRNode, IsHSRHSR, IsHSRPRPCoupling
  <2>4. Injected(n, p, f, q, g)
    BY <2>2, <2>3, Zenon DEF Hop
  <2>5. IsHSRPRPCoupling(n)
    BY <2>1, <2>4, Zenon DEF Injected, ServesStation
  <2>. QED BY <1>4, <1>5, <2>4, <2>5, Zenon
<1>6. CASE ~IsHSRNode(s) /\ HasTag(f) /\ Coupled /\ OfCoupledNet(f) /\ IsHSRNode(n)
  <2>. ~Sent(n, p, f, q, g) /\ ~OtherRing(n, p, f, q, g) /\ ~IsHSRHSR(n)
    BY <1>6, Zenon DEF Sent, OtherRing, WellWired, Coupled
  <2>1. ~LeftRing(n, p, f, q, g)
    BY <1>6, Zenon DEF LeftRing, OfOwnNet, OfCoupledNet, ServesStation
  <2>2. CASE Circled(n, p, f, q, g)
    <3>1. HasTag(g) /\ Path(g) \div 2 = Path(f) \div 2
      BY <2>2, RewriteLaneFacts, Zenon DEF Circled, Lane
    <3>2. IsHSRNode(i[1])
      BY <1>1, <2>2, Zenon DEF Circled, Other, Lans
    <3>. QED BY <1>6, <3>1, <3>2, Zenon DEF Placed, OfCoupledNet
  <2>3. CASE Injected(n, p, f, q, g)
    <3>1. CASE IsHSRPRPCoupling(n)
      BY <1>4, <1>6, <2>3, <3>1, Zenon
    <3>2. CASE ServesStation(n)
      <4>1. f = StationFrame(f.id)
        BY <2>3, <3>2, Zenon DEF RawInv, Injected
      <4>. QED BY <1>6, <4>1, StationFrameFacts, Zenon DEF HasTag
    <3>. QED BY <3>1, <3>2, Zenon DEF ServesStation
  <2>. QED BY <2>1, <2>2, <2>3, Zenon DEF Hop
<1>. QED
  BY <1>2, <1>3, <1>5, <1>6, Zenon DEF Placed

LEMMA PlaceNext ==
    ASSUME WellWired, TypeInv, RawInv, PlaceInv, [Next]_vars
    PROVE  PlaceInv'
<1>. SUFFICES ASSUME NEW i \in Ingress, NEW g \in Range(wire'[i]), g.id # NoId PROVE Placed(i, g)
  BY Zenon DEF PlaceInv
<1>1. Origin(i, g)
  BY Origins, Zenon
<1>2. CASE g \in Range(wire[i])
  BY <1>2, Zenon DEF PlaceInv
<1>3. ASSUME NEW id \in Ids, g = StationFrame(id), i = <<Sends[id].node, "interlink">>
      PROVE  Placed(i, g)
  <2>1. g.id = id
    BY <1>3, StationFrameFacts, Zenon
  <2>. QED BY <1>3, <2>1, Zenon DEF Placed
<1>4. ASSUME NEW n \in Nodes, NEW p \in Ports, NEW q \in Ports, NEW f \in Range(wire[<<n, p>>]),
             f \in Frame, Hop(n, p, f, q, g), i \in Link[<<n, q>>]
      PROVE  Placed(i, g)
  <2>1. g.id = f.id /\ <<n, p>> \in Ingress
    BY <1>4, HopId, Zenon
  <2>2. Placed(<<n, p>>, f)
    BY <1>4, <2>1, Zenon DEF PlaceInv
  <2>. QED BY <1>4, <2>1, <2>2, PlaceHop, Zenon
<1>. QED
  BY <1>1, <1>2, <1>3, <1>4, Zenon DEF Origin

-----------------------------------------------------------------------------
(* The number a frame has on all its marks. *)

(* A RedBox gives a number to what it takes from its own station. *)
Renumbered(n, p, f, num) ==
    IF p = "interlink" /\ ServesStation(n) /\ f.id # NoId
    THEN [num EXCEPT ![f.id] = NextSeq(st[n], f.src)] ELSE num

LEMMA BearsAppend ==
    ASSUME NEW f \in FrameType, NEW seq \in Number, NEW lan \in {0, 1}, NEW g,
           g = EncodeRCT(f, seq, lan), Bears(f, seq)
    PROVE  Bears(g, seq)
<1>1. g.hsr = f.hsr /\ g.rct = Append(f.rct, [seq |-> seq, lan |-> lan]) /\ f.rct \in Seq(RCTs)
  BY EncodeRCTFacts, FrameFields, Zenon
<1>. PICK t : t = [seq |-> seq, lan |-> lan]
  BY Zenon
<1>2. \A k \in DOMAIN g.rct : (k \in DOMAIN f.rct /\ g.rct[k] = f.rct[k]) \/ g.rct[k] = t
  BY <1>1
<1>3. t.seq = seq
  BY Zenon
<1>4. \A k \in DOMAIN g.rct : g.rct[k].seq = seq
  BY <1>2, <1>3, Zenon DEF Bears
<1>. QED
  BY <1>1, <1>4, Zenon DEF Bears, HasTag, TagSeq

LEMMA BearsTag ==
    ASSUME NEW f \in FrameType, NEW seq \in Number, NEW path \in 0..15, NEW g,
           g = EncodeHSR(f, path, seq), \A k \in DOMAIN f.rct : f.rct[k].seq = seq
    PROVE  Bears(g, seq)
<1>1. g.rct = f.rct /\ g.hsr = <<[path |-> path, seq |-> seq]>>
  BY Zenon DEF FrameType, EncodeHSR
<1>2. TagSeq(g) = seq
  BY <1>1 DEF TagSeq
<1>. QED
  BY <1>1, <1>2, Zenon DEF Bears

LEMMA BearsTrailer ==
    ASSUME NEW f \in FrameType, NEW seq, Bears(f, seq), HasRCT(f)
    PROVE  Trailer(f).seq = seq
<1>1. f.rct \in Seq(RCTs) /\ Len(f.rct) \in Nat \ {0}
  BY FrameFields, TrailerFacts, Zenon
<1>2. Len(f.rct) \in DOMAIN f.rct
  BY <1>1
<1>. QED
  BY <1>2, Zenon DEF Bears, Trailer

(* The numbers on a frame that leaves node n at port q. *)
LEMMA HopBears ==
    ASSUME TypeInv, NEW n \in Nodes, NEW p \in Ports, NEW f \in Frame, f.id # NoId,
           NEW num \in [Ids -> Number], Bears(f, num[f.id]),
           p = "interlink" /\ ServesStation(n) => f.hsr = <<>> /\ f.rct = <<>>,
           NEW q \in Ports, NEW g, Hop(n, p, f, q, g),
           NEW seq, seq = Renumbered(n, p, f, num)[f.id]
    PROVE  Bears(g, seq)
<1>. f \in FrameType /\ f.id \in Ids /\ f.et = "data" /\ NodeOK(st[n], now) /\ "interlink" \notin Lans
  BY Zenon DEF Frame, Genuine, TypeInv, Lans
<1>. seq \in Number /\ NextSeq(st[n], f.src) \in Number
  BY AdvanceFacts, Zenon DEF Renumbered
<1>1. CASE p = "interlink" /\ ServesStation(n)
  <2>. seq = NextSeq(st[n], f.src) /\ f.hsr = <<>> /\ f.rct = <<>>
    BY <1>1, Zenon DEF Renumbered
  <2>. Bears(f, seq) /\ ~HasTag(f)
    BY DEF Bears, HasTag
  <2>1. Sent(n, p, f, q, g) \/ Injected(n, p, f, q, g)
    BY <1>1, Zenon DEF Hop, Bridged, Received, Circled, LeftRing, OtherRing
  <2>2. CASE Sent(n, p, f, q, g)
    <3>1. g = f \/ g = EncodeRCT(f, seq, ExpectedLan(q))
      BY <2>2, Zenon DEF Sent
    <3>2. ExpectedLan(q) \in {0, 1}
      BY Zenon DEF ExpectedLan
    <3>. QED BY <3>1, <3>2, BearsAppend, Zenon
  <2>3. CASE Injected(n, p, f, q, g)
    <3>1. g = EncodeHSR(f, OwnPath(n), seq)
      BY <1>1, <2>3, Zenon DEF Injected, InjectionSeq, ServesStation
    <3>2. OwnPath(n) \in 0..15 /\ \A k \in DOMAIN f.rct : f.rct[k].seq = seq
      BY OwnPathFacts, Zenon DEF Bears
    <3>. QED BY <3>1, <3>2, BearsTag, Zenon
  <2>. QED BY <2>1, <2>2, <2>3, Zenon
<1>2. CASE ~(p = "interlink" /\ ServesStation(n))
  <2>. seq = num[f.id] /\ Bears(f, seq)
    BY <1>2, Zenon DEF Renumbered
  <2>1. ~Bridged(n, p, f, q, g) /\ ~Sent(n, p, f, q, g)
    BY <1>2, Zenon DEF Bridged, Sent, ServesStation, IsHSRNode, IsHSRHSR, IsHSRPRPCoupling
  <2>2. CASE Received(n, p, f, q, g)
    <3>1. g.hsr = f.hsr /\ g.rct = SubSeq(f.rct, 1, Len(f.rct) - 1)
      BY <2>2, DropRCTFacts, Zenon DEF Received
    <3>2. f.rct \in Seq(RCTs) /\ Len(f.rct) \in Nat \ {0}
      BY <2>2, FrameFields, TrailerFacts, Zenon DEF Received
    <3>3. \A k \in DOMAIN g.rct : k \in DOMAIN f.rct /\ g.rct[k] = f.rct[k]
      BY <3>1, <3>2
    <3>. QED BY <3>1, <3>3, Zenon DEF Bears, HasTag, TagSeq
  <2>3. CASE Circled(n, p, f, q, g)
    <3>1. g.rct = f.rct /\ TagSeq(g) = TagSeq(f) /\ HasTag(f)
      BY <2>3, RewriteLaneFacts, Zenon DEF Circled, Lane
    <3>. QED BY <3>1, Zenon DEF Bears
  <2>4. CASE LeftRing(n, p, f, q, g)
    <3>. PICK h : h = StripHSR(f)
      BY Zenon
    <3>. h \in FrameType /\ h.hsr = <<>> /\ h.rct = f.rct /\ TagSeq(f) = seq
      BY <2>4, StripFacts, Zenon DEF Bears, LeftRing
    <3>1. Bears(h, seq)
      BY Zenon DEF Bears, HasTag
    <3>2. Bears(EncodeRCT(h, seq, LanID(n)), seq)
      BY <3>1, BearsAppend, OwnPathFacts, Zenon
    <3>3. g = f \/ g = h \/ g = EncodeRCT(h, seq, LanID(n))
      BY <2>4, Zenon DEF LeftRing, couplingToPRP
    <3>. QED BY <3>1, <3>2, <3>3, Zenon
  <2>5. CASE OtherRing(n, p, f, q, g)
    <3>1. g.rct = f.rct /\ TagSeq(g) = TagSeq(f) /\ HasTag(f)
      BY <2>5, RewriteFacts DEF OtherRing
    <3>. QED BY <3>1, Zenon DEF Bears
  <2>6. CASE Injected(n, p, f, q, g)
    <3>1. IsHSRPRPCoupling(n) /\ HasRCT(f)
      BY <1>2, <2>6, Zenon DEF Injected, ServesStation, InjectionSeq
    <3>2. g = EncodeHSR(f, OwnPath(n), seq)
      BY <2>6, <3>1, BearsTrailer, Zenon DEF Injected, InjectionSeq
    <3>3. OwnPath(n) \in 0..15 /\ \A k \in DOMAIN f.rct : f.rct[k].seq = seq
      BY OwnPathFacts, Zenon DEF Bears
    <3>. QED BY <3>2, <3>3, BearsTag, Zenon
  <2>. QED BY <2>1, <2>2, <2>3, <2>4, <2>5, <2>6, Zenon DEF Hop
<1>. QED
  BY <1>1, <1>2, Zenon

(* The numbers that are in use do not change. *)
Agrees(num, new) ==
    /\ \A m \in Nodes : \A d \in Range(got[m]) : new[d.frame.id] = num[d.frame.id]
    /\ \A i \in Ingress : \A g \in Range(wire[i]) :
          g.id # NoId /\ i # <<Sends[g.id].node, "interlink">> => new[g.id] = num[g.id]

LEMMA NumberHandle ==
    ASSUME WellWired, TypeInv, RawInv, FreshInv, NEW num \in [Ids -> Number], NumberInv(num),
           NEW n \in Nodes, NEW p \in Ports, NEW f, NEW node, NEW out,
           Handling(n, p, f, node, out),
           NEW new, new = Renumbered(n, p, f, num)
    PROVE  new \in [Ids -> Number] /\ NumberInv(new)' /\ Agrees(num, new)
<1>. /\ f \in Frame /\ f \in Range(wire[<<n, p>>]) /\ <<n, p>> \in Ingress
     /\ \A q \in DOMAIN out : q \in Ports /\ Kin(f, out[q]) /\ Hop(n, p, f, q, out[q])
     /\ Spread(n, out)
  BY Zenon DEF Handling
<1>. f.id # NoId => f.id \in Ids
  BY Zenon DEF Frame, Genuine
<1>1. new \in [Ids -> Number]
  <2>1. NextSeq(st[n], f.src) \in Number
    BY AdvanceFacts, Zenon DEF TypeInv
  <2>. QED BY <2>1, Zenon DEF Renumbered
<1>2. ASSUME NEW m \in Nodes, ServesStation(m), NEW g \in Range(wire[<<m, "interlink">>]), g.id # NoId
      PROVE  /\ g = StationFrame(g.id) /\ Sends[g.id].node = m
             /\ \A seq : Bears(g, seq) /\ g.hsr = <<>> /\ g.rct = <<>>
  <2>1. g = StationFrame(g.id) /\ Sends[g.id].node = m
    BY <1>2, Zenon DEF RawInv, WellWired
  <2>2. <<m, "interlink">> \in Ingress /\ g \in Frame
    BY <1>2, RangeElement, Zenon DEF TypeInv, Wires, Ingress, Ports
  <2>3. g.id \in Ids
    BY <1>2, <2>2, Zenon DEF Frame, Genuine
  <2>4. g.hsr = <<>> /\ g.rct = <<>>
    BY <2>1, <2>3, StationFrameFacts, Zenon
  <2>. QED BY <2>1, <2>4 DEF Bears, HasTag
<1>3. ASSUME NEW i \in Ingress, NEW g \in Range(wire[i]), g.id # NoId, new[g.id] # num[g.id]
      PROVE  ServesStation(n) /\ i = <<n, "interlink">> /\ Sends[g.id].node = n
  <2>. p = "interlink" /\ ServesStation(n) /\ g.id = f.id
    BY <1>3 DEF Renumbered
  <2>1. Sends[f.id].node = n
    BY <1>2, <1>3, Zenon
  <2>2. FreshAt(n)
    BY Zenon DEF FreshInv
  <2>. QED BY <1>3, <2>1, <2>2, Zenon DEF FreshAt
<1>4. ASSUME NEW i \in Ingress, NEW h \in Range(wire'[i]), h.id # NoId PROVE Bears(h, new[h.id])
  <2>1. CASE h \in Range(wire[i])
    <3>1. CASE new[h.id] = num[h.id]
      BY <1>4, <2>1, <3>1, Zenon DEF NumberInv
    <3>2. CASE new[h.id] # num[h.id]
      BY <1>2, <1>3, <1>4, <2>1, <3>2, Zenon
    <3>. QED BY <3>1, <3>2, Zenon
  <2>2. ASSUME NEW q \in DOMAIN out, h = out[q] PROVE Bears(h, new[h.id])
    <3>1. Kin(f, h) /\ Hop(n, p, f, q, h) /\ q \in Ports
      BY <2>2, Zenon
    <3>. h.id = f.id
      BY <3>1, Zenon DEF Kin
    <3>2. Bears(f, num[f.id])
      BY <1>4, Zenon DEF NumberInv
    <3>3. p = "interlink" /\ ServesStation(n) => f.hsr = <<>> /\ f.rct = <<>>
      BY <1>2, <1>4, Zenon
    <3>. PICK seq : seq = Renumbered(n, p, f, num)[f.id]
      BY Zenon
    <3>4. Bears(h, seq)
      BY <1>4, <3>1, <3>2, <3>3, HopBears, Zenon
    <3>. QED BY <3>4, Zenon
  <2>. QED BY <2>1, <2>2, Zenon DEF Spread
<1>5. ASSUME NEW m \in Nodes, NEW d \in Range(got[m]) PROVE new[d.frame.id] = num[d.frame.id]
  <2>1. CASE p = "interlink" /\ ServesStation(n) /\ d.frame.id = f.id
    <3>1. FreshAt(n)
      BY <2>1, Zenon DEF FreshInv
    <3>2. d.frame.id # NoId
      BY <1>5, NetworkAssumption, Zenon DEF TypeInv
    <3>. QED BY <1>5, <2>1, <3>1, <3>2, Zenon DEF FreshAt
  <2>2. CASE ~(p = "interlink" /\ ServesStation(n) /\ d.frame.id = f.id)
    BY <1>5, <2>2 DEF Renumbered
  <2>. QED BY <2>1, <2>2, Zenon
<1>. QED
  BY <1>1, <1>3, <1>4, <1>5, Zenon DEF NumberInv, Agrees

-----------------------------------------------------------------------------
(* What every step keeps. *)

LEMMA ClockFacts ==
    ASSUME TypeInv, [Next]_vars
    PROVE  now \in Nat /\ now' \in Nat /\ now <= now' /\ (now' = now \/ Tick)
<1>1. now \in Nat
  BY NetworkAssumption DEF TypeInv
<1>2. ASSUME NEW n \in Nodes, NEW p \in Ports, handleFrame(n, p) PROVE now' = now
  <2>1. PICK f, node, out : Handling(n, p, f, node, out)
    BY <1>2, HandleFacts, Zenon
  <2>. QED BY <2>1, Zenon DEF Handling, Handles, Finish
<1>3. ASSUME NEW n \in Nodes, SendSupervisionFrame(n) \/ periodicCleanup(n) \/ Restart(n)
      PROVE  now' = now
  BY <1>3, Zenon DEF SendSupervisionFrame, periodicCleanup, Restart
<1>4. ASSUME NEW id \in Ids, StationSends(id) PROVE now' = now
  BY <1>4, Zenon DEF StationSends
<1>5. ASSUME NEW i \in Ingress, Lose(i) PROVE now' = now
  BY <1>5, Zenon DEF Lose
<1>6. UNCHANGED vars => now' = now
  BY Zenon DEF vars
<1>7. now' = now \/ Tick
  BY <1>2, <1>3, <1>4, <1>5, <1>6, Zenon DEF Next
<1>. QED
  BY <1>1, <1>7 DEF Tick

LEMMA SentKept ==
    ASSUME TypeInv, [Next]_vars
    PROVE  \A x \in DOMAIN sentAt : x \in DOMAIN sentAt' /\ sentAt'[x] = sentAt[x]
<1>. DEFINE Kept == \A x \in DOMAIN sentAt : x \in DOMAIN sentAt' /\ sentAt'[x] = sentAt[x]
<1>1. sentAt' = sentAt => Kept
  BY Zenon
<1>2. ASSUME NEW n \in Nodes, NEW p \in Ports, handleFrame(n, p) PROVE sentAt' = sentAt
  <2>1. PICK f, node, out : Handling(n, p, f, node, out)
    BY <1>2, HandleFacts, Zenon
  <2>. QED BY <2>1, Zenon DEF Handling, Handles, Finish
<1>3. ASSUME NEW n \in Nodes, SendSupervisionFrame(n) \/ periodicCleanup(n) \/ Restart(n)
      PROVE  sentAt' = sentAt
  BY <1>3, Zenon DEF SendSupervisionFrame, periodicCleanup, Restart
<1>4. ASSUME NEW id \in Ids, StationSends(id) PROVE Kept
  BY <1>4, SendStep, Zenon
<1>5. ASSUME NEW i \in Ingress, Lose(i) PROVE sentAt' = sentAt
  BY <1>5, Zenon DEF Lose
<1>6. Tick => sentAt' = sentAt
  BY Zenon DEF Tick
<1>7. UNCHANGED vars => sentAt' = sentAt
  BY Zenon DEF vars
<1>. HIDE DEF Kept
<1>8. Kept
  BY <1>1, <1>2, <1>3, <1>4, <1>5, <1>6, <1>7, Zenon DEF Next
<1>. QED
  BY <1>8, Zenon DEF Kept

LEMMA BootsFacts ==
    ASSUME TypeInv, [Next]_vars, boots' = 0
    PROVE  boots' = boots
<1>1. boots \in Nat
  BY NetworkAssumption DEF TypeInv
<1>2. ASSUME NEW n \in Nodes, NEW p \in Ports, handleFrame(n, p) PROVE boots' = boots
  <2>1. PICK f, node, out : Handling(n, p, f, node, out)
    BY <1>2, HandleFacts, Zenon
  <2>. QED BY <2>1, Zenon DEF Handling, Handles, Finish
<1>3. ASSUME NEW n \in Nodes, SendSupervisionFrame(n) \/ periodicCleanup(n)
      PROVE  boots' = boots
  BY <1>3, Zenon DEF SendSupervisionFrame, periodicCleanup
<1>4. ASSUME NEW n \in Nodes, Restart(n) PROVE FALSE
  BY <1>1, <1>4 DEF Restart
<1>5. ASSUME NEW id \in Ids, StationSends(id) PROVE boots' = boots
  BY <1>5, Zenon DEF StationSends
<1>6. ASSUME NEW i \in Ingress, Lose(i) PROVE boots' = boots
  BY <1>6, Zenon DEF Lose
<1>7. Tick => boots' = boots
  BY Zenon DEF Tick
<1>8. UNCHANGED vars => boots' = boots
  BY Zenon DEF vars
<1>. QED
  BY <1>2, <1>3, <1>4, <1>5, <1>6, <1>7, <1>8, Zenon DEF Next

(* A step in which no node handles a frame. *)
Quiet ==
    /\ \A i \in Ingress : \A g \in Range(wire'[i]) :
          g.id # NoId => \/ g \in Range(wire[i])
                         \/ /\ g.id \in Ids /\ g = StationFrame(g.id) /\ g.id \notin DOMAIN sentAt
                            /\ i = <<Sends[g.id].node, "interlink">>
    /\ got' = got

LEMMA QuietSteps ==
    ASSUME TypeInv, [Next]_vars, boots' = boots, \A n \in Nodes, p \in Ports : ~handleFrame(n, p)
    PROVE  Quiet
<1>1. CASE (\A i \in Ingress : Range(wire'[i]) \subseteq Range(wire[i])) /\ got' = got
  BY <1>1, Zenon DEF Quiet
<1>2. ASSUME NEW n \in Nodes, SendSupervisionFrame(n) PROVE Quiet
  <2>1. PICK out : Announces(n, out)
    BY <1>2, AnnounceStep, Zenon
  <2>. (\A q \in DOMAIN out : out[q].id = NoId) /\ Spread(n, out) /\ got' = got
    BY <2>1, Zenon DEF Announces
  <2>2. ASSUME NEW i \in Ingress, NEW g \in Range(wire'[i]), g.id # NoId PROVE g \in Range(wire[i])
    <3>1. g \in Range(wire[i]) \/ \E q \in DOMAIN out : g = out[q]
      BY Zenon DEF Spread
    <3>. QED BY <2>2, <3>1, Zenon
  <2>. QED BY <2>2, Zenon DEF Quiet
<1>3. ASSUME NEW n \in Nodes, periodicCleanup(n) PROVE Quiet
  BY <1>1, <1>3, Zenon DEF periodicCleanup
<1>4. ASSUME NEW n \in Nodes, Restart(n) PROVE FALSE
  <2>1. boots \in Nat
    BY NetworkAssumption DEF TypeInv
  <2>2. boots' = boots + 1
    BY <1>4, Zenon DEF Restart
  <2>. QED BY <2>1, <2>2
<1>5. ASSUME NEW id \in Ids, StationSends(id) PROVE Quiet
  <2>1. /\ id \notin DOMAIN sentAt
        /\ \A i \in Ingress : \A g \in Range(wire'[i]) :
              \/ g \in Range(wire[i])
              \/ g = StationFrame(id) /\ i = <<Sends[id].node, "interlink">>
    BY <1>5, SendStep, Zenon
  <2>2. StationFrame(id).id = id
    BY StationFrameFacts, Zenon
  <2>3. got' = got
    BY <1>5, Zenon DEF StationSends
  <2>. QED BY <2>1, <2>2, <2>3, Zenon DEF Quiet
<1>6. ASSUME NEW i \in Ingress, Lose(i) PROVE Quiet
  <2>1. \A j \in Ingress : Range(wire'[j]) \subseteq Range(wire[j])
    BY <1>6, LoseFacts, Zenon
  <2>. QED BY <1>1, <1>6, <2>1, Zenon DEF Lose
<1>7. Tick => Quiet
  BY <1>1, Zenon DEF Tick
<1>8. UNCHANGED vars => Quiet
  BY <1>1, Zenon DEF vars
<1>. QED
  BY <1>2, <1>3, <1>4, <1>5, <1>6, <1>7, <1>8, Zenon DEF Next

-----------------------------------------------------------------------------
(* How long a frame is under way. *)

(* A frame is in transit no longer than MaxDelay. *)
TransitInv ==
    \A i \in Ingress : \A f \in Range(wire[i]) :
        f.id # NoId => now - sentAt[f.id] <= MaxDelay

(* A step that puts no frame on a wire which has not been on one before.   *)
NoNewFrame ==
    /\ now' = now /\ sentAt' = sentAt
    /\ \A i \in Ingress : \A g \in Range(wire'[i]) : g.id # NoId =>
          \E j \in Ingress : \E f \in Range(wire[j]) : f.id = g.id

LEMMA TransitKept ==
    ASSUME TransitInv, NoNewFrame
    PROVE  TransitInv'
<1>. SUFFICES ASSUME NEW i \in Ingress, NEW g \in Range(wire'[i]), g.id # NoId
              PROVE  now - sentAt[g.id] <= MaxDelay
  BY Zenon DEF TransitInv, NoNewFrame
<1>1. PICK j \in Ingress : \E f \in Range(wire[j]) : f.id = g.id
  BY Zenon DEF NoNewFrame
<1>. QED
  BY <1>1, Zenon DEF TransitInv

LEMMA TransitSends ==
    ASSUME TypeInv, TransitInv, NEW id \in Ids, StationSends(id)
    PROVE  TransitInv'
<1>. /\ \A i \in Ingress : \A g \in Range(wire'[i]) : g \in Range(wire[i]) \/ g = StationFrame(id)
     /\ sentAt'[id] = now /\ \A x \in DOMAIN sentAt : sentAt'[x] = sentAt[x]
  BY SendStep, Zenon
<1>. now' = now
  BY Zenon DEF StationSends
<1>1. now \in Nat /\ MaxDelay \in Nat
  BY NetworkAssumption DEF TypeInv
<1>2. ASSUME NEW i \in Ingress, NEW g \in Range(wire'[i]), g.id # NoId
      PROVE  now' - sentAt'[g.id] <= MaxDelay
  <2>1. CASE g \in Range(wire[i])
    <3>1. g.id \in DOMAIN sentAt
      BY <1>2, <2>1, Zenon DEF TypeInv
    <3>. QED BY <1>1, <1>2, <2>1, <3>1, Zenon DEF TransitInv
  <2>2. CASE g = StationFrame(id)
    <3>1. g.id = id
      BY <2>2, StationFrameFacts, Zenon
    <3>. QED BY <1>1, <3>1
  <2>. QED BY <1>2, <2>1, <2>2, Zenon
<1>. QED
  BY <1>2, Zenon DEF TransitInv

LEMMA TransitInit == Init => TransitInv
<1>1. ASSUME Init PROVE \A i \in Ingress : Range(wire[i]) = {}
  BY <1>1, EmptyRange, Zenon DEF Init
<1>. QED
  BY <1>1, Zenon DEF TransitInv

LEMMA TransitNext == TypeInv /\ TransitInv /\ [Next]_vars => TransitInv'
<1>. SUFFICES ASSUME TypeInv, TransitInv, [Next]_vars PROVE TransitInv'
  BY Zenon
<1>1. CASE now' = now /\ sentAt' = sentAt /\ \A i \in Ingress : Range(wire'[i]) \subseteq Range(wire[i])
  BY <1>1, TransitKept, Zenon DEF NoNewFrame
<1>2. ASSUME NEW n \in Nodes, NEW p \in Ports, handleFrame(n, p) PROVE TransitInv'
  <2>1. PICK f, node, out : Handling(n, p, f, node, out)
    BY <1>2, HandleFacts, Zenon
  <2>. /\ <<n, p>> \in Ingress /\ f \in Range(wire[<<n, p>>]) /\ Spread(n, out)
       /\ \A q \in DOMAIN out : out[q].id = f.id
       /\ now' = now /\ sentAt' = sentAt
    BY <2>1, Zenon DEF Handling, Handles, Finish, Kin
  <2>2. ASSUME NEW i \in Ingress, NEW g \in Range(wire'[i])
        PROVE  \E j \in Ingress : \E h \in Range(wire[j]) : h.id = g.id
    <3>1. g \in Range(wire[i]) \/ \E q \in DOMAIN out : g = out[q]
      BY <2>2, Zenon DEF Spread
    <3>2. CASE g \in Range(wire[i])
      BY <3>2, Zenon
    <3>3. ASSUME NEW q \in DOMAIN out, g = out[q] PROVE g.id = f.id
      BY <3>3, Zenon
    <3>. QED BY <3>1, <3>2, <3>3, Zenon
  <2>. QED BY <2>2, TransitKept, Zenon DEF NoNewFrame
<1>3. ASSUME NEW n \in Nodes, SendSupervisionFrame(n) PROVE TransitInv'
  <2>1. PICK out : Announces(n, out)
    BY <1>3, AnnounceStep, Zenon
  <2>2. Spread(n, out) /\ \A q \in DOMAIN out : out[q].id = NoId
    BY <2>1, Zenon DEF Announces
  <2>3. ASSUME NEW i \in Ingress, NEW g \in Range(wire'[i]), g.id # NoId PROVE g \in Range(wire[i])
    <3>1. g \in Range(wire[i]) \/ \E q \in DOMAIN out : g = out[q]
      BY <2>2, <2>3, Zenon DEF Spread
    <3>. QED BY <2>2, <2>3, <3>1, Zenon
  <2>4. now' = now /\ sentAt' = sentAt
    BY <1>3, Zenon DEF SendSupervisionFrame
  <2>. QED BY <2>3, <2>4, TransitKept, Zenon DEF NoNewFrame
<1>4. ASSUME NEW n \in Nodes, periodicCleanup(n) PROVE TransitInv'
  BY <1>1, <1>4, Zenon DEF periodicCleanup
<1>5. ASSUME NEW n \in Nodes, Restart(n) PROVE TransitInv'
  <2>1. \A i \in Ingress : Range(wire'[i]) \subseteq Range(wire[i])
    BY <1>5, RestartFacts, Zenon
  <2>. QED BY <1>1, <1>5, <2>1, Zenon DEF Restart
<1>6. ASSUME NEW id \in Ids, StationSends(id) PROVE TransitInv'
  BY <1>6, TransitSends, Zenon
<1>7. ASSUME NEW i \in Ingress, Lose(i) PROVE TransitInv'
  <2>1. \A j \in Ingress : Range(wire'[j]) \subseteq Range(wire[j])
    BY <1>7, LoseFacts, Zenon
  <2>. QED BY <1>1, <1>7, <2>1, Zenon DEF Lose
<1>8. ASSUME Tick PROVE TransitInv'
  <2>1. wire' = wire /\ sentAt' = sentAt /\ now' = now + 1
    BY <1>8, Zenon DEF Tick
  <2>2. ASSUME NEW i \in Ingress, NEW f \in Range(wire'[i]), f.id # NoId
        PROVE  now' - sentAt'[f.id] <= MaxDelay
    <3>1. f \in Range(wire[i])
      BY <2>1, <2>2, Zenon
    <3>2. PICK k \in DOMAIN wire[i] : f = wire[i][k]
      BY <3>1, Zenon DEF Range
    <3>3. now + 1 - sentAt[f.id] <= MaxDelay
      BY <1>8, <2>2, <3>2, Zenon DEF Tick
    <3>4. now \in Nat /\ sentAt[f.id] \in Nat
      BY <2>2, <3>1, NetworkAssumption DEF TypeInv
    <3>. QED BY <2>1, <3>3, <3>4
  <2>. QED BY <2>2, Zenon DEF TransitInv
<1>9. ASSUME UNCHANGED vars PROVE TransitInv'
  BY <1>1, <1>9, Zenon DEF vars
<1>. QED
  BY <1>2, <1>3, <1>4, <1>5, <1>6, <1>7, <1>8, <1>9, Zenon DEF Next

LEMMA TransitAlways == Spec => []TransitInv
BY TypeAlways, TransitInit, TransitNext, PTL DEF Spec
=============================================================================
