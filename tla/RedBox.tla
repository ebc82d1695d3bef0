------------------------------- MODULE RedBox -------------------------------
(***************************************************************************)
(* RedBoxes (prp.Node) of every role and the network between them.         *)
(*                                                                         *)
(* A frame handler runs to completion in the single goroutine              *)
(* processFrames, so handling one frame is one action; the port whose      *)
(* frame comes next is any port with a frame waiting.  The queue wire[i]   *)
(* holds what is on its way to port i: on the link, in the socket and in   *)
(* frameBuffer.  Two more goroutines act in between: the supervision       *)
(* sender and the cleanup timer.                                           *)
(*                                                                         *)
(* A frame is what the handlers tell apart: addresses, VLAN, the kind of   *)
(* payload, the HSR tag and the stack of RCT trailers.  Frame and drop     *)
(* counters are written by the handlers and read by none: they are left    *)
(* out, as is logging.  Every node has an interlink.                       *)
(***************************************************************************)
EXTENDS DupTable, Sequences

CONSTANTS
    Nodes,
    Cfg,         \* node -> prp.Config: role, mac, lan, net, forwardAll,
                 \*         trailer, vlans, mcast
    Link,        \* <<node, port>> -> the set of <<node, port>> it reaches
    Ids,         \* the frames the stations send, each at most once
    Sends,       \* id -> node, src, dst, vlan, lead (what the payload starts
                 \*       with), to and behind: the nodes whose stations it is
                 \*       for, those with the sender on their interlink side
    Multicast,   \* the addresses with the group bit set
    Broadcast, SupMulticast, NoAddress,
    Faults,      \* sets of ports that may lose frames; one set is chosen
    SeqMod,      \* 2^16 in the code
    Starts,      \* the values randSeqStart may return
    SupForget, ProxyForget,
    MaxDelay,    \* a station's frame is in transit no longer than this
    MaxTime, MaxSends, MaxSup, MaxBoots    \* bounds, for model checking

Lans == {"lan_a", "lan_b"}
Ports == Lans \cup {"interlink"}
Ingress == Nodes \X Ports

ASSUME RedBoxAssumption ==
    /\ SeqMod \in Nat /\ SeqMod % 2 = 0 /\ SeqMod > 0
    /\ Starts \subseteq 0..(SeqMod - 1)
    /\ Link \in [Ingress -> SUBSET Ingress]
    /\ \A n \in Nodes : \A p, q \in Ports : p # q => Link[<<n, p>>] \cap Link[<<n, q>>] = {}
    /\ {Broadcast, SupMulticast} \subseteq Multicast /\ NoAddress \notin Multicast

VARIABLES
    st,       \* node -> the state of its prp.Node
    wire,     \* port -> the frames on their way to it
    got,      \* node -> the frames of stations that were written to its own
              \*         station, with the time
    now,
    faulty,   \* the ports that may lose frames
    supSent, boots,
    \* History.
    sentAt,   \* id -> when its station sent it
    handled   \* node -> the ids it accepted or injected

vars == <<st, wire, got, now, faulty, supSent, boots, sentAt, handled>>

-----------------------------------------------------------------------------
(* Roles.                                                                  *)
IsHSRNode(n) == Cfg[n].role \in {"hsr-san", "hsr-prp", "hsr-hsr"}
IsHSRPRPCoupling(n) == Cfg[n].role = "hsr-prp"
IsHSRHSR(n) == Cfg[n].role = "hsr-hsr"

LanID(n) == IF IsHSRPRPCoupling(n) /\ Cfg[n].lan = "B" THEN 1 ELSE 0
NetID(n) == IF IsHSRPRPCoupling(n) /\ Cfg[n].net > 0 THEN Cfg[n].net ELSE 1

(* The PathId a node stamps on the frames it injects.                      *)
OwnPath(n) == IF IsHSRPRPCoupling(n) THEN (NetID(n) * 2 + LanID(n)) % 16 ELSE 0

-----------------------------------------------------------------------------
(* Frames.  Supervision frames carry no id; vlan is a VLAN ID or Untagged. *)
NoId == 0
Untagged == -1

ASSUME NetworkAssumption ==
    /\ NoId \notin Ids
    /\ \A id \in Ids : Sends[id].node \in Nodes
    /\ \A n \in Nodes :
          Cfg[n].role \in {"prp-san", "hsr-san", "hsr-prp", "hsr-hsr"} /\ Cfg[n].net \in Nat
    /\ {MaxDelay, MaxTime, MaxSup, MaxBoots} \subseteq Nat

StationFrame(id) ==
    [id |-> id, src |-> Sends[id].src, dst |-> Sends[id].dst, vlan |-> Sends[id].vlan,
     et |-> "data", sup |-> 0, hsr |-> <<>>, rct |-> <<>>]

(* The address that the first octets of the payload spell.                 *)
Lead(f) == IF f.et = "sup" THEN NoAddress ELSE Sends[f.id].lead

EncodeRCT(f, seq, lan) == [f EXCEPT !.rct = Append(@, [seq |-> seq, lan |-> lan])]
HasRCT(f) == f.rct # <<>>
Trailer(f) == f.rct[Len(f.rct)]
DropRCT(f) == [f EXCEPT !.rct = SubSeq(@, 1, Len(@) - 1)]

(* EncodeHSR leaves a trailer where it is: it becomes payload.             *)
EncodeHSR(f, path, seq) == [f EXCEPT !.hsr = <<[path |-> path, seq |-> seq]>>]
HasTag(f) == f.hsr # <<>>
Path(f) == f.hsr[1].path
TagSeq(f) == f.hsr[1].seq
RewriteHSRPath(f, path) == [f EXCEPT !.hsr[1].path = path]

(* The coupling bits 3-1 of the PathId stay, the lane bit is set.          *)
RewriteWholePath(f, lane) == RewriteHSRPath(f, lane)
RewriteHSRPathLane(f, lane) == RewriteHSRPath(f, (Path(f) \div 2) * 2 + lane)
StripHSR(f) == [f EXCEPT !.hsr = <<>>]

-----------------------------------------------------------------------------
(* The node state, and how a handler changes it and writes to the ports.   *)
NewNode(start) ==
    [dup |-> EmptyMap, seqs |-> EmptyMap, start |-> start, proxy |-> EmptyMap,
     members |-> EmptyMap, supSeen |-> EmptyMap, supSeqs |-> EmptyMap, supSeq |-> 0]

(* SequenceManager.Next: the number handed out, and the counters after it. *)
NextSeq(node, mac) == IF mac \in DOMAIN node.seqs THEN node.seqs[mac] ELSE node.start
(* Counters that do not wrap, and counters that do not count.              *)
AdvanceUnbounded(node, mac) == [node EXCEPT !.seqs = Assign(@, mac, NextSeq(node, mac) + 1)]
AdvanceNever(node, mac) == node
Advance(node, mac) ==
    [node EXCEPT !.seqs = Assign(@, mac, (NextSeq(node, mac) + 1) % SeqMod)]

(* out is a partial function from ports to the frame written there.        *)
Silence == EmptyMap
Both(f) == [p \in Lans |-> f]
Only(p, f) == [q \in {p} |-> f]

Write(w, n, out) ==
    [i \in Ingress |->
        LET via == {p \in DOMAIN out : i \in Link[<<n, p>>]}
        IN  IF via = {} THEN w[i] ELSE Append(w[i], out[CHOOSE p \in via : TRUE])]

(* An interlink that reaches no other node has the station on it.  Of the  *)
(* announcements that get there no record is kept.                         *)
ToStation(n, out) ==
    IF /\ "interlink" \in DOMAIN out /\ Link[<<n, "interlink">>] = {}
       /\ out["interlink"].id # NoId
    THEN [got EXCEPT ![n] = Append(@, [frame |-> out["interlink"], at |-> now])]
    ELSE got

Waiting(n, p) == wire[<<n, p>>] # <<>>
Arrived(n, p) == Head(wire[<<n, p>>])

(* Node n has taken the frame at port p, is now node, and has written out. *)
Finish(n, p, node, out) ==
    /\ st' = [st EXCEPT ![n] = node]
    /\ wire' = Write([wire EXCEPT ![<<n, p>>] = Tail(@)], n, out)
    /\ got' = ToStation(n, out)
    /\ UNCHANGED <<now, faulty, supSent, boots, sentAt>>

Accepts(n, f) == handled' = [handled EXCEPT ![n] = @ \cup {f.id}]

Drop(n, p) == Finish(n, p, st[n], Silence) /\ UNCHANGED handled

(* The states of n once (mac, seq) is in its duplicate table.              *)
Remember(node, mac, seq) ==
    {[node EXCEPT !.dup = d] : d \in InsertWithExpiry(node.dup, <<mac, seq>>, now)}

Seen(n, mac, seq) == Find(st[n].dup, <<mac, seq>>, now)

-----------------------------------------------------------------------------
(* Forwarding to the station.  addr is the address at the front of the     *)
(* bytes the caller passes.                                                *)
multicastAllowed(n, addr) ==
    addr = Broadcast \/ Cfg[n].mcast = {} \/ addr \in Cfg[n].mcast

shouldForwardToInterlink(n, addr) ==
    \/ Cfg[n].forwardAll
    \/ addr \in Multicast /\ multicastAllowed(n, addr)
    \/ /\ addr \notin Multicast
       /\ addr \in DOMAIN st[n].proxy
       /\ now - st[n].proxy[addr] <= ProxyForget

unicastToRingMember(node, dst) == dst \notin Multicast /\ dst \in DOMAIN node.members

-----------------------------------------------------------------------------
(* Supervision.                                                            *)
IsSupervision(n, p, f) ==
    f.et = "sup" /\ ~HasTag(f) /\ (p \in Lans \/ IsHSRHSR(n))

(* int16(seq - last) < 0 *)
Regressed(n, f) ==
    /\ f.src \in DOMAIN st[n].supSeqs
    /\ (f.sup - st[n].supSeqs[f.src]) % SeqMod >= SeqMod \div 2

BridgeBack(n, p, f) == IF IsHSRHSR(n) THEN Only("interlink", f) ELSE Silence

(* hsr-hsr: supervision of one ring is passed on to the other.             *)
BridgeSupervision(n, p, f) ==
    CASE ~IsHSRHSR(n) -> Silence
      [] IsHSRHSR(n) /\ p \in Lans -> Only("interlink", f)
      [] OTHER -> Both(f)

handleSupervisionFrame(n, p) ==
    LET f == Arrived(n, p)
    IN  /\ IsSupervision(n, p, f)
        /\ Finish(n, p,
              [st[n] EXCEPT
                 !.supSeen = Assign(@, f.src, now),
                 !.members = IF IsHSRNode(n) /\ p \in Lans THEN Assign(@, f.src, now) ELSE @,
                 !.dup     = IF Regressed(n, f) THEN FlushFor(@, f.src) ELSE @,
                 !.supSeqs = Assign(@, f.src, f.sup)],
              BridgeSupervision(n, p, f))
        /\ UNCHANGED handled

Build(mac, seq) ==
    [id |-> NoId, src |-> mac, dst |-> SupMulticast, vlan |-> Untagged,
     et |-> "sup", sup |-> seq, hsr |-> <<>>, rct |-> <<>>]
BuildRCTed(mac, seq, lan) == EncodeRCT(Build(mac, seq), seq, lan)
(* It differs from Build in the path and the TLV, which no handler reads.  *)
BuildHSR(mac, seq) == Build(mac, seq)

Announcement(n, p, seq) ==
    CASE ~IsHSRNode(n) -> BuildRCTed(Cfg[n].mac, seq, IF p = "lan_a" THEN 0 ELSE 1)
      [] IsHSRPRPCoupling(n) /\ p = "interlink" -> BuildRCTed(Cfg[n].mac, seq, LanID(n))
      [] OTHER -> BuildHSR(Cfg[n].mac, seq)

(* hsr-prp announces itself on the coupled LAN too, hsr-hsr on the other   *)
(* ring.                                                                   *)
SendSupervisionFrame(n) ==
    LET seq == (st[n].supSeq + 1) % SeqMod
        to  == IF IsHSRPRPCoupling(n) \/ IsHSRHSR(n) THEN Ports ELSE Lans
        out == [p \in to |-> Announcement(n, p, seq)]
    IN  /\ supSent < MaxSup
        /\ supSent' = supSent + 1
        /\ st' = [st EXCEPT ![n].supSeq = seq]
        /\ wire' = Write(wire, n, out)
        /\ got' = ToStation(n, out)
        /\ UNCHANGED <<now, faulty, boots, sentAt, handled>>

-----------------------------------------------------------------------------
(* prp-san: two LANs and a station.                                        *)
ExpectedLan(p) == IF p = "lan_b" THEN 1 ELSE 0

DiscardsPRP(n, p, f) ==
    \/ ~HasRCT(f)
    \/ Trailer(f).lan # ExpectedLan(p)
    \/ f.src = Cfg[n].mac
    \/ Seen(n, f.src, Trailer(f).seq)

handleIncomingPRPFrame(n, p) ==
    LET f == Arrived(n, p)
    IN  /\ p \in Lans /\ ~IsHSRNode(n) /\ ~IsSupervision(n, p, f)
        /\ \/ DiscardsPRP(n, p, f) /\ Drop(n, p)
           \/ /\ ~DiscardsPRP(n, p, f)
              /\ \E node \in Remember(st[n], f.src, Trailer(f).seq) :
                    Finish(n, p, node,
                       IF shouldForwardToInterlink(n, f.dst)
                       THEN Only("interlink", DropRCT(f)) ELSE Silence)
              /\ Accepts(n, f)

(* No VLAN filter. *)
NeverBlocked(n, f) == FALSE
VLANBlocked(n, f) == Cfg[n].vlans # {} /\ f.vlan \notin Cfg[n].vlans

(* A bridge that numbers each LAN copy on its own.                         *)
TaggedTwice(n, f, seq) ==
    [p \in Lans |-> EncodeRCT(f, (seq + ExpectedLan(p)) % SeqMod, ExpectedLan(p))]
(* A bridge that uses LAN A alone. *)
TaggedOnce(n, f, seq) == Only("lan_a", EncodeRCT(f, seq, 0))
Duplicated(n, f, seq) == [p \in Lans |-> EncodeRCT(f, seq, ExpectedLan(p))]

handleInterlinkFrame(n) ==
    LET f       == Arrived(n, "interlink")
        learned == [st[n] EXCEPT !.proxy = Assign(@, f.src, now)]
    IN  /\ ~IsHSRNode(n)
        /\ \/ VLANBlocked(n, f) /\ Drop(n, "interlink")
           \/ /\ ~VLANBlocked(n, f)
              /\ IF Cfg[n].trailer
                 THEN Finish(n, "interlink", Advance(learned, f.src),
                             Duplicated(n, f, NextSeq(st[n], f.src)))
                 ELSE Finish(n, "interlink", learned, Both(f))
              /\ Accepts(n, f)

-----------------------------------------------------------------------------
(* HSR roles: the ring.                                                    *)
Other(p) == IF p = "lan_a" THEN "lan_b" ELSE "lan_a"
Lane(p) == IF p = "lan_a" THEN 0 ELSE 1

(* Loop protection by the originator's MAC alone. *)
DiscardsOwnOnly(n, f) == ~HasTag(f) \/ f.src = Cfg[n].mac

DiscardsHSR(n, f) ==
    \/ ~HasTag(f)
    \/ f.src = Cfg[n].mac
    \/ Seen(n, f.src, TagSeq(f))

learnRingMember(node, mac) == [node EXCEPT !.members = Assign(@, mac, now)]

(* A PathId rule by which LAN B takes every frame for its own.             *)
OfOwnNetOrLanB(n, f) == Path(f) \div 2 = NetID(n) \/ LanID(n) = 1

(* IEC 62439-3 5.2.2.3.1: nothing of our own PRP network goes back to it,  *)
(* whichever of its LANs it came from.                                     *)
OfOwnNet(n, f) == Path(f) \div 2 = NetID(n)

couplingToPRP(n, f) == EncodeRCT(StripHSR(f), TagSeq(f), LanID(n))

(* The frame written to the interlink for ring frame f, if any.            *)
RingToInterlink(n, node, f) ==
    CASE IsHSRHSR(n) -> IF unicastToRingMember(node, f.dst) THEN {} ELSE {f}
      [] IsHSRPRPCoupling(n) -> IF OfOwnNet(n, f) THEN {} ELSE {couplingToPRP(n, f)}
      [] OTHER -> IF unicastToRingMember(node, f.dst) \/ ~shouldForwardToInterlink(n, Lead(f))
                  THEN {} ELSE {StripHSR(f)}

(* A ring node that sends a frame back where it came from.                 *)
ForwardBack(p, f) == Only(p, RewriteHSRPathLane(f, Lane(p)))

ForwardOnRing(p, f) == Only(Other(p), RewriteHSRPathLane(f, Lane(Other(p))))

Combined(out, frames) ==
    [q \in DOMAIN out \cup {"interlink" : g \in frames} |->
        IF q \in DOMAIN out THEN out[q] ELSE CHOOSE g \in frames : TRUE]

(* A discarded frame goes no further (PassOn: it is still forwarded).      *)
PassOn(n, p, f) == Finish(n, p, st[n], ForwardOnRing(p, f)) /\ UNCHANGED handled
DropHSR(n, p, f) == Drop(n, p)

handleIncomingHSRFrame(n, p) ==
    LET f == Arrived(n, p)
    IN  /\ p \in Lans /\ IsHSRNode(n) /\ ~IsSupervision(n, p, f)
        /\ \/ DiscardsHSR(n, f) /\ DropHSR(n, p, f)
           \/ /\ ~DiscardsHSR(n, f)
              /\ \E known \in Remember(st[n], f.src, TagSeq(f)) :
                    LET node == learnRingMember(known, f.src)
                    IN  Finish(n, p, node,
                               Combined(ForwardOnRing(p, f), RingToInterlink(n, node, f)))
              /\ Accepts(n, f)

-----------------------------------------------------------------------------
(* HSR roles: the interlink.                                               *)
(* hsr-hsr: a frame of the other ring enters this one as a fresh path-0    *)
(* frame, in both directions (InjectOneWay: in one).                       *)
InjectOneWay(f) == Only("lan_a", RewriteHSRPath(f, 0))
InjectAfresh(f) == Both(RewriteHSRPath(f, 0))

handleOtherRingFrame(n) ==
    LET f == Arrived(n, "interlink")
    IN  /\ IsHSRHSR(n) /\ ~IsSupervision(n, "interlink", f)
        /\ \/ DiscardsHSR(n, f) /\ Drop(n, "interlink")
           \/ /\ ~DiscardsHSR(n, f)
              /\ \E node \in Remember(st[n], f.src, TagSeq(f)) :
                    Finish(n, "interlink", node, InjectAfresh(f))
              /\ Accepts(n, f)

(* Injection without registering the frame in the duplicate table. *)
InjectUnregistered(node, mac, seq) == {node}

(* The states of a node that has registered the frame it injects.          *)
registerFrameOut(node, mac, seq) == Remember(node, mac, seq)

(* The number of an injected frame: a coupling RedBox preserves the one in *)
(* the trailer, and has none for a frame without.                          *)
InjectionSeq(n, f) ==
    CASE ~IsHSRPRPCoupling(n) -> {NextSeq(st[n], f.src)}
      [] IsHSRPRPCoupling(n) /\ HasRCT(f) -> {Trailer(f).seq}
      [] OTHER -> {}

(* hsr-san and hsr-prp: tag the frame and send it both ways round.  The    *)
(* source is learned before a frame without number is dropped.             *)
handleHSRInterlinkFrame(n) ==
    LET f       == Arrived(n, "interlink")
        learned == [st[n] EXCEPT !.proxy = Assign(@, f.src, now)]
        counted == IF IsHSRPRPCoupling(n) THEN learned ELSE Advance(learned, f.src)
    IN  /\ IsHSRNode(n) /\ ~IsHSRHSR(n)
        /\ \/ /\ InjectionSeq(n, f) = {}
              /\ Finish(n, "interlink", learned, Silence)
              /\ UNCHANGED handled
           \/ /\ \E seq \in InjectionSeq(n, f) :
                    \E node \in registerFrameOut(counted, f.src, seq) :
                       Finish(n, "interlink", node, Both(EncodeHSR(f, OwnPath(n), seq)))
              /\ Accepts(n, f)

-----------------------------------------------------------------------------
(* processFrames takes one frame and handleFrame dispatches it.            *)
handleFrame(n, p) ==
    /\ Waiting(n, p)
    /\ \/ handleSupervisionFrame(n, p)
       \/ handleIncomingPRPFrame(n, p)
       \/ handleIncomingHSRFrame(n, p)
       \/ /\ p = "interlink"
          /\ handleInterlinkFrame(n) \/ handleOtherRingFrame(n) \/ handleHSRInterlinkFrame(n)

(* It returns early, ring members untouched, when no peer is known alive.  *)
cleanupSupervisionSeen(node) ==
    LET Stale(m) == {mac \in DOMAIN m : m[mac] < now - SupForget}
    IN  IF node.supSeen = EmptyMap THEN node
        ELSE [node EXCEPT !.supSeen = Delete(@, Stale(@)), !.members = Delete(@, Stale(@))]

periodicCleanup(n) ==
    /\ st' = [st EXCEPT ![n] =
                 cleanupSupervisionSeen([st[n] EXCEPT !.dup = Cleanup(@, now)])]
    /\ UNCHANGED <<wire, got, now, faulty, supSent, boots, sentAt, handled>>

Suffixes(q) == {SubSeq(q, k, Len(q)) : k \in 1..(Len(q) + 1)}

(* The container is restarted: the node forgets everything and numbers its *)
(* frames from another random start.  What its sockets and frameBuffer     *)
(* held is lost, what was still on the links is not.                       *)
Restart(n) ==
    /\ boots < MaxBoots
    /\ boots' = boots + 1
    /\ \E start \in Starts : st' = [st EXCEPT ![n] = NewNode(start)]
    /\ \E a \in Suffixes(wire[<<n, "lan_a">>]), b \in Suffixes(wire[<<n, "lan_b">>]),
          c \in Suffixes(wire[<<n, "interlink">>]) :
          wire' = [wire EXCEPT ![<<n, "lan_a">>] = a, ![<<n, "lan_b">>] = b,
                               ![<<n, "interlink">>] = c]
    /\ UNCHANGED <<got, now, faulty, supSent, sentAt, handled>>

-----------------------------------------------------------------------------
(* The environment: stations, links and the clock.                         *)
StationSends(id) ==
    /\ id \notin DOMAIN sentAt /\ Cardinality(DOMAIN sentAt) < MaxSends
    /\ sentAt' = Assign(sentAt, id, now)
    /\ wire' = [wire EXCEPT ![<<Sends[id].node, "interlink">>] = Append(@, StationFrame(id))]
    /\ UNCHANGED <<st, got, now, faulty, supSent, boots, handled>>

Lose(i) ==
    /\ i \in faulty /\ wire[i] # <<>>
    /\ wire' = [wire EXCEPT ![i] = Tail(@)]
    /\ UNCHANGED <<st, got, now, faulty, supSent, boots, sentAt, handled>>

Tick ==
    /\ now < MaxTime
    /\ \A i \in Ingress : \A k \in DOMAIN wire[i] :
          wire[i][k].id # NoId => now + 1 - sentAt[wire[i][k].id] <= MaxDelay
    /\ now' = now + 1
    /\ UNCHANGED <<st, wire, got, faulty, supSent, boots, sentAt, handled>>

Init ==
    /\ \E start \in [Nodes -> Starts] : st = [n \in Nodes |-> NewNode(start[n])]
    /\ wire = [i \in Ingress |-> <<>>]
    /\ got = [n \in Nodes |-> <<>>]
    /\ now = 0
    /\ faulty \in Faults
    /\ supSent = 0 /\ boots = 0
    /\ sentAt = EmptyMap
    /\ handled = [n \in Nodes |-> {}]

Next ==
    \/ \E n \in Nodes, p \in Ports : handleFrame(n, p)
    \/ \E n \in Nodes : SendSupervisionFrame(n) \/ periodicCleanup(n) \/ Restart(n)
    \/ \E id \in Ids : StationSends(id)
    \/ \E i \in Ingress : Lose(i)
    \/ Tick

Spec == Init /\ [][Next]_vars

(* The Go scheduler does not stop the processFrames goroutines for ever:   *)
(* while frames are waiting, some node takes one.  This is weaker than     *)
(* fairness for every node or port, which the scheduler also gives.        *)
FairSpec == Spec /\ WF_vars(\E n \in Nodes, p \in Ports : handleFrame(n, p))

-----------------------------------------------------------------------------
TypeOK ==
    /\ now \in 0..MaxTime /\ faulty \in Faults
    /\ supSent \in 0..MaxSup /\ boots \in 0..MaxBoots
    /\ DOMAIN sentAt \subseteq Ids /\ \A id \in DOMAIN sentAt : sentAt[id] \in 0..now
    /\ handled \in [Nodes -> SUBSET (Ids \cup {NoId})]
    /\ \A n \in Nodes :
          /\ \A key \in DOMAIN st[n].dup : key[2] \in 0..(SeqMod - 1)
          /\ \A mac \in DOMAIN st[n].seqs : st[n].seqs[mac] \in 0..(SeqMod - 1)
          /\ st[n].supSeq \in 0..(SeqMod - 1)
    /\ \A i \in Ingress : \A k \in DOMAIN wire[i] :
          LET f == wire[i][k]
          IN  /\ f.id \in DOMAIN sentAt \cup {NoId}
              /\ Len(f.hsr) <= 1 /\ (HasTag(f) => Path(f) \in 0..15)

(* No node has lost its state. *)
NoRestart == boots = 0

(* No station has sent so fast that a number comes round while a frame     *)
(* that had it before may still be under way or in a table.                *)
Paced ==
    \A x \in Ids :
        Cardinality({id \in DOMAIN sentAt :
                        /\ Sends[id].src = Sends[x].src
                        /\ now - sentAt[id] <= Forget + MaxDelay}) <= SeqMod

(* The frame id was sent among more than SeqMod of its station that may    *)
(* meet in a table.                                                        *)
Rushed(id) ==
    Cardinality({j \in DOMAIN sentAt :
                    /\ Sends[j].src = Sends[id].src
                    /\ sentAt[j] - sentAt[id] \in -(Forget + MaxDelay)..(Forget + MaxDelay)}) > SeqMod

(* Exactly what the stations may rely on while a frame is in transit no    *)
(* longer than the duplicate table remembers it.                           *)
Station == INSTANCE SeamlessNet WITH
    sent      <- DOMAIN sentAt,
    inbox     <- [n \in Nodes |-> [k \in DOMAIN got[n] |-> got[n][k].frame.id]],
    Sender    <- [id \in Ids |-> Sends[id].node],
    Addressed <- [id \in Ids |-> Sends[id].to]

(* Every station receives a frame at most once and never its own: the      *)
(* network of RedBoxes implements SeamlessNet (handleIncomingPRPFrame,     *)
(* handleIncomingHSRFrame, handleHSRInterlinkFrame and the tables).        *)
Seamless == Station!Spec

(* No addressed station misses a frame, although one LAN or ring link may  *)
(* lose any frame at any time ("Failover: Seamless (no packet loss)").     *)
EveryFrameArrives == Station!Arrives

(* The copies of a frame do not run out before every addressed station has *)
(* it: when the last is lost, discarded or delivered, all have, whatever   *)
(* one faulty LAN or ring link has lost, unless a node has restarted or    *)
(* the station was too fast for its numbers (Duplicated, ForwardOnRing,    *)
(* handleIncomingPRPFrame, handleIncomingHSRFrame, couplingToPRP).         *)
NothingLost ==
    NoRestart => \A id \in DOMAIN sentAt :
        \/ \E i \in Ingress : \E k \in DOMAIN wire[i] : wire[i][k].id = id
        \/ \A n \in Sends[id].to : \E k \in DOMAIN got[n] : got[n][k].frame.id = id
        \/ Rushed(id)

(* A copy that comes late enough to be forgotten is the only way to a      *)
(* second delivery: two deliveries of one frame to a station, or the       *)
(* sending and an echo of it, lie more than entry_forget_time apart,       *)
(* however long the copies travel, as long as no node has lost its table   *)
(* (dupTable.Find in the receive paths).                                   *)
OncePerWindow ==
    boots = 0 => \A n \in Nodes : \A k \in DOMAIN got[n] :
        LET d == got[n][k]
        IN  /\ n = Sends[d.frame.id].node => d.at - sentAt[d.frame.id] > Forget
            /\ \A j \in 1..(k - 1) :
                  got[n][j].frame.id = d.frame.id => d.at - got[n][j].at > Forget

(* What a receive path compares with its duplicate table.                  *)
SeqOf(f) == IF HasTag(f) THEN TagSeq(f) ELSE Trailer(f).seq

(* No frame is mistaken for a duplicate of an earlier one with the same    *)
(* number: what is about to be discarded was accepted or injected by this  *)
(* node before, although numbers wrap and the tables hold entries of the   *)
(* last round, as long as stations are Paced (SequenceManager.Next,        *)
(* dupTable.Find; "must NOT be treated as a duplicate of the earlier       *)
(* seq 0", e2e_test.go).                                                   *)
NoFreshDiscard ==
    NoRestart /\ Paced =>
      \A n \in Nodes, p \in Ports :
        Waiting(n, p) =>
          LET f == Arrived(n, p)
          IN  f.id # NoId /\ (HasTag(f) \/ HasRCT(f)) /\ (p \in Lans \/ IsHSRHSR(n)) =>
                (Seen(n, f.src, SeqOf(f)) => f.id \in handled[n])

(* A station on the interlink side of a node is never taken for a member   *)
(* of the node's ring, where unicastToRingMember would keep every frame    *)
(* for it on the ring (learnRingMember).                                   *)
InterlinkSideNotMember ==
    \A id \in Ids : \A n \in Sends[id].behind : Sends[id].src \notin DOMAIN st[n].members

(* A frame of the coupled PRP network never comes back to one of its LANs  *)
(* from the ring (the PathId rule in handleIncomingHSRFrame): what is on   *)
(* its way to a prp-san node carries no trailer but that of its own        *)
(* RedBox.                                                                 *)
NoReinjection ==
    \A i \in Ingress : \A k \in DOMAIN wire[i] :
        LET f == wire[i][k]
        IN  /\ Cfg[i[1]].role = "prp-san" /\ i[2] \in Lans
            /\ f.id # NoId /\ Cfg[Sends[f.id].node].role = "prp-san"
            => Len(f.rct) = 1

(* No frame circulates for ever: the duplicate tables alone take every     *)
(* frame off the rings.                                                    *)
NetworkDrains == <>[](\A i \in Ingress : wire[i] = <<>>)

(* A station's frame with a VLAN outside the vlan_filter of its RedBox     *)
(* reaches no other station ("List of VLAN IDs to forward from the         *)
(* interlink", handleInterlinkFrame).                                      *)
VlanIsolation ==
    \A n \in Nodes : \A k \in DOMAIN got[n] :
        LET s == Sends[got[n][k].frame.id]
        IN  Cfg[s.node].vlans = {} \/ s.vlan \in Cfg[s.node].vlans

(* Where the announcements of n go, over links other than those in lost:   *)
(* to the nodes next to it, since ring nodes consume supervision and do    *)
(* not send it on, and, where n or one of those is a QuadBox, over its     *)
(* interlink to the nodes next to the QuadBox on the other side.           *)
Hearers(n, lost) ==
    LET Across(S, ports) == {i[1] : i \in UNION {Link[<<m, p>>] \ lost : m \in S, p \in ports}}
        near   == Across({n}, Lans)
        beyond == Across({q \in near \cup {n} : IsHSRHSR(q)}, {"interlink"})
    IN  (near \cup beyond \cup Across(beyond, Lans)) \ {n}


-----------------------------------------------------------------------------
(* Ways to wire and configure the RedBoxes that theorems are about.        *)

(* The VLAN filter is that of prp-san: no other role consults it.          *)
FiltersAtPrp == \A id \in Ids : IsHSRNode(Sends[id].node) => Cfg[Sends[id].node].vlans = {}

(* Nothing but the node's own station sends to port i. *)
Isolated(i) == \A j \in Ingress : i \notin Link[j]

(* One PRP network, of nodes that add trailers, behind any number of       *)
(* coupling RedBoxes with its NetID, which fits the three bits a PathId    *)
(* has for it; no QuadBox, which would overwrite it.                       *)
OneCoupledNetwork ==
    /\ \A n \in Nodes : ~IsHSRHSR(n)
    /\ \A m, n \in Nodes : IsHSRPRPCoupling(m) /\ IsHSRPRPCoupling(n) => NetID(m) = NetID(n)
    /\ \A n \in Nodes : IsHSRPRPCoupling(n) => NetID(n) <= 7
    /\ \A n \in Nodes : ~IsHSRPRPCoupling(n) => Isolated(<<n, "interlink">>)
    /\ \A n \in Nodes : ~IsHSRNode(n) => Cfg[n].trailer /\ Link[<<n, "interlink">>] = {}

(* A node whose interlink is for a station: prp-san and hsr-san.           *)
ServesStation(n) == ~IsHSRPRPCoupling(n) /\ ~IsHSRHSR(n)

(* Stations are alone on their interlinks, rings have no port outside, the *)
(* LANs do not lead a prp-san node's frames back to it, and a ring that is *)
(* coupled to PRP is so with one network and without QuadBoxes.  Stations  *)
(* have addresses other than those of the nodes.                           *)
WellWired ==
    /\ \A n \in Nodes : ServesStation(n) =>
          Isolated(<<n, "interlink">>) /\ Link[<<n, "interlink">>] = {}
    /\ \A n \in Nodes, p \in Lans : \A i \in Link[<<n, p>>] :
          IF IsHSRNode(n) THEN IsHSRNode(i[1]) ELSE i[1] # n
    /\ \A m, n \in Nodes : IsHSRPRPCoupling(m) =>
          ~IsHSRHSR(n) /\ NetID(m) <= 7 /\ (IsHSRPRPCoupling(n) => NetID(m) = NetID(n))
    /\ \A id \in Ids, n \in Nodes : Sends[id].src # Cfg[n].mac

(* A station has one RedBox.                                               *)
OneRedBoxEach ==
    \A x, y \in Ids : Sends[x].src = Sends[y].src => Sends[x].node = Sends[y].node

(* No other node has the station on its interlink side.                    *)
BehindOwnRedBox ==
    \A id \in Ids : \A n \in Sends[id].behind : n = Sends[id].node /\ ServesStation(n)

Number == 0..(SeqMod - 1)
NodeMacs == {Cfg[n].mac : n \in Nodes}
Macs == {Sends[id].src : id \in Ids} \cup NodeMacs

(* No insertion has to evict: every table has room for one entry more.     *)
TablesHaveRoom ==
    \A n \in Nodes, k \in Macs \X Number : ~(Cardinality(DOMAIN st[n].dup \cup {k}) > MaxSize)

-----------------------------------------------------------------------------
(* What comments and documents say of the RedBox and the code does not do. *)

(* A supervision regression "flushes the peer's dup entries" (e2e_test.go):*)
(* after it, no frame of a station behind that peer counts as seen.        *)
RestartFlushesPeer ==
    [][\A n, m \in Nodes, p \in Lans :
         /\ Waiting(n, p) /\ handleSupervisionFrame(n, p)
         /\ Arrived(n, p).src = Cfg[m].mac /\ Regressed(n, Arrived(n, p))
         => \A id \in Ids : Sends[id].node = m =>
              \A seq \in 0..(SeqMod - 1) : ~Find(st'[n].dup, <<Sends[id].src, seq>>, now)]_vars
=============================================================================
