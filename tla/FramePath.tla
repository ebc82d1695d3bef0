----------------------------- MODULE FramePath ------------------------------
(* One copy of a frame on its way through RedBoxes of every role, octet    *)
(* for octet. Each wire may pad a short frame, and each receiving port may *)
(* have a kernel that takes the VLAN tag out. What decides whether a copy  *)
(* is accepted or a duplicate is RedBox; here the copy is always taken.    *)
EXTENDS Frames

CONSTANTS
    StationFrames,   \* what stations send: sequences of octets
    Seqs,            \* sequence numbers the RedBoxes are at
    NodeMac,         \* the MAC address of an announcing RedBox
    NetIds,          \* hsr.prp_id of the coupling RedBoxes
    MaxHops          \* bound: passages through ring nodes and coupling RedBoxes

ASSUME FramePathAssumption ==
    /\ StationFrames \subseteq Frame
    /\ \A f \in StationFrames : len(f) >= 14      \* handleFrame skips shorter ones
    /\ Seqs \subseteq Number
    /\ NodeMac \in Frame /\ len(NodeMac) = 6
    /\ NetIds \subseteq 1..6
    /\ MaxHops \in Nat

VARIABLES
    sent,      \* the frame as its sender made it
    place,     \* the wire it is on, or what became of it
    frame,     \* its octets there
    aux,       \* the VLAN tag the receiving kernel took out, if any
    seq,       \* the sequence number a RedBox gave it
    lan,       \* the LAN its last trailer was made for
    path,      \* the PathId its HSR tag should show
    marked,    \* a RedBox made the trailer or the tag it is on the wire with
    trailers,  \* how many trailers of RedBoxes it took into rings
    hops,
    heard      \* what a RedBox read in it as supervision

vars == <<sent, place, frame, aux, seq, lan, path, marked, trailers, hops, heard>>

Wires == {"interlink", "lan", "ring"}
Fates == {"station", "dropped", "consumed", "crashed"}
Lans == {0, 1}

(* What the receiving node's readLoop puts into frameBuffer. *)
Received == Read(frame, aux)

Supervision == GetEtherType(Received) = PRPSuffix

-----------------------------------------------------------------------------
(* A station sends a frame to its RedBox, or stands on a LAN or a ring     *)
(* where it does not belong, without speaking HSR there; or a RedBox       *)
(* announces itself.                                                       *)

StationSends ==
    /\ sent \in StationFrames
    /\ place \in Wires
    /\ place = "ring" => GetEtherType(sent) # HSREtherType
    /\ frame = sent
    /\ lan = 0 /\ path = 0 /\ seq \in Seqs /\ marked = FALSE

SendSupervisionFrame ==
    /\ seq \in Seqs /\ marked = TRUE
    /\ \/ /\ sent = Build(NodeMac, seq)                       \* PRP dialect
          /\ lan \in Lans /\ path = 0
          /\ place = "lan" /\ frame = BuildRCTed(NodeMac, seq, lan)
       \/ /\ lan \in Lans /\ path \in {0} \cup {2 * n + lan : n \in NetIds}   \* HSR dialect
          /\ sent = BuildHSR(NodeMac, seq, path)
          /\ place = "ring" /\ frame = sent

Init ==
    /\ StationSends \/ SendSupervisionFrame
    /\ aux = {} /\ trailers = 0 /\ hops = 0 /\ heard = {}

-----------------------------------------------------------------------------
(* The wire and the receiving kernel. *)

WirePads ==
    /\ place \in Wires /\ aux = {} /\ len(frame) < 60
    /\ frame' = Extended(frame, 60)
    /\ UNCHANGED <<sent, place, aux, seq, lan, path, marked, trailers, hops, heard>>

KernelTakesTag ==
    /\ place \in Wires /\ aux = {} /\ IsVLANFrame(frame) /\ len(frame) >= 18
    /\ aux' = {[tpid |-> Word(frame, 12), tci |-> Word(frame, 14)]}
    /\ frame' = Part(frame, 0, 12) ++ Part(frame, 16, len(frame))
    /\ UNCHANGED <<sent, place, seq, lan, path, marked, trailers, hops, heard>>

(* The node writes octets f to a wire or to the station. *)
Writes(f, to) ==
    /\ frame' = f /\ place' = to /\ aux' = {}
    /\ UNCHANGED <<sent, heard>>

Ends(fate) ==
    /\ Writes(Received, fate)
    /\ UNCHANGED <<seq, lan, path, marked, trailers, hops>>
Drops == Ends("dropped")
Panics == Ends("crashed")

-----------------------------------------------------------------------------
(* handleFrame and the handlers, one action per role and port. *)

(* A ring node, or a prp-san node on its LANs. *)
handleSupervisionFrame ==
    /\ place \in {"lan", "ring"} /\ Supervision
    /\ IF ParsePanics(Received) THEN Panics
       ELSE /\ heard' = Parse(Received)
            /\ place' = "consumed" /\ frame' = Received /\ aux' = {}
            /\ UNCHANGED <<sent, seq, lan, path, marked, trailers, hops>>

(* prp-san, with and without TrailerEnabled. *)
handleInterlinkFrame ==
    /\ place = "interlink"
    /\ \/ \E l \in Lans : /\ Writes(EncodeRCT(Received, seq, l), "lan")
                          /\ lan' = l /\ marked' = TRUE
       \/ Writes(Received, "lan") /\ UNCHANGED <<lan, marked>>
    /\ UNCHANGED <<seq, path, trailers, hops>>

handleIncomingPRPFrame ==
    /\ place = "lan" /\ ~Supervision
    /\ \E port \in Lans :
           IF IsPRPFrame(Received) /\ RCTLan(Received) = port
           THEN /\ Writes(WithoutRCT(Received), "station")
                /\ UNCHANGED <<seq, lan, path, marked, trailers, hops>>
           ELSE Drops

(* hsr-san *)
handleHSRInterlinkFrame ==
    /\ place = "interlink"
    /\ IF InjectPanics(Received) THEN Panics
       ELSE /\ Writes(Injected(Received, 0, seq), "ring")
            /\ path' = 0 /\ marked' = TRUE
            /\ UNCHANGED <<seq, lan, trailers, hops>>

(* hsr-prp: the trailer stays in the payload, and its number is kept. *)
handleCoupledLanFrame ==
    /\ place = "lan" /\ hops < MaxHops
    /\ IF IsPRPFrame(Received)
       THEN \E n \in NetIds, l \in Lans :
                /\ Writes(Injected(Received, 2 * n + l, RCTSeq(Received)), "ring")
                /\ path' = 2 * n + l
                /\ seq' = RCTSeq(Received)
                /\ trailers' = IF marked THEN trailers + 1 ELSE trailers
                /\ marked' = TRUE /\ hops' = hops + 1
                /\ UNCHANGED lan
       ELSE Drops

(* What every ring node does first: send the frame on through its other port. *)
ForwardOnRing ==
    /\ place = "ring" /\ ~Supervision /\ hops < MaxHops
    /\ IF HSRDecodes(Received)
       THEN \E lane \in Lans :
                /\ Writes(RewriteHSRPathLane(Received, lane), "ring")
                /\ path' = 2 * (path \div 2) + lane
                /\ hops' = hops + 1
                /\ UNCHANGED <<seq, lan, marked, trailers>>
       ELSE Drops

(* hsr-hsr: over the interlink into the other ring. *)
handleOtherRingFrame ==
    /\ place = "ring" /\ ~Supervision /\ hops < MaxHops /\ HSRDecodes(Received)
    /\ Writes(RewriteHSRPath(Received, 0), "ring")
    /\ path' = 0 /\ hops' = hops + 1
    /\ UNCHANGED <<seq, lan, marked, trailers>>

(* hsr-san: the frame leaves the ring for the station. *)
DeliverFromRing ==
    /\ place = "ring" /\ ~Supervision /\ HSRDecodes(Received)
    /\ Writes(StripHSR(Received), "station")
    /\ UNCHANGED <<seq, lan, path, marked, trailers, hops>>

(* hsr-prp: onto the PRP LAN, unless the PathId is of the node's own NetId. *)
couplingToPRP ==
    /\ place = "ring" /\ ~Supervision /\ HSRDecodes(Received)
    /\ \E n \in NetIds, l \in Lans :
           IF HSRPath(Received) \div 2 # n
           THEN /\ Writes(EncodeRCT(StripHSR(Received), HSRSeq(Received), l), "lan")
                /\ lan' = l
                /\ UNCHANGED <<seq, path, marked, trailers, hops>>
           ELSE Drops

Next ==
    \/ WirePads \/ KernelTakesTag
    \/ handleSupervisionFrame
    \/ handleInterlinkFrame \/ handleIncomingPRPFrame
    \/ handleHSRInterlinkFrame \/ handleCoupledLanFrame
    \/ ForwardOnRing \/ handleOtherRingFrame \/ DeliverFromRing \/ couplingToPRP

Spec == Init /\ [][Next]_vars

-----------------------------------------------------------------------------
(* A frame that a RedBox put on a LAN or a ring reads there, after padding *)
(* and VLAN offload, as valid and with the number, LAN and PathId it was   *)
(* given; ring nodes keep the NetId bits (EncodeRCT, EncodeHSR,            *)
(* RewriteHSRPathLane, Read).                                              *)
ReadsAsWritten ==
    marked =>
        /\ place = "lan" => /\ IsPRPFrame(Received)
                            /\ RCTLan(Received) = lan /\ RCTSeq(Received) = seq
        /\ place = "ring" => \/ Supervision
                             \/ /\ HSRDecodes(Received)
                                /\ HSRPath(Received) = path /\ HSRSeq(Received) = seq

(* What follows the octets of s in f is padding. *)
PaddedOnly(f, s) == \A i \in (len(s) + 1)..len(f) : f[i] = 0

(* Whatever the way through PRP LANs, rings and couplings, the octets a    *)
(* station gets begin with those the sender sent, and only padding follows *)
(* unless a coupling took the frame from a LAN into a ring (EncodeRCT,     *)
(* DecodeRCT, Injected, StripHSR).                                         *)
StationGetsWhatWasSent ==
    place = "station" /\ marked =>
        /\ len(frame) >= len(sent) /\ \A i \in 1..len(sent) : frame[i] = sent[i]
        /\ trailers = 0 => PaddedOnly(frame, sent)

(* A coupling takes the trailer off: "PRP LAN -> ring: RCT stripped". So a *)
(* station gets no trailer of a RedBox, whatever the way.                  *)
TrailerStripped == place = "station" /\ marked => PaddedOnly(frame, sent)

(* What a RedBox reads in an announcement of a RedBox is the sender's MAC  *)
(* address, number and PathId, whatever it passed on the way; of the other *)
(* frames a RedBox consumes only those with that EtherType, and learns     *)
(* nothing from those to other addresses. A frame that makes a RedBox      *)
(* panic is never an announcement: it is a station's, and too short for    *)
(* what Parse or handleHSRInterlinkFrame slice (handleFrame, Build,        *)
(* BuildHSR, Parse).                                                       *)
AnnouncementsUnderstood ==
    /\ place = "consumed" /\ sent \notin StationFrames =>
           \E h \in heard : /\ h.mac = NodeMac /\ h.macA = NodeMac /\ h.seq = seq
                            /\ h.tlv = HSRLifeCheck => h.path = path
    /\ place = "consumed" /\ Part(sent, 0, 6) # SuperMulticastMAC =>
           heard = {} /\ GetEtherType(sent) = PRPSuffix
    /\ place = "crashed" =>
           /\ sent \in StationFrames
           /\ len(sent) < (IF Part(sent, 0, 6) = SuperMulticastMAC THEN 26 ELSE 18)
=============================================================================
