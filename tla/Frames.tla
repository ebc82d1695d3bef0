------------------------------- MODULE Frames -------------------------------
(* The octets of the frames on the wire: the PRP trailer (RCT), the HSR    *)
(* tag, supervision frames and the VLAN tag that a socket read puts back.  *)
(* A frame is the sequence of its octets, without the FCS. Octet i of the  *)
(* code, counted from 0, is f[i + 1] here, and frame[a:b] is Part(f, a, b).*)
EXTENDS Integers, Sequences

CONSTANT BufLen   \* octets of the buffer that readLoop hands to Read

ASSUME FramesAssumption == BufLen \in Nat

Octet == 0..255
Frame == Seq(Octet)
Number == {w \in Nat : w < 256 * 256}

C_VLAN == 129 * 256                      \* 0x8100
S_VLAN == 136 * 256 + 168                \* 0x88a8
TPIDs == {C_VLAN, S_VLAN}
PRPSuffix == 136 * 256 + 251             \* 0x88FB, also the EtherType of supervision
HSREtherType == 137 * 256 + 47           \* 0x892F
Nibble == 16 * 256                       \* the weight of the upper four bits of a word
RCTLen == 6
HSRTagLen == 6

(* binary.BigEndian.Uint16(f[off:off+2]) and PutUint16. *)
Word(f, off) == 256 * f[off + 1] + f[off + 2]
Octets(w) == <<w \div 256, w % 256>>
Part(f, a, b) == SubSeq(f, a + 1, b)
len(f) == Len(f)
f ++ g == f \o g                         \* append(f, g...)
Zeros(n) == [i \in 1..n |-> 0]

Extended(f, n) == IF len(f) < n THEN f ++ Zeros(n - len(f)) ELSE f

IsVLANFrame(f) == len(f) >= 14 /\ Word(f, 12) \in TPIDs
TagLen(f) == IF IsVLANFrame(f) THEN 4 ELSE 0

(* The EtherType behind all VLAN tags, 0 if the frame ends before it. *)
GetEtherType(f) ==
    LET AfterTags(k) == len(f) < 14 + 4 * k \/ Word(f, 12 + 4 * k) \notin TPIDs
        tags == CHOOSE k \in 0..len(f) : AfterTags(k) /\ \A j \in 0..(k - 1) : ~AfterTags(j)
    IN  IF len(f) < 14 + 4 * tags THEN 0 ELSE Word(f, 12 + 4 * tags)

GetSrcMAC(f) == Part(f, 6, 12)

-----------------------------------------------------------------------------
(* The RCT. lan is 0 or 1; on the wire it is 0xA or 0xB. *)

Padded(f) == Extended(f, IF IsVLANFrame(f) THEN 64 ELSE 60)

RCT(seq, lan, lsdu) ==
    Octets(seq) ++ Octets(Nibble * (10 + lan) + (lsdu % Nibble)) ++ Octets(PRPSuffix)

EncodeRCT(f, seq, lan) ==
    Padded(f) ++ RCT(seq, lan, len(Padded(f)) + RCTLen - 14 - TagLen(f))

(* DecodeRCT reports no error, and its three results. *)
IsPRPFrame(f) ==
    /\ len(f) >= 14 + RCTLen
    /\ Word(f, len(f) - 2) = PRPSuffix
    /\ Word(f, len(f) - 4) % Nibble = len(f) - 14 - TagLen(f)
RCTLan(f) == (Word(f, len(f) - 4) \div Nibble) % 2
RCTSeq(f) == Word(f, len(f) - 6)
WithoutRCT(f) == Part(f, 0, len(f) - RCTLen)

-----------------------------------------------------------------------------
(* The HSR tag. It follows the EtherType HSREtherType, after one VLAN tag  *)
(* if there is one; hsrTagOffset is where it starts.                       *)

hsrTagOffset(f) == 14 + TagLen(f)
HasHSRTag(f) ==
    /\ len(f) >= hsrTagOffset(f) + HSRTagLen
    /\ Word(f, hsrTagOffset(f) - 2) = HSREtherType

EncodeHSR(payload, path, seq, encap) ==
    Octets(HSREtherType)
        ++ Octets(Nibble * (path % 16) + ((HSRTagLen + len(payload)) % Nibble))
        ++ Octets(seq) ++ Octets(encap) ++ payload

(* What handleHSRInterlinkFrame puts on the ring for frame f; a VLAN tag   *)
(* makes it slice the frame from its 18th octet on.                        *)
InjectPanics(f) == IsVLANFrame(f) /\ len(f) < 18
Injected(f, path, seq) ==
    Part(f, 0, hsrTagOffset(f) - 2)
        ++ EncodeHSR(Part(f, hsrTagOffset(f), len(f)), path, seq, GetEtherType(f))

HSRLsdu(f) == Word(f, hsrTagOffset(f)) % Nibble
HSRDecodes(f) ==       \* DecodeHSR reports no error
    HasHSRTag(f) /\ HSRLsdu(f) \in HSRTagLen..(len(f) - hsrTagOffset(f))
HSRPath(f) == Word(f, hsrTagOffset(f)) \div Nibble
HSRSeq(f) == Word(f, hsrTagOffset(f) + 2)
HSREncap(f) == Word(f, hsrTagOffset(f) + 4)
HSRPayload(f) == Part(f, hsrTagOffset(f) + HSRTagLen, hsrTagOffset(f) + HSRLsdu(f))

RewriteHSRPath(f, path) ==
    [f EXCEPT ![hsrTagOffset(f) + 1] = 16 * (path % 16) + (@ % 16)]

(* Variant that loses the NetId bits. *)
RewriteLaneOnly(f, lane) ==
    [f EXCEPT ![hsrTagOffset(f) + 1] = 16 * lane + (@ % 16)]

RewriteHSRPathLane(f, lane) ==
    [f EXCEPT ![hsrTagOffset(f) + 1] = 32 * (@ \div 32) + 16 * lane + (@ % 16)]

StripHSR(f) == Part(f, 0, hsrTagOffset(f) - 2) ++ Octets(HSREncap(f)) ++ HSRPayload(f)

-----------------------------------------------------------------------------
(* Supervision frames. *)

SuperMulticastMAC == <<1, 21, 78, 0, 1, 0>>
SupVersion == 1
LifeCheckDD == 20
HSRLifeCheck == 23
supLSDUSize == 52

SupBody(mac, word, seq, tlv) ==
    Extended(SuperMulticastMAC ++ mac ++ Octets(PRPSuffix)
                 ++ Octets(word) ++ Octets(seq) ++ <<tlv, 6>> ++ mac, 60)

Build(mac, seq) == SupBody(mac, SupVersion, seq, LifeCheckDD)
BuildRCTed(mac, seq, lan) == Build(mac, seq) ++ RCT(seq, lan, supLSDUSize)

(* Variant without the PathId. *)
BuildHSRWithoutPath(mac, seq, path) == SupBody(mac, SupVersion, seq, HSRLifeCheck)

BuildHSR(mac, seq, path) ==
    SupBody(mac, Nibble * (path % 16) + SupVersion, seq, HSRLifeCheck)

(* Parse takes f for supervision. Its length test is 20, and MacAddrA is   *)
(* the slice [20:26] of a frame that ends where its octets end.            *)
IsSupFrame(f) ==
    len(f) >= 20 /\ Part(f, 0, 6) = SuperMulticastMAC /\ Word(f, 12) = PRPSuffix
ParsePanics(f) == IsSupFrame(f) /\ len(f) < 26

(* The fields handleSupervisionFrame uses, or {} where Parse returns nil.  *)
Parse(f) ==
    IF IsSupFrame(f)
    THEN {[mac |-> GetSrcMAC(f), seq |-> Word(f, 16), path |-> Word(f, 14) \div Nibble,
           tlv |-> f[19], macA |-> Part(f, 20, 26)]}
    ELSE {}

-----------------------------------------------------------------------------
(* Variant that ignores the ancillary data. *)
ReadInlineOnly(f, aux) == f

(* RawSocket.Read of a frame that the kernel delivered as f, with aux the  *)
(* set of VLAN tags [tpid, tci] it took out: none or one.                  *)
Read(f, aux) ==
    IF aux = {} \/ len(f) < 12 \/ BufLen < len(f) + 4 THEN f
    ELSE LET tag == CHOOSE t \in aux : TRUE
         IN  Part(f, 0, 12) ++ Octets(IF tag.tpid = 0 THEN C_VLAN ELSE tag.tpid)
                 ++ Octets(tag.tci) ++ Part(f, 12, len(f))
=============================================================================
