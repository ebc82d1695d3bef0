-------------------------------- MODULE Apdu --------------------------------
(* The octets of trafficgen's frames: BER values, the APDUs of GOOSE and   *)
(* Sampled Values, and the Ethernet frame around them. Texts and the time  *)
(* stamp are octets nobody looks into.                                     *)
EXTENDS Frames
LOCAL INSTANCE SequencesExt

etGOOSE == 136 * 256 + 184               \* 0x88B8
etSV == 136 * 256 + 186                  \* 0x88BA
payloadHeaderLen == 8

BigEndian(v) ==
    LET n == CHOOSE k \in 1..3 : v < 256^k /\ (k = 1 \/ v >= 256^(k - 1))
    IN  [i \in 1..n |-> (v \div 256^(n - i)) % 256]

encodeLength(length) ==
    IF length < 128 THEN <<length>>
    ELSE <<128 + len(BigEndian(length))>> ++ BigEndian(length)

encodeTLV(tag, payload) == <<tag>> ++ encodeLength(len(payload)) ++ payload

(* parseTLV: the TLV at the head of d, if d holds all of it.               *)
ValueStart(d) == IF d[2] < 128 THEN 2 ELSE 2 + (d[2] - 128)
ValueLength(d) ==
    IF d[2] < 128 THEN d[2]
    ELSE LET Upto[n \in 0..(d[2] - 128)] ==
                 IF n = 0 THEN 0 ELSE 256 * Upto[n - 1] + d[2 + n]
         IN  Upto[d[2] - 128]
HasTLV(d) ==
    /\ len(d) >= 2
    /\ len(d) >= ValueStart(d)
    /\ len(d) >= ValueStart(d) + ValueLength(d)
Value(d) == Part(d, ValueStart(d), ValueStart(d) + ValueLength(d))

(* The TLVs a walk over d meets, up to the first that is not whole.        *)
TLVs(d) ==
    LET From[off \in 0..len(d)] ==
            LET rest == Part(d, off, len(d))
            IN  IF ~HasTLV(rest) THEN <<>>
                ELSE <<[tag |-> rest[1], value |-> Value(rest)]>>
                         \o From[off + ValueStart(rest) + ValueLength(rest)]
    IN  From[0]

Boolean(b) == <<1, 1, IF b THEN 255 ELSE 0>>

(* The two-octet numbers under a tag, in the order of the walk: each one   *)
(* overwrites the one before.                                              *)
Numbers(tlvs, tag) ==
    LET fits == SelectSeq(tlvs, LAMBDA e : e.tag = tag /\ len(e.value) = 2)
    IN  [i \in DOMAIN fits |-> Word(fits[i].value, 0)]

-----------------------------------------------------------------------------
BuildGOOSEAPDU(stNum, sqNum, t, test, confRev, gcbRef, datSet, goID) ==
    encodeTLV(97, FlattenSeq(<<
        encodeTLV(128, gcbRef), encodeTLV(129, Octets(2000)), encodeTLV(130, datSet),
        encodeTLV(131, goID), encodeTLV(132, t), encodeTLV(133, Octets(stNum)),
        encodeTLV(134, Octets(sqNum)), encodeTLV(135, Boolean(test)),
        encodeTLV(136, Octets(confRev)), encodeTLV(137, Boolean(FALSE)),
        encodeTLV(138, <<1>>), encodeTLV(171, Boolean(test))>>))

(* Where an APDU ends within its own long length, apdu[off+i] panics.      *)
LengthCut(apdu) == len(apdu) >= 2 /\ len(apdu) < ValueStart(apdu)

(* The fields the receiver uses, or {} where ok is false. *)
ParseGOOSEAPDU(apdu) ==
    IF ~HasTLV(apdu) \/ apdu[1] # 97 THEN {}
    ELSE LET tlvs == TLVs(Value(apdu))
             data == SelectSeq(tlvs, LAMBDA e :
                         /\ e.tag = 171 /\ len(e.value) = 3
                         /\ e.value[1] = 1 /\ e.value[2] = 1)
             st == Numbers(tlvs, 133)
             sq == Numbers(tlvs, 134)
         IN  IF st = <<>> \/ sq = <<>> \/ data = <<>> THEN {}
             ELSE {[stNum |-> Last(st), sqNum |-> Last(sq), allData |-> Last(data).value[3] # 0]}

BuildSVAPDU(smpCnt, confRev, svID) ==
    encodeTLV(96, FlattenSeq(<<
        encodeTLV(128, <<1, 1, 1>>), encodeTLV(129, <<0, 0>>),
        encodeTLV(162, FlattenSeq(<<
            encodeTLV(128, svID), encodeTLV(129, Octets(smpCnt)),
            encodeTLV(130, Octets(confRev)), encodeTLV(131, <<0>>),
            encodeTLV(132, Octets(4800)), encodeTLV(133, Octets(0))>>))>>))

(* Tag 0x81 is the security field outside the ASDU and smpCnt inside it;   *)
(* the walk takes both for smpCnt, and the one in the ASDU comes later.    *)
(* Nothing tests that the APDU holds the octets its length promises: the   *)
(* slice goes on into behind, what the buffer holds after it, and panics   *)
(* at the end of the buffer (BeyondBuffer).                                *)
BeyondBuffer(apdu, behind) == ValueStart(apdu) + ValueLength(apdu) > len(apdu ++ behind)
ParseSVAPDU(apdu, behind) ==
    IF len(apdu) < 2 \/ apdu[1] # 96 THEN {}
    ELSE LET Met(e) == IF e.tag = 162 THEN Numbers(TLVs(e.value), 129) ELSE Numbers(<<e>>, 129)
             tlvs == TLVs(Value(apdu ++ behind))
             met == FlattenSeq([i \in DOMAIN tlvs |-> Met(tlvs[i])])
         IN  IF met = <<>> THEN {} ELSE {Last(met)}

-----------------------------------------------------------------------------
(* vid = -1 is an untagged frame. *)

assembleFrame(dst, src, appid, apdu, vid, pcp, ethertype) ==
    dst ++ src
        ++ (IF vid >= 0 THEN Octets(C_VLAN) ++ Octets(8192 * (pcp % 8) + (vid % Nibble)) ELSE <<>>)
        ++ Octets(ethertype) ++ Octets(appid) ++ Octets(len(apdu) + 8) ++ Zeros(4) ++ apdu

PayloadType(f) == Word(f, 12 + TagLen(f))
PayloadAppid(f) == Word(f, 14 + TagLen(f))
PayloadApdu(f) == Part(f, 14 + TagLen(f) + payloadHeaderLen, len(f))

(* The frame is of a kind and an APPID that recv listens to. *)
IsOurs(f, wantAppid) ==
    /\ len(f) >= 14 + TagLen(f) + payloadHeaderLen
    /\ PayloadType(f) \in {etGOOSE, etSV}
    /\ wantAppid \in {0, PayloadAppid(f)}

(* parseFrame panics on frame f, read into a buffer that held old before.  *)
Behind(f, old) == Part(old, len(f), BufLen)
parseFramePanics(f, old, wantAppid) ==
    /\ IsOurs(f, wantAppid)
    /\ LET apdu == PayloadApdu(f)
       IN  /\ len(apdu) >= 2 /\ apdu[1] = (IF PayloadType(f) = etSV THEN 96 ELSE 97)
           /\ \/ LengthCut(apdu)
              \/ PayloadType(f) = etSV /\ BeyondBuffer(apdu, Behind(f, old))

(* The fields recv uses, or {} where ok is false. *)
parseFrame(f, old, wantAppid) ==
    LET vid == IF IsVLANFrame(f) THEN Word(f, 14) % Nibble ELSE -1
        pcp == IF IsVLANFrame(f) THEN Word(f, 14) \div 8192 ELSE 0
    IN  IF ~IsOurs(f, wantAppid) THEN {}
        ELSE IF PayloadType(f) = etGOOSE
             THEN {[stNum |-> g.stNum, sqNum |-> g.sqNum, smpCnt |-> 0, vid |-> vid, pcp |-> pcp] :
                       g \in ParseGOOSEAPDU(PayloadApdu(f))}
             ELSE {[stNum |-> 0, sqNum |-> 0, smpCnt |-> c, vid |-> vid, pcp |-> pcp] :
                       c \in ParseSVAPDU(PayloadApdu(f), Behind(f, old))}
=============================================================================
