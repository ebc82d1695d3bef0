----------------------------- MODULE MCTraffic ------------------------------
(* A sender and a receiver of GOOSE or of Sampled Values.                  *)
EXTENDS TrafficGen

GooseAndSV == {etGOOSE, etSV}
SV == {etSV}

(* Untagged, and priority tagged as IEC 61850 has it. *)
UntaggedOrNull == {<<-1, 4>>, <<0, 4>>}

Mode(b, s, r) == [burst |-> b, sendLoop |-> s, recvLoop |-> r]
SomeModes == {Mode(TRUE, FALSE, FALSE), Mode(FALSE, TRUE, TRUE)}

(* Nothing, or the trailer of a PRP network. *)
MaybeTrailer == {<<>>, RCT(7, 0, 100)}

SVFrame(appid, n) ==
    assembleFrame(Zeros(6), Zeros(6), appid, BuildSVAPDU(2, 1, Text(n)), -1, 0, etSV)
GooseFrame(appid) ==
    assembleFrame(Zeros(6), Zeros(6), appid, BuildGOOSEAPDU(2, 1, Now, FALSE, 1, <<>>, <<>>, Text(90)),
                  -1, 0, etGOOSE)
Cut(f, n) == Part(f, 0, n)

(* Another APPID, another EtherType, a short frame, and frames under our   *)
(* APPID that end too early: within a value, within the long length at the *)
(* front, and where the buffer of recv ends.                               *)
Others ==
    {GooseFrame(9), SVFrame(9, 4), Build(Zeros(6), 3), Zeros(14),
     Cut(GooseFrame(AppId), 100), Cut(GooseFrame(AppId), 24),
     Cut(SVFrame(AppId, 4), 50), Cut(SVFrame(AppId, BufLen), BufLen)}

(* A buffer as it was made, and one that was full of some frame. *)
FreshOrUsed == {Zeros(BufLen), [i \in 1..BufLen |-> 129]}

EdgeWords == {0, 1, 127, 128, 255, 256, 65535}

(* An APDU is read back with the numbers it was built with, whatever the   *)
(* lengths of its texts, up to the long forms of a BER length, and         *)
(* whatever follows it in the frame.                                       *)
ASSUME ApduRoundTrip ==
    \A w, v \in EdgeWords, n \in {0, 12, 127, 128, 300}, tail \in Tails :
        /\ \A b \in BOOLEAN :
               ParseGOOSEAPDU(BuildGOOSEAPDU(w, v, Now, b, 1, Text(n), Text(12), Text(n)) ++ tail)
                   = {[stNum |-> w, sqNum |-> v, allData |-> b]}
        /\ ParseSVAPDU(BuildSVAPDU(w, v, Text(n)), tail) = {w}

(* No frame of send makes recv panic. *)
ASSUME OwnFramesHarmless == \A a \in Arrivals : ~a.outcome.panics
=============================================================================
