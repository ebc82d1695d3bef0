----------------------------- MODULE TrafficGen -----------------------------
(***************************************************************************)
(* trafficgen --mode send and --mode recv on two stations, with the        *)
(* simulated network between them: it loses, repeats and reorders frames,  *)
(* and may leave a trailer on them. Both run until they are through or a   *)
(* signal stops them; the sender may be started again.                     *)
(***************************************************************************)
EXTENDS Apdu, FiniteSets
LOCAL INSTANCE Functions

CONSTANTS
    Kinds,      \* EtherTypes to choose --et from
    Vlans,      \* pairs <<vid, pcp>> to choose --vid and --pcp from
    Modes,      \* records of --burst and of --loop of either side to choose from
    AppId,      \* --appid of both
    Count,      \* --count
    NumMod,     \* stNum and sqNum wrap here; 2^16 in the code
    Tails,      \* octets the network may leave behind a frame
    Foreign,    \* frames of others on the receiver's interface
    Leftovers,  \* what earlier frames may have left in the receiver's buffer
    MaxSent, MaxReads, MaxStarts, MaxStrays      \* bounds, for model checking

ASSUME TrafficAssumption ==
    /\ Kinds \subseteq {etGOOSE, etSV}
    /\ Count \in Nat /\ NumMod \in 4..(256 * 256)
    /\ {MaxSent, MaxReads, MaxStarts, MaxStrays} \subseteq Nat
    /\ Tails \subseteq Frame /\ Foreign \subseteq Frame
    /\ \A old \in Leftovers : old \in Frame /\ len(old) = BufLen

VARIABLES
    et, vlan, mode,   \* the command lines
    pub,      \* the sender: pc, i, j, stNum, sqNum
    sent,     \* the numbers it put on the wire, in order
    starts,   \* how often it was started
    sub,      \* the receiver: where it is
    stats,    \* its counters
    strays,   \* Sampled Values of others, cut short, that it read
    copies,   \* k -> how many copies of sent[k] the receiver read
    stopped,  \* who had a signal
    late      \* the receiver's deadline is over

options == <<et, vlan, mode>>
counters == <<stats, strays>>
vars == <<et, vlan, mode, pub, sent, starts, sub, stats, strays, copies, stopped, late>>

Numbering == [stNum : 0..(NumMod - 1), sqNum : 0..(NumMod - 1)]
Text(n) == [i \in 1..n |-> 133]
Now == Zeros(8)
Burst == 3

-----------------------------------------------------------------------------
(* The sender. *)

buildFrameEt(n, v, e) ==
    assembleFrame(<<1, 12, 205, 1, 0, 1>>, <<2, 0, 0, 0, 0, 1>>, AppId,
        IF e = etGOOSE
        THEN BuildGOOSEAPDU(n.stNum, n.sqNum, Now, FALSE, 1, Text(12), Text(12), Text(12))
        ELSE BuildSVAPDU(n.stNum, 1, Text(4)),
        v[1], v[2], e)

SendStarts == [pc |-> "event", i |-> 0, j |-> 0, stNum |-> 1, sqNum |-> 1]

More == mode.sendLoop \/ pub.i < Count

(* sock.Send: the frame is on the wire, or the sender gives up. *)
Sends(next) ==
    \/ /\ sent' = Append(sent, [stNum |-> next.stNum, sqNum |-> next.sqNum])
       /\ copies' = Append(copies, 0)
       /\ pub' = next
    \/ /\ pub' = [next EXCEPT !.pc = "failed"]
       /\ UNCHANGED <<sent, copies>>

SendEvent ==
    /\ pub.pc = "event" /\ More /\ "pub" \notin stopped
    /\ mode.sendLoop => Len(sent) < MaxSent            \* bound
    /\ Sends([pub EXCEPT !.stNum = (@ + 1) % NumMod, !.sqNum = 1, !.j = 0,
                         !.pc = IF mode.burst THEN "burst" ELSE "event",
                         !.i = IF mode.burst THEN @ ELSE @ + 1])
    /\ UNCHANGED <<options, starts, sub, counters, stopped, late>>

(* Variant that repeats the event under its old number. *)
NumberKept(n) == n

(* The number of the next retransmission. *)
NumberRaised(n) == (n + 1) % NumMod

SendRetransmission ==
    /\ pub.pc = "burst" /\ "pub" \notin stopped
    /\ LET last == pub.j + 1 = Burst
       IN  Sends([pub EXCEPT !.sqNum = NumberRaised(@), !.j = @ + 1,
                             !.pc = IF last THEN "event" ELSE "burst",
                             !.i = IF last THEN @ + 1 ELSE @])
    /\ UNCHANGED <<options, starts, sub, counters, stopped, late>>

(* Variant with a break that leaves the select and not the loop. *)
SeesNoStop == FALSE

(* One of the two selects on the stop channel. *)
SeesStop == "pub" \in stopped /\ (IF pub.pc = "event" THEN More ELSE pub.pc = "burst")

SendStops ==
    /\ SeesStop
    /\ pub' = [pub EXCEPT !.pc = "stopped"]
    /\ UNCHANGED <<options, sent, starts, sub, counters, copies, stopped, late>>

SendDone ==
    /\ pub.pc = "event" /\ ~More
    /\ pub' = [pub EXCEPT !.pc = "done"]
    /\ UNCHANGED <<options, sent, starts, sub, counters, copies, stopped, late>>

SendEnded == pub.pc \in {"done", "stopped", "failed"}

SendAgain ==
    /\ SendEnded /\ starts < MaxStarts
    /\ pub' = SendStarts /\ starts' = starts + 1
    /\ stopped' = stopped \ {"pub"}
    /\ UNCHANGED <<options, sent, sub, counters, copies, late>>

-----------------------------------------------------------------------------
(* The receiver. *)

NoStats == [total |-> 0, unique |-> 0, dupes |-> 0, lastSeen |-> {}, tagged |-> {}, tags |-> 0]

noteFrame(s, key) ==
    IF key \in s.lastSeen
    THEN [s EXCEPT !.total = @ + 1, !.dupes = @ + 1]
    ELSE [s EXCEPT !.total = @ + 1, !.unique = @ + 1, !.lastSeen = @ \cup {key}]

(* tags as the set of pairs seen and the sum of their counts. *)
noteTagged(s, vid, pcp) ==
    IF vid < 0 THEN s
    ELSE [s EXCEPT !.tagged = @ \cup {<<vid, pcp>>}, !.tags = @ + 1]

(* Variant that leaves the ancillary data unread. *)
restoreNoTag(f, aux) == f

(* linuxSocket.Recv; the same reinsertion as RawSocket.Read. *)
restoreVLANTag(f, aux) == Read(f, aux)

(* What the kernel may hand over for f: as it is, or with the tag aside. *)
Delivered(f) ==
    {<<f, {}>>} \cup
    IF IsVLANFrame(f)
    THEN {<<Part(f, 0, 12) ++ Part(f, 16, len(f)),
            {[tpid |-> Word(f, 12), tci |-> Word(f, 14)]}>>}
    ELSE {}

RecvTests ==
    /\ sub = "test"
    /\ sub' = IF "sub" \in stopped \/ (late /\ ~mode.recvLoop) THEN "reported" ELSE "recv"
    /\ UNCHANGED <<options, pub, sent, starts, counters, copies, stopped, late>>

(* What parseFrame makes of frame f in a buffer that held old before. *)
Outcome(f, old) ==
    IF parseFramePanics(f, old, AppId) THEN [panics |-> TRUE, parsed |-> {}]
    ELSE [panics |-> FALSE, parsed |-> parseFrame(f, old, AppId)]

(* Of every frame of send, and of the frames of others: a stray is one     *)
(* of Sampled Values under our APPID.                                      *)
Arrivals ==
    UNION {{[frame |-> <<n, v, e>>, outcome |-> Outcome(restoreVLANTag(d[1], d[2]), old)] :
            d \in UNION {Delivered(buildFrameEt(n, v, e) ++ tail) : tail \in Tails}, old \in Leftovers} :
        n \in Numbering, v \in Vlans, e \in Kinds}
ForeignArrivals ==
    {[stray |-> IsOurs(f, AppId) /\ PayloadType(f) = etSV, outcome |-> Outcome(f, old)] :
        f \in Foreign, old \in Leftovers}

(* The process after a frame, and its counters if it is one of ours. The   *)
(* key leaves smpCnt out.                                                  *)
Counts(outcome) ==
    /\ sub' = IF outcome.panics THEN "crashed" ELSE "test"
    /\ IF outcome.parsed = {} THEN UNCHANGED stats
       ELSE \E p \in outcome.parsed :
                stats' = noteTagged(noteFrame(stats, <<p.stNum, p.sqNum>>), p.vid, p.pcp)

RecvGets(k) ==
    /\ sub = "recv" /\ stats.total - strays < MaxReads     \* bound
    /\ \E a \in Arrivals : a.frame = <<sent[k], vlan, et>> /\ Counts(a.outcome)
    /\ copies' = [copies EXCEPT ![k] = @ + 1]
    /\ UNCHANGED <<options, pub, sent, starts, strays, stopped, late>>

RecvGetsForeign ==
    /\ sub = "recv"
    /\ \E g \in ForeignArrivals :
          /\ g.stray => strays < MaxStrays
          /\ strays' = IF g.stray THEN strays + 1 ELSE strays
          /\ Counts(g.outcome)
    /\ UNCHANGED <<options, pub, sent, starts, copies, stopped, late>>

(* EAGAIN after a second, or EINTR: nr = 0. *)
RecvTimesOut ==
    /\ sub = "recv"
    /\ sub' = "test"
    /\ UNCHANGED <<options, pub, sent, starts, counters, copies, stopped, late>>

RecvFails ==
    /\ sub = "recv"
    /\ sub' = "failed"
    /\ UNCHANGED <<options, pub, sent, starts, counters, copies, stopped, late>>

-----------------------------------------------------------------------------
(* stopChan of each process. *)
RecvEnded == sub \in {"reported", "failed", "crashed"}

Signal(who) ==
    /\ IF who = "pub" THEN ~SendEnded ELSE ~RecvEnded
    /\ stopped' = stopped \cup {who}
    /\ UNCHANGED <<options, pub, sent, starts, sub, counters, copies, late>>

DeadlinePasses ==
    /\ ~RecvEnded
    /\ late' = TRUE
    /\ UNCHANGED <<options, pub, sent, starts, sub, counters, copies, stopped>>

Init ==
    /\ et \in Kinds /\ vlan \in Vlans /\ mode \in Modes
    /\ pub = SendStarts /\ sent = <<>> /\ starts = 1
    /\ sub = "test" /\ stats = NoStats /\ strays = 0 /\ copies = <<>>
    /\ stopped = {} /\ late = FALSE

Send == SendEvent \/ SendRetransmission \/ SendStops \/ SendDone

Recv ==
    \/ RecvTests \/ RecvGetsForeign \/ RecvTimesOut \/ RecvFails
    \/ \E k \in DOMAIN sent : RecvGets(k)

Next ==
    \/ Send \/ Recv \/ SendAgain
    \/ \E who \in {"pub", "sub"} : Signal(who)
    \/ DeadlinePasses

Spec == Init /\ [][Next]_vars

(* Both processes run; a Recv comes back within the second of its timeout. *)
FairSpec == Spec /\ WF_vars(Send) /\ WF_vars(RecvTests) /\ WF_vars(RecvTimesOut)

-----------------------------------------------------------------------------
WasRead == {k \in DOMAIN sent : copies[k] > 0}

(* Every copy the receiver read is counted, and of the frames of others    *)
(* only Sampled Values under its APPID, which it takes for whole even when *)
(* cut short; the split into unique and dupes is that of frames and        *)
(* repetitions: the numbers send gives to the GOOSE events and             *)
(* retransmissions of one start tell every two frames apart until stNum    *)
(* has gone round, and all Sampled Values share one key (parseFrame,       *)
(* noteFrame).                                                             *)
CountsExact ==
    sub # "crashed" =>
        /\ stats.total = FoldFunction(+, 0, copies) + strays
        /\ stats.unique + stats.dupes = stats.total
        /\ (/\ starts = 1 /\ et = etGOOSE
            /\ Cardinality({k \in DOMAIN sent : sent[k].sqNum = 1}) <= NumMod)
           => stats.unique = Cardinality(WasRead) + (IF strays > 0 THEN 1 ELSE 0)

(* recv reports the tag the sender put on, for every frame it counted,     *)
(* wherever the kernel left the tag; and no tag when there was none.       *)
TagsObserved ==
    IF vlan[1] < 0 THEN stats.tagged = {}
    ELSE stats.tagged \subseteq {vlan} /\ (sub # "crashed" => stats.tags + strays = stats.total)

(* A signal ends send and recv, the deadline ends recv, and send without   *)
(* --loop comes to an end, however much or little traffic there is.        *)
StopEndsTraffic ==
    /\ "pub" \in stopped \/ ~mode.sendLoop ~> SendEnded
    /\ "sub" \in stopped \/ (late /\ ~mode.recvLoop) ~> RecvEnded

(* recv tells the frames it has seen from repetitions of them, whichever   *)
(* kind of frame they are: "report unique frames seen, duplicate frames".  *)
UniqueFramesReported ==
    starts = 1 /\ strays = 0 /\ Len(sent) <= NumMod =>
        stats.unique = Cardinality({buildFrameEt(sent[k], vlan, et) : k \in WasRead})
=============================================================================
