---------------------------- MODULE NodeRuntime -----------------------------
(***************************************************************************)
(* One prp.Node as a set of goroutines: Start and its failures, a reader   *)
(* per port, the bounded frameBuffer, processFrames, the cleanup timer,    *)
(* the supervision sender of cmd/prpd, Snapshot, and concurrent calls of   *)
(* Stop.  What a handler does to a frame is module RedBox; here it counts  *)
(* the frame in and then drops or forwards it, or consumes it uncounted    *)
(* (supervision).  Raising the MTU of a port is a step that may fail.      *)
(***************************************************************************)
EXTENDS Integers, Sequences, FiniteSets

CONSTANTS
    Ports,       \* "lan_a", "lan_b" and, if it is configured, "interlink"
    Stoppers,    \* the callers of Stop
    BufferSize,  \* capacity of frameBuffer, 10000 in the code
    MaxFrames,   \* bound on the frames arriving
    MaxSweeps    \* bound on the cleanups

ASSUME NodeRuntimeAssumption ==
    /\ {"lan_a", "lan_b"} \subseteq Ports /\ Ports \subseteq {"lan_a", "lan_b", "interlink"}
    /\ BufferSize \in Nat \ {0} /\ MaxFrames \in Nat /\ MaxSweeps \in Nat

VARIABLES
    phase,    \* "starting", "failed", "running" or "killed"
    todo,     \* the steps Start has left
    open,     \* the ports with a socket
    closes,   \* how often stopChan was closed
    stop,     \* stopper -> where its call of Stop is
    timer,    \* cleanupTimer is armed
    sweeps,   \* periodicCleanup calls in progress
    swept,    \* periodicCleanup calls so far
    reader,   \* port -> where its readLoop is
    arrived,  \* port -> number of frames read from it
    buffer,   \* frameBuffer: a sequence of <<port, frame number>>
    full,     \* the frames dropped because frameBuffer was full
    proc,     \* where processFrames is
    taken,    \* the frames it has taken, in order
    sup,      \* where the supervision sender is
    view      \* Snapshot is copying the drop counters

life == <<phase, todo, open>>
halt == <<closes, stop>>
clean == <<timer, sweeps, swept>>
queue == <<reader, arrived, buffer, full>>
work == <<proc, taken>>
vars == <<life, halt, clean, queue, work, sup, view>>

stopped == closes > 0

StartSteps ==
    << <<"bind", "lan_a">>, <<"mtu", "lan_a">>, <<"mtu", "lan_b">>, <<"bind", "lan_b">> >>
    \o IF "interlink" \in Ports THEN << <<"bind", "interlink">>, <<"mtu", "interlink">> >> ELSE <<>>

Init ==
    /\ phase = "starting"
    /\ todo = StartSteps
    /\ open = {}
    /\ closes = 0 /\ stop = [s \in Stoppers |-> "idle"]
    /\ timer = FALSE /\ sweeps = 0 /\ swept = 0
    /\ reader = [p \in Ports |-> "off"] /\ arrived = [p \in Ports |-> 0]
    /\ buffer = <<>> /\ full = {}
    /\ proc = "off" /\ taken = <<>>
    /\ sup = "off"
    /\ view = FALSE

-----------------------------------------------------------------------------
(* Start.                                                                  *)
StartStep ==
    /\ phase = "starting" /\ todo # <<>>
    /\ todo' = Tail(todo)
    /\ open' = IF Head(todo)[1] = "bind" THEN open \cup {Head(todo)[2]} ELSE open
    /\ UNCHANGED <<phase, halt, clean, queue, work, sup, view>>

(* An error path of Start that closes nothing. *)
leavePorts == open
closePorts == {}

StartFails ==
    /\ phase = "starting" /\ todo # <<>>
    /\ phase' = "failed"
    /\ open' = closePorts
    /\ UNCHANGED <<todo, halt, clean, queue, work, sup, view>>

(* The timer is armed and the goroutines start, that of cmd/prpd included. *)
StartLoops ==
    /\ phase = "starting" /\ todo = <<>>
    /\ phase' = "running"
    /\ timer' = TRUE
    /\ reader' = [p \in Ports |-> "loop"]
    /\ proc' = "select"
    /\ sup' = "waiting"
    /\ UNCHANGED <<todo, open, halt, sweeps, swept, arrived, buffer, full, taken, view>>

-----------------------------------------------------------------------------
(* Stop holds stopLock from "checked" until it has returned; a call that   *)
(* finds stopChan closed returns at once.                                  *)
LockIgnored == TRUE
LockFree == \A s \in Stoppers : stop[s] \in {"idle", "returned"}

StopChecks(s) ==
    /\ phase = "running" /\ stop[s] = "idle" /\ LockFree
    /\ stop' = [stop EXCEPT ![s] = IF stopped THEN "returned" ELSE "checked"]
    /\ UNCHANGED <<life, closes, clean, queue, work, sup, view>>

StopClosesChannel(s) ==
    /\ stop[s] = "checked"
    /\ stop' = [stop EXCEPT ![s] = "channel"]
    /\ closes' = closes + 1
    /\ UNCHANGED <<life, clean, queue, work, sup, view>>

StopStopsTimer(s) ==
    /\ stop[s] = "channel"
    /\ stop' = [stop EXCEPT ![s] = "timer"]
    /\ timer' = FALSE
    /\ UNCHANGED <<life, closes, sweeps, swept, queue, work, sup, view>>

StopClosesPorts(s) ==
    /\ stop[s] = "timer"
    /\ stop' = [stop EXCEPT ![s] = "returned"]
    /\ open' = {}
    /\ UNCHANGED <<phase, todo, closes, clean, queue, work, sup, view>>

-----------------------------------------------------------------------------
(* The cleanup timer runs periodicCleanup in a goroutine of its own, which *)
(* arms the timer again once it has swept.                                 *)
ArmedAtOnce == TRUE
ArmedWhenFired == FALSE

TimerFires ==
    /\ timer /\ swept < MaxSweeps
    /\ timer' = ArmedWhenFired
    /\ sweeps' = sweeps + 1
    /\ swept' = swept + 1
    /\ UNCHANGED <<life, halt, queue, work, sup, view>>

CleanupResets ==
    /\ sweeps > 0
    /\ sweeps' = sweeps - 1
    /\ timer' = TRUE
    /\ UNCHANGED <<life, halt, swept, queue, work, sup, view>>

-----------------------------------------------------------------------------
(* readLoop.  A Read may fail at any time, and does so on a closed port    *)
(* unless it was already blocked in it.                                    *)
ReaderChecks(p) ==
    /\ reader[p] = "loop"
    /\ reader' = [reader EXCEPT ![p] = IF stopped THEN "done" ELSE "reading"]
    /\ UNCHANGED <<life, halt, clean, arrived, buffer, full, work, sup, view>>

(* What reading frame e does to the waiting events: nothing, as they hold  *)
(* copies.  Events that refer to the read buffer of their port change.     *)
OverwriteShared(b, e) == [i \in DOMAIN b |-> IF b[i][1] = e[1] THEN e ELSE b[i]]
OverwriteCopied(b, e) == b

ReaderGets(p) ==
    /\ reader[p] = "reading" /\ p \in open
    /\ Len(buffer) + Len(taken) + Cardinality(full) < MaxFrames
    /\ reader' = [reader EXCEPT ![p] = "holding"]
    /\ arrived' = [arrived EXCEPT ![p] = @ + 1]
    /\ buffer' = OverwriteCopied(buffer, <<p, arrived[p] + 1>>)
    /\ UNCHANGED <<life, halt, clean, full, work, sup, view>>

ReaderFails(p) ==
    /\ reader[p] = "reading"
    /\ reader' = [reader EXCEPT ![p] = "loop"]
    /\ UNCHANGED <<life, halt, clean, arrived, buffer, full, work, sup, view>>

(* A channel with one place more. *)
HasRoomForOneMore(b) == Len(b) <= BufferSize
HasRoom(b) == Len(b) < BufferSize

(* A send that waits for room, and the select with a default that drops    *)
(* the frame.                                                              *)
SendBlocks(b) == FALSE
DropsWhenFull(b) == Len(b) = BufferSize

ReaderSends(p) ==
    LET e == <<p, arrived[p]>>
    IN  /\ reader[p] = "holding"
        /\ \/ /\ DropsWhenFull(buffer)
              /\ full' = full \cup {e}
              /\ UNCHANGED buffer
           \/ /\ HasRoom(buffer)
              /\ buffer' = Append(buffer, e)
              /\ UNCHANGED full
        /\ reader' = [reader EXCEPT ![p] = "loop"]
        /\ UNCHANGED <<life, halt, clean, arrived, work, sup, view>>

-----------------------------------------------------------------------------
(* processFrames.  Go picks any ready case of the select.                  *)
ProcessTakes ==
    /\ proc = "select" /\ buffer # <<>>
    /\ buffer' = Tail(buffer)
    /\ taken' = Append(taken, Head(buffer))
    /\ proc' = "handling"
    /\ UNCHANGED <<life, halt, clean, reader, arrived, full, sup, view>>

(* A select without the stopChan case. *)
IgnoresStop == FALSE
SeesStop == stopped

ProcessStops ==
    /\ proc = "select" /\ SeesStop
    /\ proc' = "done"
    /\ UNCHANGED <<life, halt, clean, queue, taken, sup, view>>

(* Supervision is not counted. *)
HandlerConsumes ==
    /\ proc = "handling"
    /\ proc' = "select"
    /\ UNCHANGED <<life, halt, clean, queue, taken, sup, view>>

countFrame ==
    /\ proc = "handling"
    /\ proc' = "counted"
    /\ UNCHANGED <<life, halt, clean, queue, taken, sup, view>>

HandlerForwards ==
    /\ proc = "counted"
    /\ proc' = "select"
    /\ UNCHANGED <<life, halt, clean, queue, taken, sup, view>>

noteDrop ==
    /\ proc = "counted"
    /\ proc' = "select"
    /\ UNCHANGED <<life, halt, clean, queue, taken, sup, view>>

-----------------------------------------------------------------------------
(* The supervision sender waits for its ticker, whose case changes nothing *)
(* here, and for stopChan.                                                 *)
SupervisionStops ==
    /\ sup = "waiting" /\ stopped
    /\ sup' = "done"
    /\ UNCHANGED <<life, halt, clean, queue, work, view>>

(* Snapshot copies the drop counters after it has released the lock of the *)
(* frame counters.                                                         *)
SnapshotCopies ==
    /\ phase = "running" /\ ~view
    /\ view' = TRUE
    /\ UNCHANGED <<life, halt, clean, queue, work, sup>>

SnapshotReturns ==
    /\ view
    /\ view' = FALSE
    /\ UNCHANGED <<life, halt, clean, queue, work, sup>>

(* dropCounters is read by Snapshot and written by noteDrop without a      *)
(* lock, and so is supervisionSeen by the cleanup and the supervision      *)
(* handler.  Go may notice two such accesses at once, and then kills the   *)
(* process, or may not.                                                    *)
ConcurrentMapAccess ==
    \/ view /\ proc = "counted"
    \/ sweeps > 0 /\ proc = "handling"

MapFault ==
    /\ ConcurrentMapAccess
    /\ phase' = "killed"
    /\ open' = {}
    /\ stop' = [s \in Stoppers |-> "idle"]
    /\ timer' = FALSE /\ sweeps' = 0
    /\ reader' = [p \in Ports |-> "done"] /\ proc' = "done" /\ sup' = "done"
    /\ view' = FALSE
    /\ UNCHANGED <<todo, closes, swept, arrived, buffer, full, taken>>

-----------------------------------------------------------------------------
Stop(s) ==
    StopChecks(s) \/ StopClosesChannel(s) \/ StopStopsTimer(s) \/ StopClosesPorts(s)

readLoop(p) == ReaderChecks(p) \/ ReaderGets(p) \/ ReaderFails(p) \/ ReaderSends(p)

processFrames ==
    \/ ProcessTakes \/ ProcessStops
    \/ HandlerConsumes \/ countFrame \/ HandlerForwards \/ noteDrop

Next ==
    \/ StartStep \/ StartFails \/ StartLoops
    \/ \E s \in Stoppers : Stop(s)
    \/ TimerFires \/ CleanupResets
    \/ \E p \in Ports : readLoop(p)
    \/ processFrames
    \/ SupervisionStops
    \/ SnapshotCopies \/ SnapshotReturns
    \/ MapFault

Spec == Init /\ [][Next]_vars

(* The Go scheduler runs every goroutine that can run.  Nothing is assumed *)
(* of a Read, which may block for ever, nor of the callers of Stop, except *)
(* that a call once begun goes on.                                         *)
FairSpec ==
    /\ Spec
    /\ \A s \in Stoppers :
          WF_vars(StopClosesChannel(s) \/ StopStopsTimer(s) \/ StopClosesPorts(s))
    /\ \A p \in Ports : WF_vars(ReaderChecks(p) \/ ReaderSends(p))
    /\ WF_vars(processFrames)
    /\ WF_vars(SupervisionStops)

-----------------------------------------------------------------------------
TypeOK ==
    /\ phase \in {"starting", "failed", "running", "killed"}
    /\ open \in SUBSET Ports
    /\ stop \in [Stoppers -> {"idle", "checked", "channel", "timer", "returned"}]
    /\ timer \in BOOLEAN /\ sweeps \in 0..MaxSweeps /\ swept \in 0..MaxSweeps
    /\ reader \in [Ports -> {"off", "loop", "reading", "holding", "done"}]
    /\ arrived \in [Ports -> 0..MaxFrames]
    /\ buffer \in Seq(Ports \X (1..MaxFrames)) /\ Len(buffer) <= BufferSize
    /\ full \in SUBSET (Ports \X (1..MaxFrames))
    /\ proc \in {"off", "select", "handling", "counted", "done"}
    /\ sup \in {"off", "waiting", "done"}
    /\ view \in BOOLEAN

(* stopChan is closed at most once, however many callers of Stop there     *)
(* are: closing a closed channel panics (stopLock in Stop).                *)
ClosedOnce == closes <= 1

(* No socket is left behind by a Start that failed, and none when any call *)
(* of Stop returns, the one that found the node already stopped included   *)
(* (closePorts, stopLock).                                                 *)
NoSocketLeft ==
    phase = "failed" \/ (\E s \in Stoppers : stop[s] = "returned") => open = {}

(* periodicCleanup never runs twice at a time (its Reset comes last).      *)
OneCleanupAtATime == sweeps <= 1

Occurs(q, e) == Cardinality({i \in DOMAIN q : q[i] = e})

(* Every frame read is in exactly one place: in the reader's hand, in      *)
(* frameBuffer, dropped because frameBuffer was full, or taken by          *)
(* processFrames; none is taken twice, and those of a port are taken in    *)
(* the order they arrived (readLoop copies the frame).                     *)
FramesAccounted ==
    /\ phase # "killed" => \A p \in Ports : \A k \in 1..arrived[p] :
          LET e == <<p, k>>
          IN  Occurs(buffer, e) + Occurs(taken, e)
              + (IF e \in full THEN 1 ELSE 0)
              + (IF reader[p] = "holding" /\ k = arrived[p] THEN 1 ELSE 0) = 1
    /\ \A i, j \in DOMAIN taken :
          i < j /\ taken[i][1] = taken[j][1] => taken[i][2] < taken[j][2]

(* A reader with a frame always gets rid of it, whatever has become of     *)
(* processFrames (the default case in readLoop).                           *)
ReadersNeverWait == \A p \in Ports : reader[p] = "holding" ~> reader[p] # "holding"

(* Once stopped, processFrames and the supervision sender end.             *)
StopEndsLoops == stopped ~> (proc = "done" /\ sup = "done")

=============================================================================
