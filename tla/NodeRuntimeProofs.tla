------------------------- MODULE NodeRuntimeProofs --------------------------
(***************************************************************************)
(* Proofs about the goroutines of a node, for every choice of ports, any   *)
(* callers of Stop and a frameBuffer of any size. Two arguments. Stop and  *)
(* cleanup: a caller of Stop that goes on is the only one, the first of    *)
(* them closes the channel, and the sockets are gone when it lets go of    *)
(* stopLock; the timer is armed only while no cleanup runs. The frames: a  *)
(* frame in the queue is older than the one its reader holds, and younger  *)
(* than those of its port that processFrames has taken.                    *)
(* The types rest on the second argument: a port has read at most the      *)
(* frames that are queued, dropped or taken.                               *)
(***************************************************************************)
EXTENDS NodeRuntime, FiniteSetTheorems, FunctionTheorems, TLAPS

Places == {"idle", "checked", "channel", "timer", "returned"}

(* Caller s has stopLock. *)
Holds(s) == stop[s] \in {"checked", "channel", "timer"}

(* The inductive invariant of Stop and the cleanup. *)
StopInv ==
    /\ stop \in [Stoppers -> Places]
    /\ closes \in {0, 1}
    /\ phase # "running" => \A s \in Stoppers : stop[s] = "idle"
    /\ phase \in {"starting", "failed"} => closes = 0
    /\ phase \in {"failed", "killed"} => open = {}
    /\ \A s, t \in Stoppers : Holds(s) /\ Holds(t) => s = t
    /\ \A s \in Stoppers : stop[s] = "checked" => closes = 0
    /\ \A s \in Stoppers : stop[s] = "returned" => open = {}
    /\ closes = 1 /\ (\A s \in Stoppers : ~Holds(s)) => open = {}

LEMMA StopInit == Init => StopInv
BY DEF Init, StopInv, Holds, Places

(* A step that leaves Stop and the sockets alone. *)
LEMMA StopFrame == StopInv /\ UNCHANGED <<phase, open, closes, stop>> => StopInv'
BY DEF StopInv, Holds

LEMMA StopStep == StopInv /\ [Next]_vars => StopInv'
<1>. SUFFICES ASSUME StopInv, [Next]_vars PROVE StopInv'
  OBVIOUS
<1>1. CASE StartStep
  BY <1>1 DEF StartStep, StopInv, Holds, halt
<1>2. CASE StartFails
  BY <1>2 DEF StartFails, closePorts, StopInv, Holds, halt
<1>3. CASE StartLoops
  BY <1>3 DEF StartLoops, StopInv, Holds, halt
<1>4. ASSUME NEW s \in Stoppers, Stop(s) PROVE StopInv'
  <2>1. CASE StopChecks(s)
    BY <2>1 DEF StopChecks, LockFree, stopped, StopInv, Holds, Places, life
  <2>2. CASE StopClosesChannel(s)
    BY <2>2 DEF StopClosesChannel, StopInv, Holds, Places, life
  <2>3. CASE StopStopsTimer(s)
    BY <2>3 DEF StopStopsTimer, StopInv, Holds, Places, life
  <2>4. CASE StopClosesPorts(s)
    BY <2>4 DEF StopClosesPorts, StopInv, Holds, Places
  <2>. QED BY <1>4, <2>1, <2>2, <2>3, <2>4 DEF Stop
<1>5. CASE MapFault
  BY <1>5 DEF MapFault, StopInv, Holds, Places
<1>6. CASE TimerFires \/ CleanupResets
  BY <1>6, StopFrame DEF TimerFires, CleanupResets, life, halt
<1>7. ASSUME NEW p \in Ports, readLoop(p) PROVE StopInv'
  BY <1>7, StopFrame DEF readLoop, ReaderChecks, ReaderGets, ReaderFails, ReaderSends, life, halt
<1>8. CASE processFrames
  BY <1>8, StopFrame DEF processFrames, ProcessTakes, ProcessStops, HandlerConsumes, countFrame,
     HandlerForwards, noteDrop, life, halt
<1>9. CASE SupervisionStops \/ SnapshotCopies \/ SnapshotReturns
  BY <1>9, StopFrame DEF SupervisionStops, SnapshotCopies, SnapshotReturns, life, halt
<1>10. CASE UNCHANGED vars
  BY <1>10, StopFrame DEF vars, life, halt
<1>. QED
  BY <1>1, <1>2, <1>3, <1>4, <1>5, <1>6, <1>7, <1>8, <1>9, <1>10 DEF Next

(* However many goroutines call Stop, and whether Start failed or the      *)
(* process was killed, stopChan is closed at most once (stopLock in Stop). *)
THEOREM ChannelClosedOnce == Spec => []ClosedOnce
<1>1. StopInv => ClosedOnce
  BY DEF StopInv, ClosedOnce
<1>. QED
  BY <1>1, StopInit, StopStep, PTL DEF Spec

(* When Start has failed, or any call of Stop has returned, no socket is   *)
(* open (closePorts, Stop).                                                *)
THEOREM SocketsClosed == Spec => []NoSocketLeft
<1>1. StopInv => NoSocketLeft
  BY DEF StopInv, NoSocketLeft
<1>. QED
  BY <1>1, StopInit, StopStep, PTL DEF Spec

-----------------------------------------------------------------------------
(* The inductive invariant of the cleanup timer. *)
CleanupInv ==
    /\ sweeps \in {0, 1}
    /\ timer \in BOOLEAN
    /\ timer => sweeps = 0
    /\ phase = "starting" => sweeps = 0 /\ timer = FALSE

LEMMA CleanupFrame == CleanupInv /\ UNCHANGED <<phase, timer, sweeps>> => CleanupInv'
BY DEF CleanupInv

LEMMA CleanupStep == CleanupInv /\ [Next]_vars => CleanupInv'
<1>. SUFFICES ASSUME CleanupInv, [Next]_vars PROVE CleanupInv'
  OBVIOUS
<1>1. CASE StartStep
  BY <1>1, CleanupFrame DEF StartStep, clean
<1>2. CASE StartFails \/ StartLoops
  <2>1. sweeps' = 0 /\ timer' \in BOOLEAN /\ phase' # "starting"
    BY <1>2 DEF StartFails, StartLoops, CleanupInv, clean
  <2>. QED BY <2>1, Zenon DEF CleanupInv
<1>3. ASSUME NEW s \in Stoppers, Stop(s) PROVE CleanupInv'
  <2>1. CASE StopStopsTimer(s)
    <3>1. timer' = FALSE /\ sweeps' = sweeps /\ phase' = phase
      BY <2>1, Zenon DEF StopStopsTimer, life
    <3>. QED BY <3>1, Zenon DEF CleanupInv
  <2>2. CASE ~StopStopsTimer(s)
    BY <1>3, <2>2, CleanupFrame
       DEF Stop, StopChecks, StopClosesChannel, StopClosesPorts, life, clean
  <2>. QED BY <2>1, <2>2
<1>4. CASE TimerFires
  <2>1. timer' = FALSE /\ sweeps = 0 /\ sweeps' = sweeps + 1 /\ phase' = phase
    BY <1>4 DEF TimerFires, ArmedWhenFired, CleanupInv, life
  <2>2. sweeps' = 1
    BY <2>1
  <2>3. phase # "starting"
    BY <1>4, Zenon DEF TimerFires, CleanupInv
  <2>. QED BY <2>1, <2>2, <2>3, Zenon DEF CleanupInv
<1>5. CASE CleanupResets
  <2>1. timer' = TRUE /\ sweeps' = 0
    BY <1>5 DEF CleanupResets, CleanupInv
  <2>2. phase' = phase /\ phase # "starting"
    BY <1>5 DEF CleanupResets, CleanupInv, life
  <2>. QED BY <2>1, <2>2, Zenon DEF CleanupInv
<1>6. ASSUME NEW p \in Ports, readLoop(p) PROVE CleanupInv'
  BY <1>6, CleanupFrame
     DEF readLoop, ReaderChecks, ReaderGets, ReaderFails, ReaderSends, life, clean
<1>7. CASE processFrames
  BY <1>7, CleanupFrame DEF processFrames, ProcessTakes, ProcessStops, HandlerConsumes,
     countFrame, HandlerForwards, noteDrop, life, clean
<1>8. CASE SupervisionStops \/ SnapshotCopies \/ SnapshotReturns
  BY <1>8, CleanupFrame DEF SupervisionStops, SnapshotCopies, SnapshotReturns, life, clean
<1>9. CASE MapFault
  <2>1. timer' = FALSE /\ sweeps' = 0
    BY <1>9, Zenon DEF MapFault
  <2>. QED BY <2>1, Zenon DEF CleanupInv
<1>10. CASE UNCHANGED vars
  BY <1>10, CleanupFrame DEF vars, life, clean
<1>. QED
  BY <1>1, <1>2, <1>3, <1>4, <1>5, <1>6, <1>7, <1>8, <1>9, <1>10 DEF Next

(* Two cleanups never run at the same time, although Stop disarms the      *)
(* timer and a running cleanup arms it again (periodicCleanup).            *)
THEOREM CleanupsAlone == Spec => []OneCleanupAtATime
<1>1. Init => CleanupInv
  BY DEF Init, CleanupInv
<1>2. CleanupInv => OneCleanupAtATime
  BY DEF CleanupInv, OneCleanupAtATime
<1>. QED
  BY <1>1, <1>2, CleanupStep, PTL DEF Spec

-----------------------------------------------------------------------------
(* How often an event occurs in a queue. *)

LEMMA OccursType ==
    ASSUME NEW S, NEW q \in Seq(S), NEW e
    PROVE  /\ IsFiniteSet({i \in DOMAIN q : q[i] = e})
           /\ Occurs(q, e) \in Nat
<1>1. DOMAIN q = 1..Len(q) /\ Len(q) \in Int
  OBVIOUS
<1>2. IsFiniteSet(1..Len(q))
  BY <1>1, FS_Interval
<1>3. IsFiniteSet({i \in DOMAIN q : q[i] = e})
  BY <1>1, <1>2, FS_Subset
<1>. QED
  BY <1>3, FS_CardinalityType DEF Occurs

LEMMA OccursNot ==
    ASSUME NEW q, NEW e, \A i \in DOMAIN q : q[i] # e
    PROVE  Occurs(q, e) = 0
<1>1. {i \in DOMAIN q : q[i] = e} = {}
  OBVIOUS
<1>. QED
  BY <1>1, FS_EmptySet DEF Occurs

LEMMA OccursAppend ==
    ASSUME NEW S, NEW q \in Seq(S), NEW x \in S, NEW e
    PROVE  /\ x = e => Occurs(Append(q, x), e) = Occurs(q, e) + 1
           /\ x # e => Occurs(Append(q, x), e) = Occurs(q, e)
<1>. DEFINE I == {i \in DOMAIN q : q[i] = e}
            J == {i \in DOMAIN Append(q, x) : Append(q, x)[i] = e}
            n == Len(q) + 1
<1>1. IsFiniteSet(I) /\ Cardinality(I) = Occurs(q, e) /\ Occurs(q, e) \in Nat
  BY OccursType DEF Occurs
<1>2. n \notin I /\ Occurs(Append(q, x), e) = Cardinality(J)
  BY DEF Occurs
<1>3. x = e => J = I \cup {n}
  OBVIOUS
<1>4. x # e => J = I
  OBVIOUS
<1>. HIDE DEF I, J, n
<1>5. Cardinality(I \cup {n}) = Occurs(q, e) + 1
  BY <1>1, <1>2, FS_AddElement
<1>6. x = e => Occurs(Append(q, x), e) = Occurs(q, e) + 1
  BY <1>2, <1>3, <1>5, Zenon
<1>7. x # e => Occurs(Append(q, x), e) = Occurs(q, e)
  BY <1>1, <1>2, <1>4, Zenon
<1>. QED BY <1>6, <1>7, Zenon

LEMMA OccursTail ==
    ASSUME NEW S, NEW q \in Seq(S), q # <<>>, NEW e
    PROVE  /\ Head(q) = e => Occurs(q, e) = Occurs(Tail(q), e) + 1
           /\ Head(q) # e => Occurs(q, e) = Occurs(Tail(q), e)
<1>. DEFINE I == {i \in DOMAIN Tail(q) : Tail(q)[i] = e}
            J == {i \in DOMAIN q : q[i] = e}
            K == J \ {1}
            next == [i \in I |-> i + 1]
<1>1. /\ DOMAIN q = 1..Len(q) /\ Len(q) \in Nat \ {0}
      /\ Tail(q) \in Seq(S) /\ DOMAIN Tail(q) = 1..(Len(q) - 1)
      /\ \A i \in 1..(Len(q) - 1) : Tail(q)[i] = q[i + 1]
      /\ Head(q) = q[1]
  OBVIOUS
<1>2. IsFiniteSet(I) /\ Cardinality(I) = Occurs(Tail(q), e) /\ Occurs(Tail(q), e) \in Nat
  BY <1>1, OccursType DEF Occurs
<1>3. IsFiniteSet(J) /\ Cardinality(J) = Occurs(q, e) /\ Occurs(q, e) \in Nat
  BY OccursType DEF Occurs
<1>4. next \in [I -> K]
  BY <1>1
<1>5. \A a, b \in I : next[a] = next[b] => a = b
  BY <1>1
<1>6. \A k \in K : \E i \in I : next[i] = k
  <2>. SUFFICES ASSUME NEW k \in K PROVE k - 1 \in I /\ next[k - 1] = k
    OBVIOUS
  <2>1. k \in 2..Len(q) /\ q[k] = e
    BY <1>1
  <2>2. k - 1 \in 1..(Len(q) - 1) /\ Tail(q)[k - 1] = q[(k - 1) + 1] /\ (k - 1) + 1 = k
    BY <1>1, <2>1
  <2>. QED BY <1>1, <2>1, <2>2
<1>. HIDE DEF next
<1>7. next \in Bijection(I, K)
  BY <1>4, <1>5, <1>6, Fun_IsBij
<1>8. Cardinality(K) = Cardinality(I)
  BY <1>2, <1>7, FS_Bijection DEF ExistsBijection
<1>9. 1 \in J <=> Head(q) = e
  BY <1>1
<1>10. Cardinality(K) = IF 1 \in J THEN Cardinality(J) - 1 ELSE Cardinality(J)
  BY <1>3, FS_RemoveElement
<1>. HIDE DEF I, J, K
<1>. QED
  BY <1>2, <1>3, <1>8, <1>9, <1>10

-----------------------------------------------------------------------------
(* The inductive invariant of the frames, in parts. *)

Event == Ports \X Nat

QueueTypes ==
    /\ reader \in [Ports -> {"off", "loop", "reading", "holding", "done"}]
    /\ arrived \in [Ports -> Nat]
    /\ buffer \in Seq(Event) /\ taken \in Seq(Event) /\ full \subseteq Event

(* Readers hold nothing before they start and after the process is gone. *)
ReadersOff ==
    /\ phase = "starting" => \A p \in Ports : reader[p] = "off"
    /\ phase = "killed" => proc = "done" /\ \A p \in Ports : reader[p] = "done"

(* Event e was read before the one its reader holds or gets next. *)
Older(e) ==
    /\ e[2] <= arrived[e[1]]
    /\ reader[e[1]] = "holding" => e[2] # arrived[e[1]]

AllOlder ==
    /\ \A i \in DOMAIN buffer : Older(buffer[i])
    /\ \A i \in DOMAIN taken : Older(taken[i])
    /\ \A e \in full : Older(e)

Before(d, e) == d[1] = e[1] => d[2] < e[2]

InOrder ==
    /\ \A i, j \in DOMAIN taken : i < j => Before(taken[i], taken[j])
    /\ \A i, j \in DOMAIN buffer : i < j => Before(buffer[i], buffer[j])
    /\ \A i \in DOMAIN taken, j \in DOMAIN buffer : Before(taken[i], buffer[j])

Copies(e) ==
    Occurs(buffer, e) + Occurs(taken, e)
        + (IF e \in full THEN 1 ELSE 0)
        + (IF reader[e[1]] = "holding" /\ e[2] = arrived[e[1]] THEN 1 ELSE 0)

InOnePlace == phase # "killed" => \A p \in Ports : \A k \in 1..arrived[p] : Copies(<<p, k>>) = 1

QueueInv == QueueTypes /\ ReadersOff /\ AllOlder /\ InOrder /\ InOnePlace

LEMMA QueueInit == Init => QueueInv
BY DEF Init, QueueInv, QueueTypes, ReadersOff, AllOlder, InOrder, InOnePlace

(* A step that moves no frame. *)
LEMMA QueueFrame ==
    ASSUME QueueInv, UNCHANGED <<phase, reader, arrived, buffer, full, taken>>,
           phase = "killed" => proc' = "done"
    PROVE  QueueInv'
BY DEF QueueInv, QueueTypes, ReadersOff, AllOlder, Older, InOrder, Before, InOnePlace, Copies

(* A step after which the readers that hold a frame are the same. *)
LEMMA ReaderStep ==
    ASSUME QueueInv, UNCHANGED <<arrived, buffer, full, taken>>, ReadersOff',
           reader' \in [Ports -> {"off", "loop", "reading", "holding", "done"}],
           phase' # "killed" => phase # "killed",
           \/ phase' = "killed" /\ \A p \in Ports : reader'[p] = "done"
           \/ \A p \in Ports : reader'[p] = "holding" <=> reader[p] = "holding"
    PROVE  QueueInv'
<1>1. QueueTypes'
  BY DEF QueueInv, QueueTypes
<1>2. \A e \in Event : Older(e) => Older(e)'
  BY DEF QueueInv, QueueTypes, Older, Event
<1>3. AllOlder'
  BY <1>2 DEF QueueInv, QueueTypes, AllOlder
<1>4. InOrder'
  BY DEF QueueInv, InOrder, Before
<1>5. ASSUME phase' # "killed", NEW p \in Ports, NEW k \in 1..arrived[p]
      PROVE  Copies(<<p, k>>)' = 1
  BY <1>5 DEF QueueInv, QueueTypes, InOnePlace, Copies
<1>6. InOnePlace'
  BY <1>5 DEF InOnePlace
<1>. QED
  BY <1>1, <1>3, <1>4, <1>6 DEF QueueInv

LEMMA GetsStep == ASSUME QueueInv, NEW p \in Ports, ReaderGets(p) PROVE QueueInv'
<1>1. /\ reader[p] = "reading" /\ reader' = [reader EXCEPT ![p] = "holding"]
      /\ arrived' = [arrived EXCEPT ![p] = @ + 1]
      /\ UNCHANGED <<phase, buffer, full, taken, proc>>
  BY DEF ReaderGets, OverwriteCopied, life, work
<1>2. QueueTypes'
  BY <1>1 DEF QueueInv, QueueTypes
<1>3. ReadersOff'
  BY <1>1 DEF QueueInv, QueueTypes, ReadersOff
<1>4. \A e \in Event : Older(e) => Older(e)'
  BY <1>1 DEF QueueInv, QueueTypes, Older, Event
<1>5. AllOlder'
  BY <1>1, <1>4 DEF QueueInv, QueueTypes, AllOlder
<1>6. InOrder'
  BY <1>1 DEF QueueInv, InOrder, Before
<1>7. ASSUME phase # "killed", NEW r \in Ports, NEW k \in 1..arrived'[r]
      PROVE  Copies(<<r, k>>)' = 1
  <2>. DEFINE e == <<r, k>>
  <2>1. e \in Event /\ k \in Nat /\ arrived[r] \in Nat /\ arrived[p] \in Nat
    BY <1>1, <1>7 DEF QueueInv, QueueTypes, Event
  <2>2. CASE r = p /\ k = arrived[p] + 1
    <3>1. ~Older(e)
      BY <2>1, <2>2 DEF Older
    <3>2. /\ \A i \in DOMAIN buffer : buffer[i] # e
          /\ \A i \in DOMAIN taken : taken[i] # e
          /\ e \notin full
      BY <3>1 DEF QueueInv, AllOlder
    <3>3. Occurs(buffer, e) = 0 /\ Occurs(taken, e) = 0
      BY <3>2, OccursNot
    <3>4. reader'[r] = "holding" /\ k = arrived'[r]
      BY <1>1, <2>2 DEF QueueInv, QueueTypes
    <3>. QED BY <1>1, <3>2, <3>3, <3>4 DEF Copies
  <2>3. CASE ~(r = p /\ k = arrived[p] + 1)
    <3>1. k \in 1..arrived[r]
      BY <1>1, <1>7, <2>1, <2>3 DEF QueueInv, QueueTypes
    <3>2. Copies(e) = 1
      BY <1>7, <3>1 DEF QueueInv, InOnePlace
    <3>3. (reader'[r] = "holding" /\ k = arrived'[r]) <=> (reader[r] = "holding" /\ k = arrived[r])
      BY <1>1, <2>1, <3>1 DEF QueueInv, QueueTypes
    <3>. QED BY <1>1, <3>2, <3>3 DEF Copies
  <2>. QED BY <2>2, <2>3
<1>8. InOnePlace'
  BY <1>1, <1>7 DEF InOnePlace
<1>. QED
  BY <1>2, <1>3, <1>5, <1>6, <1>8 DEF QueueInv

LEMMA SendsStep == ASSUME QueueInv, NEW p \in Ports, ReaderSends(p) PROVE QueueInv'
<1>0. <<p, arrived[p]>> \in Event /\ arrived[p] \in Nat
  BY DEF QueueInv, QueueTypes, Event
<1>a. PICK e \in Event : e = <<p, arrived[p]>>
  BY <1>0
<1>1. /\ reader[p] = "holding" /\ reader' = [reader EXCEPT ![p] = "loop"]
      /\ UNCHANGED <<phase, arrived, taken, proc>>
      /\ \/ full' = full \cup {e} /\ buffer' = buffer
         \/ full' = full /\ buffer' = Append(buffer, e)
  BY <1>a DEF ReaderSends, life, work
<1>2. e \in Event /\ e[1] = p /\ e[2] = arrived[p] /\ arrived[p] \in Nat
  BY <1>0, <1>a
<1>3. QueueTypes'
  <2>1. Append(buffer, e) \in Seq(Event) /\ full \cup {e} \subseteq Event
    <3>. buffer \in Seq(Event) /\ full \subseteq Event
      BY DEF QueueInv, QueueTypes
    <3>. QED OBVIOUS
  <2>2. reader' \in [Ports -> {"off", "loop", "reading", "holding", "done"}]
    BY <1>1 DEF QueueInv, QueueTypes
  <2>. QED BY <1>1, <2>1, <2>2 DEF QueueInv, QueueTypes
<1>4. ReadersOff'
  BY <1>1 DEF QueueInv, QueueTypes, ReadersOff
<1>5. (\A d \in Event : Older(d) => Older(d)') /\ Older(e)'
  BY <1>1, <1>2 DEF QueueInv, QueueTypes, Older, Event
<1>6. \A d \in Event : Older(d) => Before(d, e)
  BY <1>1, <1>2 DEF QueueInv, QueueTypes, Older, Before, Event
<1>7. /\ \A i \in DOMAIN buffer : buffer[i] \in Event /\ Older(buffer[i])
      /\ \A i \in DOMAIN taken : taken[i] \in Event /\ Older(taken[i])
      /\ buffer \in Seq(Event)
  BY DEF QueueInv, QueueTypes, AllOlder
<1>8. \A i \in DOMAIN Append(buffer, e) :
          \/ i \in DOMAIN buffer /\ Append(buffer, e)[i] = buffer[i]
          \/ i = Len(buffer) + 1 /\ Append(buffer, e)[i] = e
  BY <1>2, <1>7
<1>9. AllOlder'
  <2>1. (\A d \in full : Older(d))'
    BY <1>1, <1>5 DEF QueueInv, QueueTypes, AllOlder
  <2>2. (\A i \in DOMAIN buffer : Older(buffer[i]))'
    BY <1>1, <1>5, <1>7, <1>8
  <2>3. (\A i \in DOMAIN taken : Older(taken[i]))'
    BY <1>1, <1>5, <1>7
  <2>. QED BY <2>1, <2>2, <2>3 DEF AllOlder
<1>10. InOrder'
  <2>1. CASE buffer' = buffer
    BY <1>1, <2>1 DEF QueueInv, InOrder, Before
  <2>2. CASE buffer' = Append(buffer, e)
    <3>1. \A i \in DOMAIN taken, j \in DOMAIN buffer' : Before(taken[i], buffer'[j])
      BY <1>6, <1>7, <1>8, <2>2 DEF QueueInv, InOrder
    <3>2. \A i, j \in DOMAIN buffer' : i < j => Before(buffer'[i], buffer'[j])
      <4>. SUFFICES ASSUME NEW i \in DOMAIN buffer', NEW j \in DOMAIN buffer', i < j
                    PROVE  Before(buffer'[i], buffer'[j])
        OBVIOUS
      <4>1. i \in 1..(Len(buffer) + 1) /\ j \in 1..(Len(buffer) + 1) /\ DOMAIN buffer = 1..Len(buffer)
        BY <1>2, <1>7, <2>2
      <4>2. i \in DOMAIN buffer
        BY <1>7, <4>1
      <4>3. buffer'[i] = buffer[i]
        BY <1>8, <2>2, <4>1, <4>2
      <4>4. CASE j \in DOMAIN buffer
        BY <1>8, <2>2, <4>1, <4>2, <4>3, <4>4 DEF QueueInv, InOrder
      <4>5. CASE j \notin DOMAIN buffer
        BY <1>6, <1>7, <1>8, <2>2, <4>2, <4>3, <4>5
      <4>. QED BY <4>4, <4>5
    <3>. QED BY <1>1, <3>1, <3>2 DEF QueueInv, InOrder, Before
  <2>. QED BY <1>1, <2>1, <2>2
<1>11. ASSUME phase # "killed", NEW d \in Event, d[2] \in 1..arrived[d[1]]
       PROVE  Copies(d)' = 1
  <2>a. PICK r \in Ports, k \in Nat : d = <<r, k>>
    BY DEF Event
  <2>1. Copies(d) = 1 /\ d[1] = r /\ d[2] = k /\ k \in 1..arrived[r]
    BY <1>11, <2>a DEF QueueInv, InOnePlace
  <2>2. /\ Occurs(buffer, d) \in Nat /\ Occurs(taken, d) \in Nat
        /\ e = d => Occurs(Append(buffer, e), d) = Occurs(buffer, d) + 1
        /\ e # d => Occurs(Append(buffer, e), d) = Occurs(buffer, d)
    <3>. buffer \in Seq(Event) /\ taken \in Seq(Event)
      BY DEF QueueInv, QueueTypes
    <3>1. Occurs(buffer, d) \in Nat /\ Occurs(taken, d) \in Nat
      BY OccursType, Zenon
    <3>2. /\ e = d => Occurs(Append(buffer, e), d) = Occurs(buffer, d) + 1
          /\ e # d => Occurs(Append(buffer, e), d) = Occurs(buffer, d)
      BY OccursAppend, Zenon
    <3>. QED BY <3>1, <3>2, Zenon
  <2>3. (reader'[r] = "holding" /\ k = arrived'[r]) <=> (reader[r] = "holding" /\ k = arrived[r] /\ d # e)
    BY <1>1, <1>a, <2>a DEF QueueInv, QueueTypes
  <2>4. d = e => reader[r] = "holding" /\ k = arrived[r]
    BY <1>1, <1>a, <2>a
  <2>5. CASE d = e
    <3>1. Occurs(buffer, d) = 0 /\ Occurs(taken, d) = 0 /\ d \notin full
      BY <2>1, <2>2, <2>4, <2>5 DEF Copies
    <3>2. Occurs(Append(buffer, e), d) = 1
      BY <2>2, <2>5, <3>1
    <3>3. Occurs(buffer', d) + (IF d \in full' THEN 1 ELSE 0) = 1
      <4>1. CASE full' = full \cup {e} /\ buffer' = buffer
        BY <2>5, <3>1, <4>1
      <4>2. CASE full' = full /\ buffer' = Append(buffer, e)
        BY <2>5, <3>1, <3>2, <4>2
      <4>. QED BY <1>1, <4>1, <4>2
    <3>4. taken' = taken /\ Occurs(buffer', d) \in Nat
      <4>1. CASE buffer' = buffer
        BY <1>1, <2>2, <4>1
      <4>2. CASE buffer' = Append(buffer, e)
        BY <1>1, <3>2, <4>2
      <4>. QED BY <1>1, <4>1, <4>2
    <3>. QED BY <2>1, <2>3, <2>5, <3>1, <3>3, <3>4 DEF Copies
  <2>6. CASE d # e
    <3>1. d \in full' <=> d \in full
      BY <1>1, <2>6
    <3>2. Occurs(buffer', d) = Occurs(buffer, d)
      <4>1. CASE buffer' = buffer
        BY <4>1
      <4>2. CASE buffer' = Append(buffer, e)
        BY <2>2, <2>6, <4>2
      <4>. QED BY <1>1, <4>1, <4>2
    <3>. QED BY <1>1, <2>1, <2>3, <2>6, <3>1, <3>2 DEF Copies
  <2>. QED BY <2>5, <2>6
<1>12. InOnePlace'
  <2>. SUFFICES ASSUME phase # "killed", NEW r \in Ports, NEW k \in 1..arrived[r]
                PROVE  Copies(<<r, k>>)' = 1
    BY <1>1 DEF InOnePlace
  <2>1. arrived[r] \in Nat
    BY DEF QueueInv, QueueTypes
  <2>2. <<r, k>> \in Event /\ <<r, k>>[1] = r /\ <<r, k>>[2] = k
    BY <2>1 DEF Event
  <2>. QED BY <1>11, <2>2
<1>. QED
  BY <1>3, <1>4, <1>9, <1>10, <1>12 DEF QueueInv

LEMMA TakesStep == ASSUME QueueInv, ProcessTakes PROVE QueueInv'
<1>1. /\ buffer \in Seq(Event) /\ taken \in Seq(Event) /\ buffer # <<>>
      /\ phase # "killed" /\ buffer' = Tail(buffer)
      /\ UNCHANGED <<phase, reader, arrived, full>>
  BY DEF QueueInv, QueueTypes, ReadersOff, ProcessTakes, life
<1>2. PICK h \in Event : h = Head(buffer)
  BY <1>1
<1>3. taken' = Append(taken, h)
  BY <1>2 DEF ProcessTakes
<1>4. /\ DOMAIN buffer = 1..Len(buffer) /\ Len(buffer) \in Nat \ {0} /\ buffer[1] = h
      /\ Tail(buffer) \in Seq(Event) /\ DOMAIN Tail(buffer) = 1..(Len(buffer) - 1)
      /\ \A i \in 1..(Len(buffer) - 1) : Tail(buffer)[i] = buffer[i + 1]
  BY <1>1, <1>2
<1>5. /\ DOMAIN taken = 1..Len(taken) /\ Len(taken) \in Nat
      /\ Append(taken, h) \in Seq(Event) /\ DOMAIN Append(taken, h) = 1..(Len(taken) + 1)
      /\ \A i \in 1..Len(taken) : Append(taken, h)[i] = taken[i]
      /\ Append(taken, h)[Len(taken) + 1] = h
  BY <1>1
<1>6. \A j \in DOMAIN buffer' : j \in Nat /\ j + 1 \in DOMAIN buffer /\ buffer'[j] = buffer[j + 1]
  BY <1>1, <1>4
<1>7. \A i \in DOMAIN taken' : \/ i \in DOMAIN taken /\ taken'[i] = taken[i]
                               \/ i = Len(taken) + 1 /\ taken'[i] = h
  BY <1>3, <1>5
<1>8. QueueTypes'
  BY <1>1, <1>3, <1>4, <1>5 DEF QueueInv, QueueTypes
<1>9. ReadersOff'
  BY <1>1 DEF QueueInv, ReadersOff
<1>10. AllOlder'
  <2>1. \A d : Older(d) => Older(d)'
    BY <1>1 DEF Older
  <2>2. Older(h) /\ 1 \in DOMAIN buffer
    BY <1>4 DEF QueueInv, AllOlder
  <2>3. (\A i \in DOMAIN buffer : Older(buffer[i]))'
    BY <1>6, <2>1 DEF QueueInv, AllOlder
  <2>4. (\A i \in DOMAIN taken : Older(taken[i]))'
    BY <1>7, <2>1, <2>2 DEF QueueInv, AllOlder
  <2>5. (\A d \in full : Older(d))'
    BY <1>1, <2>1 DEF QueueInv, AllOlder
  <2>. QED BY <2>3, <2>4, <2>5 DEF AllOlder
<1>11. InOrder'
  <2>1. 1 \in DOMAIN buffer /\ \A j \in DOMAIN buffer' : 1 < j + 1
    BY <1>4, <1>6
  <2>2. \A i, j \in DOMAIN buffer' : i < j => Before(buffer'[i], buffer'[j])
    BY <1>6 DEF QueueInv, InOrder
  <2>3. \A i \in DOMAIN taken : Before(taken[i], h)
    BY <1>4, <2>1 DEF QueueInv, InOrder
  <2>4. \A j \in DOMAIN buffer' : Before(h, buffer'[j])
    BY <1>4, <1>6, <2>1 DEF QueueInv, InOrder
  <2>5. \A i, j \in DOMAIN taken' : i < j => Before(taken'[i], taken'[j])
    <3>. SUFFICES ASSUME NEW i \in DOMAIN taken', NEW j \in DOMAIN taken', i < j
                  PROVE  Before(taken'[i], taken'[j])
      OBVIOUS
    <3>1. i \in DOMAIN taken /\ taken'[i] = taken[i]
      BY <1>3, <1>5
    <3>. QED BY <1>7, <2>3, <3>1 DEF QueueInv, InOrder
  <2>6. \A i \in DOMAIN taken', j \in DOMAIN buffer' : Before(taken'[i], buffer'[j])
    BY <1>6, <1>7, <2>4 DEF QueueInv, InOrder
  <2>. QED BY <2>2, <2>5, <2>6 DEF InOrder, Before
<1>12. InOnePlace'
  <2>. SUFFICES ASSUME NEW r \in Ports, NEW k \in 1..arrived[r]
                PROVE  Copies(<<r, k>>)' = 1
    BY <1>1 DEF InOnePlace
  <2>1. PICK d : d = <<r, k>>
    OBVIOUS
  <2>2. Copies(d) = 1
    BY <1>1, <2>1 DEF QueueInv, InOnePlace
  <2>3. /\ Occurs(buffer, d) \in Nat /\ Occurs(taken, d) \in Nat
        /\ Occurs(Tail(buffer), d) \in Nat
    BY <1>1, <1>4, OccursType, Zenon
  <2>4. /\ h = d => Occurs(buffer, d) = Occurs(Tail(buffer), d) + 1
        /\ h # d => Occurs(buffer, d) = Occurs(Tail(buffer), d)
    BY <1>1, <1>2, OccursTail, Zenon
  <2>5. /\ h = d => Occurs(Append(taken, h), d) = Occurs(taken, d) + 1
        /\ h # d => Occurs(Append(taken, h), d) = Occurs(taken, d)
    BY <1>1, OccursAppend, Zenon
  <2>6. Occurs(buffer', d) + Occurs(taken', d) = Occurs(buffer, d) + Occurs(taken, d)
    <3>1. Occurs(Tail(buffer), d) + Occurs(Append(taken, h), d) = Occurs(buffer, d) + Occurs(taken, d)
      BY <2>3, <2>4, <2>5
    <3>. QED BY <1>1, <1>3, <3>1
  <2>7. Copies(d)' = 1
    BY <1>1, <2>2, <2>6 DEF Copies
  <2>. QED BY <2>1, <2>7
<1>. QED
  BY <1>8, <1>9, <1>10, <1>11, <1>12 DEF QueueInv

LEMMA QueueStep == QueueInv /\ [Next]_vars => QueueInv'
<1>. SUFFICES ASSUME QueueInv, [Next]_vars PROVE QueueInv'
  OBVIOUS
<1>. USE DEF life, halt, clean, queue, work
<1>1. CASE StartStep
  BY <1>1, QueueFrame DEF StartStep
<1>2. CASE StartFails
  BY <1>2, ReaderStep DEF StartFails, QueueInv, QueueTypes, ReadersOff
<1>3. CASE StartLoops
  <2>1. \A p \in Ports : reader[p] = "off" /\ reader'[p] = "loop"
    BY <1>3 DEF StartLoops, QueueInv, ReadersOff
  <2>. QED BY <1>3, <2>1, ReaderStep DEF StartLoops, ReadersOff
<1>4. ASSUME NEW s \in Stoppers, Stop(s) PROVE QueueInv'
  BY <1>4, QueueFrame DEF QueueInv, ReadersOff, Stop, StopChecks, StopClosesChannel,
                          StopStopsTimer, StopClosesPorts
<1>5. CASE TimerFires \/ CleanupResets \/ SupervisionStops \/ SnapshotCopies \/ SnapshotReturns
  BY <1>5, QueueFrame DEF QueueInv, ReadersOff, TimerFires, CleanupResets, SupervisionStops,
                          SnapshotCopies, SnapshotReturns
<1>6. ASSUME NEW p \in Ports, readLoop(p) PROVE QueueInv'
  <2>1. CASE ReaderChecks(p) \/ ReaderFails(p)
    <3>1. /\ UNCHANGED <<phase, proc, arrived, buffer, full, taken>>
          /\ reader[p] \in {"loop", "reading"}
          /\ \E v \in {"loop", "reading", "done"} : reader' = [reader EXCEPT ![p] = v]
      BY <2>1 DEF ReaderChecks, ReaderFails
    <3>2. /\ reader' \in [Ports -> {"off", "loop", "reading", "holding", "done"}]
          /\ \A q \in Ports : reader'[q] = "holding" <=> reader[q] = "holding"
          /\ phase # "killed" /\ phase # "starting"
      BY <3>1 DEF QueueInv, QueueTypes, ReadersOff
    <3>. QED BY <3>1, <3>2, ReaderStep DEF ReadersOff
  <2>2. CASE ReaderGets(p)
    BY <2>2, GetsStep
  <2>3. CASE ReaderSends(p)
    BY <2>3, SendsStep
  <2>. QED BY <1>6, <2>1, <2>2, <2>3 DEF readLoop
<1>7. CASE processFrames
  <2>1. CASE ProcessTakes
    BY <2>1, TakesStep
  <2>2. CASE ProcessStops \/ HandlerConsumes \/ countFrame \/ HandlerForwards \/ noteDrop
    BY <2>2, QueueFrame DEF QueueInv, ReadersOff, ProcessStops, HandlerConsumes, countFrame,
                            HandlerForwards, noteDrop
  <2>. QED BY <1>7, <2>1, <2>2 DEF processFrames
<1>8. CASE MapFault
  BY <1>8, ReaderStep DEF MapFault, ReadersOff
<1>9. CASE UNCHANGED vars
  BY <1>9, QueueFrame DEF vars, QueueInv, ReadersOff
<1>. QED
  BY <1>1, <1>2, <1>3, <1>4, <1>5, <1>6, <1>7, <1>8, <1>9 DEF Next

(* No frame that readLoop read is lost unseen, doubled or overtaken on its *)
(* way through frameBuffer to processFrames, for any ports, size of the    *)
(* channel and number of frames.                                           *)
THEOREM EveryFrameAccounted == Spec => []FramesAccounted
<1>1. QueueInv => FramesAccounted
  <2>. SUFFICES ASSUME QueueInv PROVE FramesAccounted
    OBVIOUS
  <2>1. \A i, j \in DOMAIN taken :
            i < j /\ taken[i][1] = taken[j][1] => taken[i][2] < taken[j][2]
    BY DEF QueueInv, InOrder, Before
  <2>. QED BY <2>1 DEF QueueInv, InOnePlace, Copies, FramesAccounted
<1>. QED
  BY <1>1, QueueInit, QueueStep, PTL DEF Spec

-----------------------------------------------------------------------------
(* Types, with the bounds of the counters. *)

TypeInv ==
    /\ TypeOK
    /\ todo \in Seq({"bind", "mtu"} \X Ports)
    /\ sweeps <= swept
    /\ IsFiniteSet(full)
    /\ \A p \in Ports : reader[p] = "holding" => arrived[p] >= 1

Events(q) == {q[i] : i \in DOMAIN q}

LEMMA CountUpTo == ASSUME NEW n \in Nat PROVE IsFiniteSet(1..n) /\ Cardinality(1..n) = n
<1>1. n \in Int /\ 1 \in Int
  OBVIOUS
<1>2. IsFiniteSet(1..n) /\ Cardinality(1..n) = IF 1 > n THEN 0 ELSE n - 1 + 1
  BY <1>1, FS_Interval, Zenon
<1>. QED BY <1>2

LEMMA UnionBound ==
    ASSUME NEW S, IsFiniteSet(S), NEW T, IsFiniteSet(T)
    PROVE  /\ IsFiniteSet(S \cup T)
           /\ Cardinality(S) \in Nat /\ Cardinality(T) \in Nat /\ Cardinality(S \cup T) \in Nat
           /\ Cardinality(S \cup T) <= Cardinality(S) + Cardinality(T)
<1>1. /\ IsFiniteSet(S \cup T)
      /\ Cardinality(S \cup T) = Cardinality(S) + Cardinality(T) - Cardinality(S \cap T)
  BY FS_Union, Zenon
<1>2. IsFiniteSet(S \cap T)
  BY FS_Intersection, Zenon
<1>3. /\ Cardinality(S) \in Nat /\ Cardinality(T) \in Nat
      /\ Cardinality(S \cup T) \in Nat /\ Cardinality(S \cap T) \in Nat
  BY <1>1, <1>2, FS_CardinalityType, Zenon
<1>. QED BY <1>1, <1>3

LEMMA EventsBound ==
    ASSUME NEW S, NEW q \in Seq(S)
    PROVE  IsFiniteSet(Events(q)) /\ Cardinality(Events(q)) \in Nat
           /\ Cardinality(Events(q)) <= Len(q)
<1>1. DOMAIN q = 1..Len(q) /\ Len(q) \in Nat /\ q \in [DOMAIN q -> Events(q)]
  BY DEF Events
<1>2. \A e \in Events(q) : \E i \in DOMAIN q : q[i] = e
  BY DEF Events
<1>3. q \in Surjection(DOMAIN q, Events(q))
  BY <1>1, <1>2, Fun_IsSurj
<1>4. IsFiniteSet(DOMAIN q) /\ Cardinality(DOMAIN q) = Len(q)
  BY <1>1, CountUpTo
<1>. QED
  BY <1>3, <1>4, FS_Surjection, FS_CardinalityType

(* A reader that holds nothing has read no more frames than were queued,   *)
(* dropped or taken.                                                       *)
LEMMA ArrivedBound ==
    ASSUME QueueInv, IsFiniteSet(full), NEW p \in Ports, reader[p] = "reading"
    PROVE  arrived[p] <= Len(buffer) + Len(taken) + Cardinality(full)
<1>. DEFINE T == Events(buffer) \cup Events(taken)
            U == T \cup full
            f == [k \in 1..arrived[p] |-> <<p, k>>]
<1>1. /\ buffer \in Seq(Event) /\ taken \in Seq(Event) /\ arrived[p] \in Nat
      /\ phase # "killed" /\ Len(buffer) \in Nat /\ Len(taken) \in Nat
  BY DEF QueueInv, QueueTypes, ReadersOff
<1>2. ASSUME NEW k \in 1..arrived[p] PROVE <<p, k>> \in U
  <2>1. Copies(<<p, k>>) = 1
    BY <1>1 DEF QueueInv, InOnePlace
  <2>2. CASE <<p, k>> \notin U
    <3>1. \A i \in DOMAIN buffer : buffer[i] # <<p, k>>
      BY <2>2 DEF Events
    <3>2. \A i \in DOMAIN taken : taken[i] # <<p, k>>
      BY <2>2 DEF Events
    <3>3. Occurs(buffer, <<p, k>>) = 0 /\ Occurs(taken, <<p, k>>) = 0
      BY <3>1, <3>2, OccursNot, Zenon
    <3>. QED BY <2>1, <2>2, <3>3 DEF Copies
  <2>. QED BY <2>2
<1>3. f \in [1..arrived[p] -> U] /\ \A j, k \in 1..arrived[p] : f[j] = f[k] => j = k
  BY <1>2
<1>4. /\ IsFiniteSet(Events(buffer)) /\ Cardinality(Events(buffer)) \in Nat
      /\ Cardinality(Events(buffer)) <= Len(buffer)
      /\ IsFiniteSet(Events(taken)) /\ Cardinality(Events(taken)) \in Nat
      /\ Cardinality(Events(taken)) <= Len(taken)
  BY <1>1, EventsBound
<1>5. /\ IsFiniteSet(T) /\ Cardinality(T) \in Nat
      /\ Cardinality(T) <= Cardinality(Events(buffer)) + Cardinality(Events(taken))
  BY <1>4, UnionBound, Zenon
<1>. HIDE DEF T
<1>6. /\ IsFiniteSet(U) /\ Cardinality(U) \in Nat /\ Cardinality(full) \in Nat
      /\ Cardinality(U) <= Cardinality(T) + Cardinality(full)
  BY <1>5, UnionBound, Zenon
<1>. HIDE DEF U, f
<1>7. f \in Injection(1..arrived[p], U)
  BY <1>3, Fun_IsInj
<1>8. Cardinality(1..arrived[p]) <= Cardinality(U)
  BY <1>6, <1>7, FS_Injection
<1>9. Cardinality(1..arrived[p]) = arrived[p]
  BY <1>1, CountUpTo
<1>. QED
  BY <1>1, <1>4, <1>5, <1>6, <1>8, <1>9

LEMMA TypeInit == Init => TypeInv
<1>. SUFFICES ASSUME Init PROVE TypeInv
  OBVIOUS
<1>1. todo \in Seq({"bind", "mtu"} \X Ports)
  <2>. DEFINE T == {"bind", "mtu"} \X Ports
              first == << <<"bind", "lan_a">>, <<"mtu", "lan_a">>, <<"mtu", "lan_b">>, <<"bind", "lan_b">> >>
              second == << <<"bind", "interlink">>, <<"mtu", "interlink">> >>
  <2>1. <<"bind", "lan_a">> \in T /\ <<"mtu", "lan_a">> \in T
        /\ <<"mtu", "lan_b">> \in T /\ <<"bind", "lan_b">> \in T
    BY NodeRuntimeAssumption
  <2>2. "interlink" \in Ports => <<"bind", "interlink">> \in T /\ <<"mtu", "interlink">> \in T
    OBVIOUS
  <2>3. todo = first \o IF "interlink" \in Ports THEN second ELSE <<>>
    BY DEF Init, StartSteps
  <2>. HIDE DEF T
  <2>4. first \in Seq(T)
    BY <2>1
  <2>5. "interlink" \in Ports => second \in Seq(T)
    BY <2>2
  <2>. HIDE DEF first, second
  <2>6. todo \in Seq(T)
    BY <2>3, <2>4, <2>5
  <2>. QED BY <2>6 DEF T
<1>2. IsFiniteSet(full)
  BY FS_EmptySet, Zenon DEF Init
<1>3. timer \in BOOLEAN /\ view \in BOOLEAN
  BY Zenon DEF Init
<1>4. /\ sweeps \in 0..MaxSweeps /\ swept \in 0..MaxSweeps /\ sweeps <= swept
      /\ arrived \in [Ports -> 0..MaxFrames] /\ Len(buffer) <= BufferSize
  BY NodeRuntimeAssumption DEF Init
<1>. QED
  BY <1>1, <1>2, <1>3, <1>4 DEF Init, TypeInv, TypeOK

(* The part of the types that concerns the frames, and the rest. *)
FrameTypes ==
    /\ reader \in [Ports -> {"off", "loop", "reading", "holding", "done"}]
    /\ arrived \in [Ports -> 0..MaxFrames]
    /\ buffer \in Seq(Ports \X (1..MaxFrames)) /\ Len(buffer) <= BufferSize
    /\ full \in SUBSET (Ports \X (1..MaxFrames)) /\ IsFiniteSet(full)
    /\ \A p \in Ports : reader[p] = "holding" => arrived[p] >= 1

LifeTypes ==
    /\ phase \in {"starting", "failed", "running", "killed"}
    /\ open \in SUBSET Ports /\ todo \in Seq({"bind", "mtu"} \X Ports)
    /\ stop \in [Stoppers -> {"idle", "checked", "channel", "timer", "returned"}]
    /\ proc \in {"off", "select", "handling", "counted", "done"}
    /\ sup \in {"off", "waiting", "done"}

CleanTypes == sweeps \in 0..MaxSweeps /\ swept \in 0..MaxSweeps /\ sweeps <= swept

FlagTypes == timer \in BOOLEAN /\ view \in BOOLEAN

LEMMA TypeParts == TypeInv <=> FrameTypes /\ LifeTypes /\ CleanTypes /\ FlagTypes
BY Zenon DEF TypeInv, TypeOK, FrameTypes, LifeTypes, CleanTypes, FlagTypes

LEMMA FrameTypesStep == QueueInv /\ FrameTypes /\ [Next]_vars => FrameTypes'
<1>. SUFFICES ASSUME QueueInv, FrameTypes, [Next]_vars PROVE FrameTypes'
  OBVIOUS
<1>. USE DEF queue
<1>0. ASSUME UNCHANGED queue PROVE FrameTypes'
  BY <1>0 DEF FrameTypes
<1>1. CASE StartStep \/ StartFails \/ (\E s \in Stoppers : Stop(s)) \/ TimerFires \/ CleanupResets
           \/ SupervisionStops \/ SnapshotCopies \/ SnapshotReturns \/ UNCHANGED vars
  BY <1>1, <1>0, Zenon DEF StartStep, StartFails, Stop, StopChecks, StopClosesChannel, StopStopsTimer,
     StopClosesPorts, TimerFires, CleanupResets, SupervisionStops, SnapshotCopies,
     SnapshotReturns, vars
<1>2. CASE StartLoops \/ MapFault
  BY <1>2 DEF StartLoops, MapFault, FrameTypes
<1>3. ASSUME NEW p \in Ports, readLoop(p) PROVE FrameTypes'
  <2>1. CASE ReaderChecks(p) \/ ReaderFails(p)
    BY <2>1 DEF ReaderChecks, ReaderFails, FrameTypes
  <2>2. CASE ReaderGets(p)
    <3>1. arrived[p] <= Len(buffer) + Len(taken) + Cardinality(full)
      BY <2>2, ArrivedBound DEF ReaderGets, FrameTypes
    <3>2. Len(buffer) \in Nat /\ Len(taken) \in Nat /\ Cardinality(full) \in Nat
      BY FS_CardinalityType DEF FrameTypes, QueueInv, QueueTypes
    <3>3. arrived[p] + 1 \in 1..MaxFrames
      BY <2>2, <3>1, <3>2, NodeRuntimeAssumption DEF ReaderGets, FrameTypes
    <3>. QED BY <2>2, <3>3 DEF ReaderGets, OverwriteCopied, FrameTypes
  <2>3. CASE ReaderSends(p)
    <3>1. PICK e : e = <<p, arrived[p]>>
      OBVIOUS
    <3>2. e \in Ports \X (1..MaxFrames)
      BY <2>3, <3>1 DEF ReaderSends, FrameTypes
    <3>3. /\ reader' = [reader EXCEPT ![p] = "loop"] /\ arrived' = arrived
          /\ \/ full' = full \cup {e} /\ buffer' = buffer
             \/ HasRoom(buffer) /\ buffer' = Append(buffer, e) /\ full' = full
      BY <2>3, <3>1, Zenon DEF ReaderSends
    <3>4. IsFiniteSet(full')
      <4>1. IsFiniteSet(full) /\ IsFiniteSet(full \cup {e})
        BY FS_AddElement DEF FrameTypes
      <4>2. full' = full \/ full' = full \cup {e}
        BY <3>3, Zenon
      <4>. QED BY <4>1, <4>2, Zenon
    <3>5. buffer' \in Seq(Ports \X (1..MaxFrames)) /\ Len(buffer') <= BufferSize
      <4>1. CASE HasRoom(buffer) /\ buffer' = Append(buffer, e)
        BY <3>2, <4>1, NodeRuntimeAssumption DEF FrameTypes, HasRoom
      <4>. QED BY <3>3, <4>1 DEF FrameTypes
    <3>. QED BY <3>2, <3>3, <3>4, <3>5 DEF FrameTypes
  <2>. QED BY <1>3, <2>1, <2>2, <2>3 DEF readLoop
<1>4. CASE processFrames
  <2>1. CASE ProcessTakes
    BY <2>1, NodeRuntimeAssumption DEF ProcessTakes, FrameTypes
  <2>. QED BY <1>4, <2>1, <1>0, Zenon DEF processFrames, ProcessStops, HandlerConsumes, countFrame,
     HandlerForwards, noteDrop
<1>. QED
  BY <1>1, <1>2, <1>3, <1>4 DEF Next

LEMMA LifeTypesStep == LifeTypes /\ [Next]_vars => LifeTypes'
<1>. SUFFICES ASSUME LifeTypes, [Next]_vars PROVE LifeTypes'
  OBVIOUS
<1>. USE DEF life, halt, work
<1>1. CASE StartStep
  <2>1. Head(todo) \in {"bind", "mtu"} \X Ports /\ Tail(todo) \in Seq({"bind", "mtu"} \X Ports)
    BY <1>1 DEF StartStep, LifeTypes
  <2>. QED BY <1>1, <2>1 DEF StartStep, LifeTypes
<1>2. CASE StartFails \/ StartLoops \/ MapFault
  BY <1>2 DEF StartFails, closePorts, StartLoops, MapFault, LifeTypes
<1>3. ASSUME NEW s \in Stoppers, Stop(s) PROVE LifeTypes'
  BY <1>3 DEF Stop, StopChecks, StopClosesChannel, StopStopsTimer, StopClosesPorts, LifeTypes
<1>4. CASE TimerFires \/ CleanupResets \/ SupervisionStops \/ SnapshotCopies \/ SnapshotReturns
           \/ UNCHANGED vars
  BY <1>4 DEF TimerFires, CleanupResets, SupervisionStops, SnapshotCopies, SnapshotReturns, vars,
     LifeTypes
<1>5. ASSUME NEW p \in Ports, readLoop(p) PROVE LifeTypes'
  BY <1>5 DEF readLoop, ReaderChecks, ReaderGets, ReaderFails, ReaderSends, LifeTypes
<1>6. CASE processFrames
  BY <1>6 DEF processFrames, ProcessTakes, ProcessStops, HandlerConsumes, countFrame,
     HandlerForwards, noteDrop, LifeTypes
<1>. QED
  BY <1>1, <1>2, <1>3, <1>4, <1>5, <1>6 DEF Next

LEMMA CleanTypesStep == CleanTypes /\ [Next]_vars => CleanTypes'
<1>. SUFFICES ASSUME CleanTypes, [Next]_vars PROVE CleanTypes'
  OBVIOUS
<1>1. CASE TimerFires
  BY <1>1, NodeRuntimeAssumption DEF TimerFires, CleanTypes
<1>2. CASE CleanupResets \/ MapFault
  BY <1>2, NodeRuntimeAssumption DEF CleanupResets, MapFault, CleanTypes
<1>3. CASE ~(TimerFires \/ CleanupResets \/ MapFault)
  <2>1. UNCHANGED <<sweeps, swept>>
    BY <1>3, Zenon DEF Next, StartStep, StartFails, StartLoops, Stop, StopChecks, StopClosesChannel,
       StopStopsTimer, StopClosesPorts, readLoop, ReaderChecks, ReaderGets, ReaderFails,
       ReaderSends, processFrames, ProcessTakes, ProcessStops, HandlerConsumes, countFrame,
       HandlerForwards, noteDrop, SupervisionStops, SnapshotCopies, SnapshotReturns, vars, clean
  <2>. QED BY <2>1 DEF CleanTypes
<1>. QED BY <1>1, <1>2, <1>3

LEMMA FlagTypesStep == FlagTypes /\ [Next]_vars => FlagTypes'
<1>. SUFFICES ASSUME FlagTypes, [Next]_vars PROVE FlagTypes'
  OBVIOUS
<1>1. timer' \in {timer, TRUE, FALSE} /\ view' \in {view, TRUE, FALSE}
  BY Zenon DEF Next, StartStep, StartFails, StartLoops, Stop, StopChecks, StopClosesChannel,
     StopStopsTimer, StopClosesPorts, TimerFires, ArmedWhenFired, CleanupResets, readLoop,
     ReaderChecks, ReaderGets, ReaderFails, ReaderSends, processFrames, ProcessTakes,
     ProcessStops, HandlerConsumes, countFrame, HandlerForwards, noteDrop, SupervisionStops,
     SnapshotCopies, SnapshotReturns, MapFault, vars, clean
<1>. QED BY <1>1, Zenon DEF FlagTypes

(* Every variable keeps its type, and with it frameBuffer its capacity and *)
(* every port its bound: a reader reads on only while fewer than MaxFrames *)
(* frames are queued, dropped or taken (Start, Stop, readLoop,             *)
(* processFrames, periodicCleanup).                                        *)
THEOREM TypeCorrect == Spec => []TypeOK
<1>1. Init => QueueInv /\ TypeInv
  BY QueueInit, TypeInit
<1>2. QueueInv /\ TypeInv /\ [Next]_vars => QueueInv' /\ TypeInv'
  <2>1. TypeInv' <=> (FrameTypes /\ LifeTypes /\ CleanTypes /\ FlagTypes)'
    BY TypeParts, PTL
  <2>. QED BY <2>1, TypeParts, QueueStep, FrameTypesStep, LifeTypesStep, CleanTypesStep, FlagTypesStep, Zenon
<1>3. TypeInv => TypeOK
  BY Zenon DEF TypeInv
<1>. QED
  BY <1>1, <1>2, <1>3, PTL DEF Spec
=============================================================================
