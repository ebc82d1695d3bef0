---------------------------- MODULE WindowProofs ----------------------------
(***************************************************************************)
(* What a duplicate table knows, and what follows for the stations.  A     *)
(* frame goes to a station only where the table does not find it, and what *)
(* the table has found once it finds for Forget: so a station gets no      *)
(* frame twice within that time, and not at all a second time where frames *)
(* are under way no longer.  Then the network implements SeamlessNet.      *)
(***************************************************************************)
EXTENDS NumberProofs

(* Half a minute for a leaf. *)
USE SMTT(30)

(* Node n has frame id in its table since t or later, or t is past. *)
Known(n, id, t, num) ==
    \/ /\ <<Sends[id].src, num[id]>> \in DOMAIN st[n].dup
       /\ st[n].dup[<<Sends[id].src, num[id]>>] >= t
    \/ now - t > Forget

GotInv(num) ==
    \A n \in Nodes : \A d \in Range(got[n]) :
        Known(n, d.frame.id, d.at, num) /\ sentAt[d.frame.id] <= d.at

InjectedInv(num) ==
    \A i \in Ingress : \A f \in Range(wire[i]) : f.id # NoId =>
        LET s == Sends[f.id].node
        IN  IsHSRNode(s) /\ ServesStation(s) /\ i # <<s, "interlink">>
            => Known(s, f.id, sentAt[f.id], num)

Once ==
    \A n \in Nodes : \A k \in DOMAIN got[n] :
        LET d == got[n][k]
        IN  /\ n = Sends[d.frame.id].node => d.at - sentAt[d.frame.id] > Forget
            /\ \A j \in 1..(k - 1) :
                  got[n][j].frame.id = d.frame.id => d.at - got[n][j].at > Forget

(* The numbers of the frames, and what the tables know by them. *)
Numbered == \E num \in [Ids -> Number] : NumberInv(num) /\ GotInv(num) /\ InjectedInv(num)

WindowInv == boots = 0 => FreshInv /\ PlaceInv /\ Once /\ Numbered

-----------------------------------------------------------------------------
(* What a step may do to a duplicate table. *)

TableStep(n) ==
    \/ st'[n].dup = st[n].dup
    \/ \E mac \in NodeMacs : st'[n].dup = FlushFor(st[n].dup, mac)
    \/ \E key \in Macs \X Number : st'[n].dup \in InsertWithExpiry(st[n].dup, key, now)
    \/ st'[n].dup = Cleanup(st[n].dup, now)

LEMMA SeqAtFacts ==
    ASSUME NEW n \in Nodes, NEW f \in FrameType, Marked(n, f)
    PROVE  SeqAt(n, f) \in Number
BY TagFacts, TrailerFacts, Zenon DEF Marked, SeqAt

LEMMA HandleTable ==
    ASSUME TypeInv, NEW n \in Nodes, NEW p \in Ports, NEW f, NEW node, NEW out,
           Handling(n, p, f, node, out)
    PROVE  \A m \in Nodes : TableStep(m)
<1>. f \in Frame /\ f \in FrameType /\ f.src \in Macs /\ NodeOK(st[n], now)
  BY FrameFields, Zenon DEF Handling, Frame, TypeInv
<1>1. Handles(n, p, f, node, out) /\ Effect(n, p, f, node, out)
  BY Zenon DEF Handling, Handles
<1>2. st' = [st EXCEPT ![n] = node] /\ DOMAIN st = Nodes
  BY <1>1, Zenon DEF Handles, Finish, TypeInv
<1>. SUFFICES TableStep(n)
  BY <1>2, Zenon DEF TableStep
<1>. st'[n].dup = node.dup
  BY <1>2, Zenon
<1>3. CASE Ignored(n, p, f, node, out) \/ SentOut(n, p, f, node, out)
  BY <1>3, Zenon DEF Ignored, SentOut, TableStep
<1>4. CASE Noted(n, p, f, node, out)
  <2>1. f.src \in NodeMacs
    BY <1>4, Zenon DEF Noted, Frame, Genuine
  <2>. QED BY <1>4, <2>1, Zenon DEF Noted, TableStep
<1>5. CASE Checked(n, p, f, node, out)
  <2>1. <<f.src, SeqAt(n, f)>> \in Macs \X Number
    BY <1>5, SeqAtFacts, Zenon DEF Checked
  <2>. QED BY <1>5, <2>1, Zenon DEF Checked, TableStep
<1>6. CASE Entered(n, p, f, node, out)
  <2>1. PICK seq \in InjectionSeq(n, f) : node.dup \in InsertWithExpiry(st[n].dup, <<f.src, seq>>, now)
    BY <1>6, Zenon DEF Entered
  <2>2. <<f.src, seq>> \in Macs \X Number
    BY InjectionFacts, Zenon
  <2>. QED BY <2>1, <2>2, Zenon DEF TableStep
<1>. QED
  BY <1>1, <1>3, <1>4, <1>5, <1>6, Zenon DEF Effect

(* A step of the network in which no node restarts. *)
LEMMA TableSteps ==
    ASSUME TypeInv, [Next]_vars, boots' = boots
    PROVE  \A m \in Nodes : TableStep(m)
<1>1. CASE st' = st
  BY <1>1, Zenon DEF TableStep
<1>2. ASSUME NEW n \in Nodes, NEW p \in Ports, handleFrame(n, p)
      PROVE  \A m \in Nodes : TableStep(m)
  BY <1>2, HandleFacts, HandleTable, Zenon
<1>3. ASSUME NEW n \in Nodes, SendSupervisionFrame(n)
      PROVE  \A m \in Nodes : TableStep(m)
  <2>1. PICK seq : st' = [st EXCEPT ![n].supSeq = seq]
    BY <1>3, Zenon DEF SendSupervisionFrame
  <2>2. \A m \in Nodes : st'[m].dup = st[m].dup
    BY <2>1, Zenon DEF TypeInv, NodeOK, NodeFields
  <2>. QED BY <2>2, Zenon DEF TableStep
<1>4. ASSUME NEW n \in Nodes, periodicCleanup(n)
      PROVE  \A m \in Nodes : TableStep(m)
  <2>. PICK node : node = cleanupSupervisionSeen([st[n] EXCEPT !.dup = Cleanup(@, now)])
    BY Zenon
  <2>1. node.dup = Cleanup(st[n].dup, now)
    BY CleanupFacts, Zenon DEF TypeInv
  <2>2. st' = [st EXCEPT ![n] = node]
    BY <1>4, Zenon DEF periodicCleanup
  <2>. QED BY <2>1, <2>2, Zenon DEF TypeInv, TableStep
<1>5. ASSUME NEW n \in Nodes, Restart(n) PROVE FALSE
  BY <1>5 DEF Restart, TypeInv
<1>6. ASSUME NEW id \in Ids, StationSends(id) PROVE st' = st
  BY <1>6, Zenon DEF StationSends
<1>7. ASSUME NEW i \in Ingress, Lose(i) PROVE st' = st
  BY <1>7, Zenon DEF Lose
<1>8. Tick => st' = st
  BY Zenon DEF Tick
<1>9. UNCHANGED vars => st' = st
  BY Zenon DEF vars
<1>. QED
  BY <1>1, <1>2, <1>3, <1>4, <1>5, <1>6, <1>7, <1>8, <1>9, Zenon DEF Next

-----------------------------------------------------------------------------
(* What a table keeps. *)

Inserted(d, k, t, u) ==
    /\ DOMAIN u = DOMAIN d \cup {k} /\ u[k] = t
    /\ \A x \in DOMAIN d : x # k => u[x] = d[x]

LEMMA InsertWithRoom ==
    ASSUME NEW d, NEW t, NEW k, ~(Cardinality(DOMAIN d \cup {k}) > MaxSize),
           NEW u \in InsertWithExpiry(d, k, t)
    PROVE  Inserted(d, k, t, u)
<1>. PICK g : g = Assign(d, k, t)
  BY Zenon
<1>. DOMAIN g = DOMAIN d \cup {k} /\ g[k] = t /\ \A x \in DOMAIN d : x # k => g[x] = d[x]
  BY Zenon DEF Assign
<1>1. u = g
  BY Zenon DEF InsertWithExpiry
<1>. QED
  BY <1>1, Zenon DEF Inserted

(* A key of a station stays in the table, with its time or a later one,    *)
(* until it has expired.                                                   *)
LEMMA TableKeeps ==
    ASSUME TypeInv, TablesHaveRoom, NEW n \in Nodes, TableStep(n),
           NEW mac, NEW seq, mac \notin NodeMacs, NEW t \in Nat, now - t <= Forget,
           <<mac, seq>> \in DOMAIN st[n].dup, st[n].dup[<<mac, seq>>] >= t
    PROVE  <<mac, seq>> \in DOMAIN st'[n].dup /\ st'[n].dup[<<mac, seq>>] >= t
<1>. PICK key : key = <<mac, seq>> /\ key[1] = mac
  OBVIOUS
<1>. key \in DOMAIN st[n].dup /\ st[n].dup[key] >= t
  BY Zenon
<1>. now \in Nat /\ TableOK(st[n].dup, now) /\ st[n].dup[key] \in 0..now
  BY NetworkAssumption DEF TypeInv, NodeOK, TableOK
<1>1. CASE st'[n].dup = st[n].dup
  BY <1>1, Zenon
<1>2. ASSUME NEW m \in NodeMacs, st'[n].dup = FlushFor(st[n].dup, m)
      PROVE  key \in DOMAIN st'[n].dup /\ st'[n].dup[key] >= t
  <2>1. key \in DOMAIN st[n].dup \ {k \in DOMAIN st[n].dup : k[1] = m}
    BY Zenon
  <2>. QED BY <1>2, <2>1, Zenon DEF FlushFor, Delete, Restrict
<1>3. ASSUME NEW k \in Macs \X Number, st'[n].dup \in InsertWithExpiry(st[n].dup, k, now)
      PROVE  key \in DOMAIN st'[n].dup /\ st'[n].dup[key] >= t
  <2>1. Inserted(st[n].dup, k, now, st'[n].dup)
    <3>1. ~(Cardinality(DOMAIN st[n].dup \cup {k}) > MaxSize)
      BY <1>3, Zenon DEF TablesHaveRoom
    <3>. QED BY <1>3, <3>1, InsertWithRoom, Zenon
  <2>2. now >= t
    OBVIOUS
  <2>. QED BY <2>1, <2>2, Zenon DEF Inserted
<1>4. CASE st'[n].dup = Cleanup(st[n].dup, now)
  <2>1. ~(now - st[n].dup[key] > Forget)
    BY DupTableAssumption
  <2>2. key \in DOMAIN st[n].dup \ {k \in DOMAIN st[n].dup : now - st[n].dup[k] > Forget}
    BY <2>1, Zenon
  <2>3. key \in DOMAIN st'[n].dup /\ st'[n].dup[key] >= t
    BY <1>4, <2>2, Zenon DEF Cleanup, Delete, Restrict
  <2>. QED BY <2>3, Zenon
<1>. QED
  BY <1>1, <1>2, <1>3, <1>4, Zenon DEF TableStep

LEMMA Later ==
    ASSUME NEW a \in Nat, NEW b \in Nat, a <= b, NEW t \in Nat, NEW c \in Nat, a - t > c
    PROVE  b - t > c
OBVIOUS

LEMMA InTime ==
    ASSUME NEW a \in Nat, NEW b \in Nat, NEW c \in Nat, NEW d \in Nat, a - b <= c, c <= d
    PROVE  /\ ~(a - b > d)
           /\ \A e \in Nat : b <= e => ~(a - e > d)
OBVIOUS

LEMMA KnownStep ==
    ASSUME WellWired, TypeInv, TablesHaveRoom, [Next]_vars, boots' = boots,
           NEW n \in Nodes, NEW id \in Ids, NEW t \in Nat, NEW num, NEW new, new[id] = num[id],
           Known(n, id, t, num)
    PROVE  Known(n, id, t, new)'
<1>1. now \in Nat /\ now' \in Nat /\ now <= now'
  BY ClockFacts, Zenon
<1>. PICK mac, seq : mac = Sends[id].src /\ seq = num[id]
  BY Zenon
<1>2. mac \notin NodeMacs
  BY Zenon DEF WellWired, NodeMacs
<1>3. TableStep(n)
  BY TableSteps, Zenon
<1>4. CASE now - t > Forget
  <2>1. now' - t > Forget
    BY <1>1, <1>4, Later, DupTableAssumption, Zenon
  <2>. QED BY <2>1, Zenon DEF Known
<1>5. CASE ~(now - t > Forget)
  <2>1. now - t <= Forget
    BY <1>1, <1>5, DupTableAssumption
  <2>2. <<mac, seq>> \in DOMAIN st[n].dup /\ st[n].dup[<<mac, seq>>] >= t
    BY <1>5, Zenon DEF Known
  <2>3. <<mac, seq>> \in DOMAIN st'[n].dup /\ st'[n].dup[<<mac, seq>>] >= t
    BY <1>2, <1>3, <2>1, <2>2, TableKeeps, Zenon
  <2>. QED BY <2>3, Zenon DEF Known
<1>. QED
  BY <1>4, <1>5, Zenon

-----------------------------------------------------------------------------
(* What the tables know of the frames. *)

(* What the tables knew, they know after the step. *)
StillKnown(new) ==
    /\ \A m \in Nodes : \A d \in Range(got[m]) :
          Known(m, d.frame.id, d.at, new)' /\ sentAt'[d.frame.id] <= d.at
    /\ \A i \in Ingress : \A f \in Range(wire[i]) :
          /\ f.id # NoId /\ i # <<Sends[f.id].node, "interlink">>
          /\ IsHSRNode(Sends[f.id].node) /\ ServesStation(Sends[f.id].node)
          => \A t : t = sentAt[f.id] => Known(Sends[f.id].node, f.id, t, new)'

LEMMA StillKnownStep ==
    ASSUME WellWired, TypeInv, TablesHaveRoom, [Next]_vars, boots' = boots,
           NEW num, NEW new, GotInv(num), InjectedInv(num), Agrees(num, new)
    PROVE  StillKnown(new)
<1>1. ASSUME NEW m \in Nodes, NEW d \in Range(got[m])
      PROVE  Known(m, d.frame.id, d.at, new)' /\ sentAt'[d.frame.id] <= d.at
  <2>1. d.frame.id \in DOMAIN sentAt /\ d.frame.id \in Ids
    BY <1>1, Zenon DEF TypeInv
  <2>2. d.at \in Nat
    <3>1. got[m] \in Seq([frame : Frame, at : Nat])
      BY Zenon DEF TypeInv, Deliveries
    <3>2. d \in [frame : Frame, at : Nat]
      BY <1>1, <3>1, RangeElement, Zenon
    <3>. QED BY <3>2, Zenon
  <2>3. Known(m, d.frame.id, d.at, num) /\ sentAt[d.frame.id] <= d.at
    BY <1>1, Zenon DEF GotInv
  <2>4. new[d.frame.id] = num[d.frame.id]
    BY <1>1, Zenon DEF Agrees
  <2>. PICK id, t : id = d.frame.id /\ t = d.at
    BY Zenon
  <2>5. Known(m, id, t, new)'
    BY <2>1, <2>2, <2>3, <2>4, KnownStep, Zenon
  <2>. QED BY <2>1, <2>3, <2>5, SentKept, Zenon
<1>2. ASSUME NEW i \in Ingress, NEW f \in Range(wire[i]), f.id # NoId,
             i # <<Sends[f.id].node, "interlink">>,
             IsHSRNode(Sends[f.id].node), ServesStation(Sends[f.id].node),
             NEW t, t = sentAt[f.id]
      PROVE  Known(Sends[f.id].node, f.id, t, new)'
  <2>1. f.id \in DOMAIN sentAt /\ f.id \in Ids /\ Sends[f.id].node \in Nodes /\ t \in Nat
    BY <1>2, NetworkAssumption DEF TypeInv
  <2>2. Known(Sends[f.id].node, f.id, t, num)
    BY <1>2, Zenon DEF InjectedInv
  <2>3. new[f.id] = num[f.id]
    BY <1>2, Zenon DEF Agrees
  <2>. QED BY <2>1, <2>2, <2>3, KnownStep, Zenon
<1>. QED
  BY <1>1, <1>2, Zenon DEF StillKnown

(* What a table knows and does not find any more is long past. *)
LEMMA Forgotten ==
    ASSUME TypeInv, NEW n \in Nodes, NEW id, NEW num, NEW t \in Nat, Known(n, id, t, num),
           ~Find(st[n].dup, <<Sends[id].src, num[id]>>, now)
    PROVE  now - t > Forget
<1>. PICK key : key = <<Sends[id].src, num[id]>>
  BY Zenon
<1>1. now \in Nat /\ TableOK(st[n].dup, now)
  BY NetworkAssumption DEF TypeInv, NodeOK
<1>2. CASE key \in DOMAIN st[n].dup /\ st[n].dup[key] >= t
  <2>1. st[n].dup[key] \in Nat /\ ~(now - st[n].dup[key] <= Forget)
    BY <1>1, <1>2 DEF TableOK, Find
  <2>. QED BY <1>1, <1>2, <2>1, DupTableAssumption
<1>. QED
  BY <1>2, Zenon DEF Known

(* Only a frame that is new to node n goes to its interlink. *)
LEMMA DeliverFacts ==
    ASSUME TypeInv, TablesHaveRoom, NEW num, NumberInv(num),
           NEW n \in Nodes, NEW p \in Ports, NEW f, NEW node, NEW out, Handling(n, p, f, node, out),
           "interlink" \in DOMAIN out, f.id # NoId,
           NEW key, key = <<Sends[f.id].src, num[f.id]>>
    PROVE  /\ p \in Lans \/ IsHSRHSR(n)
           /\ Marked(n, f) /\ ~Find(st[n].dup, key, now)
           /\ key \in DOMAIN st'[n].dup /\ st'[n].dup[key] = now
<1>. /\ f \in Frame /\ f \in Range(wire[<<n, p>>]) /\ <<n, p>> \in Ingress
     /\ Effect(n, p, f, node, out) /\ st' = [st EXCEPT ![n] = node]
  BY Zenon DEF Handling, Handles, Finish
<1>. f \in FrameType /\ f.et = "data" /\ f.id \in Ids /\ f.src = Sends[f.id].src /\ "interlink" \notin Lans
  BY Zenon DEF Frame, Genuine, Lans
<1>. Checked(n, p, f, node, out)
  <2>1. ~Ignored(n, p, f, node, out)
    BY SilenceFacts, Zenon DEF Ignored
  <2>2. ~Noted(n, p, f, node, out)
    BY Zenon DEF Noted
  <2>3. ~SentOut(n, p, f, node, out)
    BY Zenon DEF SentOut, Sent
  <2>4. ~Entered(n, p, f, node, out)
    BY BothFacts, Zenon DEF Entered
  <2>. QED BY <2>1, <2>2, <2>3, <2>4, Zenon DEF Effect
<1>1. Bears(f, num[f.id])
  BY Zenon DEF NumberInv
<1>2. SeqAt(n, f) = num[f.id]
  BY <1>1, BearsTrailer, Zenon DEF Bears, SeqAt, Checked, Marked
<1>3. ~Find(st[n].dup, key, now) /\ node.dup \in InsertWithExpiry(st[n].dup, key, now)
  BY <1>2, Zenon DEF Checked, Seen
<1>4. key \in Macs \X Number
  <2>1. SeqAt(n, f) \in Number
    BY SeqAtFacts, Zenon DEF Checked
  <2>. QED BY <1>2, <2>1, FrameFields, Zenon
<1>5. Inserted(st[n].dup, key, now, node.dup)
  <2>1. ~(Cardinality(DOMAIN st[n].dup \cup {key}) > MaxSize)
    BY <1>4, Zenon DEF TablesHaveRoom
  <2>. QED BY <1>3, <2>1, InsertWithRoom, Zenon
<1>6. st'[n].dup = node.dup
  BY Zenon DEF TypeInv
<1>. QED
  BY <1>3, <1>5, <1>6, Zenon DEF Checked, Inserted

(* What an hsr-san node injects for its station, it has in its table.      *)
LEMMA EnterFacts ==
    ASSUME TypeInv, TablesHaveRoom, NEW num,
           NEW n \in Nodes, NEW f, NEW node, NEW out, Handling(n, "interlink", f, node, out),
           IsHSRNode(n), ServesStation(n), out # Silence, f.id # NoId,
           NEW key, key = <<Sends[f.id].src, NextSeq(st[n], f.src)>>
    PROVE  key \in DOMAIN st'[n].dup /\ st'[n].dup[key] = now
<1>. /\ f \in Frame /\ Effect(n, "interlink", f, node, out) /\ st' = [st EXCEPT ![n] = node]
  BY Zenon DEF Handling, Handles, Finish
<1>. f \in FrameType /\ f.et = "data" /\ f.id \in Ids /\ f.src = Sends[f.id].src /\ "interlink" \notin Lans
  BY Zenon DEF Frame, Genuine, Lans
<1>1. Entered(n, "interlink", f, node, out)
  <2>1. ~Ignored(n, "interlink", f, node, out) /\ ~Noted(n, "interlink", f, node, out)
    BY Zenon DEF Ignored, Noted
  <2>2. ~SentOut(n, "interlink", f, node, out) /\ ~Checked(n, "interlink", f, node, out)
    BY Zenon DEF SentOut, Checked, ServesStation
  <2>. QED BY <2>1, <2>2, Zenon DEF Effect
<1>2. InjectionSeq(n, f) = {NextSeq(st[n], f.src)}
  BY Zenon DEF InjectionSeq, ServesStation
<1>3. node.dup \in InsertWithExpiry(st[n].dup, key, now)
  BY <1>1, <1>2, Zenon DEF Entered
<1>4. key \in Macs \X Number
  <2>1. NextSeq(st[n], f.src) \in Number
    BY AdvanceFacts, Zenon DEF TypeInv
  <2>. QED BY <2>1, FrameFields, Zenon
<1>5. Inserted(st[n].dup, key, now, node.dup)
  <2>1. ~(Cardinality(DOMAIN st[n].dup \cup {key}) > MaxSize)
    BY <1>4, Zenon DEF TablesHaveRoom
  <2>. QED BY <1>3, <2>1, InsertWithRoom, Zenon
<1>6. st'[n].dup = node.dup
  BY Zenon DEF TypeInv
<1>. QED
  BY <1>5, <1>6, Zenon DEF Inserted

-----------------------------------------------------------------------------
(* What the stations get. *)

LEMMA OnceSame ==
    ASSUME TypeInv, [Next]_vars, Once, got' = got
    PROVE  Once'
<1>1. ASSUME NEW n \in Nodes, NEW k \in DOMAIN got[n]
      PROVE  sentAt'[got[n][k].frame.id] = sentAt[got[n][k].frame.id]
  <2>1. got[n][k] \in Range(got[n])
    BY Zenon DEF Range
  <2>2. got[n][k].frame.id \in DOMAIN sentAt
    BY <2>1, Zenon DEF TypeInv
  <2>. QED BY <2>2, SentKept, Zenon
<1>. QED
  BY <1>1, Zenon DEF Once

LEMMA OnceAppend ==
    ASSUME TypeInv, [Next]_vars, Once, NEW n, NEW e, got' = [got EXCEPT ![n] = Append(@, e)],
           n = Sends[e.frame.id].node => e.at - sentAt'[e.frame.id] > Forget,
           \A d \in Range(got[n]) : d.frame.id = e.frame.id => e.at - d.at > Forget
    PROVE  Once'
<1>. SUFFICES ASSUME NEW m \in Nodes, NEW k \in DOMAIN got'[m], NEW d, d = got'[m][k]
              PROVE  /\ m = Sends[d.frame.id].node => d.at - sentAt'[d.frame.id] > Forget
                     /\ \A j \in 1..(k - 1) :
                           got'[m][j].frame.id = d.frame.id => d.at - got'[m][j].at > Forget
  BY Zenon DEF Once
<1>1. got[m] \in Seq([frame : Frame, at : Nat]) /\ got \in Deliveries
  BY Zenon DEF TypeInv, Deliveries
<1>2. CASE k \in DOMAIN got[m] /\ d = got[m][k] /\ \A j \in 1..(k - 1) : got'[m][j] = got[m][j]
  <2>1. d \in Range(got[m])
    BY <1>2, Zenon DEF Range
  <2>2. d.frame.id \in DOMAIN sentAt
    BY <2>1, Zenon DEF TypeInv
  <2>3. sentAt'[d.frame.id] = sentAt[d.frame.id]
    BY <2>2, SentKept, Zenon
  <2>. QED BY <1>2, <2>3, Zenon DEF Once
<1>3. CASE m = n /\ d = e /\ \A j \in 1..(k - 1) : got'[m][j] \in Range(got[m])
  BY <1>3, Zenon
<1>4. CASE got'[m] = got[m]
  BY <1>2, <1>4, Zenon
<1>5. CASE m = n /\ got'[m] = Append(got[m], e)
  <2>. PICK q : q = got[m]
    BY Zenon
  <2>. q \in Seq([frame : Frame, at : Nat]) /\ got'[m] = Append(q, e)
    BY <1>1, <1>5, Zenon
  <2>1. CASE k \in DOMAIN q
    <3>1. Append(q, e)[k] = q[k] /\ \A j \in 1..(k - 1) : Append(q, e)[j] = q[j]
      BY <2>1
    <3>. QED BY <1>2, <2>1, <3>1, Zenon
  <2>2. CASE k \notin DOMAIN q
    <3>1. k = Len(q) + 1 /\ Append(q, e)[k] = e
      BY <2>2
    <3>2. \A j \in 1..(k - 1) : j \in DOMAIN q /\ Append(q, e)[j] = q[j]
      BY <3>1
    <3>3. \A j \in 1..(k - 1) : got'[m][j] \in Range(got[m])
      BY <3>2, Zenon DEF Range
    <3>. QED BY <1>3, <1>5, <3>1, <3>3, Zenon
  <2>. QED BY <2>1, <2>2, Zenon
<1>. QED
  BY <1>1, <1>4, <1>5, Zenon DEF Deliveries

LEMMA KnownQuiet ==
    ASSUME TypeInv, [Next]_vars, NEW num, StillKnown(num), Quiet
    PROVE  GotInv(num)' /\ InjectedInv(num)'
<1>1. ASSUME NEW m \in Nodes, NEW d \in Range(got'[m])
      PROVE  Known(m, d.frame.id, d.at, num)' /\ sentAt'[d.frame.id] <= d.at
  BY <1>1, Zenon DEF Quiet, StillKnown
<1>2. ASSUME NEW i \in Ingress, NEW f \in Range(wire'[i]), f.id # NoId, NEW s, s = Sends[f.id].node,
             IsHSRNode(s), ServesStation(s), i # <<s, "interlink">>, NEW t, t = sentAt'[f.id]
      PROVE  Known(s, f.id, t, num)'
  <2>1. f \in Range(wire[i])
    BY <1>2, Zenon DEF Quiet
  <2>2. f.id \in DOMAIN sentAt
    BY <1>2, <2>1, Zenon DEF TypeInv
  <2>3. t = sentAt[f.id]
    BY <1>2, <2>2, SentKept, Zenon
  <2>. QED BY <1>2, <2>1, <2>3, Zenon DEF StillKnown
<1>3. GotInv(num)'
  BY <1>1, Zenon DEF GotInv
<1>4. InjectedInv(num)'
  BY <1>2, Zenon DEF InjectedInv, Known
<1>. QED
  BY <1>3, <1>4, Zenon

LEMMA WindowQuiet ==
    ASSUME WellWired, TypeInv, TablesHaveRoom, [Next]_vars, boots' = boots,
           Once, Numbered, Quiet
    PROVE  Once' /\ Numbered'
<1>. PICK num \in [Ids -> Number] : NumberInv(num) /\ GotInv(num) /\ InjectedInv(num)
  BY Zenon DEF Numbered
<1>1. StillKnown(num)
  BY StillKnownStep, Zenon DEF Agrees
<1>2. GotInv(num)' /\ InjectedInv(num)'
  BY <1>1, KnownQuiet, Zenon
<1>3. NumberInv(num)'
  <2>. SUFFICES ASSUME NEW i \in Ingress, NEW g \in Range(wire'[i]), g.id # NoId PROVE Bears(g, num[g.id])
    BY Zenon DEF NumberInv
  <2>1. CASE g \in Range(wire[i])
    BY <2>1, Zenon DEF NumberInv
  <2>2. CASE g.id \in Ids /\ g = StationFrame(g.id)
    <3>1. g.hsr = <<>> /\ g.rct = <<>>
      BY <2>2, StationFrameFacts, Zenon
    <3>. QED BY <3>1 DEF Bears, HasTag
  <2>. QED BY <2>1, <2>2, Zenon DEF Quiet
<1>4. Once'
  BY OnceSame, Zenon DEF Quiet
<1>. QED
  BY <1>2, <1>3, <1>4, Zenon DEF Numbered

LEMMA FrameSent ==
    ASSUME TypeInv, NEW i \in Ingress, NEW f \in Range(wire[i]), f \in Frame, f.id # NoId
    PROVE  /\ f.id \in Ids /\ f.id \in DOMAIN sentAt /\ now \in Nat
           /\ sentAt[f.id] \in Nat /\ sentAt[f.id] <= now
<1>1. f.id \in Ids /\ f.id \in DOMAIN sentAt
  BY Zenon DEF Frame, Genuine, TypeInv
<1>2. now \in Nat /\ sentAt[f.id] \in 0..now
  BY <1>1, NetworkAssumption DEF TypeInv
<1>. QED
  BY <1>1, <1>2

LEMMA KnownNow ==
    ASSUME NEW n, NEW id, NEW num, NEW key, key = <<Sends[id].src, num[id]>>, now \in Nat, now' = now,
           key \in DOMAIN st'[n].dup, st'[n].dup[key] = now, NEW t \in Nat, t <= now
    PROVE  Known(n, id, t, num)'
<1>1. st'[n].dup[key] >= t
  BY Zenon
<1>. QED
  BY <1>1, Zenon DEF Known

(* A delivery is the first one of the frame for longer than Forget. *)
LEMMA DeliveredOnce ==
    ASSUME WellWired, TypeInv, TablesHaveRoom, PlaceInv,
           NEW num, NumberInv(num), GotInv(num), InjectedInv(num),
           NEW n \in Nodes, NEW p \in Ports, NEW f, NEW node, NEW out, Handling(n, p, f, node, out),
           "interlink" \in DOMAIN out, f.id # NoId
    PROVE  /\ n = Sends[f.id].node => now - sentAt[f.id] > Forget
           /\ \A d \in Range(got[n]) : d.frame.id = f.id => now - d.at > Forget
<1>. PICK key : key = <<Sends[f.id].src, num[f.id]>>
  BY Zenon
<1>. /\ p \in Lans \/ IsHSRHSR(n)
     /\ Marked(n, f) /\ ~Find(st[n].dup, key, now)
  BY DeliverFacts, Zenon
<1>. f \in Frame /\ f \in Range(wire[<<n, p>>]) /\ <<n, p>> \in Ingress
  BY Zenon DEF Handling
<1>1. f.id \in Ids /\ f.id \in DOMAIN sentAt /\ sentAt[f.id] \in Nat
  BY FrameSent, Zenon
<1>2. ASSUME n = Sends[f.id].node PROVE now - sentAt[f.id] > Forget
  <2>1. Placed(<<n, p>>, f)
    BY Zenon DEF PlaceInv
  <2>2. ~(<<n, p>> = <<n, "interlink">> /\ f = StationFrame(f.id))
    BY <1>1, StationFrameFacts, Zenon DEF Marked, HasTag, HasRCT
  <2>3. ~(~IsHSRNode(n) /\ \E r \in Lans : <<n, p>> \in Link[<<n, r>>])
    BY Zenon DEF WellWired
  <2>4. IsHSRNode(n) /\ ServesStation(n)
    BY <1>2, <2>1, <2>2, <2>3, Zenon DEF Placed
  <2>5. <<n, p>> # <<n, "interlink">>
    BY <2>4, Zenon DEF ServesStation, Lans
  <2>6. Known(n, f.id, sentAt[f.id], num)
    BY <1>2, <2>4, <2>5, Zenon DEF InjectedInv
  <2>. QED BY <1>1, <2>6, Forgotten, Zenon
<1>3. ASSUME NEW d \in Range(got[n]), d.frame.id = f.id PROVE now - d.at > Forget
  <2>1. d.at \in Nat
    <3>1. got[n] \in Seq([frame : Frame, at : Nat])
      BY Zenon DEF TypeInv, Deliveries
    <3>2. d \in [frame : Frame, at : Nat]
      BY <1>3, <3>1, RangeElement, Zenon
    <3>. QED BY <3>2, Zenon
  <2>2. Known(n, f.id, d.at, num)
    BY <1>3, Zenon DEF GotInv
  <2>. QED BY <2>1, <2>2, Forgotten, Zenon
<1>. QED
  BY <1>2, <1>3, Zenon

LEMMA OnceHandle ==
    ASSUME WellWired, TypeInv, TablesHaveRoom, PlaceInv, [Next]_vars, Once, Numbered,
           NEW n \in Nodes, NEW p \in Ports, NEW f, NEW node, NEW out, Handling(n, p, f, node, out)
    PROVE  Once'
<1>1. CASE got' = got
  BY <1>1, OnceSame, Zenon
<1>2. CASE got' # got
  <2>. PICK num \in [Ids -> Number] : NumberInv(num) /\ GotInv(num) /\ InjectedInv(num)
    BY Zenon DEF Numbered
  <2>. PICK e : e = [frame |-> out["interlink"], at |-> now]
    BY Zenon
  <2>. /\ "interlink" \in DOMAIN out /\ got' = [got EXCEPT ![n] = Append(@, e)]
       /\ out["interlink"].id # NoId /\ out["interlink"].id = f.id /\ sentAt' = sentAt
    BY <1>2, Zenon DEF Handling, Handles, Finish, Delivered, Kin
  <2>1. e.frame.id = f.id /\ e.at = now
    BY Zenon
  <2>2. /\ n = Sends[f.id].node => now - sentAt[f.id] > Forget
        /\ \A d \in Range(got[n]) : d.frame.id = f.id => now - d.at > Forget
    BY DeliveredOnce, Zenon
  <2>. QED BY <2>1, <2>2, OnceAppend, Zenon
<1>. QED
  BY <1>1, <1>2, Zenon

LEMMA WindowHandle ==
    ASSUME WellWired, TypeInv, TablesHaveRoom, RawInv, FreshInv, PlaceInv, [Next]_vars, boots' = boots,
           Numbered,
           NEW n \in Nodes, NEW p \in Ports, NEW f, NEW node, NEW out, Handling(n, p, f, node, out)
    PROVE  Numbered'
<1>. PICK num \in [Ids -> Number] : NumberInv(num) /\ GotInv(num) /\ InjectedInv(num)
  BY Zenon DEF Numbered
<1>. PICK new : new = Renumbered(n, p, f, num)
  BY Zenon
<1>1. ASSUME f.id # NoId, "interlink" \in DOMAIN out, NEW key, key = <<Sends[f.id].src, num[f.id]>>
      PROVE  (p \in Lans \/ IsHSRHSR(n)) /\ key \in DOMAIN st'[n].dup /\ st'[n].dup[key] = now
  BY <1>1, DeliverFacts
<1>2. new \in [Ids -> Number] /\ NumberInv(new)' /\ Agrees(num, new)
  BY NumberHandle, Zenon
<1>. StillKnown(new)
  BY <1>2, StillKnownStep, Zenon
<1>. /\ f \in Frame /\ f \in Range(wire[<<n, p>>]) /\ <<n, p>> \in Ingress
     /\ \A q \in DOMAIN out : out[q] \in Frame /\ out[q].id = f.id
     /\ Spread(n, out) /\ Delivered(n, out) /\ got \in Deliveries
  BY Zenon DEF Handling, Kin, TypeInv
<1>. now' = now /\ sentAt' = sentAt
  BY Zenon DEF Handling, Handles, Finish
<1>. f.id # NoId => f.id \in Ids /\ now \in Nat /\ now <= now /\ sentAt[f.id] \in Nat /\ sentAt[f.id] <= now
  BY FrameSent
<1>3. ASSUME f.id # NoId, "interlink" \in DOMAIN out PROVE Known(n, f.id, now, new)'
  <2>. PICK key : key = <<Sends[f.id].src, num[f.id]>>
    BY Zenon
  <2>1. (p \in Lans \/ IsHSRHSR(n)) /\ key \in DOMAIN st'[n].dup /\ st'[n].dup[key] = now
    BY <1>1, <1>3, Zenon
  <2>2. new[f.id] = num[f.id]
    BY <2>1, Zenon DEF Renumbered, ServesStation, Lans
  <2>3. key = <<Sends[f.id].src, new[f.id]>>
    BY <2>2, Zenon
  <2>. QED BY <1>3, <2>1, <2>3, KnownNow, Zenon
<1>4. GotInv(new)'
  <2>. SUFFICES ASSUME NEW m \in Nodes, NEW d \in Range(got'[m])
                PROVE  Known(m, d.frame.id, d.at, new)' /\ sentAt'[d.frame.id] <= d.at
    BY Zenon DEF GotInv
  <2>1. CASE d \in Range(got[m])
    BY <2>1, Zenon DEF StillKnown
  <2>2. CASE m = n /\ "interlink" \in DOMAIN out /\ d = [frame |-> out["interlink"], at |-> now]
    <3>1. d.frame.id = f.id /\ d.at = now /\ f.id # NoId
      <4>1. d.frame.id # NoId
        <5>1. TypeInv'
          BY TypeNext, Zenon
        <5>. QED BY <5>1, NetworkAssumption, Zenon DEF TypeInv
      <4>. QED BY <2>2, <4>1, Zenon
    <3>2. sentAt'[f.id] <= now
      BY <3>1, Zenon
    <3>. QED BY <1>3, <2>2, <3>1, <3>2, Zenon
  <2>. QED BY <2>1, <2>2, GotAppend, Zenon
<1>5. InjectedInv(new)'
  <2>1. ASSUME NEW i \in Ingress, NEW g \in Range(wire'[i]), g.id # NoId, NEW s, s = Sends[g.id].node,
               IsHSRNode(s), ServesStation(s), i # <<s, "interlink">>, NEW u, u = sentAt'[g.id]
        PROVE  Known(s, g.id, u, new)'
    <3>1. CASE g \in Range(wire[i])
      BY <2>1, <3>1, Zenon DEF StillKnown
    <3>2. ASSUME NEW q \in DOMAIN out, g = out[q] PROVE Known(s, g.id, u, new)'
      <4>. g.id = f.id
        BY <3>2, Zenon
      <4>1. CASE <<n, p>> # <<s, "interlink">>
        BY <2>1, <4>1, Zenon DEF StillKnown
      <4>2. CASE <<n, p>> = <<s, "interlink">>
        <5>. n = s /\ p = "interlink" /\ out # Silence
          BY <3>2, <4>2, SilenceFacts, Zenon
        <5>. PICK key : key = <<Sends[f.id].src, NextSeq(st[n], f.src)>>
          BY Zenon
        <5>1. key \in DOMAIN st'[n].dup /\ st'[n].dup[key] = now
          BY <2>1, EnterFacts, Zenon
        <5>2. new[f.id] = NextSeq(st[n], f.src)
          BY <2>1, Zenon DEF Renumbered
        <5>3. key = <<Sends[g.id].src, new[g.id]>> /\ u \in Nat /\ u <= now /\ now \in Nat
          BY <2>1, <5>2, Zenon
        <5>. QED BY <5>1, <5>3, KnownNow, Zenon
      <4>. QED BY <4>1, <4>2, Zenon
    <3>3. g \in Range(wire[i]) \/ \E q \in DOMAIN out : g = out[q]
      BY <2>1, Zenon DEF Spread
    <3>. QED BY <3>1, <3>2, <3>3, Zenon
  <2>. QED BY <2>1, Zenon DEF InjectedInv, Known
<1>. QED
  BY <1>2, <1>4, <1>5, Zenon DEF Numbered

LEMMA WindowInit == Init => WindowInv
<1>. SUFFICES ASSUME Init PROVE FreshInv /\ PlaceInv /\ Once /\ Numbered
  BY Zenon DEF WindowInv
<1>1. \A i \in Ingress : wire[i] = <<>> /\ Range(wire[i]) = {}
  BY EmptyRange, Zenon DEF Init
<1>2. \A n \in Nodes : got[n] = <<>> /\ Range(got[n]) = {} /\ <<n, "interlink">> \in Ingress
  BY EmptyRange, Zenon DEF Init, Ingress, Ports
<1>3. FreshInv
  BY FreshInit, Zenon
<1>4. Once
  <2>1. DOMAIN <<>> = {}
    OBVIOUS
  <2>2. \A n \in Nodes : DOMAIN got[n] = {}
    BY <1>2, <2>1, Zenon
  <2>. QED BY <2>2, Zenon DEF Once
<1>5. Numbered
  <2>1. PICK num : num = [id \in Ids |-> 0]
    BY Zenon
  <2>2. num \in [Ids -> Number]
    BY <2>1, NumberFacts, Zenon
  <2>3. NumberInv(num) /\ GotInv(num) /\ InjectedInv(num)
    BY <1>1, <1>2, Zenon DEF NumberInv, GotInv, InjectedInv
  <2>. QED BY <2>2, <2>3, Zenon DEF Numbered
<1>. QED
  BY <1>1, <1>3, <1>4, <1>5, Zenon DEF PlaceInv

LEMMA WindowNext ==
    ASSUME WellWired, TypeInv, RawInv, TablesHaveRoom, WindowInv, [Next]_vars
    PROVE  WindowInv'
<1>. SUFFICES ASSUME boots' = 0 PROVE FreshInv' /\ PlaceInv' /\ Once' /\ Numbered'
  BY Zenon DEF WindowInv
<1>. boots' = boots
  BY BootsFacts, Zenon
<1>. FreshInv /\ PlaceInv /\ Once /\ Numbered
  BY Zenon DEF WindowInv
<1>1. FreshInv' /\ PlaceInv'
  BY FreshNext, PlaceNext, Zenon
<1>2. ASSUME NEW n \in Nodes, NEW p \in Ports, handleFrame(n, p) PROVE Once' /\ Numbered'
  <2>1. PICK f, node, out : Handling(n, p, f, node, out)
    BY <1>2, HandleFacts, Zenon
  <2>. QED BY <2>1, OnceHandle, WindowHandle, Zenon
<1>3. CASE \A n \in Nodes, p \in Ports : ~handleFrame(n, p)
  BY <1>1, <1>3, QuietSteps, WindowQuiet, Zenon
<1>. QED
  BY <1>1, <1>2, <1>3, Zenon

(* Two deliveries of one frame to a station, or its sending and an echo of *)
(* it, lie more than Forget apart: in every network that is wired as       *)
(* WellWired says, with any number of nodes of all four roles, however     *)
(* long the copies travel and whatever is lost, as long as no table is so  *)
(* full that it evicts (handleIncomingPRPFrame, handleIncomingHSRFrame,    *)
(* registerFrameOut, dupTable.Find).                                       *)
THEOREM OnceInEveryWindow ==
    ASSUME WellWired PROVE Spec /\ []TablesHaveRoom => []OncePerWindow
<1>1. WindowInv => OncePerWindow
  BY Zenon DEF WindowInv, OncePerWindow, Once
<1>. QED
  BY <1>1, TypeAlways, RawAlways, WindowInit, WindowNext, PTL DEF Spec

-----------------------------------------------------------------------------
(* What the stations have received is the mapped inbox. *)

IdsOf(q) == [k \in DOMAIN q |-> q[k].frame.id]
Inbox(g) == [n \in Nodes |-> IdsOf(g[n])]

LEMMA IdsAppend ==
    ASSUME NEW q \in Seq([frame : Frame, at : Nat]), NEW e
    PROVE  IdsOf(Append(q, e)) = Append(IdsOf(q), e.frame.id)
<1>. PICK r : r = IdsOf(q)
  BY Zenon
<1>. Len(q) \in Nat /\ DOMAIN q = 1..Len(q) /\ DOMAIN Append(q, e) = 1..(Len(q) + 1)
  OBVIOUS
<1>1. r = [k \in 1..Len(q) |-> q[k].frame.id]
  BY Zenon DEF IdsOf
<1>2. Len(r) = Len(q) /\ Append(r, e.frame.id)
        = [k \in 1..(Len(q) + 1) |-> IF k = Len(q) + 1 THEN e.frame.id ELSE r[k]]
  BY <1>1
<1>3. \A k \in 1..(Len(q) + 1) : Append(q, e)[k].frame.id = IF k = Len(q) + 1 THEN e.frame.id ELSE r[k]
  BY <1>1
<1>. QED
  BY <1>2, <1>3, Zenon DEF IdsOf

LEMMA InboxAppend ==
    ASSUME got \in Deliveries, NEW n \in Nodes, NEW e, got' = [got EXCEPT ![n] = Append(@, e)]
    PROVE  Inbox(got') = [Inbox(got) EXCEPT ![n] = Append(@, e.frame.id)]
<1>1. got[n] \in Seq([frame : Frame, at : Nat]) /\ DOMAIN got = Nodes
  BY Zenon DEF Deliveries
<1>2. IdsOf(Append(got[n], e)) = Append(IdsOf(got[n]), e.frame.id)
  BY <1>1, IdsAppend, Zenon
<1>3. \A m \in Nodes : IdsOf(got'[m]) = IF m = n THEN Append(IdsOf(got[n]), e.frame.id) ELSE IdsOf(got[m])
  BY <1>1, <1>2, Zenon
<1>. QED
  BY <1>3, Zenon DEF Inbox

-----------------------------------------------------------------------------
(* Every step of the network is a step of SeamlessNet or none.             *)

LEMMA StationUnchanged ==
    ASSUME got' = got, sentAt' = sentAt
    PROVE  UNCHANGED Station!nvars
BY Zenon DEF Station!nvars

LEMMA StationSent ==
    ASSUME TypeInv, NEW id \in Ids, StationSends(id)
    PROVE  Station!Send(id)
<1>1. id \notin DOMAIN sentAt /\ DOMAIN sentAt' = DOMAIN sentAt \cup {id}
  BY SendStep, Zenon
<1>2. got' = got
  BY Zenon DEF StationSends
<1>. QED
  BY <1>1, <1>2, Zenon DEF Station!Send

LEMMA StationReceived ==
    ASSUME WellWired, MaxDelay <= Forget, TypeInv, TransitInv, TablesHaveRoom, PlaceInv, Numbered,
           NEW n \in Nodes, NEW p \in Ports, NEW f, NEW node, NEW out, Handling(n, p, f, node, out),
           got' # got
    PROVE  \E id \in Ids : Station!Deliver(n, id)
<1>. PICK num \in [Ids -> Number] : NumberInv(num) /\ GotInv(num) /\ InjectedInv(num)
  BY Zenon DEF Numbered
<1>. PICK e : e = [frame |-> out["interlink"], at |-> now]
  BY Zenon
<1>. /\ "interlink" \in DOMAIN out /\ out["interlink"].id = f.id /\ f.id # NoId
     /\ got' = [got EXCEPT ![n] = Append(@, e)]
     /\ f \in Frame /\ f \in Range(wire[<<n, p>>]) /\ <<n, p>> \in Ingress
     /\ sentAt' = sentAt
  BY Zenon DEF Handling, Handles, Finish, Delivered, Kin
<1>. f.id \in Ids /\ f.id \in DOMAIN sentAt /\ sentAt[f.id] \in Nat /\ now \in Nat /\ MaxDelay \in Nat
  BY FrameSent, NetworkAssumption, Zenon
<1>1. /\ ~(now - sentAt[f.id] > Forget)
      /\ \A t \in Nat : sentAt[f.id] <= t => ~(now - t > Forget)
  <2>1. now - sentAt[f.id] <= MaxDelay
    BY Zenon DEF TransitInv
  <2>. QED BY <2>1, InTime, DupTableAssumption, Zenon
<1>2. /\ n = Sends[f.id].node => now - sentAt[f.id] > Forget
      /\ \A d \in Range(got[n]) : d.frame.id = f.id => now - d.at > Forget
  BY DeliveredOnce, Zenon
<1>3. n # Sends[f.id].node
  BY <1>1, <1>2, Zenon
<1>4. ASSUME NEW d \in Range(got[n]) PROVE d.frame.id # f.id
  <2>. SUFFICES ASSUME d.frame.id = f.id PROVE FALSE
    BY Zenon
  <2>1. d.at \in Nat
    <3>1. got[n] \in Seq([frame : Frame, at : Nat])
      BY Zenon DEF TypeInv, Deliveries
    <3>2. d \in [frame : Frame, at : Nat]
      BY <1>4, <3>1, RangeElement, Zenon
    <3>. QED BY <3>2, Zenon
  <2>2. sentAt[f.id] <= d.at
    BY <1>4, Zenon DEF GotInv
  <2>3. now - d.at > Forget
    BY <1>2, Zenon
  <2>. QED BY <1>1, <2>1, <2>2, <2>3, Zenon
<1>5. f.id \notin {Inbox(got)[n][k] : k \in DOMAIN Inbox(got)[n]}
  BY <1>4, Zenon DEF Inbox, IdsOf, Range
<1>6. Inbox(got') = [Inbox(got) EXCEPT ![n] = Append(@, f.id)]
  BY InboxAppend, Zenon DEF TypeInv
<1>7. Station!Deliver(n, f.id)
  BY <1>3, <1>5, <1>6, Zenon DEF Station!Deliver, Station!Received, Inbox, IdsOf
<1>. QED
  BY <1>7, Zenon

LEMMA StationStep ==
    ASSUME WellWired, MaxDelay <= Forget, TypeInv, TransitInv, TablesHaveRoom, boots = 0, WindowInv,
           [Next]_vars, boots' = 0
    PROVE  Station!Next \/ UNCHANGED Station!nvars
<1>. DEFINE Goal == Station!Next \/ UNCHANGED Station!nvars
<1>1. got' = got /\ sentAt' = sentAt => Goal
  BY StationUnchanged, Zenon
<1>2. ASSUME NEW n \in Nodes, NEW p \in Ports, handleFrame(n, p) PROVE Goal
  <2>. PICK f, node, out : Handling(n, p, f, node, out)
    BY <1>2, HandleFacts, Zenon
  <2>1. sentAt' = sentAt
    BY Zenon DEF Handling, Handles, Finish
  <2>2. PlaceInv /\ Numbered
    BY Zenon DEF WindowInv
  <2>3. CASE got' # got
    <3>1. PICK id \in Ids : Station!Deliver(n, id)
      BY <2>2, <2>3, StationReceived, Zenon
    <3>. QED BY <3>1, Zenon DEF Station!Next
  <2>. QED BY <1>1, <2>1, <2>3, Zenon
<1>3. ASSUME NEW n \in Nodes, SendSupervisionFrame(n) PROVE got' = got /\ sentAt' = sentAt
  <2>1. PICK out : Announces(n, out)
    BY <1>3, AnnounceStep, Zenon
  <2>. QED BY <1>3, <2>1, Zenon DEF Announces, SendSupervisionFrame
<1>4. ASSUME NEW n \in Nodes, periodicCleanup(n) \/ Restart(n) PROVE got' = got /\ sentAt' = sentAt
  BY <1>4, Zenon DEF periodicCleanup, Restart
<1>5. ASSUME NEW id \in Ids, StationSends(id) PROVE Goal
  BY <1>5, StationSent, Zenon DEF Station!Next
<1>6. ASSUME NEW i \in Ingress, Lose(i) PROVE got' = got /\ sentAt' = sentAt
  BY <1>6, Zenon DEF Lose
<1>7. Tick \/ UNCHANGED vars => got' = got /\ sentAt' = sentAt
  BY Zenon DEF Tick, vars
<1>. HIDE DEF Goal
<1>8. Goal
  BY <1>1, <1>2, <1>3, <1>4, <1>5, <1>6, <1>7, Zenon DEF Next
<1>. QED
  BY <1>8, Zenon DEF Goal

(* Every station receives a frame at most once and never its own: a        *)
(* network that is wired as WellWired says implements SeamlessNet, with    *)
(* any number of nodes of all four roles and whatever the links lose, if   *)
(* frames are in transit no longer than entry_forget_time, no node         *)
(* restarts and no table is so full that it evicts                         *)
(* (handleIncomingPRPFrame, handleIncomingHSRFrame,                        *)
(* handleHSRInterlinkFrame, dupTable.Find).                                *)
THEOREM ImplementsSeamlessNet ==
    ASSUME WellWired, MaxDelay <= Forget
    PROVE  Spec /\ []NoRestart /\ []TablesHaveRoom => Seamless
<1>1. Init => Station!Init
  <2>. SUFFICES ASSUME Init PROVE Station!Init
    BY Zenon
  <2>1. DOMAIN sentAt = {}
    BY Zenon DEF Init, EmptyMap
  <2>2. \A n \in Nodes : [k \in DOMAIN got[n] |-> got[n][k].frame.id] = <<>>
    BY DEF Init
  <2>. QED BY <2>1, <2>2, Zenon DEF Station!Init
<1>2. /\ TypeInv /\ TransitInv /\ TablesHaveRoom /\ NoRestart /\ WindowInv
      /\ [Next]_vars /\ NoRestart'
      => [Station!Next]_(Station!nvars)
  BY StationStep, Zenon DEF NoRestart
<1>. QED
  BY <1>1, <1>2, TypeAlways, RawAlways, TransitAlways, WindowInit, WindowNext, PTL
     DEF Spec, Seamless, Station!Spec

-----------------------------------------------------------------------------
(* Ring members. *)

LEMMA MembersHandle ==
    ASSUME WellWired, OneRedBoxEach, BehindOwnRedBox, MaxDelay <= Forget, TypeInv, TransitInv, Numbered,
           InterlinkSideNotMember,
           NEW n \in Nodes, NEW p \in Ports, NEW f, NEW node, NEW out, Handling(n, p, f, node, out)
    PROVE  InterlinkSideNotMember'
<1>. SUFFICES ASSUME NEW id \in Ids, NEW m \in Sends[id].behind,
                     Sends[id].src \in DOMAIN st'[m].members
              PROVE  FALSE
  BY Zenon DEF InterlinkSideNotMember
<1>. ServesStation(m) /\ m \in Nodes
  BY NetworkAssumption, Zenon DEF BehindOwnRedBox
<1>. st' = [st EXCEPT ![n] = node] /\ DOMAIN st = Nodes /\ Members(n, p, f, node)
  BY Zenon DEF Handling, Handles, Finish, TypeInv
<1>1. Sends[id].src \notin DOMAIN st[m].members
  BY Zenon DEF InterlinkSideNotMember
<1>. m = n /\ node.members # st[n].members
  BY <1>1, Zenon
<1>. /\ IsHSRNode(n) /\ p \in Lans /\ node.members = Assign(st[n].members, f.src, now)
     /\ f.et = "sup" \/ (HasTag(f) /\ ~Seen(n, f.src, TagSeq(f)))
  BY Zenon DEF Members
<1>2. Sends[id].src = f.src
  BY <1>1, Zenon DEF Assign
<1>. /\ f \in Frame /\ f \in Range(wire[<<n, p>>]) /\ <<n, p>> \in Ingress
     /\ <<n, p>> # <<n, "interlink">>
  BY Zenon DEF Handling, Lans
<1>3. f.src \notin NodeMacs
  <2>1. \A x \in Nodes : Sends[id].src # Cfg[x].mac
    BY Zenon DEF WellWired
  <2>. QED BY <1>2, <2>1, Zenon DEF NodeMacs
<1>. f.id \in Ids /\ f.id # NoId /\ f.src = Sends[f.id].src /\ f.et # "sup"
  BY <1>3, NetworkAssumption, Zenon DEF Frame, Genuine
<1>4. Sends[f.id].node = n
  BY <1>2, Zenon DEF BehindOwnRedBox, OneRedBoxEach
<1>. PICK num \in [Ids -> Number] : NumberInv(num) /\ InjectedInv(num)
  BY Zenon DEF Numbered
<1>5. Known(n, f.id, sentAt[f.id], num)
  BY <1>4, Zenon DEF InjectedInv
<1>6. ~Find(st[n].dup, <<Sends[f.id].src, num[f.id]>>, now)
  BY Zenon DEF NumberInv, Bears, Seen
<1>7. f.id \in DOMAIN sentAt /\ sentAt[f.id] \in Nat /\ now \in Nat /\ MaxDelay \in Nat
  BY FrameSent, NetworkAssumption, Zenon
<1>8. now - sentAt[f.id] > Forget
  BY <1>5, <1>6, <1>7, Forgotten, Zenon
<1>9. now - sentAt[f.id] <= MaxDelay
  BY Zenon DEF TransitInv
<1>. QED
  BY <1>7, <1>8, <1>9, InTime, DupTableAssumption, Zenon

LEMMA MembersNext ==
    ASSUME WellWired, OneRedBoxEach, BehindOwnRedBox, MaxDelay <= Forget, TypeInv, TransitInv, NoRestart, WindowInv,
           InterlinkSideNotMember, [Next]_vars
    PROVE  InterlinkSideNotMember'
<1>1. ASSUME \A m \in Nodes : DOMAIN st'[m].members \subseteq DOMAIN st[m].members
      PROVE  InterlinkSideNotMember'
  <2>1. \A id \in Ids : \A n \in Sends[id].behind : n \in Nodes
    BY NetworkAssumption, Zenon DEF BehindOwnRedBox
  <2>. QED BY <1>1, <2>1, Zenon DEF InterlinkSideNotMember
<1>2. ASSUME NEW n \in Nodes, NEW p \in Ports, handleFrame(n, p) PROVE InterlinkSideNotMember'
  <2>1. PICK f, node, out : Handling(n, p, f, node, out)
    BY <1>2, HandleFacts, Zenon
  <2>2. Numbered
    BY Zenon DEF NoRestart, WindowInv
  <2>. QED BY <2>1, <2>2, MembersHandle, Zenon
<1>3. ASSUME NEW n \in Nodes, SendSupervisionFrame(n) PROVE InterlinkSideNotMember'
  <2>1. PICK seq : st' = [st EXCEPT ![n].supSeq = seq]
    BY <1>3, Zenon DEF SendSupervisionFrame
  <2>2. \A m \in Nodes : st'[m].members = st[m].members
    BY <2>1, Zenon DEF TypeInv, NodeOK, NodeFields
  <2>. QED BY <1>1, <2>2, Zenon
<1>4. ASSUME NEW n \in Nodes, periodicCleanup(n) PROVE InterlinkSideNotMember'
  <2>. PICK node : node = cleanupSupervisionSeen([st[n] EXCEPT !.dup = Cleanup(@, now)])
    BY Zenon
  <2>1. DOMAIN node.members \subseteq DOMAIN st[n].members
    BY CleanupFacts DEF TypeInv
  <2>2. st' = [st EXCEPT ![n] = node]
    BY <1>4, Zenon DEF periodicCleanup
  <2>. QED BY <1>1, <2>1, <2>2, Zenon DEF TypeInv
<1>5. ASSUME NEW n \in Nodes, Restart(n) PROVE InterlinkSideNotMember'
  <2>1. PICK start : st' = [st EXCEPT ![n] = NewNode(start)]
    BY <1>5, Zenon DEF Restart
  <2>2. DOMAIN NewNode(start).members = {}
    BY Zenon DEF NewNode, EmptyMap
  <2>. QED BY <1>1, <2>1, <2>2, Zenon DEF TypeInv
<1>6. st' = st => InterlinkSideNotMember'
  BY Zenon DEF InterlinkSideNotMember
<1>7. ASSUME NEW id \in Ids, StationSends(id) PROVE st' = st
  BY <1>7, Zenon DEF StationSends
<1>8. ASSUME NEW i \in Ingress, Lose(i) PROVE st' = st
  BY <1>8, Zenon DEF Lose
<1>9. Tick \/ UNCHANGED vars => st' = st
  BY Zenon DEF Tick, vars
<1>. QED
  BY <1>2, <1>3, <1>4, <1>5, <1>6, <1>7, <1>8, <1>9, Zenon DEF Next

(* A station on the interlink side of its one RedBox is never taken for a  *)
(* member of the ring, where unicastToRingMember would keep the frames for *)
(* it: the node's duplicate table knows the station's own frames when they *)
(* come round the ring, as long as they do so within entry_forget_time     *)
(* (learnRingMember after the duplicate check, registerFrameOut).          *)
THEOREM StationsAreNotMembers ==
    ASSUME WellWired, OneRedBoxEach, BehindOwnRedBox, MaxDelay <= Forget
    PROVE  Spec /\ []NoRestart /\ []TablesHaveRoom => []InterlinkSideNotMember
<1>1. Init => InterlinkSideNotMember
  <2>. SUFFICES ASSUME Init, NEW id \in Ids, NEW n \in Sends[id].behind
                PROVE  Sends[id].src \notin DOMAIN st[n].members
    BY Zenon DEF InterlinkSideNotMember
  <2>1. n \in Nodes
    BY NetworkAssumption, Zenon DEF BehindOwnRedBox
  <2>. QED BY <2>1 DEF Init, NewNode, EmptyMap
<1>2. TypeInv /\ TransitInv /\ NoRestart /\ WindowInv /\ InterlinkSideNotMember /\ [Next]_vars
      => InterlinkSideNotMember'
  BY MembersNext, Zenon
<1>. QED
  BY <1>1, <1>2, TypeAlways, RawAlways, TransitAlways, WindowInit, WindowNext, PTL DEF Spec
=============================================================================
