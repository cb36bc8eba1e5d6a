-------------------------- MODULE EventStreamProofs --------------------------
(***************************************************************************)
(* Proofs about EventStream for any lanes, viewers and bounds: nothing of  *)
(* a run follows its end, and what a browser misses or gets twice has one  *)
(* of the known reasons. The events that are out, waiting or still due are *)
(* counted first: the counter of the model bounds them all.                *)
(***************************************************************************)
EXTENDS EventStream, FiniteSetTheorems, TLAPS

Published == ToSet(stream) \cup lost
Waiting == {e \in Emitters : outbox[e] # NoEvent}
Known == Published \cup {outbox[e] : e \in Waiting}

Connection == [open : BOOLEAN, from : 0..MaxEvents, join : Nat \ {0}, next : Nat \ {0}, queue : Seq(Event)]

RunTypes ==
  /\ phase \in {"idle", "running", "answered", "completing", "failing", "learning"}
  /\ number \in 0..MaxRuns /\ archive \subseteq 1..MaxEvents
  /\ phase # "idle" => number # 0
  /\ journal \in [1..MaxRuns -> [maxSeq : Nat, raw : SUBSET Nat]]
  /\ \A r \in 1..MaxRuns : journal[r].raw \subseteq 1..journal[r].maxSeq
  /\ busy \in [Lanes -> 0..MaxRuns]

EventTypes ==
  /\ outbox \in [Emitters -> Event \cup {NoEvent}]
  /\ stream \in Seq(Event) /\ lost \subseteq Event /\ IsFiniteSet(lost)

ViewTypes ==
  /\ conn \in [Viewers -> Connection]
  /\ got \in [Viewers -> Seq(Event)] /\ leaves \in [Viewers -> 0..MaxLeaves]
  /\ missed \in [Viewers -> SUBSET Event] /\ again \in [Viewers -> SUBSET Event]

Types == RunTypes /\ EventTypes /\ ViewTypes

(* Every event is counted once.                                            *)
Counts ==
  /\ Emitted + Due <= MaxEvents
  /\ \A r \in 1..MaxRuns : journal[r].maxSeq <= Emitted

(* A number is given once in a run.                                        *)
Numbers ==
  /\ \A l \in Lanes : busy[l] <= number
  /\ \A f \in Known : f.seq <= journal[f.run].maxSeq /\ f.run <= number
  /\ \A e \in Waiting :
       /\ outbox[e].by = e
       /\ \A f \in Published : f.run = outbox[e].run => f.seq # outbox[e].seq
       /\ \A d \in Waiting \ {e} : outbox[d].run = outbox[e].run => outbox[d].seq # outbox[e].seq

IInv1 == Types /\ Counts /\ Numbers

-----------------------------------------------------------------------------
LEMMA EventFields == ASSUME NEW f \in Event
  PROVE /\ f.run \in 1..MaxRuns /\ f.seq \in 1..MaxEvents /\ f.by \in Emitters /\ f # NoEvent
        /\ f.kind \in {"started", "step", "result", "completed", "failed"} /\ f.archive \subseteq 1..MaxEvents
BY DEF Event, NoEvent, Terminal

LEMMA RangeOfAppend == ASSUME NEW S, NEW s \in Seq(S), NEW x \in S
  PROVE ToSet(Append(s, x)) = ToSet(s) \cup {x} /\ Append(s, x) \in Seq(S)
        /\ Len(Append(s, x)) = Len(s) + 1
<1>1. Append(s, x) \in Seq(S) /\ Len(Append(s, x)) = Len(s) + 1
      /\ \A i \in 1..Len(s) : Append(s, x)[i] = s[i]
      /\ Append(s, x)[Len(s) + 1] = x /\ Len(s) \in Nat
  OBVIOUS
<1>2. DOMAIN s = 1..Len(s) /\ DOMAIN Append(s, x) = 1..(Len(s) + 1)
  BY <1>1
<1> QED
  BY <1>1, <1>2 DEF ToSet

LEMMA WaitingIsFinite == ASSUME EventStreamAssumption, NEW S, S \subseteq Emitters
  PROVE IsFiniteSet(S) /\ Cardinality(S) \in Nat /\ (S = {} <=> Cardinality(S) = 0)
<1>1. IsFiniteSet(Emitters)
  BY FS_AddElement DEF EventStreamAssumption, Emitters
<1> QED
  BY <1>1, FS_Subset, FS_CardinalityType, FS_EmptySet

LEMMA EmittedIsNat == ASSUME EventStreamAssumption, EventTypes
  PROVE Emitted \in Nat /\ Due \in Nat
        /\ Emitted = Len(stream) + Cardinality(lost) + Cardinality(Waiting)
<1>1. Cardinality(lost) \in Nat
  BY FS_CardinalityType DEF EventTypes
<1>2. Cardinality(Waiting) \in Nat
  BY WaitingIsFinite DEF Waiting
<1>3. Cardinality({l \in Lanes : busy[l] # 0}) \in Nat
  BY WaitingIsFinite DEF Emitters
<1>4. Len(stream) \in Nat
  BY DEF EventTypes
<1> QED
  BY <1>1, <1>2, <1>3, <1>4 DEF Emitted, Due, Waiting

LEMMA EmittedIsNatNext == ASSUME EventStreamAssumption, EventTypes'
  PROVE Emitted' \in Nat /\ Due' \in Nat
        /\ Emitted' = Len(stream') + Cardinality(lost') + Cardinality(Waiting')
<1>1. Cardinality(lost') \in Nat
  BY FS_CardinalityType DEF EventTypes
<1>2. Cardinality(Waiting') \in Nat
  BY WaitingIsFinite DEF Waiting
<1>3. Cardinality({l \in Lanes : busy'[l] # 0}) \in Nat
  BY WaitingIsFinite DEF Emitters
<1>4. Len(stream') \in Nat
  BY DEF EventTypes
<1> QED
  BY <1>1, <1>2, <1>3, <1>4 DEF Emitted, Due, Waiting

(* The event that Record gives to e.                                       *)
Numbered(e, r, kind, facts) ==
  [run |-> r, seq |-> journal[r].maxSeq + 1, by |-> e, kind |-> kind, archive |-> facts]

(* What Append and the sink's hold on an event come to.                    *)
Recorded(e, r, kind, facts) ==
  /\ Numbered(e, r, kind, facts) \in Event
  /\ outbox' = [outbox EXCEPT ![e] = Numbered(e, r, kind, facts)] /\ outbox[e] = NoEvent
  /\ e \notin Waiting /\ Waiting' = Waiting \cup {e}
  /\ Published' = Published /\ Known' = Known \cup {Numbered(e, r, kind, facts)}
  /\ EventTypes'
  /\ journal' \in [1..MaxRuns -> [maxSeq : Nat, raw : SUBSET Nat]]
  /\ journal'[r].maxSeq = journal[r].maxSeq + 1
  /\ kind \in {"completed", "result"} => journal'[r].raw = journal[r].raw
  /\ kind \notin {"completed", "result"} => journal'[r].raw = journal[r].raw \cup {journal[r].maxSeq + 1}
  /\ journal'[r].raw \subseteq 1..journal'[r].maxSeq
  /\ \A s \in 1..MaxRuns \ {r} : journal'[s] = journal[s]

(* What Append and the sink's hold on an event come to.                    *)
LEMMA RecordEffect ==
  ASSUME EventStreamAssumption, Types, Numbers, NEW e \in Emitters, NEW r \in 1..MaxRuns,
         NEW kind \in {"started", "step", "result", "completed", "failed"}, NEW facts \in SUBSET (1..MaxEvents),
         Record(e, r, kind, facts), journal[r].maxSeq < MaxEvents, UNCHANGED <<stream, lost>>
  PROVE Recorded(e, r, kind, facts)
<1> DEFINE n == [run |-> r, seq |-> journal[r].maxSeq + 1, by |-> e, kind |-> kind, archive |-> facts]
<1>1. journal[r].maxSeq \in Nat /\ journal[r].raw \subseteq 1..journal[r].maxSeq /\ MaxEvents \in Nat
  BY DEF Types, RunTypes, EventStreamAssumption
<1>2. n \in Event
  BY <1>1 DEF Event, Terminal
<1>3. outbox' = [outbox EXCEPT ![e] = n] /\ outbox[e] = NoEvent
  BY DEF Record
<1>4. outbox \in [Emitters -> Event \cup {NoEvent}]
  BY DEF Types, EventTypes
<1>5. \A d \in Emitters : outbox'[d] = IF d = e THEN n ELSE outbox[d]
  BY <1>3, <1>4
<1>6. n # NoEvent
  BY <1>2, EventFields
<1>7. e \notin Waiting /\ Waiting' = Waiting \cup {e}
  BY <1>3, <1>5, <1>6 DEF Waiting
<1>8. Published' = Published
  BY DEF Published
<1>9. Known' = Known \cup {n}
  <2>1. outbox'[e] = n /\ \A d \in Waiting : outbox'[d] = outbox[d]
    BY <1>5, <1>7 DEF Waiting
  <2> HIDE DEF n
  <2>2. {outbox'[d] : d \in Waiting'} = {outbox[d] : d \in Waiting} \cup {n}
    BY <2>1, <1>7
  <2> QED
    BY <2>2, <1>8 DEF Known
<1>10. EventTypes'
  BY <1>2, <1>3, <1>4 DEF EventTypes, Types
<1>11. journal' = [journal EXCEPT ![r] = [maxSeq |-> n.seq,
         raw |-> IF kind \in {"completed", "result"} THEN journal[r].raw ELSE journal[r].raw \cup {n.seq}]]
  BY DEF Record
<1>12. journal \in [1..MaxRuns -> [maxSeq : Nat, raw : SUBSET Nat]]
  BY DEF Types, RunTypes
<1>13. journal'[r] = [maxSeq |-> n.seq,
         raw |-> IF kind \in {"completed", "result"} THEN journal[r].raw ELSE journal[r].raw \cup {n.seq}]
       /\ \A s \in 1..MaxRuns \ {r} : journal'[s] = journal[s]
  BY <1>11, <1>12
<1>14. journal'[r] \in [maxSeq : Nat, raw : SUBSET Nat] /\ journal'[r].raw \subseteq 1..journal'[r].maxSeq
  BY <1>1, <1>13
<1>15. journal' \in [1..MaxRuns -> [maxSeq : Nat, raw : SUBSET Nat]]
  BY <1>11, <1>12, <1>13, <1>14
<1> HIDE DEF n
<1>16. n.seq = journal[r].maxSeq + 1
  BY DEF n
<1> QED
  BY <1>2, <1>3, <1>7, <1>8, <1>9, <1>10, <1>13, <1>14, <1>15, <1>16 DEF n, Numbered, Recorded

LEMMA PublishEffect ==
  ASSUME EventStreamAssumption, Types, Numbers, NEW e \in Emitters, Publish(e)
  PROVE /\ outbox[e] \in Event /\ outbox[e] \notin lost
        /\ outbox' = [outbox EXCEPT ![e] = NoEvent]
        /\ e \in Waiting /\ Waiting' = Waiting \ {e}
        /\ Published' = Published \cup {outbox[e]}
        /\ Known' = Known
        /\ EventTypes'
        /\ \/ stream' = Append(stream, outbox[e]) /\ lost' = lost
           \/ lost' = lost \cup {outbox[e]} /\ stream' = stream
<1> DEFINE x == outbox[e]
<1>1. outbox \in [Emitters -> Event \cup {NoEvent}] /\ stream \in Seq(Event) /\ lost \subseteq Event /\ IsFiniteSet(lost)
  BY DEF Types, EventTypes
<1>2. x \in Event /\ e \in Waiting
  BY <1>1 DEF Publish, Waiting
<1>3. x \notin lost
  BY <1>2 DEF Numbers, Published
<1>4. outbox' = [outbox EXCEPT ![e] = NoEvent]
  BY DEF Publish
<1>5. \A d \in Emitters : outbox'[d] = IF d = e THEN NoEvent ELSE outbox[d]
  BY <1>1, <1>4
<1>6. Waiting' = Waiting \ {e}
  BY <1>5 DEF Waiting
<1>7. \/ stream' = Append(stream, x) /\ lost' = lost
      \/ lost' = lost \cup {x} /\ stream' = stream
  BY DEF Publish
<1> HIDE DEF x
<1>8. Published' = Published \cup {x}
  <2>1. CASE stream' = Append(stream, x) /\ lost' = lost
    BY <2>1, <1>1, <1>2, RangeOfAppend DEF Published
  <2>2. CASE lost' = lost \cup {x} /\ stream' = stream
    BY <2>2 DEF Published
  <2> QED
    BY <1>7, <2>1, <2>2
<1>9. Known' = Known
  <2>1. {outbox'[d] : d \in Waiting'} = {outbox[d] : d \in Waiting \ {e}}
    BY <1>5, <1>6 DEF Waiting
  <2>2. {outbox[d] : d \in Waiting} = {outbox[d] : d \in Waiting \ {e}} \cup {x}
    BY <1>2 DEF x
  <2> QED
    BY <1>8, <2>1, <2>2 DEF Known
<1>10. EventTypes'
  <2>1. outbox' \in [Emitters -> Event \cup {NoEvent}]
    BY <1>1, <1>4
  <2>2. CASE stream' = Append(stream, x) /\ lost' = lost
    BY <2>1, <2>2, <1>1, <1>2, RangeOfAppend DEF EventTypes
  <2>3. CASE lost' = lost \cup {x} /\ stream' = stream
    BY <2>1, <2>3, <1>1, <1>2, FS_AddElement DEF EventTypes
  <2> QED
    BY <1>7, <2>2, <2>3
<1> QED
  BY <1>2, <1>3, <1>4, <1>6, <1>7, <1>8, <1>9, <1>10 DEF x

(* There is room for one more event.                                       *)
HasRoom == \E d \in Nat : Due' = d /\ Emitted + d < MaxEvents

(* The runs go on, and r is one of them.                                   *)
Onward(r) ==
  \E k \in 0..MaxRuns :
    /\ number' = k /\ number <= k /\ r <= k
    /\ \A l \in Lanes : busy'[l] <= k

LEMMA RecordCounts ==
  ASSUME EventStreamAssumption, Types, Counts, Numbers, NEW e \in Emitters, NEW r \in 1..MaxRuns,
         NEW kind \in {"started", "step", "result", "completed", "failed"}, NEW facts \in SUBSET (1..MaxEvents),
         Record(e, r, kind, facts), UNCHANGED <<stream, lost>>, HasRoom
  PROVE Counts' /\ journal[r].maxSeq < MaxEvents
<1>1. Emitted \in Nat /\ MaxEvents \in Nat /\ Emitted = Len(stream) + Cardinality(lost) + Cardinality(Waiting)
      /\ Len(stream) \in Nat /\ Cardinality(lost) \in Nat /\ Cardinality(Waiting) \in Nat
  BY EmittedIsNat, WaitingIsFinite, FS_CardinalityType DEF Types, EventStreamAssumption, Waiting, EventTypes
<1>2. \A s \in 1..MaxRuns : journal[s].maxSeq \in Nat /\ journal[s].maxSeq <= Emitted
  BY DEF Counts, Types, RunTypes
<1>d. PICK d \in Nat : Due' = d /\ Emitted + d < MaxEvents
  BY DEF HasRoom
<1>3. journal[r].maxSeq < MaxEvents
  BY <1>1, <1>2, <1>d
<1>40. Recorded(e, r, kind, facts)
  BY <1>3, RecordEffect
<1>4. /\ Numbered(e, r, kind, facts) \in Event
      /\ e \notin Waiting /\ Waiting' = Waiting \cup {e} /\ EventTypes'
      /\ journal'[r].maxSeq = journal[r].maxSeq + 1
      /\ \A s \in 1..MaxRuns \ {r} : journal'[s] = journal[s]
  BY <1>40 DEF Recorded
<1>5. Cardinality(Waiting') = Cardinality(Waiting) + 1
  <2>1. IsFiniteSet(Waiting)
    BY WaitingIsFinite DEF Waiting
  <2> QED
    BY <2>1, <1>4, FS_AddElement
<1>6. Emitted' = Emitted + 1
  BY <1>1, <1>4, <1>5, EmittedIsNatNext
<1>7. Emitted' + Due' <= MaxEvents
  BY <1>1, <1>6, <1>d
<1>8. ASSUME NEW s \in 1..MaxRuns PROVE journal'[s].maxSeq <= Emitted'
  <2>1. CASE s = r
    BY <2>1, <1>1, <1>2, <1>4, <1>6
  <2>2. CASE s # r
    BY <2>2, <1>1, <1>2, <1>4, <1>6
  <2> QED
    BY <2>1, <2>2
<1> QED
  BY <1>3, <1>7, <1>8 DEF Counts

LEMMA RecordKeeps ==
  ASSUME EventStreamAssumption, Types, Counts, Numbers, NEW e \in Emitters, NEW r \in 1..MaxRuns,
         NEW kind \in {"started", "step", "result", "completed", "failed"}, NEW facts \in SUBSET (1..MaxEvents),
         Record(e, r, kind, facts), UNCHANGED <<stream, lost>>,
         HasRoom, Onward(r)
  PROVE /\ EventTypes' /\ Counts' /\ Numbers'
        /\ journal' \in [1..MaxRuns -> [maxSeq : Nat, raw : SUBSET Nat]]
        /\ \A s \in 1..MaxRuns : journal'[s].raw \subseteq 1..journal'[s].maxSeq
        /\ outbox[e] = NoEvent
<1> DEFINE n == Numbered(e, r, kind, facts)
<1>1. PICK k \in Nat : number' = k /\ number <= k /\ r <= k /\ \A l \in Lanes : busy'[l] <= k
  BY DEF Onward, EventStreamAssumption
<1>01. number \in Nat
  BY DEF Types, RunTypes
<1>2. \A s \in 1..MaxRuns : journal[s].maxSeq \in Nat /\ journal[s].raw \subseteq 1..journal[s].maxSeq
  BY DEF Types, RunTypes
<1>3. Counts' /\ journal[r].maxSeq < MaxEvents
  BY RecordCounts
<1>40. Recorded(e, r, kind, facts)
  BY <1>3, RecordEffect
<1>4. /\ n \in Event
      /\ outbox' = [outbox EXCEPT ![e] = n] /\ outbox[e] = NoEvent
      /\ e \notin Waiting /\ Waiting' = Waiting \cup {e}
      /\ Published' = Published /\ Known' = Known \cup {n}
      /\ EventTypes'
      /\ journal' \in [1..MaxRuns -> [maxSeq : Nat, raw : SUBSET Nat]]
      /\ journal'[r].maxSeq = journal[r].maxSeq + 1
      /\ journal'[r].raw \subseteq 1..journal'[r].maxSeq
      /\ \A s \in 1..MaxRuns \ {r} : journal'[s] = journal[s]
  BY <1>40 DEF Recorded
<1>5. n.run = r /\ n.seq = journal[r].maxSeq + 1 /\ n.by = e
  BY DEF Numbered
<1> HIDE DEF n
<1>41. ASSUME NEW s \in 1..MaxRuns
       PROVE /\ journal'[s].maxSeq \in Nat /\ journal[s].maxSeq <= journal'[s].maxSeq
             /\ journal'[s].maxSeq <= journal[s].maxSeq + 1
  <2>1. CASE s = r
    BY <2>1, <1>2, <1>4
  <2>2. CASE s \in 1..MaxRuns \ {r}
    BY <2>2, <1>2, <1>4
  <2> QED
    BY <2>1, <2>2
<1>9. \A f \in Known : f \in Event
  BY DEF Types, EventTypes, Known, Published, Waiting, ToSet
<1>10. \A f \in Known : f.run \in 1..MaxRuns /\ f.seq \in Nat /\ f.seq <= journal[f.run].maxSeq /\ f.run <= number
  BY <1>9, EventFields DEF Numbers
<1>11. \A f \in Known' : f.seq <= journal'[f.run].maxSeq /\ f.run <= k
  <2> SUFFICES ASSUME NEW f \in Known' PROVE f.seq <= journal'[f.run].maxSeq /\ f.run <= k
    OBVIOUS
  <2>1. CASE f = n
    BY <2>1, <1>1, <1>2, <1>4, <1>5
  <2>2. CASE f \in Known
    <3>1. journal[f.run].maxSeq <= journal'[f.run].maxSeq /\ journal'[f.run].maxSeq \in Nat
      BY <1>10, <1>41, <2>2
    <3> QED
      BY <3>1, <1>1, <1>01, <1>10, <1>2, <2>2
  <2> QED
    BY <2>1, <2>2, <1>4
<1>12. \A f \in Known : f.run = r => f.seq < n.seq
  BY <1>10, <1>5, <1>2
<1>13. Published \subseteq Known /\ \A d \in Waiting : outbox[d] \in Known /\ d # e /\ d \in Emitters
  BY <1>4 DEF Known, Waiting
<1>14. \A d \in Waiting : outbox'[d] = outbox[d]
  BY <1>13, <1>4 DEF Types, EventTypes
<1>15. outbox'[e] = n
  BY <1>4 DEF Types, EventTypes
<1>16. ASSUME NEW d \in Waiting'
       PROVE /\ outbox'[d].by = d
             /\ \A f \in Published' : f.run = outbox'[d].run => f.seq # outbox'[d].seq
             /\ \A c \in Waiting' \ {d} : outbox'[c].run = outbox'[d].run => outbox'[c].seq # outbox'[d].seq
  <2>1. CASE d = e
    <3>1. \A f \in Published' : f.run = n.run => f.seq # n.seq
      BY <1>4, <1>12, <1>13, <1>10, <1>5, <1>2
    <3>2. \A c \in Waiting' \ {e} : outbox'[c].run = n.run => outbox'[c].seq # n.seq
      BY <1>4, <1>12, <1>13, <1>14, <1>10, <1>5, <1>2
    <3> QED
      BY <2>1, <3>1, <3>2, <1>15, <1>5
  <2>2. CASE d \in Waiting
    <3>1. outbox'[d] = outbox[d] /\ outbox[d].by = d
      BY <2>2, <1>14 DEF Numbers
    <3>2. \A f \in Published' : f.run = outbox[d].run => f.seq # outbox[d].seq
      BY <2>2, <1>4 DEF Numbers
    <3>3. ASSUME NEW c \in Waiting' \ {d}, outbox'[c].run = outbox'[d].run
          PROVE outbox'[c].seq # outbox'[d].seq
      <4>1. CASE c = e
        BY <4>1, <3>1, <3>3, <2>2, <1>15, <1>13, <1>12, <1>10, <1>5, <1>2
      <4>2. CASE c \in Waiting
        BY <4>2, <3>1, <3>3, <2>2, <1>14 DEF Numbers
      <4> QED
        BY <4>1, <4>2, <1>4
    <3> QED
      BY <3>1, <3>2, <3>3
  <2> QED
    BY <2>1, <2>2, <1>4
<1>17. Numbers'
  <2> QED
    BY <1>1, <1>11, <1>16 DEF Numbers
<1>18. \A s \in 1..MaxRuns : journal'[s].raw \subseteq 1..journal'[s].maxSeq
  BY <1>4, <1>2
<1> QED
  BY <1>3, <1>4, <1>17, <1>18

Calling == {l \in Lanes : busy[l] # 0}

LEMMA DueIs == ASSUME EventStreamAssumption
  PROVE /\ IsFiniteSet(Calling) /\ Cardinality(Calling) \in Nat
        /\ Due = Cardinality(Calling) + (IF UnderWay THEN 1 ELSE 0)
        /\ IsFiniteSet(Calling') /\ Cardinality(Calling') \in Nat
        /\ Due' = Cardinality(Calling') + (IF UnderWay' THEN 1 ELSE 0)
        /\ Due \in Nat /\ Due' \in Nat
<1>1. IsFiniteSet(Calling) /\ Cardinality(Calling) \in Nat
  BY WaitingIsFinite DEF Calling, Emitters
<1>2. IsFiniteSet(Calling') /\ Cardinality(Calling') \in Nat
  BY WaitingIsFinite DEF Calling, Emitters
<1> QED
  BY <1>1, <1>2 DEF Due, Calling

LEMMA SameCalls == ASSUME EventStreamAssumption, busy' = busy
  PROVE /\ phase' = phase => Due' = Due
        /\ UnderWay' = UnderWay => Due' = Due
        /\ ~UnderWay /\ UnderWay' => Due' = Due + 1
        /\ UnderWay /\ ~UnderWay' => Due' = Due - 1
<1>1. Calling' = Calling
  BY DEF Calling
<1> QED
  BY <1>1, DueIs DEF UnderWay

LEMMA StartRunKeepsNumbers == ASSUME EventStreamAssumption, IInv1, StartRun PROVE IInv1'
<1>1. Types /\ Counts /\ Numbers
  BY DEF IInv1
<1>2. number' = number + 1 /\ number < MaxRuns /\ number \in Nat /\ MaxRuns \in Nat
      /\ "main" \in Emitters
  BY <1>1 DEF StartRun, Types, RunTypes, EventStreamAssumption, Emitters
<1>3. busy' = busy /\ phase = "idle" /\ phase' \in {"running", "failing"}
  BY DEF StartRun, MainAt
<1>4. Due' = Due + 1 /\ Due \in Nat /\ Emitted \in Nat /\ Emitted + Due + 2 <= MaxEvents /\ MaxEvents \in Nat
  BY <1>1, <1>3, SameCalls, EmittedIsNat DEF StartRun, RoomFor, Types, EventStreamAssumption, UnderWay
<1>5. ViewTypes' /\ archive' \subseteq 1..MaxEvents /\ number' \in 0..MaxRuns /\ busy' \in [Lanes -> 0..MaxRuns]
  BY <1>1, <1>2 DEF StartRun, viewing, Types, ViewTypes, RunTypes
<1>6. CASE phase' = "running" /\ Record("main", number + 1, "started", {})
  <2>1. /\ EventTypes' /\ Counts' /\ Numbers'
        /\ journal' \in [1..MaxRuns -> [maxSeq : Nat, raw : SUBSET Nat]]
        /\ \A s \in 1..MaxRuns : journal'[s].raw \subseteq 1..journal'[s].maxSeq
    <3>1. number + 1 \in 1..MaxRuns /\ HasRoom
      BY <1>2, <1>4 DEF HasRoom
    <3>4. Onward(number + 1)
      BY <1>1, <1>2, <1>3 DEF Numbers, Types, RunTypes, Onward
    <3>2. UNCHANGED <<stream, lost>>
      BY DEF StartRun
    <3> QED
      BY <1>1, <1>2, <1>6, <3>1, <3>2, <3>4, RecordKeeps
  <2> QED
    BY <2>1, <1>2, <1>3, <1>5 DEF IInv1, Types, RunTypes
<1>7. CASE phase' = "failing" /\ UNCHANGED <<journal, outbox>>
  <2>1. Emitted' = Emitted /\ Waiting' = Waiting /\ Known' = Known /\ Published' = Published
    BY <1>7 DEF StartRun, Emitted, Waiting, Known, Published
  <2>2. Counts'
    BY <1>1, <1>4, <1>7, <2>1 DEF Counts
  <2>3. Numbers'
    <3>1. \A f \in Known : f.run <= number'
      <4>1. \A f \in Known : f.run \in Nat
        BY <1>1, EventFields DEF Types, EventTypes, Known, Published, Waiting, ToSet
      <4> QED
        BY <4>1, <1>1, <1>2 DEF Numbers
    <3> QED
      <4>1. \A l \in Lanes : busy'[l] <= number'
        BY <1>1, <1>2, <1>3 DEF Numbers, Types, RunTypes
      <4> QED
        BY <4>1, <3>1, <1>1, <1>7, <2>1 DEF Numbers
  <2>4. EventTypes'
    BY <1>1, <1>7 DEF EventTypes, Types, StartRun
  <2> QED
    BY <2>2, <2>3, <2>4, <1>1, <1>2, <1>3, <1>5, <1>7 DEF IInv1, Types, RunTypes
<1> QED
  BY <1>6, <1>7 DEF StartRun

LEMMA RunHasRoom ==
  ASSUME EventStreamAssumption, IInv1, busy' = busy,
         \/ UnderWay /\ ~UnderWay'
         \/ UnderWay' = UnderWay /\ RoomFor(1)
         \/ ~UnderWay /\ UnderWay' /\ RoomFor(2)
  PROVE HasRoom
<1>1. Emitted \in Nat /\ Due \in Nat /\ MaxEvents \in Nat /\ Emitted + Due <= MaxEvents
  BY EmittedIsNat, DueIs DEF IInv1, Types, Counts, EventStreamAssumption
<1>2. CASE UnderWay /\ ~UnderWay'
  <2>1. Due' = Due - 1 /\ Due' \in Nat
    BY <1>2, SameCalls, DueIs
  <2>2. Due - 1 \in Nat /\ Emitted + (Due - 1) < MaxEvents
    BY <1>1, <2>1
  <2> QED
    BY <2>1, <2>2 DEF HasRoom
<1>3. CASE UnderWay' = UnderWay /\ RoomFor(1)
  <2>1. Due' = Due
    BY <1>3, SameCalls
  <2>2. Emitted + Due < MaxEvents
    BY <1>1, <1>3 DEF RoomFor
  <2> QED
    BY <1>1, <2>1, <2>2 DEF HasRoom
<1>4. CASE ~UnderWay /\ UnderWay' /\ RoomFor(2)
  <2>1. Due' = Due + 1
    BY <1>4, SameCalls
  <2>2. Due + 1 \in Nat /\ Emitted + (Due + 1) < MaxEvents
    BY <1>1, <1>4 DEF RoomFor
  <2> QED
    BY <2>1, <2>2 DEF HasRoom
<1> QED
  BY <1>2, <1>3, <1>4

(* A step of the current run that records an event.                        *)
LEMMA RunRecordKeepsNumbers ==
  ASSUME EventStreamAssumption, IInv1, number \in 1..MaxRuns, number' = number, busy' = busy,
         UNCHANGED <<stream, lost, viewing>>, archive' \subseteq 1..MaxEvents,
         phase' \in {"idle", "running", "answered", "completing", "failing", "learning"},
         NEW kind \in {"started", "step", "result", "completed", "failed"}, NEW facts \in SUBSET (1..MaxEvents),
         Record("main", number, kind, facts), HasRoom
  PROVE IInv1'
<1>1. Types /\ Counts /\ Numbers
  BY DEF IInv1
<1>2. number \in 1..MaxRuns /\ number' \in 0..MaxRuns /\ "main" \in Emitters
  BY <1>1 DEF Types, RunTypes, Emitters
<1>4. /\ EventTypes' /\ Counts' /\ Numbers'
      /\ journal' \in [1..MaxRuns -> [maxSeq : Nat, raw : SUBSET Nat]]
      /\ \A s \in 1..MaxRuns : journal'[s].raw \subseteq 1..journal'[s].maxSeq
  <2>1. Onward(number)
    BY <1>1, <1>2 DEF Numbers, Onward
  <2> QED
    BY <2>1, <1>1, <1>2, RecordKeeps
<1> QED
  BY <1>1, <1>2, <1>4 DEF IInv1, Types, RunTypes, ViewTypes, viewing

LEMMA ToolKeepsNumbers ==
  ASSUME EventStreamAssumption, IInv1, NEW l \in Lanes, StartTool(l) \/ EndTool(l)
  PROVE IInv1'
<1>1. Types /\ Counts /\ Numbers
  BY DEF IInv1
<1>2. Emitted \in Nat /\ Due \in Nat /\ Due' \in Nat /\ MaxEvents \in Nat /\ Emitted + Due <= MaxEvents
  BY <1>1, EmittedIsNat, DueIs DEF Types, Counts, EventStreamAssumption
<1>3. /\ l \in Emitters /\ number' = number /\ phase' = phase /\ archive' = archive
      /\ UNCHANGED <<stream, lost, viewing>>
  BY DEF StartTool, EndTool, Emitters, lifecycle
<1>4. PICK r \in 1..MaxRuns : Record(l, r, "step", {}) /\ r <= number /\ busy' \in [Lanes -> 0..MaxRuns]
                              /\ HasRoom
  <2>1. CASE StartTool(l)
    <3>1. number \in 1..MaxRuns /\ busy[l] = 0 /\ busy' = [busy EXCEPT ![l] = number]
      BY <1>1, <2>1 DEF StartTool, MainAt, Types, RunTypes
    <3>2. Calling' = Calling \cup {l} /\ l \notin Calling
      BY <1>1, <3>1 DEF Calling, Types, RunTypes
    <3>3. Due' = Due + 1
      <4>1. Cardinality(Calling') = Cardinality(Calling) + 1
        BY <3>2, DueIs, FS_AddElement
      <4>2. /\ Due = Cardinality(Calling) + (IF UnderWay THEN 1 ELSE 0)
            /\ Due' = Cardinality(Calling') + (IF UnderWay THEN 1 ELSE 0)
        BY <1>3, DueIs DEF UnderWay
      <4> QED
        BY <4>1, <4>2, DueIs
    <3> QED
      BY <1>1, <1>2, <2>1, <3>1, <3>3 DEF StartTool, RoomFor, Types, RunTypes, HasRoom
  <2>2. CASE EndTool(l)
    <3>1. busy[l] \in 1..MaxRuns /\ busy' = [busy EXCEPT ![l] = 0]
      BY <1>1, <2>2 DEF EndTool, Types, RunTypes
    <3>2. Calling' = Calling \ {l} /\ l \in Calling
      BY <1>1, <3>1 DEF Calling, Types, RunTypes
    <3>3. Due' = Due - 1 /\ Due - 1 \in Nat
      <4>1. Calling # {} /\ IsFiniteSet(Calling)
        BY <3>2, DueIs
      <4>2. Cardinality(Calling') = Cardinality(Calling) - 1
        BY <3>2, <4>1, FS_RemoveElement
      <4>3. Cardinality(Calling) \in Nat /\ Cardinality(Calling) # 0
        BY <4>1, FS_CardinalityType, FS_EmptySet
      <4>4. /\ Due = Cardinality(Calling) + (IF UnderWay THEN 1 ELSE 0)
            /\ Due' = Cardinality(Calling') + (IF UnderWay THEN 1 ELSE 0)
        BY <1>3, DueIs DEF UnderWay
      <4> QED
        BY <4>2, <4>3, <4>4
    <3>4. busy[l] <= number /\ busy' \in [Lanes -> 0..MaxRuns]
      <4>1. 0 \in 0..MaxRuns
        BY DEF EventStreamAssumption
      <4> QED
        BY <1>1, <3>1, <4>1 DEF Numbers, Types, RunTypes
    <3>5. HasRoom
      <4>1. Emitted + (Due - 1) < MaxEvents
        BY <1>2
      <4> QED
        BY <3>3, <4>1 DEF HasRoom
    <3>6. Record(l, busy[l], "step", {})
      BY <2>2 DEF EndTool
    <3> QED
      BY <3>1, <3>4, <3>5, <3>6
  <2> QED
    BY <2>1, <2>2
<1>5. /\ EventTypes' /\ Counts' /\ Numbers'
      /\ journal' \in [1..MaxRuns -> [maxSeq : Nat, raw : SUBSET Nat]]
      /\ \A s \in 1..MaxRuns : journal'[s].raw \subseteq 1..journal'[s].maxSeq
  <2>1. number \in 0..MaxRuns /\ number' = number /\ r <= number /\ number <= number
    BY <1>1, <1>3, <1>4 DEF Types, RunTypes
  <2>2. ASSUME NEW m \in Lanes PROVE busy'[m] <= number
    BY <1>1, <2>1 DEF StartTool, EndTool, Numbers, Types, RunTypes
  <2>3. Onward(r)
    BY <2>1, <2>2 DEF Onward
  <2> QED
    BY <1>1, <1>2, <1>3, <1>4, <2>3, RecordKeeps
<1> QED
  BY <1>1, <1>3, <1>4, <1>5 DEF IInv1, Types, RunTypes, ViewTypes, viewing

LEMMA PublishKeepsNumbers ==
  ASSUME EventStreamAssumption, IInv1, NEW e \in Emitters, Publish(e)
  PROVE IInv1'
<1>1. Types /\ Counts /\ Numbers
  BY DEF IInv1
<1>2. /\ outbox[e] \in Event /\ outbox[e] \notin lost
      /\ outbox' = [outbox EXCEPT ![e] = NoEvent]
      /\ e \in Waiting /\ Waiting' = Waiting \ {e}
      /\ Published' = Published \cup {outbox[e]}
      /\ Known' = Known
      /\ EventTypes'
      /\ \/ stream' = Append(stream, outbox[e]) /\ lost' = lost
         \/ lost' = lost \cup {outbox[e]} /\ stream' = stream
  BY <1>1, PublishEffect
<1>3. UNCHANGED <<lifecycle, journal, busy, viewing>>
  BY DEF Publish
<1>4. RunTypes' /\ ViewTypes'
  BY <1>1, <1>3 DEF Types, RunTypes, ViewTypes, lifecycle, viewing
<1>5. Emitted' = Emitted
  <2>1. IsFiniteSet(Waiting) /\ IsFiniteSet(lost) /\ stream \in Seq(Event)
    BY <1>1, WaitingIsFinite DEF Waiting, Types, EventTypes
  <2>2. PICK w \in Nat : Cardinality(Waiting) = w /\ Cardinality(Waiting') = w - 1
    BY <1>2, <2>1, FS_RemoveElement, FS_CardinalityType
  <2>3. PICK k \in Nat : Cardinality(lost) = k
    BY <2>1, FS_CardinalityType
  <2>4. Emitted = Len(stream) + k + w /\ Len(stream) \in Nat
    BY <1>1, <2>1, <2>2, <2>3, EmittedIsNat DEF Types
  <2>5. Emitted' = Len(stream') + Cardinality(lost') + (w - 1)
    BY <1>2, <2>2, EmittedIsNatNext
  <2>6. CASE stream' = Append(stream, outbox[e]) /\ lost' = lost
    <3>1. Len(stream') = Len(stream) + 1
      BY <1>2, <2>1, <2>6, RangeOfAppend
    <3> QED
      BY <2>3, <2>4, <2>5, <2>6, <3>1
  <2>7. CASE lost' = lost \cup {outbox[e]} /\ stream' = stream
    <3>1. Cardinality(lost') = k + 1
      BY <1>2, <2>1, <2>3, <2>7, FS_AddElement
    <3> QED
      BY <2>4, <2>5, <2>7, <3>1
  <2> QED
    BY <1>2, <2>6, <2>7
<1>6. Counts'
  <2>1. Due' = Due
    BY <1>3, SameCalls DEF lifecycle
  <2> QED
    BY <1>1, <1>3, <1>5, <2>1 DEF Counts
<1>7. Numbers'
  <2>1. \A d \in Waiting' : outbox'[d] = outbox[d] /\ d \in Waiting /\ d # e
    BY <1>1, <1>2 DEF Types, EventTypes, Waiting
  <2>2. \A f \in Known' : f.seq <= journal'[f.run].maxSeq /\ f.run <= number'
    BY <1>1, <1>2, <1>3 DEF Numbers, lifecycle
  <2>3. ASSUME NEW d \in Waiting'
        PROVE /\ outbox'[d].by = d
              /\ \A f \in Published' : f.run = outbox'[d].run => f.seq # outbox'[d].seq
              /\ \A c \in Waiting' \ {d} : outbox'[c].run = outbox'[d].run => outbox'[c].seq # outbox'[d].seq
    BY <1>1, <1>2, <2>1 DEF Numbers
  <2>4. \A l \in Lanes : busy'[l] <= number'
    BY <1>1, <1>3 DEF Numbers, lifecycle
  <2> QED
    BY <2>2, <2>3, <2>4 DEF Numbers
<1> QED
  BY <1>2, <1>4, <1>6, <1>7 DEF IInv1, Types

LEMMA TakeArchiveKeepsNumbers == ASSUME EventStreamAssumption, IInv1, TakeArchive PROVE IInv1'
<1>1. Types /\ Counts /\ Numbers
  BY DEF IInv1
<1>2. /\ UNCHANGED <<number, journal, busy, outbox, stream, lost, viewing>>
      /\ phase \in {"running", "answered"} /\ phase' \in {"completing", "failing"}
      /\ archive' = journal[number].raw
  BY DEF TakeArchive, MainAt
<1>3. Due' = Due /\ Emitted' = Emitted /\ Known' = Known /\ Published' = Published /\ Waiting' = Waiting
  BY <1>2, SameCalls DEF Emitted, Known, Published, Waiting, UnderWay
<1>4. archive' \subseteq 1..MaxEvents
  <2>1. number \in 1..MaxRuns /\ MaxEvents \in Nat
    BY <1>1, <1>2 DEF Types, RunTypes, EventStreamAssumption
  <2>2. Emitted <= MaxEvents /\ Emitted \in Nat
    BY <1>1, <2>1, EmittedIsNat DEF Types, Counts
  <2>3. PICK m \in Nat : journal[number].maxSeq = m /\ m <= Emitted /\ archive' \subseteq 1..m
    BY <1>1, <1>2, <2>1 DEF Types, RunTypes, Counts
  <2> QED
    BY <2>1, <2>2, <2>3
<1>5. Types'
  BY <1>1, <1>2, <1>4 DEF Types, RunTypes, EventTypes, ViewTypes, viewing
<1>6. Counts'
  BY <1>1, <1>2, <1>3 DEF Counts
<1>7. Numbers'
  BY <1>1, <1>2, <1>3 DEF Numbers
<1> QED
  BY <1>5, <1>6, <1>7 DEF IInv1

LEMMA LastIsIn == ASSUME EventStreamAssumption, NEW v \in Viewers, ViewTypes
  PROVE /\ LastSequence(v) \in 0..MaxEvents
        /\ LastSequence(v) = IF Len(got[v]) = 0 THEN 0 ELSE got[v][Len(got[v])].seq
        /\ Len(got[v]) # 0 => got[v][Len(got[v])] \in Event /\ LastSequence(v) # 0
<1>1. got[v] \in Seq(Event) /\ Len(got[v]) \in Nat /\ (got[v] = <<>> <=> Len(got[v]) = 0)
  BY DEF ViewTypes
<1>2. Len(got[v]) # 0 => got[v][Len(got[v])] \in Event
  BY <1>1
<1> QED
  <2>1. 0 \in 0..MaxEvents /\ 1..MaxEvents \subseteq 0..MaxEvents /\ 0 \notin 1..MaxEvents
    BY DEF EventStreamAssumption
  <2> QED
    BY <2>1, <1>1, <1>2, EventFields DEF LastSequence, Last

(* What the subscription's handler does with an event.                     *)
LEMMA HandleEffect ==
  ASSUME conn \in [Viewers -> Connection], missed \in [Viewers -> SUBSET Event],
         NEW v \in Viewers, NEW e \in Event, NEW next \in Nat \ {0}, Handle(v, e, next)
  PROVE /\ conn' \in [Viewers -> Connection] /\ missed' \in [Viewers -> SUBSET Event]
        /\ \A w \in Viewers : w # v => conn'[w] = conn[w] /\ missed'[w] = missed[w]
        /\ conn'[v].open = conn[v].open /\ conn'[v].from = conn[v].from
        /\ conn'[v].join = conn[v].join /\ conn'[v].next = next
        /\ \/ /\ Wanted(v, e) /\ Fits(v)
              /\ conn'[v].queue = Append(conn[v].queue, e) /\ missed'[v] = missed[v]
           \/ /\ Wanted(v, e) /\ ~Fits(v)
              /\ conn'[v].queue = conn[v].queue /\ missed'[v] = missed[v] \cup {e}
           \/ ~Wanted(v, e) /\ conn'[v].queue = conn[v].queue /\ missed'[v] = missed[v]
<1>1. conn[v] \in Connection /\ missed[v] \in SUBSET Event /\ conn[v].queue \in Seq(Event)
  BY DEF Connection
<1>2. PICK q \in Seq(Event) : q = IF Wanted(v, e) /\ Fits(v) THEN Append(conn[v].queue, e) ELSE conn[v].queue
  <2>1. Append(conn[v].queue, e) \in Seq(Event)
    BY <1>1
  <2> QED
    BY <1>1, <2>1
<1>3. PICK m \in SUBSET Event : m = IF Wanted(v, e) /\ ~Fits(v) THEN missed[v] \cup {e} ELSE missed[v]
  BY <1>1
<1>4. PICK c \in Connection : c = [conn[v] EXCEPT !.next = next, !.queue = q]
  BY <1>1 DEF Connection
<1>5. conn' = [conn EXCEPT ![v] = c]
  BY <1>2, <1>4 DEF Handle
<1>6. missed' = [missed EXCEPT ![v] = m]
  BY <1>3 DEF Handle
<1>7. /\ c.open = conn[v].open /\ c.from = conn[v].from /\ c.join = conn[v].join
      /\ c.next = next /\ c.queue = q
  BY <1>1, <1>4 DEF Connection
<1>8. conn'[v] = c /\ missed'[v] = m
  BY <1>5, <1>6
<1>9. /\ conn' \in [Viewers -> Connection] /\ missed' \in [Viewers -> SUBSET Event]
      /\ \A w \in Viewers : w # v => conn'[w] = conn[w] /\ missed'[w] = missed[w]
  BY <1>5, <1>6
<1> QED
  BY <1>2, <1>3, <1>7, <1>8, <1>9

LEMMA ViewTypesKept ==
  ASSUME EventStreamAssumption, Types, NEW v \in Viewers, ViewerStep(v)
  PROVE ViewTypes' /\ UNCHANGED <<lifecycle, journal, busy, outbox, stream, lost>>
<1>1. /\ conn \in [Viewers -> Connection] /\ got \in [Viewers -> Seq(Event)]
      /\ leaves \in [Viewers -> 0..MaxLeaves] /\ missed \in [Viewers -> SUBSET Event]
      /\ again \in [Viewers -> SUBSET Event] /\ stream \in Seq(Event) /\ MaxLeaves \in Nat
  BY DEF Types, ViewTypes, EventTypes, EventStreamAssumption
<1>2. conn[v] \in Connection /\ got[v] \in Seq(Event) /\ leaves[v] \in 0..MaxLeaves /\ missed[v] \subseteq Event
  BY <1>1
<1>3. CASE Connect(v)
  <2>1. PICK c \in Connection : conn' = [conn EXCEPT ![v] = c]
    <3>1. LastSequence(v) \in 0..MaxEvents
      BY LastIsIn DEF Types
    <3>2. Len(stream) + 1 \in Nat \ {0}
      BY <1>1
    <3>3. StartOf(LastSequence(v), Len(stream) + 1) \in Nat \ {0}
      BY <3>2 DEF StartOf
    <3>4. [open |-> TRUE, from |-> LastSequence(v), queue |-> <<>>,
           next |-> StartOf(LastSequence(v), Len(stream) + 1),
           join |-> IF LastSequence(v) = 0 THEN Len(stream) + 1 ELSE conn[v].join] \in Connection
      BY <1>2, <3>1, <3>2, <3>3 DEF Connection
    <3> QED
      BY <1>1, <1>3, <3>4 DEF Connect
  <2> QED
    <3>1. UNCHANGED <<lifecycle, journal, busy, outbox, stream, lost, got, leaves, missed, again>>
      BY <1>3 DEF Connect
    <3>2. conn' \in [Viewers -> Connection]
      BY <1>1, <2>1
    <3> QED
      BY <1>1, <3>1, <3>2 DEF ViewTypes
<1>4. CASE Deliver(v)
  <2>1. stream[conn[v].next] \in Event /\ conn[v].next + 1 \in Nat \ {0}
    BY <1>1, <1>2, <1>4 DEF Deliver, Connection
  <2>2. Handle(v, stream[conn[v].next], conn[v].next + 1)
        /\ UNCHANGED <<lifecycle, journal, busy, outbox, stream, lost, got, leaves, again>>
    BY <1>4 DEF Deliver
  <2>3. conn' \in [Viewers -> Connection] /\ missed' \in [Viewers -> SUBSET Event]
    BY <1>1, <2>1, <2>2, HandleEffect
  <2> QED
    BY <1>1, <2>2, <2>3 DEF ViewTypes
<1>a. CASE Redeliver(v)
  <2>1. PICK i \in 1..Len(stream) :
          again' = [again EXCEPT ![v] = @ \cup {stream[i]}] /\ Handle(v, stream[i], conn[v].next)
    BY <1>a DEF Redeliver
  <2>2. stream[i] \in Event
    BY <1>1
  <2>3. conn[v].next \in Nat \ {0}
    BY <1>2 DEF Connection
  <2>4. conn' \in [Viewers -> Connection] /\ missed' \in [Viewers -> SUBSET Event]
    BY <1>1, <2>1, <2>2, <2>3, HandleEffect
  <2>5. again' \in [Viewers -> SUBSET Event]
    BY <1>1, <2>1, <2>2
  <2>6. UNCHANGED <<lifecycle, journal, busy, outbox, stream, lost, got, leaves>>
    BY <1>a DEF Redeliver
  <2> QED
    BY <1>1, <2>4, <2>5, <2>6 DEF ViewTypes
<1>5. CASE Send(v)
  <2>1. Head(conn[v].queue) \in Event /\ Tail(conn[v].queue) \in Seq(Event)
    BY <1>2, <1>5 DEF Send, Connection
  <2>2. conn' \in [Viewers -> Connection]
    BY <1>1, <1>2, <1>5, <2>1 DEF Send, Connection
  <2>3. got' \in [Viewers -> Seq(Event)]
    BY <1>1, <1>2, <1>5, <2>1 DEF Send
  <2> QED
    <3>1. UNCHANGED <<lifecycle, journal, busy, outbox, stream, lost, leaves, missed, again>>
      BY <1>5 DEF Send
    <3> QED
      BY <1>1, <3>1, <2>2, <2>3 DEF ViewTypes
<1>6. CASE Leave(v)
  <2>1. conn' \in [Viewers -> Connection]
    <3>1. conn' = [conn EXCEPT ![v] = [conn[v] EXCEPT !.open = FALSE, !.queue = <<>>]]
      BY <1>1, <1>6 DEF Leave
    <3>2. <<>> \in Seq(Event) /\ FALSE \in BOOLEAN
      OBVIOUS
    <3>3. ASSUME NEW b \in BOOLEAN, NEW q \in Seq(Event)
          PROVE [conn[v] EXCEPT !.open = b, !.queue = q] \in Connection
      BY <1>2 DEF Connection
    <3>4. [conn[v] EXCEPT !.open = FALSE, !.queue = <<>>] \in Connection
      BY <3>2, <3>3
    <3> QED
      BY <1>1, <3>1, <3>4
  <2>2. leaves' \in [Viewers -> 0..MaxLeaves]
    BY <1>1, <1>2, <1>6 DEF Leave
  <2>3. ToSet(conn[v].queue) \subseteq Event
    BY <1>2 DEF ToSet, Connection
  <2>4. missed' \in [Viewers -> SUBSET Event]
    BY <1>1, <1>2, <1>6, <2>3 DEF Leave
  <2> QED
    <3>1. UNCHANGED <<lifecycle, journal, busy, outbox, stream, lost, got, again>>
      BY <1>6 DEF Leave
    <3> QED
      BY <1>1, <3>1, <2>1, <2>2, <2>4 DEF ViewTypes
<1> QED
  BY <1>3, <1>4, <1>5, <1>6, <1>a DEF ViewerStep

LEMMA NumbersUntouched ==
  ASSUME EventStreamAssumption, IInv1, UNCHANGED <<lifecycle, journal, busy, outbox, stream, lost>>
  PROVE /\ RunTypes' /\ EventTypes' /\ Counts' /\ Numbers'
        /\ Known' = Known /\ Published' = Published /\ Waiting' = Waiting
<1>1. Types /\ Counts /\ Numbers
  BY DEF IInv1
<1>2. Due' = Due /\ Emitted' = Emitted /\ Known' = Known /\ Published' = Published /\ Waiting' = Waiting
  BY SameCalls DEF Emitted, Known, Published, Waiting, lifecycle
<1> QED
  BY <1>1, <1>2 DEF Types, RunTypes, EventTypes, Counts, Numbers, lifecycle

LEMMA NumbersAreKept == ASSUME EventStreamAssumption, IInv1, [Next]_vars PROVE IInv1'
<1>1. Types /\ Counts /\ Numbers
  BY DEF IInv1
<1>2. CASE StartRun
  BY <1>2, StartRunKeepsNumbers
<1>3. CASE EmitDelta
  <2>1. HasRoom
    BY <1>3, RunHasRoom DEF EmitDelta, MainAt, lifecycle, UnderWay
  <2> QED
    BY <1>3, <1>1, <2>1, RunRecordKeepsNumbers DEF EmitDelta, MainAt, lifecycle, Types, RunTypes
<1>4. CASE EmitResult
  <2>1. HasRoom
    BY <1>4, RunHasRoom DEF EmitResult, MainAt, UnderWay
  <2> QED
    BY <1>4, <1>1, <2>1, RunRecordKeepsNumbers DEF EmitResult, MainAt, Types, RunTypes
<1>5. CASE TakeArchive
  BY <1>5, TakeArchiveKeepsNumbers
<1>6. CASE EndRun
  <2>1. PICK kind \in {"completed", "failed"} : Record("main", number, kind, archive)
    BY <1>6 DEF EndRun
  <2>2. archive \in SUBSET (1..MaxEvents) /\ archive' \subseteq 1..MaxEvents /\ number \in 1..MaxRuns
    BY <1>1, <1>6 DEF EndRun, MainAt, Types, RunTypes
  <2>3. HasRoom
    BY <1>6, RunHasRoom DEF EndRun, MainAt, UnderWay
  <2>4. phase' \in {"idle", "learning"}
    BY <1>6 DEF EndRun
  <2> QED
    BY <1>6, <2>1, <2>2, <2>3, <2>4, RunRecordKeepsNumbers DEF EndRun
<1>a. CASE LearningEnds
  <2>1. /\ UNCHANGED <<number, archive, journal, busy, outbox, stream, lost, viewing>>
        /\ phase = "learning" /\ phase' = "idle"
    BY <1>a DEF LearningEnds, MainAt
  <2>2. Due' = Due /\ Emitted' = Emitted /\ Known' = Known /\ Published' = Published /\ Waiting' = Waiting
    BY <2>1, SameCalls DEF Emitted, Known, Published, Waiting, UnderWay
  <2>3. Types'
    BY <1>1, <2>1 DEF Types, RunTypes, EventTypes, ViewTypes, viewing
  <2>4. Counts' /\ Numbers'
    BY <1>1, <2>1, <2>2 DEF Counts, Numbers
  <2> QED
    BY <2>3, <2>4 DEF IInv1
<1>b. CASE Panic
  <2>1. Record("main", number, "failed", {}) /\ archive' \subseteq 1..MaxEvents /\ number \in 1..MaxRuns
    BY <1>1, <1>b DEF Panic, MainAt, Types, RunTypes
  <2>2. HasRoom
    BY <1>b, RunHasRoom DEF Panic, MainAt, UnderWay
  <2> QED
    BY <1>b, <2>1, <2>2, RunRecordKeepsNumbers DEF Panic
<1>7. ASSUME NEW e \in Emitters, Publish(e) PROVE IInv1'
  BY <1>7, PublishKeepsNumbers
<1>8. ASSUME NEW l \in Lanes, LaneStep(l) PROVE IInv1'
  BY <1>8, ToolKeepsNumbers DEF LaneStep
<1>9. ASSUME NEW v \in Viewers, ViewerStep(v) PROVE IInv1'
  BY <1>1, <1>9, ViewTypesKept, NumbersUntouched DEF IInv1, Types
<1>10. CASE UNCHANGED vars
  <2>1. UNCHANGED <<lifecycle, journal, busy, outbox, stream, lost>> /\ ViewTypes'
    BY <1>1, <1>10 DEF vars, viewing, ViewTypes, Types
  <2> QED
    BY <2>1, NumbersUntouched DEF IInv1, Types
<1> QED
  BY <1>2, <1>3, <1>4, <1>5, <1>6, <1>7, <1>8, <1>9, <1>10, <1>a, <1>b DEF Next, MainStep

LEMMA NumbersHoldAtFirst == ASSUME EventStreamAssumption, Init PROVE IInv1
<1>1. outbox = [e \in Emitters |-> NoEvent] /\ Waiting = {} /\ stream = <<>> /\ lost = {}
  BY DEF Init, Waiting
<1>2. Published = {} /\ Known = {}
  BY <1>1 DEF Published, Known, ToSet
<1>3. ViewTypes
  <2>1. NoConn \in Connection
    BY DEF NoConn, Connection, EventStreamAssumption
  <2> QED
    BY <2>1 DEF Init, ViewTypes, EventStreamAssumption
<1>4. EventTypes
  BY <1>1, FS_EmptySet DEF EventTypes
<1>5. RunTypes
  BY DEF Init, RunTypes, EventStreamAssumption
<1>6. Emitted = 0 /\ Due = 0
  <2>1. Calling = {}
    BY DEF Init, Calling
  <2>2. Cardinality(Calling) = 0 /\ Cardinality(Waiting) = 0 /\ Cardinality(lost) = 0 /\ Len(stream) = 0
    BY <1>1, <2>1, FS_EmptySet
  <2>3. Emitted = Len(stream) + Cardinality(lost) + Cardinality(Waiting)
    BY <1>4, EmittedIsNat
  <2>4. Due = Cardinality(Calling) + 0
    BY DueIs DEF Init, UnderWay
  <2> QED
    BY <2>2, <2>3, <2>4
<1>7. Counts
  BY <1>6 DEF Counts, Init, EventStreamAssumption
<1>8. Numbers
  BY <1>1, <1>2 DEF Numbers, Init
<1> QED
  BY <1>3, <1>4, <1>5, <1>7, <1>8 DEF IInv1, Types

-----------------------------------------------------------------------------
(* The end of a run.                                                       *)

AnswerNumbers(r) == {f.seq : f \in Answers(r)}

(* What is kept for an archive: all numbers but the completion's and the   *)
(* answer's.                                                               *)
Raws ==
  \A r \in 1..MaxRuns : \A x \in Nat :
    x \in journal[r].raw <=>
      /\ x \in 1..journal[r].maxSeq
      /\ \A g \in Known : g.run = r /\ g.kind \in {"completed", "result"} => g.seq # x

(* A run that is about to complete, or has, has no tool call left, and its *)
(* completion is the last event of a run that learns.                      *)
Settled == {"answered", "completing", "learning"}

Completing ==
  /\ phase \in Settled => Joined
  /\ phase = "completing" =>
       outbox["main"] = NoEvent /\ archive = 1..journal[number].maxSeq \ AnswerNumbers(number)
  /\ phase = "learning" =>
       \A f \in Known : f.kind = "completed" /\ f.run = number => journal[number].maxSeq = f.seq

Over == \A f \in Known : f.kind = "completed" =>
          (f.run < number \/ phase \in {"idle", "learning"}) /\ \A l \in Lanes : busy[l] # f.run

(* What follows a completion: the failure of a learning run.               *)
Late(f, g) == g.kind = "failed" /\ g.archive = {} /\ g.seq > f.seq

Archived == \A f \in Known : f.kind = "completed" =>
              /\ journal[f.run].maxSeq \in {f.seq, f.seq + 1}
              /\ \A g \in Known : g.run = f.run /\ g.seq > f.seq => Late(f, g)
              /\ f.archive = 1..(f.seq - 1) \ AnswerNumbers(f.run)

(* Nothing of its run is left to publish beside, or after, a completion,   *)
(* but for that failure.                                                   *)
Alone ==
  /\ \A f \in Published : f.kind = "completed" =>
       \A e \in Emitters : outbox[e].run = f.run => Late(f, outbox[e])
  /\ \A e, d \in Emitters : outbox[e].kind = "completed" /\ e # d => outbox[d].run # outbox[e].run
  /\ \A i, j \in 1..Len(stream) :
       i < j /\ stream[i].kind = "completed" /\ stream[j].run = stream[i].run => Late(stream[i], stream[j])

Ends == Raws /\ Completing /\ Over /\ Archived /\ Alone

IInv2 == IInv1 /\ Ends

LEMMA KnownEvents == ASSUME IInv1
  PROVE /\ \A f \in Known : f \in Event /\ f.run \in 1..MaxRuns /\ f.seq \in Nat \ {0}
                            /\ f.seq <= journal[f.run].maxSeq /\ f.run <= number
        /\ \A e \in Emitters : outbox[e] # NoEvent => outbox[e] \in Known
        /\ Published \subseteq Known
        /\ \A r \in 1..MaxRuns : journal[r].maxSeq \in Nat
        /\ \A i \in 1..Len(stream) : stream[i] \in Published
        /\ NoEvent.run = 0 /\ NoEvent.kind = "none"
<1>1. \A f \in Known : f \in Event
  BY DEF IInv1, Types, EventTypes, Known, Published, Waiting, ToSet
<1>2. \A e \in Emitters : outbox[e] # NoEvent => outbox[e] \in Known
  BY DEF Known, Waiting
<1>3. \A r \in 1..MaxRuns : journal[r].maxSeq \in Nat
  BY DEF IInv1, Types, RunTypes
<1>4. \A i \in 1..Len(stream) : stream[i] \in Published
  BY DEF Published, ToSet, IInv1, Types, EventTypes
<1> QED
  BY <1>1, <1>2, <1>3, <1>4, EventFields DEF IInv1, Numbers, Known, NoEvent

(* A run that has completed records no more than one failure, and a        *)
(* completion is what it should be.                                        *)
MayRecord(r, kind, facts) ==
  /\ \A f \in Known : f.kind = "completed" /\ f.run = r =>
       f \in Published /\ kind = "failed" /\ facts = {} /\ journal[r].maxSeq = f.seq
  /\ kind = "completed" => /\ facts = 1..journal[r].maxSeq \ AnswerNumbers(r)
                            /\ \A d \in Emitters : outbox[d].run # r

LEMMA RecordKeepsEnds ==
  ASSUME EventStreamAssumption, IInv2, NEW e \in Emitters, NEW r \in 1..MaxRuns,
         NEW kind \in {"started", "step", "result", "completed", "failed"}, NEW facts \in SUBSET (1..MaxEvents),
         Record(e, r, kind, facts), UNCHANGED <<stream, lost>>, HasRoom,
         MayRecord(r, kind, facts)
  PROVE /\ Raws' /\ Archived' /\ Alone'
        /\ Known' = Known \cup {Numbered(e, r, kind, facts)}
        /\ outbox' = [outbox EXCEPT ![e] = Numbered(e, r, kind, facts)]
        /\ \A s \in 1..MaxRuns \ {r} : journal'[s] = journal[s]
        /\ \A s \in 1..MaxRuns : AnswerNumbers(s)' = AnswerNumbers(s)
<1> DEFINE n == Numbered(e, r, kind, facts)
<1>1. IInv1 /\ Raws /\ Archived /\ Alone
  BY DEF IInv2, Ends
<1>2. journal[r].maxSeq < MaxEvents
  BY <1>1, RecordCounts DEF IInv1
<1>3. /\ n \in Event
      /\ outbox' = [outbox EXCEPT ![e] = n]
      /\ Published' = Published /\ Known' = Known \cup {n}
      /\ journal'[r].maxSeq = journal[r].maxSeq + 1
      /\ kind \in {"completed", "result"} => journal'[r].raw = journal[r].raw
      /\ kind \notin {"completed", "result"} => journal'[r].raw = journal[r].raw \cup {journal[r].maxSeq + 1}
      /\ \A s \in 1..MaxRuns \ {r} : journal'[s] = journal[s]
  <2>1. Types /\ Numbers
    BY <1>1 DEF IInv1
  <2>2. Recorded(e, r, kind, facts)
    BY <2>1, <1>2, RecordEffect
  <2> QED
    BY <2>2 DEF n, Recorded
<1>4. n.run = r /\ n.seq = journal[r].maxSeq + 1 /\ n.kind = kind /\ n.archive = facts
  BY DEF Numbered
<1> HIDE DEF n
<1>5. \A s \in 1..MaxRuns : AnswerNumbers(s)' = AnswerNumbers(s)
  BY <1>3 DEF AnswerNumbers, Answers
<1>6. Raws'
  <2> SUFFICES ASSUME NEW s \in 1..MaxRuns, NEW x \in Nat
               PROVE x \in journal'[s].raw <=>
                       /\ x \in 1..journal'[s].maxSeq
                       /\ \A g \in Known' : g.run = s /\ g.kind \in {"completed", "result"} => g.seq # x
    BY DEF Raws
  <2>1. x \in journal[s].raw <=>
          /\ x \in 1..journal[s].maxSeq
          /\ \A g \in Known : g.run = s /\ g.kind \in {"completed", "result"} => g.seq # x
    BY <1>1 DEF Raws
  <2>2. CASE s # r
    <3>1. journal'[s] = journal[s]
      BY <1>3, <2>2
    <3> QED
      BY <1>3, <1>4, <2>1, <2>2, <3>1
  <2>3. CASE s = r
    <3>1. PICK m \in Nat : journal[r].maxSeq = m
      BY <1>1, KnownEvents
    <3>2. \A g \in Known : g.run = r => g.seq # m + 1
      BY <1>1, <3>1, KnownEvents
    <3>3. x \in 1..(m + 1) <=> x \in 1..m \/ x = m + 1
      BY <3>1
    <3>4. m + 1 \notin 1..m
      BY <3>1
    <3>5. CASE kind \in {"completed", "result"}
      <4>1. journal'[r].raw = journal[r].raw /\ journal'[r].maxSeq = m + 1 /\ n.seq = m + 1
        BY <1>3, <1>4, <3>1, <3>5
      <4> QED
        BY <1>3, <1>4, <2>1, <2>3, <3>1, <3>3, <3>4, <3>5, <4>1
    <3>6. CASE kind \notin {"completed", "result"}
      <4>1. journal'[r].raw = journal[r].raw \cup {m + 1} /\ journal'[r].maxSeq = m + 1
        BY <1>3, <3>1, <3>6
      <4>2. \A g \in Known' : g.kind \in {"completed", "result"} => g \in Known
        BY <1>3, <1>4, <3>6
      <4> QED
        BY <1>3, <2>1, <2>3, <3>1, <3>2, <3>3, <4>1, <4>2
    <3> QED
      BY <3>5, <3>6
  <2> QED
    BY <2>2, <2>3
<1>7. Archived'
  <2> SUFFICES ASSUME NEW f \in Known', f.kind = "completed"
               PROVE /\ journal'[f.run].maxSeq \in {f.seq, f.seq + 1}
                     /\ \A g \in Known' : g.run = f.run /\ g.seq > f.seq => Late(f, g)
                     /\ f.archive = 1..(f.seq - 1) \ AnswerNumbers(f.run)'
    BY DEF Archived, Late
  <2>1. CASE f \in Known /\ f.run # r
    <3>1. f.run \in 1..MaxRuns \ {r}
      BY <1>1, <2>1, KnownEvents
    <3> QED
      BY <1>1, <1>3, <1>4, <1>5, <2>1, <3>1 DEF Archived
  <2>2. CASE f = n
    <3>1. f.seq - 1 = journal[r].maxSeq
      BY <1>1, <1>4, <2>2, KnownEvents
    <3>2. \A g \in Known : g.run = r => g.seq <= journal[r].maxSeq /\ g.seq \in Nat
      BY <1>1, KnownEvents
    <3>3. journal[r].maxSeq \in Nat /\ f.seq = journal[r].maxSeq + 1 /\ f.run = r
      BY <1>1, <1>4, <2>2, KnownEvents
    <3>4. \A g \in Known' : g.run = f.run => ~(g.seq > f.seq)
      BY <1>3, <2>2, <3>2, <3>3
    <3> QED
      BY <1>3, <1>4, <1>5, <2>2, <3>1, <3>3, <3>4 DEF MayRecord
  <2>3. CASE f \in Known /\ f.run = r
    <3>1. kind = "failed" /\ facts = {} /\ journal[r].maxSeq = f.seq /\ f.seq \in Nat
      BY <1>1, <2>3, KnownEvents DEF MayRecord
    <3>2. Late(f, n)
      BY <1>4, <3>1 DEF Late
    <3> QED
      BY <1>1, <1>3, <1>5, <2>3, <3>1, <3>2 DEF Archived
  <2> QED
    BY <1>3, <2>1, <2>2, <2>3
<1>8. Alone'
  <2>1. \A d \in Emitters : outbox'[d] = IF d = e THEN n ELSE outbox[d]
    BY <1>1, <1>3 DEF IInv1, Types, EventTypes
  <2>2. ASSUME NEW f \in Published', f.kind = "completed", NEW d \in Emitters, outbox'[d].run = f.run
        PROVE Late(f, outbox'[d])
    <3>1. f \in Published /\ f \in Known
      BY <1>1, <1>3, <2>2, KnownEvents
    <3>2. CASE d = e
      <4>1. f.run = r /\ outbox'[d] = n
        BY <1>4, <2>1, <2>2, <3>2
      <4>2. kind = "failed" /\ facts = {} /\ journal[r].maxSeq = f.seq /\ f.seq \in Nat
        BY <1>1, <2>2, <3>1, <4>1, KnownEvents DEF MayRecord
      <4> QED
        BY <1>4, <4>1, <4>2 DEF Late
    <3>3. CASE d # e
      BY <1>1, <2>1, <2>2, <3>1, <3>3 DEF Alone
    <3> QED
      BY <3>2, <3>3
  <2>3. ASSUME NEW c \in Emitters, NEW d \in Emitters, outbox'[c].kind = "completed", c # d
        PROVE outbox'[d].run # outbox'[c].run
    <3>1. CASE c = e
      BY <1>4, <2>1, <2>3, <3>1 DEF MayRecord
    <3>2. CASE c # e
      <4>1. outbox[c] \in Known /\ outbox'[c] = outbox[c]
        BY <1>1, <2>1, <2>3, <3>2, KnownEvents
      <4>2. CASE d # e
        BY <1>1, <2>1, <2>3, <4>1, <4>2 DEF Alone
      <4>3. CASE d = e
        <5>1. SUFFICES ASSUME outbox[c].run = r PROVE FALSE
          BY <1>4, <2>1, <4>1, <4>3
        <5>2. outbox[c] \in Published
          BY <2>3, <4>1, <5>1 DEF MayRecord
        <5>3. Late(outbox[c], outbox[c])
          BY <1>1, <2>3, <4>1, <5>2 DEF Alone
        <5> QED
          BY <2>3, <4>1, <5>3 DEF Late
      <4> QED
        BY <4>2, <4>3
    <3> QED
      BY <3>1, <3>2
  <2> QED
    BY <1>1, <2>2, <2>3 DEF Alone
<1> QED
  BY <1>3, <1>5, <1>6, <1>7, <1>8 DEF n

LEMMA PublishKeepsEnds ==
  ASSUME EventStreamAssumption, IInv2, NEW e \in Emitters, Publish(e)
  PROVE Ends'
<1>1. IInv1 /\ Raws /\ Completing /\ Over /\ Archived /\ Alone
  BY DEF IInv2, Ends
<1> DEFINE x == outbox[e]
<1>2. /\ x \in Event
      /\ outbox' = [outbox EXCEPT ![e] = NoEvent]
      /\ Published' = Published \cup {x}
      /\ Known' = Known
      /\ \/ stream' = Append(stream, x)
         \/ stream' = stream
  BY <1>1, PublishEffect DEF IInv1
<1>3. x # NoEvent /\ x \in Known
  BY <1>1, KnownEvents DEF Publish
<1>4. /\ UNCHANGED <<phase, number, archive, journal, busy>>
      /\ \A d \in Emitters : outbox'[d] = IF d = e THEN NoEvent ELSE outbox[d]
  BY <1>1, <1>2 DEF Publish, lifecycle, IInv1, Types, EventTypes
<1> HIDE DEF x
<1>5. Raws' /\ Over'
  BY <1>1, <1>2, <1>4 DEF Raws, Over
<1>6. \A r \in 1..MaxRuns : x.run # r \/ x.kind # "result" => AnswerNumbers(r)' = AnswerNumbers(r)
  BY <1>2 DEF AnswerNumbers, Answers, Published
<1>7. Archived'
  <2> SUFFICES ASSUME NEW f \in Known, f.kind = "completed"
               PROVE /\ journal[f.run].maxSeq \in {f.seq, f.seq + 1}
                     /\ \A g \in Known : g.run = f.run /\ g.seq > f.seq => Late(f, g)
                     /\ f.archive = 1..(f.seq - 1) \ AnswerNumbers(f.run)'
    BY <1>2, <1>4 DEF Archived, Late
  <2>1. x.run # f.run \/ x.kind # "result"
    <3>1. CASE f \in Published
      BY <1>1, <3>1 DEF Alone, Late, x
    <3>2. CASE f \notin Published
      <4>1. PICK d \in Emitters : f = outbox[d]
        BY <3>2 DEF Known, Waiting
      <4> QED
        BY <1>1, <4>1 DEF Alone, x
    <3> QED
      BY <3>1, <3>2
  <2>2. f.run \in 1..MaxRuns
    BY <1>1, KnownEvents
  <2> QED
    BY <1>1, <1>6, <2>1, <2>2 DEF Archived
<1>8. Completing'
  <2>1. CASE phase = "completing"
    <3>1. e # "main" /\ e \in Lanes /\ number \in 1..MaxRuns
      BY <1>1, <1>3, <2>1 DEF Completing, Emitters, x, IInv1, Types, RunTypes
    <3>2. x.run # number
      BY <1>1, <2>1, <3>1 DEF Completing, Joined, x, Settled
    <3>3. "main" \in Emitters
      BY DEF Emitters
    <3>4. \A l \in Lanes : busy'[l] # number /\ outbox'[l].run # number
      BY <1>1, <1>4, <2>1, <3>1, KnownEvents DEF Completing, Joined, Emitters, Settled
    <3> QED
      BY <1>1, <1>4, <1>6, <2>1, <3>1, <3>2, <3>3, <3>4 DEF Completing, Joined
  <2>2. CASE phase \in {"answered", "learning"}
    <3>1. number \in 1..MaxRuns
      BY <1>1, <2>2 DEF IInv1, Types, RunTypes
    <3>2. \A l \in Lanes : busy'[l] # number /\ outbox'[l].run # number
      BY <1>1, <1>4, <2>2, <3>1, KnownEvents DEF Completing, Joined, Emitters, Settled
    <3> QED
      BY <1>1, <1>2, <1>4, <2>2, <3>2 DEF Completing, Joined
  <2> QED
    BY <1>4, <2>1, <2>2 DEF Completing, Settled
<1>9. Alone'
  <2>1. ASSUME NEW f \in Published', f.kind = "completed", NEW d \in Emitters, outbox'[d].run = f.run
        PROVE Late(f, outbox'[d])
    <3>1. f \in Known /\ f.run # 0
      BY <1>1, <1>2, <1>3, <2>1, KnownEvents
    <3>2. d # e /\ outbox'[d] = outbox[d]
      BY <1>1, <1>4, <2>1, <3>1, KnownEvents
    <3> QED
      BY <1>1, <1>2, <2>1, <3>1, <3>2 DEF Alone, x
  <2>2. ASSUME NEW c \in Emitters, NEW d \in Emitters, outbox'[c].kind = "completed", c # d
        PROVE outbox'[d].run # outbox'[c].run
    <3>1. c # e /\ outbox[c].kind = "completed" /\ outbox'[c] = outbox[c]
      BY <1>1, <1>4, <2>2, KnownEvents
    <3>2. outbox[c] \in Known /\ outbox[c].run # 0
      BY <1>1, <3>1, KnownEvents
    <3> QED
      BY <1>1, <1>4, <2>2, <3>1, <3>2, KnownEvents DEF Alone
  <2>3. ASSUME NEW i \in 1..Len(stream'), NEW j \in 1..Len(stream'), i < j, stream'[i].kind = "completed",
               stream'[j].run = stream'[i].run
        PROVE Late(stream'[i], stream'[j])
    <3>1. CASE stream' = stream
      BY <1>1, <2>3, <3>1 DEF Alone
    <3>2. CASE stream' = Append(stream, x)
      <4>1. stream \in Seq(Event) /\ Len(stream) \in Nat
        BY <1>1 DEF IInv1, Types, EventTypes
      <4>0. /\ Len(stream') = Len(stream) + 1
            /\ \A k \in 1..Len(stream) : stream'[k] = stream[k]
            /\ stream'[Len(stream) + 1] = x
        BY <1>2, <3>2, <4>1
      <4>2. /\ i \in 1..Len(stream) /\ stream'[i] = stream[i]
            /\ \/ j \in 1..Len(stream) /\ stream'[j] = stream[j]
               \/ j = Len(stream) + 1 /\ stream'[j] = x
        BY <2>3, <4>0, <4>1
      <4>3. CASE j \in 1..Len(stream) /\ stream'[j] = stream[j]
        BY <1>1, <2>3, <4>2, <4>3 DEF Alone
      <4>4. CASE stream'[j] = x
        <5>1. stream[i] \in Published
          BY <1>1, <4>2, KnownEvents
        <5> QED
          BY <1>1, <2>3, <4>2, <4>4, <5>1 DEF Alone, x
      <4> QED
        BY <4>2, <4>3, <4>4
    <3> QED
      BY <1>2, <3>1, <3>2
  <2> QED
    BY <2>1, <2>2, <2>3 DEF Alone
<1> QED
  BY <1>5, <1>7, <1>8, <1>9 DEF Ends

(* What a step of the run or of a tool call has to show for what it        *)
(* records.                                                                *)
LEMMA ToolHasRoom ==
  ASSUME EventStreamAssumption, IInv1, NEW l \in Lanes, StartTool(l) \/ EndTool(l)
  PROVE HasRoom
<1>1. Emitted \in Nat /\ Due \in Nat /\ MaxEvents \in Nat /\ Emitted + Due <= MaxEvents
  BY EmittedIsNat, DueIs DEF IInv1, Types, Counts, EventStreamAssumption
<1>2. busy \in [Lanes -> 0..MaxRuns] /\ (phase # "idle" => number # 0)
  BY DEF IInv1, Types, RunTypes
<1>3. phase' = phase
  BY DEF StartTool, EndTool, lifecycle
<1>4. CASE StartTool(l)
  <2>1. number # 0 /\ busy[l] = 0 /\ busy' = [busy EXCEPT ![l] = number] /\ RoomFor(2)
    BY <1>2, <1>4 DEF StartTool, MainAt
  <2>2. Calling' = Calling \cup {l} /\ l \notin Calling
    BY <1>2, <2>1 DEF Calling
  <2>3. Due' = Due + 1
    <3>1. Cardinality(Calling') = Cardinality(Calling) + 1
      BY <2>2, DueIs, FS_AddElement
    <3>2. /\ Due = Cardinality(Calling) + (IF UnderWay THEN 1 ELSE 0)
          /\ Due' = Cardinality(Calling') + (IF UnderWay THEN 1 ELSE 0)
      BY <1>3, DueIs DEF UnderWay
    <3> QED
      BY <3>1, <3>2, DueIs
  <2>4. Due + 1 \in Nat /\ Emitted + (Due + 1) < MaxEvents
    BY <1>1, <2>1 DEF RoomFor
  <2> QED
    BY <2>3, <2>4 DEF HasRoom
<1>5. CASE EndTool(l)
  <2>1. busy[l] # 0 /\ busy' = [busy EXCEPT ![l] = 0]
    BY <1>5 DEF EndTool
  <2>2. Calling' = Calling \ {l} /\ l \in Calling
    BY <1>2, <2>1 DEF Calling
  <2>3. Calling # {} /\ IsFiniteSet(Calling)
    BY <2>2, DueIs
  <2>4. Cardinality(Calling') = Cardinality(Calling) - 1
    BY <2>2, <2>3, FS_RemoveElement
  <2>5. Cardinality(Calling) \in Nat /\ Cardinality(Calling) # 0
    BY <2>3, FS_CardinalityType, FS_EmptySet
  <2>6. /\ Due = Cardinality(Calling) + (IF UnderWay THEN 1 ELSE 0)
        /\ Due' = Cardinality(Calling') + (IF UnderWay THEN 1 ELSE 0)
    BY <1>3, DueIs DEF UnderWay
  <2>7. Due' = Due - 1 /\ Due - 1 \in Nat
    BY <2>4, <2>5, <2>6
  <2>8. Emitted + (Due - 1) < MaxEvents
    BY <1>1
  <2> QED
    BY <2>7, <2>8 DEF HasRoom
<1> QED
  BY <1>4, <1>5

(* While a run is under way it has not completed.                          *)
LEMMA NotYetCompleted ==
  ASSUME IInv2, NEW f \in Known, f.kind = "completed"
  PROVE UnderWay => f.run # number
<1>1. f.run < number \/ ~UnderWay
  BY DEF IInv2, Ends, Over, UnderWay
<1>2. number \in Nat /\ f.run \in Nat
  BY KnownEvents DEF IInv2, IInv1, Types, RunTypes
<1> QED
  BY <1>1, <1>2

LEMMA StartRunKeepsEnds == ASSUME EventStreamAssumption, IInv2, StartRun PROVE Ends'
<1>1. IInv1 /\ Raws /\ Completing /\ Over /\ Archived /\ Alone
  BY DEF IInv2, Ends
<1>2. number' = number + 1 /\ number + 1 \in 1..MaxRuns /\ phase = "idle" /\ phase' \in {"running", "failing"}
      /\ "main" \in Emitters /\ UNCHANGED <<archive, busy, stream, lost>>
  BY <1>1 DEF StartRun, MainAt, IInv1, Types, RunTypes, EventStreamAssumption, Emitters
<1>3. \A f \in Known : f.run \in 1..MaxRuns /\ f.run < number + 1
  <2>1. \A f \in Known : f.run \in Nat /\ f.run <= number /\ f.run \in 1..MaxRuns
    BY <1>1, KnownEvents
  <2>2. number \in Nat
    BY <1>1 DEF IInv1, Types, RunTypes
  <2> QED
    BY <2>1, <2>2
<1>4. Completing'
  BY <1>2 DEF Completing, Settled
<1>5. CASE phase' = "running" /\ Record("main", number + 1, "started", {})
  <2>1. HasRoom
    BY <1>1, <1>2, RunHasRoom DEF StartRun, UnderWay
  <2>2. MayRecord(number + 1, "started", {})
    <3>1. number \in Nat
      BY <1>1 DEF IInv1, Types, RunTypes
    <3> QED
      BY <1>3, <1>2, <3>1 DEF MayRecord
  <2>3. /\ Raws' /\ Archived' /\ Alone'
        /\ Known' = Known \cup {Numbered("main", number + 1, "started", {})}
    BY <1>2, <1>5, <2>1, <2>2, RecordKeepsEnds
  <2>4. Over'
    <3>1. \A f \in Known' : f.kind = "completed" => f \in Known
      BY <2>3 DEF Numbered
    <3> QED
      BY <1>1, <1>2, <1>3, <3>1 DEF Over
  <2> QED
    BY <1>4, <2>3, <2>4 DEF Ends
<1>6. CASE phase' = "failing" /\ UNCHANGED <<journal, outbox>>
  <2>1. Known' = Known /\ Published' = Published /\ \A r \in 1..MaxRuns : AnswerNumbers(r)' = AnswerNumbers(r)
    BY <1>2, <1>6 DEF Known, Published, Waiting, AnswerNumbers, Answers
  <2>2. Raws' /\ Alone'
    BY <1>1, <1>2, <1>6, <2>1 DEF Raws, Alone, Late
  <2>3. Archived'
    BY <1>1, <1>3, <1>6, <2>1 DEF Archived, Late
  <2>4. Over'
    BY <1>1, <1>2, <1>3, <2>1 DEF Over
  <2> QED
    BY <1>4, <2>2, <2>3, <2>4 DEF Ends
<1> QED
  BY <1>5, <1>6 DEF StartRun

(* A step of the run that records, short of its completion.                *)
LEMMA RunRecordKeepsEnds ==
  ASSUME EventStreamAssumption, IInv2, UnderWay, number' = number, busy' = busy,
         UNCHANGED <<stream, lost>>, HasRoom, phase' \in {"idle", "running", "answered"},
         NEW kind \in {"started", "step", "result", "failed"}, NEW facts \in SUBSET (1..MaxEvents),
         Record("main", number, kind, facts), phase' = "answered" => Joined
  PROVE Ends'
<1>1. IInv1 /\ Raws /\ Completing /\ Over /\ Archived /\ Alone
  BY DEF IInv2, Ends
<1>2. number \in 1..MaxRuns /\ "main" \in Emitters
  BY <1>1 DEF IInv1, Types, RunTypes, Emitters, UnderWay
<1>3. MayRecord(number, kind, facts)
  BY NotYetCompleted DEF MayRecord
<1>4. /\ Raws' /\ Archived' /\ Alone'
      /\ Known' = Known \cup {Numbered("main", number, kind, facts)}
      /\ outbox' = [outbox EXCEPT !["main"] = Numbered("main", number, kind, facts)]
  <2>1. kind \in {"started", "step", "result", "completed", "failed"}
    OBVIOUS
  <2>2. UNCHANGED <<stream, lost>> /\ number \in 1..MaxRuns /\ "main" \in Emitters
    BY <1>2
  <2>3. Record("main", number, kind, facts) /\ MayRecord(number, kind, facts) /\ HasRoom
    BY <1>3
  <2> QED
    BY <2>1, <2>2, <2>3, RecordKeepsEnds
<1>5. Over'
  <2>1. \A f \in Known' : f.kind = "completed" => f \in Known
    BY <1>4 DEF Numbered
  <2>2. \A f \in Known : f.kind = "completed" => f.run < number
    BY <1>1 DEF Over, UnderWay
  <2> QED
    BY <1>1, <2>1, <2>2 DEF Over
<1>6. Completing'
  <2>1. \A l \in Lanes : outbox'[l] = outbox[l]
    BY <1>1, <1>4 DEF IInv1, Types, EventTypes, EventStreamAssumption, Emitters
  <2> QED
    BY <2>1 DEF Completing, Joined, Settled
<1> QED
  BY <1>4, <1>5, <1>6 DEF Ends

LEMMA ToolKeepsEnds ==
  ASSUME EventStreamAssumption, IInv2, NEW l \in Lanes, StartTool(l) \/ EndTool(l)
  PROVE Ends'
<1>1. IInv1 /\ Raws /\ Completing /\ Over /\ Archived /\ Alone
  BY DEF IInv2, Ends
<1>2. HasRoom /\ l \in Emitters /\ UNCHANGED <<phase, number, archive, stream, lost>>
  BY <1>1, ToolHasRoom DEF StartTool, EndTool, lifecycle, Emitters
<1>3. PICK r \in 1..MaxRuns :
        /\ Record(l, r, "step", {})
        /\ \A f \in Known : f.kind = "completed" => f.run # r
        /\ phase \in Settled => r # number
        /\ \A m \in Lanes : busy'[m] \in {busy[m], r, 0}
  <2>1. CASE StartTool(l)
    <3>1. phase = "running" /\ number \in 1..MaxRuns
      BY <1>1, <2>1 DEF StartTool, MainAt, IInv1, Types, RunTypes
    <3>2. \A m \in Lanes : busy'[m] \in {busy[m], number}
      BY <1>1, <2>1 DEF StartTool, IInv1, Types, RunTypes
    <3>3. Record(l, number, "step", {})
      BY <2>1 DEF StartTool
    <3> QED
      BY <3>1, <3>2, <3>3, NotYetCompleted DEF Settled, UnderWay
  <2>2. CASE EndTool(l)
    <3>1. busy[l] \in 1..MaxRuns /\ Record(l, busy[l], "step", {})
      BY <1>1, <2>2 DEF EndTool, IInv1, Types, RunTypes
    <3>2. \A m \in Lanes : busy'[m] \in {busy[m], 0}
      BY <1>1, <2>2 DEF EndTool, IInv1, Types, RunTypes
    <3>3. \A f \in Known : f.kind = "completed" => f.run # busy[l]
      BY <1>1 DEF Over
    <3>4. phase \in Settled => busy[l] # number
      BY <1>1 DEF Completing, Joined
    <3> QED
      BY <3>1, <3>2, <3>3, <3>4
  <2> QED
    BY <2>1, <2>2
<1>4. MayRecord(r, "step", {})
  BY <1>3 DEF MayRecord
<1>5. /\ Raws' /\ Archived' /\ Alone'
      /\ Known' = Known \cup {Numbered(l, r, "step", {})}
      /\ outbox' = [outbox EXCEPT ![l] = Numbered(l, r, "step", {})]
      /\ \A s \in 1..MaxRuns \ {r} : journal'[s] = journal[s]
      /\ \A s \in 1..MaxRuns : AnswerNumbers(s)' = AnswerNumbers(s)
  BY <1>2, <1>3, <1>4, RecordKeepsEnds
<1>6. \A f \in Known' : f.kind = "completed" => f \in Known
  BY <1>5 DEF Numbered
<1>7. Over'
  BY <1>1, <1>2, <1>3, <1>6, KnownEvents DEF Over
<1>8. Completing'
  <2>1. \A e \in Emitters : outbox'[e] = IF e = l THEN Numbered(l, r, "step", {}) ELSE outbox[e]
    BY <1>1, <1>5 DEF IInv1, Types, EventTypes
  <2>2. phase \in Settled => number \in 1..MaxRuns
    BY <1>1 DEF IInv1, Types, RunTypes, Settled
  <2>3. phase \in Settled => Joined'
    <3> SUFFICES ASSUME phase \in Settled, NEW m \in Lanes
                 PROVE busy'[m] # number /\ outbox'[m].run # number
      BY <1>2 DEF Joined
    <3>1. busy'[m] # number
      BY <1>1, <1>3, <2>2 DEF Completing, Joined
    <3>2. outbox'[m].run # number
      BY <1>1, <1>3, <2>1 DEF Completing, Joined, Numbered, Emitters
    <3> QED
      BY <3>1, <3>2
  <2>4. phase = "completing" =>
          outbox'["main"] = NoEvent /\ archive = 1..journal'[number].maxSeq \ AnswerNumbers(number)'
    <3> SUFFICES ASSUME phase = "completing"
                 PROVE outbox'["main"] = NoEvent
                       /\ archive = 1..journal'[number].maxSeq \ AnswerNumbers(number)'
      OBVIOUS
    <3>1. number \in 1..MaxRuns \ {r}
      BY <1>3, <2>2 DEF Settled
    <3>2. journal'[number] = journal[number] /\ AnswerNumbers(number)' = AnswerNumbers(number)
      BY <1>2, <1>5, <3>1
    <3>3. outbox'["main"] = outbox["main"]
      BY <2>1 DEF EventStreamAssumption, Emitters
    <3> QED
      BY <1>1, <3>2, <3>3 DEF Completing
  <2>5. phase = "learning" =>
          \A f \in Known' : f.kind = "completed" /\ f.run = number => journal'[number].maxSeq = f.seq
    <3> SUFFICES ASSUME phase = "learning"
                 PROVE \A f \in Known' : f.kind = "completed" /\ f.run = number => journal'[number].maxSeq = f.seq
      OBVIOUS
    <3>1. number \in 1..MaxRuns \ {r}
      BY <1>3, <2>2 DEF Settled
    <3>2. journal'[number] = journal[number]
      BY <1>5, <3>1
    <3> QED
      BY <1>1, <1>6, <3>2 DEF Completing
  <2> QED
    BY <1>2, <2>3, <2>4, <2>5 DEF Completing
<1> QED
  BY <1>5, <1>7, <1>8 DEF Ends

LEMMA EndsUntouched ==
  ASSUME IInv2, UNCHANGED <<number, journal, busy, outbox, stream, lost>>
  PROVE /\ Raws' /\ Archived' /\ Alone' /\ (phase' = phase => Over')
        /\ Known' = Known /\ (Joined' <=> Joined)
        /\ \A r \in 1..MaxRuns : AnswerNumbers(r)' = AnswerNumbers(r)
<1>1. Raws /\ Completing /\ Over /\ Archived /\ Alone
  BY DEF IInv2, Ends
<1>2. Known' = Known /\ Published' = Published /\ (Joined' <=> Joined)
      /\ \A r \in 1..MaxRuns : AnswerNumbers(r)' = AnswerNumbers(r)
  BY DEF Known, Published, Waiting, AnswerNumbers, Answers, Joined
<1>3. \A f \in Known : f.run \in 1..MaxRuns
  BY KnownEvents DEF IInv2
<1> QED
  BY <1>1, <1>2, <1>3 DEF Raws, Over, Archived, Alone, Late

LEMMA TakeArchiveKeepsEnds == ASSUME EventStreamAssumption, IInv2, TakeArchive PROVE Ends'
<1>1. IInv1 /\ Raws /\ Completing /\ Over /\ Archived /\ Alone
  BY DEF IInv2, Ends
<1>2. /\ UNCHANGED <<number, journal, busy, outbox, stream, lost>>
      /\ phase \in {"running", "answered"} /\ phase' \in {"completing", "failing"}
      /\ archive' = journal[number].raw /\ outbox["main"] = NoEvent
      /\ phase' = "completing" => Joined
  BY <1>1 DEF TakeArchive, MainAt, Completing, Settled
<1>3. number \in 1..MaxRuns
  BY <1>1, <1>2 DEF IInv1, Types, RunTypes
<1>4. Raws' /\ Archived' /\ Alone' /\ Known' = Known /\ (Joined' <=> Joined)
      /\ AnswerNumbers(number)' = AnswerNumbers(number)
  BY <1>2, <1>3, EndsUntouched
<1>5. Over'
  BY <1>1, <1>2, <1>4 DEF Over
<1>0. UnderWay
  BY <1>2 DEF UnderWay
<1>6. phase' = "completing" => archive' = 1..journal[number].maxSeq \ AnswerNumbers(number)
  <2> SUFFICES ASSUME phase' = "completing"
               PROVE journal[number].raw = 1..journal[number].maxSeq \ AnswerNumbers(number)
    BY <1>2
  <2>1. \A g \in Known : g.run = number /\ g.kind \in {"completed", "result"} <=> g \in Answers(number)
    <3> SUFFICES ASSUME NEW g \in Known
                 PROVE g.run = number /\ g.kind \in {"completed", "result"} <=> g \in Answers(number)
      OBVIOUS
    <3>1. g.run = number => g.kind # "completed"
      BY <1>0, NotYetCompleted
    <3>2. g.run = number => g \in Published
      <4> SUFFICES ASSUME g.run = number, g \notin Published PROVE FALSE
        OBVIOUS
      <4>1. PICK d \in Emitters : g = outbox[d] /\ outbox[d] # NoEvent
        BY DEF Known, Waiting
      <4> QED
        BY <1>2, <4>1 DEF Joined, Emitters
    <3> QED
      BY <3>1, <3>2 DEF Answers, Published
  <2>2. Answers(number) \subseteq Known
    BY DEF Answers, Known, Published
  <2>3. journal[number].raw \subseteq Nat /\ journal[number].maxSeq \in Nat
    BY <1>1, <1>3 DEF IInv1, Types, RunTypes
  <2>4. \A x \in Nat : x \in journal[number].raw <=>
          x \in 1..journal[number].maxSeq /\ \A g \in Answers(number) : g.seq # x
    BY <1>1, <1>3, <2>1, <2>2 DEF Raws
  <2>5. 1..journal[number].maxSeq \subseteq Nat
    BY <2>3
  <2> QED
    BY <2>3, <2>4, <2>5 DEF AnswerNumbers
<1>7. Completing'
  BY <1>2, <1>4, <1>6 DEF Completing, Settled
<1> QED
  BY <1>4, <1>5, <1>7 DEF Ends

LEMMA CompleteKeepsEnds ==
  ASSUME EventStreamAssumption, IInv2, phase = "completing", EndRun
  PROVE Ends'
<1>1. IInv1 /\ Raws /\ Completing /\ Over /\ Archived /\ Alone
  BY DEF IInv2, Ends
<1>2. /\ Record("main", number, "completed", archive) /\ number \in 1..MaxRuns /\ "main" \in Emitters
      /\ phase' = "learning" /\ UNCHANGED <<number, busy, stream, lost>> /\ archive \in SUBSET (1..MaxEvents)
  BY <1>1 DEF EndRun, MainAt, IInv1, Types, RunTypes, Emitters
<1>3. HasRoom
  BY <1>1, <1>2, RunHasRoom DEF UnderWay
<1>4. /\ archive = 1..journal[number].maxSeq \ AnswerNumbers(number)
      /\ \A d \in Emitters : outbox[d].run # number
      /\ \A l \in Lanes : busy[l] # number
  BY <1>1, <1>2 DEF Completing, Joined, Emitters, NoEvent, Settled
<1>5. MayRecord(number, "completed", archive)
  BY <1>4, NotYetCompleted DEF MayRecord, UnderWay
<1>6. /\ Raws' /\ Archived' /\ Alone'
      /\ Known' = Known \cup {Numbered("main", number, "completed", archive)}
      /\ outbox' = [outbox EXCEPT !["main"] = Numbered("main", number, "completed", archive)]
  BY <1>2, <1>3, <1>5, RecordKeepsEnds
<1>7. Over'
  BY <1>1, <1>2, <1>4, <1>6 DEF Over, Numbered
<1>8. Completing'
  <2>1. \A l \in Lanes : outbox'[l] = outbox[l]
    BY <1>1, <1>6 DEF IInv1, Types, EventTypes, EventStreamAssumption, Emitters
  <2>2. Joined'
    BY <1>2, <1>4, <2>1 DEF Joined, Emitters
  <2>3. journal'[number].maxSeq = journal[number].maxSeq + 1
    <3>1. journal[number].maxSeq < MaxEvents /\ Types /\ Numbers
      BY <1>1, <1>2, <1>3, RecordCounts DEF IInv1
    <3> QED
      BY <1>2, <3>1, RecordEffect DEF Recorded
  <2>4. ASSUME NEW f \in Known', f.kind = "completed", f.run = number PROVE journal'[number].maxSeq = f.seq
    <3>1. f \notin Known
      BY <2>4, NotYetCompleted DEF UnderWay
    <3>2. f.seq = journal[number].maxSeq + 1
      BY <1>6, <3>1, <2>4 DEF Numbered
    <3> QED
      BY <2>3, <3>2
  <2> QED
    BY <1>2, <2>2, <2>4 DEF Completing
<1> QED
  BY <1>6, <1>7, <1>8 DEF Ends

LEMMA LearningEndsKeepsEnds == ASSUME EventStreamAssumption, IInv2, LearningEnds PROVE Ends'
<1>1. /\ UNCHANGED <<number, journal, busy, outbox, stream, lost>>
      /\ phase = "learning" /\ phase' = "idle"
  BY DEF LearningEnds, MainAt
<1>2. Raws' /\ Archived' /\ Alone' /\ Known' = Known
  BY <1>1, EndsUntouched
<1>3. Over'
  BY <1>1, <1>2 DEF IInv2, Ends, Over
<1>4. Completing'
  BY <1>1 DEF Completing, Settled
<1> QED
  BY <1>2, <1>3, <1>4 DEF Ends

(* A panic in the learning run follows the completion, which is out.       *)
LEMMA PanicKeepsEnds == ASSUME EventStreamAssumption, IInv2, Panic PROVE Ends'
<1>1. IInv1 /\ Raws /\ Completing /\ Over /\ Archived /\ Alone
  BY DEF IInv2, Ends
<1>2. /\ Record("main", number, "failed", {}) /\ number \in 1..MaxRuns /\ "main" \in Emitters
      /\ phase' = "idle" /\ UNCHANGED <<number, busy, stream, lost>> /\ {} \in SUBSET (1..MaxEvents)
      /\ phase \in {"running", "learning"} /\ outbox["main"] = NoEvent
  BY <1>1 DEF Panic, MainAt, IInv1, Types, RunTypes, Emitters
<1>3. HasRoom
  BY <1>1, <1>2, RunHasRoom DEF Panic, MainAt, UnderWay
<1>4. MayRecord(number, "failed", {})
  <2> SUFFICES ASSUME NEW f \in Known, f.kind = "completed", f.run = number
               PROVE f \in Published /\ journal[number].maxSeq = f.seq
    BY DEF MayRecord
  <2>1. phase = "learning"
    BY <1>2, NotYetCompleted DEF UnderWay
  <2>2. \A e \in Emitters : outbox[e].run # number
    BY <1>1, <1>2, <2>1 DEF Completing, Settled, Joined, Emitters, NoEvent
  <2>3. f \in Published
    BY <2>2 DEF Known, Waiting
  <2> QED
    BY <1>1, <2>1, <2>3 DEF Completing
<1>5. /\ Raws' /\ Archived' /\ Alone'
      /\ Known' = Known \cup {Numbered("main", number, "failed", {})}
  BY <1>2, <1>3, <1>4, RecordKeepsEnds
<1>6. Over'
  <2>1. \A f \in Known' : f.kind = "completed" => f \in Known
    BY <1>5 DEF Numbered
  <2> QED
    BY <1>1, <1>2, <2>1 DEF Over
<1>7. Completing'
  BY <1>2 DEF Completing, Settled
<1> QED
  BY <1>5, <1>6, <1>7 DEF Ends

LEMMA EndsAreKept == ASSUME EventStreamAssumption, IInv2, [Next]_vars PROVE IInv2'
<1>0. IInv1 /\ IInv1'
  BY NumbersAreKept DEF IInv2
<1> SUFFICES Ends'
  BY <1>0 DEF IInv2
<1>1. CASE StartRun
  BY <1>1, StartRunKeepsEnds
<1>2. CASE EmitDelta
  <2>1. HasRoom
    BY <1>0, <1>2, RunHasRoom DEF EmitDelta, MainAt, lifecycle, UnderWay
  <2> QED
    BY <1>2, <2>1, RunRecordKeepsEnds DEF EmitDelta, MainAt, lifecycle, UnderWay
<1>3. CASE EmitResult
  <2>1. HasRoom
    BY <1>0, <1>3, RunHasRoom DEF EmitResult, MainAt, UnderWay
  <2> QED
    BY <1>3, <2>1, RunRecordKeepsEnds DEF EmitResult, MainAt, UnderWay
<1>4. CASE TakeArchive
  BY <1>4, TakeArchiveKeepsEnds
<1>5. CASE EndRun
  <2>1. CASE phase = "completing"
    BY <1>5, <2>1, CompleteKeepsEnds
  <2>2. CASE phase = "failing"
    <3>1. HasRoom
      BY <1>0, <1>5, <2>2, RunHasRoom DEF EndRun, MainAt, UnderWay
    <3>2. Record("main", number, "failed", archive) /\ phase' = "idle" /\ UNCHANGED <<number, busy, stream, lost>>
          /\ archive \in SUBSET (1..MaxEvents)
      BY <1>0, <1>5, <2>2 DEF EndRun, MainAt, IInv1, Types, RunTypes
    <3> QED
      BY <2>2, <3>1, <3>2, RunRecordKeepsEnds DEF UnderWay
  <2> QED
    BY <1>5, <2>1, <2>2 DEF EndRun, MainAt
<1>6. ASSUME NEW e \in Emitters, Publish(e) PROVE Ends'
  BY <1>6, PublishKeepsEnds
<1>7. ASSUME NEW l \in Lanes, LaneStep(l) PROVE Ends'
  BY <1>7, ToolKeepsEnds DEF LaneStep
<1>8. CASE UNCHANGED <<lifecycle, journal, busy, outbox, stream, lost>>
  <2>1. Raws' /\ Archived' /\ Alone' /\ Over' /\ Known' = Known /\ (Joined' <=> Joined)
        /\ \A r \in 1..MaxRuns : AnswerNumbers(r)' = AnswerNumbers(r)
    BY <1>8, EndsUntouched DEF lifecycle
  <2>2. Completing'
    <3>1. phase = "completing" => number \in 1..MaxRuns
      BY <1>0 DEF IInv1, Types, RunTypes
    <3> QED
      BY <1>8, <2>1, <3>1 DEF Completing, IInv2, Ends, lifecycle, Settled
  <2> QED
    BY <2>1, <2>2 DEF Ends
<1>9. ASSUME NEW v \in Viewers, ViewerStep(v) PROVE Ends'
  <2>1. Types
    BY <1>0 DEF IInv1
  <2> QED
    BY <1>8, <1>9, <2>1, ViewTypesKept
<1>10. CASE UNCHANGED vars
  BY <1>8, <1>10 DEF vars
<1>a. CASE LearningEnds
  BY <1>a, LearningEndsKeepsEnds
<1>b. CASE Panic
  BY <1>b, PanicKeepsEnds
<1> QED
  BY <1>1, <1>2, <1>3, <1>4, <1>5, <1>6, <1>7, <1>9, <1>10, <1>a, <1>b DEF Next, MainStep

LEMMA EndsHoldAtFirst == ASSUME EventStreamAssumption, Init PROVE IInv2
<1>1. IInv1
  BY NumbersHoldAtFirst
<1>2. Known = {} /\ Published = {}
  BY DEF Init, Known, Published, Waiting, ToSet
<1>3. Raws
  BY <1>2 DEF Raws, Init
<1>4. Alone
  BY <1>2 DEF Alone, Init, NoEvent
<1>5. Completing /\ Over /\ Archived
  BY <1>2 DEF Completing, Over, Archived, Init, Settled
<1> QED
  BY <1>1, <1>3, <1>4, <1>5 DEF IInv2, Ends

(* Nothing of a run is published or numbered after its completed event but *)
(* the failure of its learning run, and that event's archive holds all     *)
(* earlier events of the run but the answer itself (runner.go,             *)
(* run_journal.go).                                                        *)
THEOREM CompletionClosesRun ==
  ASSUME EventStreamAssumption PROVE SafeSpec => []CompletedClosesRun
<1>1. Init => IInv2
  BY EndsHoldAtFirst
<1>2. IInv2 /\ [Next]_vars => IInv2'
  BY EndsAreKept
<1>3. IInv2 => CompletedClosesRun
  <2> SUFFICES ASSUME IInv2, NEW i \in 1..Len(stream), stream[i].kind = "completed"
               PROVE LET e == stream[i] IN
                     /\ e.archive = 1..(e.seq - 1) \ {f.seq : f \in Answers(e.run)}
                     /\ journal[e.run].maxSeq <= e.seq + 1
                     /\ \A f \in EventsOf(e.run) : f.seq > e.seq => f.kind = "failed" /\ f.archive = {}
                     /\ \A j \in (i + 1)..Len(stream) : stream[j].run = e.run => stream[j].seq > e.seq
    BY DEF CompletedClosesRun
  <2> DEFINE e == stream[i]
  <2>1. e \in Known /\ Len(stream) \in Nat /\ e.run \in 1..MaxRuns /\ e.seq \in Nat
    BY KnownEvents DEF IInv2, IInv1, Types, EventTypes
  <2>2. \A j \in (i + 1)..Len(stream) : j \in 1..Len(stream) /\ i < j
    BY <2>1
  <2>3. /\ journal[e.run].maxSeq \in {e.seq, e.seq + 1}
        /\ \A g \in Known : g.run = e.run /\ g.seq > e.seq => Late(e, g)
        /\ e.archive = 1..(e.seq - 1) \ AnswerNumbers(e.run)
    BY <2>1 DEF IInv2, Ends, Archived
  <2>4. \A f \in EventsOf(e.run) : f \in Known /\ f.run = e.run
    BY <2>1, KnownEvents DEF EventsOf, IInv2, Published
  <2>5. \A j \in (i + 1)..Len(stream) : stream[j].run = e.run => Late(e, stream[j])
    BY <2>2 DEF IInv2, Ends, Alone
  <2> QED
    BY <2>1, <2>3, <2>4, <2>5 DEF Late, AnswerNumbers
<1> QED
  BY <1>1, <1>2, <1>3, PTL DEF SafeSpec

-----------------------------------------------------------------------------
(* What the browsers are sent.                                             *)

(* The subject holds an event once, and keeps the order in which one       *)
(* goroutine numbered its own.                                             *)
Ordered ==
  /\ \A i, j \in 1..Len(stream) :
       i < j /\ stream[i].run = stream[j].run =>
         /\ stream[i].seq # stream[j].seq
         /\ stream[i].by = stream[j].by => stream[i].seq < stream[j].seq
  /\ \A i \in 1..Len(stream), e \in Waiting :
       stream[i].run = outbox[e].run /\ stream[i].by = e => stream[i].seq < outbox[e].seq

(* The position of an event on the subject.                                *)
PlaceIn(s, f) == CHOOSE i \in 1..Len(s) : s[i] = f
Place(f) == PlaceIn(stream, f)

Sent(v) == ToSet(got[v]) \cup ToSet(conn[v].queue)
Explained(v, i) == stream[i] \in Sent(v) \cup missed[v] \/ Overtook(v, i)

(* A connection passes the subject on in its order, from the number of the *)
(* last event its browser had been sent, but for what comes a second time. *)
InOrder(v) ==
  /\ Sent(v) \subseteq ToSet(stream)
  /\ ~conn[v].open => conn[v].queue = <<>>
  /\ \A a \in 1..Len(conn[v].queue) :
       conn[v].queue[a].seq > conn[v].from /\ Place(conn[v].queue[a]) < conn[v].next
  /\ \A a, b \in 1..Len(conn[v].queue) :
       a < b => Place(conn[v].queue[a]) < Place(conn[v].queue[b]) \/ conn[v].queue[b] \in again[v]

Resumes(v) ==
  \E n \in 0..Len(got[v]) :
    /\ conn[v].from = IF n = 0 THEN 0 ELSE got[v][n].seq
    /\ \A k \in 1..Len(got[v]) : n < k =>
         /\ Place(got[v][k]) < conn[v].next
         /\ \A a \in 1..Len(conn[v].queue) :
              Place(got[v][k]) < Place(conn[v].queue[a]) \/ conn[v].queue[a] \in again[v]

Bounds(v) ==
  /\ conn[v].join <= Len(stream) + 1 /\ conn[v].next <= Len(stream) + 1
  /\ Len(conn[v].queue) <= Room

(* The browser gets to an event that is no later, and has no higher        *)
(* number, than one it was sent before, only by a second delivery or after *)
(* a lower number of another run or goroutine or of a second delivery.     *)
GoesBack(v, i, k) ==
  \E m \in 1..Len(got[v]) :
    /\ i < m /\ m < k /\ got[v][m].seq < got[v][i].seq
    /\ \/ got[v][m].run # got[v][i].run
       \/ got[v][m].by # got[v][i].by
       \/ got[v][m] \in again[v]

Repeats(v) ==
  \A i, k \in 1..Len(got[v]) :
    /\ i < k /\ got[v][k].seq <= got[v][i].seq
    /\ Place(got[v][k]) <= Place(got[v][i])
    => GoesBack(v, i, k) \/ got[v][k] \in again[v]

(* What lies before an event that was sent is explained, and so is what    *)
(* the open connection has passed.                                         *)
Misses(v) ==
  /\ \A i, j \in 1..Len(stream) :
       conn[v].join <= i /\ i < j /\ stream[j] \in Sent(v) => Explained(v, i)
  /\ conn[v].open =>
       \A i \in 1..Len(stream) : conn[v].join <= i /\ i < conn[v].next => Explained(v, i)

Viewed(v) ==
  Bounds(v) /\ InOrder(v) /\ (conn[v].open => Resumes(v)) /\ Repeats(v) /\ Misses(v)

IInv == IInv2 /\ Ordered /\ \A v \in Viewers : Viewed(v)

-----------------------------------------------------------------------------
LEMMA InToSet == ASSUME NEW S, NEW s \in Seq(S), NEW x
  PROVE x \in ToSet(s) <=> \E i \in 1..Len(s) : s[i] = x
BY DEF ToSet

LEMMA PlaceIs == ASSUME Types, Ordered
  PROVE /\ Len(stream) \in Nat
        /\ \A i \in 1..Len(stream) : stream[i] \in Event /\ stream[i] \in ToSet(stream) /\ Place(stream[i]) = i
        /\ \A f \in ToSet(stream) : f \in Event /\ Place(f) \in 1..Len(stream) /\ stream[Place(f)] = f
<1>1. stream \in Seq(Event) /\ Len(stream) \in Nat
  BY DEF Types, EventTypes
<1>2. \A i \in 1..Len(stream) : stream[i] \in Event /\ stream[i] \in ToSet(stream)
  BY <1>1, InToSet
<1>3. \A i, j \in 1..Len(stream) : stream[i] = stream[j] => i = j
  <2> SUFFICES ASSUME NEW i \in 1..Len(stream), NEW j \in 1..Len(stream), stream[i] = stream[j], i # j PROVE FALSE
    OBVIOUS
  <2>1. i < j \/ j < i
    BY <1>1
  <2> QED
    BY <2>1 DEF Ordered
<1>4. \A i \in 1..Len(stream) : Place(stream[i]) = i
  BY <1>3 DEF Place, PlaceIn
<1>5. \A f \in ToSet(stream) : \E i \in 1..Len(stream) : stream[i] = f
  BY <1>1, InToSet
<1> QED
  BY <1>1, <1>2, <1>4, <1>5

LEMMA SameRunSameNumber ==
  ASSUME Types, Ordered, NEW f \in ToSet(stream), NEW g \in ToSet(stream), f.run = g.run
  PROVE /\ f.seq = g.seq => f = g
        /\ f.by = g.by /\ f.seq < g.seq => Place(f) < Place(g)
<1>1. /\ Place(f) \in 1..Len(stream) /\ stream[Place(f)] = f
      /\ Place(g) \in 1..Len(stream) /\ stream[Place(g)] = g
      /\ Len(stream) \in Nat /\ f \in Event /\ g \in Event
  BY PlaceIs
<1>2. Place(f) < Place(g) \/ Place(f) = Place(g) \/ Place(g) < Place(f)
  BY <1>1
<1>3. f.seq \in Nat /\ g.seq \in Nat
  BY <1>1, EventFields
<1>4. f.seq = g.seq => f = g
  BY <1>1, <1>2 DEF Ordered
<1>5. ASSUME f.by = g.by, f.seq < g.seq PROVE Place(f) < Place(g)
  <2>1. Place(f) = Place(g) => f = g
    BY <1>1
  <2>2. Place(g) < Place(f) => g.seq < f.seq
    BY <1>1, <1>5 DEF Ordered
  <2> QED
    BY <1>2, <1>3, <1>5, <2>1, <2>2
<1> QED
  BY <1>4, <1>5

(* Every step publishes an event, or leaves the subject alone.             *)
LEMMA ProducerSteps ==
  ASSUME EventStreamAssumption, IInv2, [Next]_vars
  PROVE \/ \E e \in Emitters : Publish(e)
        \/ /\ stream' = stream
           /\ \/ outbox' = outbox
              \/ \E e \in Emitters, r \in 1..MaxRuns : \E n :
                   /\ outbox' = [outbox EXCEPT ![e] = n]
                   /\ n.run = r /\ n.seq = journal[r].maxSeq + 1
           /\ \/ viewing' = viewing
              \/ \E v \in Viewers : ViewerStep(v)
<1> DEFINE Given == \E e \in Emitters, r \in 1..MaxRuns : \E n :
                   /\ outbox' = [outbox EXCEPT ![e] = n]
                   /\ n.run = r /\ n.seq = journal[r].maxSeq + 1
<1>0. /\ Types /\ number \in 0..MaxRuns /\ (phase # "idle" => number \in 1..MaxRuns)
      /\ busy \in [Lanes -> 0..MaxRuns] /\ "main" \in Emitters /\ Lanes \subseteq Emitters
  BY DEF IInv2, IInv1, Types, RunTypes, Emitters
<1>1. ASSUME NEW e \in Emitters, NEW r \in 1..MaxRuns, NEW kind, NEW facts, Record(e, r, kind, facts)
      PROVE Given
  <2>1. outbox' = [outbox EXCEPT ![e] = Numbered(e, r, kind, facts)]
    BY <1>1 DEF Record, Numbered
  <2>2. Numbered(e, r, kind, facts).run = r /\ Numbered(e, r, kind, facts).seq = journal[r].maxSeq + 1
    BY DEF Numbered
  <2> QED
    BY <2>1, <2>2
<1> HIDE DEF Given
<1>2. CASE StartRun
  <2>1. number + 1 \in 1..MaxRuns
    BY <1>0, <1>2 DEF StartRun, EventStreamAssumption
  <2> QED
    BY <1>0, <1>1, <1>2, <2>1 DEF StartRun, Given
<1>3. CASE EmitDelta \/ EmitResult \/ EndRun \/ Panic
  <2>1. stream' = stream /\ viewing' = viewing /\ number \in 1..MaxRuns
    BY <1>0, <1>3 DEF EmitDelta, EmitResult, EndRun, Panic, MainAt
  <2>2. \E kind, facts : Record("main", number, kind, facts)
    BY <1>3 DEF EmitDelta, EmitResult, EndRun, Panic
  <2> QED
    BY <1>0, <1>1, <2>1, <2>2 DEF Given
<1>4. CASE TakeArchive \/ LearningEnds
  BY <1>4 DEF TakeArchive, LearningEnds
<1>5. ASSUME NEW l \in Lanes, LaneStep(l)
      PROVE stream' = stream /\ viewing' = viewing /\ Given
  <2>1. CASE StartTool(l)
    BY <1>0, <1>1, <2>1 DEF StartTool, MainAt
  <2>2. CASE EndTool(l)
    <3>1. busy[l] \in 1..MaxRuns
      BY <1>0, <2>2 DEF EndTool
    <3> QED
      BY <1>0, <1>1, <2>2, <3>1 DEF EndTool
  <2> QED
    BY <1>5, <2>1, <2>2 DEF LaneStep
<1>6. ASSUME NEW v \in Viewers, ViewerStep(v) PROVE stream' = stream /\ outbox' = outbox
  BY <1>6 DEF ViewerStep, Connect, Deliver, Redeliver, Send, Leave
<1>7. CASE UNCHANGED vars
  BY <1>7 DEF vars, viewing
<1> QED
  BY <1>2, <1>3, <1>4, <1>5, <1>6, <1>7 DEF Next, MainStep, Given

LEMMA OrderIsKept == ASSUME EventStreamAssumption, IInv2, Ordered, [Next]_vars PROVE Ordered'
<1>0. IInv1 /\ Types /\ Numbers /\ stream \in Seq(Event) /\ Len(stream) \in Nat
      /\ outbox \in [Emitters -> Event \cup {NoEvent}]
  BY DEF IInv2, IInv1, Types, EventTypes
<1>1. ASSUME NEW e \in Emitters, Publish(e) PROVE Ordered'
  <2> DEFINE x == outbox[e]
  <2>1. /\ x \in Event /\ e \in Waiting /\ Waiting' = Waiting \ {e}
        /\ outbox' = [outbox EXCEPT ![e] = NoEvent]
        /\ \/ stream' = Append(stream, x)
           \/ stream' = stream
    BY <1>0, <1>1, PublishEffect
  <2>2. x.by = e /\ \A i \in 1..Len(stream) : stream[i].run = x.run => stream[i].seq # x.seq
    BY <1>0, <2>1, KnownEvents DEF Numbers
  <2>3. \A i \in 1..Len(stream) : stream[i].run = x.run /\ stream[i].by = e => stream[i].seq < x.seq
    BY <2>1 DEF Ordered
  <2>4. \A d \in Waiting' : d \in Waiting /\ d # e /\ outbox'[d] = outbox[d]
    BY <1>0, <2>1 DEF Waiting
  <2>x. \A d \in Waiting : d # e /\ x.by = e => x.by # d
    OBVIOUS
  <2> HIDE DEF x
  <2>5. CASE stream' = stream
    BY <2>4, <2>5 DEF Ordered
  <2>6. CASE stream' = Append(stream, x)
    <3>1. /\ Len(stream') = Len(stream) + 1
          /\ \A k \in 1..Len(stream) : stream'[k] = stream[k]
          /\ stream'[Len(stream) + 1] = x
      BY <1>0, <2>1, <2>6
    <3>2. ASSUME NEW i \in 1..Len(stream'), NEW j \in 1..Len(stream'), i < j, stream'[i].run = stream'[j].run
          PROVE /\ stream'[i].seq # stream'[j].seq
                /\ stream'[i].by = stream'[j].by => stream'[i].seq < stream'[j].seq
      <4>1. i \in 1..Len(stream) /\ stream'[i] = stream[i]
        BY <1>0, <3>1, <3>2
      <4>2. CASE j \in 1..Len(stream)
        BY <3>1, <3>2, <4>1, <4>2 DEF Ordered
      <4>3. CASE j = Len(stream) + 1
        BY <2>2, <2>3, <3>1, <3>2, <4>1, <4>3
      <4> QED
        BY <1>0, <3>1, <4>2, <4>3
    <3>3. ASSUME NEW i \in 1..Len(stream'), NEW d \in Waiting', stream'[i].run = outbox'[d].run, stream'[i].by = d
          PROVE stream'[i].seq < outbox'[d].seq
      <4>1. CASE i \in 1..Len(stream)
        BY <2>4, <3>1, <3>3, <4>1 DEF Ordered
      <4>2. CASE i = Len(stream) + 1
        BY <2>2, <2>4, <3>1, <3>3, <4>2
      <4> QED
        BY <1>0, <3>1, <4>1, <4>2
    <3> QED
      BY <3>2, <3>3 DEF Ordered
  <2> QED
    BY <2>1, <2>5, <2>6
<1>2. ASSUME stream' = stream, outbox' = outbox PROVE Ordered'
  BY <1>2 DEF Ordered, Waiting
<1>3. ASSUME stream' = stream, NEW e \in Emitters, NEW r \in 1..MaxRuns, NEW n,
             outbox' = [outbox EXCEPT ![e] = n], n.run = r, n.seq = journal[r].maxSeq + 1
      PROVE Ordered'
  <2>1. \A d \in Emitters : outbox'[d] = IF d = e THEN n ELSE outbox[d]
    BY <1>0, <1>3
  <2>2. \A i \in 1..Len(stream) : stream[i].run = r => stream[i].seq < n.seq
    BY <1>0, <1>3, KnownEvents
  <2>3. ASSUME NEW i \in 1..Len(stream), NEW d \in Waiting', stream[i].run = outbox'[d].run, stream[i].by = d
        PROVE stream[i].seq < outbox'[d].seq
    <3>1. CASE d = e
      BY <1>3, <2>1, <2>2, <2>3, <3>1
    <3>2. CASE d # e
      <4>1. d \in Waiting /\ outbox'[d] = outbox[d]
        BY <2>1, <3>2 DEF Waiting
      <4> QED
        BY <2>3, <4>1 DEF Ordered
    <3> QED
      BY <3>1, <3>2
  <2> QED
    BY <1>3, <2>3 DEF Ordered
<1> QED
  BY <1>1, <1>2, <1>3, ProducerSteps

LEMMA SentEvents == ASSUME Types, Ordered, NEW v \in Viewers, InOrder(v)
  PROVE /\ conn[v] \in Connection /\ got[v] \in Seq(Event) /\ missed[v] \subseteq Event
        /\ conn[v].queue \in Seq(Event) /\ Len(conn[v].queue) \in Nat /\ Len(got[v]) \in Nat
        /\ \A f \in Sent(v) : f \in ToSet(stream) /\ f \in Event /\ Place(f) \in 1..Len(stream)
        /\ \A a \in 1..Len(conn[v].queue) : conn[v].queue[a] \in Sent(v)
        /\ \A k \in 1..Len(got[v]) : got[v][k] \in Sent(v)
<1>1. conn[v] \in Connection /\ got[v] \in Seq(Event) /\ missed[v] \subseteq Event
  BY DEF Types, ViewTypes
<1>2. conn[v].queue \in Seq(Event)
  BY <1>1 DEF Connection
<1>3. \A a \in 1..Len(conn[v].queue) : conn[v].queue[a] \in Sent(v)
  BY <1>2, InToSet DEF Sent
<1>4. \A k \in 1..Len(got[v]) : got[v][k] \in Sent(v)
  BY <1>1, InToSet DEF Sent
<1>5. \A f \in Sent(v) : f \in ToSet(stream)
  BY DEF InOrder
<1> QED
  BY <1>1, <1>2, <1>3, <1>4, <1>5, PlaceIs

LEMMA ViewUntouched ==
  ASSUME NEW v \in Viewers, Viewed(v), stream' = stream, conn'[v] = conn[v], got'[v] = got[v], missed'[v] = missed[v],
         again'[v] = again[v]
  PROVE Viewed(v)'
<1>0. Sent(v)' = Sent(v) /\ \A f : Place(f)' = Place(f)
  BY DEF Sent, Place
<1>1. Sent(v)' = Sent(v) /\ Bounds(v)' /\ (conn[v].open => Resumes(v)') /\ Repeats(v)'
  <2>1. Bounds(v)'
    BY DEF Viewed, Bounds
  <2>2. conn[v].open => Resumes(v)'
    BY DEF Viewed, Resumes, Place
  <2>3. Repeats(v)'
    BY <1>0 DEF Viewed, Repeats, GoesBack
  <2> QED
    BY <1>0, <2>1, <2>2, <2>3
<1>2. InOrder(v)'
  BY <1>1 DEF Viewed, InOrder, Place
<1>3. \A i : Explained(v, i) => Explained(v, i)'
  BY <1>1 DEF Explained, Overtook
<1>4. Misses(v)'
  BY <1>1, <1>3 DEF Viewed, Misses
<1> QED
  BY <1>1, <1>2, <1>4 DEF Viewed

(* What explains an event goes on explaining it.                           *)
LEMMA StaysExplained ==
  ASSUME NEW v \in Viewers, stream' = stream, ToSet(got[v]) \subseteq ToSet(got'[v]),
         Sent(v) \cup missed[v] \subseteq Sent(v)' \cup missed'[v], NEW i, Explained(v, i)
  PROVE Explained(v, i)'
BY DEF Explained, Overtook

LEMMA PublishKeepsViews ==
  ASSUME EventStreamAssumption, IInv2, Ordered, NEW e \in Emitters, Publish(e), NEW v \in Viewers, Viewed(v)
  PROVE Viewed(v)'
<1> DEFINE x == outbox[e]
<1>0. IInv1 /\ Types /\ Numbers /\ stream \in Seq(Event) /\ Len(stream) \in Nat
  BY DEF IInv2, IInv1, Types, EventTypes
<1>1. conn' = conn /\ got' = got /\ missed' = missed /\ again' = again
  BY DEF Publish, viewing
<1>2. /\ x \in Event /\ e \in Waiting
      /\ \/ stream' = Append(stream, x)
         \/ stream' = stream
  BY <1>0, PublishEffect
<1>3. x \notin ToSet(stream)
  BY <1>0, <1>2 DEF Numbers, Published
<1> HIDE DEF x
<1>4. CASE stream' = stream
  BY <1>1, <1>4, ViewUntouched
<1>5. CASE stream' = Append(stream, x)
  <2>1. /\ stream' \in Seq(Event) /\ Len(stream') = Len(stream) + 1
        /\ \A i \in 1..Len(stream) : stream'[i] = stream[i]
        /\ stream'[Len(stream) + 1] = x
    BY <1>0, <1>2, <1>5
  <2>2. ToSet(stream) \subseteq ToSet(stream')
    BY <1>0, <1>2, <1>5, RangeOfAppend
  <2>3. \A f \in Sent(v) : PlaceIn(stream', f) = Place(f)
    <3> SUFFICES ASSUME NEW f \in Sent(v) PROVE PlaceIn(stream', f) = Place(f)
      OBVIOUS
    <3>1. Place(f) \in 1..Len(stream) /\ stream[Place(f)] = f
      BY <1>0, SentEvents, PlaceIs DEF Viewed
    <3>2. ASSUME NEW i \in 1..Len(stream'), stream'[i] = f PROVE i = Place(f)
      <4>1. i # Len(stream) + 1
        BY <1>0, <1>3, <2>1, <3>2, SentEvents DEF Viewed
      <4>2. i \in 1..Len(stream) /\ stream[i] = f
        BY <1>0, <2>1, <3>2, <4>1
      <4> QED
        BY <1>0, <4>2, PlaceIs
    <3>3. Place(f) \in 1..Len(stream') /\ stream'[Place(f)] = f
      BY <1>0, <2>1, <3>1
    <3>4. PICK p \in 1..Len(stream) : p = Place(f)
      BY <3>1
    <3>5. p \in 1..Len(stream') /\ stream'[p] = f /\ \A i \in 1..Len(stream') : stream'[i] = f => i = p
      BY <3>2, <3>3, <3>4
    <3>6. (CHOOSE i \in 1..Len(stream') : stream'[i] = f) = p
      BY <3>5
    <3> QED
      BY <3>4, <3>6 DEF PlaceIn
  <2>4. Sent(v)' = Sent(v) /\ Sent(v) \subseteq ToSet(stream)
    BY <1>1 DEF Sent, Viewed, InOrder
  <2>5. /\ \A a \in 1..Len(conn[v].queue) : PlaceIn(stream', conn[v].queue[a]) = Place(conn[v].queue[a])
        /\ \A k \in 1..Len(got[v]) : PlaceIn(stream', got[v][k]) = Place(got[v][k])
    BY <1>0, <2>3, SentEvents DEF Viewed
  <2>6. Bounds(v)'
    <3>1. conn[v].join \in Nat /\ conn[v].next \in Nat
      BY <1>0, SentEvents DEF Viewed, Connection
    <3> QED
      BY <1>0, <1>1, <2>1, <3>1 DEF Viewed, Bounds
  <2>7. InOrder(v)'
    BY <1>1, <2>2, <2>4, <2>5 DEF Viewed, InOrder, Place
  <2>8. conn[v].open => Resumes(v)'
    BY <1>1, <2>5 DEF Viewed, Resumes, Place
  <2>9. Repeats(v)'
    BY <1>1, <2>5 DEF Viewed, Repeats, GoesBack, Place
  <2>10. \A i \in 1..Len(stream) : Explained(v, i) => Explained(v, i)'
    <3> SUFFICES ASSUME NEW i \in 1..Len(stream), Explained(v, i) PROVE Explained(v, i)'
      OBVIOUS
    <3>1. \A j \in 1..(i - 1) : j \in 1..Len(stream)
      BY <1>0
    <3> QED
      BY <1>1, <2>1, <2>4, <3>1 DEF Explained, Overtook
  <2>11. Misses(v)'
    <3>1. ASSUME NEW i \in 1..Len(stream'), NEW j \in 1..Len(stream'),
                 conn[v].join <= i, i < j, stream'[j] \in Sent(v)
          PROVE Explained(v, i)'
      <4>1. j # Len(stream) + 1
        BY <1>3, <2>1, <2>4, <3>1
      <4>2. j \in 1..Len(stream) /\ i \in 1..Len(stream) /\ stream[j] \in Sent(v)
        BY <1>0, <2>1, <3>1, <4>1
      <4> QED
        BY <2>10, <3>1, <4>2 DEF Viewed, Misses
    <3>2. ASSUME conn[v].open, NEW i \in 1..Len(stream'), conn[v].join <= i, i < conn[v].next
          PROVE Explained(v, i)'
      <4>1. conn[v].next \in Nat /\ conn[v].next <= Len(stream) + 1
        BY <1>0, SentEvents DEF Viewed, Connection, Bounds
      <4>2. i \in 1..Len(stream)
        BY <1>0, <2>1, <3>2, <4>1
      <4> QED
        BY <2>10, <3>2, <4>2 DEF Viewed, Misses
    <3> QED
      BY <1>1, <2>4, <3>1, <3>2 DEF Misses
  <2> QED
    BY <1>1, <2>6, <2>7, <2>8, <2>9, <2>11 DEF Viewed
<1> QED
  BY <1>2, <1>4, <1>5

LEMMA ConnectKeepsView ==
  ASSUME EventStreamAssumption, IInv2, Ordered, NEW v \in Viewers, Viewed(v), Connect(v)
  PROVE Viewed(v)'
<1> DEFINE from == LastSequence(v)
           new == Len(stream) + 1
<1>0. Types /\ ViewTypes /\ Len(stream) \in Nat /\ conn \in [Viewers -> Connection]
      /\ conn[v] \in Connection /\ got[v] \in Seq(Event) /\ Len(got[v]) \in Nat /\ Room \in Nat
  BY DEF IInv2, IInv1, Types, EventTypes, ViewTypes, EventStreamAssumption
<1>1. /\ stream' = stream /\ got' = got /\ missed' = missed /\ again' = again /\ ~conn[v].open
      /\ conn'[v].open /\ conn'[v].from = from /\ conn'[v].queue = <<>>
      /\ conn'[v].next = StartOf(from, new)
      /\ conn'[v].join = IF from = 0 THEN new ELSE conn[v].join
  BY <1>0 DEF Connect
<1>2. conn[v].queue = <<>> /\ Len(conn'[v].queue) = 0
  BY <1>1 DEF Viewed, InOrder
<1>3. /\ from = IF Len(got[v]) = 0 THEN 0 ELSE got[v][Len(got[v])].seq
      /\ Len(got[v]) # 0 => from # 0
  BY <1>0, LastIsIn
<1>4. conn[v].join \in Nat /\ conn[v].join <= Len(stream) + 1
  BY <1>0 DEF Connection, Viewed, Bounds
<1> HIDE DEF from
<1>5. Sent(v)' = Sent(v)
  BY <1>1, <1>2 DEF Sent
<1>6. Bounds(v)'
  BY <1>0, <1>1, <1>2, <1>4 DEF Bounds, StartOf
<1>7. InOrder(v)'
  BY <1>1, <1>2, <1>5 DEF InOrder, Viewed
<1>8. Resumes(v)'
  <2>1. \A k \in 1..Len(got[v]) : ~(Len(got[v]) < k)
    BY <1>0
  <2> QED
    BY <1>0, <1>1, <1>3, <2>1 DEF Resumes
<1>9. Repeats(v)'
  <2>1. \A f : Place(f)' = Place(f)
    BY <1>1 DEF Place
  <2>2. got'[v] = got[v] /\ again'[v] = again[v] /\ Repeats(v)
    BY <1>1 DEF Viewed
  <2> QED
    BY <2>1, <2>2 DEF Repeats, GoesBack
<1>10. \A i : Explained(v, i) => Explained(v, i)'
  BY <1>1, <1>5, StaysExplained
<1>11. Misses(v)'
  <2>1. CASE from = 0
    <3>1. \A i \in 1..Len(stream) : ~(conn'[v].join <= i)
      BY <1>0, <1>1, <2>1
    <3> QED
      BY <1>1, <3>1 DEF Misses
  <2>2. CASE from # 0
    <3>1. conn'[v].join = conn[v].join /\ conn'[v].next = 1
      BY <1>1, <2>2 DEF StartOf
    <3>2. \A i \in 1..Len(stream) : ~(i < 1)
      BY <1>0
    <3> QED
      BY <1>1, <1>5, <1>10, <3>1, <3>2 DEF Viewed, Misses
  <2> QED
    BY <2>1, <2>2
<1> QED
  BY <1>6, <1>7, <1>8, <1>9, <1>11 DEF Viewed

LEMMA DeliverKeepsView ==
  ASSUME EventStreamAssumption, IInv2, Ordered, NEW v \in Viewers, Viewed(v), Deliver(v)
  PROVE Viewed(v)'
<1> DEFINE c == conn[v]
           e == stream[c.next]
           q == c.queue
<1>0. /\ Types /\ Len(stream) \in Nat /\ conn \in [Viewers -> Connection] /\ missed \in [Viewers -> SUBSET Event]
      /\ c \in Connection /\ q \in Seq(Event) /\ Len(q) \in Nat /\ got[v] \in Seq(Event) /\ Len(got[v]) \in Nat
      /\ Room \in Nat /\ c.next \in Nat /\ c.next # 0 /\ c.join \in Nat /\ c.from \in Nat
  <2>1. /\ Types /\ Len(stream) \in Nat /\ conn \in [Viewers -> Connection] /\ missed \in [Viewers -> SUBSET Event]
        /\ Room \in Nat
    BY DEF IInv2, IInv1, Types, EventTypes, ViewTypes, EventStreamAssumption
  <2>2. c \in Connection /\ q \in Seq(Event) /\ Len(q) \in Nat /\ got[v] \in Seq(Event) /\ Len(got[v]) \in Nat
    BY <2>1, SentEvents DEF Viewed
  <2>3. c.next \in Nat /\ c.next # 0 /\ c.join \in Nat /\ c.from \in Nat
    BY <2>2 DEF Connection, EventStreamAssumption
  <2> QED
    BY <2>1, <2>2, <2>3
<1>1. /\ stream' = stream /\ got' = got /\ again' = again /\ c.open /\ c.next \in 1..Len(stream)
      /\ conn'[v].open /\ conn'[v].from = c.from /\ conn'[v].join = c.join /\ conn'[v].next = c.next + 1
      /\ \/ /\ Wanted(v, e) /\ Fits(v)
            /\ conn'[v].queue = Append(q, e) /\ missed'[v] = missed[v]
         \/ /\ Wanted(v, e) /\ ~Fits(v)
            /\ conn'[v].queue = q /\ missed'[v] = missed[v] \cup {e}
         \/ ~Wanted(v, e) /\ conn'[v].queue = q /\ missed'[v] = missed[v]
  <2>1. /\ Handle(v, e, c.next + 1) /\ stream' = stream /\ got' = got /\ again' = again
        /\ c.open /\ c.next \in 1..Len(stream)
    BY <1>0 DEF Deliver
  <2>2. e \in Event /\ c.next + 1 \in Nat \ {0}
    BY <1>0, <2>1, PlaceIs
  <2> HIDE DEF e
  <2> QED
    BY <1>0, <2>1, <2>2, HandleEffect
<1>2. e \in Event /\ Place(e) = c.next /\ e \in ToSet(stream)
  BY <1>0, <1>1, PlaceIs
<1>3. /\ InOrder(v) /\ Resumes(v) /\ Bounds(v) /\ Misses(v)
      /\ \A a \in 1..Len(q) : q[a].seq > c.from /\ Place(q[a]) < c.next /\ Place(q[a]) \in Nat
      /\ \A a, b \in 1..Len(q) : a < b => Place(q[a]) < Place(q[b]) \/ q[b] \in again[v]
  BY <1>0, <1>1, SentEvents DEF Viewed, InOrder
<1>4. \A f : PlaceIn(stream', f) = Place(f)
  BY <1>1 DEF Place
<1>5. Repeats(v)'
  <2>1. \A f : Place(f)' = Place(f)
    BY <1>1 DEF Place
  <2>2. got'[v] = got[v] /\ again'[v] = again[v] /\ Repeats(v)
    BY <1>1 DEF Viewed
  <2> QED
    BY <2>1, <2>2 DEF Repeats, GoesBack
<1>6. PICK n \in 0..Len(got[v]) :
        /\ c.from = IF n = 0 THEN 0 ELSE got[v][n].seq
        /\ \A k \in 1..Len(got[v]) : n < k =>
             /\ Place(got[v][k]) < c.next
             /\ \A a \in 1..Len(q) : Place(got[v][k]) < Place(q[a]) \/ q[a] \in again[v]
  BY <1>3 DEF Resumes
<1>7. \A k \in 1..Len(got[v]) : Place(got[v][k]) \in Nat /\ got[v][k] \in Event /\ got[v][k] \in ToSet(stream)
  BY <1>0, <1>3, SentEvents
<1>8. ASSUME \A i : i = c.next /\ c.join <= i => Explained(v, i)',
             Sent(v) \cup missed[v] \subseteq Sent(v)' \cup missed'[v],
             Sent(v)' \subseteq Sent(v) \cup {e}
      PROVE Misses(v)'
  <2>1. \A i : Explained(v, i) => Explained(v, i)'
    BY <1>1, <1>8, StaysExplained
  <2>2. ASSUME NEW i \in 1..Len(stream), c.join <= i, i < c.next + 1 PROVE Explained(v, i)'
    <3>1. CASE i = c.next
      BY <1>8, <2>2, <3>1
    <3>2. CASE i # c.next
      <4>1. i < c.next
        BY <1>0, <2>2, <3>2
      <4> QED
        BY <1>1, <1>3, <2>1, <2>2, <4>1 DEF Misses
    <3> QED
      BY <3>1, <3>2
  <2>3. ASSUME NEW i \in 1..Len(stream), NEW j \in 1..Len(stream), c.join <= i, i < j, stream[j] \in Sent(v)'
        PROVE Explained(v, i)'
    <3>1. CASE stream[j] \in Sent(v)
      BY <1>3, <2>1, <2>3, <3>1 DEF Misses
    <3>2. CASE stream[j] = e
      <4>1. j = c.next
        BY <1>0, <1>1, <1>2, <3>2, PlaceIs
      <4>2. i < c.next + 1
        BY <1>0, <2>3, <4>1
      <4> QED
        BY <2>2, <2>3, <4>2
    <3> QED
      BY <1>8, <2>3, <3>1, <3>2
  <2> QED
    BY <1>1, <2>2, <2>3 DEF Misses
<1>9. CASE Wanted(v, e) /\ Fits(v) /\ conn'[v].queue = Append(q, e) /\ missed'[v] = missed[v]
  <2>1. /\ Len(conn'[v].queue) = Len(q) + 1 /\ conn'[v].queue[Len(q) + 1] = e
        /\ \A a \in 1..Len(q) : conn'[v].queue[a] = q[a]
        /\ ToSet(conn'[v].queue) = ToSet(q) \cup {e}
        /\ e.seq > c.from /\ Len(q) < Room
    BY <1>0, <1>2, <1>9, RangeOfAppend DEF Wanted, Fits
  <2>2. Sent(v)' = Sent(v) \cup {e}
    BY <1>1, <2>1 DEF Sent
  <2>3. Bounds(v)'
    BY <1>0, <1>1, <1>3, <2>1 DEF Bounds
  <2>4. ASSUME NEW a \in 1..Len(conn'[v].queue)
        PROVE /\ conn'[v].queue[a].seq > c.from /\ Place(conn'[v].queue[a]) < c.next + 1
              /\ a \in 1..Len(q) \/ a = Len(q) + 1
    <3>1. CASE a \in 1..Len(q)
      <4>1. Place(q[a]) < c.next + 1
        BY <1>0, <1>3, <3>1
      <4> QED
        BY <1>3, <2>1, <3>1, <4>1
    <3>2. CASE a = Len(q) + 1
      BY <1>0, <1>2, <2>1, <3>2
    <3> QED
      BY <1>0, <2>1, <3>1, <3>2
  <2>5. ASSUME NEW a \in 1..Len(conn'[v].queue), NEW b \in 1..Len(conn'[v].queue), a < b
        PROVE Place(conn'[v].queue[a]) < Place(conn'[v].queue[b]) \/ conn'[v].queue[b] \in again[v]
    <3>1. a \in 1..Len(q)
      BY <1>0, <2>1, <2>5
    <3>2. CASE b \in 1..Len(q)
      BY <1>3, <2>1, <2>5, <3>1, <3>2
    <3>3. CASE b = Len(q) + 1
      BY <1>2, <1>3, <2>1, <3>1, <3>3
    <3> QED
      BY <2>4, <3>2, <3>3
  <2>6. InOrder(v)'
    BY <1>1, <1>2, <1>3, <1>4, <2>2, <2>4, <2>5 DEF InOrder, Place
  <2>7. Resumes(v)'
    <3>1. ASSUME NEW k \in 1..Len(got[v]), n < k
          PROVE /\ Place(got[v][k]) < c.next + 1
                /\ \A a \in 1..Len(conn'[v].queue) :
                     Place(got[v][k]) < Place(conn'[v].queue[a]) \/ conn'[v].queue[a] \in again[v]
      <4>1. Place(got[v][k]) < c.next + 1
        BY <1>0, <1>6, <1>7, <3>1
      <4>2. ASSUME NEW a \in 1..Len(conn'[v].queue)
            PROVE Place(got[v][k]) < Place(conn'[v].queue[a]) \/ conn'[v].queue[a] \in again[v]
        <5>1. CASE a \in 1..Len(q)
          BY <1>6, <2>1, <3>1, <5>1
        <5>2. CASE a = Len(q) + 1
          BY <1>2, <1>6, <2>1, <3>1, <5>2
        <5> QED
          BY <2>4, <5>1, <5>2
      <4> QED
        BY <4>1, <4>2
    <3> QED
      BY <1>1, <1>4, <1>6, <3>1 DEF Resumes, Place
  <2>8. Misses(v)'
    <3>1. \A i : i = c.next => Explained(v, i)'
      BY <1>1, <2>2 DEF Explained
    <3> QED
      BY <1>8, <1>9, <2>2, <3>1
  <2> QED
    BY <1>5, <2>3, <2>6, <2>7, <2>8 DEF Viewed
<1>10. ASSUME conn'[v].queue = q PROVE Bounds(v)' /\ InOrder(v)' /\ Resumes(v)' /\ Sent(v)' = Sent(v)
  <2>1. Sent(v)' = Sent(v)
    BY <1>1, <1>10 DEF Sent
  <2>2. Bounds(v)'
    BY <1>0, <1>1, <1>3, <1>10 DEF Bounds
  <2>3. InOrder(v)'
    <3>1. \A a \in 1..Len(q) : Place(q[a]) < c.next + 1
      BY <1>0, <1>3
    <3> QED
      BY <1>1, <1>3, <1>4, <1>10, <2>1, <3>1 DEF InOrder, Place
  <2>4. Resumes(v)'
    <3>1. \A k \in 1..Len(got[v]) : n < k => Place(got[v][k]) < c.next + 1
      BY <1>0, <1>6, <1>7
    <3> QED
      BY <1>1, <1>4, <1>6, <1>10, <3>1 DEF Resumes, Place
  <2> QED
    BY <2>1, <2>2, <2>3, <2>4
<1>11. CASE Wanted(v, e) /\ conn'[v].queue = q /\ missed'[v] = missed[v] \cup {e}
  <2>1. \A i : i = c.next => Explained(v, i)'
    BY <1>1, <1>11 DEF Explained
  <2>2. Misses(v)'
    BY <1>8, <1>10, <1>11, <2>1
  <2> QED
    BY <1>5, <1>10, <1>11, <2>2 DEF Viewed
<1>12. CASE ~Wanted(v, e) /\ conn'[v].queue = q /\ missed'[v] = missed[v]
  <2>1. ASSUME c.join <= c.next PROVE Explained(v, c.next)
    <3>1. e.seq \in Nat /\ e.seq # 0 /\ e.seq <= c.from
      BY <1>0, <1>2, <1>12, EventFields DEF Wanted
    <3>2. n \in 1..Len(got[v]) /\ c.from = got[v][n].seq
      BY <1>0, <1>6, <3>1
    <3> DEFINE f == got[v][n]
    <3>3. /\ f \in ToSet(stream) /\ f \in Event /\ f \in ToSet(got[v])
          /\ Place(f) \in 1..Len(stream) /\ stream[Place(f)] = f /\ f.seq >= e.seq
      BY <1>0, <1>7, <3>1, <3>2, InToSet, PlaceIs
    <3> HIDE DEF f
    <3>4. CASE f.run # e.run
      BY <3>3, <3>4 DEF Explained, Overtook
    <3>5. CASE f.run = e.run /\ Place(f) < c.next
      <4>1. Place(f) \in 1..(c.next - 1)
        BY <1>0, <3>3, <3>5
      <4> QED
        BY <3>3, <4>1 DEF Explained, Overtook
    <3>6. CASE c.next < Place(f)
      <4>1. stream[Place(f)] \in Sent(v)
        BY <3>3 DEF Sent
      <4> QED
        BY <1>1, <1>3, <2>1, <3>3, <3>6, <4>1 DEF Misses
    <3>7. CASE Place(f) = c.next
      <4>1. e \in Sent(v)
        BY <3>3, <3>7 DEF Sent
      <4> QED
        BY <4>1 DEF Explained
    <3>8. Place(f) < c.next \/ c.next < Place(f) \/ Place(f) = c.next
      BY <1>0, <3>3
    <3> QED
      BY <3>4, <3>5, <3>6, <3>7, <3>8
  <2>2. \A i : i = c.next /\ c.join <= i => Explained(v, i)'
    BY <1>1, <1>10, <1>12, <2>1, StaysExplained
  <2>3. Misses(v)'
    BY <1>8, <1>10, <1>12, <2>2
  <2> QED
    BY <1>5, <1>10, <1>12, <2>3 DEF Viewed
<1> QED
  BY <1>1, <1>9, <1>11, <1>12

LEMMA RedeliverKeepsView ==
  ASSUME EventStreamAssumption, IInv2, Ordered, NEW v \in Viewers, Viewed(v), Redeliver(v)
  PROVE Viewed(v)'
<1> DEFINE c == conn[v]
           q == c.queue
<1>0. /\ Types /\ stream \in Seq(Event) /\ Len(stream) \in Nat /\ conn \in [Viewers -> Connection]
      /\ missed \in [Viewers -> SUBSET Event] /\ again \in [Viewers -> SUBSET Event] /\ Room \in Nat
  BY DEF IInv2, IInv1, Types, EventTypes, ViewTypes, EventStreamAssumption
<1>a. /\ c \in Connection /\ q \in Seq(Event) /\ Len(q) \in Nat /\ got[v] \in Seq(Event) /\ Len(got[v]) \in Nat
  BY <1>0, SentEvents DEF Viewed
<1>b. c.next \in Nat \ {0} /\ c.join \in Nat
  BY <1>a DEF Connection
<1>c. PICK p \in 1..Len(stream) :
        /\ c.open /\ c.from = 0 /\ c.join <= p /\ p < c.next
        /\ again' = [again EXCEPT ![v] = @ \cup {stream[p]}]
        /\ Handle(v, stream[p], c.next)
  BY DEF Redeliver
<1>d. PICK e \in Event : e = stream[p]
  BY <1>0
<1>e. Place(e) = p /\ e \in ToSet(stream) /\ e.seq \in Nat /\ e.seq # 0
  BY <1>0, <1>d, PlaceIs, EventFields
<1>f. stream' = stream /\ got' = got
  BY DEF Redeliver
<1>g. again'[v] = again[v] \cup {e}
  BY <1>0, <1>c, <1>d
<1>h. Handle(v, e, c.next)
  BY <1>c, <1>d
<1>i. Wanted(v, e)
  BY <1>c, <1>e DEF Wanted
<1>1. /\ conn'[v].open /\ conn'[v].from = 0 /\ conn'[v].join = c.join /\ conn'[v].next = c.next
      /\ \/ Fits(v) /\ conn'[v].queue = Append(q, e) /\ missed'[v] = missed[v]
         \/ conn'[v].queue = q /\ missed'[v] = missed[v] \cup {e}
  BY <1>0, <1>b, <1>c, <1>h, <1>i, HandleEffect
<1>2. /\ InOrder(v) /\ Resumes(v) /\ Bounds(v) /\ Misses(v) /\ Repeats(v)
      /\ \A a \in 1..Len(q) : q[a].seq > c.from /\ Place(q[a]) < c.next
      /\ \A a, b \in 1..Len(q) : a < b => Place(q[a]) < Place(q[b]) \/ q[b] \in again[v]
  BY <1>c DEF Viewed, InOrder
<1>3. \A f : PlaceIn(stream', f) = Place(f)
  BY <1>f DEF Place
<1>4. Repeats(v)'
  <2>1. \A f : Place(f)' = Place(f)
    BY <1>f DEF Place
  <2>2. got'[v] = got[v] /\ again[v] \subseteq again'[v]
    BY <1>f, <1>g
  <2>3. \A i, k : GoesBack(v, i, k) => GoesBack(v, i, k)'
    BY <2>2 DEF GoesBack
  <2> QED
    BY <1>2, <2>1, <2>2, <2>3 DEF Repeats
<1>5. PICK n \in 0..Len(got[v]) :
        /\ c.from = IF n = 0 THEN 0 ELSE got[v][n].seq
        /\ \A k \in 1..Len(got[v]) : n < k =>
             /\ Place(got[v][k]) < c.next
             /\ \A a \in 1..Len(q) : Place(got[v][k]) < Place(q[a]) \/ q[a] \in again[v]
  BY <1>2 DEF Resumes
<1>6. ASSUME Sent(v) \cup missed[v] \subseteq Sent(v)' \cup missed'[v], Sent(v)' \subseteq Sent(v) \cup {e}
      PROVE Misses(v)'
  <2>1. \A i : Explained(v, i) => Explained(v, i)'
    BY <1>6, <1>f, StaysExplained
  <2>2. ASSUME NEW i \in 1..Len(stream), c.join <= i, i < c.next PROVE Explained(v, i)'
    BY <1>2, <1>c, <2>1, <2>2 DEF Misses
  <2>3. ASSUME NEW i \in 1..Len(stream), NEW j \in 1..Len(stream), c.join <= i, i < j, stream[j] \in Sent(v)'
        PROVE Explained(v, i)'
    <3>1. CASE stream[j] \in Sent(v)
      BY <1>2, <2>1, <2>3, <3>1 DEF Misses
    <3>2. CASE stream[j] = e
      <4>1. j = p
        BY <1>0, <1>e, <3>2, PlaceIs
      <4>2. i < c.next
        BY <1>0, <1>b, <1>c, <2>3, <4>1
      <4> QED
        BY <2>2, <2>3, <4>2
    <3> QED
      BY <1>6, <2>3, <3>1, <3>2
  <2> QED
    BY <1>1, <1>f, <2>2, <2>3 DEF Misses
<1>7. CASE Fits(v) /\ conn'[v].queue = Append(q, e) /\ missed'[v] = missed[v]
  <2>1. /\ Len(conn'[v].queue) = Len(q) + 1 /\ conn'[v].queue[Len(q) + 1] = e
        /\ \A a \in 1..Len(q) : conn'[v].queue[a] = q[a]
        /\ ToSet(conn'[v].queue) = ToSet(q) \cup {e}
        /\ Len(q) < Room
    BY <1>a, <1>d, <1>7, RangeOfAppend DEF Fits
  <2>2. Sent(v)' = Sent(v) \cup {e}
    BY <1>f, <2>1 DEF Sent
  <2>3. Bounds(v)'
    BY <1>0, <1>a, <1>1, <1>2, <1>f, <2>1 DEF Bounds
  <2>4. ASSUME NEW a \in 1..Len(conn'[v].queue)
        PROVE /\ conn'[v].queue[a].seq > 0 /\ Place(conn'[v].queue[a]) < c.next
              /\ \/ a \in 1..Len(q) /\ conn'[v].queue[a] = q[a]
                 \/ a = Len(q) + 1 /\ conn'[v].queue[a] = e
    <3>0. a \in 1..Len(q) \/ a = Len(q) + 1
      BY <1>a, <2>1
    <3>1. CASE a \in 1..Len(q)
      BY <1>2, <1>c, <2>1, <3>1
    <3>2. CASE a = Len(q) + 1
      <4>1. e.seq > 0
        BY <1>e
      <4> QED
        BY <1>c, <1>e, <2>1, <3>2, <4>1
    <3> QED
      BY <3>0, <3>1, <3>2
  <2>5. ASSUME NEW a \in 1..Len(conn'[v].queue), NEW b \in 1..Len(conn'[v].queue), a < b
        PROVE Place(conn'[v].queue[a]) < Place(conn'[v].queue[b]) \/ conn'[v].queue[b] \in again'[v]
    <3>1. a \in 1..Len(q) /\ conn'[v].queue[a] = q[a]
      BY <1>a, <2>1, <2>5
    <3> QED
      BY <1>2, <1>g, <2>4, <2>5, <3>1
  <2>6. InOrder(v)'
    BY <1>1, <1>2, <1>3, <1>e, <1>f, <2>2, <2>4, <2>5 DEF InOrder, Place
  <2>7. Resumes(v)'
    <3>1. ASSUME NEW k \in 1..Len(got[v]), n < k, NEW a \in 1..Len(conn'[v].queue)
          PROVE Place(got[v][k]) < Place(conn'[v].queue[a]) \/ conn'[v].queue[a] \in again'[v]
      BY <1>5, <1>g, <2>4, <3>1
    <3>2. conn'[v].from = IF n = 0 THEN 0 ELSE got[v][n].seq
      BY <1>1, <1>5, <1>c
    <3> QED
      BY <1>1, <1>3, <1>5, <1>f, <3>1, <3>2 DEF Resumes, Place
  <2>8. Misses(v)'
    BY <1>6, <1>7, <2>2
  <2> QED
    BY <1>4, <2>3, <2>6, <2>7, <2>8 DEF Viewed
<1>8. CASE conn'[v].queue = q /\ missed'[v] = missed[v] \cup {e}
  <2>1. Sent(v)' = Sent(v)
    BY <1>8, <1>f DEF Sent
  <2>2. Bounds(v)'
    BY <1>1, <1>2, <1>8, <1>f DEF Bounds
  <2>3. InOrder(v)'
    BY <1>1, <1>2, <1>3, <1>8, <1>c, <1>f, <1>g, <2>1 DEF InOrder, Place
  <2>4. Resumes(v)'
    <3>1. conn'[v].from = IF n = 0 THEN 0 ELSE got[v][n].seq
      BY <1>1, <1>5, <1>c
    <3> QED
      BY <1>1, <1>3, <1>5, <1>8, <1>f, <1>g, <3>1 DEF Resumes, Place
  <2>5. Misses(v)'
    BY <1>6, <1>8, <2>1
  <2> QED
    BY <1>1, <1>4, <2>2, <2>3, <2>4, <2>5 DEF Viewed
<1> QED
  BY <1>1, <1>7, <1>8

LEMMA SendKeepsView ==
  ASSUME EventStreamAssumption, IInv2, Ordered, NEW v \in Viewers, Viewed(v), Send(v)
  PROVE Viewed(v)'
<1> DEFINE c == conn[v]
           q == c.queue
           g == got[v]
           x == q[1]
<1>0. /\ Types /\ Len(stream) \in Nat /\ conn \in [Viewers -> Connection] /\ got \in [Viewers -> Seq(Event)]
      /\ Room \in Nat
  BY DEF IInv2, IInv1, Types, EventTypes, ViewTypes, EventStreamAssumption
<1>a. /\ c \in Connection /\ q \in Seq(Event) /\ Len(q) \in Nat /\ g \in Seq(Event) /\ Len(g) \in Nat
      /\ c.open /\ q # <<>>
  BY <1>0, SentEvents DEF Viewed, Send
<1>b. /\ Len(q) # 0 /\ Len(Tail(q)) = Len(q) - 1 /\ Head(q) = x /\ x \in Event /\ 1 \in 1..Len(q)
      /\ Tail(q) \in Seq(Event)
      /\ \A a \in 1..Len(Tail(q)) : Tail(q)[a] = q[a + 1] /\ a + 1 \in 1..Len(q) /\ 1 < a + 1
  BY <1>a
<1>1. /\ stream' = stream /\ missed' = missed /\ again' = again /\ got'[v] = Append(g, x)
      /\ conn'[v].open /\ conn'[v].from = c.from /\ conn'[v].join = c.join /\ conn'[v].next = c.next
      /\ conn'[v].queue = Tail(q)
  BY <1>0, <1>a, <1>b DEF Send
<1>2. /\ Len(got'[v]) = Len(g) + 1 /\ got'[v][Len(g) + 1] = x
      /\ \A k \in 1..Len(g) : got'[v][k] = g[k]
      /\ ToSet(got'[v]) = ToSet(g) \cup {x}
  BY <1>a, <1>b, <1>1, RangeOfAppend
<1>3. ToSet(Tail(q)) \subseteq ToSet(q) /\ ToSet(q) \subseteq ToSet(Tail(q)) \cup {x} /\ x \in ToSet(q)
  <2>1. \A a \in 1..Len(q) : a = 1 \/ (a - 1 \in 1..Len(Tail(q)) /\ Tail(q)[a - 1] = q[a])
    BY <1>a, <1>b
  <2>2. \A f : f \in ToSet(q) <=> \E a \in 1..Len(q) : q[a] = f
    BY <1>a, InToSet
  <2>3. \A f : f \in ToSet(Tail(q)) <=> \E a \in 1..Len(Tail(q)) : Tail(q)[a] = f
    BY <1>b, InToSet
  <2> QED
    BY <1>b, <2>1, <2>2, <2>3
<1>4. Sent(v)' = Sent(v)
  BY <1>1, <1>2, <1>3 DEF Sent
<1>5. /\ InOrder(v) /\ Resumes(v) /\ Bounds(v) /\ Misses(v) /\ Repeats(v)
      /\ \A a \in 1..Len(q) : q[a].seq > c.from /\ Place(q[a]) < c.next
      /\ \A a, b \in 1..Len(q) : a < b => Place(q[a]) < Place(q[b]) \/ q[b] \in again[v]
  BY <1>a DEF Viewed, InOrder
<1>6. \A f : PlaceIn(stream', f) = Place(f)
  BY <1>1 DEF Place
<1>7. Bounds(v)'
  BY <1>0, <1>a, <1>b, <1>1, <1>5 DEF Bounds
<1>8. InOrder(v)'
  <2>1. \A a \in 1..Len(Tail(q)) : Tail(q)[a].seq > c.from /\ Place(Tail(q)[a]) < c.next
    BY <1>b, <1>5
  <2>2. \A a, b \in 1..Len(Tail(q)) :
          a < b => Place(Tail(q)[a]) < Place(Tail(q)[b]) \/ Tail(q)[b] \in again[v]
    <3> SUFFICES ASSUME NEW a \in 1..Len(Tail(q)), NEW b \in 1..Len(Tail(q)), a < b
                 PROVE Place(Tail(q)[a]) < Place(Tail(q)[b]) \/ Tail(q)[b] \in again[v]
      OBVIOUS
    <3>1. a + 1 < b + 1
      BY <1>b
    <3> QED
      BY <1>b, <1>5, <3>1
  <2> QED
    BY <1>1, <1>4, <1>5, <1>6, <2>1, <2>2 DEF InOrder, Place
<1>9. PICK n \in 0..Len(g) :
        /\ c.from = IF n = 0 THEN 0 ELSE g[n].seq
        /\ \A k \in 1..Len(g) : n < k =>
             /\ Place(g[k]) < c.next
             /\ \A a \in 1..Len(q) : Place(g[k]) < Place(q[a]) \/ q[a] \in again[v]
  BY <1>5 DEF Resumes
<1>10. Resumes(v)'
  <2>1. ASSUME NEW k \in 1..(Len(g) + 1), n < k
        PROVE /\ Place(got'[v][k]) < c.next
              /\ \A a \in 1..Len(Tail(q)) :
                   Place(got'[v][k]) < Place(Tail(q)[a]) \/ Tail(q)[a] \in again[v]
    <3>1. CASE k \in 1..Len(g)
      BY <1>b, <1>2, <1>9, <2>1, <3>1
    <3>2. CASE k = Len(g) + 1
      BY <1>b, <1>2, <1>5, <3>2
    <3> QED
      BY <1>a, <3>1, <3>2
  <2>2. n \in 0..(Len(g) + 1) /\ c.from = IF n = 0 THEN 0 ELSE got'[v][n].seq
    BY <1>a, <1>2, <1>9
  <2> QED
    BY <1>1, <1>2, <1>6, <2>1, <2>2 DEF Resumes, Place
<1>11. Repeats(v)'
  <2> DEFINE h == got'[v]
             Back(i, k) == \E m \in 1..Len(h) :
               /\ i < m /\ m < k /\ h[m].seq < h[i].seq
               /\ h[m].run # h[i].run \/ h[m].by # h[i].by \/ h[m] \in again[v]
  <2>0. \A m \in 1..Len(g) : m \in 1..Len(h) /\ h[m] = g[m]
    BY <1>a, <1>2
  <2>1. ASSUME NEW i \in 1..Len(g), NEW k \in 1..Len(g), GoesBack(v, i, k) PROVE Back(i, k)
    BY <2>0, <2>1 DEF GoesBack
  <2>2. ASSUME NEW i \in 1..Len(g), NEW k \in 1..Len(g), i < k, h[k].seq <= h[i].seq, Place(h[k]) <= Place(h[i])
        PROVE Back(i, k) \/ h[k] \in again[v]
    <3>1. g[k].seq <= g[i].seq /\ Place(g[k]) <= Place(g[i])
      BY <2>0, <2>2
    <3> QED
      BY <1>5, <2>0, <2>1, <2>2, <3>1 DEF Repeats
  <2>3. ASSUME NEW i \in 1..Len(g), x.seq <= g[i].seq, Place(x) <= Place(g[i]), x \notin again[v]
        PROVE Back(i, Len(g) + 1)
    <3>1. /\ g[i] \in ToSet(stream) /\ g[i] \in Event /\ Place(g[i]) \in Nat /\ Place(x) \in Nat
          /\ x.seq \in Nat /\ g[i].seq \in Nat /\ x.seq > c.from
      <4>1. g[i] \in Sent(v) /\ x \in Sent(v)
        BY <1>0, <1>b, <1>5, SentEvents
      <4> QED
        BY <1>0, <1>b, <1>5, <4>1, SentEvents, EventFields
    <3>2. ~(n < i)
      <4>1. n < i => Place(g[i]) < Place(x)
        BY <1>b, <1>9, <2>3
      <4> QED
        BY <2>3, <3>1, <4>1
    <3>3. n \in 1..Len(g) /\ c.from = g[n].seq
      BY <1>a, <1>9, <3>2
    <3>4. /\ g[n] \in ToSet(stream) /\ g[n] \in Event /\ Place(g[n]) \in Nat /\ g[n].seq \in Nat
      <4>1. g[n] \in Sent(v)
        BY <1>0, <1>5, <3>3, SentEvents
      <4> QED
        BY <1>0, <1>5, <4>1, SentEvents, EventFields
    <3>5. g[n].seq < g[i].seq
      BY <2>3, <3>1, <3>3, <3>4
    <3>6. i < n /\ n < Len(g) + 1
      <4>1. i # n
        BY <3>1, <3>5
      <4> QED
        BY <1>a, <3>2, <3>3, <4>1
    <3>7. CASE g[n].run # g[i].run \/ g[n].by # g[i].by
      BY <2>0, <3>3, <3>5, <3>6, <3>7
    <3>8. CASE g[n].run = g[i].run /\ g[n].by = g[i].by
      <4>1. Place(g[n]) < Place(g[i])
        BY <1>0, <3>1, <3>4, <3>5, <3>8, SameRunSameNumber
      <4>2. g[n].seq <= g[i].seq /\ Place(g[n]) <= Place(g[i])
        BY <3>1, <3>4, <3>5, <4>1
      <4>3. Back(i, n) \/ g[n] \in again[v]
        BY <1>5, <2>1, <3>3, <3>6, <4>2 DEF Repeats
      <4>4. \A m \in 1..Len(h) : m < n => m < Len(g) + 1
        BY <1>a, <1>2, <3>6, <3>3
      <4>5. g[n] \in again[v] => Back(i, Len(g) + 1)
        BY <2>0, <3>3, <3>5, <3>6
      <4> QED
        BY <4>3, <4>4, <4>5
    <3> QED
      BY <3>7, <3>8
  <2>4. ASSUME NEW i \in 1..Len(h), NEW k \in 1..Len(h), i < k, h[k].seq <= h[i].seq, Place(h[k]) <= Place(h[i])
        PROVE Back(i, k) \/ h[k] \in again[v]
    <3>1. i \in 1..Len(g) /\ (k \in 1..Len(g) \/ k = Len(g) + 1)
      BY <1>a, <1>2, <2>4
    <3>2. CASE k \in 1..Len(g)
      BY <2>2, <2>4, <3>1, <3>2
    <3>3. CASE k = Len(g) + 1
      <4>1. h[k] = x /\ h[i] = g[i]
        BY <1>2, <2>0, <3>1, <3>3
      <4>2. Back(i, Len(g) + 1) \/ x \in again[v]
        BY <2>3, <2>4, <3>1, <4>1
      <4> QED
        BY <3>3, <4>1, <4>2
    <3> QED
      BY <3>1, <3>2, <3>3
  <2> QED
    BY <1>1, <1>6, <2>4 DEF Repeats, GoesBack, Place
<1>12. Misses(v)'
  <2>1. \A i : Explained(v, i) => Explained(v, i)'
    BY <1>1, <1>2, <1>4, StaysExplained
  <2> QED
    BY <1>a, <1>1, <1>4, <1>5, <2>1 DEF Misses
<1> QED
  BY <1>7, <1>8, <1>10, <1>11, <1>12 DEF Viewed

LEMMA LeaveKeepsView ==
  ASSUME EventStreamAssumption, IInv2, Ordered, NEW v \in Viewers, Viewed(v), Leave(v)
  PROVE Viewed(v)'
<1>0. /\ Types /\ conn \in [Viewers -> Connection] /\ missed \in [Viewers -> SUBSET Event] /\ Room \in Nat
      /\ conn[v] \in Connection
  BY DEF IInv2, IInv1, Types, ViewTypes, EventStreamAssumption
<1>1. /\ stream' = stream /\ got' = got /\ again' = again /\ missed'[v] = missed[v] \cup ToSet(conn[v].queue)
      /\ ~conn'[v].open /\ conn'[v].join = conn[v].join /\ conn'[v].next = conn[v].next
      /\ conn'[v].queue = <<>>
  BY <1>0 DEF Leave
<1>2. Len(conn'[v].queue) = 0 /\ ToSet(conn'[v].queue) = {}
  BY <1>1 DEF ToSet
<1>3. Sent(v)' = ToSet(got[v])
  BY <1>1, <1>2 DEF Sent
<1>4. Bounds(v)'
  BY <1>0, <1>1, <1>2 DEF Viewed, Bounds
<1>5. InOrder(v)'
  BY <1>1, <1>2, <1>3 DEF Viewed, InOrder, Sent
<1>6. Repeats(v)'
  BY <1>1 DEF Viewed, Repeats, GoesBack, Place
<1>7. Misses(v)'
  <2>1. \A i : Explained(v, i) => Explained(v, i)'
    BY <1>1, <1>3, StaysExplained DEF Sent
  <2> QED
    BY <1>1, <1>3, <2>1 DEF Viewed, Misses, Sent
<1> QED
  BY <1>1, <1>4, <1>5, <1>6, <1>7 DEF Viewed

LEMMA ViewsAreKept == ASSUME EventStreamAssumption, IInv, [Next]_vars PROVE IInv'
<1>1. IInv2 /\ Ordered /\ IInv2' /\ Ordered' /\ \A v \in Viewers : Viewed(v)
  BY EndsAreKept, OrderIsKept DEF IInv
<1>2. ASSUME NEW v \in Viewers PROVE Viewed(v)'
  <2>1. CASE \E e \in Emitters : Publish(e)
    BY <1>1, <2>1, PublishKeepsViews
  <2>2. CASE stream' = stream /\ viewing' = viewing
    BY <1>1, <2>2, ViewUntouched DEF viewing
  <2>3. ASSUME NEW w \in Viewers, ViewerStep(w), w # v, stream' = stream PROVE Viewed(v)'
    <3>1. conn'[v] = conn[v] /\ got'[v] = got[v] /\ missed'[v] = missed[v] /\ again'[v] = again[v]
      <4>1. conn \in [Viewers -> Connection] /\ got \in [Viewers -> Seq(Event)] /\ missed \in [Viewers -> SUBSET Event]
            /\ again \in [Viewers -> SUBSET Event]
        BY <1>1 DEF IInv2, IInv1, Types, ViewTypes
      <4> QED
        BY <2>3, <4>1 DEF ViewerStep, Connect, Deliver, Redeliver, Handle, Send, Leave
    <3> QED
      BY <1>1, <2>3, <3>1, ViewUntouched
  <2>4. CASE ViewerStep(v)
    BY <1>1, <2>4, ConnectKeepsView, DeliverKeepsView, RedeliverKeepsView, SendKeepsView, LeaveKeepsView DEF ViewerStep
  <2> QED
    BY <1>1, <2>1, <2>2, <2>3, <2>4, ProducerSteps
<1> QED
  BY <1>1, <1>2 DEF IInv

LEMMA ViewsHoldAtFirst == ASSUME EventStreamAssumption, Init PROVE IInv
<1>1. IInv2
  BY EndsHoldAtFirst
<1>2. Ordered
  BY DEF Ordered, Waiting, Init
<1>3. ASSUME NEW v \in Viewers PROVE Viewed(v)
  <2>1. /\ got[v] = <<>> /\ conn[v].queue = <<>> /\ ~conn[v].open /\ stream = <<>> /\ Len(stream) = 0
        /\ conn[v].join = 1 /\ conn[v].next = 1 /\ Len(got[v]) = 0 /\ Len(conn[v].queue) = 0
    BY DEF Init, NoConn
  <2>2. Sent(v) = {}
    BY <2>1 DEF Sent, ToSet
  <2> QED
    BY <2>1, <2>2 DEF Viewed, Bounds, InOrder, Repeats, Misses, EventStreamAssumption
<1> QED
  BY <1>1, <1>2, <1>3 DEF IInv

LEMMA ViewsExplain == ASSUME EventStreamAssumption, IInv PROVE DeliveriesAreExplained
<1> SUFFICES ASSUME NEW v \in Viewers
    PROVE /\ \A i \in conn[v].join..(conn[v].next - 1) :
               conn[v].open =>
                 \/ stream[i] \in ToSet(got[v]) \cup ToSet(conn[v].queue) \cup missed[v]
                 \/ Overtook(v, i)
          /\ \A j \in 1..Len(got[v]) : \A i \in 1..(j - 1) :
               got[v][i] = got[v][j] =>
                 \/ got[v][j] \in again[v]
                 \/ \E k \in (i + 1)..(j - 1) :
                      /\ got[v][k].seq < got[v][i].seq
                      /\ \/ got[v][k].run # got[v][i].run
                         \/ got[v][k].by # got[v][i].by
                         \/ got[v][k] \in again[v]
  BY DEF DeliveriesAreExplained
<1>1. /\ Viewed(v) /\ Types /\ Ordered /\ Len(stream) \in Nat
      /\ conn[v] \in Connection /\ got[v] \in Seq(Event) /\ Len(got[v]) \in Nat
  BY SentEvents DEF IInv, IInv2, IInv1, Types, EventTypes, Viewed
<1>2. conn[v].join \in Nat \ {0} /\ conn[v].next \in Nat /\ conn[v].next <= Len(stream) + 1
  BY <1>1 DEF Connection, Viewed, Bounds
<1>3. ASSUME NEW i \in conn[v].join..(conn[v].next - 1), conn[v].open
      PROVE \/ stream[i] \in ToSet(got[v]) \cup ToSet(conn[v].queue) \cup missed[v]
            \/ Overtook(v, i)
  <2>1. i \in 1..Len(stream) /\ conn[v].join <= i /\ i < conn[v].next
    BY <1>1, <1>2
  <2>2. Explained(v, i)
    BY <1>1, <1>3, <2>1 DEF Viewed, Misses
  <2> QED
    BY <2>2 DEF Explained, Sent
<1>4. ASSUME NEW j \in 1..Len(got[v]), NEW i \in 1..(j - 1), got[v][i] = got[v][j]
      PROVE \/ got[v][j] \in again[v]
            \/ \E k \in (i + 1)..(j - 1) :
                 /\ got[v][k].seq < got[v][i].seq
                 /\ \/ got[v][k].run # got[v][i].run
                    \/ got[v][k].by # got[v][i].by
                    \/ got[v][k] \in again[v]
  <2>1. i \in 1..Len(got[v]) /\ i < j
    BY <1>1
  <2>2. Place(got[v][i]) \in Nat /\ got[v][i].seq \in Nat
    <3>1. got[v][i] \in Sent(v)
      BY <1>1, <2>1, SentEvents DEF Viewed
    <3> QED
      BY <1>1, <3>1, SentEvents, EventFields DEF Viewed
  <2>3. GoesBack(v, i, j) \/ got[v][j] \in again[v]
    BY <1>1, <1>4, <2>1, <2>2 DEF Viewed, Repeats
  <2>4. \A m \in 1..Len(got[v]) : i < m /\ m < j => m \in (i + 1)..(j - 1)
    BY <1>1, <2>1
  <2> QED
    BY <2>3, <2>4 DEF GoesBack
<1> QED
  BY <1>3, <1>4

LEMMA ViewsAreTyped == ASSUME EventStreamAssumption, IInv PROVE TypeOK
<1>1. IInv1 /\ Types /\ RunTypes /\ EventTypes /\ ViewTypes /\ Counts
  BY DEF IInv, IInv2, IInv1, Types
<1>2. ASSUME NEW r \in 1..MaxRuns
      PROVE journal[r].maxSeq \in 0..MaxEvents /\ journal[r].raw \subseteq 1..journal[r].maxSeq
  <2>1. journal[r].maxSeq \in Nat /\ journal[r].maxSeq <= Emitted /\ Emitted \in Nat /\ Due \in Nat
        /\ Emitted + Due <= MaxEvents /\ MaxEvents \in Nat
    BY <1>1, EmittedIsNat DEF RunTypes, Counts, EventStreamAssumption
  <2>2. journal[r].maxSeq <= MaxEvents
    BY <2>1
  <2> QED
    BY <1>1, <2>1, <2>2 DEF RunTypes
<1>3. ASSUME NEW v \in Viewers
      PROVE /\ conn[v].open \in BOOLEAN /\ conn[v].from \in 0..MaxEvents
            /\ conn[v].join \in 1..(Len(stream) + 1) /\ conn[v].next \in 1..(Len(stream) + 1)
            /\ conn[v].queue \in Seq(Event) /\ Len(conn[v].queue) <= Room
            /\ got[v] \in Seq(Event) /\ leaves[v] \in 0..MaxLeaves
            /\ missed[v] \subseteq Event /\ again[v] \subseteq Event
  <2>1. conn[v] \in Connection /\ Len(stream) \in Nat /\ Bounds(v)
    BY <1>1 DEF ViewTypes, EventTypes, IInv, Viewed
  <2>2. conn[v].join \in 1..(Len(stream) + 1) /\ conn[v].next \in 1..(Len(stream) + 1)
    BY <2>1 DEF Connection, Bounds
  <2> QED
    BY <1>1, <2>1, <2>2 DEF ViewTypes, Connection, Bounds
<1> QED
  BY <1>1, <1>2, <1>3 DEF TypeOK, RunTypes, EventTypes

(* A browser misses an event published since it began to watch only if a   *)
(* channel threw it away or as high a number overtook it, and is sent an   *)
(* event twice only if NATS delivered it twice or after a lower number of  *)
(* another goroutine or run or of such a second delivery (Last-Event-ID,   *)
(* session_handler).                                                       *)
THEOREM DeliveriesHaveReasons ==
  ASSUME EventStreamAssumption PROVE SafeSpec => []DeliveriesAreExplained
<1>1. Init => IInv
  BY ViewsHoldAtFirst
<1>2. IInv /\ [Next]_vars => IInv'
  BY ViewsAreKept
<1>3. IInv => DeliveriesAreExplained
  BY ViewsExplain
<1> QED
  BY <1>1, <1>2, <1>3, PTL DEF SafeSpec

(* The journal, the stream, and what each browser has got keep their types *)
(* and bounds.                                                             *)
THEOREM TypesOfTheStream == ASSUME EventStreamAssumption PROVE SafeSpec => []TypeOK
<1>1. Init => IInv
  BY ViewsHoldAtFirst
<1>2. IInv /\ [Next]_vars => IInv'
  BY ViewsAreKept
<1>3. IInv => TypeOK
  BY ViewsAreTyped
<1> QED
  BY <1>1, <1>2, <1>3, PTL DEF SafeSpec
=============================================================================
