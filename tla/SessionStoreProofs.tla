------------------------- MODULE SessionStoreProofs -------------------------
(***************************************************************************)
(* Proofs about SessionStore for any number of callers, messages and       *)
(* calls: its types, what only a stale call can undo, the order of the     *)
(* messages and the count of the user's messages.                          *)
(***************************************************************************)
EXTENDS SessionStore, FiniteSetTheorems, WellFoundedInduction, TLAPS

AnyMessage == [seq : Nat, live : BOOLEAN, cleared : BOOLEAN, user : BOOLEAN, seen : SUBSET Nat]
CallOps == StatusOps \cup SaveOps \cup CreateOps \cup {"clear", "delete", "delete message", "idle"}
Stages == {"start", "create", "touch", "stamp", "save"}
Number == 0..(MaxMessages + 1)
AnyCall == [op : CallOps, at : Stages, copy : Rows, next : Number, seen : SUBSET Nat]

Types ==
  /\ row \in Rows
  /\ messages \in Seq(AnyMessage) /\ Len(messages) <= MaxMessages
  /\ call \in [Callers -> AnyCall]
  /\ calls \in 0..MaxCalls /\ overlap \in BOOLEAN /\ missed \in Nat

(* The count, in the row and in every copy of it that may be written back, *)
(* leaves room for the calls that are still to add one.                    *)
Adders == {p \in Callers : call[p].op = "add" /\ call[p].at # "stamp"}
Budget ==
  /\ row.count + Cardinality(Adders) <= calls
  /\ \A p \in Callers : call[p].copy.count + Cardinality(Adders) <= calls

(* A message has a number above those that were there when it was taken,   *)
(* and none has a number above the number of messages ever created.        *)
Follows(number, seen) ==
  /\ number <= Len(messages) + 1
  /\ \A n \in seen : n \in 1..Len(messages) /\ messages[n].seq < number

Numbers ==
  /\ \A m \in 1..Len(messages) :
       /\ 1 <= messages[m].seq /\ messages[m].seq <= m
       /\ \A n \in messages[m].seen : n \in 1..Len(messages) /\ messages[n].seq < messages[m].seq
  /\ \A p \in Callers :
       /\ Follows(call[p].next, call[p].seen)
       /\ call[p].at = "create" => call[p].next # 0

(* A title is marked as set by hand exactly when it is.                    *)
Marked(r) == r.manual <=> r.title = "manual"
Titles == Marked(row) /\ \A p \in Callers : Marked(call[p].copy)

(* What the checks on the row that was read have let pass.                 *)
Allowed ==
  \A p \in Callers :
    /\ ~call[p].copy.deleted
    /\ call[p].op \in {"activate", "pause", "resume"} => call[p].copy.status # "ended"
    /\ call[p].op = "title" => ~call[p].copy.manual

(* A call that saves the row, with none beside it, has the row as it is.   *)
Alone ==
  ~overlap =>
    \A p \in Busy : call[p].op \in Savers => call[p].copy = row /\ \A q \in Busy : q = p

(* The messages that count, those whose caller has still to count them,    *)
(* and the call that has cleared the messages and not yet saved the row.   *)
Counting == {m \in 1..Len(messages) : messages[m].user /\ (~messages[m].cleared \/ m \in unsaved)}
Touching == {p \in Callers : At(p, "add", "touch")}
Clearing == \E p \in Callers : At(p, "clear", "save")

Tally ==
  ~overlap /\ ~row.deleted =>
    /\ row.count + missed + Cardinality(Touching) = Cardinality(Counting)
    /\ Clearing => \A m \in 1..Len(messages) : messages[m].cleared

IInv == Types /\ Budget /\ Numbers /\ Titles /\ Allowed /\ Alone /\ Tally

-----------------------------------------------------------------------------
(* The least number principle, for a set.                                  *)
LessThan == {ss \in Nat \X Nat : ss[1] < ss[2]}

LEMMA LeastOf == ASSUME NEW T \in SUBSET Nat, T # {} PROVE \E k \in T : \A j \in T : k <= j
<1>1. OpToRel(<, Nat) = LessThan
  BY DEF OpToRel, LessThan
<1>2. IsWellFoundedOn(LessThan, Nat)
  BY <1>1, NatLessThanWellFounded
<1>3. PICK k \in T : \A y \in T : ~(<<y, k>> \in LessThan)
  BY <1>2, WFMin
<1>4. \A x, y \in Nat : y < x => <<y, x>> \in LessThan
  BY DEF LessThan
<1>5. ASSUME NEW j \in T PROVE k <= j
  <2>1. k \in Nat /\ j \in Nat /\ (k <= j \/ j < k)
    OBVIOUS
  <2>2. ~(j < k)
    BY <1>3, <1>4, <2>1
  <2> QED
    BY <2>1, <2>2
<1> QED
  BY <1>5

LEMMA SmallSets == ASSUME StoreAssumption, NEW S \in SUBSET Callers
  PROVE IsFiniteSet(S) /\ Cardinality(S) \in Nat
BY FS_Subset, FS_CardinalityType DEF StoreAssumption

LEMMA CountingIsFinite == ASSUME Types
  PROVE IsFiniteSet(Counting) /\ Cardinality(Counting) \in Nat
<1>1. Len(messages) \in Nat
  BY DEF Types
<1>2. IsFiniteSet(1..Len(messages))
  BY <1>1, FS_Interval
<1> QED
  BY <1>2, FS_Subset, FS_CardinalityType DEF Counting

MessagesTyped ==
  /\ Len(messages) \in Nat /\ Len(messages) <= MaxMessages /\ MaxMessages \in Nat
  /\ Ids = 1..Len(messages) /\ Live \subseteq 1..Len(messages)
  /\ \A m \in 1..Len(messages) : messages[m] \in AnyMessage /\ messages[m].seq \in Nat

LEMMA MessageFacts == ASSUME StoreAssumption, Types PROVE MessagesTyped
<1>1. messages \in Seq(AnyMessage) /\ Len(messages) <= MaxMessages /\ MaxMessages \in Nat
  BY DEF Types, StoreAssumption
<1>2. Len(messages) \in Nat /\ DOMAIN messages = 1..Len(messages)
      /\ \A m \in 1..Len(messages) : messages[m] \in AnyMessage
  BY <1>1
<1>3. \A x \in AnyMessage : x.seq \in Nat
  BY DEF AnyMessage
<1> QED
  BY <1>1, <1>2, <1>3 DEF MessagesTyped, Ids, Live

LEMMA RowFacts == ASSUME NEW r \in Rows
  PROVE /\ r = [status |-> r.status, title |-> r.title, manual |-> r.manual,
                count |-> r.count, last |-> r.last, deleted |-> r.deleted]
        /\ r.status \in Statuses /\ r.title \in {"none", "auto", "manual"} /\ r.manual \in BOOLEAN
        /\ r.count \in 0..MaxCalls /\ r.last \in BOOLEAN /\ r.deleted \in BOOLEAN
BY DEF Rows

LEMMA NumberIsNat == ASSUME StoreAssumption
  PROVE MaxMessages \in Nat /\ MaxCalls \in Nat /\ 0 \in 0..MaxCalls /\ 0 \in Number /\ Number \subseteq Nat
<1>1. MaxMessages \in Nat /\ MaxCalls \in Nat
  BY DEF StoreAssumption
<1>2. 0 \in 0..MaxCalls
  BY <1>1
<1>3. PICK n \in Nat : n = MaxMessages + 1
  BY <1>1
<1>4. 0 \in 0..n /\ 0..n \subseteq Nat
  BY <1>3
<1> QED
  BY <1>1, <1>2, <1>3, <1>4 DEF Number

LEMMA CountIsNat == ASSUME StoreAssumption, NEW r \in Rows PROVE r.count \in Nat /\ MaxCalls \in Nat
<1>1. r.count \in 0..MaxCalls /\ MaxCalls \in Nat
  BY DEF Rows, StoreAssumption
<1> QED
  BY <1>1

(* The initial row, and a caller that calls nothing.                       *)
IdleIsIdle ==
  /\ NewRow \in Rows /\ NewRow.count = 0 /\ ~NewRow.deleted /\ Marked(NewRow)
  /\ Idle \in AnyCall /\ Idle.op = "idle" /\ Idle.at = "start" /\ Idle.next = 0 /\ Idle.seen = {}
  /\ Idle.copy = NewRow

LEMMA IdleFacts == ASSUME StoreAssumption PROVE IdleIsIdle
<1>1. /\ NewRow.count = 0 /\ ~NewRow.deleted /\ Marked(NewRow)
      /\ Idle.op = "idle" /\ Idle.at = "start" /\ Idle.next = 0 /\ Idle.seen = {} /\ Idle.copy = NewRow
  BY DEF NewRow, Idle, Marked
<1>2. 0 \in 0..MaxCalls /\ 0 \in Number
  BY NumberIsNat
<1>3. NewRow \in Rows
  BY <1>2 DEF NewRow, Rows, Statuses
<1>4. Idle \in AnyCall
  BY <1>2, <1>3 DEF Idle, AnyCall, CallOps, Stages
<1> QED
  BY <1>1, <1>3, <1>4 DEF IdleIsIdle

(* What the callers have read and noted.                                   *)
CallsTyped ==
  /\ row.count \in Nat /\ calls \in Nat /\ MaxCalls \in Nat /\ calls <= MaxCalls
  /\ \A q \in Callers :
       /\ call[q] \in AnyCall /\ call[q].copy \in Rows /\ call[q].copy.count \in Nat
       /\ call[q].next \in Number /\ call[q].next \in Nat /\ call[q].seen \subseteq Nat

LEMMA CallFacts == ASSUME StoreAssumption, Types PROVE CallsTyped
<1>1. row \in Rows /\ call \in [Callers -> AnyCall] /\ calls \in 0..MaxCalls /\ MaxCalls \in Nat
  BY DEF Types, StoreAssumption
<1>2. row.count \in Nat /\ calls \in Nat /\ calls <= MaxCalls
  BY <1>1, CountIsNat
<1>3. ASSUME NEW q \in Callers
      PROVE  /\ call[q] \in AnyCall /\ call[q].copy \in Rows /\ call[q].copy.count \in Nat
             /\ call[q].next \in Number /\ call[q].next \in Nat /\ call[q].seen \subseteq Nat
  <2>1. call[q] \in AnyCall /\ call[q].copy \in Rows /\ call[q].next \in Number /\ call[q].seen \subseteq Nat
    BY <1>1 DEF AnyCall
  <2>2. \A n \in Number : n \in Nat
    BY NumberIsNat
  <2> QED
    BY <2>1, <2>2, CountIsNat
<1> QED
  BY <1>1, <1>2, <1>3 DEF CallsTyped

(* GetNextSequence gives a number above those of the live messages.        *)
LEMMA NextNumber == ASSUME StoreAssumption, Types, Numbers
  PROVE /\ NextSequence \in 1..(MaxMessages + 1) /\ NextSequence <= Len(messages) + 1
        /\ \A m \in Live : messages[m].seq < NextSequence
<1> DEFINE T == {k \in Nat : k # 0 /\ \A m \in Live : messages[m].seq < k}
           Fits(k) == /\ \A m \in Live : messages[m].seq < k
                      /\ k = 1 \/ \E m \in Live : messages[m].seq = k - 1
<1>0. /\ Len(messages) \in Nat /\ Len(messages) <= MaxMessages /\ MaxMessages \in Nat
      /\ \A m \in Live : m \in 1..Len(messages) /\ messages[m].seq \in Nat /\ messages[m].seq <= m
  BY MessageFacts DEF Numbers, MessagesTyped
<1>1. Len(messages) + 1 \in T
  <2>1. \A m \in Live : messages[m].seq < Len(messages) + 1
    BY <1>0
  <2> QED
    BY <1>0, <2>1
<1>2. PICK k \in T : \A j \in T : k <= j
  <2>1. T \subseteq Nat
    OBVIOUS
  <2> HIDE DEF T
  <2> QED
    BY <1>1, <2>1, LeastOf
<1>3. k \in 1..(MaxMessages + 1)
  <2>1. k <= Len(messages) + 1
    BY <1>1, <1>2
  <2> QED
    BY <1>0, <1>2, <2>1
<1>4. Fits(k)
  <2>1. CASE k # 1
    <3>1. k - 1 \in Nat /\ k - 1 # 0 /\ ~(k <= k - 1)
      BY <1>2, <2>1
    <3>2. k - 1 \notin T
      BY <1>2, <3>1
    <3>3. PICK m \in Live : ~(messages[m].seq < k - 1)
      BY <3>1, <3>2
    <3>4. messages[m].seq < k /\ messages[m].seq \in Nat
      BY <1>0, <1>2
    <3>5. messages[m].seq = k - 1
      BY <3>1, <3>3, <3>4, <1>2
    <3> QED
      BY <1>2, <3>5
  <2> QED
    BY <1>2, <2>1
<1>5. NextSequence = CHOOSE j \in 1..(MaxMessages + 1) : Fits(j)
  BY DEF NextSequence
<1> HIDE DEF Fits
<1>6. NextSequence \in 1..(MaxMessages + 1) /\ Fits(NextSequence)
  BY <1>3, <1>4, <1>5
<1> USE DEF Fits
<1>7. NextSequence <= Len(messages) + 1
  <2>1. CASE NextSequence = 1
    BY <1>0, <2>1
  <2>2. CASE NextSequence # 1
    <3>1. PICK m \in Live : messages[m].seq = NextSequence - 1
      BY <1>6, <2>2
    <3>2. PICK n \in Nat : n = NextSequence
      BY <1>6
    <3> QED
      BY <1>0, <3>1, <3>2
  <2> QED
    BY <2>1, <2>2
<1> QED
  BY <1>6, <1>7

-----------------------------------------------------------------------------
LEMMA InitHolds == ASSUME StoreAssumption PROVE Init => IInv
<1> SUFFICES ASSUME Init PROVE IInv
  OBVIOUS
<1>0. /\ messages = <<>> /\ Len(messages) = 0 /\ row = NewRow /\ calls = 0 /\ overlap = FALSE /\ missed = 0
      /\ call = [p \in Callers |-> Idle] /\ MaxMessages \in Nat /\ MaxCalls \in Nat /\ IdleIsIdle
  BY IdleFacts DEF Init, StoreAssumption
<1>a. \A p \in Callers : call[p] = Idle
  BY <1>0
<1>1. Types
  <2>1. messages \in Seq(AnyMessage)
    BY <1>0
  <2>2. call \in [Callers -> AnyCall]
    BY <1>0 DEF IdleIsIdle
  <2>3. row \in Rows /\ Len(messages) <= MaxMessages
    BY <1>0 DEF IdleIsIdle
  <2>4. calls \in 0..MaxCalls
    BY <1>0
  <2> QED
    BY <1>0, <2>1, <2>2, <2>3, <2>4 DEF Types
<1>2. Budget
  <2>1. Adders = {}
    BY <1>0, <1>a DEF IdleIsIdle, Adders
  <2> QED
    BY <1>0, <1>a, <2>1, FS_EmptySet DEF IdleIsIdle, Budget, Init
<1>3. Numbers
  BY <1>0, <1>a DEF IdleIsIdle, Numbers, Follows
<1>4. Titles /\ Allowed /\ Alone
  BY <1>0, <1>a DEF IdleIsIdle, Titles, Marked, Allowed, Alone, Busy, NewRow
<1>5. Tally
  <2>1. Touching = {} /\ Counting = {} /\ ~Clearing
    BY <1>0, <1>a DEF IdleIsIdle, Touching, Counting, Clearing, At
  <2> QED
    BY <1>0, <1>a, <2>1, FS_EmptySet DEF IdleIsIdle, Tally
<1> QED
  BY <1>1, <1>2, <1>3, <1>4, <1>5 DEF IdleIsIdle, IInv

LEMMA ReadKeeps ==
  ASSUME StoreAssumption, IInv, NEW p \in Callers, NEW op \in Ops, Read(p, op)
  PROVE  IInv'
<1> DEFINE new == [Idle EXCEPT !.op = op, !.copy = row]
<1>0. Types /\ Budget /\ Numbers /\ Titles /\ Allowed /\ Alone /\ Tally
  BY DEF IInv
<1>1. /\ row' = row /\ messages' = messages /\ calls < MaxCalls /\ calls' = calls + 1
      /\ missed' = missed /\ unsaved' = unsaved
      /\ call[p].op = "idle" /\ call \in [Callers -> AnyCall] /\ call' = [call EXCEPT ![p] = new]
      /\ overlap' = (overlap \/ \E q \in Busy : {op, call[q].op} \cap Savers # {})
  BY <1>0 DEF Read, Types, history
<1>2. /\ new.op = op /\ new.at = "start" /\ new.copy = row /\ new.next = 0 /\ new.seen = {}
      /\ new \in AnyCall
  <2>1. /\ new = [op |-> op, at |-> "start", copy |-> row, next |-> 0, seen |-> {}]
        /\ new.op = op /\ new.at = "start" /\ new.copy = row /\ new.next = 0 /\ new.seen = {}
    <3> DEFINE plain == [op |-> op, at |-> "start", copy |-> row, next |-> 0, seen |-> {}]
    <3>1. new = plain
      <4> DEFINE named == [Idle EXCEPT !.op = op]
      <4>1. new = [named EXCEPT !.copy = row]
        BY Zenon
      <4>2. named = [op |-> op, at |-> "start", copy |-> NewRow, next |-> 0, seen |-> {}]
        BY DEF Idle
      <4> HIDE DEF named, new
      <4> QED
        BY <4>1, <4>2
    <3>2. /\ plain.op = op /\ plain.at = "start" /\ plain.copy = row /\ plain.next = 0 /\ plain.seen = {}
      OBVIOUS
    <3> QED
      BY <3>1, <3>2
  <2>2. op \in CallOps
    BY DEF StoreAssumption, CallOps
  <2>3. row \in Rows /\ 0 \in Number
    BY <1>0, NumberIsNat DEF Types
  <2> HIDE DEF new
  <2> QED
    BY <2>1, <2>2, <2>3 DEF AnyCall, Stages
<1>3. call'[p] = new /\ \A q \in Callers \ {p} : call'[q] = call[q]
  BY <1>1
<1>4. op # "idle"
  BY DEF StoreAssumption, StatusOps, SaveOps, CreateOps
<1> HIDE DEF new
<1>5. Types'
  <2>1. calls' \in 0..MaxCalls
    BY <1>0, <1>1, CallFacts DEF CallsTyped
  <2>2. overlap' \in BOOLEAN
    BY <1>0, <1>1 DEF Types
  <2>3. call' \in [Callers -> AnyCall]
    BY <1>1, <1>2
  <2> QED
    BY <1>0, <1>1, <2>1, <2>2, <2>3 DEF Types
<1>6. Budget'
  <2>1. Cardinality(Adders) \in Nat /\ Cardinality(Adders') \in Nat /\ Cardinality(Adders') <= Cardinality(Adders) + 1
    <3>1. Adders' \subseteq Adders \cup {p}
      BY <1>3 DEF Adders
    <3>2. IsFiniteSet(Adders) /\ Cardinality(Adders) \in Nat /\ Cardinality(Adders') \in Nat
      BY SmallSets DEF Adders
    <3>3. /\ IsFiniteSet(Adders \cup {p})
          /\ Cardinality(Adders \cup {p}) = IF p \in Adders THEN Cardinality(Adders) ELSE Cardinality(Adders) + 1
      BY <3>2, FS_AddElement
    <3>4. Cardinality(Adders') <= Cardinality(Adders \cup {p})
      BY <3>1, <3>3, FS_Subset
    <3> QED
      BY <3>2, <3>3, <3>4
  <2>2. calls \in Nat /\ \A r \in Rows : r.count \in Nat
    BY <1>0, CallFacts, CountIsNat DEF CallsTyped
  <2>3. ASSUME NEW n \in Nat, n + Cardinality(Adders) <= calls PROVE n + Cardinality(Adders') <= calls'
    BY <1>1, <2>1, <2>2, <2>3
  <2>4. row'.count + Cardinality(Adders') <= calls'
    BY <1>0, <1>1, <2>2, <2>3 DEF Budget, Types
  <2>5. ASSUME NEW q \in Callers PROVE call'[q].copy.count + Cardinality(Adders') <= calls'
    <3>1. CASE q = p
      BY <1>1, <1>2, <1>3, <2>4, <3>1
    <3>2. CASE q # p
      <4>1. call[q].copy.count \in Nat
        BY <1>0, CallFacts DEF CallsTyped
      <4> QED
        BY <1>0, <1>3, <2>3, <3>2, <4>1 DEF Budget
    <3> QED
      BY <3>1, <3>2
  <2> QED
    BY <2>4, <2>5 DEF Budget
<1>7. Numbers'
  BY <1>0, <1>1, <1>2, <1>3, MessageFacts DEF Numbers, Follows, MessagesTyped
<1>8. Titles'
  BY <1>0, <1>1, <1>2, <1>3 DEF Titles, Marked
<1>9. Allowed'
  BY <1>0, <1>2, <1>3 DEF Allowed, Read, Finds, Allows
<1>10. Alone'
  <2> SUFFICES ASSUME ~overlap', NEW q \in Busy', call'[q].op \in Savers
               PROVE call'[q].copy = row' /\ \A r \in Busy' : r = q
    BY DEF Alone
  <2>1. ~overlap /\ \A r \in Busy : op \notin Savers /\ call[r].op \notin Savers
    BY <1>1
  <2>2. \A r \in Busy' : r # p => r \in Busy /\ call'[r] = call[r]
    BY <1>3 DEF Busy
  <2>3. q = p
    BY <2>1, <2>2
  <2> QED
    BY <1>1, <1>2, <1>3, <2>1, <2>2, <2>3
<1>11. Tally'
  <2>1. Touching' = Touching /\ (Clearing' <=> Clearing)
    BY <1>1, <1>2, <1>3 DEF Touching, Clearing, At
  <2>2. Counting' = Counting
    BY <1>1 DEF Counting
  <2> QED
    BY <1>0, <1>1, <2>1, <2>2 DEF Tally
<1> QED
  BY <1>5, <1>6, <1>7, <1>8, <1>9, <1>10, <1>11 DEF IInv

(* What the end of a call comes to.                                        *)
Returned(p) ==
  /\ call'[p] = Idle /\ \A q \in Callers \ {p} : call'[q] = call[q]
  /\ Adders' = Adders \ {p} /\ Touching' = Touching \ {p}
  /\ Types' /\ Numbers' /\ Titles' /\ Allowed' /\ Alone'

LEMMA ReturnKeeps ==
  ASSUME StoreAssumption, IInv, NEW p \in Callers, call[p].op # "idle", Return(p),
         UNCHANGED <<messages, calls, overlap>>, row' \in Rows, Marked(row)', missed' \in Nat
  PROVE  Returned(p)
<1>0. Types /\ Budget /\ Numbers /\ Titles /\ Allowed /\ Alone /\ Tally
  BY DEF IInv
<1>1. call' = [call EXCEPT ![p] = Idle] /\ call \in [Callers -> AnyCall]
  BY <1>0 DEF Return, Types
<1>2. call'[p] = Idle /\ \A q \in Callers \ {p} : call'[q] = call[q]
  BY <1>1
<1>3. /\ Idle \in AnyCall /\ Idle.op = "idle" /\ Idle.at = "start" /\ Idle.next = 0 /\ Idle.seen = {}
      /\ Marked(Idle.copy) /\ ~Idle.copy.deleted /\ Idle.copy \in Rows
  BY IdleFacts DEF IdleIsIdle
<1>4. Adders' = Adders \ {p} /\ Touching' = Touching \ {p}
  BY <1>2, <1>3 DEF Adders, Touching, At
<1>6. Types'
  BY <1>0, <1>1, <1>3 DEF Types
<1>7. Numbers'
  BY <1>0, <1>2, <1>3, MessageFacts DEF Numbers, Follows, MessagesTyped
<1>8. Titles'
  BY <1>0, <1>2, <1>3 DEF Titles, Marked
<1>9. Allowed'
  BY <1>0, <1>2, <1>3 DEF Allowed
<1>10. Alone'
  <2> SUFFICES ASSUME ~overlap, NEW q \in Busy', call'[q].op \in Savers PROVE FALSE
    BY DEF Alone
  <2>1. q # p /\ q \in Busy /\ call[q].op \in Savers /\ p \in Busy
    BY <1>2, <1>3 DEF Busy
  <2> QED
    BY <1>0, <2>1 DEF Alone
<1> QED
  BY <1>2, <1>4, <1>6, <1>7, <1>8, <1>9, <1>10 DEF Returned

LEMMA BudgetKept ==
  ASSUME StoreAssumption, IInv, NEW p \in Callers, Returned(p), calls' = calls,
         row'.count \in {row.count, call[p].copy.count, 0}
  PROVE  Budget'
<1>0. Types /\ Budget /\ Types'
  BY DEF IInv, Returned
<1>1. /\ IsFiniteSet(Adders) /\ Cardinality(Adders) \in Nat /\ Cardinality(Adders') \in Nat
      /\ Cardinality(Adders') = IF p \in Adders THEN Cardinality(Adders) - 1 ELSE Cardinality(Adders)
  <2>1. Adders \subseteq Callers /\ Adders' = Adders \ {p}
    BY DEF Adders, Returned
  <2>2. /\ IsFiniteSet(Adders) /\ Cardinality(Adders) \in Nat
        /\ Cardinality(Adders \ {p}) \in Nat
    BY <2>1, SmallSets
  <2> QED
    BY <2>1, <2>2, FS_RemoveElement
<1>2. /\ calls \in Nat /\ row.count \in Nat /\ \A q \in Callers : call[q].copy.count \in Nat
      /\ Idle.copy.count = 0
  BY <1>0, CallFacts, IdleFacts DEF CallsTyped, IdleIsIdle
<1>3. ASSUME NEW n \in Nat, n + Cardinality(Adders) <= calls PROVE n + Cardinality(Adders') <= calls
  BY <1>1, <1>2, <1>3
<1>4. row'.count + Cardinality(Adders') <= calls
  <2>1. 0 + Cardinality(Adders) <= calls
    BY <1>0, <1>1, <1>2 DEF Budget
  <2> QED
    BY <1>0, <1>2, <1>3, <2>1 DEF Budget
<1>5. ASSUME NEW q \in Callers PROVE call'[q].copy.count + Cardinality(Adders') <= calls
  <2>1. CASE q = p
    <3>1. 0 + Cardinality(Adders) <= calls
      BY <1>0, <1>1, <1>2 DEF Budget
    <3> QED
      <4>1. call'[q].copy.count = 0
        BY <1>2, <2>1 DEF Returned
      <4>2. 0 + Cardinality(Adders') <= calls
        BY <1>3, <3>1
      <4> QED
        BY <4>1, <4>2
  <2>2. CASE q # p
    BY <1>0, <1>2, <1>3, <2>2 DEF Returned, Budget
  <2> QED
    BY <2>1, <2>2
<1> QED
  BY <1>4, <1>5 DEF Budget

(* When nothing was overlapping, a call that creates a message has no      *)
(* clearing of the messages beside it.                                     *)
LEMMA NothingCleared ==
  ASSUME Alone, NEW p \in Callers, call[p].op \in CreateOps, ~overlap PROVE ~Clearing
<1> SUFFICES ASSUME NEW q \in Callers, At(q, "clear", "save") PROVE FALSE
  BY DEF Clearing
<1>1. q \in Busy /\ call[q].op \in Savers /\ p \in Busy /\ p # q
  BY DEF Busy, At, Savers, CreateOps
<1> QED
  BY <1>1 DEF Alone

(* A call that ends is not a clear that has still to save the row.         *)
LEMMA NoLongerClearing ==
  ASSUME NEW p \in Callers, Returned(p), Clearing' PROVE Clearing
<1>1. PICK q \in Callers : At(q, "clear", "save")'
  BY DEF Clearing
<1>2. q # p
  BY <1>1 DEF Returned, At, Idle
<1>3. At(q, "clear", "save")
  BY <1>1, <1>2 DEF Returned, At
<1> QED
  BY <1>3 DEF Clearing

(* A call that does not save the row leaves the count and the tally.       *)
LEMMA TallyKept ==
  ASSUME IInv, NEW p \in Callers, Returned(p), p \notin Touching,
         messages' = messages, missed' = missed, unsaved' = unsaved,
         overlap' = overlap, row'.count = row.count, row.deleted => row'.deleted
  PROVE  Tally'
<1>1. Touching' = Touching /\ Tally
  BY DEF Returned, IInv
<1>2. Counting' = Counting
  BY DEF Counting
<1>3. Clearing' => Clearing
  BY NoLongerClearing
<1> QED
  BY <1>1, <1>2, <1>3 DEF Tally

(* A call that saves the row, beside no other, leaves nobody else.         *)
LEMMA SavedAlone ==
  ASSUME IInv, NEW p \in Callers, Returned(p), call[p].op \in Savers, ~overlap
  PROVE  /\ call[p].copy = row /\ ~row.deleted /\ Touching = {} /\ Touching' = {} /\ ~Clearing'
         /\ Clearing <=> At(p, "clear", "save")
<1>1. p \in Busy /\ call[p].copy = row /\ \A q \in Busy : q = p
  BY DEF IInv, Alone, Busy, Savers, SaveOps
<1>2. ~row.deleted
  BY <1>1 DEF IInv, Allowed
<1>3. Touching = {} /\ Touching' = {}
  BY <1>1 DEF Touching, At, Busy, Savers, SaveOps, Returned
<1>4. Clearing <=> At(p, "clear", "save")
  BY <1>1 DEF Clearing, At, Busy
<1>5. ~Clearing'
  BY <1>1, <1>4 DEF Clearing, At, Busy, Returned, Idle
<1> QED
  BY <1>1, <1>2, <1>3, <1>4, <1>5

-----------------------------------------------------------------------------
(* The rows that the statements write.                                     *)
LEMMA StatusWritten == ASSUME NEW r \in Rows, NEW s \in Statuses
  PROVE /\ [r EXCEPT !.status = s] \in Rows /\ [r EXCEPT !.status = s].title = r.title
        /\ [r EXCEPT !.status = s].manual = r.manual /\ [r EXCEPT !.status = s].count = r.count
        /\ [r EXCEPT !.status = s].deleted = r.deleted /\ [r EXCEPT !.status = s].status = s
BY DEF Rows

LEMMA DeletionWritten == ASSUME NEW r \in Rows
  PROVE /\ [r EXCEPT !.deleted = TRUE] \in Rows /\ [r EXCEPT !.deleted = TRUE].title = r.title
        /\ [r EXCEPT !.deleted = TRUE].manual = r.manual /\ [r EXCEPT !.deleted = TRUE].count = r.count
        /\ [r EXCEPT !.deleted = TRUE].deleted /\ [r EXCEPT !.deleted = TRUE].status = r.status
BY DEF Rows

LEMMA LastWritten == ASSUME NEW r \in Rows, NEW b \in BOOLEAN
  PROVE /\ [r EXCEPT !.last = b] \in Rows /\ [r EXCEPT !.last = b].title = r.title
        /\ [r EXCEPT !.last = b].manual = r.manual /\ [r EXCEPT !.last = b].count = r.count
        /\ [r EXCEPT !.last = b].deleted = r.deleted /\ [r EXCEPT !.last = b].status = r.status
BY DEF Rows

LEMMA CountWritten == ASSUME NEW r \in Rows, NEW k \in 0..MaxCalls, NEW b \in BOOLEAN
  PROVE /\ [r EXCEPT !.count = k, !.last = b] \in Rows /\ [r EXCEPT !.count = k, !.last = b].title = r.title
        /\ [r EXCEPT !.count = k, !.last = b].manual = r.manual
        /\ [r EXCEPT !.count = k, !.last = b].count = k
        /\ [r EXCEPT !.count = k, !.last = b].deleted = r.deleted
        /\ [r EXCEPT !.count = k, !.last = b].status = r.status
<1> DEFINE c == [r EXCEPT !.count = k]
           new == [r EXCEPT !.count = k, !.last = b]
<1>1. c \in Rows /\ c.title = r.title /\ c.manual = r.manual /\ c.count = k /\ c.deleted = r.deleted
      /\ c.status = r.status
  BY DEF Rows
<1>2. new = [c EXCEPT !.last = b]
  BY Zenon
<1> HIDE DEF c, new
<1>3. /\ new \in Rows /\ new.title = r.title /\ new.manual = r.manual /\ new.count = k
      /\ new.deleted = r.deleted /\ new.status = r.status
  BY <1>1, <1>2, LastWritten
<1> USE DEF new
<1> QED
  BY <1>3

LEMMA TitleWritten == ASSUME NEW r \in Rows, NEW t \in {"auto", "manual"}
  PROVE /\ [r EXCEPT !.title = t] \in Rows /\ [r EXCEPT !.title = t].title = t
        /\ [r EXCEPT !.title = t].manual = r.manual /\ [r EXCEPT !.title = t].count = r.count
        /\ [r EXCEPT !.title = t].deleted = r.deleted /\ [r EXCEPT !.title = t].status = r.status
BY DEF Rows

LEMMA ManualWritten == ASSUME NEW r \in Rows
  PROVE /\ [r EXCEPT !.title = "manual", !.manual = TRUE] \in Rows
        /\ [r EXCEPT !.title = "manual", !.manual = TRUE].title = "manual"
        /\ [r EXCEPT !.title = "manual", !.manual = TRUE].manual
        /\ [r EXCEPT !.title = "manual", !.manual = TRUE].count = r.count
        /\ [r EXCEPT !.title = "manual", !.manual = TRUE].deleted = r.deleted
        /\ [r EXCEPT !.title = "manual", !.manual = TRUE].status = r.status
<1> DEFINE c == [r EXCEPT !.title = "manual"]
           new == [r EXCEPT !.title = "manual", !.manual = TRUE]
<1>1. c \in Rows /\ c.title = "manual" /\ c.count = r.count /\ c.deleted = r.deleted /\ c.status = r.status
  BY TitleWritten
<1>2. new = [c EXCEPT !.manual = TRUE]
  BY Zenon
<1> HIDE DEF c, new
<1>3. /\ new \in Rows /\ new.title = "manual" /\ new.manual /\ new.count = r.count
      /\ new.deleted = r.deleted /\ new.status = r.status
  BY <1>1, <1>2 DEF Rows
<1> USE DEF new
<1> QED
  BY <1>3

-----------------------------------------------------------------------------
(* What a step may undo: OnlyStaleCallsUndo, of one step.                  *)
UndoneByStale ==
  /\ row.manual /\ row'.title # "manual" => \E p \in Busy : ~call[p].copy.manual
  /\ row.status = "ended" /\ row'.status # "ended" => \E p \in Busy : call[p].copy.status # "ended"
  /\ row.deleted /\ ~row'.deleted
       => \E p \in Busy : call[p].op \in SaveOps \cup {"clear"} /\ call'[p] # call[p]

LEMMA RowStays == ASSUME IInv, row' = row PROVE UndoneByStale
BY DEF IInv, Titles, Marked, UndoneByStale

LEMMA SetStatusKeeps ==
  ASSUME StoreAssumption, IInv, NEW p \in Callers, SetStatus(p) PROVE IInv' /\ UndoneByStale
<1>0. /\ call[p].op \in StatusOps /\ Return(p) /\ UNCHANGED <<messages, calls, overlap, missed, unsaved>>
      /\ Types /\ Titles /\ Allowed /\ row \in Rows
      /\ row' = IF row.deleted THEN row ELSE [row EXCEPT !.status = Target(call[p].op)]
  BY DEF SetStatus, history, IInv, Types, UpdateRow
<1>1. /\ call[p].op # "idle" /\ p \in Busy /\ p \notin Touching
      /\ call[p].op \notin Savers
  BY <1>0 DEF StatusOps, Busy, Touching, At, Savers, SaveOps
<1>2. /\ Target(call[p].op) \in Statuses
      /\ Target(call[p].op) # "ended" => call[p].op \in {"activate", "pause", "resume"}
  BY <1>0 DEF Target, Statuses, StatusOps
<1>3. /\ row' \in Rows /\ row'.count = row.count /\ row'.title = row.title /\ row'.manual = row.manual
      /\ row'.deleted = row.deleted /\ (row'.status = row.status \/ row'.status = Target(call[p].op))
  BY <1>0, <1>2, StatusWritten
<1>4. Marked(row)'
  BY <1>0, <1>3 DEF Titles, Marked
<1>5. Returned(p)
  BY <1>0, <1>1, <1>3, <1>4, ReturnKeeps DEF Types
<1>6. Budget' /\ Tally'
  BY <1>0, <1>1, <1>3, <1>5, BudgetKept, TallyKept
<1>7. UndoneByStale
  BY <1>0, <1>1, <1>2, <1>3 DEF UndoneByStale, Titles, Marked, Allowed
<1> QED
  BY <1>5, <1>6, <1>7 DEF IInv, Returned

LEMMA DeleteRowKeeps ==
  ASSUME StoreAssumption, IInv, NEW p \in Callers, DeleteRow(p) PROVE IInv' /\ UndoneByStale
<1>0. /\ call[p].op = "delete" /\ Return(p) /\ UNCHANGED <<messages, calls, overlap, missed, unsaved>>
      /\ Types /\ Titles /\ row \in Rows /\ row' = [row EXCEPT !.deleted = TRUE]
  BY DEF DeleteRow, history, IInv, Types
<1>1. call[p].op # "idle" /\ p \notin Touching
  BY <1>0 DEF Touching, At
<1>3. /\ row' \in Rows /\ row'.count = row.count /\ row'.title = row.title /\ row'.manual = row.manual
      /\ row'.deleted /\ row'.status = row.status
  BY <1>0, DeletionWritten
<1>4. Marked(row)'
  BY <1>0, <1>3 DEF Titles, Marked
<1>5. Returned(p)
  BY <1>0, <1>1, <1>3, <1>4, ReturnKeeps DEF Types
<1>6. Budget' /\ Tally'
  BY <1>0, <1>1, <1>3, <1>5, BudgetKept, TallyKept
<1>7. UndoneByStale
  BY <1>0, <1>3 DEF UndoneByStale, Titles, Marked
<1> QED
  BY <1>5, <1>6, <1>7 DEF IInv, Returned

LEMMA UpdateLastMessageAtKeeps ==
  ASSUME StoreAssumption, IInv, NEW p \in Callers, UpdateLastMessageAt(p) PROVE IInv' /\ UndoneByStale
<1>0. /\ call[p].op \in {"add", "reply"} /\ (call[p].op = "add" => call[p].at = "stamp")
      /\ Return(p) /\ UNCHANGED <<messages, calls, overlap, missed, unsaved>>
      /\ Types /\ Titles /\ row \in Rows
      /\ row' = IF row.deleted THEN row ELSE [row EXCEPT !.last = TRUE]
  BY DEF UpdateLastMessageAt, history, IInv, Types, At, UpdateRow
<1>1. call[p].op # "idle" /\ p \notin Touching
  BY <1>0 DEF Touching, At
<1>3. /\ row' \in Rows /\ row'.count = row.count /\ row'.title = row.title /\ row'.manual = row.manual
      /\ row'.deleted = row.deleted /\ row'.status = row.status
  BY <1>0, LastWritten
<1>4. Marked(row)'
  BY <1>0, <1>3 DEF Titles, Marked
<1>5. Returned(p)
  BY <1>0, <1>1, <1>3, <1>4, ReturnKeeps DEF Types
<1>6. Budget' /\ Tally'
  BY <1>0, <1>1, <1>3, <1>5, BudgetKept, TallyKept
<1>7. UndoneByStale
  BY <1>0, <1>3 DEF UndoneByStale, Titles, Marked
<1> QED
  BY <1>5, <1>6, <1>7 DEF IInv, Returned

LEMMA StatementFailsKeeps ==
  ASSUME StoreAssumption, IInv, NEW p \in Callers, StatementFails(p) PROVE IInv'
<1>0. /\ call[p].op # "idle" /\ Return(p) /\ UNCHANGED <<row, messages, calls, overlap, unsaved>>
      /\ missed' = IF p \in Touching THEN missed + 1 ELSE missed
      /\ Types /\ Titles /\ Budget /\ Tally /\ row \in Rows /\ missed \in Nat
  BY DEF StatementFails, IInv, Types, Touching
<1>1. missed' \in Nat /\ Marked(row)' /\ row' \in Rows
  BY <1>0 DEF Titles, Marked
<1>2. Returned(p)
  BY <1>0, <1>1, ReturnKeeps
<1>3. Budget'
  BY <1>0, <1>2, BudgetKept
<1>4. Tally'
  <2>1. CASE p \notin Touching
    BY <1>0, <1>2, <2>1, TallyKept
  <2>2. CASE p \in Touching
    <3>1. /\ Cardinality(Touching) \in Nat /\ Cardinality(Touching \ {p}) = Cardinality(Touching) - 1
      BY <2>2, SmallSets, FS_RemoveElement DEF Touching
    <3>2. Counting' = Counting /\ (Clearing' => Clearing)
      BY <1>0, <1>2, NoLongerClearing DEF Counting
    <3>3. row'.count + missed' + Cardinality(Touching') = row.count + missed + Cardinality(Touching)
      <4>1. Touching' = Touching \ {p} /\ row' = row
        BY <1>0, <1>2 DEF Returned
      <4>2. row.count \in Nat
        BY <1>0, CallFacts DEF CallsTyped
      <4> QED
        BY <1>0, <2>2, <3>1, <4>1, <4>2
    <3> QED
      BY <1>0, <3>2, <3>3 DEF Tally
  <2> QED
    BY <2>1, <2>2
<1> QED
  BY <1>2, <1>3, <1>4 DEF IInv, Returned

LEMMA SaveUpdateKeeps ==
  ASSUME StoreAssumption, IInv, NEW p \in Callers, SaveUpdate(p) PROVE IInv' /\ UndoneByStale
<1> DEFINE copy == call[p].copy
<1>0. /\ call[p].op \in {"update", "amend"} /\ Return(p) /\ UNCHANGED <<messages, calls, overlap, missed, unsaved>>
      /\ Types /\ Titles /\ Allowed /\ Tally /\ copy \in Rows
      /\ row' = IF call[p].op = "amend" THEN copy ELSE [copy EXCEPT !.title = "manual", !.manual = TRUE]
  BY CallFacts DEF SaveUpdate, history, IInv, CallsTyped
<1>1. /\ call[p].op # "idle" /\ p \in Busy /\ ~At(p, "clear", "save") /\ call[p].op \in Savers /\ ~copy.deleted
      /\ call[p].op \in SaveOps /\ Marked(copy)
  BY <1>0 DEF Busy, At, Savers, SaveOps, Allowed, Titles
<1> HIDE DEF copy
<1>3. /\ row' \in Rows /\ row'.count = copy.count /\ row'.deleted = copy.deleted /\ row'.status = copy.status
      /\ Marked(row)' /\ (row'.title # "manual" => ~copy.manual)
  <2>1. CASE call[p].op = "amend"
    BY <1>0, <1>1, <2>1 DEF Marked
  <2>2. CASE call[p].op # "amend"
    <3>1. row' = [copy EXCEPT !.title = "manual", !.manual = TRUE]
      BY <1>0, <2>2
    <3> QED
      BY <1>0, <3>1, ManualWritten DEF Marked
  <2> QED
    BY <2>1, <2>2
<1>5. Returned(p)
  BY <1>0, <1>1, <1>3, ReturnKeeps DEF Types
<1>6. Budget'
  BY <1>0, <1>3, <1>5, BudgetKept DEF copy
<1>7. Tally'
  <2> SUFFICES ASSUME ~overlap
               PROVE ~Clearing' /\ row'.count + missed' + Cardinality(Touching') = Cardinality(Counting')
    BY <1>0 DEF Tally
  <2>1. /\ copy = row /\ ~row.deleted /\ Touching = {} /\ Touching' = {} /\ ~Clearing' /\ ~Clearing
    BY <1>1, <1>5, SavedAlone DEF copy
  <2>2. Counting' = Counting
    BY <1>0 DEF Counting
  <2> QED
    BY <1>0, <1>3, <2>1, <2>2 DEF Tally
<1>8. UndoneByStale
  <2>1. call'[p] # call[p]
    BY <1>1, <1>5 DEF Returned, Idle
  <2> QED
    BY <1>1, <1>3, <2>1 DEF UndoneByStale, copy
<1> QED
  BY <1>5, <1>6, <1>7, <1>8 DEF IInv, Returned

LEMMA SaveTitleKeeps ==
  ASSUME StoreAssumption, IInv, NEW p \in Callers, SaveTitle(p) PROVE IInv' /\ UndoneByStale
<1> DEFINE copy == call[p].copy
<1>0. /\ call[p].op = "title" /\ Return(p) /\ UNCHANGED <<messages, calls, overlap, missed, unsaved>>
      /\ Types /\ Titles /\ Allowed /\ Tally /\ copy \in Rows /\ row \in Rows
      /\ row' \in {row, [copy EXCEPT !.title = "auto"]}
  BY CallFacts DEF SaveTitle, history, IInv, CallsTyped, Types
<1>1. /\ call[p].op # "idle" /\ p \in Busy /\ ~At(p, "clear", "save") /\ call[p].op \in Savers /\ ~copy.deleted
      /\ call[p].op \in SaveOps /\ ~copy.manual
  BY <1>0 DEF Busy, At, Savers, SaveOps, Allowed
<1> HIDE DEF copy
<1>2. ~overlap => copy = row
  BY <1>0, <1>1 DEF IInv, Alone, copy
<1>3. /\ row' \in Rows /\ Marked(row)' /\ row'.count \in {row.count, copy.count}
      /\ (row' = row \/ (row'.count = copy.count /\ row'.deleted = copy.deleted /\ row'.status = copy.status))
  <2>1. CASE row' = row
    BY <1>0, <2>1 DEF Titles, Marked
  <2>2. CASE row' = [copy EXCEPT !.title = "auto"]
    BY <1>0, <1>1, <2>2, TitleWritten DEF Marked
  <2> QED
    BY <1>0, <2>1, <2>2
<1>5. Returned(p)
  BY <1>0, <1>1, <1>3, ReturnKeeps DEF Types
<1>6. Budget'
  BY <1>0, <1>3, <1>5, BudgetKept DEF copy
<1>7. Tally'
  <2> SUFFICES ASSUME ~overlap
               PROVE ~Clearing' /\ row'.count + missed' + Cardinality(Touching') = Cardinality(Counting')
    BY <1>0 DEF Tally
  <2>1. /\ copy = row /\ ~row.deleted /\ Touching = {} /\ Touching' = {} /\ ~Clearing' /\ ~Clearing
    BY <1>1, <1>5, SavedAlone DEF copy
  <2>2. Counting' = Counting
    BY <1>0 DEF Counting
  <2> QED
    BY <1>0, <1>3, <2>1, <2>2 DEF Tally
<1>8. UndoneByStale
  <2>1. call'[p] # call[p]
    BY <1>1, <1>5 DEF Returned, Idle
  <2> QED
    BY <1>1, <1>3, <2>1, RowStays DEF UndoneByStale, copy
<1> QED
  BY <1>5, <1>6, <1>7, <1>8 DEF IInv, Returned

LEMMA SaveClearedKeeps ==
  ASSUME StoreAssumption, IInv, NEW p \in Callers, SaveCleared(p) PROVE IInv' /\ UndoneByStale
<1> DEFINE copy == call[p].copy
<1>0. /\ call[p].op = "clear" /\ At(p, "clear", "save") /\ Return(p) /\ UNCHANGED <<messages, calls, overlap>>
      /\ missed' = 0 /\ unsaved' = {} /\ Types /\ Titles /\ Allowed /\ Tally /\ copy \in Rows
      /\ row' = [copy EXCEPT !.count = 0, !.last = FALSE]
  BY CallFacts DEF SaveCleared, IInv, CallsTyped, At
<1>1. /\ call[p].op # "idle" /\ p \in Busy /\ call[p].op \in Savers /\ ~copy.deleted /\ Marked(copy)
  BY <1>0 DEF Busy, Savers, Allowed, Titles
<1> HIDE DEF copy
<1>3. /\ row' \in Rows /\ row'.count = 0 /\ row'.deleted = copy.deleted /\ row'.status = copy.status
      /\ row'.title = copy.title /\ row'.manual = copy.manual
  BY <1>0, CountWritten, NumberIsNat
<1>4. Marked(row)'
  BY <1>1, <1>3 DEF Marked
<1>5. Returned(p)
  BY <1>0, <1>1, <1>3, <1>4, ReturnKeeps
<1>6. Budget'
  BY <1>0, <1>3, <1>5, BudgetKept
<1>7. Tally'
  <2> SUFFICES ASSUME ~overlap
               PROVE ~Clearing' /\ row'.count + missed' + Cardinality(Touching') = Cardinality(Counting')
    BY <1>0 DEF Tally
  <2>1. /\ copy = row /\ ~row.deleted /\ Touching' = {} /\ ~Clearing' /\ Clearing
    BY <1>0, <1>1, <1>5, SavedAlone DEF copy
  <2>2. Counting' = {} /\ Cardinality({}) = 0
    BY <1>0, <2>1, FS_EmptySet DEF Tally, Counting
  <2> QED
    BY <1>0, <1>3, <2>1, <2>2
<1>8. UndoneByStale
  <2>1. call'[p] # call[p] /\ call[p].op \in SaveOps \cup {"clear"}
    BY <1>0, <1>1, <1>5 DEF Returned, Idle
  <2> QED
    BY <1>1, <1>3, <2>1 DEF UndoneByStale, copy, Marked
<1> QED
  BY <1>5, <1>6, <1>7, <1>8 DEF IInv, Returned

-----------------------------------------------------------------------------
(* The steps of a call that leave the row alone.                           *)
Went(p, at) ==
  /\ call' \in [Callers -> AnyCall]
  /\ call'[p].op = call[p].op /\ call'[p].at = at /\ call'[p].copy = call[p].copy
  /\ call'[p].next = call[p].next /\ call'[p].seen = call[p].seen
  /\ \A q \in Callers \ {p} : call'[q] = call[q]

LEMMA GotoFacts == ASSUME Types, NEW p \in Callers, NEW at \in Stages, Goto(p, at) PROVE Went(p, at)
<1> DEFINE new == [call[p] EXCEPT !.at = at]
<1>1. call \in [Callers -> AnyCall] /\ call' = [call EXCEPT ![p] = new] /\ call[p] \in AnyCall
  BY DEF Goto, Types
<1>2. /\ new \in AnyCall /\ new.op = call[p].op /\ new.at = at /\ new.copy = call[p].copy
      /\ new.next = call[p].next /\ new.seen = call[p].seen
  BY <1>1 DEF AnyCall
<1> HIDE DEF new
<1> QED
  BY <1>1, <1>2 DEF Went

(* What a step keeps that leaves the row, what the calls are and what they *)
(* have read.                                                              *)
LEMMA CallsStand ==
  ASSUME IInv, row' = row, calls' = calls, overlap' = overlap,
         \A q \in Callers : /\ call'[q].op = call[q].op /\ call'[q].copy = call[q].copy
                            /\ call'[q].at = "stamp" <=> call[q].at = "stamp"
  PROVE  Budget' /\ Titles' /\ Allowed' /\ Alone'
<1>1. Adders' = Adders /\ Busy' = Busy
  BY DEF Adders, Busy
<1>2. Budget /\ Titles /\ Allowed /\ Alone
  BY DEF IInv
<1>3. Budget'
  BY <1>1, <1>2 DEF Budget
<1>4. Titles' /\ Allowed'
  BY <1>2 DEF Titles, Allowed, Marked
<1>5. Alone'
  BY <1>1, <1>2 DEF Alone, Busy
<1> QED
  BY <1>3, <1>4, <1>5

LEMMA ClearMessagesKeeps ==
  ASSUME StoreAssumption, IInv, NEW p \in Callers, ClearMessages(p) PROVE IInv'
<1>0. /\ call[p].op = "clear" /\ call[p].at = "start" /\ Goto(p, "save") /\ UNCHANGED <<row, calls, overlap, missed>>
      /\ messages' = [m \in Ids |-> [messages[m] EXCEPT !.live = FALSE, !.cleared = TRUE]]
      /\ unsaved' = unsaved \cup {m \in Ids : ~messages[m].cleared}
      /\ Types /\ Numbers /\ Tally /\ MessagesTyped
  BY MessageFacts DEF ClearMessages, IInv, At
<1>1. Went(p, "save")
  BY <1>0, GotoFacts DEF Stages
<1>2. Budget' /\ Titles' /\ Allowed' /\ Alone'
  BY <1>0, <1>1, CallsStand DEF Went
<1>3. ASSUME NEW m \in 1..Len(messages)
      PROVE  /\ messages'[m] \in AnyMessage /\ messages'[m].cleared /\ messages'[m].user = messages[m].user
             /\ messages'[m].seq = messages[m].seq
             /\ messages'[m].seen = messages[m].seen
  <2> DEFINE gone == [messages[m] EXCEPT !.live = FALSE]
  <2>1. gone \in AnyMessage /\ gone.user = messages[m].user /\ gone.seq = messages[m].seq /\ gone.seen = messages[m].seen
    BY <1>0 DEF MessagesTyped, AnyMessage
  <2>2. messages'[m] = [messages[m] EXCEPT !.live = FALSE, !.cleared = TRUE]
    BY <1>0 DEF MessagesTyped
  <2>3. messages'[m] = [gone EXCEPT !.cleared = TRUE]
    BY <2>2, Zenon
  <2> HIDE DEF gone
  <2> QED
    BY <2>1, <2>3 DEF AnyMessage
<1>4. Len(messages') = Len(messages) /\ messages' \in Seq(AnyMessage)
  <2>1. messages' = [m \in 1..Len(messages) |-> messages'[m]] /\ Len(messages) \in Nat
    BY <1>0 DEF MessagesTyped
  <2>2. messages' \in [1..Len(messages) -> AnyMessage]
    BY <1>3, <2>1
  <2> QED
    BY <2>1, <2>2
<1>5. Types'
  BY <1>0, <1>1, <1>4 DEF Types, Went
<1>6. Numbers'
  <2>1. ASSUME NEW m \in 1..Len(messages')
        PROVE  /\ 1 <= messages'[m].seq /\ messages'[m].seq <= m
               /\ \A n \in messages'[m].seen : n \in 1..Len(messages') /\ messages'[n].seq < messages'[m].seq
    BY <1>0, <1>3, <1>4 DEF Numbers
  <2>2. ASSUME NEW q \in Callers
        PROVE  /\ call'[q].next = call[q].next /\ call'[q].seen = call[q].seen
               /\ call'[q].at = "create" => call[q].at = "create"
    BY <1>1 DEF Went
  <2>3. ASSUME NEW q \in Callers
        PROVE  /\ call'[q].next <= Len(messages') + 1
               /\ \A n \in call'[q].seen : n \in 1..Len(messages') /\ messages'[n].seq < call'[q].next
               /\ call'[q].at = "create" => call'[q].next # 0
    BY <1>0, <1>3, <1>4, <2>2 DEF Numbers, Follows
  <2> QED
    BY <2>1, <2>3 DEF Numbers, Follows
<1>7. Tally'
  <2>1. Touching' = Touching
    BY <1>0, <1>1 DEF Touching, At, Went
  <2>2. Counting' = Counting
    BY <1>0, <1>3, <1>4 DEF Counting, MessagesTyped
  <2> QED
    BY <1>0, <1>3, <1>4, <2>1, <2>2 DEF Tally
<1> QED
  BY <1>2, <1>5, <1>6, <1>7 DEF IInv

LEMMA TakeNumberKeeps ==
  ASSUME StoreAssumption, IInv, NEW p \in Callers, TakeNumber(p) PROVE IInv'
<1> DEFINE number == NextSequence
           made == [call[p] EXCEPT !.at = "create"]
           numbered == [made EXCEPT !.next = number]
           new == [numbered EXCEPT !.seen = Live]
<1>0. /\ call[p].op \in CreateOps /\ call[p].at = "start" /\ UNCHANGED <<row, messages, calls, overlap, missed, unsaved>>
      /\ call' = [call EXCEPT ![p].at = "create", ![p].next = NextSequence, ![p].seen = Live]
      /\ Types /\ Numbers /\ Tally /\ MessagesTyped /\ call \in [Callers -> AnyCall]
  BY MessageFacts DEF TakeNumber, history, IInv, Types
<1>1. /\ number \in 1..(MaxMessages + 1) /\ number <= Len(messages) + 1
      /\ \A m \in Live : messages[m].seq < number
  BY <1>0, NextNumber
<1>2. number \in Number /\ number # 0 /\ Live \subseteq Nat
  BY <1>0, <1>1 DEF Number, MessagesTyped
<1>3. call' = [call EXCEPT ![p] = new]
  <2> DEFINE c == [call EXCEPT ![p].at = "create"]
             d == [c EXCEPT ![p].next = number]
  <2>1. c = [call EXCEPT ![p] = made] /\ c[p] = made
    BY <1>0
  <2>2. d = [call EXCEPT ![p] = numbered] /\ d[p] = numbered
    BY <1>0, <2>1
  <2>3. call' = [d EXCEPT ![p].seen = Live]
    BY <1>0, Zenon
  <2> QED
    BY <1>0, <2>2, <2>3
<1> HIDE DEF number
<1>4. /\ new \in AnyCall /\ new.op = call[p].op /\ new.at = "create" /\ new.copy = call[p].copy
      /\ new.next = number /\ new.seen = Live
  <2>1. /\ made \in AnyCall /\ made.op = call[p].op /\ made.at = "create" /\ made.copy = call[p].copy
    BY <1>0 DEF AnyCall, Stages
  <2> HIDE DEF made
  <2>2. /\ numbered \in AnyCall /\ numbered.op = call[p].op /\ numbered.at = "create"
        /\ numbered.copy = call[p].copy /\ numbered.next = number
    BY <1>2, <2>1 DEF AnyCall
  <2> HIDE DEF numbered
  <2> QED
    BY <1>2, <2>2 DEF AnyCall
<1> HIDE DEF new
<1>5. call'[p] = new /\ \A q \in Callers \ {p} : call'[q] = call[q]
  BY <1>0, <1>3
<1>6. Types'
  BY <1>0, <1>3, <1>4 DEF Types
<1>7. Numbers'
  BY <1>0, <1>1, <1>2, <1>4, <1>5 DEF Numbers, Follows, MessagesTyped
<1>8. Budget' /\ Titles' /\ Allowed' /\ Alone'
  BY <1>0, <1>4, <1>5, CallsStand
<1>9. Tally'
  <2>1. Touching' = Touching /\ (Clearing' <=> Clearing)
    BY <1>0, <1>4, <1>5 DEF Touching, Clearing, At, CreateOps
  <2>2. Counting' = Counting
    BY <1>0 DEF Counting
  <2> QED
    BY <1>0, <2>1, <2>2 DEF Tally
<1> QED
  BY <1>6, <1>7, <1>8, <1>9 DEF IInv

LEMMA IncrementMessageCountKeeps ==
  ASSUME StoreAssumption, IInv, NEW p \in Callers, IncrementMessageCount(p) PROVE IInv' /\ UndoneByStale
<1>0. /\ call[p].op = "add" /\ call[p].at = "touch" /\ Goto(p, "stamp")
      /\ UNCHANGED <<messages, calls, overlap, missed, unsaved>>
      /\ Types /\ Titles /\ Numbers /\ Allowed /\ Budget /\ Alone /\ Tally /\ row \in Rows
      /\ row' = IF row.deleted THEN row ELSE [row EXCEPT !.count = row.count + 1]
  BY DEF IncrementMessageCount, history, IInv, Types, At, UpdateRow
<1>1. Went(p, "stamp")
  BY <1>0, GotoFacts DEF Stages
<1>2. /\ p \in Touching /\ p \in Adders /\ Touching' = Touching \ {p} /\ Adders' = Adders \ {p}
      /\ Busy' = Busy /\ (Clearing' => Clearing) /\ p \in Busy
  BY <1>0, <1>1 DEF Touching, Adders, At, Busy, Clearing, Went
<1>3. /\ IsFiniteSet(Adders) /\ Cardinality(Adders) \in Nat /\ Cardinality(Adders) # 0
      /\ Cardinality(Adders') = Cardinality(Adders) - 1
      /\ Cardinality(Touching) \in Nat /\ Cardinality(Touching') = Cardinality(Touching) - 1
  <2>1. Adders \in SUBSET Callers /\ Touching \in SUBSET Callers
    BY DEF Adders, Touching
  <2>2. /\ IsFiniteSet(Adders) /\ Cardinality(Adders) \in Nat
        /\ IsFiniteSet(Touching) /\ Cardinality(Touching) \in Nat
    BY <2>1, SmallSets
  <2>3. Cardinality(Adders) # 0
    BY <1>2, <2>2, FS_EmptySet
  <2> QED
    BY <1>2, <2>2, <2>3, FS_RemoveElement
<1>4. /\ calls \in Nat /\ MaxCalls \in Nat /\ calls <= MaxCalls /\ row.count \in Nat
      /\ row.count + Cardinality(Adders) <= calls
      /\ \A q \in Callers : call[q].copy.count \in Nat /\ call[q].copy.count + Cardinality(Adders) <= calls
  BY <1>0, CallFacts DEF Budget, CallsTyped
<1>5. /\ row' \in Rows /\ row'.title = row.title /\ row'.manual = row.manual
      /\ row'.deleted = row.deleted /\ row'.status = row.status
      /\ row'.count = IF row.deleted THEN row.count ELSE row.count + 1
  <2>1. CASE row.deleted
    BY <1>0, <2>1
  <2>2. CASE ~row.deleted
    <3>1. PICK k \in 0..MaxCalls : k = row.count + 1
      BY <1>3, <1>4
    <3>2. row' = [row EXCEPT !.count = k]
      BY <1>0, <2>2, <3>1
    <3> QED
      BY <1>0, <2>2, <3>1, <3>2 DEF Rows
  <2> QED
    BY <2>1, <2>2
<1>6. Types'
  BY <1>0, <1>1, <1>5 DEF Types, Went
<1>7. Budget'
  <2>1. row'.count + Cardinality(Adders') <= calls'
    BY <1>0, <1>3, <1>4, <1>5
  <2>2. ASSUME NEW q \in Callers PROVE call'[q].copy.count + Cardinality(Adders') <= calls'
    <3>1. call'[q].copy = call[q].copy
      BY <1>1 DEF Went
    <3> QED
      BY <1>0, <1>3, <1>4, <3>1
  <2> QED
    BY <2>1, <2>2 DEF Budget
<1>8. Numbers'
  BY <1>0, <1>1 DEF Numbers, Follows, Went
<1>9. Titles' /\ Allowed'
  BY <1>0, <1>1, <1>5 DEF Titles, Marked, Allowed, Went
<1>10. Alone'
  <2> SUFFICES ASSUME ~overlap, NEW q \in Busy', call'[q].op \in Savers PROVE FALSE
    BY <1>0 DEF Alone
  <2>1. q \in Busy /\ call[q].op \in Savers
    BY <1>1, <1>2 DEF Went, Busy
  <2> QED
    BY <1>0, <1>2, <2>1 DEF Alone, Savers, SaveOps
<1>11. Tally'
  <2>1. Counting' = Counting
    BY <1>0 DEF Counting
  <2> QED
    <3> SUFFICES ASSUME ~overlap, ~row.deleted
                 PROVE  /\ row'.count + missed' + Cardinality(Touching') = Cardinality(Counting')
                        /\ Clearing' => \A m \in 1..Len(messages') : messages'[m].cleared
      BY <1>0, <1>5 DEF Tally
    <3>1. row.count + missed + Cardinality(Touching) = Cardinality(Counting) /\ missed \in Nat
      BY <1>0 DEF Tally, Types
    <3>2. row'.count + missed' + Cardinality(Touching') = Cardinality(Counting')
      BY <1>0, <1>3, <1>4, <1>5, <2>1, <3>1
    <3>3. Clearing' => \A m \in 1..Len(messages') : messages'[m].cleared
      BY <1>0, <1>2 DEF Tally
    <3> QED
      BY <3>2, <3>3
<1>12. UndoneByStale
  BY <1>0, <1>5 DEF UndoneByStale, Titles, Marked
<1> QED
  BY <1>6, <1>7, <1>8, <1>9, <1>10, <1>11, <1>12 DEF IInv

(* A new message takes its place at the end.                               *)
Appended(new) ==
  /\ Len(messages') = Len(messages) + 1 /\ messages' \in Seq(AnyMessage)
  /\ messages'[Len(messages) + 1] = new
  /\ \A m \in 1..Len(messages) : messages'[m] = messages[m]

LEMMA AppendFacts ==
  ASSUME Types, NEW new \in AnyMessage, messages' = Append(messages, new) PROVE Appended(new)
<1>1. messages \in Seq(AnyMessage)
  BY DEF Types
<1> QED
  BY <1>1 DEF Appended

LEMMA CreateMessageKeeps ==
  ASSUME StoreAssumption, IInv, NEW p \in Callers, CreateMessage(p) PROVE IInv'
<1> DEFINE new == NewMessage(p)
           n == Len(messages)
<1>0. /\ call[p].op \in CreateOps /\ call[p].at = "create" /\ n < MaxMessages
      /\ messages' = Append(messages, new) /\ Goto(p, "touch") /\ UNCHANGED <<row, calls, overlap, missed, unsaved>>
      /\ Types /\ Numbers /\ Alone /\ Tally
  BY DEF CreateMessage, history, IInv
<1>a. MessagesTyped /\ CallsTyped
  BY <1>0, MessageFacts, CallFacts
<1>1. /\ new \in AnyMessage /\ new.seq = call[p].next /\ new.seen = call[p].seen /\ ~new.cleared
      /\ new.user <=> call[p].op = "add"
  BY <1>a DEF NewMessage, AnyMessage, CallsTyped
<1> HIDE DEF new
<1>2. Appended(new)
  BY <1>0, <1>1, AppendFacts
<1>3. Went(p, "touch")
  BY <1>0, GotoFacts DEF Stages
<1>4. Budget' /\ Titles' /\ Allowed' /\ Alone'
  BY <1>0, <1>3, CallsStand DEF Went
<1>5. Types'
  <2>1. Len(messages') <= MaxMessages
    BY <1>0, <1>2, <1>a DEF Appended, MessagesTyped
  <2> QED
    BY <1>0, <1>2, <1>3, <2>1 DEF Types, Went, Appended
<1>6. n \in Nat /\ 1..Len(messages') = 1..n \cup {n + 1} /\ n + 1 \notin 1..n
  BY <1>2, <1>a DEF Appended, MessagesTyped
<1>7. Numbers'
  <2>1. /\ 1 <= new.seq /\ new.seq <= n + 1
        /\ \A k \in new.seen : k \in 1..n /\ messages[k].seq < new.seq
    BY <1>0, <1>1, <1>a DEF Numbers, Follows, CallsTyped
  <2>2. ASSUME NEW m \in 1..Len(messages')
        PROVE  /\ 1 <= messages'[m].seq /\ messages'[m].seq <= m
               /\ \A k \in messages'[m].seen : k \in 1..Len(messages') /\ messages'[k].seq < messages'[m].seq
    <3>1. CASE m = n + 1
      BY <1>2, <1>6, <2>1, <3>1 DEF Appended
    <3>2. CASE m \in 1..n
      BY <1>0, <1>2, <1>6, <3>2 DEF Appended, Numbers
    <3> QED
      BY <1>6, <3>1, <3>2
  <2>3. ASSUME NEW q \in Callers
        PROVE  /\ call'[q].next <= Len(messages') + 1
               /\ \A k \in call'[q].seen : k \in 1..Len(messages') /\ messages'[k].seq < call'[q].next
               /\ call'[q].at = "create" => call'[q].next # 0
    <3>1. /\ call'[q].next = call[q].next /\ call'[q].seen = call[q].seen
          /\ call'[q].at = "create" => call[q].at = "create"
      BY <1>3 DEF Went
    <3>2. Len(messages') = n + 1 /\ call[q].next \in Nat
      BY <1>2, <1>a DEF Appended, CallsTyped
    <3>3. call[q].next <= n + 1
      BY <1>0 DEF Numbers, Follows
    <3>4. call[q].next <= n + 1 + 1
      BY <1>6, <3>2, <3>3
    <3>5. \A k \in call[q].seen : k \in 1..Len(messages') /\ messages'[k].seq < call[q].next
      BY <1>0, <1>2, <1>6 DEF Appended, Numbers, Follows
    <3> QED
      BY <1>0, <3>1, <3>2, <3>4, <3>5 DEF Numbers
  <2> QED
    BY <2>2, <2>3 DEF Numbers, Follows
<1>8. Tally'
  <2> SUFFICES ASSUME ~overlap, ~row.deleted
               PROVE ~Clearing' /\ row.count + missed + Cardinality(Touching') = Cardinality(Counting')
    BY <1>0 DEF Tally
  <2>1. ~Clearing
    BY <1>0, NothingCleared
  <2>2. ~Clearing'
    BY <1>3, <2>1 DEF Clearing, At, Went
  <2>3. /\ IsFiniteSet(Touching) /\ Cardinality(Touching) \in Nat /\ p \notin Touching
        /\ Cardinality(Touching \cup {p}) = Cardinality(Touching) + 1
    BY <1>0, SmallSets, FS_AddElement DEF Touching, At
  <2>4. /\ IsFiniteSet(Counting) /\ Cardinality(Counting) \in Nat /\ n + 1 \notin Counting
        /\ Cardinality(Counting \cup {n + 1}) = Cardinality(Counting) + 1
    BY <1>0, <1>6, CountingIsFinite, FS_AddElement DEF Counting
  <2>5. row.count \in Nat /\ missed \in Nat /\ row.count + missed + Cardinality(Touching) = Cardinality(Counting)
    BY <1>0, <1>a, <2>1 DEF Tally, CallsTyped, Types
  <2>6. CASE call[p].op = "add"
    <3>1. Touching' = Touching \cup {p}
      BY <1>3, <2>6 DEF Touching, At, Went
    <3>2. Counting' = Counting \cup {n + 1}
      BY <1>0, <1>1, <1>2, <1>6, <2>6 DEF Counting, Appended
    <3> QED
      BY <2>2, <2>3, <2>4, <2>5, <3>1, <3>2
  <2>7. CASE call[p].op # "add"
    <3>1. Touching' = Touching
      BY <1>3, <2>7 DEF Touching, At, Went
    <3>2. Counting' = Counting
      BY <1>0, <1>1, <1>2, <1>6, <2>7 DEF Counting, Appended
    <3> QED
      BY <2>2, <2>5, <3>1, <3>2
  <2> QED
    BY <2>6, <2>7
<1> QED
  BY <1>4, <1>5, <1>7, <1>8 DEF IInv

LEMMA DeleteMessageKeeps ==
  ASSUME StoreAssumption, IInv, NEW d \in Ids, DeleteMessage(d) PROVE IInv'
<1>0. /\ calls < MaxCalls /\ calls' = calls + 1 /\ messages' = [messages EXCEPT ![d].live = FALSE]
      /\ UNCHANGED <<row, call, overlap, missed, unsaved>>
      /\ Types /\ Budget /\ Numbers /\ Titles /\ Allowed /\ Alone /\ Tally
  BY DEF DeleteMessage, history, IInv
<1>a. MessagesTyped /\ CallsTyped
  BY <1>0, MessageFacts, CallFacts
<1>1. ASSUME NEW m \in 1..Len(messages)
      PROVE  /\ messages'[m] \in AnyMessage /\ messages'[m].cleared = messages[m].cleared
             /\ messages'[m].user = messages[m].user
             /\ messages'[m].seq = messages[m].seq /\ messages'[m].seen = messages[m].seen
  <2>1. messages[m] \in AnyMessage /\ messages \in Seq(AnyMessage)
    BY <1>0, <1>a DEF MessagesTyped, Types
  <2>2. messages'[m] = IF m = d THEN [messages[m] EXCEPT !.live = FALSE] ELSE messages[m]
    BY <1>0, <1>a DEF MessagesTyped, Ids
  <2> QED
    BY <2>1, <2>2 DEF AnyMessage
<1>2. Len(messages') = Len(messages) /\ messages' \in Seq(AnyMessage)
  <2>1. DOMAIN messages' = 1..Len(messages) /\ Len(messages) \in Nat
    BY <1>0, <1>a DEF MessagesTyped, Ids
  <2>2. messages' = [m \in 1..Len(messages) |-> messages'[m]]
    BY <1>0, <1>a, <2>1 DEF MessagesTyped, Ids
  <2>3. messages' \in [1..Len(messages) -> AnyMessage]
    BY <1>1, <2>2
  <2> QED
    BY <2>1, <2>3
<1>3. Types'
  <2>1. calls' \in 0..MaxCalls
    BY <1>0, <1>a DEF CallsTyped
  <2> QED
    BY <1>0, <1>2, <2>1 DEF Types
<1>4. Budget'
  <2>1. Adders' = Adders /\ Cardinality(Adders) \in Nat
    BY <1>0, SmallSets DEF Adders
  <2>2. ASSUME NEW k \in Nat, k + Cardinality(Adders) <= calls PROVE k + Cardinality(Adders') <= calls'
    BY <1>0, <1>a, <2>1, <2>2 DEF CallsTyped
  <2> QED
    BY <1>0, <1>a, <2>2 DEF Budget, CallsTyped
<1>5. Numbers'
  <2>1. ASSUME NEW m \in 1..Len(messages')
        PROVE  /\ 1 <= messages'[m].seq /\ messages'[m].seq <= m
               /\ \A n \in messages'[m].seen : n \in 1..Len(messages') /\ messages'[n].seq < messages'[m].seq
    BY <1>0, <1>1, <1>2 DEF Numbers
  <2>2. ASSUME NEW q \in Callers
        PROVE  /\ call[q].next <= Len(messages') + 1
               /\ \A n \in call[q].seen : n \in 1..Len(messages') /\ messages'[n].seq < call[q].next
               /\ call[q].at = "create" => call[q].next # 0
    BY <1>0, <1>1, <1>2 DEF Numbers, Follows
  <2> QED
    BY <1>0, <2>1, <2>2 DEF Numbers, Follows
<1>6. Titles' /\ Allowed' /\ Alone'
  BY <1>0 DEF Titles, Marked, Allowed, Alone, Busy
<1>7. Tally'
  <2>1. Touching' = Touching /\ (Clearing' <=> Clearing)
    BY <1>0 DEF Touching, Clearing, At
  <2>2. Counting' = Counting
    BY <1>0, <1>1, <1>2 DEF Counting
  <2> QED
    BY <1>0, <1>1, <1>2, <2>1, <2>2 DEF Tally
<1> QED
  BY <1>3, <1>4, <1>5, <1>6, <1>7 DEF IInv

-----------------------------------------------------------------------------
(* The inductive invariant of the store, and what a step may undo.         *)
LEMMA StepKeeps ==
  ASSUME StoreAssumption, IInv, [Next]_vars PROVE IInv' /\ UndoneByStale
<1>1. CASE UNCHANGED vars
  <2>1. Adders' = Adders /\ Busy' = Busy /\ Counting' = Counting /\ Touching' = Touching
        /\ (Clearing' <=> Clearing)
    BY <1>1 DEF vars, Adders, Busy, Counting, Touching, Clearing, At
  <2>2. Types' /\ Numbers' /\ Titles' /\ Allowed' /\ Alone'
    BY <1>1, <2>1 DEF IInv, vars, Types, Numbers, Follows, Titles, Marked, Allowed, Alone
  <2>3. Budget' /\ Tally'
    BY <1>1, <2>1 DEF IInv, vars, Budget, Tally
  <2> QED
    BY <1>1, <2>2, <2>3, RowStays DEF IInv, vars
<1>2. CASE Next
  <2>1. ASSUME NEW p \in Callers, NEW op \in Ops, Read(p, op) PROVE IInv' /\ UndoneByStale
    BY <2>1, ReadKeeps, RowStays DEF Read
  <2>2. ASSUME NEW p \in Callers, Call(p) PROVE IInv' /\ UndoneByStale
    <3>1. CASE SetStatus(p) \/ DeleteRow(p) \/ UpdateLastMessageAt(p) \/ IncrementMessageCount(p)
      BY <3>1, SetStatusKeeps, DeleteRowKeeps, UpdateLastMessageAtKeeps, IncrementMessageCountKeeps
    <3>2. CASE SaveUpdate(p) \/ SaveTitle(p) \/ SaveCleared(p)
      BY <3>2, SaveUpdateKeeps, SaveTitleKeeps, SaveClearedKeeps
    <3>3. CASE ClearMessages(p) \/ TakeNumber(p) \/ CreateMessage(p) \/ StatementFails(p)
      <4>1. row' = row
        BY <3>3 DEF ClearMessages, TakeNumber, CreateMessage, StatementFails
      <4> QED
        BY <3>3, <4>1, ClearMessagesKeeps, TakeNumberKeeps, CreateMessageKeeps,
           StatementFailsKeeps, RowStays
    <3>4. \/ \E op \in Ops : Read(p, op)
          \/ SetStatus(p) \/ DeleteRow(p) \/ UpdateLastMessageAt(p) \/ IncrementMessageCount(p)
          \/ SaveUpdate(p) \/ SaveTitle(p) \/ SaveCleared(p)
          \/ ClearMessages(p) \/ TakeNumber(p) \/ CreateMessage(p) \/ StatementFails(p)
      BY <2>2 DEF Call, SetsStatus, UpdateSession, RenameSession, DeleteSession, ClearSessionMessages,
                  CreateNumbered, AddMessage, StoreReply, Reads
    <3> QED
      BY <2>1, <3>1, <3>2, <3>3, <3>4
  <2>3. ASSUME NEW d \in Ids, DeleteMessage(d) PROVE IInv' /\ UndoneByStale
    BY <2>3, DeleteMessageKeeps, RowStays DEF DeleteMessage
  <2> QED
    BY <1>2, <2>2, <2>3 DEF Next
<1> QED
  BY <1>1, <1>2

LEMMA IInvHolds == ASSUME StoreAssumption PROVE Spec => []IInv
<1>1. IInv /\ [Next]_vars => IInv'
  BY StepKeeps
<1> QED
  BY InitHolds, <1>1, PTL DEF Spec

(* SessionStore.TypeOK: the row and every copy of it that may be written   *)
(* back are rows of the table, numbers stay in their range, and a title    *)
(* set by hand is marked as such.                                          *)
THEOREM StoreTypeCorrect == ASSUME StoreAssumption PROVE Spec => []TypeOK
<1>1. ASSUME IInv PROVE TypeOK
  <2>1. Types /\ Numbers /\ Titles /\ MessagesTyped /\ CallsTyped
    BY <1>1, MessageFacts, CallFacts DEF IInv
  <2>2. ASSUME NEW m \in Ids PROVE messages[m].seq \in 1..(MaxMessages + 1)
    <3>1. PICK k \in Nat : k = messages[m].seq
      BY <2>1 DEF MessagesTyped
    <3> QED
      BY <2>1, <3>1 DEF Numbers, MessagesTyped
  <2> QED
    BY <2>1, <2>2 DEF TypeOK, Types, CallsTyped, Number, Titles, Marked
<1> QED
  BY <1>1, IInvHolds, PTL

(* SessionStore.SeenSortsBefore: a message sorts after every message that  *)
(* was there when its number was taken.                                    *)
THEOREM MessagesSortInOrder == ASSUME StoreAssumption PROVE Spec => []SeenSortsBefore
<1>1. ASSUME IInv PROVE SeenSortsBefore
  <2>1. Numbers /\ MessagesTyped
    BY <1>1, MessageFacts DEF IInv
  <2> QED
    BY <2>1 DEF SeenSortsBefore, Numbers, MessagesTyped
<1> QED
  BY <1>1, IInvHolds, PTL

(* SessionStore.CountMatches: unless a row was saved beside another call, a *)
(* session at rest counts the user's messages since it was last cleared,   *)
(* short of those whose AddMessage failed before it counted them.          *)
THEOREM SessionCounts == ASSUME StoreAssumption PROVE Spec => []CountMatches
<1>1. ASSUME IInv PROVE CountMatches
  <2> SUFFICES ASSUME ~overlap, ~row.deleted, Busy = {}
               PROVE row.count + missed =
                     Cardinality({m \in Ids : messages[m].user /\ (~messages[m].cleared \/ m \in unsaved)})
    BY DEF CountMatches
  <2>1. Tally /\ MessagesTyped /\ CallsTyped /\ missed \in Nat
    BY <1>1, MessageFacts, CallFacts DEF IInv, Types
  <2>2. Touching = {}
    BY DEF Busy, Touching, At
  <2>3. {m \in Ids : messages[m].user /\ (~messages[m].cleared \/ m \in unsaved)} = Counting
    BY <2>1 DEF Counting, MessagesTyped
  <2>4. row.count + missed + Cardinality(Touching) = Cardinality(Counting) /\ row.count \in Nat
    BY <2>1 DEF Tally, CallsTyped
  <2>5. Cardinality(Touching) = 0
    BY <2>2, FS_EmptySet
  <2>6. row.count + missed = Cardinality(Counting)
    BY <2>1, <2>4, <2>5
  <2> QED
    BY <2>3, <2>6
<1> QED
  BY <1>1, IInvHolds, PTL

(* SessionStore.OnlyStaleCallsUndo: a title set by hand, the end of a      *)
(* session and its deletion are undone only by a call that had read the    *)
(* row before.                                                             *)
THEOREM StaleCallsUndo == ASSUME StoreAssumption PROVE Spec => OnlyStaleCallsUndo
<1>1. IInv /\ [Next]_vars => [UndoneByStale]_vars
  BY StepKeeps
<1> QED
  BY <1>1, IInvHolds, PTL DEF Spec, OnlyStaleCallsUndo, UndoneByStale

(* A title set by hand stays in every step before which no call that saves *)
(* the row was open beside another.                                        *)
LEMMA TitleStays ==
  ASSUME IInv, Next, ~overlap, row.manual PROVE row'.title = "manual"
<1>1. /\ row \in Rows /\ row.title = "manual"
      /\ \A p \in Callers : call[p].op \in Savers => call[p].copy = row
  BY DEF IInv, Types, Titles, Marked, Alone, Busy, Savers, SaveOps
<1>2. CASE row' = row
  BY <1>1, <1>2
<1>3. ASSUME NEW p \in Callers,
             SetStatus(p) \/ IncrementMessageCount(p) \/ UpdateLastMessageAt(p) \/ DeleteRow(p)
      PROVE  row'.title = "manual"
  BY <1>1, <1>3 DEF SetStatus, IncrementMessageCount, UpdateLastMessageAt, DeleteRow, UpdateRow, Rows
<1>4. ASSUME NEW p \in Callers, SaveUpdate(p) PROVE row'.title = "manual"
  BY <1>1, <1>4 DEF SaveUpdate, Savers, SaveOps, Rows
<1>5. ASSUME NEW p \in Callers, SaveTitle(p) PROVE FALSE
  BY <1>1, <1>5 DEF SaveTitle, Savers, SaveOps, IInv, Allowed
<1>6. ASSUME NEW p \in Callers, SaveCleared(p) PROVE row'.title = "manual"
  BY <1>1, <1>6 DEF SaveCleared, At, Savers, Rows
<1>7. ASSUME NEW p \in Callers, NEW ops, Reads(p, ops) PROVE row' = row
  BY <1>7 DEF Reads, Read
<1>8. ASSUME NEW p \in Callers, ClearMessages(p) \/ TakeNumber(p) \/ CreateMessage(p) \/ StatementFails(p)
      PROVE  row' = row
  BY <1>8 DEF ClearMessages, TakeNumber, CreateMessage, StatementFails
<1>9. ASSUME NEW m \in Ids, DeleteMessage(m) PROVE row' = row
  BY <1>9 DEF DeleteMessage
<1>10. ASSUME NEW p \in Callers, Call(p) PROVE row'.title = "manual"
  <2>1. CASE SetsStatus(p)
    BY <1>2, <1>3, <1>7, <2>1 DEF SetsStatus
  <2>2. CASE UpdateSession(p) \/ RenameSession(p)
    BY <1>2, <1>4, <1>5, <1>7, <2>2 DEF UpdateSession, RenameSession
  <2>3. CASE DeleteSession(p) \/ ClearSessionMessages(p)
    BY <1>2, <1>3, <1>6, <1>7, <1>8, <2>3 DEF DeleteSession, ClearSessionMessages
  <2>4. CASE CreateNumbered(p) \/ AddMessage(p) \/ StoreReply(p) \/ StatementFails(p)
    BY <1>2, <1>3, <1>7, <1>8, <2>4 DEF CreateNumbered, AddMessage, StoreReply
  <2> QED
    BY <1>10, <2>1, <2>2, <2>3, <2>4 DEF Call
<1> QED
  BY <1>2, <1>9, <1>10 DEF Next

(* ManualTitleStays fails in the code (session_service_test.go:323); it    *)
(* holds while no call that saves a whole row, as renameSession does after *)
(* it has asked the language model, is open beside another call.           *)
THEOREM ManualTitleStaysAlone ==
  ASSUME StoreAssumption PROVE Spec /\ []~overlap => ManualTitleStays
<1> DEFINE Kept == row.manual => row'.title = "manual"
<1>1. IInv /\ [Next]_vars /\ ~overlap => [Kept]_vars
  BY TitleStays
<1> QED
  BY <1>1, IInvHolds, PTL DEF Spec, ManualTitleStays
=============================================================================
