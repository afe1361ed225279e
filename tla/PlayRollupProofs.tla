-------------------------- MODULE PlayRollupProofs --------------------------
(***************************************************************************)
(* Theorems about PlayRollup for every number of plays, hours, batch and   *)
(* budget.  AggregateIsRaw is not inductive: when the forward pass reaches *)
(* an hour, nothing it did not write may be there (AggIsBelow), and the    *)
(* pass has to be at the watermark's hour, at the next one, or, the first  *)
(* time, at the oldest raw row (PassIsAt).  The prune's cutoff outlives    *)
(* the step that clamps it, so CutIsSafe carries the clamp to the deletes. *)
(***************************************************************************)
EXTENDS PlayRollup, TLAPS

AggIsBelow == \A r \in agg : r.hour <= wm

PassIsAt ==
  phase = "roll" =>
    /\ at \in Nat \ {0}
    /\ \/ wm > 0 /\ at \in {wm, wm + 1}
       \/ wm = 0 /\ \A r \in raw : at <= r.hour

CutIsSafe == phase \in {"delete", "pause"} => cut <= wm + 1 /\ cut <= floor

IInv == TypeOK /\ AggIsBelow /\ PassIsAt /\ CutIsSafe /\ AggregateIsRaw

-----------------------------------------------------------------------------
\* The tables of the initial states are sets of rows.
LEMMA TablesAreRows == \A H \in SUBSET Hour : \A L \in Tables(H) : L \subseteq Row /\ \A r \in L : r.hour \in H
<1> SUFFICES ASSUME NEW H \in SUBSET Hour, NEW L \in Tables(H), NEW r \in L
             PROVE  r \in Row /\ r.hour \in H
  OBVIOUS
<1> DEFINE Body == [device: Device, content: Content, hour: H, min: Minutes, ended: BOOLEAN]
<1>0. PICK S \in SUBSET Play : \E f \in [S -> Body] :
        L = {[play |-> p, device |-> f[p].device, content |-> f[p].content, hour |-> f[p].hour,
              min |-> f[p].min, ended |-> f[p].ended] : p \in S}
  BY DEF Tables
<1>1. PICK f \in [S -> Body] :
        L = {[play |-> p, device |-> f[p].device, content |-> f[p].content, hour |-> f[p].hour,
              min |-> f[p].min, ended |-> f[p].ended] : p \in S}
  BY <1>0
<1>2. PICK p \in S : r = [play |-> p, device |-> f[p].device, content |-> f[p].content,
                          hour |-> f[p].hour, min |-> f[p].min, ended |-> f[p].ended]
  BY <1>1
<1>3. f[p] \in Body
  OBVIOUS
<1> QED
  BY <1>2, <1>3 DEF Row

\* A new database and an upgraded one are in the invariant: nothing is repaired yet.
LEMMA InitEstablishes == Init => IInv
<1> SUFFICES ASSUME Init PROVE IInv
  OBVIOUS
<1>1. raw \subseteq Row /\ agg \subseteq Row /\ wm \in 0..MaxHour /\ AggIsBelow
  <2>1. CASE NewDatabase
    BY <2>1, RollupAssumption DEF NewDatabase, AggIsBelow
  <2>2. CASE Upgraded
    <3>1. now \in Nat /\ 1..now \in SUBSET Hour /\ wm \in 0..MaxHour /\ 1..wm \in SUBSET Hour
      BY <2>2, RollupAssumption DEF Init, Upgraded, Hour
    <3>2. raw \subseteq Row
      BY <2>2, <3>1, TablesAreRows DEF Upgraded
    <3>3. agg \subseteq Row /\ \A r \in agg : r.hour \in 1..wm
      BY <2>2, <3>1, TablesAreRows DEF Upgraded
    <3> QED
      BY <3>1, <3>2, <3>3 DEF AggIsBelow
  <2> QED
    BY <2>1, <2>2 DEF Init
<1>2. TypeOK
  <2>1. now \in Hour /\ floor \in 0..MaxHour + 1 /\ at \in 0..MaxHour + 1 /\ cut \in 0..MaxHour + 1
    BY RollupAssumption DEF Init, Hour
  <2>2. known \subseteq Device \cup Content /\ dirty \subseteq Hour /\ left \in Nat /\ phase \in Phase
    BY DEF Init, Phase
  <2>3. repaired \in BOOLEAN /\ checked \in BOOLEAN
    BY DEF Init
  <2> QED
    BY <1>1, <2>1, <2>2, <2>3 DEF TypeOK
<1> QED
  BY <1>1, <1>2 DEF Init, IInv, PassIsAt, CutIsSafe, AggregateIsRaw

-----------------------------------------------------------------------------
\* What every proof below uses of the hour arithmetic.
LEMMA HourIsNat == Hour \subseteq Nat \ {0} /\ \A r \in Row : r.hour \in Hour
BY RollupAssumption DEF Hour, Row

\* Every step keeps the types.
LEMMA TypeStep == IInv /\ [Next]_vars => TypeOK'
<1> SUFFICES ASSUME IInv, [Next]_vars PROVE TypeOK'
  OBVIOUS
<1> USE RollupAssumption DEF IInv, TypeOK, Hour, Phase
<1>1. CASE Write
  <2>1. ASSUME NEW p \in Play, NEW d \in Device, NEW c \in Content \cup {NoContent}, NEW h \in Hour,
               NEW m \in Minutes, NEW e \in BOOLEAN, Insert(p, d, c, h, m, e)
        PROVE  TypeOK'
    <3>1. [play |-> p, device |-> d, content |-> c, hour |-> h, min |-> m, ended |-> e] \in Row
      BY DEF Row
    <3>2. raw' \subseteq Row
      BY <2>1, <3>1 DEF Insert
    <3>3. dirty' \subseteq Hour
      BY <2>1 DEF Insert, Stale
    <3> QED
      BY <2>1, <3>2, <3>3 DEF Insert, sweep
  <2>2. ASSUME NEW r \in raw, Close(r) PROVE TypeOK'
    <3>1. r \in Row
      OBVIOUS
    <3>2. [r EXCEPT !.ended = TRUE] \in Row /\ r.hour \in Hour
      BY <3>1 DEF Row
    <3> QED
      BY <2>2, <3>2 DEF Close, sweep, Stale
  <2>3. ASSUME NEW r \in raw, Skip(r) PROVE TypeOK'
    BY <2>3, HourIsNat DEF Skip, sweep, StaleByDelete
  <2>4. ASSUME NEW d \in Device, DeleteDevice(d) PROVE TypeOK'
    BY <2>4, HourIsNat DEF DeleteDevice, sweep, StaleByDelete, Hours
  <2>5. ASSUME NEW c \in Content, DeleteContent(c) PROVE TypeOK'
    <3>1. \A r \in raw : [r EXCEPT !.content = NoContent] \in Row /\ r.hour \in Hour
      BY DEF Row
    <3> QED
      BY <2>5, <3>1 DEF DeleteContent, sweep, Stale, Hours
  <2> QED
    BY <1>1, <2>1, <2>2, <2>3, <2>4, <2>5 DEF Write
<1>2. CASE Tick
  BY <1>2 DEF Tick, disk, sweep
<1>3. CASE Maintenance
  <2>1. CASE Repair
    <3>1. floor' \in 0..MaxHour + 1
      BY <2>1 DEF Repair, LegacyFloor
    <3>2. dirty' \subseteq Hour
      BY <2>1 DEF Repair, Marked
    <3>3. repaired' \in BOOLEAN /\ checked' \in BOOLEAN
      BY <2>1 DEF Repair
    <3> QED
      BY <2>1, <3>1, <3>2, <3>3 DEF Repair
  <2>2. CASE Begin
    BY <2>2 DEF Begin, NothingYet, From, LastComplete
  <2>3. CASE RollHour
    <3>1. agg' \subseteq Row
      BY <2>3 DEF RollHour, Upserted, InHour
    <3>2. at \in Nat \ {0}
      BY <2>3 DEF RollHour, PassIsAt
    <3> QED
      BY <2>3, <3>1, <3>2 DEF RollHour, MoreHours, LastComplete
  <2>4. CASE Rolled
    BY <2>4 DEF Rolled, disk
  <2>5. CASE Reroll
    BY <2>5 DEF Reroll, Recomputed, InHour
  <2>6. CASE Rerolled
    BY <2>6 DEF Rerolled, disk
  <2>7. CASE PruneStart
    BY <2>7 DEF PruneStart, Prunable, Earlier
  <2>8. CASE NothingToPrune
    BY <2>8 DEF NothingToPrune, disk
  <2>9. CASE DeleteBatch
    BY <2>9, HourIsNat DEF DeleteBatch, Aged, StaleByDelete, Hours
  <2>10. CASE Resume
    BY <2>10 DEF Resume, disk
  <2> QED
    BY <1>3, <2>1, <2>2, <2>3, <2>4, <2>5, <2>6, <2>7, <2>8, <2>9, <2>10 DEF Maintenance
<1>4. CASE Failure
  <2>1. UNCHANGED <<now, disk>> /\ phase' \in Phase /\ at' \in {0, at} /\ left' \in {0, left} /\ cut' \in {0, cut}
    BY <1>4 DEF Failure, RepairFails, RollFails, PruneFails, Crash
  <2>2. checked' \in BOOLEAN
    BY <1>4 DEF Failure, RepairFails, RollFails, PruneFails, Crash
  <2> QED
    BY <2>1, <2>2 DEF disk
<1>5. CASE UNCHANGED vars
  BY <1>5 DEF vars, disk, sweep
<1> QED
  BY <1>1, <1>2, <1>3, <1>4, <1>5 DEF Next

\* The numbers are natural numbers.
LEMMA Numbers == TypeOK => wm \in Nat /\ floor \in Nat /\ cut \in Nat /\ at \in Nat
BY RollupAssumption DEF TypeOK

\* So are the hours of the rows.
LEMMA RowHours == TypeOK => \A r \in raw \cup agg : r.hour \in Nat \ {0}
BY HourIsNat DEF TypeOK

\* The auxiliary facts survive every step.
LEMMA BelowStep == IInv /\ [Next]_vars => AggIsBelow'
<1> SUFFICES ASSUME IInv, [Next]_vars PROVE AggIsBelow'
  OBVIOUS
<1> USE DEF IInv, AggIsBelow
<1>1. CASE RollHour
  <2>1. \A r \in agg : r.hour \in Nat /\ r.hour <= wm
    BY HourIsNat DEF TypeOK
  <2>2. wm <= at
    <3>1. wm \in Nat /\ at \in Nat
      BY <1>1, RollupAssumption DEF RollHour, PassIsAt, TypeOK
    <3> QED
      BY <1>1, <3>1 DEF RollHour, PassIsAt
  <2>3. wm \in Nat /\ at \in Nat /\ wm' = at
    BY <1>1, RollupAssumption DEF RollHour, PassIsAt, TypeOK
  <2>4. \A r \in agg' : r \in agg \/ r.hour = at
    BY <1>1 DEF RollHour, Upserted, InHour
  <2> QED
    BY <2>1, <2>2, <2>3, <2>4
<1>2. CASE Reroll
  <2>1. \A r \in agg' : r \in agg \/ r.hour <= wm
    BY <1>2 DEF Reroll, Recomputed, Recomputable, InHour
  <2> QED
    BY <1>2, <2>1 DEF Reroll
<1>3. CASE Begin
  <2>1. CASE NothingYet
    <3>1. ASSUME NEW r \in agg PROVE FALSE
      <4>1. r.hour \in Nat \ {0}
        BY HourIsNat DEF TypeOK
      <4>2. r.hour <= 0
        BY <2>1 DEF NothingYet
      <4> QED
        BY <4>1, <4>2
    <3> QED
      BY <1>3, <3>1 DEF Begin
  <2>2. CASE From
    BY <1>3, <2>2 DEF Begin, From
  <2> QED
    BY <1>3, <2>1, <2>2 DEF Begin
<1>4. CASE UNCHANGED <<agg, wm>>
  BY <1>4
<1> QED
  BY <1>1, <1>2, <1>3, <1>4 DEF Next, Write, Insert, Close, Skip, DeleteDevice, DeleteContent, Tick,
     Maintenance, Repair, Rolled, Rerolled, PruneStart, NothingToPrune, DeleteBatch, Resume,
     Failure, RepairFails, RollFails, PruneFails, Crash, vars, disk

\* The forward pass stays at the watermark's hour or the next.
LEMMA PassStep == IInv /\ [Next]_vars => PassIsAt'
<1> SUFFICES ASSUME IInv, [Next]_vars, phase' = "roll" PROVE PassIsAt'
  BY DEF PassIsAt
<1> USE DEF IInv
<1>1. CASE Begin
  <2>1. From
    BY <1>1 DEF Begin, NothingYet
  <2>2. CASE wm > 0
    BY <1>1, <2>1, <2>2, RollupAssumption DEF Begin, From, PassIsAt, TypeOK
  <2>3. CASE ~(wm > 0)
    <3>1. wm = 0
      BY <2>3, RollupAssumption DEF TypeOK
    <3>2. PICK h \in Hour : IsOldest(h) /\ at' = h
      BY <2>1, <2>3 DEF From
    <3> QED
      BY <1>1, <2>1, <3>1, <3>2, HourIsNat DEF Begin, From, IsOldest, PassIsAt
  <2> QED
    BY <2>2, <2>3
<1>2. CASE RollHour
  BY <1>2 DEF RollHour, PassIsAt
<1>3. CASE UNCHANGED <<phase, at, wm, raw>>
  BY <1>3 DEF PassIsAt
<1> QED
  BY <1>1, <1>2, <1>3
  DEF Next, Write, Insert, Close, Skip, DeleteDevice, DeleteContent, Tick, Yielded, sweep,
     Maintenance, Repair, Rolled, Reroll, Rerolled, PruneStart, NothingToPrune, DeleteBatch, Resume,
     Failure, RepairFails, RollFails, PruneFails, Crash, vars, disk

\* The cutoff is clamped when it is computed, and no step moves the floor or the watermark back.
LEMMA CutStep == IInv /\ [Next]_vars => CutIsSafe'
<1> SUFFICES ASSUME IInv, [Next]_vars, phase' \in {"delete", "pause"} PROVE CutIsSafe'
  BY DEF CutIsSafe
<1> USE DEF IInv
<1>1. CASE PruneStart
  <2>1. now - Retention \in Int /\ wm \in Nat /\ floor \in Nat
    BY RollupAssumption DEF TypeOK, Hour
  <2>2. Prunable <= wm + 1
    BY <1>1, <2>1 DEF PruneStart, Prunable, Earlier
  <2>3. Prunable \in Int
    BY <2>1 DEF Prunable, Earlier
  <2> QED
    BY <1>1, <2>1, <2>2, <2>3 DEF PruneStart, CutIsSafe
<1>2. CASE phase \in {"delete", "pause"} /\ UNCHANGED <<wm, floor, cut>>
  BY <1>2 DEF CutIsSafe
<1> QED
  BY <1>1, <1>2
  DEF Next, Write, Insert, Close, Skip, DeleteDevice, DeleteContent, Tick, Yielded, sweep,
     Maintenance, Repair, Begin, NothingYet, From, RollHour, Rolled, Reroll, Rerolled, NothingToPrune,
     DeleteBatch, Resume, Failure, RepairFails, RollFails, PruneFails, Crash, vars, disk

-----------------------------------------------------------------------------
\* What the aggregate has to equal, hour by hour, before and after a step.
LEMMA Hourwise ==
  ASSUME IInv, repaired, UNCHANGED repaired,
         \A h \in Hour : floor' <= h /\ h <= wm' /\ h \notin dirty' =>
           \/ /\ floor <= h /\ h <= wm /\ h \notin dirty
              /\ InHour(agg', h) = InHour(agg, h) /\ InHour(raw', h) = InHour(raw, h)
           \/ InHour(agg', h) = InHour(raw', h)
  PROVE  AggregateIsRaw'
BY DEF IInv, AggregateIsRaw, Recomputable, InHour

\* A write leaves the other hours alone and queues its own if it is rolled up.
LEMMA WriteStep == IInv /\ Write => AggregateIsRaw'
<1> SUFFICES ASSUME IInv, Write, repaired PROVE AggregateIsRaw'
  BY DEF AggregateIsRaw, Write, Insert, Close, Skip, DeleteDevice, DeleteContent
<1> DEFINE Kept(h) == floor' <= h /\ h <= wm' /\ h \notin dirty' =>
                        /\ floor <= h /\ h <= wm /\ h \notin dirty
                        /\ InHour(agg', h) = InHour(agg, h) /\ InHour(raw', h) = InHour(raw, h)
<1>1. (\A h \in Hour : Kept(h)) /\ UNCHANGED repaired => AggregateIsRaw'
  BY Hourwise
<1> USE DEF InHour, Hours
<1>2. ASSUME NEW p \in Play, NEW d \in Device, NEW c \in Content \cup {NoContent}, NEW k \in Hour,
             NEW m \in Minutes, NEW e \in BOOLEAN, Insert(p, d, c, k, m, e)
      PROVE  AggregateIsRaw'
  <2>1. ASSUME NEW h \in Hour PROVE Kept(h)
    BY <1>2 DEF Insert, Stale
  <2> QED
    BY <1>1, <1>2, <2>1 DEF Insert
<1>3. ASSUME NEW r \in raw, Close(r) PROVE AggregateIsRaw'
  <2>1. [r EXCEPT !.ended = TRUE].hour = r.hour
    BY DEF IInv, TypeOK, Row
  <2>2. ASSUME NEW h \in Hour PROVE Kept(h)
    BY <1>3, <2>1 DEF Close, Stale
  <2> QED
    BY <1>1, <1>3, <2>2 DEF Close
<1>4. ASSUME NEW r \in raw, Skip(r) PROVE AggregateIsRaw'
  <2>1. ASSUME NEW h \in Hour PROVE Kept(h)
    BY <1>4 DEF Skip, StaleByDelete
  <2> QED
    BY <1>1, <1>4, <2>1 DEF Skip
<1>5. ASSUME NEW d \in Device, DeleteDevice(d) PROVE AggregateIsRaw'
  <2>1. ASSUME NEW h \in Hour PROVE Kept(h)
    BY <1>5 DEF DeleteDevice, StaleByDelete
  <2> QED
    BY <1>1, <1>5, <2>1 DEF DeleteDevice
<1>6. ASSUME NEW c \in Content, DeleteContent(c) PROVE AggregateIsRaw'
  <2>1. \A r \in raw : [r EXCEPT !.content = NoContent].hour = r.hour
    BY DEF IInv, TypeOK, Row
  <2>2. ASSUME NEW h \in Hour PROVE Kept(h)
    BY <1>6, <2>1 DEF DeleteContent, Stale
  <2> QED
    BY <1>1, <1>6, <2>2 DEF DeleteContent
<1> QED
  BY <1>2, <1>3, <1>4, <1>5, <1>6 DEF Write

\* The forward pass only ever writes the hour it is at.
LEMMA RollStep == IInv /\ RollHour => AggregateIsRaw'
<1> SUFFICES ASSUME IInv, RollHour, repaired PROVE AggregateIsRaw'
  BY DEF AggregateIsRaw, RollHour
<1>1. UNCHANGED <<raw, floor, dirty, repaired>> /\ wm' = at /\ agg' = Upserted(at)
  BY DEF RollHour
<1>2. /\ wm \in Nat /\ at \in Nat \ {0}
      /\ \/ wm > 0 /\ at \in {wm, wm + 1}
         \/ wm = 0 /\ \A r \in raw : at <= r.hour
  BY Numbers DEF IInv, RollHour, PassIsAt
<1>3. \A r \in agg : r.hour \in Nat \ {0} /\ r.hour <= wm
  BY HourIsNat DEF IInv, TypeOK, AggIsBelow
<1>4. \A r \in raw : r.hour \in Nat
  BY HourIsNat DEF IInv, TypeOK
<1>5. ASSUME NEW h \in Hour, floor' <= h, h <= wm', h \notin dirty'
      PROVE  \/ /\ floor <= h /\ h <= wm /\ h \notin dirty
                /\ InHour(agg', h) = InHour(agg, h) /\ InHour(raw', h) = InHour(raw, h)
             \/ InHour(agg', h) = InHour(raw', h)
  <2>1. h \in Nat
    BY HourIsNat
  <2>2. CASE h = at
    <3>1. \A r \in agg : r.hour = at => r \in raw
      <4>1. CASE at <= wm
        <5>1. InHour(agg, at) = InHour(raw, at)
          BY <1>1, <1>5, <2>2, <4>1 DEF IInv, AggregateIsRaw, Recomputable
        <5> QED
          BY <5>1 DEF InHour
      <4>2. CASE ~(at <= wm)
        BY <1>2, <1>3, <4>2
      <4> QED
        BY <4>1, <4>2
    <3>2. InHour(agg', h) = InHour(raw, h)
      BY <1>1, <2>2, <3>1 DEF Upserted, InHour, SameGroup
    <3> QED
      BY <1>1, <3>2 DEF InHour
  <2>3. CASE h # at
    <3>1. InHour(agg', h) = InHour(agg, h)
      BY <1>1, <2>3 DEF Upserted, InHour
    <3>2. CASE h <= wm
      BY <1>1, <1>5, <3>1, <3>2 DEF InHour
    <3>3. CASE ~(h <= wm)
      <4>1. wm = 0 /\ h < at
        BY <1>1, <1>2, <1>5, <2>1, <2>3, <3>3
      <4>2. InHour(agg, h) = {} /\ InHour(raw, h) = {}
        BY <1>2, <1>3, <1>4, <2>1, <4>1 DEF InHour
      <4> QED
        BY <1>1, <3>1, <4>2 DEF InHour
    <3> QED
      BY <3>2, <3>3
  <2> QED
    BY <2>2, <2>3
<1> QED
  BY <1>1, <1>5, Hourwise

\* Every step preserves AggregateIsRaw.
LEMMA AggregateStep == IInv /\ [Next]_vars => AggregateIsRaw'
<1> SUFFICES ASSUME IInv, [Next]_vars PROVE AggregateIsRaw'
  OBVIOUS
<1>1. CASE Write
  BY <1>1, WriteStep
<1>2. CASE RollHour
  BY <1>2, RollStep
<1>3. CASE Reroll
  <2> SUFFICES ASSUME repaired PROVE AggregateIsRaw'
    BY <1>3 DEF Reroll, AggregateIsRaw
  <2>1. PICK k \in dirty : /\ agg' = IF Recomputable(k) THEN Recomputed(k) ELSE agg
                           /\ dirty' = dirty \ {k}
    BY <1>3 DEF Reroll
  <2>2. UNCHANGED <<raw, wm, floor, repaired>>
    BY <1>3 DEF Reroll
  <2>3. ASSUME NEW h \in Hour, floor <= h, h <= wm, h \notin dirty'
        PROVE  \/ h \notin dirty /\ InHour(agg', h) = InHour(agg, h)
               \/ InHour(agg', h) = InHour(raw, h)
    BY <2>1, <2>3 DEF Recomputable, Recomputed, InHour
  <2> QED
    BY <2>2, <2>3, Hourwise DEF InHour
<1>4. CASE Repair
  <2>1. CASE repaired
    BY <1>4, <2>1 DEF Repair, IInv, AggregateIsRaw, Recomputable, InHour
  <2>2. CASE ~repaired
    BY <1>4, <2>2 DEF Repair, Marked, AggregateIsRaw, Recomputable
  <2> QED
    BY <2>1, <2>2
<1>5. CASE Begin
  <2>1. CASE NothingYet
    <3>1. \A r \in agg : FALSE
      <4> SUFFICES ASSUME NEW r \in agg PROVE FALSE
        OBVIOUS
      <4>1. r.hour \in Nat \ {0} /\ r.hour <= 0
        BY <2>1, HourIsNat DEF NothingYet, IInv, TypeOK, AggIsBelow
      <4> QED
        BY <4>1
    <3> QED
      BY <1>5, <2>1, <3>1 DEF Begin, NothingYet, AggregateIsRaw, InHour
  <2>2. CASE From
    BY <1>5, <2>2 DEF Begin, From, IInv, AggregateIsRaw, Recomputable, InHour
  <2> QED
    BY <1>5, <2>1, <2>2 DEF Begin
<1>6. CASE PruneStart
  <2>1. floor \in Int /\ Prunable \in Int
    BY RollupAssumption DEF IInv, TypeOK, Hour, Prunable, Earlier
  <2>2. \A h \in Hour : floor' <= h => floor <= h
    BY <1>6, <2>1, HourIsNat DEF PruneStart
  <2> QED
    BY <1>6, <2>2 DEF PruneStart, IInv, AggregateIsRaw, Recomputable, InHour
<1>7. CASE DeleteBatch
  <2> SUFFICES ASSUME repaired PROVE AggregateIsRaw'
    BY <1>7 DEF DeleteBatch, AggregateIsRaw
  <2>1. UNCHANGED <<agg, wm, floor, repaired>> /\ dirty \subseteq dirty'
    BY <1>7 DEF DeleteBatch
  <2>2. \A r \in raw \ raw' : r.hour < cut
    BY <1>7 DEF DeleteBatch, Aged
  <2>3. raw' \subseteq raw
    BY <1>7 DEF DeleteBatch
  <2>4. cut \in Nat /\ floor \in Nat /\ cut <= floor
    BY <1>7, RollupAssumption DEF DeleteBatch, IInv, TypeOK, CutIsSafe
  <2>5. ASSUME NEW h \in Hour, floor <= h PROVE InHour(raw', h) = InHour(raw, h)
    <3>1. h \in Nat /\ \A r \in raw : r.hour \in Nat
      BY HourIsNat DEF IInv, TypeOK
    <3> QED
      BY <2>2, <2>3, <2>4, <2>5, <3>1 DEF InHour
  <2> QED
    BY <2>1, <2>5, Hourwise DEF InHour
<1>8. CASE UNCHANGED disk
  BY <1>8 DEF disk, IInv, AggregateIsRaw, Recomputable, InHour
<1> QED
  BY <1>1, <1>2, <1>3, <1>4, <1>5, <1>6, <1>7, <1>8
  DEF Next, Tick, Maintenance, Rolled, Rerolled, NothingToPrune, Resume, Failure, RepairFails,
      RollFails, PruneFails, Crash, vars

-----------------------------------------------------------------------------
\* The inductive invariant holds of every behaviour of the writers and the sweep.
THEOREM Invariance == Spec => []IInv
<1>1. IInv /\ [Next]_vars => IInv'
  BY TypeStep, BelowStep, PassStep, CutStep, AggregateStep DEF IInv
<1> QED
  BY InitEstablishes, <1>1, PTL DEF Spec

\* Every reachable state of the rollup is well typed.
THEOREM RollupTypeCorrect == Spec => []TypeOK
BY Invariance, PTL DEF IInv

\* The aggregate of every hour that can be recomputed and is not queued is what
\* its raw rows give: no late write, cascade, crash or exception makes it drift.
THEOREM RollupIsExact == Spec => []AggregateIsRaw
BY Invariance, PTL DEF IInv

\* The prune deletes nothing above the watermark.
THEOREM PruneIsClamped == Spec => NeverPastWatermark
<1>1. IInv /\ [Next]_vars => [phase = "delete" => \A r \in raw \ raw' : r.hour <= wm]_vars
  <2> SUFFICES ASSUME IInv, [Next]_vars, phase = "delete", NEW r \in raw \ raw' PROVE r.hour <= wm
    OBVIOUS
  <2>1. DeleteBatch
    BY DEF Next, Write, Insert, Close, Skip, DeleteDevice, DeleteContent, Tick, Yielded, Maintenance,
       Repair, Begin, RollHour, Rolled, Reroll, Rerolled, PruneStart, NothingToPrune, Resume, Failure,
       RepairFails, RollFails, PruneFails, Crash, vars, disk
  <2>2. r.hour < cut /\ cut <= wm + 1
    BY <2>1 DEF DeleteBatch, Aged, IInv, CutIsSafe
  <2>3. r.hour \in Nat /\ cut \in Nat /\ wm \in Nat
    BY Numbers, RowHours DEF IInv
  <2> QED
    BY <2>2, <2>3
<1> QED
  BY Invariance, <1>1, PTL DEF Spec, NeverPastWatermark

\* No pass changes the aggregate of a pruned hour below the watermark's own.
THEOREM OnlyCopySurvives == Spec => OnlyCopyIsKept
<1>1. IInv /\ [Next]_vars => [\A r \in agg : r.hour < floor /\ r.hour < wm => r \in agg']_vars
  <2> SUFFICES ASSUME IInv, [Next]_vars, NEW r \in agg, r.hour < floor, r.hour < wm PROVE r \in agg'
    OBVIOUS
  <2>0. r.hour \in Nat \ {0} /\ wm \in Nat /\ floor \in Nat
    BY Numbers, RowHours DEF IInv
  <2>1. CASE RollHour
    <3>1. r.hour # at
      BY <2>0, <2>1 DEF RollHour, IInv, PassIsAt
    <3> QED
      BY <2>1, <3>1 DEF RollHour, Upserted
  <2>2. CASE Reroll
    <3>1. PICK k \in dirty : agg' = IF Recomputable(k) THEN Recomputed(k) ELSE agg
      BY <2>2 DEF Reroll
    <3>2. k \in Nat
      BY HourIsNat DEF IInv, TypeOK
    <3>3. Recomputable(k) => r.hour # k
      BY <2>0, <3>2 DEF Recomputable
    <3> QED
      BY <3>1, <3>3 DEF Recomputed
  <2>3. CASE UNCHANGED agg
    BY <2>3
  <2> QED
    BY <2>1, <2>2, <2>3
    DEF Next, Write, Insert, Close, Skip, DeleteDevice, DeleteContent, Tick, Maintenance, Repair, Begin,
        Rolled, Rerolled, PruneStart, NothingToPrune, DeleteBatch, Resume, Failure, RepairFails,
        RollFails, PruneFails, Crash, vars, disk
<1> QED
  BY Invariance, <1>1, PTL DEF Spec, OnlyCopyIsKept
=============================================================================
