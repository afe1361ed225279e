-------------------------- MODULE OtaRolloutProofs --------------------------
(***************************************************************************)
(* Type correctness and the two action properties of OtaRollout, for any   *)
(* number of screens and versions, whatever packages can be kept, whoever  *)
(* opted in, and however the fleet changes.                                *)
(*                                                                         *)
(* The tick judges rows as it read them and writes to rows as they are; in *)
(* between an admin may have released, halted or superseded them.  IInv    *)
(* says how far apart the two can be.                                      *)
(***************************************************************************)
EXTENDS OtaRollout, FiniteSetTheorems, WellFoundedInduction, TLAPS

\* Every nonempty set of natural numbers has a least element.
LEMMA LeastNat ==
  ASSUME NEW T, T \subseteq Nat, T # {}
  PROVE  \E m \in T : \A k \in T : m <= k
<1>. DEFINE Less == {p \in Nat \X Nat : p[1] < p[2]}
<1>1. IsWellFoundedOn(Less, Nat)
  BY NatLessThanWellFounded DEF OpToRel
<1>2. \E m \in T : \A k \in T : <<k, m>> \notin Less
  <2>. HIDE DEF Less
  <2>. QED BY <1>1, WFMin
<1>3. \A m, k \in T : <<k, m>> \in Less <=> k < m
  OBVIOUS
<1>4. \A m, k \in T : k < m \/ m <= k
  OBVIOUS
<1>. HIDE DEF Less
<1>. QED BY <1>2, <1>3, <1>4

\* Every nonempty set of indices has a greatest one.
LEMMA GreatestIndex ==
  ASSUME NEW n \in Nat, NEW S \in SUBSET (1..n), S # {}
  PROVE  \E m \in S : \A k \in S : k <= m
<1>. DEFINE T == {n - k : k \in S}
<1>1. T \subseteq Nat
  <2>. SUFFICES ASSUME NEW k \in S PROVE n - k \in Nat
    OBVIOUS
  <2>. k \in 1..n
    OBVIOUS
  <2>. QED OBVIOUS
<1>2. T # {}
  OBVIOUS
<1>3. \A k \in S : n - k \in T
  OBVIOUS
<1>4. \A t \in T : \E m \in S : t = n - m
  OBVIOUS
<1>. HIDE DEF T
<1>5. PICK t \in T : \A u \in T : t <= u
  BY <1>1, <1>2, LeastNat
<1>6. PICK m \in S : t = n - m
  BY <1>4
<1>. QED
  <2>. SUFFICES ASSUME NEW k \in S PROVE k <= m
    BY <1>6
  <2>. n - m <= n - k
    BY <1>3, <1>5, <1>6
  <2>. m \in 1..n /\ k \in 1..n
    OBVIOUS
  <2>. QED OBVIOUS

\* Waves beyond the last are as wide as the last.
Wider(w, x) == w <= x \/ LastWave <= x

\* A row the tick still has to come to was not wider when it was read,
\* and is not beyond the last wave if it was not there.
Behind(read) ==
  /\ DOMAIN read \subseteq Version
  /\ \A v \in DOMAIN read :
       /\ read[v] \in Rollout /\ row[v].status # "none"
       /\ Wider(read[v].wave, row[v].wave)
       /\ read[v].wave < LastWave => row[v].wave <= LastWave

\* A complete row is open to everybody; a row that is not there has no wave.
Waved ==
  \A v \in Version : /\ row[v].status = "complete" => row[v].wave >= LastWave
                     /\ row[v].status = "none" => row[v].wave = 0

\* Versions are begun once.
Listed ==
  /\ \A i, j \in DOMAIN begun : begun[i] = begun[j] => i = j
  /\ \A i \in DOMAIN begun : row[begun[i]].status # "none"

\* A helper has let nothing through but an offer.
Carried == \A s \in through : offer[s] # 0

IInv == TypeOK /\ Behind(pending) /\ Waved /\ Listed /\ Carried

-----------------------------------------------------------------------------
\* A list without repetitions is no longer than there are versions.
LEMMA BegunIsShort ==
  ASSUME NEW list \in Seq(Version), \A i, j \in DOMAIN list : list[i] = list[j] => i = j
  PROVE  Len(list) <= Newest
<1>1. IsFiniteSet(Version) /\ Cardinality(Version) = Newest
  BY FS_Interval, RolloutAssumption DEF Version
<1>2. Len(list) \in Nat /\ DOMAIN list = 1..Len(list)
  OBVIOUS
<1>3. list \in Injection(1..Len(list), Version)
  BY <1>2 DEF Injection, IsInjective
<1>4. Cardinality(1..Len(list)) <= Newest
  BY <1>1, <1>3, FS_Injection
<1>. QED BY <1>2, <1>4, FS_Interval

\* What a new row goes back to is a version begun, or nothing.
LEMMA PreviousType ==
  ASSUME TypeOK
  PROVE  Previous \in 0..Newest
<1>1. CASE Fallbacks = {}
  BY <1>1, RolloutAssumption DEF Previous
<1>2. CASE Fallbacks # {}
  <2>1. Len(begun) \in Nat /\ Fallbacks \in SUBSET (1..Len(begun))
    BY DEF TypeOK, Fallbacks
  <2>2. \E i \in Fallbacks : \A j \in Fallbacks : j <= i
    BY <1>2, <2>1, GreatestIndex
  <2>3. PICK i \in Fallbacks : Previous = begun[i]
    BY <1>2, <2>2 DEF Previous
  <2>4. begun \in Seq(Version) /\ i \in 1..Len(begun)
    BY <2>1 DEF TypeOK
  <2>5. begun[i] \in Version
    BY <2>4
  <2>. QED BY <2>3, <2>5, RolloutAssumption DEF Version
<1>. QED BY <1>1, <1>2

-----------------------------------------------------------------------------
\* What becomes of a row of which one field is written.
LEMMA StatusWritten ==
  ASSUME NEW r \in Rollout, NEW st \in Status, NEW q, q = [r EXCEPT !.status = st]
  PROVE  q \in Rollout /\ q.status = st /\ q.wave = r.wave
  BY DEF Rollout

LEMMA WaveWritten ==
  ASSUME NEW r \in Rollout, NEW w \in 0..LastWave + 1, NEW q, q = [r EXCEPT !.wave = w]
  PROVE  q \in Rollout /\ q.status = r.status /\ q.wave = w
  BY DEF Rollout

LEMMA AgeWritten ==
  ASSUME NEW r \in Rollout, NEW a \in Fresh..Stalled, NEW q, q = [r EXCEPT !.age = a]
  PROVE  q \in Rollout /\ q.status = r.status /\ q.wave = r.wave
  BY DEF Rollout

LEMMA StoppedRow ==
  ASSUME NEW r \in Rollout, NEW st \in Status, NEW q, q = Stopped(r, st)
  PROVE  q \in Rollout /\ q.status = st /\ q.wave = r.wave
<1>1. PICK p : p = [r EXCEPT !.status = st]
  OBVIOUS
<1>2. p \in Rollout /\ p.status = st /\ p.wave = r.wave
  BY <1>1, StatusWritten
<1>3. q = [p EXCEPT !.age = Fresh] /\ Fresh \in Fresh..Stalled
  BY <1>1 DEF Stopped, Fresh, Stalled
<1>. QED BY <1>2, <1>3, AgeWritten

(* Rows only grow: no action narrows a wave or forgets a row, and what is  *)
(* complete is at the last wave.                                           *)
Grown ==
  /\ row' \in [Version -> Rollout]
  /\ \A v \in Version :
       /\ Wider(row[v].wave, row'[v].wave)
       /\ row[v].status # "none" => row'[v].status # "none"
  /\ Waved'

\* ensure opens a rollout at the first wave and leaves the others' waves alone.
LEMMA EnsureGrows ==
  ASSUME IInv, Ensure
  PROVE  /\ Grown /\ \A v \in Version : row'[v].wave = row[v].wave
         /\ row[staged].status = "none" => row'[staged].status = "rolling"
<1>1. staged \in Version /\ row' = Ensured /\ row \in [Version -> Rollout]
  BY DEF IInv, TypeOK, Ensure, Version
<1>2. CASE row[staged].status # "none"
  BY <1>1, <1>2 DEF Ensured, IInv, Waved, Grown, Wider, Rollout
<1>3. CASE row[staged].status = "none"
  <2>1. Opened \in Rollout /\ Opened.status = "rolling" /\ Opened.wave = 0
    BY PreviousType DEF IInv, Opened, Rollout, Status, LastWave, Fresh, Stalled
  <2>2. ASSUME NEW v \in Version
        PROVE  /\ Superseded(row[v]) \in Rollout /\ Superseded(row[v]).wave = row[v].wave
               /\ Superseded(row[v]).status \in {row[v].status, "superseded"}
               /\ row[v].status = "none" => Superseded(row[v]).status = "none"
    <3>1. row[v] \in Rollout /\ "superseded" \in Status
      BY <1>1 DEF Status
    <3>2. CASE row[v].status \in {"rolling", "paused"}
      <4>1. Superseded(row[v]) = Stopped(row[v], "superseded")
        BY <3>2 DEF Superseded
      <4>2. PICK q : q = Stopped(row[v], "superseded")
        OBVIOUS
      <4>3. q \in Rollout /\ q.status = "superseded" /\ q.wave = row[v].wave
        BY <3>1, <4>2, StoppedRow
      <4>. QED BY <3>2, <4>1, <4>2, <4>3
    <3>3. CASE row[v].status \notin {"rolling", "paused"}
      BY <3>1, <3>3 DEF Superseded
    <3>. QED BY <3>2, <3>3
  <2>3. row[staged].wave = 0
    BY <1>1, <1>3 DEF IInv, Waved
  <2>4. row' = [v \in Version |-> IF v = staged THEN Opened ELSE Superseded(row[v])]
    BY <1>1, <1>3 DEF Ensured
  <2>. QED BY <1>1, <1>3, <2>1, <2>2, <2>3, <2>4 DEF IInv, Waved, Grown, Wider, Rollout
<1>. QED BY <1>2, <1>3

\* A turn of the tick writes to rows that are there; what it leaves for later
\* is as far behind as before.
LEMMA TurnGrows ==
  ASSUME IInv, NEW read, Behind(read), Turn(read)
  PROVE  Grown /\ Behind(pending)'
<1>. DEFINE reached == {v \in DOMAIN read : ~\E w \in DOMAIN read : ClearlyWorse(w) /\ Before(w, v)}
<1>1. /\ row' = [v \in Version |-> IF v \in reached THEN Judged(v, read[v]) ELSE row[v]]
      /\ pending' = [v \in DOMAIN read \ reached |-> read[v]]
  BY DEF Turn
<1>2. reached \subseteq DOMAIN read
  OBVIOUS
<1>. HIDE DEF reached
<1>3. ASSUME NEW v \in reached
      PROVE  LET q == Judged(v, read[v]) IN
             /\ q \in Rollout /\ Wider(row[v].wave, q.wave) /\ q.status # "none"
             /\ q.status = "complete" => q.wave >= LastWave
  <2>1. /\ v \in Version /\ row[v] \in Rollout /\ read[v] \in Rollout /\ row[v].status # "none"
        /\ Wider(read[v].wave, row[v].wave)
        /\ read[v].wave < LastWave => row[v].wave <= LastWave
        /\ row[v].status = "complete" => row[v].wave >= LastWave
    BY <1>2 DEF IInv, TypeOK, Behind, Waved
  <2>2. \/ Judged(v, read[v]) = Stopped(row[v], "halted")
        \/ read[v].wave >= LastWave /\ Judged(v, read[v]) = Stopped(row[v], "complete")
        \/ ~(read[v].wave >= LastWave) /\ Judged(v, read[v]) = [row[v] EXCEPT !.wave = row[v].wave + 1, !.age = Fresh]
        \/ Judged(v, read[v]) = row[v]
    BY DEF Judged, Done
  <2>3. row[v].wave \in 0..LastWave + 1 /\ read[v].wave \in 0..LastWave + 1
        /\ Fresh \in Fresh..Stalled /\ {"halted", "complete"} \subseteq Status
        /\ (read[v].wave < LastWave => row[v].wave + 1 \in 0..LastWave + 1)
        /\ (Wider(read[v].wave, row[v].wave) /\ read[v].wave >= LastWave => row[v].wave >= LastWave)
    BY <2>1 DEF Wider, Rollout, Status, LastWave, Fresh, Stalled
  <2>. DEFINE q == Judged(v, read[v])
  <2>4. CASE q = Stopped(row[v], "halted")
    <3>1. q \in Rollout /\ q.status = "halted" /\ q.wave = row[v].wave
      BY <2>1, <2>3, <2>4, StoppedRow
    <3>. QED BY <2>3, <3>1 DEF Wider
  <2>5. CASE read[v].wave >= LastWave /\ q = Stopped(row[v], "complete")
    <3>1. q \in Rollout /\ q.status = "complete" /\ q.wave = row[v].wave
      BY <2>1, <2>3, <2>5, StoppedRow
    <3>. QED BY <2>1, <2>3, <2>5, <3>1 DEF Wider
  <2>6. CASE ~(read[v].wave >= LastWave) /\ q = [row[v] EXCEPT !.wave = row[v].wave + 1, !.age = Fresh]
    <3>1. read[v].wave < LastWave
      BY <2>3, <2>6 DEF LastWave
    <3>2. row[v].wave + 1 \in 0..LastWave + 1
      BY <2>3, <3>1
    <3>3. q \in Rollout /\ q.wave = row[v].wave + 1 /\ q.status = row[v].status
      <4>1. PICK p : p = [row[v] EXCEPT !.wave = row[v].wave + 1]
        OBVIOUS
      <4>2. p \in Rollout /\ p.wave = row[v].wave + 1 /\ p.status = row[v].status
        BY <2>1, <3>2, <4>1, WaveWritten
      <4>3. q = [p EXCEPT !.age = Fresh]
        BY <2>6, <4>1
      <4>. QED BY <2>3, <4>2, <4>3, AgeWritten
    <3>. QED BY <2>1, <2>3, <3>3 DEF Wider, LastWave
  <2>7. CASE Judged(v, read[v]) = row[v]
    BY <2>1, <2>3, <2>7 DEF Wider
  <2>. QED BY <2>2, <2>4, <2>5, <2>6, <2>7
<1>4. Grown
  <2>1. DOMAIN read \subseteq Version /\ row \in [Version -> Rollout] /\ Waved
    BY DEF IInv, TypeOK, Behind
  <2>2. ASSUME NEW v \in Version
        PROVE  /\ row'[v] \in Rollout /\ Wider(row[v].wave, row'[v].wave)
               /\ row[v].status # "none" => row'[v].status # "none"
               /\ row'[v].status = "complete" => row'[v].wave >= LastWave
               /\ row'[v].status = "none" => row'[v].wave = 0
    <3>1. CASE v \in reached
      <4>1. row'[v] = Judged(v, read[v])
        BY <1>1, <3>1
      <4>. QED BY <1>3, <3>1, <4>1
    <3>2. CASE v \notin reached
      <4>1. row'[v] = row[v]
        BY <1>1, <3>2
      <4>2. row[v].wave \in Nat
        BY <2>1 DEF Rollout, LastWave
      <4>. QED BY <2>1, <4>1, <4>2 DEF Wider, Waved
    <3>. QED BY <3>1, <3>2
  <2>3. row' \in [Version -> Rollout]
    BY <1>1, <2>2
  <2>. QED BY <2>2, <2>3 DEF Grown, Waved
<1>5. Behind(pending)'
  BY <1>1, <1>2 DEF Behind
<1>. QED BY <1>4, <1>5

\* An admin's action never narrows: what it completes it puts at the last wave.
LEMMA ActGrows ==
  ASSUME IInv, NEW v \in Version, NEW r \in Acted(row[v]), row' = [row EXCEPT ![v] = r]
  PROVE  Grown /\ (row[v].wave <= LastWave => row'[v].wave <= LastWave)
<1>1. /\ row[v] \in Rollout /\ row \in [Version -> Rollout]
      /\ row[v].status = "complete" => row[v].wave >= LastWave
  BY DEF IInv, TypeOK, Waved
<1>2. /\ row[v].status # "none" /\ r \in Rollout /\ r.status \notin {"none", "superseded"}
      /\ r.status = "complete" => r.wave >= LastWave
      /\ r.wave = row[v].wave \/ r.wave = LastWave
  <2>1. \/ r = Stopped(row[v], "paused") /\ row[v].status = "rolling"
        \/ r = [Stopped(row[v], "complete") EXCEPT !.wave = LastWave] /\ row[v].status \in {"rolling", "paused"}
        \/ r = Stopped(row[v], "halted") /\ row[v].status \in {"rolling", "paused", "complete"}
        \/ r = [row[v] EXCEPT !.status = "rolling"] /\ row[v].status \in {"paused", "halted"}
    BY DEF Acted, Released
  <2>2. LastWave \in 0..LastWave + 1 /\ Fresh \in Fresh..Stalled
        /\ {"paused", "complete", "halted", "rolling"} \subseteq Status
    BY DEF LastWave, Fresh, Stalled, Status
  <2>3. \/ r \in Rollout /\ r.status \in {"paused", "halted", "rolling"} /\ r.wave = row[v].wave
        \/ r \in Rollout /\ r.status = "complete" /\ r.wave = LastWave
    <3>1. CASE r = Stopped(row[v], "paused")
      BY <1>1, <2>2, <3>1, StoppedRow
    <3>2. CASE r = [Stopped(row[v], "complete") EXCEPT !.wave = LastWave]
      <4>1. PICK p : p = Stopped(row[v], "complete")
        OBVIOUS
      <4>2. p \in Rollout /\ p.status = "complete"
        BY <1>1, <2>2, <4>1, StoppedRow
      <4>3. r = [p EXCEPT !.wave = LastWave]
        BY <3>2, <4>1
      <4>. QED BY <2>2, <4>2, <4>3, WaveWritten
    <3>3. CASE r = Stopped(row[v], "halted")
      BY <1>1, <2>2, <3>3, StoppedRow
    <3>4. CASE r = [row[v] EXCEPT !.status = "rolling"]
      BY <1>1, <2>2, <3>4, StatusWritten
    <3>. QED BY <2>1, <3>1, <3>2, <3>3, <3>4
  <2>. QED BY <2>1, <2>3 DEF LastWave
<1>. QED BY <1>1, <1>2 DEF IInv, Grown, Wider, Waved, Rollout, LastWave

\* A version is begun when its row is made, and kept only if it is one.
LEMMA EnsureKeeps ==
  ASSUME IInv, Ensure, UNCHANGED pending
  PROVE  /\ begun' \in Seq(Version) /\ Len(begun') <= Newest /\ Listed'
         /\ kept' \subseteq Version /\ Behind(pending)' /\ Announced \in 0..Newest
<1>1. staged \in Version /\ begun \in Seq(Version) /\ kept \subseteq Version
  BY DEF IInv, TypeOK, Ensure, Version
<1>2. Grown /\ (\A v \in Version : row'[v].wave = row[v].wave)
      /\ (row[staged].status = "none" => row'[staged].status = "rolling")
  BY EnsureGrows
<1>3. Behind(pending)'
  <2>1. Behind(pending)
    BY DEF IInv
  <2>. QED BY <1>2, <2>1 DEF Behind, Grown
<1>4. begun' \in Seq(Version) /\ Listed'
  <2>1. CASE row[staged].status # "none"
    <3>1. begun' = begun
      BY <2>1 DEF Ensure
    <3>. QED BY <1>1, <1>2, <3>1 DEF Listed, Grown, IInv
  <2>2. CASE row[staged].status = "none"
    <3>1. begun' = Append(begun, staged)
      BY <2>2 DEF Ensure
    <3>2. /\ begun' \in Seq(Version) /\ Len(begun') = Len(begun) + 1 /\ begun'[Len(begun) + 1] = staged
          /\ \A i \in 1..Len(begun) : begun'[i] = begun[i] /\ begun[i] \in Version
          /\ Len(begun) \in Nat /\ DOMAIN begun = 1..Len(begun) /\ DOMAIN begun' = 1..(Len(begun) + 1)
      BY <1>1, <3>1
    <3>3. \A i \in 1..Len(begun) : begun[i] # staged /\ row'[begun[i]].status # "none"
      BY <1>2, <2>2, <3>2 DEF IInv, Listed, Grown
    <3>4. \A i \in 1..(Len(begun) + 1) : i \in 1..Len(begun) \/ i = Len(begun) + 1
      BY <3>2
    <3>5. row'[staged].status # "none"
      BY <1>2, <2>2
    <3>6. \A i, j \in 1..Len(begun) : begun[i] = begun[j] => i = j
      BY <3>2 DEF IInv, Listed
    <3>7. \A i, j \in DOMAIN begun' : begun'[i] = begun'[j] => i = j
      BY <3>2, <3>3, <3>4, <3>6
    <3>8. \A i \in DOMAIN begun' : row'[begun'[i]].status # "none"
      BY <3>2, <3>3, <3>4, <3>5
    <3>. QED BY <3>2, <3>7, <3>8 DEF Listed
  <2>. QED BY <2>1, <2>2
<1>5. Len(begun') <= Newest
  BY <1>4, BegunIsShort DEF Listed
<1>6. kept' \subseteq Version
  BY <1>1 DEF Ensure
<1>7. Announced \in 0..Newest
  <2>1. Ensured[staged].prev \in 0..Newest
    BY <1>1, <1>2 DEF Ensure, Grown, Rollout
  <2>. QED BY <1>1, <2>1, RolloutAssumption DEF Announced, Version
<1>. QED BY <1>3, <1>4, <1>5, <1>6, <1>7

\* A row that is written but not made leaves the order of the rows alone.
LEMMA GrownKeepsListed ==
  ASSUME IInv, Grown, UNCHANGED begun
  PROVE  Listed'
<1>1. begun \in Seq(Version) /\ Listed
  BY DEF IInv, TypeOK
<1>2. \A i \in DOMAIN begun : begun[i] \in Version
  BY <1>1
<1>. QED BY <1>1, <1>2 DEF Listed, Grown

LEMMA InitIsGood == Init => IInv
<1>. SUFFICES ASSUME Init PROVE IInv
  OBVIOUS
<1>1. row \in [Version -> Rollout] /\ \A v \in Version : row[v].status = "none" /\ row[v].wave = 0
  BY RolloutAssumption DEF Init, NoRow, Rollout, Status, LastWave, Fresh, Stalled
<1>2. pending = NoRows /\ DOMAIN pending = {}
  BY DEF Init, NoRows
<1>3. begun = <<>> /\ begun \in Seq(Version) /\ Len(begun) = 0 /\ DOMAIN begun = {}
  BY DEF Init
<1>4. TypeOK
  BY <1>1, <1>2, <1>3, RolloutAssumption DEF Init, TypeOK
<1>5. Behind(pending) /\ Waved /\ Listed
  BY <1>1, <1>2, <1>3 DEF Behind, Waved, Listed
<1>. QED BY <1>4, <1>5 DEF IInv, Carried, Init

-----------------------------------------------------------------------------
\* Whatever a screen does, it changes rows by asking or not at all.
LEMMA ScreenKeeps ==
  ASSUME IInv, NEW s \in Screen, ScreenStep(s)
  PROVE  IInv' /\ (Ensure \/ UNCHANGED row)
<1>. DEFINE Kept == Behind(pending)' /\ Waved' /\ Listed'
            Rows == /\ row' \in [Version -> Rollout] /\ kept' \subseteq Version
                    /\ begun' \in Seq(Version) /\ Len(begun') <= Newest
<1>1. ASSUME Ensure, UNCHANGED pending
      PROVE  Kept /\ Rows /\ Announced \in 0..Newest /\ staged \in 0..Newest
  BY <1>1, EnsureGrows, EnsureKeeps DEF Grown, IInv, TypeOK
<1>2. ASSUME UNCHANGED rows, UNCHANGED pending
      PROVE  Kept /\ Rows
  BY <1>2 DEF IInv, TypeOK, Behind, Waved, Listed, rows
<1>. HIDE DEF Kept, Rows
<1>3. ASSUME UNCHANGED <<package, fleet, pending>>, Kept, Rows, Carried', through' \subseteq Screen,
             runs' \in [Screen -> 0..Newest], offer' \in [Screen -> 0..Newest],
             took' \in [Screen -> SUBSET Version], crashed' \in [Screen -> SUBSET Version],
             health' \in [Screen -> {"up", "dark", "dead"}],
             acts' \in 0..MaxActs, trouble' \in 0..MaxTrouble
      PROVE  IInv'
  <2>1. DOMAIN pending \subseteq Version /\ (\A v \in DOMAIN pending : pending[v] \in Rollout)
        /\ staged \in 0..Newest /\ stagings \in 0..MaxStagings /\ fleet \subseteq Screen
    BY DEF IInv, TypeOK
  <2>. QED BY <1>3, <2>1 DEF IInv, TypeOK, Kept, Rows, package
<1>4. /\ runs \in [Screen -> 0..Newest] /\ offer \in [Screen -> 0..Newest]
      /\ took \in [Screen -> SUBSET Version] /\ crashed \in [Screen -> SUBSET Version]
      /\ health \in [Screen -> {"up", "dark", "dead"}] /\ through \subseteq Screen
      /\ acts \in 0..MaxActs /\ trouble \in 0..MaxTrouble /\ 0 \in 0..Newest
      /\ MaxActs \in Nat /\ MaxTrouble \in Nat
      /\ \A t \in through : offer[t] # 0
  BY RolloutAssumption DEF IInv, TypeOK, Carried
<1>5. ASSUME NEW v, Asks(s), Offered(s, v), UNCHANGED through
      PROVE  Carried'
  BY <1>4, <1>5 DEF Asks, Offered, Carried
<1>6. ASSUME UNCHANGED <<offer, through>> PROVE Carried'
  BY <1>4, <1>6 DEF Carried
<1>7. ASSUME Offered(s, 0), through' = through \ {s} PROVE Carried'
  BY <1>4, <1>7 DEF Offered, Carried
<1>8. CASE SentBack(s)
  BY <1>1, <1>3, <1>4, <1>5, <1>8 DEF SentBack, Asks, Offered
<1>9. CASE OfferedFallback(s)
  BY <1>1, <1>3, <1>4, <1>5, <1>9 DEF OfferedFallback, Asks, Offered
<1>10. ASSUME NEW forced \in BOOLEAN, OfferedUpgrade(s, forced)
       PROVE  IInv' /\ Ensure
  <2>1. Ensure /\ Carried' /\ offer' \in [Screen -> 0..Newest]
        /\ UNCHANGED <<package, fleet, runs, through, took, crashed, health, pending, trouble>>
    BY <1>1, <1>4, <1>5, <1>10 DEF OfferedUpgrade, Asks, Offered
  <2>2. acts' \in 0..MaxActs
    BY <1>4, <1>10 DEF OfferedUpgrade, Acts
  <2>. QED BY <1>1, <1>3, <1>4, <2>1, <2>2
<1>11. CASE ToldNothing(s)
  BY <1>1, <1>3, <1>4, <1>6, <1>11 DEF ToldNothing, Asks, screens
<1>12. ASSUME HelperAsks(s) PROVE IInv'
  <2>1. /\ Kept /\ Rows /\ UNCHANGED <<package, fleet, runs, took, crashed, health, pending, acts, trouble>>
    BY <1>1, <1>2, <1>12 DEF HelperAsks
  <2>2. /\ offer[s] # 0 /\ s \notin through
        /\ LetThrough(s) \/ (Offered(s, 0) /\ UNCHANGED through)
    BY <1>12 DEF HelperAsks
  <2>3. Carried' /\ through' \subseteq Screen /\ offer' \in [Screen -> 0..Newest]
    BY <1>4, <2>2 DEF LetThrough, Offered, Carried
  <2>. QED BY <1>3, <1>4, <2>1, <2>3
<1>13. ASSUME Install(s) PROVE IInv'
  <2>1. Kept /\ Rows /\ UNCHANGED <<package, fleet, crashed, health, pending, acts, trouble>>
        /\ offer' \in [Screen -> 0..Newest] /\ Carried' /\ through' \subseteq Screen
    BY <1>2, <1>4, <1>7, <1>13 DEF Install, Offered
  <2>2. runs' \in [Screen -> 0..Newest] /\ took' \in [Screen -> SUBSET Version]
    <3>1. offer[s] \in Version
      BY <1>4, <1>13, RolloutAssumption DEF Install, Version
    <3>. QED BY <1>4, <1>13, <3>1 DEF Install
  <2>. QED BY <1>3, <1>4, <2>1, <2>2
<1>14. CASE UpdateFails(s)
  BY <1>2, <1>3, <1>4, <1>7, <1>14 DEF UpdateFails, Offered, Trouble, rows
<1>15. CASE CrashesTwice(s)
  BY <1>2, <1>3, <1>4, <1>6, <1>15 DEF CrashesTwice, Trouble, rows
<1>16. CASE GoesDark(s)
  BY <1>2, <1>3, <1>4, <1>6, <1>16 DEF GoesDark, Trouble, rows
<1>17. CASE StaysDark(s)
  BY <1>2, <1>3, <1>4, <1>6, <1>17 DEF StaysDark, rows
<1>18. CASE ComesBack(s)
  BY <1>2, <1>3, <1>4, <1>6, <1>18 DEF ComesBack, rows
<1>. QED
  <2>1. IInv'
    BY <1>8, <1>9, <1>10, <1>11, <1>12, <1>13, <1>14, <1>15, <1>16, <1>17, <1>18 DEF ScreenStep, Checks
  <2>2. Ensure \/ UNCHANGED row
    BY <1>10 DEF ScreenStep, Checks, SentBack, OfferedFallback, ToldNothing, Asks, HelperAsks, Install,
                 UpdateFails, CrashesTwice, GoesDark, StaysDark, ComesBack, rows
  <2>. QED BY <2>1, <2>2

LEMMA ActKeeps ==
  ASSUME IInv, NEW v \in Version, Act(v)
  PROVE  IInv' /\ Grown
<1>1. PICK r \in Acted(row[v]) : row' = [row EXCEPT ![v] = r]
  BY DEF Act
<1>2. Grown /\ (row[v].wave <= LastWave => row'[v].wave <= LastWave)
  BY <1>1, ActGrows
<1>3. UNCHANGED <<package, begun, kept, screens, pending, trouble>> /\ acts' \in 0..MaxActs
  BY RolloutAssumption DEF Act, Acts, IInv, TypeOK
<1>4. Listed'
  BY <1>2, <1>3, GrownKeepsListed
<1>5. Behind(pending)'
  <2>1. \A w \in Version : /\ row[w].wave \in Nat /\ row'[w].wave \in Nat
                           /\ row[w].wave <= LastWave => row'[w].wave <= LastWave
    <3>1. row \in [Version -> Rollout] /\ row' \in [Version -> Rollout]
      BY <1>2 DEF Grown, IInv, TypeOK
    <3>2. \A q \in Rollout : q.wave \in Nat
      BY DEF Rollout, LastWave
    <3>3. \A w \in Version \ {v} : row'[w] = row[w]
      BY <1>1, <3>1
    <3>. QED BY <1>2, <3>1, <3>2, <3>3
  <2>2. Behind(pending) /\ pending' = pending
    BY <1>3 DEF IInv
  <2>3. ASSUME NEW w \in DOMAIN pending
        PROVE  /\ w \in Version /\ pending[w].wave \in Nat
               /\ Wider(pending[w].wave, row'[w].wave) /\ row'[w].status # "none"
    BY <1>2, <2>1, <2>2 DEF Behind, Grown, Wider, Rollout, LastWave
  <2>4. \A w \in Version : row[w].wave <= LastWave => row'[w].wave <= LastWave
    BY <2>1
  <2>. QED BY <2>2, <2>3, <2>4 DEF Behind
<1>. QED BY <1>2, <1>3, <1>4, <1>5 DEF IInv, TypeOK, Grown, Carried, package, screens

LEMMA TickKeeps ==
  ASSUME IInv, TickStarts \/ TickGoesOn
  PROVE  IInv' /\ Grown
<1>1. Behind(pending) /\ UNCHANGED <<package, begun, kept, screens, acts, trouble>>
      /\ row \in [Version -> Rollout]
  BY DEF TickStarts, TickGoesOn, IInv, TypeOK
<1>2. Behind(Read)
  BY <1>1 DEF Read, Rolling, Behind, Wider, Rollout, LastWave
<1>3. \/ Turn(Read) \/ Turn(pending)
      \/ pending' = Read /\ UNCHANGED row
  BY DEF TickStarts, TickGoesOn
<1>4. Grown /\ Behind(pending)'
  <2>1. CASE Turn(Read) \/ Turn(pending)
    BY <1>1, <1>2, <2>1, TurnGrows
  <2>2. CASE pending' = Read /\ UNCHANGED row
    <3>1. Behind(pending)'
      BY <1>2, <2>2 DEF Behind
    <3>2. Grown
      BY <1>1, <2>2 DEF Grown, Wider, Waved, IInv, Rollout, LastWave
    <3>. QED BY <3>1, <3>2
  <2>. QED BY <1>3, <2>1, <2>2
<1>5. Listed'
  BY <1>1, <1>4, GrownKeepsListed
<1>. QED BY <1>1, <1>4, <1>5 DEF IInv, TypeOK, Grown, Behind, Carried, package, screens

LEMMA AgesKeeps ==
  ASSUME IInv, NEW v \in Version, Ages(v)
  PROVE  IInv' /\ Grown
<1>1. row \in [Version -> Rollout] /\ row[v] \in Rollout
  BY DEF IInv, TypeOK
<1>2. UNCHANGED <<package, begun, kept, screens, pending, acts, trouble>>
  BY DEF Ages
<1>3. Grown /\ \A w \in Version : row'[w].wave = row[w].wave
  BY <1>1 DEF Ages, Grown, Wider, Waved, IInv, Rollout, LastWave, Fresh, Stalled
<1>4. Listed'
  BY <1>2, <1>3, GrownKeepsListed
<1>5. Behind(pending)'
  BY <1>2, <1>3 DEF Behind, Grown, IInv
<1>. QED BY <1>2, <1>3, <1>4, <1>5 DEF IInv, TypeOK, Grown, Carried, package, screens

LEMMA StageKeeps ==
  ASSUME IInv, NEW v \in Version, Stage(v)
  PROVE  IInv' /\ UNCHANGED row
<1>1. staged' \in 0..Newest /\ stagings' \in 0..MaxStagings
  BY RolloutAssumption DEF Stage, Version, IInv, TypeOK
<1>2. UNCHANGED <<rows, screens, pending, acts, trouble>>
  BY DEF Stage
<1>3. Behind(pending)' /\ Waved' /\ Listed'
  BY <1>2 DEF IInv, Behind, Waved, Listed, rows
<1>. QED BY <1>1, <1>2, <1>3 DEF IInv, TypeOK, Carried, rows, screens

\* A screen that joins or is deleted changes no row.
LEMMA FleetKeeps ==
  ASSUME IInv, NEW s \in Screen, Join(s) \/ Delete(s)
  PROVE  IInv' /\ UNCHANGED row
<1>1. UNCHANGED <<package, rows, pending, trouble>> /\ acts' \in 0..MaxActs /\ 0 \in 0..Newest
  BY RolloutAssumption DEF Join, Delete, Acts, IInv, TypeOK
<1>2. Behind(pending)' /\ Waved' /\ Listed'
  BY <1>1 DEF IInv, Behind, Waved, Listed, rows
<1>3. /\ fleet' \subseteq Screen /\ through' \subseteq Screen /\ Carried'
      /\ runs' \in [Screen -> 0..Newest] /\ offer' \in [Screen -> 0..Newest]
      /\ took' \in [Screen -> SUBSET Version] /\ crashed' \in [Screen -> SUBSET Version]
      /\ health' \in [Screen -> {"up", "dark", "dead"}]
  <2>1. /\ fleet \subseteq Screen /\ through \subseteq Screen /\ s \in Screen
        /\ runs \in [Screen -> 0..Newest] /\ offer \in [Screen -> 0..Newest]
        /\ took \in [Screen -> SUBSET Version] /\ crashed \in [Screen -> SUBSET Version]
        /\ health \in [Screen -> {"up", "dark", "dead"}] /\ \A t \in through : offer[t] # 0
    BY DEF IInv, TypeOK, Carried
  <2>2. CASE Join(s)
    BY <2>1, <2>2 DEF Join, Carried
  <2>3. CASE Delete(s)
    <3>1. /\ fleet' = fleet \ {s} /\ through' = through \ {s} /\ offer' = [offer EXCEPT ![s] = 0]
          /\ runs' = [runs EXCEPT ![s] = 0] /\ took' = [took EXCEPT ![s] = {}]
          /\ crashed' = [crashed EXCEPT ![s] = {}] /\ health' = [health EXCEPT ![s] = "up"]
      BY <2>3 DEF Delete, Offered
    <3>2. Carried'
      BY <2>1, <3>1 DEF Carried
    <3>. QED BY <1>1, <2>1, <3>1, <3>2
  <2>. QED BY <2>2, <2>3
<1>. QED BY <1>1, <1>2, <1>3 DEF IInv, TypeOK, package, rows

-----------------------------------------------------------------------------
\* Every step keeps the invariant and narrows no wave.
LEMMA NextIsGood == IInv /\ [Next]_vars => IInv' /\ Grown
<1>. SUFFICES ASSUME IInv, [Next]_vars PROVE IInv' /\ Grown
  OBVIOUS
<1>1. ASSUME UNCHANGED row PROVE Grown
  <2>1. row \in [Version -> Rollout] /\ Waved
    BY DEF IInv, TypeOK
  <2>2. \A v \in Version : row[v].wave \in Nat
    BY <2>1 DEF Rollout, LastWave
  <2>. QED BY <1>1, <2>1, <2>2 DEF Grown, Wider, Waved
<1>2. CASE TickStarts \/ TickGoesOn
  BY <1>2, TickKeeps
<1>3. ASSUME NEW s \in Screen, ScreenStep(s) PROVE IInv' /\ Grown
  BY <1>1, <1>3, ScreenKeeps, EnsureGrows
<1>4. ASSUME NEW v \in Version, Ages(v) \/ Act(v) \/ Stage(v) PROVE IInv' /\ Grown
  BY <1>1, <1>4, AgesKeeps, ActKeeps, StageKeeps
<1>5. ASSUME NEW s \in Screen, Join(s) \/ Delete(s) PROVE IInv' /\ Grown
  BY <1>1, <1>5, FleetKeeps
<1>6. CASE UNCHANGED vars
  <2>1. IInv'
    BY <1>6 DEF IInv, TypeOK, Behind, Waved, Listed, Carried, vars, package, rows, screens
  <2>. QED BY <1>1, <1>6, <2>1 DEF vars, rows
<1>7. fleet \subseteq Screen
  BY DEF IInv, TypeOK
<1>. QED BY <1>2, <1>3, <1>4, <1>5, <1>6, <1>7 DEF Next

LEMMA AlwaysIInv == Spec => []IInv
<1>. QED BY InitIsGood, NextIsGood, PTL DEF Spec

(* Every variable of the rollouts keeps its type: waves stay countable when*)
(* a tick opens one of a row that was completed while it slept, and the    *)
(* list of rollouts does not outgrow the versions.                         *)
THEOREM RolloutTypeCorrect == Spec => []TypeOK
BY AlwaysIInv, PTL DEF IInv

\* A wider wave of the same fleet has every screen of a narrower one, and
\* the last one every screen of any fleet.
LEMMA WavesAreNested ==
  ASSUME fleet \subseteq Screen, NEW s \in Screen, NEW v \in Version,
         NEW w \in 0..LastWave + 1, NEW x \in 0..LastWave + 1,
         Wider(w, x), InWave(s, v, w)
  PROVE  InWave(s, v, x)
<1>1. CASE x >= LastWave
  BY <1>1 DEF InWave
<1>2. CASE ~(x >= LastWave)
  <2>1. w <= x /\ w \in 0..1 /\ x \in 0..1
    BY <1>2 DEF Wider, LastWave
  <2>2. s \in fleet /\ Rank(s, v) < WaveSize(w)
    BY <2>1 DEF InWave, LastWave
  <2>3. PICK n : n = Cardinality(fleet)
    OBVIOUS
  <2>4. n \in Nat /\ n > 0
    <3>1. IsFiniteSet(Screen)
      BY FS_Interval, RolloutAssumption DEF Screen
    <3>2. IsFiniteSet(fleet)
      BY <3>1, FS_Subset
    <3>. QED BY <2>2, <2>3, <3>2, FS_CardinalityType, FS_EmptySet
  <2>5. Rank(s, v) \in Nat
    <3>1. IsFiniteSet(Screen)
      BY FS_Interval, RolloutAssumption DEF Screen
    <3>2. PICK ahead : ahead = {t \in fleet : Hash(t, v) < Hash(s, v)}
      OBVIOUS
    <3>3. ahead \subseteq Screen
      BY <3>2
    <3>4. Cardinality(ahead) \in Nat
      BY <3>1, <3>3, FS_Subset, FS_CardinalityType
    <3>. QED BY <3>2, <3>4 DEF Rank
  <2>6. (n + 9) \div 10 <= (n + 1) \div 2 /\ (n + 9) \div 10 \in Nat /\ (n + 1) \div 2 \in Nat
    BY <2>4
  <2>7. WaveSize(0) = AtLeastOne((n + 9) \div 10) /\ WaveSize(1) = AtLeastOne((n + 1) \div 2)
    BY <2>3 DEF WaveSize
  <2>8. WaveSize(0) <= WaveSize(1) /\ WaveSize(0) \in Nat /\ WaveSize(1) \in Nat
    BY <2>6, <2>7 DEF AtLeastOne
  <2>9. WaveSize(w) <= WaveSize(x) /\ WaveSize(w) \in Nat /\ WaveSize(x) \in Nat
    BY <2>1, <2>8
  <2>10. Rank(s, v) < WaveSize(x)
    BY <2>2, <2>5, <2>9
  <2>. QED BY <2>2, <2>10 DEF InWave
<1>. QED BY <1>1, <1>2

\* Who is in a wave is in it for as long as the fleet is the same.
LEMMA SameFleet ==
  ASSUME fleet' = fleet, NEW s \in Screen, NEW v \in Version, NEW w
  PROVE  InWave(s, v, w)' <=> InWave(s, v, w)
BY DEF InWave, Rank, WaveSize

(* Whoever may take a version may still take it once it is open again,     *)
(* through every tick that slept and every action of an admin; once the    *)
(* last wave is open, through every change of the fleet as well.           *)
THEOREM OpenForGood == Spec => OpenStaysOpen
<1>1. IInv /\ [Next]_vars =>
        [\A s \in Screen, v \in Version :
           May(s, v, row[v]) /\ (fleet' = fleet \/ row[v].wave >= LastWave) => May(s, v, row[v])']_vars
  <2>. SUFFICES ASSUME IInv, [Next]_vars, NEW s \in Screen, NEW v \in Version, May(s, v, row[v]),
                       fleet' = fleet \/ row[v].wave >= LastWave
                PROVE  May(s, v, row[v])'
    OBVIOUS
  <2>1. /\ row[v] \in Rollout /\ row'[v] \in Rollout /\ fleet \subseteq Screen
        /\ Wider(row[v].wave, row'[v].wave) /\ (row[v].status # "none" => row'[v].status # "none")
        /\ row[v].status = "complete" => row[v].wave >= LastWave
    BY NextIsGood DEF Grown, IInv, TypeOK, Waved
  <2>2. row[v].status # "none" /\ row'[v].status # "none"
    BY <2>1 DEF May
  <2>3. row[v].wave \in 0..LastWave + 1 /\ row'[v].wave \in 0..LastWave + 1
    BY <2>1 DEF Rollout
  <2>4. CASE row[v].wave >= LastWave
    <3>1. row'[v].wave >= LastWave
      BY <2>1, <2>3, <2>4 DEF Wider, LastWave
    <3>. QED BY <2>2, <3>1 DEF May, InWave
  <2>5. CASE ~(row[v].wave >= LastWave)
    <3>1. fleet' = fleet /\ InWave(s, v, row[v].wave)
      BY <2>1, <2>5 DEF May
    <3>2. InWave(s, v, row'[v].wave)
      BY <2>1, <2>3, <3>1, WavesAreNested
    <3>3. PICK w : w = row'[v].wave
      OBVIOUS
    <3>4. InWave(s, v, w)' <=> InWave(s, v, w)
      BY <3>1, SameFleet
    <3>. QED BY <2>2, <3>2, <3>3, <3>4 DEF May, InWave
  <2>. QED BY <2>4, <2>5
<1>. QED BY <1>1, AlwaysIInv, PTL DEF Spec, OpenStaysOpen

(* A halt reaches the downloads on their way: a helper that was not told   *)
(* to install anything lets nothing through but what is announced, and     *)
(* apt installs nothing but what the helper let through.                   *)
THEOREM HaltIsObeyed == Spec => HaltStopsInstalls
<1>1. IInv /\ [Next]_vars =>
        [\A s \in Screen \ OptedIn :
           /\ s \in through' \ through /\ row[offer[s]].status = "halted"
                => row[staged].prev \notin kept \/ row[staged].prev = offer[s]
           /\ s \in fleet' /\ runs'[s] # runs[s] => s \in through /\ runs'[s] = offer[s]]_vars
  <2>. SUFFICES ASSUME IInv, [Next]_vars, NEW s \in Screen \ OptedIn
                PROVE  /\ s \in through' \ through /\ row[offer[s]].status = "halted"
                            => row[staged].prev \notin kept \/ row[staged].prev = offer[s]
                       /\ s \in fleet' /\ runs'[s] # runs[s] => s \in through /\ runs'[s] = offer[s]
    OBVIOUS
  <2>1. ASSUME s \in through' \ through, row[offer[s]].status = "halted"
        PROVE  row[staged].prev \notin kept \/ row[staged].prev = offer[s]
    <3>1. \E t \in fleet : HelperAsks(t) /\ LetThrough(t)
      BY <2>1 DEF Next, ScreenStep, Checks, SentBack, OfferedFallback, OfferedUpgrade, ToldNothing, HelperAsks,
             Install, UpdateFails, CrashesTwice, GoesDark, StaysDark, ComesBack, TickStarts, TickGoesOn, Ages,
             Act, Stage, Join, Delete, vars, screens
    <3>2. HelperAsks(s)
      BY <2>1, <3>1 DEF LetThrough
    <3>3. offer[s] = Announced /\ staged \in Version
      BY <2>1, <3>2 DEF HelperAsks, Ensure, IInv, TypeOK, Version
    <3>4. CASE row[staged].status = "none"
      <4>1. Ensured[staged].status = "rolling"
        BY <3>3, <3>4 DEF Ensured, Opened
      <4>. QED BY <2>1, <3>3, <3>4, <4>1 DEF Announced, RollsBack
    <3>5. CASE row[staged].status # "none"
      BY <2>1, <3>3, <3>5 DEF Announced, RollsBack, Ensured
    <3>. QED BY <3>4, <3>5
  <2>2. ASSUME s \in fleet', runs'[s] # runs[s]
        PROVE  s \in through /\ runs'[s] = offer[s]
    <3>1. runs \in [Screen -> 0..Newest] /\ s \in Screen
      BY DEF IInv, TypeOK
    <3>2. (\E t \in fleet : Install(t)) \/ (\E t \in Screen : Delete(t))
      BY <2>2 DEF Next, ScreenStep, Checks, SentBack, OfferedFallback, OfferedUpgrade, ToldNothing, HelperAsks,
             UpdateFails, CrashesTwice, GoesDark, StaysDark, ComesBack, TickStarts, TickGoesOn, Ages,
             Act, Stage, Join, vars, screens
    <3>3. CASE \E t \in fleet : Install(t)
      BY <2>2, <3>1, <3>3 DEF Install
    <3>4. CASE \E t \in Screen : Delete(t)
      BY <2>2, <3>1, <3>4 DEF Delete
    <3>. QED BY <3>2, <3>3, <3>4
  <2>. QED BY <2>1, <2>2
<1>. QED BY <1>1, AlwaysIInv, PTL DEF Spec, HaltStopsInstalls
=============================================================================
