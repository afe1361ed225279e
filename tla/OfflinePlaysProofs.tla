------------------------- MODULE OfflinePlaysProofs -------------------------
(***************************************************************************)
(* A play has one row and the row of the play on screen is open, or closed *)
(* with an excuse, for every playlist, ceiling, lead of the panel's clock, *)
(* capacity, batch and bound.                                              *)
(***************************************************************************)
EXTENDS OfflinePlays, FiniteSetTheorems, WellFoundedInduction, TLAPS

\* Every nonempty set of natural numbers has a least element.
LEMMA LeastNat ==
  ASSUME NEW T, T \subseteq Nat, T # {}
  PROVE  \E m \in T : \A k \in T : m <= k
<1>. DEFINE Less == {p \in Nat \X Nat : p[1] < p[2]}
<1>1. IsWellFoundedOn(Less, Nat)
  BY NatLessThanWellFounded DEF OpToRel
<1>2. \E m \in T : \A k \in T : <<k, m>> \notin Less
  <2>. HIDE DEF Less
  <2>. QED BY <1>1, WFMin
<1>3. \A m, k \in T : <<k, m>> \in Less <=> k < m
  OBVIOUS
<1>4. \A m, k \in T : k < m \/ m <= k
  OBVIOUS
<1>. HIDE DEF Less
<1>. QED BY <1>2, <1>3, <1>4

\* The offline plays in the frames under way, those the player or a frame holds,
\* those that the rows rs tell of, and all of them.
Carried == UNION {wire[k].plays : k \in {j \in DOMAIN wire : wire[j].kind = "plays"}}
Kept == queue \cup stored \cup flushing \cup Carried
Told(rs) == {[start |-> r.play, end |-> r.id] : r \in {q \in rs : q.id # 0}}
Records(rs) == Kept \cup Told(rs)

\* A record is of one play, which is over and is not the one begun offline; its
\* id is of that play alone.
Faithful(records) ==
  /\ \A e \in records : e \in Entry /\ e.start < e.end /\ e.end <= OnScreen /\ e.start # open
  /\ \A e, f \in records : (e.start = f.start) <=> (e.end = f.end)

\* Why the row of the play on screen may be closed.
Excused(rs, r) ==
  \/ r.by = "ceiling" /\ r.start + Allowed < Now
  \/ r.by = "next" /\ \E s \in rs : s.start = r.end /\ s.play < r.play /\ r.start < s.start

\* What the rows are for: one to a play, and the play on screen has an open one.
Sound(rs) ==
  /\ rs \subseteq Row
  /\ \A r, s \in rs : r.play = s.play => r = s
  /\ \A r \in rs : r.play <= OnScreen /\ (r.play = OnScreen => IsOpen(r) \/ Excused(rs, r))

\* No play is both reported live and recorded offline.
Apart(rs) == \A r \in rs : r.id = 0 => r.play # open /\ \A e \in Records(rs) : e.start # r.play

Tells(k) == wire[k].kind \in {"start", "end"}
\* The end of the play before and then the start of the one on screen are under
\* way only before that one has a row.
OnTime ==
  /\ ~alive => wire = <<>>
  /\ \A k \in DOMAIN wire : Tells(k) => open # OnScreen /\ \A r \in rows : r.play # OnScreen
  /\ \A k \in DOMAIN wire : wire[k].kind = "start" =>
       wire[k].play = OnScreen /\ \A j \in DOMAIN wire : Tells(j) => j <= k

Dated == 1 <= Now /\ OnScreen <= Now /\ open <= Now

IInv == /\ TypeOK /\ Dated
        /\ Sound(rows) /\ Faithful(Records(rows)) /\ Apart(rows) /\ OnTime

\* The play on screen is one of those shown.
LEMMA ScreenType ==
  ASSUME IInv
  PROVE  /\ Now \in 1..MaxTicks /\ OnScreen \in Tick /\ OnScreen \in 1..Now
         /\ \A t \in 1..Now : shown[t].item \in Items
<1>1. Len(shown) \in Nat /\ 1 <= Len(shown) /\ Len(shown) <= MaxTicks /\ DOMAIN shown = 1..Len(shown)
  BY DEF IInv, TypeOK, Dated, Now
<1>2. \A t \in 1..Len(shown) : shown[t] \in [item: Items, play: Tick]
  <2>1. PICK S : S = [item: Items, play: Tick]
    OBVIOUS
  <2>2. shown \in Seq(S)
    BY <2>1 DEF IInv, TypeOK
  <2>3. \A t \in 1..Len(shown) : shown[t] \in S
    BY <2>2
  <2>. QED BY <2>1, <2>3
<1>3. shown[Len(shown)] \in [item: Items, play: Tick]
  BY <1>1, <1>2
<1>4. OnScreen \in Tick /\ Now \in 1..MaxTicks
  BY <1>1, <1>3 DEF OnScreen, Now
<1>5. OnScreen \in 1..Now
  BY <1>4 DEF IInv, Dated, Tick
<1>. QED BY <1>2, <1>4, <1>5 DEF Now

-----------------------------------------------------------------------------
(* Rows.                                                                   *)

\* Every row of ws is one of rs and the other way round, closed or not; the one of
\* the play on screen is as it was or excused.
Rewrites(ws, rs) ==
  /\ ws \subseteq Row
  /\ \A w \in ws : \E r \in rs : /\ w.play = r.play /\ w.start = r.start /\ w.id = r.id
                                 /\ w.play = OnScreen => w = r \/ Excused(ws, w)
  /\ \A r \in rs : \E w \in ws : w.play = r.play /\ w.start = r.start
  /\ \A v, w \in ws : v.play = w.play => v = w

LEMMA SoundRewrites ==
  ASSUME NEW rs, Sound(rs)
  PROVE  Rewrites(rs, rs)
BY DEF Sound, Rewrites

LEMMA RowsStep ==
  ASSUME NEW rs, Sound(rs), Faithful(Records(rs)), Apart(rs), Rewrites(rows', rs),
         UNCHANGED player, Carried' \subseteq Carried
  PROVE  Sound(rows)' /\ Faithful(Records(rows))' /\ Apart(rows)'
<1>1. UNCHANGED <<shown, open, queue, stored, flushing, Now, OnScreen>>
  BY DEF player, Now, OnScreen
<1>2. Told(rows)' \subseteq Told(rs)
  BY DEF Told, Rewrites
<1>3. Records(rows)' \subseteq Records(rs)
  BY <1>1, <1>2 DEF Records, Kept
<1>4. Sound(rows)'
  <2>1. rows' \subseteq Row /\ \A v, w \in rows' : v.play = w.play => v = w
    BY DEF Rewrites
  <2>2. ASSUME NEW w \in rows'
        PROVE  w.play <= OnScreen /\ (w.play = OnScreen => IsOpen(w) \/ Excused(rows', w))
    <3>1. PICK r \in rs : /\ w.play = r.play /\ w.start = r.start
                          /\ w.play = OnScreen => w = r \/ Excused(rows', w)
      BY DEF Rewrites
    <3>2. w.play <= OnScreen
      BY <3>1 DEF Sound
    <3>3. ASSUME w = r, w.play = OnScreen, ~IsOpen(w) PROVE Excused(rows', w)
      <4>1. Excused(rs, r)
        BY <3>3 DEF Sound
      <4>2. \A q \in rs : \E v \in rows' : v.play = q.play /\ v.start = q.start
        BY DEF Rewrites
      <4>. QED BY <3>3, <4>1, <4>2 DEF Excused
    <3>. QED BY <3>1, <3>2, <3>3
  <2>3. \A w \in rows' : Excused(rows', w) => Excused(rows, w)'
    BY <1>1 DEF Excused
  <2>4. \A w \in rows' : IsOpen(w)' <=> IsOpen(w)
    BY DEF IsOpen
  <2>. QED BY <1>1, <2>1, <2>2, <2>3, <2>4 DEF Sound
<1>5. Faithful(Records(rows))'
  BY <1>1, <1>3 DEF Faithful
<1>6. Apart(rows)'
  <2>1. ASSUME NEW w \in rows', w.id = 0
        PROVE  w.play # open' /\ \A e \in Records(rows)' : e.start # w.play
    <3>1. PICK r \in rs : w.play = r.play /\ w.id = r.id
      BY DEF Rewrites
    <3>. QED BY <1>1, <1>3, <2>1, <3>1 DEF Apart
  <2>. QED BY <2>1 DEF Apart
<1>. QED BY <1>4, <1>5, <1>6

LEMMA ClosedIsRow ==
  ASSUME NEW r \in Row, NEW t \in Int, NEW by \in {"player", "search", "next", "ceiling"}
  PROVE  /\ Closed(r, t, by) \in Row
         /\ Closed(r, t, by).play = r.play /\ Closed(r, t, by).start = r.start
         /\ Closed(r, t, by).id = r.id /\ Closed(r, t, by).by = by /\ Closed(r, t, by).end = t
BY DEF Closed, Row

\* Rows with different plays are no more than the plays.
LEMMA SoundIsFinite ==
  ASSUME NEW rs, Sound(rs)
  PROVE  IsFiniteSet(rs)
<1>. DEFINE first == [r \in rs |-> r.play]
<1>1. IsFiniteSet(1..MaxTicks)
  BY OfflinePlaysAssumption, FS_Interval
<1>2. first \in [rs -> 1..MaxTicks] /\ \A r, s \in rs : first[r] = first[s] => r = s
  BY DEF Sound, Row, Tick
<1>3. first \in Injection(rs, 1..MaxTicks)
  BY <1>2 DEF Injection, IsInjective
<1>. QED BY <1>1, <1>3, FS_Injection

\* The next start is a start: those after a row are a finite way from it.
LEMMA NextStart ==
  ASSUME NEW rs, Sound(rs), NEW r \in rs, Successors(rs, r) # {}
  PROVE  Min(Successors(rs, r)) \in Successors(rs, r) /\ Successors(rs, r) \subseteq Int
<1>1. r.start \in Int /\ Successors(rs, r) \subseteq Int
  BY DEF Successors, Sound, Row
<1>2. \A t \in Successors(rs, r) : t \in Int /\ r.start < t
  BY <1>1 DEF Successors, Sound, Row
<1>. DEFINE gaps == {t - r.start : t \in Successors(rs, r)}
<1>3. gaps \subseteq Nat /\ gaps # {} /\ \A t \in Successors(rs, r) : t - r.start \in gaps
  BY <1>1, <1>2
<1>4. \A g \in gaps : \E t \in Successors(rs, r) : g = t - r.start
  OBVIOUS
<1>. HIDE DEF gaps
<1>5. PICK g \in gaps : \A k \in gaps : g <= k
  BY <1>3, LeastNat
<1>6. PICK m \in Successors(rs, r) : g = m - r.start
  BY <1>4
<1>7. ASSUME NEW t \in Successors(rs, r) PROVE m <= t
  <2>1. m - r.start <= t - r.start
    BY <1>3, <1>5, <1>6
  <2>. QED BY <1>1, <1>2, <2>1
<1>. QED BY <1>1, <1>7 DEF Min

LEMMA SweepRewrites ==
  ASSUME NEW rs, Sound(rs), IInv
  PROVE  Rewrites(Sweep(rs), rs)
<1>1. ASSUME NEW r \in rs
      PROVE  /\ Bounded(rs, r) \in Row /\ Bounded(rs, r).play = r.play
             /\ Bounded(rs, r).start = r.start /\ Bounded(rs, r).id = r.id
             /\ \/ Bounded(rs, r) = r
                \/ /\ Bounded(rs, r).by = "next" /\ r.start < Bounded(rs, r).end
                   /\ \E s \in rs : s.start = Bounded(rs, r).end
  <2>1. CASE IsOpen(r) /\ Successors(rs, r) # {}
    <3>1. PICK t : t = Min(Successors(rs, r))
      OBVIOUS
    <3>2. t \in Successors(rs, r) /\ t \in Int
      BY <2>1, <3>1, NextStart
    <3>3. PICK s \in rs : s.start = t /\ r.start < s.start
      BY <3>2 DEF Successors
    <3>4. Bounded(rs, r) = Closed(r, t, "next")
      BY <2>1, <3>1 DEF Bounded
    <3>5. r \in Row /\ "next" \in {"player", "search", "next", "ceiling"}
      BY DEF Sound
    <3>6. PICK c : c = Closed(r, t, "next")
      OBVIOUS
    <3>7. /\ c \in Row /\ c.play = r.play /\ c.start = r.start /\ c.id = r.id
          /\ c.by = "next" /\ c.end = t
      BY <3>2, <3>5, <3>6, ClosedIsRow, Zenon
    <3>. QED BY <3>3, <3>4, <3>6, <3>7
  <2>2. CASE ~(IsOpen(r) /\ Successors(rs, r) # {})
    BY <2>2 DEF Bounded, Sound
  <2>. QED BY <2>1, <2>2
<1>. DEFINE ws == Sweep(rs)
<1>2. ws = {Bounded(rs, r) : r \in rs}
  BY DEF Sweep
<1>. HIDE DEF ws
<1>3. \A r \in rs : \E w \in ws : w.play = r.play /\ w.start = r.start
  BY <1>1, <1>2
<1>4. \A v, w \in ws : v.play = w.play => v = w
  BY <1>1, <1>2 DEF Sound
<1>5. ASSUME NEW w \in ws
      PROVE  \E r \in rs : /\ w.play = r.play /\ w.start = r.start /\ w.id = r.id
                           /\ w.play = OnScreen => w = r \/ Excused(ws, w)
  <2>1. PICK r \in rs : w = Bounded(rs, r)
    BY <1>2
  <2>2. w.play = r.play /\ w.start = r.start /\ w.id = r.id
    BY <1>1, <2>1
  <2>3. ASSUME w.play = OnScreen, w # r PROVE Excused(ws, w)
    <3>1. w.by = "next" /\ r.start < w.end /\ \E s \in rs : s.start = w.end
      BY <1>1, <2>1, <2>3
    <3>2. PICK s \in rs : s.start = w.end
      BY <3>1
    <3>3. s.play < w.play
      <4>1. s # r /\ r.start \in Int
        BY <3>1, <3>2 DEF Sound, Row
      <4>2. s.play # r.play /\ s.play <= OnScreen
        BY <4>1 DEF Sound
      <4>3. s.play \in Nat /\ OnScreen \in Nat
        BY ScreenType DEF Sound, Row, Tick
      <4>. QED BY <2>2, <2>3, <4>2, <4>3
    <3>4. PICK v \in ws : v.play = s.play /\ v.start = s.start
      BY <1>3
    <3>. QED BY <2>2, <3>1, <3>2, <3>3, <3>4 DEF Excused
  <2>. QED BY <2>2, <2>3
<1>6. ws \subseteq Row
  BY <1>1, <1>2
<1>. QED BY <1>3, <1>4, <1>5, <1>6 DEF Rewrites, ws

-----------------------------------------------------------------------------
(* The server's handlers.                                                  *)

LEMMA TailKeeps ==
  ASSUME IInv, wire # <<>>, wire' = Tail(wire)
  PROVE  /\ wire' \in Seq(Frame) /\ Carried' \subseteq Carried
         /\ \A k \in DOMAIN wire' : k + 1 \in DOMAIN wire /\ wire'[k] = wire[k + 1]
<1>1. wire \in Seq(Frame)
  BY DEF IInv, TypeOK
<1>2. wire' \in Seq(Frame) /\ \A k \in DOMAIN wire' : k + 1 \in DOMAIN wire /\ wire'[k] = wire[k + 1]
  BY <1>1
<1>. QED BY <1>1, <1>2 DEF Carried

LEMMA CopiesType ==
  ASSUME NEW n, Sound(rows)
  PROVE  Copies(n) \in Nat
BY SoundIsFinite, FS_Subset, FS_CardinalityType DEF Copies

\* A live start adds the row of the play on screen.
LEMMA PlayStartKeeps ==
  ASSUME IInv, wire # <<>>, wire' = Tail(wire), UNCHANGED <<player, alive>>,
         Head(wire).kind = "start", PlayStart(Head(wire).play)
  PROVE  Sound(rows)' /\ Faithful(Records(rows))' /\ Apart(rows)' /\ known' = OnScreen
<1>. DEFINE new == LiveRow(OnScreen)
            rs == rows \cup {new}
<1>1. Head(wire) = wire[1] /\ 1 \in DOMAIN wire
  BY DEF IInv, TypeOK
<1>2. Head(wire).play = OnScreen /\ open # OnScreen /\ \A r \in rows : r.play # OnScreen
  BY <1>1 DEF IInv, OnTime, Tells
<1>3. new \in Row /\ new.play = OnScreen /\ IsOpen(new) /\ new.id = 0
  <2>1. Copies(OnScreen) \in Nat
    BY CopiesType DEF IInv
  <2>2. 0 \in Moment /\ 0 \in Int /\ Now \in Int
    BY OfflinePlaysAssumption, ScreenType DEF Moment
  <2>3. OnScreen \in Tick /\ shown[OnScreen].item \in Items
    BY ScreenType
  <2>. QED BY <2>1, <2>2, <2>3 DEF LiveRow, Row, ItemOf, IsOpen
<1>. HIDE DEF new
<1>4. Sound(rs)
  <2>1. \A r \in rows : Excused(rows, r) => Excused(rs, r)
    BY DEF Excused
  <2>2. OnScreen <= OnScreen
    BY ScreenType DEF Tick
  <2>. QED BY <1>2, <1>3, <2>1, <2>2 DEF Sound, IInv
<1>5. Records(rs) = Records(rows)
  BY <1>3 DEF Records, Told
<1>6. Faithful(Records(rs)) /\ Apart(rs)
  <2>1. \A e \in Records(rows) : e.start # OnScreen
    <3>1. \A e \in Records(rows) : e \in Entry /\ e.start < e.end /\ e.end <= OnScreen
      BY DEF Faithful, IInv
    <3>. QED BY <3>1, ScreenType DEF Entry, Tick
  <2>. QED BY <1>2, <1>3, <1>5, <2>1 DEF IInv, Apart
<1>7. rows' = rs \/ rows' = Sweep(rs)
  BY <1>2 DEF PlayStart, new
<1>. HIDE DEF rs
<1>8. Rewrites(rows', rs)
  BY <1>4, <1>7, SoundRewrites, SweepRewrites
<1>. QED BY <1>2, <1>4, <1>6, <1>8, RowsStep, TailKeeps DEF PlayStart

\* The handler gives the play on screen no row.
NoneOnScreen == \A r \in rows' : r.play = OnScreen => \E s \in rows : s.play = OnScreen

\* A backlog adds a row for each of its plays that has none.
LEMMA PlayOfflineKeeps ==
  ASSUME IInv, wire # <<>>, wire' = Tail(wire), UNCHANGED <<player, alive>>,
         Head(wire).kind = "plays", PlayOffline(Head(wire).plays)
  PROVE  Sound(rows)' /\ Faithful(Records(rows))' /\ Apart(rows)' /\ NoneOnScreen
<1>. DEFINE plays == Head(wire).plays
            fresh == {e \in Accepted(plays) : \A r \in rows : r.id # e.end}
            rs == Inserted(plays)
<1>1. Head(wire) = wire[1] /\ 1 \in DOMAIN wire
  BY DEF IInv, TypeOK
<1>2. plays \subseteq Carried /\ fresh \subseteq plays
  BY <1>1 DEF Carried, Accepted
<1>3. \A e \in plays : e \in Records(rows) /\ e \in Entry /\ e.start < e.end /\ e.end <= OnScreen
  BY <1>2 DEF IInv, Faithful, Records, Kept
<1>. HIDE DEF plays
<1>4. ASSUME NEW e \in plays
      PROVE  /\ BackfillRow(e) \in Row
             /\ BackfillRow(e).play = e.start /\ BackfillRow(e).id = e.end /\ e.end # 0
             /\ e.start < OnScreen /\ [start |-> e.start, end |-> e.end] = e
  <2>1. e \in Entry /\ e.start < e.end /\ e.end <= OnScreen /\ e.start \in Tick
        /\ e.end \in Tick /\ [start |-> e.start, end |-> e.end] = e
    BY <1>3 DEF Entry
  <2>2. OnScreen \in 1..Now /\ Now \in Nat /\ e.start \in Nat /\ e.end \in Nat /\ e.end # 0
    BY <2>1, ScreenType DEF Tick
  <2>3. e.start < OnScreen /\ e.start \in 1..Now
    BY <2>1, <2>2 DEF Tick
  <2>4. shown[e.start].item \in Items /\ e.end \in Moment
    BY <2>1, <2>3, ScreenType DEF Moment, Tick
  <2>5. Copies(e.start) \in Nat
    BY CopiesType DEF IInv
  <2>6. e.start + ahead \in Int /\ e.end + ahead \in Int
    BY <2>2, OfflinePlaysAssumption DEF IInv, TypeOK
  <2>. QED BY <2>1, <2>2, <2>3, <2>4, <2>5, <2>6 DEF BackfillRow, Row, ItemOf
<1>5. rs = rows \cup {BackfillRow(e) : e \in fresh}
  BY DEF Inserted
<1>. HIDE DEF rs, fresh
<1>6. ASSUME NEW e \in fresh, NEW r \in rows
      PROVE  r.play # e.start
  <2>0. e \in plays /\ r.id # e.end
    BY <1>2 DEF fresh
  <2>1. CASE r.id = 0
    BY <1>3, <2>0, <2>1 DEF IInv, Apart
  <2>2. CASE r.id # 0
    <3>. DEFINE told == [start |-> r.play, end |-> r.id]
    <3>1. told \in Records(rows)
      BY <2>2 DEF Records, Told
    <3>2. told.start = e.start => told.end = e.end
      BY <1>3, <2>0, <3>1 DEF IInv, Faithful
    <3>. QED BY <2>0, <3>2
  <2>. QED BY <2>1, <2>2
<1>7. \A e, f \in fresh : e.start = f.start => e = f
  <2>1. \A e, f \in fresh : e \in Records(rows) /\ f \in Records(rows) /\ e \in plays /\ f \in plays
    BY <1>2, <1>3
  <2>2. \A e, f \in fresh : e.start = f.start => e.end = f.end
    BY <2>1 DEF IInv, Faithful
  <2>. QED BY <1>4, <2>1, <2>2
<1>8. Sound(rs)
  <2>1. rows \subseteq Row /\ \A r, s \in rows : r.play = s.play => r = s
    BY DEF IInv, Sound
  <2>2. rs \subseteq Row
    BY <1>2, <1>4, <1>5, <2>1
  <2>3. ASSUME NEW r \in rs, NEW s \in rs, r.play = s.play
        PROVE  r = s
    <3>1. ASSUME NEW e \in fresh, NEW f \in fresh, e.start = f.start
          PROVE  BackfillRow(e) = BackfillRow(f)
      BY <1>7, <3>1
    <3>2. \A e \in fresh : BackfillRow(e).play = e.start
      BY <1>2, <1>4
    <3>3. (r \in rows \/ \E e \in fresh : r = BackfillRow(e))
          /\ (s \in rows \/ \E e \in fresh : s = BackfillRow(e))
      BY <1>5
    <3>. QED BY <1>6, <2>1, <2>3, <3>1, <3>2, <3>3
  <2>4. ASSUME NEW r \in rs
        PROVE  r.play <= OnScreen /\ (r.play = OnScreen => IsOpen(r) \/ Excused(rs, r))
    <3>1. CASE r \in rows
      <4>1. Excused(rows, r) => Excused(rs, r)
        BY <1>5 DEF Excused
      <4>. QED BY <3>1, <4>1 DEF IInv, Sound
    <3>2. CASE r \notin rows
      <4>1. PICK e \in fresh : r = BackfillRow(e)
        BY <1>5, <3>2
      <4>2. r.play < OnScreen /\ r.play \in Int /\ OnScreen \in Int
        BY <1>2, <1>4, <2>2, <4>1, ScreenType DEF Row, Tick
      <4>. QED BY <4>2
    <3>. QED BY <3>1, <3>2
  <2>. QED BY <2>2, <2>3, <2>4 DEF Sound
<1>9. Records(rs) = Records(rows)
  <2>1. Told(rs) \subseteq Told(rows) \cup plays
    BY <1>2, <1>4, <1>5 DEF Told
  <2>2. Told(rows) \subseteq Told(rs)
    BY <1>5 DEF Told
  <2>. QED BY <1>3, <2>1, <2>2 DEF Records
<1>10. Faithful(Records(rs)) /\ Apart(rs)
  <2>1. \A r \in rs : r.id = 0 => r \in rows
    BY <1>2, <1>4, <1>5
  <2>. QED BY <1>9, <2>1 DEF IInv, Apart
<1>11. Rewrites(rows', rs)
  BY <1>8, SweepRewrites DEF PlayOffline, rs, plays
<1>12. \A r \in rs : r.play = OnScreen => r \in rows
  <2>1. ASSUME NEW e \in fresh PROVE BackfillRow(e).play # OnScreen
    <3>1. BackfillRow(e).play = e.start /\ e.start < OnScreen /\ e \in Entry
      BY <1>2, <1>3, <1>4
    <3>. QED BY <3>1, ScreenType DEF Entry, Tick
  <2>. QED BY <1>5, <2>1
<1>. QED BY <1>8, <1>10, <1>11, <1>12, RowsStep, TailKeeps DEF Rewrites, NoneOnScreen

\* A late end, or the sweep, closes rows of earlier plays.
LEMMA PlayEndKeeps ==
  ASSUME IInv, wire # <<>>, wire' = Tail(wire), UNCHANGED <<player, alive>>,
         Head(wire).kind = "end", PlayEnd(Head(wire).play)
  PROVE  Sound(rows)' /\ Faithful(Records(rows))' /\ Apart(rows)' /\ NoneOnScreen
<1>1. Head(wire) = wire[1] /\ 1 \in DOMAIN wire /\ Now \in Int
  BY ScreenType DEF IInv, TypeOK
<1>2. Sound(rows) /\ \A r \in rows : r.play # OnScreen
  BY <1>1 DEF IInv, OnTime, Tells
<1>3. \/ UNCHANGED rows
      \/ \E r \in rows, by \in {"player", "search"} : rows' = (rows \ {r}) \cup {Closed(r, Now, by)}
  BY DEF PlayEnd
<1>4. Rewrites(rows', rows)
  <2>1. CASE UNCHANGED rows
    BY <1>2, <2>1, SoundRewrites
  <2>2. ASSUME NEW r \in rows, NEW by \in {"player", "search"},
               rows' = (rows \ {r}) \cup {Closed(r, Now, by)}
        PROVE  Rewrites(rows', rows)
    <3>1. PICK c : c = Closed(r, Now, by)
      OBVIOUS
    <3>2. c \in Row /\ c.play = r.play /\ c.start = r.start /\ c.id = r.id
      <4>1. r \in Row /\ by \in {"player", "search", "next", "ceiling"} /\ Now \in Int
        BY <1>1, <1>2 DEF Sound
      <4>2. PICK q, t : q = by /\ t = Now
        OBVIOUS
      <4>3. Closed(r, t, q) \in Row /\ c = Closed(r, t, q)
        BY <3>1, <4>1, <4>2 DEF Closed, Row
      <4>. QED BY <4>1, <4>3 DEF Closed, Row
    <3>3. rows' = (rows \ {r}) \cup {c}
      BY <2>2, <3>1
    <3>4. \A v, w \in rows' : v.play = w.play => v = w
      BY <1>2, <3>2, <3>3 DEF Sound
    <3>5. rows \subseteq Row
      BY <1>2 DEF Sound
    <3>6. \A q \in rows : \E w \in rows' : w.play = q.play /\ w.start = q.start
      BY <3>2, <3>3
    <3>7. ASSUME NEW w \in rows'
          PROVE  w.play # OnScreen /\ \E q \in rows : /\ w.play = q.play
                                                     /\ w.start = q.start /\ w.id = q.id
      BY <1>2, <3>2, <3>3
    <3>. QED BY <3>2, <3>3, <3>4, <3>5, <3>6, <3>7 DEF Rewrites
  <2>. QED BY <1>3, <2>1, <2>2
<1>. QED BY <1>2, <1>4, RowsStep, TailKeeps DEF IInv, Rewrites, NoneOnScreen

LEMMA ExpireKeeps ==
  ASSUME IInv, ExpireStranded
  PROVE  Sound(rows)' /\ Faithful(Records(rows))' /\ Apart(rows)'
<1>. DEFINE After(r) == IF Overdue(r) THEN Closed(r, r.start + Allowed, "ceiling") ELSE r
<1>1. rows' = {After(r) : r \in rows}
  BY DEF ExpireStranded
<1>2. ASSUME NEW r \in rows
      PROVE  /\ After(r) \in Row /\ After(r).play = r.play
             /\ After(r).start = r.start /\ After(r).id = r.id
             /\ After(r) = r \/ (After(r).by = "ceiling" /\ r.start + Allowed < Now)
  <2>1. r \in Row /\ r.start + Allowed \in Int
    BY OfflinePlaysAssumption DEF IInv, Sound, Row
  <2>2. CASE Overdue(r)
    BY <2>1, <2>2, ClosedIsRow DEF Overdue
  <2>3. CASE ~Overdue(r)
    BY <2>1, <2>3
  <2>. QED BY <2>2, <2>3
<1>. HIDE DEF After
<1>3. Rewrites(rows', rows)
  <2>1. Sound(rows)
    BY DEF IInv
  <2>2. \A v, w \in rows' : v.play = w.play => v = w
    BY <1>1, <1>2, <2>1 DEF Sound
  <2>3. ASSUME NEW w \in rows'
        PROVE  \E r \in rows : /\ w.play = r.play /\ w.start = r.start /\ w.id = r.id
                               /\ w.play = OnScreen => w = r \/ Excused(rows', w)
    BY <1>1, <1>2 DEF Excused
  <2>4. \A r \in rows : \E w \in rows' : w.play = r.play /\ w.start = r.start
    BY <1>1, <1>2
  <2>5. rows' \subseteq Row
    BY <1>1, <1>2
  <2>. QED BY <2>2, <2>3, <2>4, <2>5 DEF Rewrites
<1>4. UNCHANGED player /\ Carried' = Carried
  BY DEF ExpireStranded, Carried
<1>. QED BY <1>3, <1>4, RowsStep DEF IInv

-----------------------------------------------------------------------------
(* The player.                                                             *)

\* Fewer records and the same rows.
LEMMA FewerRecords ==
  ASSUME IInv, UNCHANGED <<rows, shown, open>>, Kept' \subseteq Kept
  PROVE  Sound(rows)' /\ Faithful(Records(rows))' /\ Apart(rows)' /\ Dated'
<1>1. Now' = Now /\ OnScreen' = OnScreen /\ Records(rows)' \subseteq Records(rows)
  BY DEF Now, OnScreen, Records, Told
<1>2. Sound(rows)'
  BY <1>1 DEF IInv, Sound, Excused, IsOpen
<1>. QED BY <1>1, <1>2 DEF IInv, Dated, Faithful, Apart

\* The next play is the one on screen.
LEMMA BeginsType ==
  ASSUME IInv, Now < MaxTicks, NEW i \in Items, Begins(i)
  PROVE  shown' \in Seq([item: Items, play: Tick]) /\ Now' = Now + 1 /\ OnScreen' = Now + 1
<1>1. Now \in 1..MaxTicks /\ MaxTicks \in Nat
  BY ScreenType, OfflinePlaysAssumption
<1>2. [item |-> i, play |-> Now + 1] \in [item: Items, play: Tick]
  BY <1>1 DEF Tick
<1>3. shown \in Seq([item: Items, play: Tick]) /\ Now = Len(shown)
  BY DEF IInv, TypeOK, Now
<1>4. /\ shown' \in Seq([item: Items, play: Tick]) /\ Len(shown') = Now + 1
      /\ shown'[Now + 1] = [item |-> i, play |-> Now + 1]
  BY <1>1, <1>2, <1>3 DEF Begins
<1>. QED BY <1>4 DEF Now, OnScreen

\* The next play: its number is new, and so is the record of the play that was
\* begun offline.
LEMMA NextPlay ==
  ASSUME IInv, Now < MaxTicks, UNCHANGED rows,
         NEW i \in Items, Begins(i), open' \in {open, Now + 1},
         NEW new, new \in SUBSET {[start |-> open, end |-> Now + 1]},
         new # {} => open # NoPlay /\ open' # open,
         Kept' \subseteq Kept \cup new
  PROVE  Sound(rows)' /\ Faithful(Records(rows))' /\ Apart(rows)' /\ Dated'
<1>0. /\ Now \in Nat /\ OnScreen \in Nat /\ Now' = Now + 1 /\ OnScreen' = Now + 1 /\ 1 <= Now
      /\ OnScreen <= Now
  BY ScreenType, BeginsType
<1>1. open \in Nat /\ open <= Now /\ MaxTicks \in Nat
  BY OfflinePlaysAssumption DEF IInv, TypeOK, Moment, Dated
<1>2. \A r \in rows : r \in Row /\ r.play \in Nat /\ r.play <= Now
  <2>1. \A r \in rows : r \in Row /\ r.play \in Nat /\ r.play <= OnScreen
    BY DEF IInv, Sound, Row, Tick
  <2>. QED BY <1>0, <2>1
<1>3. \A e \in Records(rows) : /\ e.start \in Nat /\ e.end \in Nat /\ e \in Entry
                               /\ e.start < e.end /\ e.end <= Now /\ e.start # open
  <2>1. \A e \in Records(rows) : /\ e.start \in Nat /\ e.end \in Nat /\ e \in Entry
                                 /\ e.start < e.end /\ e.end <= OnScreen /\ e.start # open
    BY DEF IInv, Faithful, Entry, Tick
  <2>. QED BY <1>0, <2>1
<1>4. \A e \in new : /\ e.start = open /\ e.end = Now + 1 /\ open \in Tick /\ e \in Entry
                     /\ open' = Now + 1
  BY <1>0, <1>1 DEF Entry, NoPlay, Tick
<1>5. Records(rows)' \subseteq Records(rows) \cup new
  BY DEF Records, Told
<1>6. Sound(rows)'
  <2>1. \A r \in rows : r.play <= OnScreen' /\ r.play # OnScreen'
    BY <1>0, <1>2
  <2>. QED BY <2>1 DEF IInv, Sound
<1>7. Faithful(Records(rows))'
  <2>1. \A e, f \in Records(rows) : (e.start = f.start) <=> (e.end = f.end)
    BY DEF IInv, Faithful
  <2>2. ASSUME NEW e \in Records(rows) \cup new
        PROVE  e \in Entry /\ e.start < e.end /\ e.end <= OnScreen' /\ e.start # open'
    BY <1>0, <1>1, <1>3, <1>4
  <2>3. ASSUME NEW e \in Records(rows) \cup new, NEW f \in Records(rows) \cup new
        PROVE  (e.start = f.start) <=> (e.end = f.end)
    BY <1>0, <1>1, <1>3, <1>4, <2>1
  <2>. QED BY <1>5, <2>2, <2>3 DEF Faithful
<1>8. Apart(rows)'
  <2>1. \A r \in rows : r.id = 0 => r.play # open /\ \A e \in Records(rows) : e.start # r.play
    BY DEF IInv, Apart
  <2>2. ASSUME NEW r \in rows, r.id = 0
        PROVE  r.play # open' /\ \A e \in Records(rows) \cup new : e.start # r.play
    BY <1>0, <1>1, <1>2, <1>4, <2>1, <2>2
  <2>. QED BY <1>5, <2>2 DEF Apart
<1>9. Dated'
  BY <1>0, <1>1 DEF Dated
<1>. QED BY <1>6, <1>7, <1>8, <1>9

\* The play on screen stays on.
LEMMA StaysOnKeeps ==
  ASSUME IInv, StaysOn
  PROVE  IInv'
<1>1. /\ UNCHANGED <<ahead, open, queue, stored, flushing, socket, alive, wire, known, rows, swept, faults>>
      /\ Now < MaxTicks /\ shown' = Append(shown, shown[Now])
  BY DEF StaysOn, TimePasses, server
<1>2. Now \in 1..MaxTicks /\ OnScreen \in 1..Now /\ Now \in Nat /\ MaxTicks \in Nat
  BY ScreenType, OfflinePlaysAssumption
<1>3. /\ shown' \in Seq([item: Items, play: Tick]) /\ Now' = Now + 1 /\ OnScreen' = OnScreen
  <2>1. shown \in Seq([item: Items, play: Tick]) /\ Now = Len(shown)
    BY DEF IInv, TypeOK, Now
  <2>2. shown[Now] \in [item: Items, play: Tick]
    <3>1. PICK S : S = [item: Items, play: Tick]
      OBVIOUS
    <3>2. shown \in Seq(S) /\ Len(shown) \in DOMAIN shown
      BY <1>2, <2>1, <3>1
    <3>3. shown[Len(shown)] \in S
      BY <3>2
    <3>. QED BY <2>1, <3>1, <3>3
  <2>3. /\ shown' \in Seq([item: Items, play: Tick]) /\ Len(shown') = Now + 1
        /\ shown'[Now + 1] = shown[Now]
    BY <1>1, <2>1, <2>2
  <2>. QED BY <2>3 DEF Now, OnScreen
<1>4. TypeOK'
  BY <1>1, <1>2, <1>3 DEF IInv, TypeOK
<1>5. Dated'
  BY <1>1, <1>2, <1>3 DEF IInv, Dated, TypeOK, Moment
<1>6. Records(rows)' = Records(rows)
  BY <1>1 DEF Records, Kept, Told, Carried
<1>7. Sound(rows)'
  <2>1. \A r \in rows : r \in Row /\ r.start \in Int
    BY DEF IInv, Sound, Row
  <2>2. \A r \in rows : Excused(rows, r) => Excused(rows, r)'
    BY <1>1, <1>2, <1>3, <2>1, OfflinePlaysAssumption DEF Excused
  <2>. QED BY <1>1, <1>3, <2>2 DEF IInv, Sound, IsOpen
<1>8. Faithful(Records(rows))' /\ Apart(rows)'
  BY <1>1, <1>3, <1>6 DEF IInv, Faithful, Apart
<1>9. OnTime'
  BY <1>1, <1>3 DEF IInv, OnTime, Tells
<1>. QED BY <1>4, <1>5, <1>7, <1>8, <1>9 DEF IInv

LEMMA RecordsAreFinite ==
  ASSUME IInv
  PROVE  IsFiniteSet(Kept)
<1>. DEFINE last == [e \in Kept |-> e.end]
<1>1. IsFiniteSet(1..MaxTicks)
  BY OfflinePlaysAssumption, FS_Interval
<1>2. \A e, f \in Kept : e \in Entry /\ f \in Entry /\ (e.end = f.end => e.start = f.start)
  BY DEF IInv, Faithful, Records
<1>3. last \in [Kept -> 1..MaxTicks] /\ \A e, f \in Kept : last[e] = last[f] => e = f
  BY <1>2 DEF Entry, Tick
<1>4. last \in Injection(Kept, 1..MaxTicks)
  BY <1>3 DEF Injection, IsInjective
<1>. QED BY <1>1, <1>4, FS_Injection

\* The queue stays within its capacity: a full one has an oldest entry.
LEMMA AddedFits ==
  ASSUME IInv, NEW e \in Entry
  PROVE  /\ Added(queue, e) \subseteq queue \cup {e} /\ Added(queue, e) \subseteq Entry
         /\ Cardinality(Added(queue, e)) <= MaxEntries
<1>. DEFINE rest == IF Cardinality(queue) < MaxEntries THEN queue ELSE queue \ Oldest(queue)
<1>1. /\ queue \subseteq Entry /\ Cardinality(queue) <= MaxEntries
      /\ MaxEntries \in Nat /\ MaxEntries > 0
  BY OfflinePlaysAssumption DEF IInv, TypeOK
<1>2. IsFiniteSet(queue) /\ Cardinality(queue) \in Nat
  BY RecordsAreFinite, FS_Subset, FS_CardinalityType DEF Kept
<1>3. rest \subseteq queue /\ IsFiniteSet(rest) /\ Cardinality(rest) \in Nat
  BY <1>2, FS_Subset, FS_CardinalityType
<1>4. Cardinality(rest) < MaxEntries
  <2>1. CASE Cardinality(queue) < MaxEntries
    BY <2>1
  <2>2. CASE Cardinality(queue) = MaxEntries
    <3>1. queue # {}
      BY <1>1, <2>2, FS_EmptySet
    <3>. DEFINE ends == {f.end : f \in queue}
    <3>2. ends \subseteq Nat /\ ends # {} /\ \A f \in queue : f.end \in ends
      BY <1>1, <3>1 DEF Entry, Tick
    <3>. HIDE DEF ends
    <3>3. PICK m \in ends : \A k \in ends : m <= k
      BY <3>2, LeastNat
    <3>4. PICK g \in queue : g.end = m
      BY <3>3 DEF ends
    <3>5. g \in Oldest(queue)
      <4>1. \A f \in queue : f.end \in Nat /\ m <= f.end
        BY <3>2, <3>3
      <4>2. m \in Nat /\ Older(queue, g) = {}
        BY <3>2, <3>3, <3>4, <4>1 DEF Older
      <4>. QED BY <4>2 DEF Oldest
    <3>6. rest \subseteq queue /\ rest # queue
      BY <2>2, <3>5, <1>1
    <3>7. Cardinality(rest) <= Cardinality(queue) /\ Cardinality(rest) # Cardinality(queue)
      BY <1>2, <3>6, FS_Subset
    <3>. QED BY <1>2, <1>3, <2>2, <3>7
  <2>. QED BY <1>1, <1>2, <2>1, <2>2
<1>5. Added(queue, e) = rest \cup {e}
  BY DEF Added
<1>. HIDE DEF rest
<1>6. IsFiniteSet(rest \cup {e}) /\ Cardinality(rest \cup {e}) =
        IF e \in rest THEN Cardinality(rest) ELSE Cardinality(rest) + 1
  BY <1>3, FS_AddElement, Zenon
<1>7. Cardinality(rest \cup {e}) <= Cardinality(rest) + 1
  BY <1>3, <1>6
<1>. QED BY <1>1, <1>3, <1>4, <1>5, <1>6, <1>7

-----------------------------------------------------------------------------
(* Every step keeps the invariant.                                         *)

LEMMA InitHolds == Init => IInv
<1>. SUFFICES ASSUME Init PROVE IInv
  OBVIOUS
<1>1. MaxTicks \in Nat \ {0} /\ MaxEntries \in Nat /\ MaxFaults \in Nat
  BY OfflinePlaysAssumption
<1>2. PICK i \in Items : shown = <<[item |-> i, play |-> 1]>>
  BY DEF Init
<1>3. /\ Now = 1 /\ OnScreen = 1 /\ shown \in Seq([item: Items, play: Tick]) /\ wire \in Seq(Frame)
  <2>1. [item |-> i, play |-> 1] \in [item: Items, play: Tick]
    BY <1>1 DEF Tick
  <2>2. wire = <<>>
    BY DEF Init
  <2>. QED BY <1>2, <2>1, <2>2 DEF Now, OnScreen
<1>4. /\ socket = "down" /\ alive = FALSE /\ open = 1 /\ known = 0 /\ swept = FALSE /\ ahead \in Leads
      /\ queue = {} /\ stored = {} /\ flushing = {} /\ rows = {} /\ faults = 0 /\ wire = <<>>
  BY DEF Init, NoPlay
<1>5. TypeOK
  <2>1. 0 <= MaxEntries /\ open \in Moment /\ known \in Moment /\ Now <= MaxTicks
    BY <1>1, <1>3, <1>4 DEF Moment
  <2>2. alive \in BOOLEAN /\ swept \in BOOLEAN
    BY <1>4, Zenon
  <2>3. Cardinality(queue) <= MaxEntries /\ Cardinality(stored) <= MaxEntries
    BY <1>4, <2>1, FS_EmptySet
  <2>4. faults \in 0..MaxFaults
    BY <1>1, <1>4
  <2>. QED BY <1>3, <1>4, <2>1, <2>2, <2>3, <2>4 DEF TypeOK
<1>6. Carried = {} /\ Records(rows) = {}
  BY <1>4 DEF Records, Kept, Told, Carried
<1>. QED BY <1>3, <1>4, <1>5, <1>6 DEF IInv, Dated, Sound, Faithful, Apart, OnTime

LEMMA NextItemKeeps ==
  ASSUME IInv, NEW i \in Items, NextItem(i)
  PROVE  IInv'
<1>. DEFINE told == <<[kind |-> "end", play |-> OnScreen], [kind |-> "start", play |-> Now + 1]>>
            e == [start |-> open, end |-> Now + 1]
<1>1. /\ Now \in Nat /\ 1 <= Now /\ Now < MaxTicks /\ MaxTicks \in Nat /\ MaxFaults \in Nat
      /\ open \in Nat /\ open <= Now /\ wire \in Seq(Frame) /\ OnScreen \in Tick
  BY ScreenType, OfflinePlaysAssumption DEF IInv, Dated, TypeOK, NextItem, TimePasses, Moment
<1>2. wire = <<>> /\ ahead' = ahead
  BY DEF NextItem, TimePasses, IInv, OnTime
<1>3. /\ shown' \in Seq([item: Items, play: Tick]) /\ Now' = Now + 1 /\ OnScreen' = Now + 1
      /\ Begins(i)
  BY <1>1, BeginsType DEF NextItem
<1>4. \A r \in rows : r.play # Now + 1
  <2>1. \A r \in rows : r.play \in Nat /\ r.play <= OnScreen
    BY DEF IInv, Sound, Row, Tick
  <2>2. OnScreen \in 1..Now
    BY ScreenType
  <2>. QED BY <1>1, <2>1, <2>2
<1>5. CASE Up
  <2>1. UNCHANGED <<open, queue, stored, faults, socket, alive, flushing, rows, known, swept>>
    BY <1>5 DEF NextItem, server
  <2>2. wire' = <<>> \/ (wire' = told /\ alive)
    <3>1. <<>> \o told = told
      OBVIOUS
    <3>2. wire' = Emit(wire, told)
      BY <1>5 DEF NextItem
    <3>. HIDE DEF told
    <3>3. CASE alive
      BY <1>2, <3>1, <3>2, <3>3 DEF Emit
    <3>4. CASE ~alive
      <4>1. Emit(wire, told) = wire
        BY <3>4 DEF Emit
      <4>2. wire' = wire
        BY <3>2, <4>1
      <4>. QED BY <1>2, <4>2
    <3>. QED BY <3>3, <3>4
  <2>3. wire' \in Seq(Frame)
    <3>1. [kind |-> "end", play |-> OnScreen] \in Frame /\ [kind |-> "start", play |-> Now + 1] \in Frame
      BY <1>1 DEF Frame, Tick
    <3>2. <<>> \in Seq(Frame) /\ told \in Seq(Frame)
      BY <3>1
    <3>. HIDE DEF told
    <3>. QED BY <2>2, <3>2
  <2>4. Carried' = {}
    BY <2>2 DEF Carried
  <2>5. OnTime'
    <3>1. CASE wire' = <<>>
      BY <3>1 DEF OnTime
    <3>2. CASE wire' = told /\ alive
      BY <1>1, <1>3, <1>4, <2>1, <3>2 DEF OnTime, Tells
    <3>. QED BY <2>2, <3>1, <3>2
  <2>6. Sound(rows)' /\ Faithful(Records(rows))' /\ Apart(rows)' /\ Dated'
    BY <1>1, <1>3, <2>1, <2>4, NextPlay DEF Kept
  <2>7. TypeOK'
    BY <1>1, <1>2, <1>3, <2>1, <2>3 DEF IInv, TypeOK
  <2>. QED BY <2>5, <2>6, <2>7 DEF IInv
<1>6. CASE ~Up
  <2>1. UNCHANGED <<wire, socket, alive, flushing, rows, known, swept>> /\ open' = Now + 1
    BY <1>6 DEF NextItem, server
  <2>. DEFINE new == IF open # NoPlay THEN {e} ELSE {}
  <2>2. /\ queue' \subseteq queue \cup new /\ stored' \subseteq stored \cup queue \cup new
        /\ queue' \subseteq Entry /\ stored' \subseteq Entry /\ faults' \in 0..MaxFaults
        /\ Cardinality(queue') <= MaxEntries /\ Cardinality(stored') <= MaxEntries
    <3>1. CASE open = NoPlay
      BY <1>6, <3>1 DEF NextItem, IInv, TypeOK
    <3>2. CASE open # NoPlay
      <4>1. e \in Entry
        BY <1>1, <3>2 DEF Entry, Tick, NoPlay
      <4>2. queue' = Added(queue, e) /\ Persist
        BY <1>6, <3>2 DEF NextItem
      <4>3. (stored' = queue' \/ stored' = stored) /\ faults' \in 0..MaxFaults
        BY <1>1, <4>2 DEF Persist, Trouble, IInv, TypeOK
      <4>. HIDE DEF e
      <4>. QED BY <3>2, <4>1, <4>2, <4>3, AddedFits DEF IInv, TypeOK
    <3>. QED BY <3>1, <3>2
  <2>3. Carried' = Carried
    BY <2>1 DEF Carried
  <2>4. Kept' \subseteq Kept \cup new
    <3>1. flushing' = flushing
      BY <2>1
    <3>. HIDE DEF new
    <3>. QED BY <2>2, <2>3, <3>1 DEF Kept
  <2>5. Sound(rows)' /\ Faithful(Records(rows))' /\ Apart(rows)' /\ Dated'
    <3>1. new \in SUBSET {[start |-> open, end |-> Now + 1]}
      OBVIOUS
    <3>2. new # {} => open # NoPlay /\ open' # open
      BY <1>1, <2>1
    <3>3. rows' = rows /\ open' \in {open, Now + 1}
      BY <2>1
    <3>. HIDE DEF new
    <3>. QED BY <1>1, <1>3, <2>4, <3>1, <3>2, <3>3, NextPlay
  <2>6. TypeOK'
    BY <1>1, <1>2, <1>3, <2>1, <2>2 DEF IInv, TypeOK, Moment
  <2>7. OnTime'
    BY <1>2, <2>1 DEF OnTime
  <2>. QED BY <2>5, <2>6, <2>7 DEF IInv
<1>. QED BY <1>5, <1>6

LEMMA ConnectKeeps ==
  ASSUME IInv, Connect
  PROVE  IInv'
<1>1. wire' = <<Register>> /\ Register.kind = "register" /\ Register \in Frame
  BY DEF Connect, Register, Frame
<1>2. UNCHANGED <<shown, ahead, open, queue, stored, flushing, known, rows, faults, Now, OnScreen>>
  BY DEF Connect, player, server, Now, OnScreen
<1>3. Carried' = {}
  BY <1>1 DEF Carried
<1>4. Kept' \subseteq Kept
  BY <1>2, <1>3 DEF Kept
<1>5. OnTime'
  BY <1>1 DEF OnTime, Tells, Connect
<1>6. TypeOK'
  <2>1. alive' \in BOOLEAN /\ swept' \in BOOLEAN
    BY Zenon DEF Connect
  <2>2. socket' = "connected" /\ wire' \in Seq(Frame)
    BY <1>1 DEF Connect
  <2>. QED BY <1>2, <2>1, <2>2 DEF IInv, TypeOK
<1>. QED BY <1>2, <1>4, <1>5, <1>6, FewerRecords DEF IInv

LEMMA FlushTimerKeeps ==
  ASSUME IInv, FlushTimer
  PROVE  IInv'
<1>. DEFINE batch == PeekBatch(queue')
            frame == [kind |-> "plays", plays |-> batch]
<1>1. UNCHANGED <<shown, ahead, open, socket, alive, known, rows, swept, Now, OnScreen>>
  BY DEF FlushTimer, server, Now, OnScreen
<1>2. queue' = queue \ flushing /\ batch \subseteq queue'
  BY DEF FlushTimer, Acked, PeekBatch
<1>3. /\ queue' \subseteq Entry /\ stored' \subseteq Entry /\ stored' \subseteq queue \cup stored
      /\ faults' \in 0..MaxFaults
      /\ Cardinality(queue') <= MaxEntries /\ Cardinality(stored') <= MaxEntries
  <2>1. IsFiniteSet(queue) /\ Cardinality(queue) \in Nat /\ MaxEntries \in Nat
    BY RecordsAreFinite, FS_Subset, FS_CardinalityType, OfflinePlaysAssumption DEF Kept
  <2>2. Cardinality(queue') <= Cardinality(queue) /\ Cardinality(queue') \in Nat
    BY <1>2, <2>1, FS_Subset, FS_CardinalityType
  <2>3. (stored' = queue' \/ stored' = stored) /\ faults' \in 0..MaxFaults
    BY OfflinePlaysAssumption DEF FlushTimer, Persist, Trouble, IInv, TypeOK
  <2>4. /\ queue \subseteq Entry /\ stored \subseteq Entry
        /\ Cardinality(queue) <= MaxEntries /\ Cardinality(stored) <= MaxEntries
    BY DEF IInv, TypeOK
  <2>5. Cardinality(queue') <= MaxEntries
    BY <2>1, <2>2, <2>4
  <2>. QED BY <1>2, <2>3, <2>4, <2>5
<1>4. flushing' \in {{}, batch}
  BY DEF FlushTimer, Flush
<1>5. wire' = wire \/ (wire' = Append(wire, frame) /\ alive)
  <2>1. wire' = wire \/ wire' = Emit(wire, <<frame>>)
    BY DEF FlushTimer, Flush
  <2>2. wire \o <<frame>> = Append(wire, frame)
    BY DEF IInv, TypeOK
  <2>. HIDE DEF frame
  <2>3. CASE alive
    BY <2>1, <2>2, <2>3 DEF Emit
  <2>4. CASE ~alive
    <3>1. Emit(wire, <<frame>>) = wire
      BY <2>4 DEF Emit
    <3>. QED BY <2>1, <3>1
  <2>. QED BY <2>3, <2>4
<1>6. frame \in Frame /\ wire \in Seq(Frame) /\ frame.kind = "plays"
  BY <1>2, <1>3 DEF Frame, IInv, TypeOK
<1>7. wire' \in Seq(Frame)
  BY <1>5, <1>6
<1>8. \A k \in DOMAIN wire' : (k \in DOMAIN wire /\ wire'[k] = wire[k]) \/ wire'[k] = frame
  BY <1>5, <1>6
<1>9. Carried' \subseteq Carried \cup batch
  BY <1>8 DEF Carried
<1>. HIDE DEF batch
<1>10. Kept' \subseteq Kept
  BY <1>2, <1>3, <1>4, <1>9 DEF Kept
<1>11. OnTime'
  <2>1. ~alive' => wire' = <<>>
    BY <1>1, <1>5 DEF IInv, OnTime
  <2>2. \A k \in DOMAIN wire' : Tells(k)' \/ wire'[k].kind = "start" =>
          k \in DOMAIN wire /\ wire'[k] = wire[k] /\ Tells(k)
    BY <1>6, <1>8 DEF Tells
  <2>. QED BY <1>1, <2>1, <2>2 DEF IInv, OnTime
<1>12. TypeOK'
  BY <1>1, <1>2, <1>3, <1>4, <1>7 DEF IInv, TypeOK
<1>. QED BY <1>1, <1>10, <1>11, <1>12, FewerRecords DEF IInv

LEMMA RegisteredKeeps ==
  ASSUME IInv, Registered
  PROVE  IInv'
<1>. DEFINE batch == PeekBatch(queue)
            frame == [kind |-> "plays", plays |-> batch]
<1>1. UNCHANGED <<shown, ahead, open, queue, stored, alive, rows, swept, faults, Now, OnScreen>>
  BY DEF Registered, Now, OnScreen
<1>2. batch \subseteq queue /\ flushing' \in {flushing, batch}
  BY DEF Registered, PeekBatch
<1>3. /\ wire \in Seq(Frame) /\ wire # <<>> /\ Head(wire) = wire[1] /\ wire[1].kind = "register"
      /\ frame \in Frame /\ frame.kind = "plays" /\ frame.plays = batch
  BY <1>2 DEF IInv, TypeOK, Frame, Registered, Register
<1>4. wire' = Tail(wire) \/ wire' = Append(Tail(wire), frame)
  BY DEF Registered
<1>. HIDE DEF frame
<1>5. /\ wire' \in Seq(Frame)
      /\ \A k \in DOMAIN wire' :
           (k + 1 \in DOMAIN wire /\ wire'[k] = wire[k + 1]) \/ wire'[k] = frame
  BY <1>3, <1>4
<1>6. Carried' \subseteq Carried \cup batch
  BY <1>3, <1>5 DEF Carried
<1>. HIDE DEF batch
<1>7. Kept' \subseteq Kept
  BY <1>1, <1>2, <1>6 DEF Kept
<1>8. alive
  BY <1>3 DEF IInv, OnTime
<1>9. OnTime'
  <2>1. \A k \in DOMAIN wire' : Tells(k)' \/ wire'[k].kind = "start" =>
          k + 1 \in DOMAIN wire /\ wire'[k] = wire[k + 1] /\ Tells(k + 1)
    BY <1>3, <1>5 DEF Tells
  <2>2. alive'
    BY <1>1, <1>8
  <2>3. \A k \in DOMAIN wire' : k \in Int
    BY <1>5
  <2>. QED BY <1>1, <2>1, <2>2, <2>3 DEF IInv, OnTime
<1>10. TypeOK'
  <2>1. socket' = "registered" /\ known' \in {NoPlay, known}
    BY DEF Registered
  <2>2. NoPlay \in Moment
    BY OfflinePlaysAssumption DEF NoPlay, Moment
  <2>. QED BY <1>1, <1>2, <1>5, <2>1, <2>2 DEF IInv, TypeOK
<1>. QED BY <1>1, <1>7, <1>9, <1>10, FewerRecords DEF IInv

LEMMA ReceiveKeeps ==
  ASSUME IInv, Receive
  PROVE  IInv'
<1>1. wire # <<>> /\ wire' = Tail(wire) /\ UNCHANGED <<player, alive, socket, faults>>
  BY DEF Receive
<1>2. UNCHANGED <<shown, ahead, open, queue, stored, flushing, Now, OnScreen>>
  BY <1>1 DEF player, Now, OnScreen
<1>3. /\ wire' \in Seq(Frame) /\ Head(wire) = wire[1] /\ 1 \in DOMAIN wire /\ OnScreen \in Moment
      /\ \A k \in DOMAIN wire' : k \in Int /\ k >= 1 /\ k + 1 \in DOMAIN wire /\ wire'[k] = wire[k + 1]
  BY <1>1, TailKeeps, ScreenType DEF IInv, TypeOK, Tick, Moment
<1>4. alive'
  BY <1>1 DEF IInv, OnTime
<1>5. ASSUME Sound(rows)', Faithful(Records(rows))', Apart(rows)', known' \in Moment,
             wire[1].kind = "start" \/ NoneOnScreen
      PROVE  IInv'
  <2>1. OnTime'
    <3>1. ASSUME NEW k \in DOMAIN wire', Tells(k)' \/ wire'[k].kind = "start"
          PROVE  k + 1 \in DOMAIN wire /\ wire'[k] = wire[k + 1] /\ Tells(k + 1)
                 /\ wire[1].kind # "start"
      <4>1. k + 1 \in DOMAIN wire /\ wire'[k] = wire[k + 1] /\ Tells(k + 1) /\ k >= 1 /\ k \in Int
        BY <1>3, <3>1 DEF Tells
      <4>. QED BY <1>3, <4>1 DEF IInv, OnTime
    <3>2. \A k \in DOMAIN wire' : Tells(k)' => open' # OnScreen' /\ \A r \in rows' : r.play # OnScreen'
      BY <1>2, <1>3, <1>5, <3>1 DEF IInv, OnTime, NoneOnScreen
    <3>3. \A k \in DOMAIN wire' : wire'[k].kind = "start" =>
            wire'[k].play = OnScreen' /\ \A j \in DOMAIN wire' : Tells(j)' => j <= k
      BY <1>2, <1>3, <3>1 DEF IInv, OnTime
    <3>. QED BY <1>4, <3>2, <3>3 DEF OnTime
  <2>2. swept' \in BOOLEAN
    BY Zenon DEF Receive, PlayStart, PlayEnd, PlayOffline, IInv, TypeOK
  <2>3. TypeOK'
    BY <1>1, <1>2, <1>3, <1>5, <2>2 DEF IInv, TypeOK, Sound
  <2>. QED BY <1>2, <1>5, <2>1, <2>3 DEF IInv, Dated
<1>6. CASE Head(wire).kind = "start" /\ PlayStart(Head(wire).play)
  <2>1. known' \in Moment
    BY <1>1, <1>3, <1>6, PlayStartKeeps
  <2>. QED BY <1>1, <1>3, <1>5, <1>6, <2>1, PlayStartKeeps
<1>7. CASE Head(wire).kind = "end" /\ PlayEnd(Head(wire).play)
  <2>1. known' \in Moment
    BY <1>7, OfflinePlaysAssumption DEF PlayEnd, Moment, NoPlay
  <2>. QED BY <1>1, <1>5, <1>7, <2>1, PlayEndKeeps
<1>8. CASE Head(wire).kind = "plays" /\ PlayOffline(Head(wire).plays)
  <2>1. known' \in Moment
    BY <1>8 DEF PlayOffline, IInv, TypeOK
  <2>. QED BY <1>1, <1>5, <1>8, <2>1, PlayOfflineKeeps
<1>. QED BY <1>6, <1>7, <1>8 DEF Receive

\* A dead link, a refused register and a restarted server take only what is under
\* way or remembered.
LEMMA NothingUnderWay ==
  ASSUME IInv, wire' = <<>>, UNCHANGED <<player, rows>>, socket' \in {"down", socket},
         alive' \in BOOLEAN, swept' = swept, known' \in {NoPlay, known}, faults' \in 0..MaxFaults
  PROVE  IInv'
<1>1. UNCHANGED <<shown, ahead, open, queue, stored, flushing, Now>>
  BY DEF player, Now
<1>2. Carried' = {} /\ OnTime'
  BY DEF Carried, OnTime
<1>3. Kept' \subseteq Kept
  BY <1>1, <1>2 DEF Kept
<1>4. NoPlay \in Moment /\ <<>> \in Seq(Frame)
  BY OfflinePlaysAssumption DEF NoPlay, Moment
<1>5. TypeOK'
  BY <1>1, <1>4 DEF IInv, TypeOK
<1>. QED BY <1>1, <1>2, <1>3, <1>5, FewerRecords DEF IInv

LEMMA PlayerRestartKeeps ==
  ASSUME IInv, PlayerRestart
  PROVE  IInv'
<1>1. PICK i \in Items : Begins(i)
  BY DEF PlayerRestart
<1>2. /\ UNCHANGED <<ahead, stored, known, rows, swept>> /\ queue' = stored /\ flushing' = {}
      /\ wire' = <<>> /\ open' = Now + 1 /\ Now < MaxTicks /\ socket' = "down"
  BY DEF PlayerRestart, server
<1>3. /\ Now \in Nat /\ Now' = Now + 1 /\ shown' \in Seq([item: Items, play: Tick])
      /\ MaxTicks \in Nat
  <2>1. Now \in Nat /\ MaxTicks \in Nat
    BY ScreenType, OfflinePlaysAssumption
  <2>2. Now < MaxTicks /\ Begins(i)
    BY <1>1, <1>2
  <2>. QED BY <2>1, <2>2, BeginsType
<1>4. Carried' = {} /\ OnTime' /\ <<>> \in Seq(Frame)
  BY <1>2 DEF Carried, OnTime
<1>5. Kept' \subseteq Kept \cup {}
  BY <1>2, <1>4 DEF Kept
<1>6. alive' \in BOOLEAN
  BY Zenon DEF PlayerRestart
<1>7. faults' \in 0..MaxFaults
  BY OfflinePlaysAssumption DEF PlayerRestart, Trouble, IInv, TypeOK
<1>8. TypeOK'
  BY <1>2, <1>3, <1>4, <1>6, <1>7 DEF IInv, TypeOK, Moment
<1>9. Sound(rows)' /\ Faithful(Records(rows))' /\ Apart(rows)' /\ Dated'
  <2>1. {} \in SUBSET {[start |-> open, end |-> Now + 1]}
    OBVIOUS
  <2>. QED BY <1>1, <1>2, <1>5, <2>1, NextPlay
<1>. QED BY <1>4, <1>8, <1>9 DEF IInv

LEMMA StepKeeps ==
  ASSUME IInv, [Next]_vars
  PROVE  IInv'
<1>1. ASSUME NEW i \in Items, NextItem(i) PROVE IInv'
  BY <1>1, NextItemKeeps
<1>2. CASE StaysOn \/ Connect
  BY <1>2, StaysOnKeeps, ConnectKeeps
<1>3. CASE FlushTimer
  BY <1>3, FlushTimerKeeps
<1>4. CASE Receive
  BY <1>4, ReceiveKeeps
<1>5. CASE Registered
  BY <1>5, RegisteredKeeps
<1>6. CASE ExpireStranded
  <2>1. UNCHANGED <<shown, ahead, open, queue, stored, flushing, Now, OnScreen, socket, alive, wire,
                    known, swept, faults>>
    BY <1>6 DEF ExpireStranded, player, Now, OnScreen
  <2>2. Sound(rows)' /\ Faithful(Records(rows))' /\ Apart(rows)'
    BY <1>6, ExpireKeeps
  <2>3. \A r \in rows' : \E s \in rows : r.play = s.play
    BY <1>6 DEF ExpireStranded, Closed, IInv, Sound, Row
  <2>4. OnTime'
    BY <2>1, <2>3 DEF IInv, OnTime, Tells
  <2>5. TypeOK'
    BY <2>1, <2>2 DEF IInv, TypeOK, Sound
  <2>. QED BY <2>1, <2>2, <2>4, <2>5 DEF IInv, Dated
<1>7. CASE LinkDies \/ Refused \/ ServerRestart
  <2>1. faults' \in 0..MaxFaults
    BY <1>7, OfflinePlaysAssumption DEF LinkDies, Refused, ServerRestart, Trouble, IInv, TypeOK
  <2>2. alive' \in BOOLEAN
    BY <1>7, Zenon DEF LinkDies, Refused, ServerRestart
  <2>3. /\ wire' = <<>> /\ UNCHANGED <<player, rows>> /\ socket' \in {"down", socket}
        /\ swept' = swept /\ known' \in {NoPlay, known}
    BY <1>7 DEF LinkDies, Refused, ServerRestart, server
  <2>. QED BY <2>1, <2>2, <2>3, NothingUnderWay
<1>8. CASE Disconnected
  <2>1. wire' = <<>> /\ alive' \in BOOLEAN /\ swept' = swept /\ faults' \in 0..MaxFaults
    BY <1>8 DEF Disconnected, IInv, OnTime, TypeOK
  <2>2. UNCHANGED <<player, rows, known>> /\ socket' \in {"down", socket}
    BY <1>8 DEF Disconnected, server
  <2>. QED BY <2>1, <2>2, NothingUnderWay
<1>9. CASE PlayerRestart
  BY <1>9, PlayerRestartKeeps
<1>10. CASE UNCHANGED vars
  <2>1. UNCHANGED <<shown, ahead, open, queue, stored, flushing, Now, OnScreen, socket, alive, wire,
                    known, swept, faults, rows, Carried>>
    BY <1>10 DEF vars, player, server, Now, OnScreen, Carried
  <2>2. TypeOK' /\ OnTime'
    BY <2>1 DEF IInv, TypeOK, OnTime, Tells
  <2>3. Kept' \subseteq Kept
    BY <2>1 DEF Kept
  <2>. QED BY <2>1, <2>2, <2>3, FewerRecords DEF IInv
<1>. QED BY <1>1, <1>2, <1>3, <1>4, <1>5, <1>6, <1>7, <1>8, <1>9, <1>10 DEF Next

-----------------------------------------------------------------------------
\* The variables keep their types: the queue never outgrows its capacity.
THEOREM TypeCorrect == Spec => []TypeOK
<1>1. IInv => TypeOK
  BY DEF IInv
<1>. QED BY <1>1, InitHolds, StepKeeps, PTL DEF Spec

\* A play has one row (INSERT OR IGNORE by client_event_id, and the two ways to
\* report a play exclude each other).
THEOREM OneRowAPlay == Spec => []CountedOnce
<1>1. IInv => CountedOnce
  BY DEF IInv, Sound, CountedOnce
<1>. QED BY <1>1, InitHolds, StepKeeps, PTL DEF Spec

\* The row of the play on screen is open, unless the play has outlasted its ceiling
\* or a panel whose clock is ahead dated an earlier play after it, for every ceiling,
\* lead of that clock and skew.
THEOREM OnScreenIsOpen == Spec => []PlayingStaysOpen
<1>1. IInv => PlayingStaysOpen
  BY DEF IInv, Sound, Excused, PlayingStaysOpen
<1>. QED BY <1>1, InitHolds, StepKeeps, PTL DEF Spec

\* A queued play leaves the queue only in a batch that was sent, or evicted by a
\* newer one.
THEOREM LeavesSentOrEvicted == Spec => OnlySentLeave
<1>. DEFINE Leaves == \A e \in queue \ queue' :
                        \/ PlayerRestart
                        \/ e \in flushing
                        \/ Cardinality(queue) = MaxEntries /\ e \in Oldest(queue) /\ queue' \ queue # {}
<1>1. ASSUME IInv, [Next]_vars, ~UNCHANGED vars PROVE Leaves
  <2>1. ASSUME NEW i \in Items, NextItem(i) PROVE Leaves
    <3>1. CASE queue' = queue
      BY <3>1
    <3>2. CASE queue' # queue
      <4>. DEFINE e == [start |-> open, end |-> Now + 1]
      <4>1. queue' = Added(queue, e) /\ open # NoPlay
        <5>1. CASE Up
          BY <2>1, <3>2, <5>1 DEF NextItem
        <5>2. CASE ~Up
          BY <2>1, <3>2, <5>2 DEF NextItem
        <5>. QED BY <5>1, <5>2
      <4>2. Cardinality(queue) <= MaxEntries /\ Cardinality(queue) \in Nat /\ MaxEntries \in Nat
        BY <1>1, OfflinePlaysAssumption, RecordsAreFinite, FS_Subset, FS_CardinalityType
           DEF IInv, TypeOK, Kept
      <4>3. e \notin queue
        <5>1. queue \subseteq Records(rows)
          BY DEF Records, Kept
        <5>2. \A f \in Records(rows) : f.start # open
          BY <1>1 DEF IInv, Faithful
        <5>. QED BY <5>1, <5>2
      <4>4. e \in queue'
        BY <4>1 DEF Added
      <4>. HIDE DEF e
      <4>5. CASE Cardinality(queue) < MaxEntries
        BY <4>1, <4>5 DEF Added
      <4>6. CASE Cardinality(queue) = MaxEntries
        BY <4>1, <4>3, <4>4, <4>6 DEF Added
      <4>. QED BY <4>2, <4>5, <4>6
    <3>. QED BY <3>1, <3>2
  <2>2. CASE FlushTimer
    BY <2>2 DEF FlushTimer, Acked
  <2>3. CASE PlayerRestart
    BY <2>3
  <2>4. CASE StaysOn \/ Connect \/ Receive \/ Registered \/ ExpireStranded \/ LinkDies \/ Disconnected
             \/ Refused \/ ServerRestart
    BY <2>4 DEF StaysOn, Connect, Receive, Registered, ExpireStranded, LinkDies, Disconnected,
                Refused, ServerRestart, player
  <2>. QED BY <1>1, <2>1, <2>2, <2>3, <2>4 DEF Next
<1>2. IInv /\ [Next]_vars => [Leaves]_vars
  BY <1>1
<1>. QED BY <1>2, InitHolds, StepKeeps, PTL DEF Spec, OnlySentLeave
=============================================================================
