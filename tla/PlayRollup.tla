----------------------------- MODULE PlayRollup -----------------------------
(***************************************************************************)
(* Proof of play: raw play rows, their hourly aggregate, and the prune.    *)
(*                                                                         *)
(* Players write one row of play_logs per play (ws/deviceSocket.js).       *)
(* Every maintenance sweep (services/heartbeat.js runMaintenance) first    *)
(* aggregates complete hours into play_log_hourly and recomputes the hours *)
(* that changed afterwards (services/play-rollup.js), then deletes raw     *)
(* rows past retention.  Triggers on play_logs (db/database.js) record     *)
(* which rolled-up hours a write has made stale.                           *)
(*                                                                         *)
(* The rollup is one synchronous pass of several transactions, so the only *)
(* thing that interrupts it is an exception or a crash; the prune yields   *)
(* between batches and the writers run there.                              *)
(*                                                                         *)
(* Abstractions.  Time is an hour index and a minute within it.  The       *)
(* aggregate of a group (device, content, hour) is the set of rows it was  *)
(* computed from: play_count and duration_sec are functions of that set,   *)
(* and "ended" stands for the duration a row has once it is closed.        *)
(***************************************************************************)
EXTENDS Integers, FiniteSets, FiniteSetsExt

CONSTANTS Play,         \* identities of play rows
          Device,
          Content,
          NoContent,    \* content_id NULL: a deleted item, or none
          Start,        \* the hour at which the model starts
          MaxHour,      \* bound: the last hour the clock reaches
          Minutes,      \* positions within an hour; 0 is its first second
          Retention,    \* PLAY_LOG_RETENTION_DAYS, in whole hours
          MaxAge,       \* BACKFILL_MAX_AGE_SEC, in hours
          CatchUp,      \* rollupOnce's maxHours (48)
          RerollMax,    \* rerollDirty's maxHours (24)
          Batch         \* STATUS_LOG_PRUNE_BATCH

ASSUME RollupAssumption ==
         /\ MaxHour \in Nat /\ Start \in 2..MaxHour
         /\ Retention \in Nat /\ MaxAge \in Nat
         /\ CatchUp \in Nat \ {0, 1} /\ RerollMax \in Nat \ {0} /\ Batch \in Nat \ {0}
         /\ Minutes \subseteq Nat
         /\ NoContent \notin Content \cup Device /\ Device \cap Content = {}

Hour == 1..MaxHour

Row == [play: Play, device: Device, content: Content \cup {NoContent},
        hour: Hour, min: Minutes, ended: BOOLEAN]

VARIABLES now,      \* the hour in progress
          known,    \* the devices and content that have not been deleted
          raw,      \* play_logs
          agg,      \* play_log_hourly
          wm,       \* rolled_through_hour, 0 on a database that never rolled up
          floor,    \* raw_floor_hour, 0 before the first prune
          dirty,    \* play_log_rollup_dirty
          repaired, \* the repair's row in schema_migrations
          checked,  \* _repairChecked, in memory
          phase,    \* where the sweep is
          at,       \* the forward pass's next hour
          left,     \* hours the current pass may still do
          cut       \* the cutoff of the running prune

disk == <<known, raw, agg, wm, floor, dirty, repaired>>
sweep == <<checked, phase, at, left, cut>>
vars == <<now, disk, sweep>>

\* "idle": between sweeps, or elsewhere in one.  "pause": the prune has yielded.
Phase == {"idle", "from", "roll", "reroll", "prune", "delete", "pause"}

TypeOK ==
  /\ now \in Hour /\ known \subseteq Device \cup Content /\ raw \subseteq Row /\ agg \subseteq Row
  /\ wm \in 0..MaxHour /\ floor \in 0..MaxHour + 1 /\ dirty \subseteq Hour
  /\ repaired \in BOOLEAN /\ checked \in BOOLEAN /\ phase \in Phase
  /\ at \in 0..MaxHour + 1 /\ left \in Nat /\ cut \in 0..MaxHour + 1

InHour(rows, h) == {r \in rows : r.hour = h}
Hours(rows) == {r.hour : r \in rows}
IsOldest(h) == h \in Hours(raw) /\ \A r \in raw : h <= r.hour
SameGroup(r, s) == r.hour = s.hour /\ r.device = s.device /\ r.content = s.content

(***************************************************************************)
(* Initial states: a new database, or one this version is upgrading.  The  *)
(* old rollup had no triggers, so its aggregate may disagree with raw      *)
(* anywhere, and the old prune stopped in the middle of an hour.           *)
(***************************************************************************)
\* Every table of at most one row per play with hours in H.
Tables(H) ==
  UNION {{{[play |-> p, device |-> f[p].device, content |-> f[p].content, hour |-> f[p].hour,
            min |-> f[p].min, ended |-> f[p].ended] : p \in S} :
          f \in [S -> [device: Device, content: Content, hour: H, min: Minutes, ended: BOOLEAN]]} :
         S \in SUBSET Play}

NewDatabase == wm = 0 /\ raw = {} /\ agg = {}
Upgraded == wm \in 0..now - 1 /\ raw \in Tables(1..now) /\ agg \in Tables(1..wm)

Init ==
  /\ now = Start /\ known = Device \cup Content /\ (NewDatabase \/ Upgraded)
  /\ floor = 0 /\ dirty = {} /\ repaired = FALSE
  /\ checked = FALSE /\ phase = "idle" /\ at = 0 /\ left = 0 /\ cut = 0

(***************************************************************************)
(* The triggers.  ins and upd mark every hour up to the watermark; del     *)
(* only from the raw floor, below which it is the prune that deletes.      *)
(***************************************************************************)

\* Mutant: a write to the watermark's own hour does not count as late.
StaleBelow(hs) == {h \in hs : h < wm}

Stale(hs) == {h \in hs : h <= wm}
StaleByDelete(hs) == {h \in hs : floor <= h /\ h <= wm}

(***************************************************************************)
(* Writers.  The event loop runs them between sweeps and where the prune   *)
(* yields.                                                                 *)
(***************************************************************************)
Yielded == phase \in {"idle", "pause"}
Fresh(p) == p \notin {r.play : r \in raw \cup agg}

\* play_start opens a row (_insertPlay); play_offline inserts a row of the
\* past (_insertBackfillPlay), within the age limit and the clock skew.
Insert(p, d, c, h, m, e) ==
  /\ Yielded /\ Fresh(p) /\ {d, c} \subseteq known \cup {NoContent}
  /\ \/ h = now /\ ~e
     \/ h \in now - MaxAge..now + 1
  /\ raw' = raw \cup {[play |-> p, device |-> d, content |-> c, hour |-> h, min |-> m, ended |-> e]}
  /\ dirty' = dirty \cup Stale({h})
  /\ UNCHANGED <<now, known, agg, wm, floor, repaired, sweep>>

\* _closePlayById, _closePlay and the stranded-play sweeps write duration_sec.
Close(r) ==
  /\ Yielded /\ ~r.ended
  /\ raw' = (raw \ {r}) \cup {[r EXCEPT !.ended = TRUE]}
  /\ dirty' = dirty \cup Stale({r.hour})
  /\ UNCHANGED <<now, known, agg, wm, floor, repaired, sweep>>

\* retractSkippedPlay: a skipped bundle was not a play.
Skip(r) ==
  /\ Yielded /\ ~r.ended
  /\ raw' = raw \ {r}
  /\ dirty' = dirty \cup StaleByDelete({r.hour})
  /\ UNCHANGED <<now, known, agg, wm, floor, repaired, sweep>>

\* A device delete cascades to its rows; its id never comes back.
DeleteDevice(d) ==
  LET gone == {r \in raw : r.device = d} IN
  /\ Yielded /\ d \in known /\ known' = known \ {d}
  /\ raw' = raw \ gone
  /\ dirty' = dirty \cup StaleByDelete(Hours(gone))
  /\ UNCHANGED <<now, agg, wm, floor, repaired, sweep>>

\* A content delete sets content_id NULL on its rows.
DeleteContent(c) ==
  LET moved == {r \in raw : r.content = c} IN
  /\ Yielded /\ c \in known /\ known' = known \ {c}
  /\ raw' = (raw \ moved) \cup {[r EXCEPT !.content = NoContent] : r \in moved}
  /\ dirty' = dirty \cup Stale(Hours(moved))
  /\ UNCHANGED <<now, agg, wm, floor, repaired, sweep>>

Write ==
  \/ \E p \in Play, d \in Device, c \in Content \cup {NoContent}, h \in Hour, m \in Minutes, e \in BOOLEAN :
       Insert(p, d, c, h, m, e)
  \/ \E r \in raw : Close(r) \/ Skip(r)
  \/ \E d \in Device : DeleteDevice(d)
  \/ \E c \in Content : DeleteContent(c)

Tick == Yielded /\ now < MaxHour /\ now' = now + 1 /\ UNCHANGED <<disk, sweep>>

(***************************************************************************)
(* repairOnce.  The flag is set before the transaction, so a repair that   *)
(* throws is not tried again before a restart.                             *)
(***************************************************************************)
\* initRawFloorFromLegacyPrune
LegacyFloor(f) ==
  IF floor > 0 THEN f = floor
  ELSE \/ \E h \in Hour : IsOldest(h) /\ f = h + 1
       \/ raw = {} /\ f = (IF wm > 0 THEN wm + 1 ELSE 0)

\* markAllForReroll
Marked(f) == {h \in Hour : f <= h /\ h <= wm}

Repair ==
  /\ phase = "idle" /\ ~checked
  /\ checked' = TRUE /\ phase' = "from"
  /\ IF repaired THEN UNCHANGED <<floor, dirty, repaired>>
     ELSE /\ LegacyFloor(floor')
          /\ dirty' = dirty \cup Marked(floor')
          /\ repaired' = TRUE
  /\ UNCHANGED <<now, known, raw, agg, wm, at, left, cut>>

RepairFails ==
  /\ phase = "idle" /\ ~checked /\ ~repaired
  /\ checked' = TRUE /\ phase' = "prune"
  /\ UNCHANGED <<now, disk, at, left, cut>>

(***************************************************************************)
(* rollupOnce: the forward pass, one transaction per complete hour, from   *)
(* the watermark's own hour.                                               *)
(***************************************************************************)
LastComplete == now - 1

NothingYet ==
  /\ wm = 0 /\ raw = {}
  /\ wm' = LastComplete /\ phase' = "prune"
  /\ UNCHANGED <<at, left>>

From ==
  /\ IF wm > 0 THEN at' = wm ELSE \E h \in Hour : IsOldest(h) /\ at' = h
  /\ phase' = "roll" /\ left' = CatchUp
  /\ UNCHANGED wm

Begin ==
  /\ phase = "from" \/ (phase = "idle" /\ checked)
  /\ NothingYet \/ From
  /\ UNCHANGED <<now, known, raw, agg, floor, dirty, repaired, checked, cut>>

MoreHours == at <= LastComplete /\ left > 0

\* _rollupHour: groups that raw still has replace their aggregate; a group raw
\* no longer has keeps it.
Upserted(h) ==
  {r \in agg : r.hour # h \/ \A s \in raw : ~SameGroup(r, s)} \cup InHour(raw, h)

RollHour ==
  /\ phase = "roll" /\ MoreHours
  /\ agg' = Upserted(at)
  /\ wm' = at /\ at' = at + 1 /\ left' = left - 1
  /\ UNCHANGED <<now, known, raw, floor, dirty, repaired, checked, phase, cut>>

Rolled ==
  /\ phase = "roll" /\ ~MoreHours
  /\ phase' = "reroll" /\ left' = RerollMax
  /\ UNCHANGED <<now, disk, checked, at, cut>>

(***************************************************************************)
(* rerollDirty: oldest first, at least one hour, until the time budget or  *)
(* maxHours is spent.  An hour that cannot be recomputed is dropped.       *)
(***************************************************************************)
\* Mutant: hours below the raw floor are recomputed too.
RecomputableBelow(h) == h <= wm

Recomputable(h) == floor <= h /\ h <= wm

\* _rerollHour deletes the hour first.
Recomputed(h) == {r \in agg : r.hour # h} \cup InHour(raw, h)

Reroll ==
  /\ phase = "reroll" /\ left > 0
  /\ \E h \in dirty :
       /\ \A k \in dirty : h <= k
       /\ agg' = IF Recomputable(h) THEN Recomputed(h) ELSE agg
       /\ dirty' = dirty \ {h}
  /\ left' = left - 1
  /\ UNCHANGED <<now, known, raw, wm, floor, repaired, checked, phase, at, cut>>

\* Mutant: the budget is looked at before the first hour too.
BudgetSpentAtOnce == TRUE

BudgetSpent == dirty = {} \/ left < RerollMax

Rerolled ==
  /\ phase = "reroll" /\ BudgetSpent
  /\ phase' = "prune"
  /\ UNCHANGED <<now, disk, checked, at, left, cut>>

\* An exception in the pass rolls its transaction back; runMaintenance goes on.
RollFails ==
  /\ phase \in {"from", "roll", "reroll"}
  /\ phase' = "prune"
  /\ UNCHANGED <<now, disk, checked, at, left, cut>>

(***************************************************************************)
(* prunePlayLogs                                                           *)
(***************************************************************************)
Earlier(a, b) == IF a < b THEN a ELSE b

\* Mutant: retention alone.
PrunableByAge == now - Retention

\* prunableBefore, in whole hours.
Prunable == Earlier(now - Retention, IF wm > 0 THEN wm + 1 ELSE 0)

PruneStart ==
  /\ phase = "prune" /\ Prunable > 0
  /\ cut' = Prunable
  /\ floor' = IF Prunable > floor THEN Prunable ELSE floor
  /\ phase' = "delete"
  /\ UNCHANGED <<now, known, raw, agg, wm, dirty, repaired, checked, at, left>>

NothingToPrune ==
  /\ phase = "prune" /\ Prunable <= 0
  /\ phase' = "idle"
  /\ UNCHANGED <<now, disk, checked, at, left, cut>>

NoLater(r, s) == r.hour < s.hour \/ (r.hour = s.hour /\ r.min <= s.min)
Aged == {r \in raw : r.hour < cut}

\* One statement of chunkedDelete, oldest rows first (it walks idx_play_logs_time).
\* It goes on, after a yield, while batches are full.
DeleteBatch ==
  /\ phase = "delete"
  /\ \E gone \in SUBSET Aged :
       /\ Cardinality(gone) <= Batch /\ (Cardinality(gone) = Batch \/ gone = Aged)
       /\ \A r \in gone, s \in Aged \ gone : NoLater(r, s)
       /\ raw' = raw \ gone
       /\ dirty' = dirty \cup StaleByDelete(Hours(gone))
       /\ phase' = IF Cardinality(gone) = Batch THEN "pause" ELSE "idle"
  /\ UNCHANGED <<now, known, agg, wm, floor, repaired, checked, at, left, cut>>

Resume ==
  /\ phase = "pause" /\ phase' = "delete"
  /\ UNCHANGED <<now, disk, checked, at, left, cut>>

PruneFails ==
  /\ phase = "delete" /\ phase' = "idle"
  /\ UNCHANGED <<now, disk, checked, at, left, cut>>

Crash ==
  /\ phase' = "idle" /\ checked' = FALSE /\ at' = 0 /\ left' = 0 /\ cut' = 0
  /\ UNCHANGED <<now, disk>>

Maintenance ==
  \/ Repair \/ Begin \/ RollHour \/ Rolled \/ Reroll \/ Rerolled
  \/ PruneStart \/ NothingToPrune \/ DeleteBatch \/ Resume

Failure == RepairFails \/ RollFails \/ PruneFails \/ Crash

Next == Write \/ Tick \/ Maintenance \/ Failure

Spec == Init /\ [][Next]_vars

\* The interval re-arms for as long as the process lives; nothing else is fair.
FairSpec == Spec /\ WF_vars(Maintenance)

\* A database that adopts the rollup: plays, but nothing rolled up before.
AdoptSpec == Init /\ wm = 0 /\ agg = {} /\ [][Next]_vars

-----------------------------------------------------------------------------
\* Every hour that is rolled up, can be recomputed and is not queued has exactly
\* the aggregate its raw rows give, whatever closes, late plays, retractions and
\* cascades came after it was rolled up and wherever the server crashed.
AggregateIsRaw ==
  repaired => \A h \in Hour : Recomputable(h) /\ h \notin dirty => InHour(agg, h) = InHour(raw, h)

\* "RAW IS NEVER PRUNED PAST THE WATERMARK" (play-rollup.js): the prune deletes no
\* row of an hour that no pass has aggregated, also when the rollup is behind,
\* threw, or was cut short by a crash after the cutoff was chosen.
NeverPastWatermark ==
  [][phase = "delete" => \A r \in raw \ raw' : r.hour <= wm]_vars

\* The aggregate of a pruned hour is the only record of it.  No later pass changes
\* it, except for the watermark's own hour: the forward pass restarts there, and a
\* prune that was cut short by a crash may have left only part of its rows.
OnlyCopyIsKept ==
  [][\A r \in agg : r.hour < floor /\ r.hour < wm => r \in agg']_vars

\* Once writers, exceptions and crashes stop, the sweeps roll up every complete
\* hour and drain the queue, one bounded pass after another.
Settled == dirty = {} /\ \A r \in raw : r.hour <= LastComplete => r.hour <= wm
Drains == <>[][Maintenance]_vars => <>[]Settled
=============================================================================
