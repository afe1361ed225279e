----------------------------- MODULE PlayReport -----------------------------
(***************************************************************************)
(* Reports read proof of play across the seam between the aggregate and    *)
(* the raw rows (lib/play-report.js hourlyRows).  A report is a read that  *)
(* can run in any state of the rollup; it takes the hours below the oldest *)
(* raw row from the aggregate and everything else from raw.                *)
(***************************************************************************)
EXTENDS PlayRollup

\* hour_utc < split: the first second of hour h is before the oldest raw row.
BeforeRaw(h) == \A r \in raw : h < r.hour \/ (h = r.hour /\ 0 < r.min)

\* The rollup side and the raw side of a report that starts with hour s.
FromRollup(s) == {r \in agg : s <= r.hour /\ BeforeRaw(r.hour)}
FromRaw(s) == {r \in raw : s <= r.hour}

\* What a report counts.
Plays(rows) == {r.play : r \in rows}

-----------------------------------------------------------------------------
\* "a range spanning the seam counts every play exactly once"
\* (test/play-rollup.test.js): between sweeps, with nothing queued, no play is on
\* both sides.  The oldest raw row's own hour starts before that row, so it is on
\* both, unless the row falls on the first second of the hour.
SeamCountsOnce ==
  phase = "idle" /\ repaired /\ dirty = {} =>
    \A s \in Hour : Plays(FromRollup(s)) \cap Plays(FromRaw(s)) = {}
=============================================================================
