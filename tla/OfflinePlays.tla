---------------------------- MODULE OfflinePlays ----------------------------
(***************************************************************************)
(* What one screen plays, from the screen to play_logs, with and without a *)
(* link: the web player's live reports and its queue of plays made offline *)
(* (player/index.html, lib/offline-play-queue.js), and the server's        *)
(* play-event handler (ws/deviceSocket.js, lib/play-backfill.js).          *)
(*                                                                         *)
(* The server's clock counts ticks.  A play is named after the tick in     *)
(* which it begins and lasts one or more.  A frame of a live link arrives  *)
(* within the tick it was sent in; what the panel stamps itself, the plays *)
(* made offline, is ahead of the server's clock by what the panel's is.    *)
(***************************************************************************)
EXTENDS Integers, Sequences, FiniteSets, FiniteSetsExt

CONSTANTS Items,       \* contents of the playlist
          MaxEntries,  \* MAX_ENTRIES of the queue
          Batch,       \* BATCH of a flush
          Allowed,     \* the ceiling of a content: the longest it may have run
          Skew,        \* BACKFILL_FUTURE_SKEW_SEC
          Leads,       \* by how much the panel's clock may be ahead (behind: negative)
          MaxTicks,    \* bound: the clock
          MaxFaults    \* bound: dead links, restarts, refused registers, full disks

ASSUME OfflinePlaysAssumption ==
         /\ MaxEntries \in Nat \ {0} /\ Batch \in Nat \ {0} /\ Allowed \in Nat \ {0}
         /\ Skew \in Nat /\ Leads \subseteq Int
         /\ MaxTicks \in Nat \ {0} /\ MaxFaults \in Nat

VARIABLES shown,     \* tick by tick, the play on screen and its content
          ahead,     \* by how much the panel's clock is
          socket,    \* the player's: "down", "connected"; "registered" once it was answered
          alive,     \* frames get through
          open,      \* offlinePlayOpen: the play begun offline, or NoPlay
          queue,     \* offlinePlays.entries, ordered by their ends
          stored,    \* what localStorage holds of it
          flushing,  \* the batch whose timer runs (offlinePlayFlushing), or {}
          wire,      \* frames to the server, in order
          known,     \* openPlayRow: the play whose row this process opened last, or NoPlay
          swept,     \* strandedSweepDone of the socket
          rows,      \* play_logs
          faults

player == <<shown, ahead, open, queue, stored, flushing>>
server == <<known, rows>>
vars == <<player, socket, alive, wire, server, swept, faults>>

NoPlay == 0
Now == Len(shown)
OnScreen == shown[Now].play
Tick == 1..MaxTicks
Moment == 0..MaxTicks

\* makePlay: a finished play, its stamps without `ahead'.  At most one is queued
\* in a tick, so `end' is also its client_event_id.
Entry == [start: Tick, end: Tick]
\* by: what ended the row, "none" while it is open.  start, end: as stamped.
\* id = 0: the play was reported live.  copy: how many rows the play had before,
\* as `rows' is a set.
Row == [play: Tick, start: Int, end: Int, id: Moment, copy: Nat, item: Items,
        by: {"none", "player", "search", "next", "ceiling"}]
Register == [kind |-> "register"]
Frame == {Register} \cup [kind: {"start", "end"}, play: Tick]
                    \cup [kind: {"plays"}, plays: SUBSET Entry]

TypeOK ==
  /\ shown \in Seq([item: Items, play: Tick]) /\ Now <= MaxTicks /\ ahead \in Leads
  /\ socket \in {"down", "connected", "registered"} /\ alive \in BOOLEAN
  /\ open \in Moment /\ queue \subseteq Entry /\ Cardinality(queue) <= MaxEntries
  /\ stored \subseteq Entry /\ Cardinality(stored) <= MaxEntries /\ flushing \subseteq Entry
  /\ wire \in Seq(Frame) /\ known \in Moment /\ swept \in BOOLEAN
  /\ rows \subseteq Row /\ faults \in 0..MaxFaults

\* The screen starts without a link, from its cache.
Init ==
  /\ \E i \in Items : shown = <<[item |-> i, play |-> 1]>>
  /\ ahead \in Leads
  /\ socket = "down" /\ alive = FALSE /\ open = 1
  /\ queue = {} /\ stored = {} /\ flushing = {} /\ wire = <<>>
  /\ known = NoPlay /\ swept = FALSE /\ rows = {} /\ faults = 0

-----------------------------------------------------------------------------
(* The player.                                                             *)

Up == socket # "down"
Emit(w, frames) == IF alive THEN w \o frames ELSE w

Older(q, e) == {f \in q : f.end < e.end}
Oldest(q) == {e \in q : Older(q, e) = {}}

\* add: past the cap the oldest entry goes.
Added(q, e) == (IF Cardinality(q) < MaxEntries THEN q ELSE q \ Oldest(q)) \cup {e}

AckedByCount(q, batch) ==   \* mutant: "remove the first N"
  {e \in q : Cardinality(Older(q, e)) >= Cardinality(batch)}

\* ack: by id, not by count.
Acked(q, batch) == q \ batch

PeekBatch(q) == {e \in q : Cardinality(Older(q, e)) < Batch}

\* persistOfflinePlays: a full or absent localStorage is ignored.
Trouble == faults < MaxFaults /\ faults' = faults + 1
Persist == \/ stored' = queue' /\ UNCHANGED faults
           \/ UNCHANGED stored /\ Trouble

FlushNoMore(q, canSend) == flushing' = {} /\ UNCHANGED wire   \* mutant: one batch a connection

\* flushOfflinePlays, once nothing is being flushed.
Flush(q, canSend) ==
  IF canSend /\ q # {}
  THEN /\ flushing' = PeekBatch(q)
       /\ wire' = Emit(wire, <<[kind |-> "plays", plays |-> PeekBatch(q)]>>)
  ELSE flushing' = {} /\ UNCHANGED wire

\* nextItem and playCurrentItem.  Offline, the play that was begun offline is
\* queued whole; online, its end and the next start are told.
Begins(i) == shown' = Append(shown, [item |-> i, play |-> Now + 1])
TimePasses == Now < MaxTicks /\ (alive => wire = <<>>)

NextItem(i) ==
  /\ TimePasses /\ Begins(i)
  /\ IF Up
     THEN /\ wire' = Emit(wire, <<[kind |-> "end", play |-> OnScreen],
                                  [kind |-> "start", play |-> Now + 1]>>)
          /\ UNCHANGED <<open, queue, stored, faults>>
     ELSE /\ open' = Now + 1
          /\ IF open # NoPlay
             THEN queue' = Added(queue, [start |-> open, end |-> Now + 1]) /\ Persist
             ELSE UNCHANGED <<queue, stored, faults>>
          /\ UNCHANGED wire
  /\ UNCHANGED <<ahead, socket, alive, flushing, server, swept>>

\* A play may last, longer than its ceiling too: a widget's or an image's dwell.
StaysOn ==
  /\ TimePasses /\ shown' = Append(shown, shown[Now])
  /\ UNCHANGED <<ahead, open, queue, stored, flushing, socket, alive, wire, server, swept, faults>>

Connect ==
  /\ socket = "down"
  /\ socket' = "connected" /\ alive' = TRUE /\ wire' = <<Register>> /\ swept' = FALSE
  /\ UNCHANGED <<player, server, faults>>

\* Four seconds after a flush, whatever became of it; the server's answer is
\* only logged.
FlushTimer ==
  /\ flushing # {}
  /\ queue' = Acked(queue, flushing) /\ Persist
  /\ Flush(queue', Up)
  /\ UNCHANGED <<shown, ahead, open, socket, alive, server, swept>>

-----------------------------------------------------------------------------
(* The server.                                                             *)

ItemOf(n) == shown[n].item
IsOpen(r) == r.by = "none"
Closed(r, t, by) == [r EXCEPT !.end = t, !.by = by]

SuccessorsOrSelf(rs, r) ==   \* mutant: the row is among its successors
  {s.start : s \in {x \in rs : r.start <= x.start /\ x.start <= r.start + Allowed}}

\* closeStrandedPlays: an open row ends where the next row of the screen starts,
\* if its content may have run that long.
Successors(rs, r) == {s.start : s \in {x \in rs : r.start < x.start /\ x.start <= r.start + Allowed}}
Bounded(rs, r) ==
  IF IsOpen(r) /\ Successors(rs, r) # {} THEN Closed(r, Min(Successors(rs, r)), "next") ELSE r
Sweep(rs) == {Bounded(rs, r) : r \in rs}

Copies(n) == Cardinality({r \in rows : r.play = n})
LiveRow(n) == [play |-> n, start |-> Now, end |-> 0, id |-> 0, copy |-> Copies(n),
               item |-> ItemOf(n), by |-> "none"]

\* play_start: a row, remembered; the first one of a connection sweeps.
PlayStart(n) ==
  /\ known' = n /\ swept' = TRUE
  /\ LET rs == rows \cup {LiveRow(n)} IN rows' = IF swept THEN rs ELSE Sweep(rs)

\* takeOpenPlay, else _closePlay: the screen's last open row of that content.
PlayEnd(n) ==
  LET mine == {r \in rows : IsOpen(r) /\ r.item = ItemOf(n)}
      taken == known # NoPlay /\ ItemOf(known) = ItemOf(n)
      latest == {r \in mine : \A s \in mine : s.start <= r.start}
      found == IF taken THEN {r \in mine : r.play = known} ELSE latest
      by == IF taken THEN "player" ELSE "search"
  IN /\ \/ found = {} /\ UNCHANGED rows
        \/ \E r \in found : rows' = (rows \ {r}) \cup {Closed(r, Now, by)}
     /\ known' = NoPlay /\ UNCHANGED swept

\* normalizeBackfillPlay: a play that starts later than Skew from now is dropped,
\* one that only ends later is stored open.
InTime(stamp) == stamp <= Now + Skew
BackfillRow(e) ==
  LET ended == InTime(e.end + ahead) IN
  [play |-> e.start, start |-> e.start + ahead, end |-> IF ended THEN e.end + ahead ELSE 0,
   id |-> e.end, copy |-> Copies(e.start), item |-> ItemOf(e.start),
   by |-> IF ended THEN "player" ELSE "none"]
Accepted(plays) == {e \in plays : InTime(e.start + ahead)}

InsertedAgain(plays) == rows \cup {BackfillRow(e) : e \in Accepted(plays)}   \* mutant: a plain INSERT

Inserted(plays) ==
  rows \cup {BackfillRow(e) : e \in {p \in Accepted(plays) : \A r \in rows : r.id # p.end}}

\* play_offline: whole rows, and then the sweep.
PlayOffline(plays) == rows' = Sweep(Inserted(plays)) /\ UNCHANGED <<known, swept>>

Receive ==
  /\ wire # <<>> /\ Head(wire) # Register /\ wire' = Tail(wire)
  /\ \/ Head(wire).kind = "start" /\ PlayStart(Head(wire).play)
     \/ Head(wire).kind = "end" /\ PlayEnd(Head(wire).play)
     \/ Head(wire).kind = "plays" /\ PlayOffline(Head(wire).plays)
  /\ UNCHANGED <<player, socket, alive, faults>>

\* The register is accepted.  The server saw the screen's old socket close and
\* forgot its row, or evicts that socket now, whose close forgets nothing.  The
\* answer makes the player flush.
Registered ==
  /\ wire # <<>> /\ Head(wire) = Register
  /\ socket' = "registered" /\ known' \in {NoPlay, known}
  /\ IF flushing = {} /\ queue # {}
     THEN /\ flushing' = PeekBatch(queue)
          /\ wire' = Append(Tail(wire), [kind |-> "plays", plays |-> PeekBatch(queue)])
     ELSE wire' = Tail(wire) /\ UNCHANGED flushing
  /\ UNCHANGED <<shown, ahead, open, queue, stored, alive, rows, swept, faults>>

\* The sweep of services/heartbeat.js: rows open past their ceiling end there.
Overdue(r) == IsOpen(r) /\ r.start + Allowed < Now
ExpireStranded ==
  /\ \E r \in rows : Overdue(r)
  /\ rows' = {IF Overdue(r) THEN Closed(r, r.start + Allowed, "ceiling") ELSE r : r \in rows}
  /\ UNCHANGED <<player, socket, alive, wire, known, swept, faults>>

-----------------------------------------------------------------------------
(* Faults.                                                                 *)

\* What was on its way is lost; the player does not know yet.
LinkDies ==
  /\ alive /\ Trouble /\ alive' = FALSE /\ wire' = <<>>
  /\ UNCHANGED <<player, socket, server, swept>>

Disconnected ==
  /\ Up /\ ~alive /\ socket' = "down"
  /\ UNCHANGED <<player, alive, wire, server, swept, faults>>

\* A limiter refuses the register and closes the socket.
Refused ==
  /\ wire # <<>> /\ Head(wire) = Register /\ Trouble
  /\ socket' = "down" /\ alive' = FALSE /\ wire' = <<>>
  /\ UNCHANGED <<player, server, swept>>

\* The page loads again: only the stored queue is left of it.
PlayerRestart ==
  /\ Now < MaxTicks /\ Trouble
  /\ \E i \in Items : Begins(i)
  /\ open' = Now + 1 /\ queue' = stored /\ flushing' = {}
  /\ socket' = "down" /\ alive' = FALSE /\ wire' = <<>>
  /\ UNCHANGED <<ahead, stored, server, swept>>

\* openPlayRow lives in the process.
ServerRestart ==
  /\ Trouble /\ known' = NoPlay /\ alive' = FALSE /\ wire' = <<>>
  /\ UNCHANGED <<player, socket, rows, swept>>

Next ==
  \/ \E i \in Items : NextItem(i)
  \/ StaysOn \/ Connect \/ FlushTimer \/ Receive \/ Registered \/ ExpireStranded
  \/ LinkDies \/ Disconnected \/ Refused \/ PlayerRestart \/ ServerRestart

\* Socket.IO reconnects, its pings find a dead link, frames arrive, the timer runs.
Fairness == /\ WF_vars(Connect) /\ WF_vars(Disconnected) /\ WF_vars(Receive)
            /\ WF_vars(Registered) /\ WF_vars(FlushTimer)
Spec == Init /\ [][Next]_vars /\ Fairness

-----------------------------------------------------------------------------
\* A play has one row, however often its batch is sent and wherever the player
\* or the disk forgot that it was (deviceSocket.js "must not double-count").
CountedOnce == \A r, s \in rows : r.play = s.play => r = s

\* The row of the play on screen is open: no late end, no backlog and no sweep
\* closes it ("could close the row the player has open RIGHT NOW",
\* offline-play-queue.js), unless the play has outlasted its ceiling or a panel
\* whose clock is ahead dated an earlier play after it.
PlayingStaysOpen ==
  \A r \in rows : r.play = OnScreen /\ ~IsOpen(r) =>
    \/ r.by = "ceiling" /\ r.start + Allowed < Now
    \/ r.by = "next" /\ \E s \in rows : s.start = r.end /\ s.play < r.play /\ r.start < s.start

\* While the page lives, a queued play leaves the queue only in a batch that was
\* sent, or as the oldest of a full queue, for a newer one: also when plays are added and
\* evicted during the flush ("deletes entries the server never received").
OnlySentLeave ==
  [][\A e \in queue \ queue' :
       \/ PlayerRestart
       \/ e \in flushing
       \/ Cardinality(queue) = MaxEntries /\ e \in Oldest(queue) /\ queue' \ queue # {}]_vars

\* A backlog is drained, batch by batch, through lost links and restarts.
BacklogDrains == queue # {} ~> queue = {}

-----------------------------------------------------------------------------
\* What comments of the code say and the code does not do: TLC refutes each.

Served(e) == \E r \in rows : r.id = e.end
UnderWay(e) == \E k \in DOMAIN wire : wire[k].kind = "plays" /\ e \in wire[k].plays

\* "Cleared only AFTER the server has had its say" (player/index.html): when a
\* batch is cleared, its frame is not lost.
ClearedOnceServed ==
  [][FlushTimer => \A e \in queue \ queue' : Served(e) \/ UnderWay(e)]_vars

\* The play n was on screen until t.
LastsUntil(n, t) == t - 1 \in DOMAIN shown /\ shown[t - 1].play = n

\* "inventing a time would put fabricated data into a report, so an unmatched end
\* is dropped rather than guessed at" (player/index.html nextItem).
QueuedAsPlayed == \A e \in queue : LastsUntil(e.start, e.end)

\* A row closed by the player's report is the row of the play that ended
\* (deviceSocket.js takeOpenPlay: "closing our remembered row for it would end the
\* WRONG play").
EndsItsOwnRow == \A r \in rows : r.by = "player" /\ r.id = 0 => LastsUntil(r.play, r.end)

\* A row closed by the next row ran until then ("Nothing is invented",
\* lib/play-backfill.js closeStrandedPlays).
InferredAsPlayed == \A r \in rows : r.by = "next" => LastsUntil(r.play, r.end)

\* "The item genuinely playing right now is the newest row and has none [no
\* successor], so it is left open" (play-backfill.js): a panel whose clock is
\* ahead dates an older play after it.
NewestIsLeftOpen == \A r \in rows : r.play = OnScreen => r.by # "next"

\* "once a play has been open longer than its own content could have run, the end
\* event is never arriving" (play-backfill.js): it may still be on screen.
OverdueIsOver == \A r \in rows : r.play = OnScreen => r.by # "ceiling"
=============================================================================
