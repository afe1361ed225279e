# ScreenTinker in TLA+

ScreenTinker is a digital-signage server (Node.js, socket.io, SQLite) with players for
Android, TV operating systems, browsers and embedded panels. The server keeps one process's
worth of state in memory (who is connected, what waits for whom) beside a database that
survives it. Servers are joined in a mesh: a replica holds copies of another server's
workspaces and can terminate its screens. This directory models the parts in which that state
can go wrong: several sockets speak for one display, timers fire late, a sweep is interrupted, a
poll answers after its caller has left, an acknowledgement is lost, a process dies between two
steps.

The reference is the code under `src/`. All modules are plain TLA+; TLC checks small
instances and TLAPS proves theorems for every value of the constants. `PROJECT.json` holds
the runs, the mutants each property kills, the lines each definition models, the findings and
the list of hazards.

Contents: [1 system](#1-the-system), [2 modules](#2-modules-and-how-they-correspond-to-the-code),
[3 runs and findings](#3-runs), [4 bounds](#4-bounds-and-why-they-are-enough),
[5 fairness](#5-fairness), [6 proofs](#6-proofs), [7 not modelled](#7-what-is-not-modelled),
[8 plan](#8-plan).

## 1 The system

A display opens a socket in the `/device` namespace and sends `device:register`, then a
heartbeat every few seconds and one event per play. The dashboard sends commands and edits
over REST and the `/dashboard` namespace. Background work runs on timers of the same process:
the heartbeat check with the maintenance sweep it starts, and the minute scheduler. The process is
single-threaded, so a handler is atomic up to its first `await`; interleaving is between
handlers, `process.nextTick` callbacks and timers.

| component | state it keeps | operations | hard behaviour | what makes it correct |
|---|---|---|---|---|
| display connection lifecycle (`ws/deviceSocket.js`, `services/heartbeat.js`, `lib/session-settle.js`) | `deviceConnections`, `evictedSockets`, `pendingOfflines`, settle windows; per socket `currentDeviceId`; `devices.status`, `offline_reason`, `device_token`, owner | register (token, enrolment key, fingerprint reclaim, pairing code), refuse, evict, heartbeat, exit, disconnect, debounced offline, timeout sweep, claim, delete, restart | `disconnect(true)` runs the other socket's handler inside this one; refusals close on the next tick; late beats; half-open sockets | one socket per display; no timer armed against a live display; no false offline; a dead display is found out; a live session is taken only with its token |
| proof-of-play capture (`ws/deviceSocket.js`, `lib/play-backfill.js`) | `play_logs`; `openPlayRow`, the row each screen's live play opened; the sweep mark of a socket | open, close by row or by content, retract, backfill, close stranded rows; cascades of deletes | plays arrive up to 30 days late, in any order and dated by the panel's clock; ends without starts and starts without ends; plays that last longer than their content | a play has one row; the row on screen stays open; no end is made up |
| rollup and prune (`services/play-rollup.js`, `lib/chunked-prune.js`, `services/heartbeat.js`) | `play_log_hourly`, watermark, raw floor, dirty queue, the triggers, the once-per-process repair flag | forward pass, re-roll, repair, batched prune | crash or exception between transactions; writers run where the prune yields | the aggregate is what the raw rows give; only counted hours are pruned; what is pruned stays counted; the queue drains |
| reports (`lib/play-report.js`) | none: reads both tables | `hourlyRows` | the seam between aggregate and raw moves | each play counted once |
| command and playlist queue (`lib/command-queue.js`, `lib/device-command.js`, `routes/embedded.js`) | `pendingCommands`, `pendingPlaylistUpdate`, the socket.io rooms | send or queue, expire, flush on register, peek and pop for polling panels | half-open rooms; polls that outlive their caller; last-of-type | newest wins; nothing dropped that was not sent; a connected display has the current playlist |
| replica termination (`lib/mesh/player-termination.js`, `lib/mesh/node-write.js`) | replica: the outbox table, one drain and one backoff per edge; primary: the idempotency table | enqueue, coalesce, drain, back off, expire; claim, apply, answer from the record | lost and slow answers, lost links, crashes on both sides, a screen deleted at the primary | every play reaches the applier once and in order; the drain always goes on; the newest state wins |
| workspace replication (`lib/mesh/replication.js`, `lib/mesh/replica.js`, `services/mesh-uplink.js`) | primary: change log, `acked_rev`; replica: the copy, `replica_rev`, the position in memory | triggers, prune, revoke, re-join; snapshot, pull, mark | the primary writes between any two reads; crash between apply and mark; revisions of other workspaces | nothing is skipped; only what was applied is pruned; the copy converges; the log is released |
| reconnect throttle, flap limiter (`lib/reconnect-throttle.js`, `lib/flap-limiter.js`) | one bucket per display each: hits, block, level, trips, quarantine | count, refuse, escalate, forgive, sweep | a retry inside the window that throttles it; another install under the same identity | the ceiling holds; a paired display is never locked out; who keeps coming back gets in |
| boot defer (`lib/boot-defer.js`, `services/heartbeat.js`) | held or not, since when | begin, drain, lift | the drain may throw or hang; the valve trips only when read | the deferral always lifts |
| coalescing writers (`status-log-writer`, `heartbeat-floor`, `log-coalescer`) | buffers, last written value | record, flush | a flush that throws | the last transition is not lost |
| usage metering, billing, AI credits (`lib/ai-credits.js`, `routes/ai-hosted.js`, `lib/billing.js`) | usage by screen and day, the accrual cursor; the credit ledger, reservations | accrue; grant, reserve, generate, commit, release, sweep, purchase, adjust; dun | crashes between debit and outcome; the sweep against a live request; grants computed from the fleet of the moment | a bucket is what came in less what is held; no charge without an image and no image without a charge; a grant is one bill's share |
| video walls, group sync | `leader_device_id`, effective leader | elect at register, offline, edit | three places elect, each with an order of its own | one leader, and an online one |
| mirrors | links to an original | create, cap, delete | delete of the original | no mirror of a mirror |
| schedules, playlist resolution, power windows | rows only | pure evaluation | midnight, priorities, time zones | agrees with a declarative definition |
| mesh relay, reports and dialer | links, sessions | dial, report, relay | reordering, reconnects | a newer report replaces an older one |
| rollouts of player packages (`lib/ota-rollout.js`, `routes/native-update.js`, the players' updaters) | rows of rollouts, archived packages; of a screen: its version, its download | open, wave, judge, halt, roll back, pause, resume, release, clear; check, download, install | downloads in flight when a version halts; a tick that sleeps over an admin's action; packages staged back and forth | what was open stays open while the fleet stays; a halt reaches downloads; waves go on; stranded screens go back |
| uploads and ingest | session files, offsets | open, append, finish, sweep | overlapping chunks, sweep under an upload | content is whole or absent |
| offline play queue of the player (`player/index.html`, `lib/offline-play-queue.js`) | the play begun offline, the queue and its copy in localStorage, the batch in flight | open, queue, evict, flush, clear by timer, reload | batches sent again; links that die unnoticed; a timer instead of an acknowledgement | nothing leaves unsent but by eviction; the backlog drains |
| dashboard, tenancy and SSO, rendering, integrations | rows, external processes | CRUD, formatting | none of their own | — |

Interactions. Register ends with `flushQueue` and a fresh playlist (queue), records the
connection (heartbeat) and may re-elect a wall leader. The offline transition closes stranded
plays (capture) and re-elects. Deletes of devices and content cascade into `play_logs`, where
triggers feed the rollup's queue; the database runs with foreign keys on. The rollup and the
prune share one maintenance sweep; reports read both tables at any moment. Before a register does
any work it passes the boot deferral, the flap limiter and the throttle, in this order. On a
replica, a screen's events go to the outbox instead of the tables, and the primary applies them
with the same functions its own sockets use; the change log brings the primary's edits back. A
screen's register reports its version, which is the evidence a rollout is judged by.

## 2 Modules and how they correspond to the code

### `DeviceSession` — a display's connection

Variables mirror the code's maps: `conn` is `deviceConnections`, `pending` is
`pendingOfflines`, `evicted` is `evictedSockets`, `settle` is the settle map, `current` is
each connection's closure `currentDeviceId`, and `status`, `owner`, `tokened`, `reason` are
columns of `devices`. `sockets` is the namespace's own table.

- `Register` and `Reclaim` are the accepted branches of `device:register`; both end in
  `Serve`, in the order of the code: cancel the pending offline, evict the prior socket (whose
  disconnect handler runs at once, hence `Armed` inside `Serve`), write the row, own the map.
- `Refused` and `Held` are the early returns. `Held` tags the socket and queues a disconnect
  with `process.nextTick`: `closing` names that socket, and until it has gone nothing else may
  run (`Quiet`, `MayRun`).
- `Disconnect` is the handler with its two guards (the eviction tag, the stale-socket check)
  and the exit frame that came with the close. `OfflineTimer` is the debounced transition.
- `Sweep` is the heartbeat check over all displays at once; `GoesStale` lets a beat be late
  although its socket lives, because the code says a lagged loop does that.
- `SelfUnpair`, `Claim`, `CreateWebPlayer`, `Delete`, `PruneProvisioning`, `ExitBeacon` are
  the other handlers that write the same row; `Restart` keeps the columns and empties the maps.
  `ExitBeacon` comes in any session or none, because the code asks for the display's token only.

Time is facts that become true (`stale`, an open settle window, a pending timer that may fire
at any later moment) rather than clocks: no property depends on how long anything takes. A
socket id may be reused only after nothing refers to it. Refusal decisions (throttle, flap,
operator block) are a free choice: the lifecycle must be right whatever they decide.

### `PlayRollup` — raw plays, their aggregate, the prune

`raw` is `play_logs`; `agg` is `play_log_hourly`, where a group is represented by the set of
rows it was computed from (count and duration are functions of that set); `wm`, `floor`,
`dirty`, `repaired` are the stored watermark, raw floor, queue and repair mark; `checked`,
`phase`, `at`, `left`, `cut` are the running sweep.

Each transaction of `play-rollup.js` is an action (`Repair`, `Begin`, `RollHour`, `Reroll`),
each statement of `chunkedDelete` is `DeleteBatch`, and a batch that was full yields (`pause`):
only there and between sweeps do the writers run. The triggers are part of every writer
(`Stale`, `StaleByDelete`). `RepairFails`, `RollFails`, `PruneFails` are the exceptions that
`runMaintenance` survives; `Crash` forgets the in-memory part. The initial states include any
database the previous version could leave behind: an aggregate that disagrees with raw
anywhere and a prune that stopped within an hour.

### `PlayReport` — the seam

Extends `PlayRollup` with `hourlyRows`: what a report takes from the aggregate and from raw in
any state. It adds no action; a report is a read.

### `CommandQueue` — commands and pushes for one display

`queue` and `marker` are the two Maps (an entry's `at` is its place in the Map's insertion
order, which `Map.set` keeps), `link` the room, with `dead` for a socket that is half open,
`wire` the frames on their way. `Send` and `Edit` are `deliverCommand` and
`queueOrEmitPlaylistUpdate`; `Register` is the flush (the entries that have not expired, in the order
of the Map) followed by the playlist every register ends with; `Poll`, `Answer` and `LateAnswer` are an embedded panel's request, its response and
the response of a request the panel gave up. An initial state has a display with a socket or an
embedded panel (`Polls`); each has the actions of its kind. Queues never cross displays, so one display is enough.

### `PlayerOutbox` and `EventRelay` — a replica's screens

`EventRelay` is what a replica promises for plays: each one it takes is handed to the primary's applier
once, in the order taken, unless it is given up for its age; the applier logs it or leaves it `unlogged`,
and it is done either way. `PlayerOutbox` is the code, and `KeepsThePromise` is
`EventRelay!Spec` under a mapping: `Waiting`, the plays in the outbox that were not handed to the
applier; `GivenUp`, the expired ones that were not; `Delivered`, the plays among `applied`
in their order (written by rank, because TLC and the provers both see into that form); `unlogged`, the
plays in `thinned` and `swallowed`.

`outbox` is `mesh_player_events` by row id, the value being the op id: a coalescing update keeps
the id and changes the value. `batch` holds the rows `drainEdge` read before its first `await` and
works through; `wire` holds requests on their way, `live` the one whose answer is still waited for.
`Sending` is one turn of the loop (write and wait, or find no socket and leave), used by `Tick`,
`Report`, `LinkUp` and `Answered`, because all of them call `drainEdge`. `GivesUp` is the fifteen
seconds of `writeTo`; the request stays on its way. `Replay`, `RefuseScreen`, `Apply` and
`ApplyFails` are the branches of `applyPlayerOp`; `Orphan` is a primary that dies between the claim
and the end.

`Takes` is the play applier, which answers ok whatever it does (`deviceSocket.js:2334`, `2525`): it logs the
play; or it skips one whose stamp is less than two seconds after the screen's last logged play or before it
(`thinned`; `last` is `lastPlayLogAt`); or its insert throws after `last` has moved (`swallowed`). The replica
deletes the row in all three cases. `applied` is what was handed to an applier, `Recorded` what has a row. An
exception keeps the row at the replica only before the applier runs, or in an applier of another kind
(`ApplyFails`).

### `Replication` — copies of workspaces

`log` is `mesh_change_log`; `Logs` is the three triggers of a table; `Remove` is a delete with its
cascade, and `Logged` says which of the deleted rows find their workspace. `Prune`, `Ask`
(`recordAck`), `Revoke` and `Rejoin` are the primary's other steps. The replica's loop is cut where
it awaits: `SyncFromScratch`, `SnapshotPage`, `SnapshotDone`, `SyncOnwards`, then `ReadHead`,
`ReadPage` (two queries of one answer with writes between them), `ApplyPage` (the rows are read
here, so writes come between these too) and `Mark`. `Restart` forgets everything but `copy` and
`position`.

Three kinds of rows are never told to the replica by any log entry, and `missed` collects them:
changed while no edge granted replication, deleted by a cascade without being logged, or copied by
an attempt at a snapshot that failed. Properties speak about the rows that are not in it;
`NoGhostRows` speaks about all.

### `Admission` — the gates before a register

One display with its two buckets. Instants are ages: the code's `now < s.blockedUntil` is time left
greater than zero, its filter of hits keeps ages below the window. `Defer`, `RefuseFlapping`,
`Throttle`, `Admit` and `AdmitUnpaired` are the outcomes of a connection in the order of the code;
`Stale` is another install that knocks with the same identity and a token that no longer holds.
The hits of a window are kept newest first, so that what ages out is a tail (`Aged`); the doubling
backoff is the recursive function `Doubled`. `admitted`, the ages of what was let in, is history. Some names carry a prefix (`GateInit`, `GateNext`, `GatesTypeOK`)
because `DisplayProofs` extends this module beside `CommandQueue`.

### `OtaRollout` — packages in waves

`row` is `ota_rollouts` by version, `begun` their order (`started_at`), `kept` the versions whose
package was copied aside with its sha256. Every question about the staged package first runs
`Ensure`, so every check and every question of a helper does. `SentBack`, `OfferedFallback`, `OfferedUpgrade`
and `ToldNothing` are the answers of a check. `TickStarts` reads the rolling rows and works through them up to
the first it halts, whose notification is awaited; `TickGoesOn` works through the rest as they
were read. `pending` holds these stale rows.

Waves are cut from `fleet`, the screens there are at the moment (`InWave`, `WaveSize`); `Join` and `Delete`
change it. A download goes through three steps: the screen was offered a version (`offer`), its privileged
helper asks the server which package is the release and lets that one through, or any package if the screen's
operator opted in (`HelperAsks`, `through`, the constant `OptedIn`: `allow_package_install`), and later
apt, detached, has run (`Install`). Halts, stagings and changes of the fleet come between any two of them.
`UpdateFails` is a download, a helper or an apt that fails. The time since a wave opened (`age`) counts
while its row is rolling; a row that stops forgets it (`Stopped`).

### `OfflinePlays` — one screen's plays, from the screen to the table

Player and server together, because what goes wrong does so between them. The server's clock counts ticks;
`shown` says for every tick which play was on screen and of which content, so a row or a queue entry can
be compared with what was really on screen. A play is named after the tick it begins in and lasts one tick or
any number more (`StaysOn`). The panel's clock is `ahead` of the server's by a lead of `Leads`: the frames of
a live link are dated by the server when they arrive, plays made offline by the panel, and the server takes a
stamp up to `Skew` ahead of its own clock (`InTime`: a play that starts later is dropped, one that only ends
later is stored open). `open` is `offlinePlayOpen`, `queue` the entries of
the offline queue (a set: the order of a queue is the order of its ends, and a tick ends at most
one play, so `end` is the `client_event_id` too), `stored` what localStorage holds, `flushing` the batch whose
four-second timer runs. At the server `known` is `openPlayRow`, `rows` is `play_logs`, `swept` the
socket's sweep mark. `by` and `copy` of a row are history: what ended it, and how many rows its play
had before.

- `NextItem` is `nextItem` with `playCurrentItem`: without a link it queues the play that was begun
  without one, with a link it reports an end and a start. `Flush` is `flushOfflinePlays`, called by `FlushTimer` and
  by the answer to a register. `Persist` ignores a full disk, as the code does.
- `PlayStart`, `PlayEnd` and `PlayOffline` are the branches of the `play-event` handler, `Sweep` is
  `closeStrandedPlays`, `ExpireStranded` the background sweep, which ends every row older than its ceiling
  (`Allowed`), the one on screen too.
- `Registered` also chooses whether the server had seen the old socket close. If it had, `known` is
  forgotten; if it evicts that socket now, the close returns early and `known` stays.
- A frame of a live link arrives within the tick in which it was sent. A dead link loses
  what is on its way, and the player learns of it later.

### `AiCredits` — paying for hosted images

The ledger is append-only (a trigger forbids updates) and read by its sums, so `included` (by
organization and month), `purchased` and `granted` are sums; `applied` is the unique index that makes a
purchase count once, `adjusted` the administrator's part of `purchased`. `res` is
`ai_credit_reservations` by key, `attempt` the request that works on one. `Reserve` is one
transaction (grant, check, reservation, debit); a refusal rolls back and a retry with a used key only
reads, so neither is an action. `Generated`, `Fails`, `Commit` are what follows the request's awaits,
`Sweep` is `sweepStale` row by row, since each release is a transaction. `attempt` is "calling" while the
provider is asked, which its timeout bounds, and "ingesting" until the image is in the library, which nothing
bounds. From the insert of the image's row to the commit nothing else runs, so they are one step; a crash in
between, or an outcome that cannot be written, is `Abandoned`, which leaves the request "unanswered" if
the image is in the library. `Commit` of a reservation that was swept meanwhile changes nothing and the image is
delivered, as `routes/ai-hosted.js:162` does with a line in the log.

`Entitled` counts the screens that are the organization's now among those with usage last month and gives
`Credits` of them: all at the rate of the highest tier they reach (`Rate` is `tierFor`), so more screens may be
billed less than fewer. Fractions of a screen's day and rounding are left out. `Elsewhere` is the home of a
deleted screen or one of an organization not modelled.

### Model-checking and proof modules

`MCDeviceSession` adds symmetry sets and `MCAiCredits` a rate table; the other modules are checked as they are. The theorems are in
`DeviceSessionProofs`, `PlayRollupProofs`, `PlayerOutboxProofs`, `ReplicationProofs`,
`OtaRolloutProofs`, `OfflinePlaysProofs` and `AiCreditsProofs`, each beside the module it extends, and in
`DisplayProofs`, which extends two: `CommandQueue` and `Admission`. Proofs that pick by `CHOOSE` or `Min`
start from `LeastNat` (a nonempty set of naturals has a least element, from the well-foundedness of `<` in
the library).

## 3 Runs

Runs that pass:

| run | asks |
|---|---|
| `session` | whether two displays and three sockets, in every order of registers, refusals, closes, timers, sweeps, dashboard writes and restarts, keep one owner per display (`OwnerIsConnection`), arm no timer against a live one (`NoTimerWhileLive`), record no false offline (`ServedIsNotOffline`), leave no tag behind (`TagsDrain`), leave no `silent` of an earlier death on the row of a display in service (`ServedIsNotSilent`) and take a live session only by its token outside its settle window (`LiveIsNotTaken`) |
| `session_live` | whether a display that is gone is always found out, by the timer or the sweep (`GoneIsNoticed`) |
| `rollup` | whether the aggregate of every recomputable, unqueued hour is exactly what raw gives (`AggregateIsRaw`), nothing uncounted is pruned past the watermark (`NeverPastWatermark`), the only copy of a pruned hour is never recomputed (`OnlyCopyIsKept`) and sweeps empty the queue once disturbances stop (`Drains`) |
| `queue` | whether a connected display ends with the current playlist (`ScreenIsCurrent`), never gets an older command after a newer one or one twice (`NewerWins`), and no queued command vanishes unsent (`NothingVanishes`); the display has a socket, or is an embedded panel whose polls overlap and whose answers are lost or late |
| `outbox` | whether plays reach the applier once and in order (`PlaysOnceInOrder`), none vanishes but what the applier skipped or swallowed (`NothingVanishes`), the outbox implements `EventRelay` (`KeepsThePromise`) and the drain ends unless the oldest row itself cannot go (`Drains`), under lost and slow answers, lost links, restarts and crashes of either side |
| `replication` | whether everything the copy lacks is still in the log beyond its stored position (`NothingSkipped`), only what was applied can be pruned (`AckIsDurable`), the copy converges once writers stop (`Converges`) and the log is always released in the end (`LogIsReleased`) |
| `admission` | whether the hard ceiling holds in every window (`CeilingHolds`), a display with a valid token is never asked to wait longer than a cooldown or a backoff (`PairedIsNotLockedOut`), the boot deferral lifts whatever the drain does (`DeferralLifts`) and a display that keeps coming back gets in (`ComesBack`) |
| `rollout` | whether a version once open to a screen stays open while the fleet stays (`OpenStaysOpen`), a halt reaches downloads on their way up to the helper's question, and apt installs only what the helper let through (`HaltStopsInstalls`), a healthy rollout opens its waves even if nobody takes it (`RolloutMoves`) and screens on a halted version go back (`ScreensGoBack`) |
| `offline` | whether a play has one row however often its batch is sent (`CountedOnce`), the row of the play on screen is closed by no backlog, late end or sweep while the play is within its ceiling and the panel's clock is right (`PlayingStaysOpen`), a queued play leaves the queue only in a sent batch or by eviction (`OnlySentLeave`) and a backlog drains (`BacklogDrains`), with plays of any length, a panel clock ahead, dead links, evictions, refused registers, full disks and restarts of both sides |
| `credits` | whether every bucket is what came in less what its unreleased reservations took (`Reconciled`), the reservation holds while the provider is asked and no image in the library is refunded within the timeout and the five minutes (`DeliveredIsCharged`), what a month is granted in top-ups is the share of one bill and never of two added together (`WithinBill`) and every reservation is committed or refunded (`Settles`), over crashes, lost outcomes and the turn of a month |

The type invariant of every module with a proof module is proved; the runs of `CommandQueue` and
`Admission` check theirs as well.

Runs that refute something the repository says of itself (findings in `PROJECT.json` quote the
lines and tell the counterexample):

| run | property | what happens |
|---|---|---|
| `report_seam` | `SeamCountsOnce` | the seam is a second, the aggregate has hours: the oldest raw row's hour is counted on both sides |
| `offline_queued` | `QueuedAsPlayed` | a play begun offline and ended online stays remembered; the next outage queues it with the end of another play |

Statements of the repository that TLC refutes when the property is added to the module's passing
configuration:

| module | property | what the repository says, and what happens |
|---|---|---|
| `PlayerOutbox` | `LastWins` | "heartbeat-shaped kinds coalesce last-wins" (`player-termination.js:18`): a heartbeat that replaces the payload of a row in flight is deleted, unsent, by the older payload's acknowledgement |
| `PlayerOutbox` | `NeverThinned` | "proof-of-play is never thinned and never dropped" (`player-termination.js:17`): the play applier answers ok for a play it skipped or whose insert threw, and the replica deletes the row |
| `Replication` | `NoGhostRows` | "the copy must not hold a row the primary no longer has" (`replication.js:375`): a child row deleted by a cascade is not logged, because its parent is gone when its trigger runs; it stays on the replica |
| `OtaRollout` | `WavesAreKept` | only beta screens and a forced update skip the waves (`ota-rollout.js:26`): a version superseded in its first wave is the fallback of its halted successor and is offered to every screen, in no wave and judged by no tick |
| `OtaRollout` | `WaveIsStable` | "a screen's wave never changes between checks" (`ota-rollout.js:25`): the order is that of the screens there are, so one that joins may take another's place and one that is deleted may make a wave smaller |
| `OtaRollout` | `InstalledIsAnnounced` | "a screentinker-pi package is installed only if its sha256 equals what the server … announces" (`st-helper:76`): the helper asks before apt starts, and a halt between the answer and apt does not stop it |
| `OfflinePlays` | `ClearedOnceServed` | "Cleared only AFTER the server has had its say" (`player/index.html:2957`): a batch sent into a link that is dead but not yet known to be is cleared by its timer; the acknowledgement is only logged |
| `OfflinePlays` | `EndsItsOwnRow` | "The key check matters" (`deviceSocket.js:145`): the key is the content only, so the end of a play begun offline closes the row of an earlier play of the same content, whose end was lost |
| `OfflinePlays` | `InferredAsPlayed` | "Nothing is invented" (`play-backfill.js:90`): the next row is not the next play; between them a play began offline, ended online and left no row |
| `OfflinePlays` | `NewestIsLeftOpen` | "The item genuinely playing right now is the newest row" (`play-backfill.js:92`): a panel whose clock is ahead dates an older play after it, and the sweep closes the row on screen there |
| `OfflinePlays` | `OverdueIsOver` | "the end event is never arriving" (`play-backfill.js:189`): a play that is still on screen after its ceiling is closed at the ceiling, and its real end finds no row |
| `AiCredits` | `NoImageIsFree` | "swept mid-flight, which staleWindowSec() rules out" (`routes/ai-hosted.js:163`): the timeout bounds the provider's call only; an ingest that outlasts the window is swept and its image goes out uncharged |
| `AiCredits` | `GrantsOnce` | "The bill is fixed for the month (see orgScreenBill), so this grants once" (`ai-credits.js:171`): a screen takes its closed month along to another organization |
| `AiCredits` | `CapIsTheBill` | "The cap is 10% of the bill" (`docs/ai-credits.md:54`): where fewer screens are billed more (499 at $1.50 are $748.50, 500 at $1.25 are $625), moving one away raises the grant above the share of the whole fleet's bill, and the earlier grant is topped up to it |

What the passing properties leave out says as much as what they state. `OnlyCopyIsKept` leaves out
the watermark's own hour, `NeverPastWatermark` speaks of hours some pass aggregated, `Drains` of the
outbox exempts a head whose screen is gone or whose claim a crash left behind, `NothingSkipped` and
`Converges` exempt rows that were never logged, `RolloutMoves` exempts rollouts with one bad screen,
`HaltStopsInstalls` exempts the halted version that its successor goes back to, and screens whose operator
opted in to any package. `OpenStaysOpen` exempts steps that change the fleet before the last wave. `NothingVanishes`
of the outbox exempts plays the applier swallowed, and plays it skipped behind another of their screen.
`PlayingStaysOpen` exempts a play that has outlasted its ceiling and one after which the panel's clock dated an
earlier play. `DeliveredIsCharged` exempts what the sweep refunds more than the timeout and five minutes after the
reserve: an image whose ingest took that long, or one in the library whose request died before its commit. Each
exemption is a behaviour of the code.

Disagreements between code and text met while modelling that have no run of their own:

- `server.js:2690`: the exit beacon is checked against the display's token only, so one of an earlier session that
  arrives after the next register labels the next death; `deviceSocket.js:2550` says a reason is kept "if it
  announced one this session".
- `command-queue.js:91`: `Map.set` on a type already queued keeps its place, so off, on, off reaches
  a display as off, on; `embedded.js:144` says "the rest first-in first-out".
- `embedded.js:285` pops by type when a response has rendered, so a newer command of the same type
  accepted meanwhile is the one dropped; `embedded.js:280` says "the queued command".
- `heartbeat.js:175`: the prune looks at the watermark, not at the queue: hours queued by the repair
  of an upgraded database may be pruned before their recount.
- `play-rollup.js:114`: a pass restarts at the watermark's own hour; after a crash within the prune
  of that hour it overwrites the aggregate with what the prune left.
- `play-report.js:75`: a play backfilled below the raw floor moves the seam and hides pruned hours.
- `heartbeat.js:399`: a socket that registers as a second display leaves the first one's entry in
  the connection map until a restart.
- `node-write.js:440`: a claim left by a crash answers "already being applied" for ever; the
  maintenance never deletes it, and the ordered outbox of that edge waits until the row expires.
- `ota-rollout.js:244`: the tick works through rows it read before it awaited a mail; its updates name
  the id only, so `complete` or the next wave may overwrite a halt or a pause made meanwhile.
- `ota-rollout.js:304`: `clear` of an older rollout makes two live at a time (line 98 says one), and
  the next tick halts a cleared one on the same evidence. A superseded version that is staged
  again stays in its wave: neither the tick nor any action of the page applies to it. One bad screen
  below the verdict's share holds the waves for ever.

## 4 Bounds and why they are enough

- Displays and sockets: an eviction needs two sockets of one display, a queued refusal a
  third, and a socket that changes display needs two displays. Liveness needs one display and
  three sockets.
- Rollup: `MaxHour = 3` from `Start = 2` leaves room for an hour to become complete, be rolled
  up, be written late and pass retention (`Retention = 1`). `CatchUp = 2` is the least that
  makes progress, because a pass restarts at the watermark's own hour; it makes the rollup lag
  behind. `Batch = 1` makes the prune yield after every row. Two plays are the least that make a
  prune stop within a group. Minutes matter to the seam only, so only `report_seam` has two; its
  `Start = 3` gives an adopted database two complete hours.
- Queue: two types tell replacing from keeping apart, four commands let a type be replaced
  while another waits and be flushed twice, two edits let a push be overtaken. `MaxKept` limits
  what is on the wire when a socket registers again, `MaxCommands` and `MaxVersion` the
  dashboard. A polling panel has one given-up request at a time in `Poll`.
- Outbox: three events of two screens are a row in flight, one that replaces or follows it and one
  behind; `Batch = 2` and `MaxRows = 2` make the batch end and the cap bite. Two faults are a
  slow answer and a loss of its retry, an exception of the play applier and a crash, or a crash of each side.
  `MaxEvents` and `MaxFaults` are the only counters. This is the largest run (3,884,000 states, three and a half
  minutes with two workers).
- Replication: the workspace's own row, a parent and a child; `Limit = 2` makes pages full and
  short, and with three rows a snapshot has writes between pages. Three writes after the first
  are an update, a delete and a write elsewhere. One withdrawal (`MaxRejoins`), one failure or
  restart (`MaxFaults`) at each of the loop's awaits.
- Admission: windows of two and three ticks, ceilings of two and three hits. The order between the
  values is the order in `config.js`, which `AdmissionAssumption` states: the longest backoff is at
  least the window and below the idle reset. Ages are capped just above the threshold that reads
  them, so a run may last for ever.
- Rollout: two screens tell the first wave from the rest (10% of two is one screen, so is 50%); every
  initial fleet of them is tried, one of the two is opted in to any package, and a join or a delete is one of the
  `MaxActs`. Two
  versions a rollout from its fallback, `Copied = {1}` a version that can be gone back to from one
  that cannot; `Sample = 1` stands for the code's 3 at this fleet. `MaxStagings = 2`,
  `MaxActs = 1` and `MaxTrouble = 1` bound operators and failures. A server whose last screen was deleted may
  have nothing left to do, so deadlock is not checked.
- Offline plays: a queue of two in batches of one makes eviction and the second batch happen; two contents
  tell the row searched by content from the right one; `Allowed = 2` in five ticks lets a play outlast its ceiling
  and a row be closed by the row after the next. The panel's clock is right or three ticks ahead (`Leads`): more
  than `Skew = 1`, so that the same stamps are refused at first and accepted later. A lead behind the server's
  clock dates plays earlier and is left to the proof, which covers any. Two faults are a lost link and
  one more during its repair. `MaxTicks` and `MaxFaults` are the only counters; the refuting run needs fewer.
- Credits: two generations (`Keys`) of which the second's price is split between the buckets (`Prices`,
  `Pack`, the rate table), two months, two screens of which one may move in or away. The table has a second tier
  that is cheaper by more than the screen that reaches it: one screen is worth three credits, two are worth one
  each. `Timeout` and `Grace` of
  one tick and `StaleAfter` below their sum make the clamp of the window matter; an ingest may be older than
  any window (ages are capped just above it). `MaxMoves = 1` bounds changes from outside, `MaxMonth = 2` the calendar.
- Deadlock is checked except in the runs whose cfg says otherwise: there every counter may be
  used up with nothing left to send.
- Symmetry is used only in the run of `DeviceSession` without liveness.

## 5 Fairness

`DeviceSession!FairSpec`: the queued disconnect of a refused socket is weakly fair (nextTick
runs before anything else). The offline timer, the sweep's interval and the passing of time are
strongly fair: they are disabled while a nextTick is queued, which displays can make happen
again and again, but the event loop reaches its timers in every round. Nothing is assumed of
displays, operators or restarts.

`PlayRollup!FairSpec`: the maintenance sweep is weakly fair, because its interval re-arms for
as long as the process lives and every step inside it follows from the one before. (While the
event loop lags, `runMaintenance` returns at once; the assumption includes that the lag ends.)
`Drains` supposes that writers, exceptions and crashes stop; the code cannot promise more.

`PlayerOutbox!FairSpec`: the drain's one-second tick, the end of a backoff, the callback of an
answer, its timeout and the re-dial of the link are timers and callbacks that run; the primary
answers a request somebody still waits for. A request given up may arrive at any time or never.
Faults are bounded by the model, so liveness says what happens when they end.

`Replication!FairSpec`: the replica polls every thirty seconds, so the loop as a whole is weakly
fair, and the operator lets a withdrawn replica join again. Writers are bounded by the model.

`Admission!FairGateSpec`: time passes, the drain yields only to itself, and a display that is not in
connects again at some time, at once or as told. `ComesBack` supposes that restarts, reinstalls and
other installs under the same identity stop.

`OtaRollout!FairSpec`: the tick's interval, the end of a notification and the clock; a screen that is
up and in the fleet polls (weak fairness of being sent back), its helper asks, and apt ends. Nothing is assumed of
operators, and not that a screen offered an upgrade takes it.

`OfflinePlays!Fairness`: Socket.IO reconnects, its pings find a dead link, frames arrive, a register
that is not refused is answered, the flush timer runs. Nothing obliges the screen to show another
item or time to pass. Faults are bounded by the model.

`AiCredits!Spec`: time passes, the ten-minute sweep runs, and the provider's call ends one way or
another, because it is aborted at its timeout. Nothing is assumed of an ingest: it may hang for ever, and the
sweep settles its reservation.

`CommandQueue` has no liveness property: nothing obliges a display to come back before a
command expires.

## 6 Proofs

All theorems follow from an inductive invariant and one lemma per action. They assume only the
named assumptions of the modules (`SentinelAssumption`, `RollupAssumption`, `QueueAssumption`,
`OutboxAssumption`, `ReplicationAssumption`, `AdmissionAssumption`, `RolloutAssumption`,
`OfflinePlaysAssumption`, `CreditsAssumption`, `UnusedAssumption`): any numbers of displays, sockets,
plays, hours, commands, events, rows, versions, screens, windows and any limits.

`DeviceSessionProofs`. `IInv` is the conjunction of the checked invariants with `GoneIsMute`
(a socket that is not in the namespace speaks for nobody). `OwnerIsConnection` alone is not
inductive: it speaks of live sockets, and `Connect` would break it if a new socket could start
with the `current` of an old one. `ServedIsNotOffline` needs the other two as well: the offline
timer takes a display down only if no socket serves it, which is what `NoTimerWhileLive` and
`OwnerIsConnection` together say. `ServeInvariant` carries the weight, as register and
reclaim both end there: the eviction's nested disconnect arms no timer because the incumbent is
marked first. From `IInv`: `TypeCorrect`, `OneOwner`, `NoSelfReset`, `NoFalseOffline`,
`NoTagLeft`, `NoOldDeath`. `LiveSessionsAreSafe` is the action property: every other
action either keeps the entry or replaces one whose socket is gone, and for the reclaim that
rests on `NoTimerWhileLive` — a display in deferred offline has no live connection to take.

`PlayRollupProofs`. `IInv` is `TypeOK`, `AggregateIsRaw` and three facts of the sweep:
`AggIsBelow` (the aggregate has no hour above the watermark), `PassIsAt` (the forward pass is
at the watermark's hour or the next or, the first time, at or below the oldest raw row) and `CutIsSafe` (the
prune's cutoff is at most the floor and the hour after the watermark). Without `PassIsAt`
`RollHour` could move the watermark over hours that were never aggregated; `CutIsSafe`
carries the clamp from the step that computes the cutoff to the batches that run after yields, so
that they delete only from hours that are counted and that no pass recomputes.
From it: `RollupTypeCorrect`, `RollupIsExact`, and the action properties `PruneIsClamped` and
`OnlyCopySurvives`.

`ReplicationProofs`. `NothingSkipped` speaks of the stored position, but the loop's own variables
decide what the position becomes, so the invariant follows them through the loop. `Base` is the
revision the copy speaks for: `applied` when the loop is idle, the head read at its start during a
snapshot, `since` otherwise. `Numbered`: log entries have distinct revisions, and no counter is beyond
`rev`. `Placed`: the position is the one in memory or wiped, a snapshot runs only without one, and a
page is read from where the position stands, under a grant. `Acknowledged`: no entry the primary may
prune lies beyond `Base`. `Safe`: a row not in `missed` has an entry beyond `Base` or equals the
primary's (one the snapshot has yet to read is not in the copy). `Truthful`: a row whose newest entry
beyond `Base` is a delete is gone at the primary. `PageIsWhole`: every shared entry between `since` and
`upto` is on the page, which is where "the head before the select" matters, and a row the page
deletes wrongly has an entry after `upto`. `Marked`: once the page is applied every row is right or
pending beyond `upto`, so `Mark` may store it. Writes keep all of them because they log beyond `rev`; a
prune keeps them because it cuts at `acked`, which never passes `Base`. From it: `TypeCorrect`,
`NeverSkips`, `AcksAreDurable`.

`PlayerOutboxProofs`. Order is a statement about the past, so the invariant has to say what the two
sides may still do. At the replica: `Own` (a row is an accepted event with its screen and kind, and a
play keeps the id it was born with), `Prefix` (the batch holds the oldest rows of the outbox, minus those
done) and `NeverRefused`. On the wire: `Sent` (what is on its way has passed, see below), `Wired` (a request whose answer is
still waited for is the batch's first row) and `AnswerIsFirst` (an answer belongs to the batch's first
row, and "ok" to a recorded one). At the primary: `Records` (done means handed to the applier, and a play that was not handed is not done) and
`RecordedPassed`. The common part
is `Passed(n)`: no play in the outbox is older than `n`. A late request cannot overtake, because
everything on the wire has passed; applying it appends the newest play so far or meets its record. A
row is deleted only by an answer, and `AnswerIsFirst` makes it the row that was applied: `NothingLost` says
that what has left the outbox was handed over, refused or expired. What the applier made of it is a second
invariant, `LogInv`: `lastPlayLogAt` is a play of its screen that has a row or was swallowed (`LogIsPlayed`), so a
skipped play is behind such a play (`SkippedBehind`). From them: `OutboxTypeCorrect`, `PlaysAreOrdered`, `PlaysAreKept`.

`PromiseIsKept` is the refinement: `Spec => EventRelay!Spec`. It needs one fact more, `Gone`: a play given up
for its age is in no row, so an application either delivers what waits or lets in what was given up, never
both. Step by step: `Report` is `Accept` (`ReportIsAccepted`); `Apply` and `Orphan`, when
they append a play, logged or not, are `Deliver` if its row is still there (it is the least that waits, because everything on
the wire has passed) and `ArriveLate` if it is not (`AppliedIsDelivered`); `Expire` is `GiveUp`
unless the play was recorded before its answer came (`ExpireGivesUp`); `Answered` deletes a row that no
longer waited (`AnsweredIsSilent`); all other steps stutter. `DeliveredGrows` is what makes `Delivered` a
sequence to append to: a new greatest index takes the next rank and leaves the other ranks alone.

`OtaRolloutProofs`. The tick writes from rows it read before it slept, so the invariant compares them
with the rows as they are. `Behind`: a row that waits in `pending` is not wider than the row
now, and while it is short of the last wave the row is not beyond it. `Waved`: a complete row is in the last wave or beyond. `Listed`:
`begun` has each version once. That the wave stays within 0..3 depends on `Behind`: a tick can open
one more wave of a row that was completed while it slept, and no more than one. `Grown` is what every
step does to the rows: no wave narrows, and the wave beyond the last is as wide as the last. The waves of one
fleet contain each other (`WavesAreNested`) and an unchanged fleet has the same (`SameFleet`), so what grew keeps
what was open. `Carried`: a helper let nothing through but an offer. From it: `RolloutTypeCorrect`, `OpenForGood`,
`HaltIsObeyed`. The last needs no history: a helper that may not install anything lets through only what is announced at
that moment, a halted version is announced only where the property exempts it, and a version changes only by
an `Install` of what was let through or with the screen itself.

`OfflinePlaysProofs`. `CountedOnce` holds because a play is either told live or queued, never both; that
is a fact about the past which every part of the state must carry. `Faithful`: every record (in the
queue, in storage, in a batch, on the wire, or told to the server) is of a play that is over and was begun offline,
and an id is of one play. `Apart`: no play that has a
record was ever told by a live start. `Sound`: there is one row to a play, a row's play is over or on screen, and the row of
the one on screen is open or `Excused`: by a ceiling that has passed, or by a row of an earlier play that starts after it.
`OnTime`: a frame of a live link speaks of the play on screen, before that play has a row. `Dated` keeps the plays
and the clock apart, since a play may last. The sweeps and the ends rewrite rows without adding or losing one
(`Rewrites`), and with the panel's stamps only `SweepRewrites` has work to do: what closes the row on screen is the
least of the later starts, and no play but an earlier one can have such a start. Nothing is assumed of leads,
ceilings and the skew. From it:
`TypeCorrect`, `OneRowAPlay`, `OnScreenIsOpen` and the action property `LeavesSentOrEvicted`.

`DisplayProofs`, the queue. A command can be in three places before it runs: the queue, the poll a panel
waits for, the wire. `Placed` says that a display with a socket uses one of them at a time; `Numbered` that
no command is beyond the last one issued; `AllFresh` that whatever is in one of the three is newer than what ran of
its type; `WireInOrder` that the wire carries each type in order. With `TypeOK`, `NewerWins` and
`ScreenIsCurrent` these are the invariant. The flush is the step that needs work: `FlushIs` shows that what it
sends is each entry once with the playlist behind, and `OneOfAType` that the Map holds one entry of a type, so
the flushed commands keep `WireInOrder`. From it: `QueueTypeCorrect`, `ConnectedIsCurrent`, `NoOldCommand`, and the
action property `DropsAreExcused` (an entry leaves the queue
replaced, expired, sent, unsendable to a panel, or lost with the process).

`DisplayProofs`, the gates. `CeilingHolds` counts admissions, the throttle counts hits. `Covers` ties the two:
one by one the newest hits are no older than the newest admissions, and the bucket has not been idle longer
than any of them, so the sweep forgets no bucket an admission in the window still depends on. A display is let
in only when its hits, this one included, are within the ceiling, so admissions in a window are too. The bounds of the waits
need the sizes of the windows: `Spread` says that hits above the ceiling are a tick apart, because a rejection blocks for
a tick at least, so there are at most `Ceiling + Window` of them; trips are bounded in the same way. `GateInv` is
`World` (types), `Buckets` (the above) and `Waits` (a display that is in waits for nothing). From it:
`GateInvariant`, `GatesTypeCorrect`, `CeilingIsHard`, `NoLongWait`. `NoLongWait` bounds one wait, not their number: that
a display gets in is the liveness property `ComesBack`.

`AiCreditsProofs`. `DeliveredIsCharged` needs to know what a request may rely on. `LiveIsPending`:
while the provider is asked the reservation is pending and no older than the timeout; from then on it is
pending, or older than timeout and five minutes together, because the sweep compares strictly with a window that is
no shorter (`WindowCovers`). No assumption bounds an ingest. `Fresh`: a key never used has age zero, so a reservation starts young. `NeverNegative`
is carried along: a debit takes at most what is there from the first bucket and the rest, which the
check has seen, from the second. From it: `CreditsTypeCorrect`, `NoFreeImage`, `NeverOverdrawn`.

The books (`BooksBalance`) are an equation between sums over the reservations and orders of an organization.
`SumFunction` is a fold of the library, a recursion over sets; `SumExists` and `SumIs` show that it has
its solution, by induction over the size of the set stated of a set of numbers (`NumbersByInduction`), and
`SumTakes`, `SumJoins` and `SumLeaves` what one element more or less does to it. The rest is one lemma a step:
a reservation adds to the sum what it debits, a release takes from it what it credits, a purchase adds an order.
`FewAreUsed` keeps the sums finite whatever the sets of keys and orders are. `GrantsStayWithinBill` needs
`NothingInAdvance` (no grant for a month to come), that what an organization is entitled to is the bill of a number of
screens that were used, or nothing, which is the bill of none (`EntitledToABill`, `NothingIsABill`), and that a
top-up raises the grant to the entitlement, never past it. Nothing is assumed of the rate table: it need not be monotonic.

Every safety property a passing run checks is stated by a theorem, and so is the refinement. Model-checked
only: the liveness properties (`GoneIsNoticed`, both `Drains`, `Converges`, `LogIsReleased`, `DeferralLifts`,
`ComesBack`, `RolloutMoves`, `ScreensGoBack`, `BacklogDrains`, `Settles`), because liveness under fairness is outside the prover's reach,
and the refuted statements.

## 7 What is not modelled

- The register of a replica's screen (two questions to the primary, cached verdicts), provisioning
  and the relay of commands through a replica; several hops of the mesh, periodic reports, content
  caching on a replica.
- Replication: sharing another workspace over an existing edge, rows that change workspace, skipped
  accounts, the volatile device columns that ride another envelope.
- The shared bucket of connections without an identity, and the lockouts of pairing and login.
- Rollouts: the update breaker's rates, switches per device, Android (it has nothing to go back to),
  embedded firmware, the hashing of a package before it is offered. The order of the screens is cached for a
  minute, so a change of the fleet shows that much later; a forced check while apt runs, packages other than the
  player's that an opted-in screen installs, and screens after they are deleted.
- Mirrors beyond their soft refusals; a deleted original also deletes its mirrors.
- Per-type refusals of `deliverCommand` (capabilities, corporate policy, payload checks), the
  two types that are never queued, and request ids: a caller whose queued request is replaced
  waits for its own timeout.
- Throttling and deduplication of play events as seen by the rollup: to it a play is a fresh row. (What the applier
  of a replica's plays skips is in `PlayerOutbox`.)
- Offline plays: the two-second throttle, a panel clock that is set during a run (its lead is constant in a behaviour),
  plays older than thirty days, ceilings that differ by content, stale content ids,
  layout rows and zones, followers of a wall, previews, skipped bundles; the copies of the queue in the
  Tizen, legacy and Android players (the Android player does clear the play begun offline).
- Credits: the accrual of online seconds and the rounding of the bill, the rate card, subscriptions,
  dunning; a read of the database that fails right after an image's row was written. The sums stand for the
  ledger's rows, and the server's clock runs steadily.
- Coalescing writers, walls, schedules, uploads: parts with state of their
  own that no module covers; `PROJECT.json` says for each what it keeps.
- Rendering, transcoding, third-party protocols, presentation, translations and request-scoped
  access rules, which are most of the repository by volume: data transformation, external processes
  or no state of their own.
- Client code beyond the updater's check and install and the web player's plays: displays may do anything a socket allows, in
  any order.

## 8 Plan

Done, in this order: `DeviceSession`, its proofs; `PlayRollup`, its proofs; `PlayReport`;
`CommandQueue`; `PlayerOutbox` with `EventRelay`, its proofs; `Replication`, its proofs; `Admission`;
`OtaRollout`, its proofs; `OfflinePlays`, its proofs; `AiCredits`, its proofs, then the balance of its books;
the proofs of `CommandQueue` and `Admission`; the refinement of `EventRelay`.

Worth proving next: safety parts of what is only checked as liveness (what a sweep of the rollup leaves in
its queue, what a finished snapshot leaves out), and what holds of reports although their seam
counts an hour twice.

Worth modelling next: `ReplicaRegister` (the two awaits of a replica's register against closes and a
second socket), `StatusLogWriter` and `UsageAccrual` (buffers and intervals against failing
transactions), `WallLeader` (three elections), `UploadSession`, and `ScheduleEval` and
`PowerWindow` as operators checked against a reference definition.
