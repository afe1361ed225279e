---------------------------- MODULE PlayerOutbox ----------------------------
(***************************************************************************)
(* Screens attached to a replica: their events wait in a durable outbox    *)
(* (lib/mesh/player-termination.js, table mesh_player_events) and are      *)
(* written one at a time to the primary, which applies each under the      *)
(* idempotency record of lib/mesh/node-write.js (table mesh_write_ops).    *)
(*                                                                         *)
(* One edge: outboxes are per edge and share nothing.  Event n is the n-th *)
(* one a screen reported; its number is its op id.  Two kinds stand for    *)
(* the rest: "play" (a row each) and "beat" (COALESCE_KINDS: one row per   *)
(* screen).  Debug logs are never queued and are left out.  A play stands  *)
(* for its start; the numbers are in the order of the replica's stamps.    *)
(***************************************************************************)
EXTENDS Integers, Sequences, FiniteSets, FiniteSetsExt, Functions

CONSTANTS Screens,
          Removable,   \* screens the primary's operator may delete
          MaxRows,     \* OUTBOX_MAX_ROWS_PER_EDGE
          Batch,       \* DRAIN_BATCH
          MayOrphan,   \* the primary may die inside an application
          MaxEvents,   \* bound: events reported
          MaxFaults    \* bound: restarts, lost links, slow answers, failed writes

ASSUME OutboxAssumption ==
         /\ Removable \subseteq Screens /\ MayOrphan \in BOOLEAN
         /\ MaxRows \in Nat /\ Batch \in Nat \ {0} /\ MaxEvents \in Nat /\ MaxFaults \in Nat

VARIABLES accepted,  \* the events reported, in order: [screen, kind]
          outbox,    \* mesh_player_events: row id |-> op id; rows are ordered by id
          batch,     \* rows the drain read and has not finished; it waits for the first
          backoff,   \* backoffUntil lies ahead
          up,        \* the edge has a socket
          wire,      \* requests on their way; `live': the drain still waits for its answer
          reply,     \* the answer to the live request
          record,    \* mesh_write_ops: op id |-> "none", "running", "done"
          known,     \* screens the primary has
          applied,   \* op ids whose applier ran at the primary, in order
          last,      \* lastPlayLogAt: per screen the newest play logged, 0 for none
          thinned,   \* plays whose applier left no row: too soon after that one
          swallowed, \* plays whose applier threw and caught it itself
          refused,   \* history: events refused at the row cap
          expired,   \* history: op ids of rows deleted for their age
          faults

replica == <<outbox, batch, backoff>>
plays   == <<last, thinned, swallowed>>
primary == <<record, known, applied, plays>>
history == <<refused, expired>>
vars == <<accepted, replica, up, wire, reply, primary, history, faults>>

Event == 1..MaxEvents
Kind == {"play", "beat"}
Reply == {"none", "ok", "unknown", "refused"}
Rows == UNION {[ids -> Event] : ids \in SUBSET Event}
NoRows == [i \in {} |-> 0]
NoneLogged == [s \in Screens |-> 0]

Play(n) == accepted[n].kind = "play"
Ids == DOMAIN outbox
First(rows) == rows[Min(DOMAIN rows)]
Draining == batch # NoRows
Handed == Range(applied)
Recorded == Handed \ (thinned \cup swallowed)

TypeOK ==
  /\ accepted \in Seq([screen: Screens, kind: Kind]) /\ Len(accepted) <= MaxEvents
  /\ outbox \in Rows /\ batch \in Rows /\ backoff \in BOOLEAN /\ up \in BOOLEAN
  /\ wire \subseteq [op: 1..Len(accepted), live: BOOLEAN] /\ reply \in Reply
  /\ record \in [Event -> {"none", "running", "done"}] /\ known \subseteq Screens
  /\ applied \in Seq(1..Len(accepted)) /\ faults \in 0..MaxFaults
  /\ last \in [Screens -> 0..Len(accepted)]
  /\ thinned \subseteq 1..Len(accepted) /\ swallowed \subseteq 1..Len(accepted)
  /\ refused \subseteq 1..Len(accepted) /\ expired \subseteq 1..Len(accepted)
  /\ Range(outbox) \cup Range(batch) \cup Ids \cup DOMAIN batch \subseteq 1..Len(accepted)

Init ==
  /\ accepted = <<>> /\ outbox = NoRows /\ batch = NoRows /\ backoff = FALSE
  /\ up = FALSE /\ wire = {} /\ reply = "none"
  /\ record = [n \in Event |-> "none"] /\ known = Screens /\ applied = <<>>
  /\ last = NoneLogged /\ thinned = {} /\ swallowed = {}
  /\ refused = {} /\ expired = {} /\ faults = 0

Fault == faults < MaxFaults /\ faults' = faults + 1

-----------------------------------------------------------------------------
(* The drain loop.                                                         *)

Unanswered == {[m EXCEPT !.live = FALSE] : m \in wire}
Newest(ids) == {i \in ids : Cardinality({j \in ids : j > i}) < Batch}  \* mutant: ORDER BY id DESC
Oldest(ids) == {i \in ids : Cardinality({j \in ids : j < i}) < Batch}

(* The loop goes on with these rows: it writes the first one and waits, or *)
(* finds the primary unreachable and leaves.                               *)
Sending(rows, link) ==
  \/ /\ link /\ rows # NoRows /\ batch' = rows /\ backoff' = FALSE
     /\ wire' = wire \cup {[op |-> First(rows), live |-> TRUE]}
  \/ /\ ~(link /\ rows # NoRows) /\ batch' = NoRows /\ backoff' = (rows # NoRows)
     /\ UNCHANGED wire

(* drainEdge: at most one per edge, not before the backoff has passed.     *)
Drain(box, link) == Sending(Restrict(box, Oldest(DOMAIN box)), link)
Kick(box) == IF Draining \/ backoff THEN UNCHANGED <<batch, backoff, wire>> ELSE Drain(box, up)

Tick ==
  /\ ~Draining /\ ~backoff /\ outbox # NoRows /\ Drain(outbox, up)
  /\ UNCHANGED <<accepted, outbox, up, reply, primary, history, faults>>

BackoffPasses ==
  /\ backoff /\ backoff' = FALSE
  /\ UNCHANGED <<accepted, outbox, batch, up, wire, reply, primary, history, faults>>

LeaveBusy == batch' = batch /\ backoff' = TRUE   \* mutant: inFlight is not released
Leave == batch' = NoRows /\ backoff' = TRUE

Delete(id) == outbox' = Restrict(outbox, Ids \ {id})

AnsweredAnyhow ==   \* mutant: a refusal is taken for an answer
  /\ reply # "none" /\ reply' = "none"
  /\ \/ reply # "unknown" /\ Delete(Min(DOMAIN batch))
        /\ Sending(Restrict(batch, DOMAIN batch \ {Min(DOMAIN batch)}), up)
     \/ reply = "unknown" /\ Leave /\ UNCHANGED <<outbox, wire>>
  /\ UNCHANGED <<accepted, up, primary, history, faults>>

(* The answer to the row in flight.  An application deletes the row and    *)
(* goes on; anything else counts an attempt and leaves the loop.           *)
Answered ==
  /\ reply # "none" /\ reply' = "none"
  /\ \/ reply = "ok" /\ Delete(Min(DOMAIN batch))
        /\ Sending(Restrict(batch, DOMAIN batch \ {Min(DOMAIN batch)}), up)
     \/ reply # "ok" /\ Leave /\ UNCHANGED <<outbox, wire>>
  /\ UNCHANGED <<accepted, up, primary, history, faults>>

(* Fifteen seconds without an answer: it was lost, or is slow.             *)
Silent == ~\E m \in wire : m.live
GivesUp ==
  /\ Draining /\ reply = "none" /\ Leave /\ wire' = Unanswered
  /\ UNCHANGED <<accepted, outbox, up, reply, primary, history>>
NoAnswer == Silent /\ GivesUp /\ UNCHANGED faults
SlowAnswer == ~Silent /\ GivesUp /\ Fault

-----------------------------------------------------------------------------
(* Screens report events: forwardEvent.                                    *)

RowOf(s, k, n) ==
  LET same == {i \in Ids : accepted[i] = [screen |-> s, kind |-> "beat"]}
  IN  IF k = "beat" /\ same # {} THEN Min(same) ELSE n

Queued(id, n) == [i \in Ids \cup {id} |-> IF i = id THEN n ELSE outbox[i]]

Full(k) == k = "play" /\ Cardinality(Ids) >= MaxRows

Report(s, k) ==
  LET n == Len(accepted) + 1 IN
  /\ n <= MaxEvents /\ accepted' = Append(accepted, [screen |-> s, kind |-> k])
  /\ \/ /\ Full(k) /\ refused' = refused \cup {n}
        /\ UNCHANGED <<replica, wire>>
     \/ /\ ~Full(k) /\ outbox' = Queued(RowOf(s, k, n), n) /\ Kick(outbox')
        /\ UNCHANGED refused
  /\ UNCHANGED <<up, reply, primary, expired, faults>>

(* The oldest row is fourteen days old.                                    *)
Expire ==
  /\ outbox # NoRows /\ expired' = expired \cup {First(outbox)} /\ Delete(Min(Ids))
  /\ UNCHANGED <<accepted, batch, backoff, up, wire, reply, primary, refused, faults>>

-----------------------------------------------------------------------------
(* The primary: applyPlayerOp.  A request nobody waits for any more is     *)
(* applied like any other, until its own deadline.                         *)

Replies(m, r) ==
  /\ wire' = wire \ {m} /\ reply' = IF m.live THEN r ELSE reply
  /\ UNCHANGED <<accepted, replica, up, known, history>>

Replay(m) ==
  /\ record[m.op] # "none"
  /\ Replies(m, IF record[m.op] = "done" THEN "ok" ELSE "unknown")
  /\ UNCHANGED <<record, applied, plays, faults>>

RefuseScreen(m) ==
  /\ record[m.op] = "none" /\ accepted[m.op].screen \notin known
  /\ Replies(m, "refused") /\ UNCHANGED <<record, applied, plays, faults>>

ClaimableAgain(m) == record[m.op] # "done" /\ accepted[m.op].screen \in known   \* mutant: a claim left behind is taken over
Claimable(m) == record[m.op] = "none" /\ accepted[m.op].screen \in known

(* The play applier answers ok whatever it does: it logs the play, or skips*)
(* it because its stamp is less than two seconds after the screen's last   *)
(* logged play or before it, or its insert throws when `last' has moved.   *)
Screen(n) == accepted[n].screen
MayLog(n) == Play(n) => last[Screen(n)] < n
MaySkip(n) == Play(n) /\ last[Screen(n)] # 0
Logged(n) == IF Play(n) THEN [last EXCEPT ![Screen(n)] = n] ELSE last

Takes(n) ==
  \/ MayLog(n) /\ last' = Logged(n) /\ UNCHANGED <<thinned, swallowed, faults>>
  \/ MaySkip(n) /\ thinned' = thinned \cup {n} /\ UNCHANGED <<last, swallowed, faults>>
  \/ /\ Play(n) /\ MayLog(n) /\ Fault
     /\ last' = Logged(n) /\ swallowed' = swallowed \cup {n} /\ UNCHANGED thinned

Apply(m) ==
  /\ Claimable(m) /\ Replies(m, "ok") /\ Takes(m.op)
  /\ record' = [record EXCEPT ![m.op] = "done"] /\ applied' = Append(applied, m.op)

(* The claim or a write before the applier throws, or an applier other than*)
(* the plays' does, which may have had an effect: the claim is taken back. *)
ApplyFails(m) ==
  /\ Claimable(m) /\ Replies(m, "unknown") /\ Fault
  /\ applied' \in {applied} \cup (IF Play(m.op) THEN {} ELSE {Append(applied, m.op)})
  /\ UNCHANGED <<record, plays>>

Arrives(m) == Replay(m) \/ RefuseScreen(m) \/ Apply(m) \/ ApplyFails(m)

(* The link is lost, with the answer on its way or after it; the primary   *)
(* may have restarted.                                                     *)
Cut == up' = FALSE /\ wire' = Unanswered /\ reply' \in {reply, "none"}

LinkDown ==
  /\ up /\ Cut /\ Fault /\ last' \in {last, NoneLogged}
  /\ UNCHANGED <<accepted, replica, record, known, applied, thinned, swallowed, history>>

(* The process dies between the claim and the end of the application.      *)
Orphan(m) ==
  /\ MayOrphan /\ Claimable(m) /\ Cut /\ Fault
  /\ record' = [record EXCEPT ![m.op] = "running"] /\ last' = NoneLogged
  /\ \/ UNCHANGED <<applied, thinned>>
     \/ /\ applied' = Append(applied, m.op)
        /\ \/ MayLog(m.op) /\ UNCHANGED thinned
           \/ MaySkip(m.op) /\ thinned' = thinned \cup {m.op}
  /\ UNCHANGED <<accepted, replica, known, swallowed, history>>

(* A socket again: resume forgets the backoff and drains.                  *)
LinkUp ==
  /\ ~up /\ up' = TRUE
  /\ IF Draining THEN backoff' = FALSE /\ UNCHANGED <<batch, wire>> ELSE Drain(outbox, TRUE)
  /\ UNCHANGED <<accepted, outbox, reply, primary, history, faults>>

(* The replica's process dies; the table is all that is left.              *)
Restart ==
  /\ Fault /\ up' = FALSE /\ batch' = NoRows /\ backoff' = FALSE
  /\ wire' = Unanswered /\ reply' = "none"
  /\ UNCHANGED <<accepted, outbox, primary, history>>

RemoveScreen(s) ==
  /\ known' = known \ {s}
  /\ UNCHANGED <<accepted, replica, up, wire, reply, record, applied, plays, history, faults>>

Next ==
  \/ Tick \/ BackoffPasses \/ Answered \/ NoAnswer \/ SlowAnswer
  \/ \E s \in Screens, k \in Kind : Report(s, k)
  \/ Expire
  \/ \E m \in wire : Arrives(m) \/ Orphan(m)
  \/ LinkDown \/ LinkUp \/ Restart
  \/ \E s \in Removable \cap known : RemoveScreen(s)

Spec == Init /\ [][Next]_vars

(* The timers and callbacks of both processes run; a lost link is made     *)
(* again.  Nothing is assumed of a request nobody waits for, of screens or *)
(* of expiry, and faults are bounded.                                      *)
FairSpec ==
  /\ Spec /\ WF_vars(Tick) /\ WF_vars(BackoffPasses) /\ WF_vars(Answered)
  /\ WF_vars(NoAnswer) /\ WF_vars(LinkUp) /\ WF_vars(\E m \in wire : m.live /\ Arrives(m))

-----------------------------------------------------------------------------
(* A play is applied once, and after every earlier play unless that one    *)
(* was given up for its age, whatever was lost, repeated or restarted.     *)
PlaysOnceInOrder ==
  \A i, j \in DOMAIN applied :
     i < j /\ Play(applied[i]) /\ Play(applied[j])
       => applied[i] < applied[j] \/ (applied[i] # applied[j] /\ applied[j] \in expired)

(* A play that was not refused at the cap or given up for its age is in    *)
(* the outbox or has a row at the primary: no answer deletes a row of the  *)
(* outbox the primary has not applied.  Two are missing for what the play  *)
(* applier does: one whose insert threw, and one skipped behind another of *)
(* its screen that was logged or lost to such an exception.                *)
NothingVanishes ==
  \A n \in 1..Len(accepted) : Play(n) =>
     \/ n \in Range(outbox) \cup Recorded \cup refused \cup expired \cup swallowed
     \/ n \in thinned /\ \E m \in Recorded \cup swallowed : accepted[m] = accepted[n]

(* Proof-of-play is never thinned and never dropped (header).  TLC refutes *)
(* it: the applier answers ok for a play it skipped or could not insert,   *)
(* and the replica deletes the row.                                        *)
NeverThinned ==
  \A n \in 1..Len(accepted) : Play(n) => n \in Range(outbox) \cup Recorded \cup refused \cup expired

(* The last heartbeat, state or screenshot a screen reported is what the   *)
(* primary shows once it no longer waits (header: kinds coalesce last-wins *)
(* by device and kind).  TLC refutes it: the older payload's               *)
(* acknowledgement deletes the row of the newer one.                       *)
Beats(s) == {n \in 1..Len(accepted) : accepted[n] = [screen |-> s, kind |-> "beat"]}
Shown(s) == {applied[i] : i \in {j \in DOMAIN applied :
               applied[j] \in Beats(s) /\ \A k \in DOMAIN applied : applied[k] \in Beats(s) => k <= j}}
LastWins ==
  \A s \in Screens :
     Beats(s) # {} /\ Beats(s) \cap (Range(outbox) \cup expired) = {} => Shown(s) = {Max(Beats(s))}

(* The replica keeps the promise of EventRelay: what it calls waiting,     *)
(* given up and delivered are the plays among the rows, the expired and    *)
(* the applied events (SelectSeq(applied, Play), by rank).                 *)
Waiting == {n \in Range(outbox) \ Handed : Play(n)}
GivenUp == {n \in expired \ Handed : Play(n)}
PlayedAt == {i \in DOMAIN applied : Play(applied[i])}
Ranked(S, k) == {i \in S : Cardinality({j \in S : j <= i}) = k}
Nth(S, k) == CHOOSE i \in Ranked(S, k) : TRUE
Delivered == [k \in 1..Cardinality(PlayedAt) |-> applied[Nth(PlayedAt, k)]]
Relay == INSTANCE EventRelay WITH
           waiting <- Waiting, expired <- GivenUp, delivered <- Delivered,
           unlogged <- thinned \cup swallowed, newest <- Len(accepted)
KeepsThePromise == Relay!Spec

(* The drain ends: only the oldest row can stop it, when its screen is     *)
(* gone from the primary or its claim was left behind by a crash.          *)
Blocked ==
  outbox # NoRows /\ (accepted[First(outbox)].screen \notin known \/ record[First(outbox)] = "running")
Drains == []<>(outbox = NoRows \/ Blocked)
=============================================================================
