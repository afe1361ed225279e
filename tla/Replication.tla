----------------------------- MODULE Replication -----------------------------
(***************************************************************************)
(* The copy of shared workspaces on a replica: the change log and the reads*)
(* of the primary (lib/mesh/replication.js, lib/mesh/node-data.js,         *)
(* services/mesh-uplink.js) and the loop that applies them                 *)
(* (lib/mesh/replica.js).                                                  *)
(*                                                                         *)
(* One primary, one replica.  A row is a number, its content the stamp of  *)
(* its last write, 0 when there is no such row.  Row 1 is the workspace's  *)
(* own row, which also carries the position on the replica; row 2 owns the *)
(* rows Children, deleted with it.  A table page is one row long.          *)
(***************************************************************************)
EXTENDS Integers, FiniteSets

CONSTANTS LastRow,     \* rows are 1..LastRow
          Children,    \* rows deleted with row 2 (ON DELETE CASCADE)
          Scoped,      \* rows with a workspace_id column of their own
          Limit,       \* PAGE: entries of one answer
          MaxWrites,   \* bound: writes at the primary
          MaxRejoins,  \* bound: times the grant is withdrawn
          MaxFaults    \* bound: failed reads and restarts of the replica

Row == 1..LastRow
Workspace == 1
Parent == 2
None == -1

ASSUME ReplicationAssumption ==
         /\ LastRow \in Nat /\ LastRow >= Parent
         /\ Children \subseteq Row \ {Workspace, Parent} /\ Scoped \subseteq Row
         /\ Limit \in Nat \ {0}
         /\ MaxWrites \in Nat \ {0} /\ MaxRejoins \in Nat /\ MaxFaults \in Nat

VARIABLES primary,   \* the rows of the shared workspace at the primary
          stamp,     \* writes so far
          log,       \* mesh_change_log: [rev, row, op]; row 0 is another workspace's
          rev,       \* the last revision handed out (AUTOINCREMENT)
          granted,   \* an active edge grants workspace-replication: the triggers exist
          acked,     \* mesh_edges.acked_rev
          copy,      \* the rows of the workspace on the replica
          position,  \* workspaces.replica_rev, None when NULL
          applied,   \* lastAppliedRev in memory
          at,        \* where sync stands
          since, head, cursor, page, upto,   \* its local variables
          missed,    \* history: rows whose last change no log entry tells the replica
          rejoins, faults

source == <<primary, stamp, log, rev, granted>>
local == <<since, head, cursor, page, upto>>
vars == <<source, acked, copy, position, applied, at, local, missed, rejoins, faults>>

Op == {"upsert", "delete"}
Entry == [rev: Nat, row: 0..LastRow, op: Op]
Stage == {"idle", "snapshot", "head", "page", "rows", "mark"}

TypeOK ==
  /\ primary \in [Row -> 0..MaxWrites] /\ copy \in [Row -> 0..MaxWrites] /\ stamp \in 0..MaxWrites
  /\ log \subseteq Entry /\ page \subseteq Entry /\ rev \in Nat /\ granted \in BOOLEAN
  /\ acked \in Nat /\ since \in Nat /\ head \in Nat /\ upto \in Nat
  /\ position \in Nat \cup {None} /\ applied \in Nat \cup {None}
  /\ at \in Stage /\ cursor \in 1..(LastRow + 1) /\ missed \subseteq Row
  /\ rejoins \in 0..MaxRejoins /\ faults \in 0..MaxFaults

(* A workspace that was never shared before, with whatever rows it has.    *)
Init ==
  /\ primary \in [Row -> {0, 1}] /\ primary[Workspace] = 1
  /\ (primary[Parent] = 0 => \A c \in Children : primary[c] = 0)
  /\ stamp = 1 /\ log = {} /\ rev = 0 /\ granted = TRUE /\ acked = 0
  /\ copy = [r \in Row |-> 0] /\ position = None /\ applied = None
  /\ at = "idle" /\ since = 0 /\ head = 0 /\ cursor = 1 /\ page = {} /\ upto = 0
  /\ missed = {} /\ rejoins = 0 /\ faults = 0

-----------------------------------------------------------------------------
(* Writes at the primary, and their triggers.                              *)

CanWrite == stamp < MaxWrites /\ stamp' = stamp + 1

(* The triggers log these rows.  Revisions matter by their order only: a   *)
(* statement takes a block of them, the row it names the last of its own.  *)
Logs(rows, op) ==
  IF granted
    THEN /\ log' = log \cup {[rev |-> rev + 1 + LastRow - r, row |-> r, op |-> op] : r \in rows}
         /\ rev' = rev + 1 + LastRow
    ELSE UNCHANGED <<log, rev>>

Told(rows, logged) ==
  missed' = IF granted THEN (missed \cup rows) \ logged ELSE missed \cup rows

OwnerIsThere(r) == r \in Children => primary[Parent] # 0

Write(r) ==
  /\ CanWrite /\ OwnerIsThere(r)
  /\ primary' = [primary EXCEPT ![r] = stamp'] /\ Logs({r}, "upsert") /\ Told({r}, {r})
  /\ UNCHANGED <<granted, acked, copy, position, applied, at, local, rejoins, faults>>

Gone(r) == {r} \cup (IF r = Parent THEN {c \in Children : primary[c] # 0} ELSE {})

(* A row that names its workspace through row 2 finds no workspace once    *)
(* row 2 is gone, and its delete trigger logs nothing.                     *)
Logged(r) == {q \in Gone(r) : q = r \/ q \in Scoped}

Remove(r) ==
  /\ CanWrite /\ r # Workspace /\ primary[r] # 0
  /\ primary' = [q \in Row |-> IF q \in Gone(r) THEN 0 ELSE primary[q]]
  /\ Logs(Logged(r), "delete") /\ Told(Gone(r), Logged(r))
  /\ UNCHANGED <<granted, acked, copy, position, applied, at, local, rejoins, faults>>

(* A write in a workspace this edge does not share.                        *)
WriteElsewhere ==
  /\ CanWrite /\ Logs({0}, "upsert")
  /\ UNCHANGED <<primary, granted, acked, copy, position, applied, at, local, missed, rejoins, faults>>

(* pruneLog: what every active edge acknowledged and is old enough.  Age   *)
(* only keeps more, so any cut below the acknowledgement may be made.      *)
Cuttable == 1..acked
Prune ==
  /\ granted
  /\ \E cut \in Cuttable :
       /\ \E e \in log : e.rev <= cut
       /\ log' = {e \in log : e.rev > cut}
  /\ UNCHANGED <<primary, stamp, rev, granted, acked, copy, position, applied, at, local, missed, rejoins, faults>>

(* The edge is revoked: the triggers go in the same call, reads fail.      *)
Revoke ==
  /\ granted /\ rejoins < MaxRejoins /\ rejoins' = rejoins + 1 /\ granted' = FALSE
  /\ at' = IF at = "mark" THEN at ELSE "idle"
  /\ UNCHANGED <<primary, stamp, log, rev, acked, copy, position, applied, local, missed, faults>>

(* The replica joins again: the edge's row is reused, its acknowledgement  *)
(* starts over and the replica keeps its position.                         *)
Rejoin ==
  /\ ~granted /\ granted' = TRUE /\ acked' = 0
  /\ UNCHANGED <<primary, stamp, log, rev, copy, position, applied, at, local, missed, rejoins, faults>>

-----------------------------------------------------------------------------
(* The replica's loop.  Reading asks the primary, whose worker runs each   *)
(* query on its own: writes come between them.                             *)

Last(S) == {n \in {e.rev : e \in S} : \A e \in S : e.rev <= n}
HeadRev == IF log = {} THEN {0} ELSE Last(log)

(* A request for the changes since s acknowledges s (recordAck).           *)
AskAhead(s) ==   \* mutant: the head is acknowledged
  /\ at' = "head" /\ since' = s /\ \E h \in HeadRev : acked' = IF h > acked THEN h ELSE acked
Ask(s) ==
  /\ at' = "head" /\ since' = s /\ acked' = IF s > acked THEN s ELSE acked

(* The first copy, or another attempt at it.  It only adds and replaces:   *)
(* what an attempt that failed left behind is not told of older deletes.   *)
SyncFromScratch ==
  /\ granted /\ at = "idle" /\ applied = None
  /\ at' = "snapshot" /\ head' \in HeadRev /\ cursor' = 1
  /\ missed' = missed \cup {r \in Row : copy[r] # 0}
  /\ UNCHANGED <<source, acked, copy, position, applied, since, page, upto, rejoins, faults>>

(* One page of one table: the rows there are, upserted.  The workspace's   *)
(* own row arrives without a position.                                     *)
Untagged(rows) == position' = IF Workspace \in rows THEN None ELSE position

SnapshotPage ==
  /\ granted /\ at = "snapshot" /\ cursor <= LastRow /\ cursor' = cursor + 1
  /\ LET found == {cursor} \cap {r \in Row : primary[r] # 0} IN
       /\ copy' = [r \in Row |-> IF r \in found THEN primary[r] ELSE copy[r]]
       /\ missed' = missed \ found /\ Untagged(found)
  /\ UNCHANGED <<source, acked, applied, at, since, head, page, upto, rejoins, faults>>

SnapshotDone ==
  /\ granted /\ at = "snapshot" /\ cursor > LastRow /\ Ask(head)
  /\ UNCHANGED <<source, copy, position, applied, head, cursor, page, upto, missed, rejoins, faults>>

SyncOnwards ==
  /\ granted /\ at = "idle" /\ applied # None /\ Ask(applied)
  /\ UNCHANGED <<source, copy, position, applied, head, cursor, page, upto, missed, rejoins, faults>>

(* changesSince: the head first, then the entries, then the rows.          *)
ReadHead ==
  /\ granted /\ at = "head" /\ at' = "page" /\ head' \in HeadRev
  /\ UNCHANGED <<source, acked, copy, position, applied, since, cursor, page, upto, missed, rejoins, faults>>

Shared == {e \in log : e.row # 0 /\ e.rev > since}
Full(S) == Cardinality(S) = Limit
FirstOf(S) ==   \* the first Limit entries; all of them when there are fewer
  {P \in SUBSET S : /\ \A e \in P, f \in S : f.rev < e.rev => f \in P
                    /\ Cardinality(P) <= Limit /\ (Full(P) \/ P = S)}
End(P) == IF P = {} THEN {since} ELSE Last(P)
NotParked(P, n) == n   \* mutant: a short page stays where it ends
Parked(P, n) == IF ~Full(P) /\ head > n THEN head ELSE n

ReadPage ==
  /\ granted /\ at = "page" /\ at' = "rows"
  /\ \E P \in FirstOf(Shared) : \E n \in End(P) : page' = P /\ upto' = Parked(P, n)
  /\ UNCHANGED <<source, acked, copy, position, applied, since, head, cursor, missed, rejoins, faults>>

(* The last entry of each row decides; a row that is no longer there is    *)
(* reported as deleted.  The answer is applied in one transaction.         *)
Rows(S) == {e.row : e \in S}
DeletedOnce(r) == \E e \in page : e.row = r /\ e.op = "delete"   \* mutant: any entry decides
Deleted(r) ==
  \E e \in page : e.row = r /\ e.op = "delete" /\ \A f \in page : f.row = r => f.rev <= e.rev
Answer(r) == IF Deleted(r) THEN 0 ELSE primary[r]

ApplyPage ==
  /\ granted /\ at = "rows" /\ at' = "mark"
  /\ copy' = [r \in Row |-> IF r \in Rows(page) THEN Answer(r) ELSE copy[r]]
  /\ Untagged(Rows(page))
  /\ UNCHANGED <<source, acked, applied, local, missed, rejoins, faults>>

(* The position, in memory and on every copied workspace; a full page has  *)
(* a successor.                                                            *)
ReachedHead == IF Full(page) THEN {upto} ELSE HeadRev   \* mutant: the answer's head is taken for its position
Reached == {upto}
Mark ==
  /\ at = "mark" /\ position' \in Reached /\ applied' = position'
  /\ \/ Full(page) /\ granted /\ Ask(position')
     \/ ~(Full(page) /\ granted) /\ at' = "idle" /\ UNCHANGED <<since, acked>>
  /\ UNCHANGED <<source, copy, head, cursor, page, upto, missed, rejoins, faults>>

(* A read is not answered: the pass ends in an error and the next poll     *)
(* starts again from what the memory knows.                                *)
ReadFails ==
  /\ at \notin {"idle", "mark"} /\ faults < MaxFaults /\ faults' = faults + 1 /\ at' = "idle"
  /\ UNCHANGED <<source, acked, copy, position, applied, local, missed, rejoins>>

(* The process is killed; the new one reads its position from the tables.  *)
Restart ==
  /\ faults < MaxFaults /\ faults' = faults + 1 /\ applied' = position
  /\ at' = "idle"
  /\ UNCHANGED <<source, acked, copy, position, local, missed, rejoins>>

Pull == SyncFromScratch \/ SnapshotPage \/ SnapshotDone \/ SyncOnwards
        \/ ReadHead \/ ReadPage \/ ApplyPage \/ Mark

Next ==
  \/ \E r \in Row : Write(r) \/ Remove(r)
  \/ WriteElsewhere \/ Prune \/ Revoke \/ Rejoin \/ Pull \/ ReadFails \/ Restart

Spec == Init /\ [][Next]_vars

(* The loop polls every thirty seconds and on every notice.                *)
FairSpec == Spec /\ WF_vars(Pull) /\ WF_vars(Rejoin)

-----------------------------------------------------------------------------
(* A row that differs has an entry in the log beyond the position in the   *)
(* tables: wherever the loop is and whenever it is killed, what it has not *)
(* applied it will still be told (unless no entry was ever written).       *)
NothingSkipped ==
  position # None =>
    \A r \in Row \ missed :
       copy[r] # primary[r] => \E e \in log : e.row = r /\ e.rev > position

(* What may be pruned was applied: an entry the replica acknowledged lies  *)
(* at or below the position its tables would restart it from.              *)
AckIsDurable == position # None => \A e \in log : e.rev <= acked => e.rev <= position

(* Once the writers stop the copy is the primary's, row for row, except    *)
(* for what was never logged.                                              *)
Converges == <>[](\A r \in Row \ missed : copy[r] = primary[r])

(* Writes of other workspaces do not hold the position back: the whole log *)
(* is acknowledged in the end and can be pruned.                           *)
LogIsReleased == []<>(\A e \in log : e.rev <= acked)

(* replication.js:375: the copy must not hold a row the primary no longer  *)
(* has.  TLC refutes it: a cascade is not logged.                          *)
NoGhostRows == <>[](\A r \in Row : primary[r] = 0 => copy[r] = 0)
=============================================================================
