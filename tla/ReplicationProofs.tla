-------------------------- MODULE ReplicationProofs --------------------------
(***************************************************************************)
(* Type correctness and the two safety invariants of Replication, for any  *)
(* number of rows, writes, failures and re-joins and any page size.        *)
(*                                                                         *)
(* Neither invariant is inductive: both speak of the position kept in the  *)
(* tables, while sync works from a base of its own and half of a pass is   *)
(* not yet marked.  IInv says for every stage what the base guarantees.    *)
(***************************************************************************)
EXTENDS Replication, FiniteSetTheorems, TLAPS

\* The revision from which sync would go on; there is none before the first copy.
Tracking == at # "idle" \/ applied # None
Base == IF at = "idle" THEN applied ELSE IF at = "snapshot" THEN head ELSE since

Pending(r, b) == \E e \in log : e.row = r /\ e.rev > b
Right(r, b) == copy[r] = primary[r] \/ Pending(r, b)
Newest(e) == \A f \in log : f.row = e.row => f.rev <= e.rev

\* Nothing is numbered beyond the last revision, and no two entries alike.
Numbered ==
  /\ \A e \in log : e.rev <= rev
  /\ \A e, f \in log : e.rev = f.rev => e = f
  /\ since <= rev /\ head <= rev /\ upto <= rev /\ acked <= rev /\ applied <= rev

\* The position in the tables is the one in memory, or has been wiped.
Placed ==
  /\ position \in {None, applied}
  /\ at = "snapshot" => applied = None
  /\ at \in {"head", "page", "rows", "mark"} /\ applied # None => since = applied
  /\ at \notin {"idle", "mark"} => granted

Acknowledged == Tracking => \A e \in log : e.rev <= acked => e.rev <= Base

\* A row the base speaks for is right or has an entry beyond the base; one the
\* snapshot has yet to read is not there.
Unread(r) == at = "snapshot" /\ cursor <= r
Safe ==
  Tracking => \A r \in Row \ missed :
                Pending(r, Base) \/ copy[r] = IF Unread(r) THEN 0 ELSE primary[r]

\* A row whose newest entry beyond the base is a delete is gone.
Truthful ==
  Tracking => \A e \in log :
    /\ e.row \in Row /\ e.rev > Base /\ e.op = "delete" /\ Newest(e)
    /\ at = "snapshot" \/ e.row \notin missed
    => primary[e.row] = 0

\* A page that was read is everything up to its end, and a row it deletes
\* wrongly has an entry after it.
PageIsWhole ==
  at = "rows" =>
    /\ since <= upto
    /\ \A e \in log : e.row # 0 /\ e.rev > since /\ e.rev <= upto => e \in page
    /\ \A r \in Row \ missed : Deleted(r) /\ primary[r] # 0 => Pending(r, upto)

Marked == at = "mark" => since <= upto /\ \A r \in Row \ missed : Right(r, upto)

IInv == TypeOK /\ Numbered /\ Placed /\ Acknowledged /\ Safe /\ Truthful /\ PageIsWhole /\ Marked

-----------------------------------------------------------------------------
\* The largest revision of the log is not below any entry's.
LEMMA HeadIsLast ==
  ASSUME TypeOK, Numbered, NEW h \in HeadRev
  PROVE  h \in Nat /\ h <= rev /\ \A e \in log : e.rev <= h
<1>1. CASE log = {}
  BY <1>1 DEF HeadRev, TypeOK
<1>2. CASE log # {}
  <2>1. PICK f \in log : h = f.rev
    BY <1>2 DEF HeadRev, Last
  <2>2. \A e \in log : e.rev <= h
    BY <1>2 DEF HeadRev, Last
  <2>. QED BY <2>1, <2>2 DEF TypeOK, Entry, Numbered
<1>. QED BY <1>1, <1>2

\* The base is never beyond the last revision.
LEMMA BaseIsNumbered ==
  ASSUME TypeOK, Numbered
  PROVE  Base \in Nat \cup {None} /\ Base <= rev
  BY DEF TypeOK, Numbered, Base, None

\* What the triggers add is numbered beyond everything there was.
LEMMA LogsAppends ==
  ASSUME TypeOK, Numbered, NEW rows \in SUBSET (0..LastRow), NEW op \in Op, Logs(rows, op)
  PROVE  /\ log \subseteq log' /\ log' \subseteq Entry /\ rev' \in Nat /\ rev <= rev'
         /\ \A e \in log' : e.rev <= rev'
         /\ \A e, f \in log' : e.rev = f.rev => e = f
         /\ \A e \in log' \ log : e.rev > rev /\ e.row \in rows /\ e.op = op
         /\ granted => \A r \in rows : \E e \in log' \ log : e.row = r
         /\ ~granted => log' = log
<1>. DEFINE new == {[rev |-> rev + 1 + LastRow - r, row |-> r, op |-> op] : r \in rows}
<1>1. CASE ~granted
  BY <1>1 DEF Logs, TypeOK, Numbered
<1>2. CASE granted
  <2>1. log' = log \cup new /\ rev' = rev + 1 + LastRow
    BY <1>2 DEF Logs
  <2>2. rev \in Nat /\ LastRow \in Nat /\ log \subseteq Entry
    BY ReplicationAssumption DEF TypeOK
  <2>3. \A e \in new : /\ e \in Entry /\ e.rev > rev /\ e.rev <= rev' /\ e.row \in rows /\ e.op = op
                        /\ e.rev = rev + 1 + LastRow - e.row
    <3>. SUFFICES ASSUME NEW r \in rows
                  PROVE  /\ rev + 1 + LastRow - r \in Nat /\ r \in 0..LastRow
                         /\ rev + 1 + LastRow - r > rev /\ rev + 1 + LastRow - r <= rev'
      BY DEF Entry
    <3>. QED BY <2>1, <2>2
  <2>4. \A e, f \in new : e.rev = f.rev => e = f
    <3>. SUFFICES ASSUME NEW q \in rows, NEW r \in rows,
                         rev + 1 + LastRow - q = rev + 1 + LastRow - r
                  PROVE  q = r
      OBVIOUS
    <3>. q \in Nat /\ r \in Nat
      BY <2>2
    <3>. QED BY <2>2
  <2>5. \A e \in log : e.rev <= rev /\ e.rev \in Nat /\ e \notin new
    BY <2>2, <2>3 DEF Numbered, Entry
  <2>6. \A e, f \in log' : e.rev = f.rev => e = f
    BY <2>1, <2>2, <2>3, <2>4, <2>5 DEF Numbered, Entry
  <2>7. \A r \in rows : \E e \in new : e.row = r
    <3>. TAKE r \in rows
    <3>. WITNESS [rev |-> rev + 1 + LastRow - r, row |-> r, op |-> op] \in new
    <3>. QED OBVIOUS
  <2>. HIDE DEF new
  <2>8. \A e \in log' : e.rev <= rev'
    BY <2>1, <2>2, <2>3, <2>5
  <2>9. log' \subseteq Entry /\ rev' \in Nat /\ rev <= rev'
    BY <2>1, <2>2, <2>3
  <2>10. \A e \in log' \ log : e \in new
    BY <2>1
  <2>11. \A r \in rows : \E e \in log' \ log : e.row = r
    BY <2>1, <2>5, <2>7
  <2>. QED BY <1>2, <2>1, <2>3, <2>6, <2>8, <2>9, <2>10, <2>11
<1>. QED BY <1>1, <1>2

-----------------------------------------------------------------------------
\* A statement at the primary preserves the invariant when every row it changes
\* is told of in a new entry or counted as missed, and what it logs is true.
LEMMA SourceStep ==
  ASSUME IInv, TypeOK',
         log \subseteq log', rev <= rev',
         \A e \in log' : e.rev <= rev',
         \A e, f \in log' : e.rev = f.rev => e = f,
         \A e \in log' \ log : e.rev > rev,
         UNCHANGED <<granted, acked, copy, position, applied, at, local>>,
         \A r \in Row \ missed' : \/ r \notin missed /\ primary'[r] = primary[r]
                                 \/ \E e \in log' \ log : e.row = r,
         \A e \in log' \ log : e.row \in Row /\ e.op = "delete" => primary'[e.row] = 0,
         \A r \in Row : primary'[r] # 0 /\ primary'[r] # primary[r] =>
                        \/ \E e \in log' \ log : e.row = r
                        \/ ~granted
  PROVE  IInv'
<1>. USE DEF IInv
<1>1. /\ Base' = Base /\ Tracking' = Tracking /\ Base <= rev /\ Base \in Int
      /\ acked <= rev /\ upto <= rev
      /\ acked \in Nat /\ upto \in Nat /\ rev \in Nat /\ rev' \in Nat
  BY BaseIsNumbered DEF Base, Tracking, local, TypeOK, Numbered, None
<1>2. \A e \in log' : e.rev \in Nat
  BY DEF TypeOK, Entry
<1>3. \A r \in Row, b \in Int : Pending(r, b) => Pending(r, b)'
  BY DEF Pending
<1>4. \A r \in Row, b \in Int : b <= rev /\ (\E e \in log' \ log : e.row = r) => Pending(r, b)'
  BY <1>1, <1>2 DEF Pending
<1>5. Numbered'
  BY <1>1 DEF Numbered, TypeOK, local, None
<1>6. Placed'
  BY DEF Placed, local
<1>7. Acknowledged'
  BY <1>1, <1>2 DEF Acknowledged
<1>8. Safe'
  <2>. SUFFICES ASSUME Tracking, NEW r \in Row \ missed'
                PROVE  Pending(r, Base)' \/ copy[r] = IF Unread(r) THEN 0 ELSE primary'[r]
    BY <1>1 DEF Safe, Unread, local
  <2>1. CASE \E e \in log' \ log : e.row = r
    BY <1>1, <1>4, <2>1 DEF Pending
  <2>2. CASE r \notin missed /\ primary'[r] = primary[r]
    BY <1>1, <1>3, <2>2 DEF Safe, Pending
  <2>. QED BY <2>1, <2>2
<1>9. Truthful'
  <2>. SUFFICES ASSUME Tracking, NEW e \in log', e.row \in Row, e.rev > Base, e.op = "delete",
                       Newest(e)', at = "snapshot" \/ e.row \notin missed'
                PROVE  primary'[e.row] = 0
    BY <1>1 DEF Truthful
  <2>1. CASE e \notin log
    BY <2>1
  <2>2. CASE e \in log
    <3>1. ~ \E f \in log' \ log : f.row = e.row
      BY <1>1, <1>2, <2>2 DEF Newest, Numbered
    <3>2. Newest(e)
      BY DEF Newest
    <3>3. CASE at = "snapshot"
      BY <2>2, <3>1, <3>2, <3>3 DEF Truthful, Placed
    <3>4. CASE at # "snapshot"
      BY <2>2, <3>1, <3>2, <3>4 DEF Truthful
    <3>. QED BY <3>3, <3>4
  <2>. QED BY <2>1, <2>2
<1>10. PageIsWhole'
  <2>. SUFFICES ASSUME at = "rows"
                PROVE  /\ since <= upto
                       /\ \A e \in log' : e.row # 0 /\ e.rev > since /\ e.rev <= upto => e \in page
                       /\ \A r \in Row \ missed' :
                            Deleted(r) /\ primary'[r] # 0 => Pending(r, upto)'
    BY DEF PageIsWhole, Deleted, local, Pending
  <2>1. since <= upto
    BY DEF PageIsWhole
  <2>2. \A e \in log' : e.row # 0 /\ e.rev > since /\ e.rev <= upto => e \in page
    BY <1>1, <1>2 DEF PageIsWhole
  <2>3. \A r \in Row \ missed' : Deleted(r) /\ primary'[r] # 0 => Pending(r, upto)'
    BY <1>1, <1>2 DEF PageIsWhole, Pending, local
  <2>. QED BY <2>1, <2>2, <2>3
<1>11. Marked'
  <2>. SUFFICES ASSUME at = "mark"
                PROVE  /\ since <= upto
                       /\ \A r \in Row \ missed' : copy[r] = primary'[r] \/ Pending(r, upto)'
    BY DEF Marked, Right, local, Pending
  <2>1. since <= upto
    BY DEF Marked
  <2>2. \A r \in Row \ missed' : copy[r] = primary'[r] \/ Pending(r, upto)'
    BY <1>1, <1>2 DEF Marked, Right, Pending, local
  <2>. QED BY <2>1, <2>2
<1>. QED BY <1>5, <1>6, <1>7, <1>8, <1>9, <1>10, <1>11

\* The rows a statement changes are told of or counted as missed.
LEMMA WriteInvariant ==
  ASSUME IInv, NEW r \in Row, Write(r)
  PROVE  IInv'
<1>. DEFINE new == {r}
<1>0. new \in SUBSET (0..LastRow) /\ "upsert" \in Op
  BY ReplicationAssumption DEF Row, Op
<1>1. /\ log \subseteq log' /\ log' \subseteq Entry /\ rev' \in Nat /\ rev <= rev'
      /\ \A e \in log' : e.rev <= rev'
      /\ \A e, f \in log' : e.rev = f.rev => e = f
      /\ \A e \in log' \ log : e.rev > rev /\ e.row \in new /\ e.op = "upsert"
      /\ granted => \A q \in new : \E e \in log' \ log : e.row = q
  BY <1>0, LogsAppends DEF IInv, Write
<1>2. stamp' \in 0..MaxWrites /\ missed' \subseteq Row
  BY ReplicationAssumption DEF IInv, TypeOK, Write, CanWrite, Told
<1>3. TypeOK'
  BY <1>1, <1>2 DEF IInv, TypeOK, Write, local
<1>4. \A q \in Row \ missed' : \/ q \notin missed /\ primary'[q] = primary[q]
                               \/ \E e \in log' \ log : e.row = q
  BY <1>1 DEF Write, Told, IInv, TypeOK
<1>5. \A q \in Row : primary'[q] # 0 /\ primary'[q] # primary[q] =>
        (\E e \in log' \ log : e.row = q) \/ ~granted
  BY <1>1 DEF Write, IInv, TypeOK
<1>6. \A e \in log' \ log : e.row \in Row /\ e.op = "delete" => primary'[e.row] = 0
  BY <1>1
<1>7. UNCHANGED <<granted, acked, copy, position, applied, at, local>>
  BY DEF Write
<1>. QED BY <1>1, <1>3, <1>4, <1>5, <1>6, <1>7, SourceStep

LEMMA RemoveInvariant ==
  ASSUME IInv, NEW r \in Row, Remove(r)
  PROVE  IInv'
<1>0. Gone(r) \subseteq Row /\ Logged(r) \subseteq Gone(r)
      /\ Logged(r) \in SUBSET (0..LastRow) /\ "delete" \in Op
  <2>1. Gone(r) \subseteq Row /\ Logged(r) \subseteq Gone(r)
    BY ReplicationAssumption DEF Gone, Logged
  <2>2. Row \subseteq 0..LastRow
    BY ReplicationAssumption DEF Row
  <2>. QED BY <2>1, <2>2 DEF Op
<1>1. /\ log \subseteq log' /\ log' \subseteq Entry /\ rev' \in Nat /\ rev <= rev'
      /\ \A e \in log' : e.rev <= rev'
      /\ \A e, f \in log' : e.rev = f.rev => e = f
      /\ \A e \in log' \ log : e.rev > rev /\ e.row \in Logged(r) /\ e.op = "delete"
      /\ granted => \A q \in Logged(r) : \E e \in log' \ log : e.row = q
  BY <1>0, LogsAppends DEF IInv, Remove
<1>2. stamp' \in 0..MaxWrites /\ missed' \subseteq Row
  BY <1>0, ReplicationAssumption DEF IInv, TypeOK, Remove, CanWrite, Told
<1>3. primary' \in [Row -> 0..MaxWrites]
  BY ReplicationAssumption DEF IInv, TypeOK, Remove
<1>4. TypeOK'
  BY <1>1, <1>2, <1>3 DEF IInv, TypeOK, Remove, local
<1>5. \A q \in Row : primary'[q] = IF q \in Gone(r) THEN 0 ELSE primary[q]
  BY DEF Remove
<1>6. \A q \in Row \ missed' : \/ q \notin missed /\ primary'[q] = primary[q]
                               \/ \E e \in log' \ log : e.row = q
  <2>. SUFFICES ASSUME NEW q \in Row \ missed', ~ \E e \in log' \ log : e.row = q
                PROVE  q \notin missed /\ primary'[q] = primary[q]
    OBVIOUS
  <2>1. granted => q \notin Logged(r)
    BY <1>1
  <2>2. q \notin missed \cup Gone(r)
    BY <2>1 DEF Remove, Told
  <2>. QED BY <1>5, <2>2
<1>7. UNCHANGED <<granted, acked, copy, position, applied, at, local>>
  BY DEF Remove
<1>8. \A e \in log' \ log : e.row \in Row /\ e.op = "delete" => primary'[e.row] = 0
  BY <1>0, <1>1, <1>5
<1>9. \A q \in Row : primary'[q] # 0 => primary'[q] = primary[q]
  BY <1>5
<1>. QED BY <1>1, <1>4, <1>6, <1>7, <1>8, <1>9, SourceStep

LEMMA WriteElsewhereInvariant ==
  ASSUME IInv, WriteElsewhere
  PROVE  IInv'
<1>. DEFINE new == {0}
<1>0. new \in SUBSET (0..LastRow) /\ "upsert" \in Op
  BY ReplicationAssumption DEF Op
<1>1. /\ log \subseteq log' /\ log' \subseteq Entry /\ rev' \in Nat /\ rev <= rev'
      /\ \A e \in log' : e.rev <= rev'
      /\ \A e, f \in log' : e.rev = f.rev => e = f
      /\ \A e \in log' \ log : e.rev > rev /\ e.row \in new
  BY <1>0, LogsAppends DEF IInv, WriteElsewhere
<1>2. stamp' \in 0..MaxWrites
  BY ReplicationAssumption DEF IInv, TypeOK, WriteElsewhere, CanWrite
<1>3. TypeOK'
  BY <1>1, <1>2 DEF IInv, TypeOK, WriteElsewhere, local
<1>4. UNCHANGED <<granted, acked, copy, position, applied, at, local, missed, primary>>
  BY DEF WriteElsewhere
<1>5. \A e \in log' \ log : e.row \notin Row
  BY <1>1 DEF Row
<1>. QED BY <1>1, <1>3, <1>4, <1>5, SourceStep

\* A cut at or below the acknowledgement takes nothing the base has not passed.
LEMMA PruneInvariant ==
  ASSUME IInv, Prune
  PROVE  IInv'
<1>. USE DEF IInv
<1>1. PICK cut \in 1..acked : log' = {e \in log : e.rev > cut}
  BY DEF Prune, Cuttable
<1>2. UNCHANGED <<primary, rev, granted, acked, copy, position, applied, at, local, missed>>
  BY DEF Prune
<1>3. log' \subseteq log /\ \A e \in log : e \in log' \/ e.rev <= acked
  BY <1>1 DEF TypeOK, Entry
<1>4. Tracking => \A e \in log : e.rev > Base => e \in log'
  BY <1>3, BaseIsNumbered DEF Acknowledged, TypeOK, Entry, None
<1>5. Base' = Base /\ Tracking' = Tracking
  BY <1>2 DEF Base, Tracking, local
<1>6. Tracking => \A r \in Row : Pending(r, Base) => Pending(r, Base)'
  BY <1>4, <1>5 DEF Pending
<1>7. TypeOK'
  BY <1>3 DEF TypeOK, Prune, local
<1>8. Numbered' /\ Placed' /\ Acknowledged'
  BY <1>2, <1>3, <1>5 DEF Numbered, Placed, Acknowledged, local
<1>9. Safe'
  BY <1>2, <1>5, <1>6 DEF Safe, Unread, local, Pending
<1>10. Truthful'
  <2>. SUFFICES ASSUME Tracking, NEW e \in log', e.row \in Row, e.rev > Base, e.op = "delete",
                       Newest(e)', at = "snapshot" \/ e.row \notin missed
                PROVE  primary[e.row] = 0
    BY <1>2, <1>5 DEF Truthful
  <2>1. \A f \in log : f.row = e.row => f.rev <= e.rev
    BY <1>1, <1>3 DEF Newest, TypeOK, Entry
  <2>. QED BY <1>3, <2>1 DEF Truthful, Newest
<1>11. at \in {"rows", "mark"} => \A r \in Row, b \in Nat : since <= b /\ Pending(r, b) => Pending(r, b)'
  BY <1>4 DEF Pending, Base, Tracking, TypeOK, Entry
<1>12. PageIsWhole'
  <2>. SUFFICES ASSUME at = "rows"
                PROVE  /\ since <= upto
                       /\ \A e \in log' : e.row # 0 /\ e.rev > since /\ e.rev <= upto => e \in page
                       /\ \A r \in Row \ missed : Deleted(r) /\ primary[r] # 0 => Pending(r, upto)'
    BY <1>2 DEF PageIsWhole, Deleted, local, Pending
  <2>. QED BY <1>2, <1>3, <1>11 DEF PageIsWhole, TypeOK, local, Pending
<1>13. Marked'
  <2>. SUFFICES ASSUME at = "mark"
                PROVE  since <= upto /\ \A r \in Row \ missed : copy[r] = primary[r] \/ Pending(r, upto)'
    BY <1>2 DEF Marked, Right, local, Pending
  <2>. QED BY <1>2, <1>11 DEF Marked, Right, TypeOK, local, Pending
<1>. QED BY <1>7, <1>8, <1>9, <1>10, <1>12, <1>13

-----------------------------------------------------------------------------
\* Leaving a pass, or a restart of the replica, falls back to the position in
\* memory or in the tables, which is the base wherever there is one.
LEMMA BackToIdle ==
  ASSUME IInv, TypeOK', at' = "idle", applied' \in {applied, position}, at # "mark" \/ applied' = position,
         UNCHANGED <<primary, log, rev, acked, copy, position, local, missed>>
  PROVE  IInv'
<1>. USE DEF IInv
<1>1. position \in {None, applied} /\ (applied' # None => applied' = applied)
  BY DEF Placed
<1>2. Tracking' => Tracking /\ Base' = Base /\ at # "snapshot"
  BY <1>1 DEF Tracking, Base, Placed, TypeOK, Stage, local
<1>3. Numbered' /\ Placed'
  BY <1>1 DEF Numbered, Placed, local, TypeOK, None
<1>4. Acknowledged' /\ Safe' /\ Truthful'
  BY <1>2 DEF Acknowledged, Safe, Truthful, Unread, Pending, Newest
<1>. QED BY <1>3, <1>4 DEF PageIsWhole, Marked

LEMMA ReadFailsInvariant ==
  ASSUME IInv, ReadFails
  PROVE  IInv'
<1>1. TypeOK'
  BY ReplicationAssumption DEF IInv, TypeOK, ReadFails, source, local, Stage
<1>. QED BY <1>1, BackToIdle DEF ReadFails, source, local

LEMMA RestartInvariant ==
  ASSUME IInv, Restart
  PROVE  IInv'
<1>1. TypeOK'
  BY ReplicationAssumption DEF IInv, TypeOK, Restart, source, local, Stage
<1>. QED BY <1>1, BackToIdle DEF Restart, source, local

LEMMA RevokeInvariant ==
  ASSUME IInv, Revoke
  PROVE  IInv'
<1>. USE DEF IInv
<1>0. rejoins' \in 0..MaxRejoins /\ at' \in Stage /\ granted' \in BOOLEAN
  <2>1. rejoins' \in 0..MaxRejoins
    BY ReplicationAssumption DEF TypeOK, Revoke
  <2>2. at' \in Stage
    BY DEF TypeOK, Revoke, Stage
  <2>3. granted' \in BOOLEAN
    BY DEF Revoke
  <2>. QED BY <2>1, <2>2, <2>3
<1>1. TypeOK'
  BY <1>0 DEF TypeOK, Revoke, local
<1>2. CASE at = "mark"
  <2>1. UNCHANGED <<primary, log, rev, acked, copy, position, applied, at, local, missed>>
    BY <1>2 DEF Revoke
  <2>2. Base' = Base /\ Tracking' = Tracking
    BY <2>1 DEF Base, Tracking, local
  <2>3. Numbered' /\ Placed' /\ Acknowledged' /\ Safe' /\ Truthful' /\ PageIsWhole' /\ Marked'
    BY <1>2, <2>1, <2>2 DEF Numbered, Placed, Acknowledged, Safe, Truthful, PageIsWhole, Marked,
                            Unread, Pending, Newest, Right, local
  <2>. QED BY <1>1, <2>3
<1>3. CASE at # "mark"
  BY <1>1, <1>3, BackToIdle DEF Revoke
<1>. QED BY <1>2, <1>3

LEMMA RejoinInvariant ==
  ASSUME IInv, Rejoin
  PROVE  IInv'
<1>. USE DEF IInv
<1>1. TypeOK'
  BY DEF TypeOK, Rejoin, local
<1>2. UNCHANGED <<primary, log, rev, copy, position, applied, at, local, missed>> /\ acked' = 0 /\ granted'
  BY DEF Rejoin
<1>3. Base' = Base /\ Tracking' = Tracking
  BY <1>2 DEF Base, Tracking, local
<1>4. Numbered' /\ Placed'
  BY <1>2 DEF Numbered, Placed, local, TypeOK
<1>5. Acknowledged'
  BY <1>2, <1>3 DEF Acknowledged, TypeOK, Entry
<1>6. Safe' /\ Truthful' /\ PageIsWhole' /\ Marked'
  BY <1>2, <1>3 DEF Safe, Truthful, PageIsWhole, Marked, Unread, Pending, Newest, Right, Deleted, local
<1>. QED BY <1>1, <1>4, <1>5, <1>6

-----------------------------------------------------------------------------
\* A request for what follows the base acknowledges the base and no more.
LEMMA AskAcknowledges ==
  ASSUME TypeOK, Numbered, NEW s \in Nat, s <= rev, Ask(s), log' = log, rev' = rev,
         \A e \in log : e.rev <= acked => e.rev <= s
  PROVE  /\ at' = "head" /\ since' = s /\ acked' \in Nat /\ acked' <= rev
         /\ Tracking' /\ Base' = s /\ Acknowledged'
<1>1. at' = "head" /\ since' = s /\ acked' \in Nat /\ acked' <= rev /\ acked' \in {acked, s}
  BY DEF Ask, TypeOK, Numbered
<1>2. Tracking' /\ Base' = s
  BY <1>1 DEF Tracking, Base
<1>. QED BY <1>1, <1>2 DEF Acknowledged

LEMMA SyncFromScratchInvariant ==
  ASSUME IInv, SyncFromScratch
  PROVE  IInv'
<1>. USE DEF IInv
<1>1. head' \in Nat /\ head' <= rev /\ \A e \in log : e.rev <= head'
  BY HeadIsLast DEF SyncFromScratch
<1>0. cursor' \in 1..(LastRow + 1) /\ missed' \subseteq Row
  BY ReplicationAssumption DEF TypeOK, SyncFromScratch
<1>2. TypeOK'
  BY <1>0, <1>1 DEF TypeOK, SyncFromScratch, source, Stage
<1>3. UNCHANGED <<primary, log, rev, granted, acked, copy, position, applied, since, upto>>
      /\ at' = "snapshot" /\ cursor' = 1 /\ missed' = missed \cup {r \in Row : copy[r] # 0}
      /\ granted /\ applied = None
  BY DEF SyncFromScratch, source
<1>4. Base' = head'
  BY <1>3 DEF Base
<1>5. Numbered' /\ Placed'
  BY <1>1, <1>3 DEF Numbered, Placed
<1>6. Acknowledged'
  BY <1>1, <1>3, <1>4 DEF Acknowledged
<1>7. Safe'
  BY <1>3 DEF Safe, Unread, Row
<1>8. Truthful'
  BY <1>1, <1>3, <1>4 DEF Truthful, TypeOK, Entry
<1>. QED BY <1>2, <1>3, <1>5, <1>6, <1>7, <1>8 DEF PageIsWhole, Marked

LEMMA SnapshotPageInvariant ==
  ASSUME IInv, SnapshotPage
  PROVE  IInv'
<1>. USE DEF IInv
<1>. DEFINE found == {cursor} \cap {r \in Row : primary[r] # 0}
<1>1. /\ UNCHANGED <<primary, log, rev, granted, acked, applied, at, since, head, page, upto, stamp, rejoins, faults>>
      /\ at = "snapshot" /\ cursor <= LastRow /\ cursor' = cursor + 1 /\ granted
      /\ copy' = [r \in Row |-> IF r \in found THEN primary[r] ELSE copy[r]]
      /\ missed' = missed \ found /\ position' \in {position, None}
  BY DEF SnapshotPage, source, Untagged
<1>2. cursor \in Nat /\ cursor' \in 1..(LastRow + 1) /\ Row \subseteq Nat
  BY <1>1, ReplicationAssumption DEF TypeOK, Row
<1>3. TypeOK'
  BY <1>1, <1>2 DEF TypeOK
<1>4. Base' = Base /\ Tracking' /\ Tracking /\ Base = head
  BY <1>1 DEF Base, Tracking
<1>5. Numbered' /\ Placed' /\ Acknowledged'
  BY <1>1, <1>4 DEF Numbered, Placed, Acknowledged
<1>6. Safe'
  <2>. SUFFICES ASSUME NEW r \in Row \ missed'
                PROVE  Pending(r, head) \/ copy'[r] = IF cursor' <= r THEN 0 ELSE primary[r]
    BY <1>1, <1>4 DEF Safe, Unread, Pending
  <2>1. CASE r \in found
    BY <1>1, <1>2, <2>1
  <2>2. CASE r \notin found
    <3>1. r \notin missed /\ copy'[r] = copy[r]
      BY <1>1, <2>2
    <3>2. Pending(r, head) \/ copy[r] = IF cursor <= r THEN 0 ELSE primary[r]
      BY <1>1, <1>4, <3>1 DEF Safe, Unread
    <3>3. r = cursor => primary[r] = 0
      BY <2>2
    <3>. QED BY <1>1, <1>2, <3>1, <3>2, <3>3
  <2>. QED BY <2>1, <2>2
<1>7. Truthful'
  BY <1>1, <1>4 DEF Truthful, Newest
<1>. QED BY <1>1, <1>3, <1>5, <1>6, <1>7 DEF PageIsWhole, Marked

LEMMA SnapshotDoneInvariant ==
  ASSUME IInv, SnapshotDone
  PROVE  IInv'
<1>. USE DEF IInv
<1>1. /\ UNCHANGED <<primary, log, rev, granted, copy, position, applied, head, page, upto, missed, stamp, cursor, rejoins, faults>>
      /\ at = "snapshot" /\ cursor > LastRow /\ granted /\ Ask(head)
  BY DEF SnapshotDone, source
<1>2. Tracking /\ Base = head /\ applied = None /\ \A r \in Row : ~Unread(r)
  BY <1>1, ReplicationAssumption DEF Tracking, Base, Placed, Unread, Row, TypeOK
<1>3. /\ at' = "head" /\ since' = head /\ acked' \in Nat /\ acked' <= rev
      /\ Tracking' /\ Base' = head /\ Acknowledged'
  BY <1>1, <1>2, AskAcknowledges DEF Acknowledged, TypeOK, Numbered
<1>4. TypeOK'
  BY <1>1, <1>3 DEF TypeOK, Stage
<1>5. Numbered' /\ Placed'
  BY <1>1, <1>2, <1>3 DEF Numbered, Placed
<1>6. Safe'
  BY <1>1, <1>2, <1>3 DEF Safe, Unread, Pending
<1>7. Truthful'
  BY <1>1, <1>2, <1>3 DEF Truthful, Newest
<1>. QED BY <1>1, <1>3, <1>4, <1>5, <1>6, <1>7 DEF PageIsWhole, Marked

LEMMA SyncOnwardsInvariant ==
  ASSUME IInv, SyncOnwards
  PROVE  IInv'
<1>. USE DEF IInv
<1>1. /\ UNCHANGED <<primary, log, rev, granted, copy, position, applied, head, page, upto, missed, stamp, cursor, rejoins, faults>>
      /\ at = "idle" /\ applied # None /\ granted /\ Ask(applied)
  BY DEF SyncOnwards, source
<1>2. Tracking /\ Base = applied /\ applied \in Nat /\ applied <= rev
  BY <1>1 DEF Tracking, Base, TypeOK, Numbered
<1>3. /\ at' = "head" /\ since' = applied /\ acked' \in Nat /\ acked' <= rev
      /\ Tracking' /\ Base' = applied /\ Acknowledged'
  BY <1>1, <1>2, AskAcknowledges DEF Acknowledged
<1>4. TypeOK'
  BY <1>1, <1>2, <1>3 DEF TypeOK, Stage
<1>5. Numbered' /\ Placed'
  BY <1>1, <1>2, <1>3 DEF Numbered, Placed
<1>6. Safe'
  BY <1>1, <1>2, <1>3 DEF Safe, Unread, Pending
<1>7. Truthful'
  BY <1>1, <1>2, <1>3 DEF Truthful, Newest
<1>. QED BY <1>1, <1>3, <1>4, <1>5, <1>6, <1>7 DEF PageIsWhole, Marked

LEMMA ReadHeadInvariant ==
  ASSUME IInv, ReadHead
  PROVE  IInv'
<1>. USE DEF IInv
<1>1. /\ UNCHANGED <<primary, log, rev, granted, acked, copy, position, applied, since, page, upto, missed, stamp, cursor, rejoins, faults>>
      /\ at = "head" /\ at' = "page" /\ granted /\ head' \in HeadRev
  BY DEF ReadHead, source
<1>2. head' \in Nat /\ head' <= rev
  BY <1>1, HeadIsLast
<1>3. TypeOK'
  BY <1>1, <1>2 DEF TypeOK, Stage
<1>4. Base' = Base /\ Tracking' = Tracking
  BY <1>1 DEF Base, Tracking
<1>5. Numbered' /\ Placed' /\ Acknowledged'
  BY <1>1, <1>2, <1>4 DEF Numbered, Placed, Acknowledged
<1>6. Safe' /\ Truthful'
  BY <1>1, <1>4 DEF Safe, Truthful, Unread, Pending, Newest
<1>. QED BY <1>1, <1>3, <1>5, <1>6 DEF PageIsWhole, Marked

\* The end of a page (Parked reads head): everything shared up to it is on the
\* page, and what is not on the page lies beyond every entry that is.
LEMMA PageEnds ==
  ASSUME TypeOK, Numbered, NEW P \in FirstOf(Shared), NEW n \in End(P)
  PROVE  /\ P \subseteq Shared
         /\ Parked(P, n) \in Nat /\ since <= Parked(P, n) /\ Parked(P, n) <= rev
         /\ \A e \in Shared : e.rev <= Parked(P, n) => e \in P
<1>1. P \subseteq Shared /\ Shared \subseteq log
  BY DEF FirstOf, Shared
<1>2. \A e \in Shared : e.rev \in Nat /\ since < e.rev /\ e.rev <= rev
  BY DEF Shared, TypeOK, Entry, Numbered
<1>3. \A e \in P, f \in Shared : f.rev < e.rev => f \in P
  BY DEF FirstOf
<1>4. CASE P = {}
  <2>1. ~Full(P) /\ Shared = {}
    BY <1>4, FS_EmptySet, ReplicationAssumption DEF Full, FirstOf
  <2>2. n = since
    BY <1>4 DEF End
  <2>. QED BY <1>1, <2>1, <2>2 DEF Parked, TypeOK, Numbered
<1>5. CASE P # {}
  <2>1. PICK e \in P : n = e.rev
    BY <1>5 DEF End, Last
  <2>2. \A f \in P : f.rev <= n
    BY <1>5 DEF End, Last
  <2>3. n \in Nat /\ since < n /\ n <= rev
    BY <1>1, <1>2, <2>1
  <2>4. CASE Full(P)
    <3>1. Parked(P, n) = n
      BY <2>4 DEF Parked
    <3>2. ASSUME NEW f \in Shared, f.rev <= n PROVE f \in P
      <4>1. CASE f.rev < n
        BY <1>3, <2>1, <4>1
      <4>2. CASE f.rev = n
        BY <1>1, <2>1, <4>2 DEF Numbered
      <4>. QED BY <1>2, <2>3, <3>2, <4>1, <4>2
    <3>. QED BY <1>1, <2>3, <3>1, <3>2 DEF TypeOK
  <2>5. CASE ~Full(P)
    <3>1. P = Shared
      BY <2>5 DEF FirstOf
    <3>2. Parked(P, n) \in {n, head} /\ n <= Parked(P, n)
      BY <2>3, <2>5 DEF Parked, TypeOK
    <3>. QED BY <1>1, <2>3, <3>1, <3>2 DEF TypeOK, Numbered
  <2>. QED BY <2>4, <2>5
<1>. QED BY <1>4, <1>5

LEMMA ReadPageInvariant ==
  ASSUME IInv, ReadPage
  PROVE  IInv'
<1>. USE DEF IInv
<1>1. PICK P \in FirstOf(Shared) : \E n \in End(P) : page' = P /\ upto' = Parked(P, n)
  BY DEF ReadPage
<1>2. PICK n \in End(P) : page' = P /\ upto' = Parked(P, n)
  BY <1>1
<1>3. /\ P \subseteq Shared
      /\ upto' \in Nat /\ since <= upto' /\ upto' <= rev
      /\ \A e \in Shared : e.rev <= upto' => e \in P
  BY <1>2, PageEnds
<1>4. /\ UNCHANGED <<primary, log, rev, granted, acked, copy, position, applied, since, head, missed, stamp, cursor, rejoins, faults>>
      /\ at = "page" /\ at' = "rows" /\ granted
  BY DEF ReadPage, source
<1>5. TypeOK'
  <2>1. page' \subseteq Entry
    BY <1>2, <1>3 DEF Shared, TypeOK
  <2>. QED BY <1>3, <1>4, <2>1 DEF TypeOK, Stage
<1>6. Base' = Base /\ Tracking' /\ Tracking /\ Base = since
  BY <1>4 DEF Base, Tracking
<1>7. Numbered' /\ Placed' /\ Acknowledged'
  BY <1>3, <1>4, <1>6 DEF Numbered, Placed, Acknowledged
<1>8. Safe' /\ Truthful'
  BY <1>4, <1>6 DEF Safe, Truthful, Unread, Pending, Newest
<1>9. ASSUME NEW r \in Row \ missed, Deleted(r)', primary[r] # 0
      PROVE  \E e \in log : e.row = r /\ e.rev > upto'
  <2>1. PICK e \in P : /\ e.row = r /\ e.op = "delete"
                       /\ \A f \in P : f.row = r => f.rev <= e.rev
    BY <1>2, <1>9 DEF Deleted
  <2>2. e \in Shared /\ e \in log /\ e.rev > Base
    BY <1>3, <1>6, <2>1 DEF Shared
  <2>3. ~Newest(e)
    BY <1>4, <1>6, <1>9, <2>1, <2>2 DEF Truthful
  <2>4. PICK f \in log : f.row = r /\ ~(f.rev <= e.rev)
    BY <2>1, <2>3 DEF Newest
  <2>5. f.rev \in Nat /\ e.rev \in Nat /\ since \in Nat /\ r # 0
    BY <2>2, <2>4 DEF TypeOK, Entry, Row
  <2>6. f \in Shared /\ f \notin P
    BY <1>6, <2>1, <2>2, <2>4, <2>5 DEF Shared
  <2>. QED BY <1>3, <2>4, <2>5, <2>6
<1>10. PageIsWhole'
  <2>1. \A e \in log : e.row # 0 /\ e.rev > since /\ e.rev <= upto' => e \in P
    BY <1>3 DEF Shared
  <2>2. \A r \in Row \ missed : Deleted(r)' /\ primary[r] # 0 => Pending(r, upto)'
    BY <1>4, <1>9 DEF Pending
  <2>. QED BY <1>2, <1>3, <1>4, <2>1, <2>2 DEF PageIsWhole
<1>. QED BY <1>4, <1>5, <1>7, <1>8, <1>10 DEF Marked

\* Applying a page makes its rows right as of its end.
LEMMA ApplyPageInvariant ==
  ASSUME IInv, ApplyPage
  PROVE  IInv'
<1>. USE DEF IInv
<1>1. /\ UNCHANGED <<primary, log, rev, granted, acked, applied, since, head, page, upto, missed, stamp, cursor, rejoins, faults>>
      /\ at = "rows" /\ at' = "mark" /\ granted
      /\ copy' = [r \in Row |-> IF r \in Rows(page) THEN Answer(r) ELSE copy[r]]
      /\ position' \in {position, None}
  BY DEF ApplyPage, source, local, Untagged
<1>2. copy' \in [Row -> 0..MaxWrites]
  BY <1>1, ReplicationAssumption DEF TypeOK, Answer
<1>3. TypeOK'
  BY <1>1, <1>2 DEF TypeOK, Stage
<1>4. Base' = Base /\ Tracking' /\ Tracking /\ Base = since /\ since <= upto
  BY <1>1 DEF Base, Tracking, PageIsWhole
<1>5. Numbered' /\ Placed' /\ Acknowledged'
  BY <1>1, <1>4 DEF Numbered, Placed, Acknowledged
<1>6. ASSUME NEW r \in Row \ missed
      PROVE  copy'[r] = primary[r] \/ Pending(r, upto)
  <2>1. CASE r \in Rows(page)
    BY <1>1, <2>1 DEF Answer, PageIsWhole
  <2>2. CASE r \notin Rows(page)
    <3>1. copy'[r] = copy[r] /\ ~Unread(r) /\ r # 0
      BY <1>1, <2>2 DEF Unread, Row
    <3>2. copy[r] = primary[r] \/ \E e \in log : e.row = r /\ e.rev > since
      BY <1>4, <3>1 DEF Safe, Pending
    <3>3. \A e \in log : e.row = r /\ e.rev > since => e.rev > upto
      BY <1>1, <2>2, <3>1 DEF PageIsWhole, Rows, TypeOK, Entry
    <3>. QED BY <3>1, <3>2, <3>3 DEF Pending
  <2>. QED BY <2>1, <2>2
<1>7. Safe'
  <2>1. \A r \in Row : Pending(r, upto) => Pending(r, since)
    BY <1>4 DEF Pending, TypeOK, Entry
  <2>. QED BY <1>1, <1>4, <1>6, <2>1 DEF Safe, Unread, Pending
<1>8. Truthful'
  BY <1>1, <1>4 DEF Truthful, Newest
<1>9. Marked'
  BY <1>1, <1>4, <1>6 DEF Marked, Right, Pending
<1>. QED BY <1>1, <1>3, <1>5, <1>7, <1>8, <1>9 DEF PageIsWhole

\* The marked position is the base of what comes next.
LEMMA MarkInvariant ==
  ASSUME IInv, Mark
  PROVE  IInv'
<1>. USE DEF IInv
<1>1. /\ UNCHANGED <<primary, log, rev, granted, copy, head, cursor, page, upto, missed, stamp, rejoins, faults>>
      /\ at = "mark" /\ position' = upto /\ applied' = upto
  BY DEF Mark, Reached, source
<1>2. Tracking /\ Base = since /\ since <= upto /\ upto <= rev /\ upto \in Nat /\ upto # None
  BY <1>1 DEF Tracking, Base, Marked, Numbered, TypeOK, None
<1>3. \A e \in log : e.rev <= acked => e.rev <= upto
  BY <1>2 DEF Acknowledged, TypeOK, Entry
<1>4. /\ at' \in {"idle", "head"} /\ (at' = "head" => granted /\ since' = upto)
      /\ since' \in Nat /\ since' <= rev /\ acked' \in Nat /\ acked' <= rev
      /\ Tracking' /\ Base' = upto /\ Acknowledged'
  <2>1. CASE granted /\ Ask(upto)
    BY <1>1, <1>2, <1>3, <2>1, AskAcknowledges
  <2>2. CASE at' = "idle" /\ UNCHANGED <<since, acked>>
    BY <1>1, <1>2, <1>3, <2>2 DEF Tracking, Base, Acknowledged, TypeOK, Numbered
  <2>. QED BY <1>1, <2>1, <2>2 DEF Mark
<1>5. TypeOK'
  BY <1>1, <1>2, <1>4 DEF TypeOK, Stage
<1>6. Numbered' /\ Placed'
  BY <1>1, <1>2, <1>4 DEF Numbered, Placed
<1>7. Safe'
  BY <1>1, <1>4 DEF Safe, Marked, Right, Unread, Pending
<1>8. Truthful'
  <2>1. \A e \in log : e.rev > upto => e.rev > Base
    BY <1>2 DEF TypeOK, Entry
  <2>. QED BY <1>1, <1>2, <1>4, <2>1 DEF Truthful, Newest
<1>. QED BY <1>4, <1>5, <1>6, <1>7, <1>8 DEF PageIsWhole, Marked

-----------------------------------------------------------------------------
LEMMA InitInvariant == Init => IInv
<1>. SUFFICES ASSUME Init PROVE IInv
  OBVIOUS
<1>1. TypeOK
  BY ReplicationAssumption DEF Init, TypeOK, Stage, Entry
<1>2. Numbered /\ Placed /\ ~Tracking
  BY <1>1 DEF Init, Numbered, Placed, Tracking, None
<1>. QED BY <1>1, <1>2 DEF IInv, Init, Acknowledged, Safe, Truthful, PageIsWhole, Marked

LEMMA NextInvariant == IInv /\ [Next]_vars => IInv'
<1>. SUFFICES ASSUME IInv, [Next]_vars PROVE IInv'
  OBVIOUS
<1>1. CASE \E r \in Row : Write(r) \/ Remove(r)
  BY <1>1, WriteInvariant, RemoveInvariant
<1>2. CASE WriteElsewhere \/ Prune \/ Revoke \/ Rejoin
  BY <1>2, WriteElsewhereInvariant, PruneInvariant, RevokeInvariant, RejoinInvariant
<1>3. CASE ReadFails \/ Restart
  BY <1>3, ReadFailsInvariant, RestartInvariant
<1>4. CASE SyncFromScratch \/ SnapshotPage \/ SnapshotDone \/ SyncOnwards
  BY <1>4, SyncFromScratchInvariant, SnapshotPageInvariant, SnapshotDoneInvariant, SyncOnwardsInvariant
<1>5. CASE ReadHead \/ ReadPage \/ ApplyPage \/ Mark
  BY <1>5, ReadHeadInvariant, ReadPageInvariant, ApplyPageInvariant, MarkInvariant
<1>6. CASE UNCHANGED vars
  BY <1>6 DEF vars, source, local, IInv, TypeOK, Numbered, Placed, Acknowledged, Safe, Truthful,
              PageIsWhole, Marked, Tracking, Base, Unread, Pending, Right, Newest, Deleted
<1>. QED BY <1>1, <1>2, <1>3, <1>4, <1>5, <1>6 DEF Next, Pull

LEMMA AlwaysIInv == Spec => []IInv
BY InitInvariant, NextInvariant, PTL DEF Spec

-----------------------------------------------------------------------------
(* The variables stay in their ranges, for any number of rows and writes.  *)
THEOREM TypeCorrect == Spec => []TypeOK
BY AlwaysIInv, PTL DEF IInv

\* Wherever the position in the tables is one, it is the base and no snapshot runs.
LEMMA PositionIsBase ==
  ASSUME IInv, position # None
  PROVE  Tracking /\ Base = position /\ at # "snapshot"
  BY DEF IInv, Placed, Tracking, Base, TypeOK, Stage

(* What the replica has not applied it will be told: a row that differs has*)
(* an entry beyond the position its tables would restart it from, whatever *)
(* is written, pruned, revoked, lost or restarted between two reads.       *)
THEOREM NeverSkips == Spec => []NothingSkipped
<1>1. IInv => NothingSkipped
  <2>. SUFFICES ASSUME IInv, position # None, NEW r \in Row \ missed, copy[r] # primary[r]
                PROVE  \E e \in log : e.row = r /\ e.rev > position
    BY DEF NothingSkipped
  <2>. QED BY PositionIsBase DEF IInv, Safe, Unread, Pending
<1>. QED BY <1>1, AlwaysIInv, PTL

(* What the prune may remove was applied: no acknowledgement runs ahead of *)
(* the position in the tables.                                             *)
THEOREM AcksAreDurable == Spec => []AckIsDurable
<1>1. IInv => AckIsDurable
  BY PositionIsBase DEF IInv, Acknowledged, AckIsDurable
<1>. QED BY <1>1, AlwaysIInv, PTL
=============================================================================
