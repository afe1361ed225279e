------------------------- MODULE PlayerOutboxProofs -------------------------
(***************************************************************************)
(* Type correctness and the two safety invariants of PlayerOutbox, and     *)
(* that it implements EventRelay, for any number of screens, events and    *)
(* faults, any cap and any batch.                                          *)
(*                                                                         *)
(* Both invariants are about plays the primary's applier was handed.  What *)
(* makes them last is the request on its way: whoever waits for it and     *)
(* however late it arrives, no play in the outbox is older than the one it *)
(* carries.  What the applier then did with a play is a second invariant,  *)
(* about its log and what it left out of it.                               *)
(***************************************************************************)
EXTENDS PlayerOutbox, FiniteSetTheorems, WellFoundedInduction, TLAPS

\* Every nonempty set of natural numbers has a least element.
LEMMA LeastNat ==
  ASSUME NEW T, T \subseteq Nat, T # {}
  PROVE  \E m \in T : \A k \in T : m <= k
<1>. DEFINE Less == {p \in Nat \X Nat : p[1] < p[2]}
<1>1. IsWellFoundedOn(Less, Nat)
  BY NatLessThanWellFounded DEF OpToRel
<1>2. \E m \in T : \A k \in T : <<k, m>> \notin Less
  <2>. HIDE DEF Less
  <2>. QED BY <1>1, WFMin
<1>3. \A m, k \in T : <<k, m>> \in Less <=> k < m
  OBVIOUS
<1>4. \A m, k \in T : k < m \/ m <= k
  OBVIOUS
<1>. HIDE DEF Less
<1>. QED BY <1>2, <1>3, <1>4

EventRec == [screen: Screens, kind: Kind]
IsPlay(acc, n) == acc[n].kind = "play"

\* A row holds an event of the screen and kind it was made for, and a play's
\* row is its own.
Own(rows, acc) ==
  \A i \in DOMAIN rows :
    /\ i \in 1..Len(acc) /\ rows[i] \in 1..Len(acc)
    /\ acc[rows[i]] = acc[i]
    /\ IsPlay(acc, i) => rows[i] = i

\* The drain holds the oldest rows: none came in between.
Prefix == \A i \in Ids, j \in DOMAIN batch : i < j => i \in DOMAIN batch

NeverRefused ==
  /\ \A i \in Ids : outbox[i] \notin refused
  /\ \A i \in DOMAIN batch : batch[i] \notin refused

\* No play in the outbox is older than this one.
Passed(n) == Play(n) => \A i \in Ids : n <= i

Sent == \A m \in wire : m.op \notin refused /\ Passed(m.op)
Wired == \A m \in wire : m.live => Draining /\ m.op = First(batch) /\ reply = "none"
AnswerIsFirst == /\ reply # "none" => Draining
                 /\ reply = "ok" => First(batch) \in Handed

\* The idempotency record speaks for what was applied, and for no more.
Records ==
  /\ \A n \in 1..Len(accepted) : /\ record[n] = "done" => n \in Handed
                                 /\ Play(n) /\ record[n] = "none" => n \notin Handed
  /\ \A n \in Event : n > Len(accepted) => record[n] = "none"
RecordedPassed == \A n \in Handed : Passed(n)

\* A play is in the outbox or was handed to the applier.
NothingLost ==
  \A n \in 1..Len(accepted) :
    Play(n) => n \in Range(outbox) \cup Handed \cup refused \cup expired

\* TypeOK without the applier's log.
Typed ==
  /\ accepted \in Seq([screen: Screens, kind: Kind]) /\ Len(accepted) <= MaxEvents
  /\ outbox \in Rows /\ batch \in Rows /\ backoff \in BOOLEAN /\ up \in BOOLEAN
  /\ wire \subseteq [op: 1..Len(accepted), live: BOOLEAN] /\ reply \in Reply
  /\ record \in [Event -> {"none", "running", "done"}] /\ known \subseteq Screens
  /\ applied \in Seq(1..Len(accepted)) /\ faults \in 0..MaxFaults
  /\ refused \subseteq 1..Len(accepted) /\ expired \subseteq 1..Len(accepted)
  /\ Range(outbox) \cup Range(batch) \cup Ids \cup DOMAIN batch \subseteq 1..Len(accepted)

Replica == Own(outbox, accepted) /\ Own(batch, accepted) /\ Prefix /\ NeverRefused
Wire == Sent /\ Wired /\ AnswerIsFirst
Primary == Records /\ RecordedPassed
IInv == Typed /\ Replica /\ Wire /\ Primary /\ PlaysOnceInOrder /\ NothingLost

\* The newest play logged of a screen is one of its plays and was not skipped.
LogIsPlayed ==
  /\ last \in [Screens -> 0..Len(accepted)]
  /\ \A s \in Screens : last[s] # 0 =>
       last[s] \in Handed \ thinned /\ accepted[last[s]] = [screen |-> s, kind |-> "play"]

\* A play is skipped behind another of its screen that was not.
SkippedBehind ==
  /\ thinned \subseteq Handed
  /\ \A n \in thinned : \E m \in Handed \ thinned : accepted[m] = accepted[n]

LogInv == LogIsPlayed /\ SkippedBehind /\ swallowed \subseteq Handed

-----------------------------------------------------------------------------
\* Min finds the least number of a set that has one.
LEMMA MinIsLeast ==
  ASSUME NEW S, S \subseteq Nat, S # {}
  PROVE  Min(S) \in S /\ \A y \in S : Min(S) <= y
BY LeastNat DEF Min

\* Some rows of a table are a table.
LEMMA RestrictedRows ==
  ASSUME NEW rows \in Rows, NEW S, S \subseteq DOMAIN rows
  PROVE  /\ Restrict(rows, S) \in Rows /\ DOMAIN Restrict(rows, S) = S
         /\ \A i \in S : Restrict(rows, S)[i] = rows[i]
<1>1. PICK ids \in SUBSET Event : rows \in [ids -> Event]
  BY DEF Rows
<1>2. S \in SUBSET Event /\ Restrict(rows, S) \in [S -> Event]
  BY <1>1 DEF Restrict
<1>. QED BY <1>2 DEF Rows, Restrict

LEMMA RowsAre ==
  ASSUME NEW rows \in Rows
  PROVE  /\ DOMAIN rows \subseteq Event /\ DOMAIN rows \subseteq Nat
         /\ \A i \in DOMAIN rows : rows[i] \in Event
         /\ rows = NoRows <=> DOMAIN rows = {}
<1>1. PICK ids \in SUBSET Event : rows \in [ids -> Event]
  BY DEF Rows
<1>2. Event \subseteq Nat
  BY OutboxAssumption DEF Event
<1>3. ASSUME DOMAIN rows = {} PROVE rows = NoRows
  <2>1. NoRows = [i \in DOMAIN rows |-> rows[i]]
    BY <1>3 DEF NoRows
  <2>2. rows = [i \in DOMAIN rows |-> rows[i]]
    BY <1>1
  <2>. QED BY <2>1, <2>2
<1>4. ASSUME rows = NoRows PROVE DOMAIN rows = {}
  BY <1>4 DEF NoRows
<1>. QED BY <1>1, <1>2, <1>3, <1>4

LEMMA NoRowsAreRows == NoRows \in Rows /\ DOMAIN NoRows = {}
<1>1. {} \in SUBSET Event /\ NoRows \in [{} -> Event]
  BY DEF NoRows
<1>. QED BY <1>1 DEF Rows

\* The oldest rows are an initial segment.
LEMMA OldestAreFirst ==
  ASSUME NEW ids, ids \subseteq Event, NEW i \in ids, NEW j \in Oldest(ids), i < j
  PROVE  i \in Oldest(ids)
<1>1. j \in ids /\ Event \subseteq Nat /\ Cardinality({k \in ids : k < j}) < Batch
  BY OutboxAssumption DEF Event, Oldest
<1>2. IsFiniteSet({k \in ids : k < j})
  <2>1. IsFiniteSet(Event)
    BY FS_Interval, OutboxAssumption DEF Event
  <2>2. {k \in ids : k < j} \in SUBSET Event
    OBVIOUS
  <2>. QED BY <2>1, <2>2, FS_Subset
<1>3. {k \in ids : k < i} \in SUBSET {k \in ids : k < j}
  <2>. SUFFICES ASSUME NEW k \in ids, k < i PROVE k < j
    OBVIOUS
  <2>. i \in Nat /\ j \in Nat /\ k \in Nat
    BY <1>1
  <2>. QED OBVIOUS
<1>4. Cardinality({k \in ids : k < i}) <= Cardinality({k \in ids : k < j})
      /\ IsFiniteSet({k \in ids : k < i})
  BY <1>2, <1>3, FS_Subset
<1>5. Cardinality({k \in ids : k < j}) \in Nat /\ Cardinality({k \in ids : k < i}) \in Nat
  BY <1>2, <1>4, FS_CardinalityType
<1>. QED BY <1>1, <1>4, <1>5, OutboxAssumption DEF Oldest

\* Requests given up are the same requests, and nobody waits for them.
LEMMA UnansweredAre ==
  ASSUME Typed, NEW u \in Unanswered
  PROVE  /\ u \in [op: 1..Len(accepted), live: BOOLEAN] /\ u.live = FALSE
         /\ \E m \in wire : u.op = m.op
<1>1. PICK m \in wire : u = [m EXCEPT !.live = FALSE]
  BY DEF Unanswered
<1>2. m \in [op: 1..Len(accepted), live: BOOLEAN]
  BY DEF Typed
<1>. QED BY <1>1, <1>2

-----------------------------------------------------------------------------
\* What the drain sends next is the first of rows that are the oldest, so no
\* play that waits is passed by it.
LEMMA SendingKeeps ==
  ASSUME NEW rows \in Rows, NEW link \in BOOLEAN, Sending(rows, link),
         wire \subseteq [op: 1..Len(accepted'), live: BOOLEAN],
         \A m \in wire : m.live = FALSE /\ m.op \notin refused' /\ Passed(m.op)',
         Ids' \subseteq Nat, Own(rows, accepted'), \A i \in DOMAIN rows : rows[i] \notin refused',
         \A i \in Ids', j \in DOMAIN rows : i < j => i \in DOMAIN rows,
         reply' = "none"
  PROVE  /\ batch' \in Rows /\ backoff' \in BOOLEAN /\ wire' \subseteq [op: 1..Len(accepted'), live: BOOLEAN]
         /\ Own(batch', accepted') /\ \A i \in DOMAIN batch' : batch'[i] \notin refused'
         /\ Prefix' /\ Wire'
<1>1. CASE ~(link /\ rows # NoRows)
  <2>1. batch' = NoRows /\ backoff' = (rows # NoRows) /\ wire' = wire
    BY <1>1 DEF Sending
  <2>2. DOMAIN batch' = {} /\ batch' \in Rows
    BY <2>1, NoRowsAreRows
  <2>3. Wire'
    BY <2>1 DEF Wire, Sent, Wired, AnswerIsFirst
  <2>. QED BY <2>1, <2>2, <2>3 DEF Own, Prefix
<1>2. CASE link /\ rows # NoRows
  <2>. DEFINE first == Min(DOMAIN rows)
              sent == [op |-> rows[first], live |-> TRUE]
  <2>1. batch' = rows /\ backoff' = FALSE /\ wire' = wire \cup {sent}
    BY <1>2 DEF Sending, First
  <2>2. first \in DOMAIN rows /\ \A i \in DOMAIN rows : first <= i
    BY <1>2, RowsAre, MinIsLeast
  <2>3. /\ first \in Nat /\ rows[first] \in 1..Len(accepted')
        /\ accepted'[rows[first]] = accepted'[first] /\ (IsPlay(accepted', first) => rows[first] = first)
    BY <2>2, RowsAre DEF Own
  <2>. HIDE DEF first
  <2>4. ASSUME IsPlay(accepted', rows[first]), NEW i \in Ids'
        PROVE  rows[first] <= i
    <3>1. rows[first] = first
      BY <2>3, <2>4 DEF IsPlay
    <3>2. i \in Nat /\ ~(i < first)
      BY <2>2, <2>3, RowsAre
    <3>. QED BY <2>3, <3>1, <3>2
  <2>5. Passed(rows[first])'
    BY <2>1, <2>4 DEF Passed, Play, IsPlay
  <2>6. sent \in [op: 1..Len(accepted'), live: BOOLEAN] /\ sent.op = rows[first] /\ sent.live = TRUE
    BY <2>3
  <2>7. Draining' /\ First(batch') = rows[first]
    BY <1>2, <2>1 DEF Draining, First, first
  <2>. HIDE DEF sent
  <2>8. Sent'
    BY <2>1, <2>2, <2>5, <2>6 DEF Sent
  <2>9. Wired' /\ AnswerIsFirst'
    BY <2>1, <2>6, <2>7 DEF Wired, AnswerIsFirst
  <2>. QED BY <2>1, <2>6, <2>8, <2>9 DEF Wire, Prefix
<1>. QED BY <1>1, <1>2

LEMMA DrainKeeps ==
  ASSUME NEW box \in Rows, NEW link \in BOOLEAN, Drain(box, link), box = outbox',
         wire \subseteq [op: 1..Len(accepted'), live: BOOLEAN],
         \A m \in wire : m.live = FALSE /\ m.op \notin refused' /\ Passed(m.op)',
         Own(box, accepted'), \A i \in DOMAIN box : box[i] \notin refused', reply' = "none"
  PROVE  /\ batch' \in Rows /\ backoff' \in BOOLEAN /\ wire' \subseteq [op: 1..Len(accepted'), live: BOOLEAN]
         /\ Own(batch', accepted') /\ \A i \in DOMAIN batch' : batch'[i] \notin refused'
         /\ Prefix' /\ Wire'
<1>. DEFINE old == Oldest(DOMAIN box)
            rows == Restrict(box, old)
<1>1. old \subseteq DOMAIN box /\ DOMAIN box \subseteq Event /\ DOMAIN box \subseteq Nat
  BY RowsAre DEF Oldest
<1>2. rows \in Rows /\ DOMAIN rows = old /\ \A i \in old : rows[i] = box[i]
  BY <1>1, RestrictedRows
<1>3. \A i \in DOMAIN box, j \in old : i < j => i \in old
  BY <1>1, OldestAreFirst
<1>4. Sending(rows, link)
  BY DEF Drain
<1>. HIDE DEF rows, old
<1>5. Own(rows, accepted') /\ \A i \in DOMAIN rows : rows[i] \notin refused'
  BY <1>1, <1>2 DEF Own
<1>6. Ids' = DOMAIN box
  BY DEF Ids
<1>7. Ids' \subseteq Nat /\ \A i \in Ids', j \in DOMAIN rows : i < j => i \in DOMAIN rows
  BY <1>1, <1>2, <1>3, <1>6
<1>. QED BY <1>2, <1>4, <1>5, <1>7, SendingKeeps

\* A request nobody waits for: the drain is idle, or has just read its answer.
LEMMA NobodyWaits ==
  ASSUME IInv, ~Draining \/ reply # "none"
  PROVE  \A m \in wire : m.live = FALSE
BY DEF IInv, Typed, Wire, Wired

-----------------------------------------------------------------------------
\* Plays stay in order as long as nothing is applied.
LEMMA OrderStays ==
  ASSUME IInv, UNCHANGED <<accepted, applied>>, expired \subseteq expired'
  PROVE  PlaysOnceInOrder'
BY DEF IInv, PlaysOnceInOrder, Play

\* A play that is applied comes after those that were, or was given up.
LEMMA OrderGrows ==
  ASSUME IInv, UNCHANGED <<accepted, outbox, refused, expired>>, NEW m \in wire, record[m.op] = "none",
         applied' = Append(applied, m.op)
  PROVE  /\ PlaysOnceInOrder' /\ RecordedPassed' /\ Handed' = Handed \cup {m.op}
         /\ applied' \in Seq(1..Len(accepted))
<1>. DEFINE n == m.op
            len == Len(applied)
<1>1. n \in 1..Len(accepted) /\ Passed(n) /\ n \notin refused /\ Len(accepted) \in Nat
  BY DEF IInv, Typed, Wire, Sent
<1>2. applied \in Seq(1..Len(accepted)) /\ len \in Nat
  BY DEF IInv, Typed
<1>3. /\ applied' \in Seq(1..Len(accepted)) /\ DOMAIN applied = 1..len /\ DOMAIN applied' = 1..(len + 1)
      /\ applied'[len + 1] = n /\ \A i \in 1..len : applied'[i] = applied[i]
  BY <1>1, <1>2
<1>. HIDE DEF n, len
<1>4. Handed' = Handed \cup {n}
  BY <1>2, <1>3 DEF Handed, Range
<1>5. RecordedPassed'
  BY <1>1, <1>4 DEF RecordedPassed, IInv, Primary, Passed, Play, Ids
<1>6. ASSUME Play(n), NEW i \in 1..len, Play(applied[i])
      PROVE  applied[i] < n \/ (applied[i] # n /\ n \in expired)
  <2>1. applied[i] \in Handed /\ applied[i] \in Nat /\ n \in Nat
    BY <1>1, <1>2, <1>3 DEF Handed, Range
  <2>2. n \notin Handed
    BY <1>1, <1>6 DEF IInv, Primary, Records, n
  <2>3. CASE n \in Range(outbox)
    <3>1. PICK j \in Ids : outbox[j] = n
      BY <2>3 DEF Range, Ids
    <3>2. j = n
      BY <1>6, <3>1 DEF IInv, Replica, Own, Ids, Play, IsPlay
    <3>3. applied[i] <= n
      BY <1>6, <2>1, <3>1, <3>2 DEF IInv, Primary, RecordedPassed, Passed
    <3>. QED BY <2>1, <2>2, <3>3
  <2>. QED BY <1>1, <1>6, <2>1, <2>2, <2>3 DEF IInv, NothingLost
<1>7. ASSUME NEW i \in 1..(len + 1), NEW j \in 1..(len + 1), i < j, Play(applied'[i]), Play(applied'[j])
      PROVE  applied'[i] < applied'[j] \/ (applied'[i] # applied'[j] /\ applied'[j] \in expired)
  <2>1. i \in 1..len /\ applied'[i] = applied[i]
    BY <1>2, <1>3, <1>7
  <2>2. CASE j = len + 1
    <3>1. applied'[j] = n
      BY <1>3, <2>2
    <3>. QED BY <1>6, <1>7, <2>1, <3>1
  <2>3. CASE j \in 1..len
    <3>1. applied'[j] = applied[j] /\ j \in DOMAIN applied /\ i \in DOMAIN applied
      BY <1>3, <2>1, <2>3
    <3>. QED BY <1>7, <2>1, <3>1 DEF IInv, PlaysOnceInOrder
  <2>4. j = len + 1 \/ j \in 1..len
    BY <1>2
  <2>. QED BY <2>2, <2>3, <2>4
<1>8. PlaysOnceInOrder'
  <2>1. accepted' = accepted /\ expired' = expired
    OBVIOUS
  <2>. QED BY <1>3, <1>7, <2>1 DEF PlaysOnceInOrder, Play
<1>. QED BY <1>3, <1>4, <1>5, <1>8 DEF n

\* No play vanishes as long as no row is deleted.
LEMMA NothingGoes ==
  ASSUME IInv, UNCHANGED <<accepted, outbox>>, refused \subseteq refused', expired \subseteq expired',
         Handed \subseteq Handed'
  PROVE  NothingLost'
BY DEF IInv, NothingLost, Play

\* Deleting the row of a play leaves the others' rows alone.
LEMMA DeleteKeeps ==
  ASSUME IInv, NEW id, Delete(id), UNCHANGED <<accepted, applied, refused>>, expired \subseteq expired',
         id \in Ids /\ Play(id) => id \in Handed \cup expired'
  PROVE  /\ outbox' \in Rows /\ Ids' \subseteq Ids \ {id} /\ \A i \in Ids' : outbox'[i] = outbox[i]
         /\ Own(outbox', accepted) /\ (\A i \in Ids' : outbox'[i] \notin refused) /\ NothingLost'
         /\ \A n : Passed(n) => Passed(n)'
<1>1. /\ outbox' \in Rows /\ Ids' = Ids \ {id} /\ \A i \in Ids' : outbox'[i] = outbox[i]
  <2>1. outbox \in Rows /\ (Ids \ {id}) \subseteq DOMAIN outbox
    BY DEF IInv, Typed, Ids
  <2>2. outbox' = Restrict(outbox, Ids \ {id})
    BY DEF Delete
  <2>. QED BY <2>1, <2>2, RestrictedRows DEF Ids
<1>2. Own(outbox', accepted) /\ \A i \in Ids' : outbox'[i] \notin refused
  BY <1>1 DEF IInv, Replica, Own, NeverRefused, Ids
<1>3. ASSUME NEW n \in 1..Len(accepted), Play(n), n \in Range(outbox)
      PROVE  n \in Range(outbox') \cup Handed \cup expired'
  <2>1. PICK i \in Ids : outbox[i] = n
    BY <1>3 DEF Range, Ids
  <2>2. i = n
    BY <1>3, <2>1 DEF IInv, Replica, Own, Ids, Play, IsPlay
  <2>3. CASE i = id
    BY <1>3, <2>2, <2>3
  <2>4. CASE i # id
    BY <1>1, <2>1, <2>4 DEF Range, Ids
  <2>. QED BY <2>3, <2>4
<1>4. NothingLost'
  BY <1>3 DEF IInv, NothingLost, Play, Handed
<1>5. \A n : Passed(n) => Passed(n)'
  BY <1>1 DEF Passed, Play
<1>. QED BY <1>1, <1>2, <1>4, <1>5

-----------------------------------------------------------------------------
\* The links, the timers and the primary's screens say nothing of the rows.
LEMMA QuietStep ==
  ASSUME IInv, UNCHANGED <<accepted, outbox, batch, wire, reply, record, applied, refused, expired>>,
         backoff' \in BOOLEAN, up' \in BOOLEAN, known' \subseteq Screens, faults' \in 0..MaxFaults
  PROVE  IInv'
<1>1. Typed'
  BY DEF IInv, Typed, Ids
<1>2. Replica'
  BY DEF IInv, Replica, Own, IsPlay, Prefix, NeverRefused, Ids
<1>3. Wire'
  BY DEF IInv, Wire, Sent, Wired, AnswerIsFirst, Passed, Play, Ids, Draining, First, Handed
<1>4. Primary'
  BY DEF IInv, Primary, Records, RecordedPassed, Passed, Play, Ids, Handed
<1>5. PlaysOnceInOrder' /\ NothingLost'
  BY OrderStays, NothingGoes DEF Handed
<1>. QED BY <1>1, <1>2, <1>3, <1>4, <1>5 DEF IInv

\* The idle drain reads the oldest rows.
LEMMA DrainStep ==
  ASSUME IInv, NEW link \in BOOLEAN, ~Draining, Drain(outbox, link),
         UNCHANGED <<accepted, outbox, reply, primary, history, faults>>, up' \in BOOLEAN
  PROVE  IInv'
<1>1. /\ outbox \in Rows /\ accepted' = accepted /\ outbox' = outbox /\ refused' = refused
      /\ wire \subseteq [op: 1..Len(accepted), live: BOOLEAN] /\ Own(outbox, accepted)
      /\ (\A i \in DOMAIN outbox : outbox[i] \notin refused) /\ reply = "none" /\ reply' = "none"
  BY DEF IInv, Typed, Replica, NeverRefused, Ids, Wire, AnswerIsFirst, history
<1>2. \A m \in wire : m.live = FALSE /\ m.op \notin refused' /\ Passed(m.op)'
  BY <1>1, NobodyWaits DEF IInv, Wire, Sent, Passed, Play, Ids
<1>3. /\ batch' \in Rows /\ backoff' \in BOOLEAN /\ wire' \subseteq [op: 1..Len(accepted'), live: BOOLEAN]
      /\ Own(batch', accepted') /\ \A i \in DOMAIN batch' : batch'[i] \notin refused'
      /\ Prefix' /\ Wire'
  BY <1>1, <1>2, DrainKeeps
<1>4. Replica'
  BY <1>1, <1>3 DEF Replica, Own, NeverRefused, Ids
<1>5. Typed'
  <2>1. (Range(outbox) \cup Range(batch) \cup Ids \cup DOMAIN batch \subseteq 1..Len(accepted))'
    BY <1>4 DEF Replica, Own, Range, Ids
  <2>. QED BY <1>1, <1>3, <2>1 DEF IInv, Typed, primary, history
<1>6. Primary'
  BY <1>1 DEF IInv, Primary, Records, RecordedPassed, Passed, Play, Ids, Handed, primary
<1>7. PlaysOnceInOrder' /\ NothingLost'
  BY OrderStays, NothingGoes DEF primary, history, Handed
<1>. QED BY <1>3, <1>4, <1>5, <1>6, <1>7 DEF IInv

\* When a link is lost or a wait is over nobody waits for what is on its way.
LEMMA CutKeeps ==
  ASSUME IInv, UNCHANGED <<accepted, outbox, refused>>, wire' = Unanswered, Handed \subseteq Handed',
         \/ batch' = batch /\ reply' \in {reply, "none"}
         \/ batch' = NoRows /\ reply' = "none"
  PROVE  /\ Replica' /\ Wire' /\ wire' \subseteq [op: 1..Len(accepted), live: BOOLEAN]
         /\ batch' \in Rows /\ reply' \in Reply
<1>1. \A u \in wire' : /\ u \in [op: 1..Len(accepted), live: BOOLEAN] /\ u.live = FALSE
                       /\ \E m \in wire : u.op = m.op
  BY UnansweredAre DEF IInv
<1>2. Sent' /\ Wired'
  BY <1>1 DEF IInv, Wire, Sent, Wired, Passed, Play, Ids
<1>3. CASE batch' = batch /\ reply' \in {reply, "none"}
  <2>1. Replica'
    BY <1>3 DEF IInv, Replica, Own, IsPlay, Prefix, NeverRefused, Ids
  <2>2. AnswerIsFirst'
    BY <1>3 DEF IInv, Wire, AnswerIsFirst, Draining, First
  <2>. QED BY <1>1, <1>2, <1>3, <2>1, <2>2 DEF Wire, IInv, Typed, Reply
<1>4. CASE batch' = NoRows /\ reply' = "none"
  <2>1. batch' \in Rows /\ DOMAIN batch' = {}
    BY <1>4, NoRowsAreRows
  <2>2. Replica'
    BY <2>1 DEF IInv, Replica, Own, IsPlay, Prefix, NeverRefused, Ids
  <2>3. AnswerIsFirst'
    BY <1>4 DEF AnswerIsFirst
  <2>. QED BY <1>1, <1>2, <1>4, <2>1, <2>2, <2>3 DEF Wire, Reply
<1>. QED BY <1>3, <1>4

LEMMA CutStep ==
  ASSUME IInv, UNCHANGED <<accepted, outbox, history, record, known, applied>>, wire' = Unanswered,
         \/ batch' = batch /\ reply' \in {reply, "none"}
         \/ batch' = NoRows /\ reply' = "none",
         backoff' \in BOOLEAN, up' \in BOOLEAN, faults' \in 0..MaxFaults
  PROVE  IInv'
<1>1. UNCHANGED <<refused, expired, record, known, applied>> /\ Handed' = Handed
  BY DEF history, Handed
<1>2. /\ Replica' /\ Wire' /\ wire' \subseteq [op: 1..Len(accepted), live: BOOLEAN]
      /\ batch' \in Rows /\ reply' \in Reply
  BY <1>1, CutKeeps
<1>3. Typed'
  <2>1. (Range(outbox) \cup Range(batch) \cup Ids \cup DOMAIN batch \subseteq 1..Len(accepted))'
    BY <1>2 DEF Replica, Own, Range, Ids
  <2>. QED BY <1>1, <1>2, <2>1 DEF IInv, Typed
<1>4. Primary'
  BY <1>1 DEF IInv, Primary, Records, RecordedPassed, Passed, Play, Ids, Handed
<1>5. PlaysOnceInOrder' /\ NothingLost'
  BY <1>1, OrderStays, NothingGoes
<1>. QED BY <1>2, <1>3, <1>4, <1>5 DEF IInv

-----------------------------------------------------------------------------
\* An answer is the live request's, and leaves nobody waiting.
LEMMA RepliesKeep ==
  ASSUME IInv, NEW m \in wire, NEW r \in Reply, r # "none", Replies(m, r), Handed \subseteq Handed',
         r = "ok" => m.op \in Handed'
  PROVE  /\ Replica' /\ Wire' /\ wire' \subseteq [op: 1..Len(accepted), live: BOOLEAN] /\ reply' \in Reply
         /\ UNCHANGED <<accepted, outbox, batch, backoff, up, known, refused, expired>>
<1>1. /\ wire' = wire \ {m} /\ reply' = (IF m.live THEN r ELSE reply)
      /\ UNCHANGED <<accepted, outbox, batch, backoff, up, known, refused, expired>>
  BY DEF Replies, replica, history
<1>2. Replica' /\ Sent'
  BY <1>1 DEF IInv, Replica, Own, IsPlay, Prefix, NeverRefused, Ids, Wire, Sent, Passed, Play
<1>3. wire \subseteq [op: 1..Len(accepted), live: BOOLEAN] /\ reply \in Reply /\ m \in wire
  BY DEF IInv, Typed
<1>4. CASE m.live
  <2>1. Draining /\ m.op = First(batch)
    BY <1>4 DEF IInv, Wire, Wired
  <2>2. \A u \in wire' : u.live = FALSE
    <3>. SUFFICES ASSUME NEW u \in wire', u.live PROVE FALSE
      BY <1>1, <1>3
    <3>1. u.op = m.op /\ u \in wire /\ u # m
      BY <1>1, <2>1 DEF IInv, Wire, Wired
    <3>. QED BY <1>3, <1>4, <3>1
  <2>. QED BY <1>1, <1>2, <1>3, <1>4, <2>1, <2>2 DEF Wire, Wired, AnswerIsFirst, Draining, First
<1>5. CASE ~m.live
  BY <1>1, <1>2, <1>3, <1>5 DEF IInv, Wire, Wired, AnswerIsFirst, Draining, First
<1>. QED BY <1>1, <1>2, <1>3, <1>4, <1>5

\* The primary answers without having applied anything.
LEMMA RepliesStep ==
  ASSUME IInv, NEW m \in wire, NEW r \in Reply, r # "none", Replies(m, r), UNCHANGED <<record, applied>>,
         r = "ok" => m.op \in Handed, faults' \in 0..MaxFaults
  PROVE  IInv'
<1>1. Handed' = Handed
  BY DEF Handed
<1>2. /\ Replica' /\ Wire' /\ wire' \subseteq [op: 1..Len(accepted), live: BOOLEAN] /\ reply' \in Reply
      /\ UNCHANGED <<accepted, outbox, batch, backoff, up, known, refused, expired>>
  BY <1>1, RepliesKeep
<1>3. Typed'
  BY <1>2 DEF IInv, Typed, Ids
<1>4. Primary'
  BY <1>1, <1>2 DEF IInv, Primary, Records, RecordedPassed, Passed, Play, Ids
<1>5. PlaysOnceInOrder' /\ NothingLost'
  BY <1>1, <1>2, OrderStays, NothingGoes
<1>. QED BY <1>2, <1>3, <1>4, <1>5 DEF IInv

\* What is applied under a fresh claim: the record says so, or the crash left it.
LEMMA RecordsGrow ==
  ASSUME IInv, NEW m \in wire, UNCHANGED accepted, Handed' = Handed \cup {m.op},
         NEW st \in {"done", "running"}, record' = [record EXCEPT ![m.op] = st]
  PROVE  Records' /\ record' \in [Event -> {"none", "running", "done"}]
<1>1. /\ m.op \in 1..Len(accepted) /\ Len(accepted) <= MaxEvents /\ Len(accepted) \in Nat
      /\ record \in [Event -> {"none", "running", "done"}] /\ 1..Len(accepted) \subseteq Event
  BY OutboxAssumption DEF IInv, Typed, Event
<1>2. \A n \in Event : record'[n] = IF n = m.op THEN st ELSE record[n]
  BY <1>1
<1>3. \A n \in Event : n > Len(accepted) => n # m.op
  BY <1>1, OutboxAssumption DEF Event
<1>. QED BY <1>1, <1>2, <1>3 DEF IInv, Primary, Records, Play

LEMMA ApplyStep == ASSUME IInv, NEW m \in wire, Apply(m) PROVE IInv'
<1>1. /\ Replies(m, "ok") /\ record[m.op] = "none" /\ applied' = Append(applied, m.op)
      /\ record' = [record EXCEPT ![m.op] = "done"] /\ faults' \in 0..MaxFaults
  BY OutboxAssumption DEF Apply, Claimable, Takes, Fault, IInv, Typed
<1>2. UNCHANGED <<accepted, outbox, refused, expired, batch, backoff, up, known>>
  BY <1>1 DEF Replies, replica, history
<1>3. /\ PlaysOnceInOrder' /\ RecordedPassed' /\ Handed' = Handed \cup {m.op}
      /\ applied' \in Seq(1..Len(accepted))
  BY <1>1, <1>2, OrderGrows
<1>4. /\ Replica' /\ Wire' /\ wire' \subseteq [op: 1..Len(accepted), live: BOOLEAN] /\ reply' \in Reply
  BY <1>1, <1>3, RepliesKeep DEF Reply
<1>5. Records' /\ record' \in [Event -> {"none", "running", "done"}]
  BY <1>1, <1>2, <1>3, RecordsGrow
<1>6. Typed'
  BY <1>1, <1>2, <1>3, <1>4, <1>5 DEF IInv, Typed, Ids
<1>7. NothingLost'
  BY <1>2, <1>3, NothingGoes
<1>. QED BY <1>3, <1>4, <1>5, <1>6, <1>7 DEF IInv, Primary

LEMMA ApplyFailsStep == ASSUME IInv, NEW m \in wire, ApplyFails(m) PROVE IInv'
<1>1. /\ Replies(m, "unknown") /\ record[m.op] = "none" /\ UNCHANGED record /\ faults' \in 0..MaxFaults
      /\ applied' = applied \/ (~Play(m.op) /\ applied' = Append(applied, m.op))
  BY OutboxAssumption DEF ApplyFails, Claimable, Fault, IInv, Typed
<1>2. CASE applied' = applied
  BY <1>1, <1>2, RepliesStep DEF Reply
<1>3. CASE ~Play(m.op) /\ applied' = Append(applied, m.op)
  <2>1. UNCHANGED <<accepted, outbox, refused, expired, batch, backoff, up, known>>
    BY <1>1 DEF Replies, replica, history
  <2>2. /\ PlaysOnceInOrder' /\ RecordedPassed' /\ Handed' = Handed \cup {m.op}
        /\ applied' \in Seq(1..Len(accepted))
    BY <1>1, <1>3, <2>1, OrderGrows
  <2>3. /\ Replica' /\ Wire' /\ wire' \subseteq [op: 1..Len(accepted), live: BOOLEAN] /\ reply' \in Reply
    BY <1>1, <2>2, RepliesKeep DEF Reply
  <2>4. Records'
    BY <1>1, <1>3, <2>1, <2>2 DEF IInv, Primary, Records, Play
  <2>5. Typed'
    BY <1>1, <2>1, <2>2, <2>3 DEF IInv, Typed, Ids
  <2>6. NothingLost'
    BY <2>1, <2>2, NothingGoes
  <2>. QED BY <2>2, <2>3, <2>4, <2>5, <2>6 DEF IInv, Primary
<1>. QED BY <1>1, <1>2, <1>3

LEMMA ReplayStep == ASSUME IInv, NEW m \in wire, Replay(m) \/ RefuseScreen(m) PROVE IInv'
<1>1. UNCHANGED <<record, applied>> /\ faults' \in 0..MaxFaults
  BY DEF Replay, RefuseScreen, IInv, Typed
<1>2. CASE RefuseScreen(m)
  BY <1>1, <1>2, RepliesStep DEF RefuseScreen, Reply
<1>3. CASE Replay(m)
  <2>1. record[m.op] = "done" => m.op \in Handed
    BY DEF IInv, Typed, Primary, Records
  <2>2. CASE record[m.op] = "done"
    BY <1>1, <1>3, <2>1, <2>2, RepliesStep DEF Replay, Reply
  <2>3. CASE record[m.op] # "done"
    BY <1>1, <1>3, <2>3, RepliesStep DEF Replay, Reply
  <2>. QED BY <2>2, <2>3
<1>. QED BY <1>2, <1>3

\* The primary dies inside an application: it may have had its effect.
LEMMA OrphanStep == ASSUME IInv, NEW m \in wire, Orphan(m) PROVE IInv'
<1>1. /\ UNCHANGED <<accepted, outbox, batch, backoff, known, refused, expired>>
      /\ record[m.op] = "none" /\ record' = [record EXCEPT ![m.op] = "running"]
      /\ applied' = applied \/ applied' = Append(applied, m.op)
      /\ up' = FALSE /\ wire' = Unanswered /\ reply' \in {reply, "none"} /\ faults' \in 0..MaxFaults
  BY OutboxAssumption DEF Orphan, Claimable, Cut, Fault, replica, history, IInv, Typed
<1>2. /\ m.op \in 1..Len(accepted) /\ 1..Len(accepted) \subseteq Event
      /\ record \in [Event -> {"none", "running", "done"}]
  BY OutboxAssumption DEF IInv, Typed, Event
<1>3. record' \in [Event -> {"none", "running", "done"}]
  BY <1>1, <1>2
<1>4. /\ PlaysOnceInOrder' /\ Primary' /\ Handed \subseteq Handed' /\ applied' \in Seq(1..Len(accepted))
  <2>1. CASE applied' = applied
    <3>1. PlaysOnceInOrder' /\ Handed' = Handed
      BY <1>1, <2>1, OrderStays DEF Handed
    <3>2. \A n \in Event : record'[n] = IF n = m.op THEN "running" ELSE record[n]
      BY <1>1, <1>2
    <3>3. Records'
      <4>1. \A n \in Event : n > Len(accepted) => n # m.op
        BY <1>2, OutboxAssumption DEF Event, IInv, Typed
      <4>. QED BY <1>1, <1>2, <3>1, <3>2, <4>1 DEF IInv, Primary, Records, Play
    <3>4. RecordedPassed'
      BY <1>1, <3>1 DEF IInv, Primary, RecordedPassed, Passed, Play, Ids
    <3>. QED BY <2>1, <3>1, <3>3, <3>4 DEF Primary, IInv, Typed
  <2>2. CASE applied' = Append(applied, m.op)
    <3>1. /\ PlaysOnceInOrder' /\ RecordedPassed' /\ Handed' = Handed \cup {m.op}
          /\ applied' \in Seq(1..Len(accepted))
      BY <1>1, <2>2, OrderGrows
    <3>2. Records'
      BY <1>1, <3>1, RecordsGrow
    <3>. QED BY <3>1, <3>2 DEF Primary
  <2>. QED BY <1>1, <2>1, <2>2
<1>5. /\ Replica' /\ Wire' /\ wire' \subseteq [op: 1..Len(accepted), live: BOOLEAN] /\ reply' \in Reply
  BY <1>1, <1>4, CutKeeps
<1>6. Typed'
  BY <1>1, <1>3, <1>4, <1>5 DEF IInv, Typed, Ids
<1>7. NothingLost'
  BY <1>1, <1>4, NothingGoes
<1>. QED BY <1>4, <1>5, <1>6, <1>7 DEF IInv

-----------------------------------------------------------------------------
\* The answer to the first row: it goes if the primary applied it.
LEMMA AnsweredStep == ASSUME IInv, Answered PROVE IInv'
<1>1. /\ reply # "none" /\ reply' = "none" /\ Draining
      /\ UNCHANGED <<accepted, up, record, known, applied, refused, expired, faults>>
  BY DEF Answered, primary, history, IInv, Wire, AnswerIsFirst
<1>2. \A m \in wire : m.live = FALSE /\ m.op \notin refused /\ Passed(m.op)
  BY <1>1, NobodyWaits DEF IInv, Wire, Sent
<1>3. CASE reply # "ok"
  <2>1. batch' = NoRows /\ backoff' = TRUE /\ UNCHANGED <<outbox, wire>>
    BY <1>3 DEF Answered, Leave
  <2>2. batch' \in Rows /\ DOMAIN batch' = {}
    BY <2>1, NoRowsAreRows
  <2>3. Replica'
    BY <1>1, <2>1, <2>2 DEF IInv, Replica, Own, IsPlay, Prefix, NeverRefused, Ids
  <2>4. Wire'
    BY <1>1, <1>2, <2>1 DEF Wire, Sent, Wired, AnswerIsFirst, Passed, Play, Ids
  <2>5. Typed'
    <3>1. (Range(outbox) \cup Range(batch) \cup Ids \cup DOMAIN batch \subseteq 1..Len(accepted))'
      BY <2>3 DEF Replica, Own, Range, Ids
    <3>. QED BY <1>1, <2>1, <2>2, <3>1 DEF IInv, Typed, Reply
  <2>6. Primary'
    BY <1>1, <2>1 DEF IInv, Primary, Records, RecordedPassed, Passed, Play, Ids, Handed
  <2>7. PlaysOnceInOrder' /\ NothingLost'
    BY <1>1, <2>1, OrderStays, NothingGoes DEF Handed
  <2>. QED BY <2>3, <2>4, <2>5, <2>6, <2>7 DEF IInv
<1>4. CASE reply = "ok"
  <2>. DEFINE id == Min(DOMAIN batch)
              rest == Restrict(batch, DOMAIN batch \ {id})
  <2>1. batch \in Rows /\ DOMAIN batch \subseteq Nat /\ DOMAIN batch # {}
    BY <1>1, RowsAre DEF IInv, Typed, Draining
  <2>2. id \in DOMAIN batch /\ First(batch) = batch[id] /\ First(batch) \in Handed
    BY <1>4, <2>1, MinIsLeast DEF First, IInv, Wire, AnswerIsFirst
  <2>3. Play(id) => id \in Handed
    BY <2>2 DEF IInv, Replica, Own, Play, IsPlay
  <2>4. Delete(id) /\ Sending(rest, up)
    BY <1>4 DEF Answered
  <2>5. rest \in Rows /\ DOMAIN rest = DOMAIN batch \ {id} /\ \A i \in DOMAIN rest : rest[i] = batch[i]
    BY <2>1, RestrictedRows
  <2>. HIDE DEF id, rest
  <2>6. /\ outbox' \in Rows /\ Ids' \subseteq Ids \ {id} /\ \A i \in Ids' : outbox'[i] = outbox[i]
        /\ Own(outbox', accepted) /\ (\A i \in Ids' : outbox'[i] \notin refused) /\ NothingLost'
        /\ \A n : Passed(n) => Passed(n)'
    BY <1>1, <2>3, <2>4, DeleteKeeps
  <2>7. /\ Own(rest, accepted') /\ \A i \in DOMAIN rest : rest[i] \notin refused'
    BY <1>1, <2>5 DEF IInv, Replica, Own, NeverRefused
  <2>8. Ids' \subseteq Nat /\ \A i \in Ids', j \in DOMAIN rest : i < j => i \in DOMAIN rest
    <3>1. Ids' \subseteq Nat
      BY <2>6, RowsAre DEF Ids
    <3>. QED BY <2>5, <2>6, <3>1 DEF IInv, Replica, Prefix
  <2>9. /\ wire \subseteq [op: 1..Len(accepted'), live: BOOLEAN] /\ up \in BOOLEAN
        /\ \A m \in wire : m.live = FALSE /\ m.op \notin refused' /\ Passed(m.op)'
    BY <1>1, <1>2, <2>6 DEF IInv, Typed
  <2>10. /\ batch' \in Rows /\ backoff' \in BOOLEAN /\ wire' \subseteq [op: 1..Len(accepted'), live: BOOLEAN]
         /\ Own(batch', accepted') /\ \A i \in DOMAIN batch' : batch'[i] \notin refused'
         /\ Prefix' /\ Wire'
    BY <1>1, <2>4, <2>5, <2>7, <2>8, <2>9, SendingKeeps
  <2>11. Replica'
    BY <1>1, <2>6, <2>10 DEF Replica, Own, NeverRefused, Ids
  <2>12. Typed'
    <3>1. (Range(outbox) \cup Range(batch) \cup Ids \cup DOMAIN batch \subseteq 1..Len(accepted))'
      BY <2>11 DEF Replica, Own, Range, Ids
    <3>. QED BY <1>1, <2>6, <2>10, <3>1 DEF IInv, Typed, Reply
  <2>13. Primary'
    BY <1>1, <2>6 DEF IInv, Primary, Records, RecordedPassed, Play, Handed
  <2>14. PlaysOnceInOrder'
    BY <1>1, OrderStays
  <2>. QED BY <2>6, <2>10, <2>11, <2>12, <2>13, <2>14 DEF IInv
<1>. QED BY <1>3, <1>4

\* The oldest row is given up.
LEMMA ExpireStep == ASSUME IInv, Expire PROVE IInv'
<1>. DEFINE id == Min(Ids)
<1>1. /\ UNCHANGED <<accepted, batch, backoff, up, wire, reply, record, known, applied, refused, faults>>
      /\ expired' = expired \cup {First(outbox)} /\ Delete(id) /\ outbox # NoRows
  BY DEF Expire, primary
<1>2. id \in Ids /\ First(outbox) = outbox[id]
  BY <1>1, RowsAre, MinIsLeast DEF First, IInv, Typed, Ids
<1>. HIDE DEF id
<1>3. (Play(id) => id \in expired') /\ expired' \subseteq 1..Len(accepted)
  <2>1. outbox[id] \in 1..Len(accepted) /\ (Play(id) => outbox[id] = id)
    BY <1>2 DEF IInv, Replica, Own, Play, IsPlay, Ids
  <2>2. expired \subseteq 1..Len(accepted)
    BY DEF IInv, Typed
  <2>. QED BY <1>1, <1>2, <2>1, <2>2
<1>4. /\ outbox' \in Rows /\ Ids' \subseteq Ids \ {id} /\ \A i \in Ids' : outbox'[i] = outbox[i]
      /\ Own(outbox', accepted) /\ (\A i \in Ids' : outbox'[i] \notin refused) /\ NothingLost'
      /\ \A n : Passed(n) => Passed(n)'
  BY <1>1, <1>3, DeleteKeeps
<1>5. Replica'
  BY <1>1, <1>4 DEF IInv, Replica, Own, IsPlay, Prefix, NeverRefused, Ids
<1>6. Wire'
  BY <1>1, <1>4 DEF IInv, Wire, Sent, Wired, AnswerIsFirst, Draining, First, Handed
<1>7. Typed'
  <2>1. (Range(outbox) \cup Range(batch) \cup Ids \cup DOMAIN batch \subseteq 1..Len(accepted))'
    BY <1>5 DEF Replica, Own, Range, Ids
  <2>. QED BY <1>1, <1>3, <1>4, <2>1 DEF IInv, Typed
<1>8. Primary'
  BY <1>1, <1>4 DEF IInv, Primary, Records, RecordedPassed, Play, Handed
<1>9. PlaysOnceInOrder'
  BY <1>1, OrderStays
<1>. QED BY <1>4, <1>5, <1>6, <1>7, <1>8, <1>9 DEF IInv

-----------------------------------------------------------------------------
\* An event more: those there were are what they were.
LEMMA Appended ==
  ASSUME IInv, NEW s \in Screens, NEW k \in Kind, Report(s, k)
  PROVE  LET n == Len(accepted) + 1 IN
         /\ Len(accepted) \in Nat /\ n \in Event /\ accepted' \in Seq(EventRec) /\ Len(accepted') = n
         /\ accepted'[n] = [screen |-> s, kind |-> k]
         /\ \A i \in 1..Len(accepted) : accepted'[i] = accepted[i]
         /\ \A i \in 1..Len(accepted) : i \in 1..n /\ i < n /\ i \in Nat /\ i \in Event
<1>1. /\ accepted \in Seq(EventRec) /\ Len(accepted) \in Nat /\ Len(accepted) + 1 <= MaxEvents
      /\ accepted' = Append(accepted, [screen |-> s, kind |-> k])
  BY DEF IInv, Typed, EventRec, Report
<1>2. [screen |-> s, kind |-> k] \in EventRec
  BY DEF EventRec
<1>. QED BY <1>1, <1>2, OutboxAssumption DEF Event

\* The row of the event is new, or that of an earlier beat of the screen.
LEMMA RowOfNew ==
  ASSUME IInv, NEW s \in Screens, NEW k \in Kind, NEW n
  PROVE  \/ RowOf(s, k, n) = n
         \/ RowOf(s, k, n) \in Ids /\ k = "beat" /\ accepted[RowOf(s, k, n)] = [screen |-> s, kind |-> "beat"]
<1>. DEFINE same == {i \in Ids : accepted[i] = [screen |-> s, kind |-> "beat"]}
<1>1. same \subseteq Ids /\ same \subseteq Nat
  BY RowsAre DEF IInv, Typed, Ids
<1>2. CASE k = "beat" /\ same # {}
  <2>1. RowOf(s, k, n) = Min(same)
    BY <1>2 DEF RowOf
  <2>2. Min(same) \in same
    <3>. HIDE DEF same
    <3>. QED BY <1>1, <1>2, MinIsLeast
  <2>. QED BY <1>2, <2>1, <2>2
<1>3. CASE ~(k = "beat" /\ same # {})
  BY <1>3 DEF RowOf
<1>. QED BY <1>2, <1>3

\* What was applied is as it was when an event more is there.
LEMMA HistoryStays ==
  ASSUME IInv, UNCHANGED <<record, applied, expired>>, Len(accepted') = Len(accepted) + 1, Len(accepted') \in Event,
         \A i \in 1..Len(accepted) : accepted'[i] = accepted[i],
         \A i \in 1..Len(accepted) : Passed(i) => Passed(i)'
  PROVE  Primary' /\ PlaysOnceInOrder'
<1>1. /\ applied \in Seq(1..Len(accepted)) /\ Len(accepted) \in Nat
      /\ \A i \in DOMAIN applied : applied[i] \in 1..Len(accepted)
      /\ \A i \in Handed : i \in 1..Len(accepted)
  BY DEF IInv, Typed, Handed, Range
<1>2. Handed' = Handed /\ applied' = applied /\ expired' = expired /\ record' = record
  BY DEF Handed
<1>3. RecordedPassed'
  BY <1>1, <1>2 DEF IInv, Primary, RecordedPassed
<1>4. Records'
  <2>1. ASSUME NEW i \in 1..Len(accepted')
        PROVE  i \in 1..Len(accepted) \/ (i = Len(accepted) + 1 /\ i \notin Handed)
    BY <1>1
  <2>2. ASSUME NEW i \in 1..Len(accepted'), record[i] = "done"
        PROVE  i \in Handed
    <3>1. CASE i \in 1..Len(accepted)
      BY <2>2, <3>1 DEF IInv, Primary, Records
    <3>2. CASE i = Len(accepted) + 1 /\ i \in Event
      BY <1>1, <2>2, <3>2 DEF IInv, Primary, Records
    <3>3. i \in Event \/ i \in 1..Len(accepted)
      BY <1>1, OutboxAssumption DEF Event
    <3>. QED BY <2>1, <3>1, <3>2, <3>3
  <2>3. ASSUME NEW i \in 1..Len(accepted'), Play(i)', record[i] = "none"
        PROVE  i \notin Handed
    BY <2>1, <2>3 DEF IInv, Primary, Records, Play
  <2>4. \A i \in Event : i > Len(accepted') => record[i] = "none"
    BY <1>1, OutboxAssumption DEF IInv, Primary, Records, Event
  <2>. QED BY <1>2, <2>2, <2>3, <2>4 DEF Records
<1>5. PlaysOnceInOrder'
  BY <1>1, <1>2 DEF IInv, PlaysOnceInOrder, Play
<1>. QED BY <1>3, <1>4, <1>5 DEF Primary

\* A play turned away at the cap is no longer expected anywhere.
LEMMA RefusedStep ==
  ASSUME IInv, NEW s \in Screens, NEW k \in Kind, Report(s, k), refused' = refused \cup {Len(accepted) + 1},
         UNCHANGED <<replica, wire>>
  PROVE  IInv'
<1>. DEFINE n == Len(accepted) + 1
<1>1. /\ Len(accepted) \in Nat /\ accepted' \in Seq(EventRec) /\ Len(accepted') = n /\ n \in Event
      /\ \A i \in 1..Len(accepted) : accepted'[i] = accepted[i]
      /\ \A i \in 1..Len(accepted) : i \in 1..n /\ i < n /\ i \in Nat /\ i \in Event
  BY Appended
<1>2. UNCHANGED <<outbox, batch, backoff, wire, up, reply, record, known, applied, expired, faults>>
      /\ refused' = refused \cup {n}
  BY DEF Report, replica, primary
<1>. HIDE DEF n
<1>3. /\ \A m \in wire : m.op \in 1..Len(accepted)
      /\ \A i \in Handed : i \in 1..Len(accepted)
  BY DEF IInv, Typed, Handed, Range
<1>4. Replica'
  BY <1>1, <1>2 DEF IInv, Replica, Own, IsPlay, Prefix, NeverRefused, Ids
<1>5. \A i \in 1..Len(accepted) : Passed(i) => Passed(i)'
  BY <1>1, <1>2 DEF Passed, Play, Ids
<1>6. Wire'
  <2>1. Sent'
    BY <1>1, <1>2, <1>3, <1>5 DEF IInv, Wire, Sent
  <2>. QED BY <1>2, <2>1 DEF IInv, Wire, Wired, AnswerIsFirst, Draining, First, Handed
<1>7. Typed'
  <2>1. (Range(outbox) \cup Range(batch) \cup Ids \cup DOMAIN batch \subseteq 1..Len(accepted))'
    BY <1>4 DEF Replica, Own, Range, Ids
  <2>2. wire \subseteq [op: 1..n, live: BOOLEAN]
    BY <1>1 DEF IInv, Typed
  <2>3. applied \in Seq(1..n) /\ refused' \subseteq 1..n /\ expired \subseteq 1..n
    <3>1. 1..Len(accepted) \subseteq 1..n /\ n \in 1..n
      BY <1>1 DEF n
    <3>2. applied \in Seq(1..Len(accepted)) /\ refused \subseteq 1..Len(accepted)
          /\ expired \subseteq 1..Len(accepted)
      BY DEF IInv, Typed
    <3>3. applied \in Seq(1..n)
      <4>. DEFINE Old == 1..Len(accepted)
                  New == 1..n
      <4>1. Old \subseteq New /\ applied \in Seq(Old)
        BY <3>1, <3>2
      <4>. HIDE DEF Old, New
      <4>2. applied \in Seq(New)
        BY <4>1
      <4>. QED BY <4>2 DEF New
    <3>4. refused' \subseteq 1..n /\ expired \subseteq 1..n
      BY <1>2, <3>1, <3>2
    <3>. QED BY <3>3, <3>4
  <2>. QED BY <1>1, <1>2, <2>1, <2>2, <2>3 DEF IInv, Typed, EventRec, Event
<1>8. Primary' /\ PlaysOnceInOrder'
  BY <1>1, <1>2, <1>3, <1>5, HistoryStays DEF n
<1>9. NothingLost'
  <2>1. \A i \in 1..n : i \in 1..Len(accepted) \/ i \in refused'
    BY <1>1, <1>2 DEF n
  <2>. QED BY <1>1, <1>2, <2>1 DEF IInv, NothingLost, Play, Handed
<1>. QED BY <1>4, <1>6, <1>7, <1>8, <1>9 DEF IInv

\* The event waits in its row, and an idle drain may send it at once.
LEMMA QueuedStep ==
  ASSUME IInv, NEW s \in Screens, NEW k \in Kind, Report(s, k), UNCHANGED refused,
         outbox' = Queued(RowOf(s, k, Len(accepted) + 1), Len(accepted) + 1), Kick(outbox')
  PROVE  IInv'
<1>. DEFINE n == Len(accepted) + 1
            id == RowOf(s, k, n)
<1>1. /\ Len(accepted) \in Nat /\ accepted' \in Seq(EventRec) /\ Len(accepted') = n /\ n \in Event
      /\ accepted'[n] = [screen |-> s, kind |-> k]
      /\ \A i \in 1..Len(accepted) : accepted'[i] = accepted[i]
      /\ \A i \in 1..Len(accepted) : i \in 1..n /\ i < n /\ i \in Nat /\ i \in Event
  BY Appended
<1>2. UNCHANGED <<up, reply, record, known, applied, refused, expired, faults>>
  BY DEF Report, primary
<1>3. id = n \/ (id \in Ids /\ k = "beat" /\ accepted[id] = [screen |-> s, kind |-> "beat"])
  BY RowOfNew
<1>4. outbox' = [i \in Ids \cup {id} |-> IF i = id THEN n ELSE outbox[i]]
  BY DEF Queued
<1>5. n \in 1..n /\ n \in Nat
  BY <1>1
<1>. HIDE DEF n, id
<1>6. /\ \A m \in wire : m.op \in 1..Len(accepted) /\ \A i \in Handed : i \in 1..Len(accepted)
      /\ \A i \in Ids : i \in 1..Len(accepted) /\ outbox[i] \in 1..Len(accepted)
      /\ \A i \in DOMAIN batch : i \in 1..Len(accepted) /\ batch[i] \in 1..Len(accepted)
      /\ \A i \in refused : i \in 1..Len(accepted)
  BY DEF IInv, Typed, Handed, Range, Replica, Own, Ids
<1>7. Ids' = Ids \cup {id} /\ \A i \in Ids' : outbox'[i] = IF i = id THEN n ELSE outbox[i]
  BY <1>4 DEF Ids
<1>8. outbox' \in Rows
  <2>1. Ids \cup {id} \in SUBSET Event /\ \A i \in Ids : outbox[i] \in Event
    BY <1>1, <1>3, <1>6
  <2>2. outbox' \in [Ids \cup {id} -> Event]
    BY <1>1, <1>4, <2>1
  <2>. QED BY <2>1, <2>2 DEF Rows
<1>9. Own(outbox', accepted')
  <2>. SUFFICES ASSUME NEW i \in Ids'
                PROVE  /\ i \in 1..n /\ outbox'[i] \in 1..n /\ accepted'[outbox'[i]] = accepted'[i]
                       /\ IsPlay(accepted', i) => outbox'[i] = i
    BY <1>1 DEF Own, Ids
  <2>1. CASE i # id
    <3>1. i \in Ids /\ outbox'[i] = outbox[i]
      BY <1>7, <2>1
    <3>2. accepted[outbox[i]] = accepted[i] /\ (IsPlay(accepted, i) => outbox[i] = i)
      BY <3>1 DEF IInv, Replica, Own, Ids
    <3>. QED BY <1>1, <1>6, <3>1, <3>2 DEF IsPlay
  <2>2. CASE i = id /\ id = n
    BY <1>5, <1>7, <2>2
  <2>3. CASE i = id /\ id \in Ids /\ k = "beat" /\ accepted[id] = [screen |-> s, kind |-> "beat"]
    BY <1>1, <1>5, <1>6, <1>7, <2>3 DEF IsPlay
  <2>. QED BY <1>3, <2>1, <2>2, <2>3
<1>10. \A i \in Ids' : outbox'[i] \notin refused'
  BY <1>1, <1>2, <1>6, <1>7 DEF IInv, Replica, NeverRefused
<1>11. \A j \in 1..Len(accepted) : Passed(j) => Passed(j)'
  <2>. SUFFICES ASSUME NEW j \in 1..Len(accepted), Passed(j), Play(j), NEW i \in Ids' PROVE j <= i
    BY <1>1 DEF Passed, Play
  <2>1. i \in Ids \/ i = n
    BY <1>3, <1>7
  <2>. QED BY <1>1, <1>5, <2>1 DEF Passed
<1>12. Own(batch, accepted')
  BY <1>1, <1>6 DEF IInv, Replica, Own, IsPlay
<1>13. \A m \in wire : m.op \notin refused' /\ Passed(m.op)'
  BY <1>2, <1>6, <1>11 DEF IInv, Wire, Sent
<1>14. wire \subseteq [op: 1..Len(accepted'), live: BOOLEAN]
  <2>1. wire \subseteq [op: 1..n, live: BOOLEAN]
    BY <1>1 DEF IInv, Typed
  <2>. QED BY <1>1, <2>1
<1>15. /\ batch' \in Rows /\ backoff' \in BOOLEAN /\ wire' \subseteq [op: 1..Len(accepted'), live: BOOLEAN]
       /\ Own(batch', accepted') /\ \A i \in DOMAIN batch' : batch'[i] \notin refused'
       /\ Prefix' /\ Wire'
  <2>1. CASE Draining \/ backoff
    <3>1. UNCHANGED <<batch, backoff, wire>>
      BY <2>1 DEF Kick
    <3>2. Prefix'
      <4>. SUFFICES ASSUME NEW i \in Ids', NEW j \in DOMAIN batch, i < j PROVE i \in DOMAIN batch
        BY <3>1 DEF Prefix
      <4>1. i # n
        BY <1>1, <1>5, <1>6
      <4>2. i \in Ids
        BY <1>3, <1>7, <4>1
      <4>. QED BY <4>2 DEF IInv, Replica, Prefix
    <3>3. Wire'
      BY <1>2, <1>13, <3>1 DEF IInv, Wire, Sent, Wired, AnswerIsFirst, Draining, First, Handed
    <3>4. \A i \in DOMAIN batch : batch[i] \notin refused'
      BY <1>2 DEF IInv, Replica, NeverRefused
    <3>. QED BY <1>12, <1>14, <3>1, <3>2, <3>3, <3>4 DEF IInv, Typed
  <2>2. CASE ~(Draining \/ backoff)
    <3>1. Drain(outbox', up) /\ up \in BOOLEAN
      BY <2>2 DEF Kick, IInv, Typed
    <3>2. reply' = "none"
      BY <1>2, <2>2 DEF IInv, Wire, AnswerIsFirst
    <3>3. \A m \in wire : m.live = FALSE
      BY <2>2, NobodyWaits
    <3>4. DOMAIN outbox' = Ids'
      BY DEF Ids
    <3>. QED BY <1>8, <1>9, <1>10, <1>13, <1>14, <3>1, <3>2, <3>3, <3>4, DrainKeeps
  <2>. QED BY <2>1, <2>2
<1>16. Replica'
  BY <1>9, <1>10, <1>15 DEF Replica, NeverRefused, Own
<1>17. Typed'
  <2>1. (Range(outbox) \cup Range(batch) \cup Ids \cup DOMAIN batch \subseteq 1..Len(accepted))'
    BY <1>16 DEF Replica, Own, Range, Ids
  <2>2. applied \in Seq(1..n) /\ refused \subseteq 1..n /\ expired \subseteq 1..n
    <3>. DEFINE Old == 1..Len(accepted)
                New == 1..n
    <3>1. Old \subseteq New /\ applied \in Seq(Old) /\ refused \subseteq Old /\ expired \subseteq Old
      BY <1>1 DEF IInv, Typed
    <3>. HIDE DEF Old, New
    <3>2. applied \in Seq(New) /\ refused \subseteq New /\ expired \subseteq New
      BY <3>1
    <3>. QED BY <3>2 DEF New
  <2>. QED BY <1>1, <1>2, <1>8, <1>15, <2>1, <2>2 DEF IInv, Typed, EventRec, Event
<1>18. Primary' /\ PlaysOnceInOrder'
  BY <1>1, <1>2, <1>11, HistoryStays DEF n
<1>19. NothingLost'
  <2>. SUFFICES ASSUME NEW j \in 1..n, Play(j)'
                PROVE  j \in Range(outbox') \cup Handed \cup refused \cup expired
    BY <1>1, <1>2 DEF NothingLost, Handed
  <2>1. CASE j = n
    BY <1>7, <2>1 DEF Range, Ids
  <2>2. CASE j \in 1..Len(accepted) /\ j \in Range(outbox)
    <3>1. PICK i \in Ids : outbox[i] = j
      BY <2>2 DEF Range, Ids
    <3>2. Play(j) /\ i = j
      BY <1>1, <2>2, <3>1 DEF Play, IInv, Replica, Own, Ids, IsPlay
    <3>3. i # id
      BY <1>1, <1>3, <1>5, <2>2, <3>2 DEF Play
    <3>. QED BY <1>7, <3>1, <3>3 DEF Range, Ids
  <2>3. CASE j \in 1..Len(accepted) /\ j \notin Range(outbox)
    BY <1>1, <2>3 DEF IInv, NothingLost, Play
  <2>4. j = n \/ j \in 1..Len(accepted)
    BY <1>1 DEF n
  <2>. QED BY <2>1, <2>2, <2>3, <2>4
<1>. QED BY <1>15, <1>16, <1>17, <1>18, <1>19 DEF IInv

-----------------------------------------------------------------------------
LEMMA InitIsGood == Init => IInv
<1>. SUFFICES ASSUME Init PROVE IInv
  OBVIOUS
<1>1. /\ accepted = <<>> /\ applied = <<>> /\ wire = {} /\ refused = {} /\ expired = {} /\ reply = "none"
      /\ record = [n \in Event |-> "none"] /\ outbox = NoRows /\ batch = NoRows
      /\ Len(accepted) = 0 /\ Handed = {} /\ DOMAIN outbox = {} /\ DOMAIN batch = {} /\ NoRows \in Rows
  BY NoRowsAreRows DEF Init, Handed, Range
<1>2. accepted \in Seq(EventRec) /\ applied \in Seq(1..Len(accepted))
  BY <1>1
<1>3. Typed
  <2>1. Range(outbox) \cup Range(batch) \cup Ids \cup DOMAIN batch \subseteq 1..Len(accepted)
    BY <1>1 DEF Range, Ids
  <2>2. Len(accepted) <= MaxEvents /\ 0 \in 0..MaxFaults
    BY <1>1, OutboxAssumption
  <2>. QED BY <1>1, <1>2, <2>1, <2>2 DEF Init, Typed, Reply, EventRec
<1>4. Replica /\ Wire
  BY <1>1 DEF Replica, Own, Prefix, NeverRefused, Ids, Wire, Sent, Wired, AnswerIsFirst
<1>5. Primary /\ PlaysOnceInOrder /\ NothingLost
  BY <1>1 DEF Primary, Records, RecordedPassed, PlaysOnceInOrder, NothingLost
<1>. QED BY <1>3, <1>4, <1>5 DEF IInv

LEMMA NextIsGood == IInv /\ [Next]_vars => IInv'
<1>. SUFFICES ASSUME IInv, [Next]_vars PROVE IInv'
  OBVIOUS
<1>1. /\ backoff \in BOOLEAN /\ up \in BOOLEAN /\ known \subseteq Screens /\ faults \in 0..MaxFaults
      /\ (Fault => faults' \in 0..MaxFaults)
  BY OutboxAssumption DEF IInv, Typed, Fault
<1>2. CASE Tick
  BY <1>1, <1>2, DrainStep DEF Tick
<1>3. CASE BackoffPasses
  BY <1>1, <1>3, QuietStep DEF BackoffPasses, primary, history
<1>4. CASE NoAnswer \/ SlowAnswer
  <2>1. /\ UNCHANGED <<accepted, outbox, history, record, known, applied>> /\ wire' = Unanswered
        /\ batch' = NoRows /\ reply' = "none" /\ backoff' = TRUE /\ up' = up /\ faults' \in 0..MaxFaults
    BY <1>1, <1>4 DEF NoAnswer, SlowAnswer, GivesUp, Leave, primary
  <2>. QED BY <1>1, <2>1, CutStep
<1>5. CASE LinkDown
  BY <1>1, <1>5, CutStep DEF LinkDown, Cut, replica, history
<1>6. CASE Restart
  BY <1>1, <1>6, CutStep DEF Restart, primary
<1>7. CASE LinkUp
  <2>1. CASE Draining
    BY <1>1, <1>7, <2>1, QuietStep DEF LinkUp, primary, history
  <2>2. CASE ~Draining
    BY <1>7, <2>2, DrainStep DEF LinkUp
  <2>. QED BY <2>1, <2>2
<1>8. ASSUME NEW s \in Screens, RemoveScreen(s) PROVE IInv'
  BY <1>1, <1>8, QuietStep DEF RemoveScreen, replica, history
<1>9. ASSUME NEW s \in Screens, NEW k \in Kind, Report(s, k) PROVE IInv'
  BY <1>9, RefusedStep, QueuedStep DEF Report
<1>10. ASSUME NEW m \in wire, Arrives(m) \/ Orphan(m) PROVE IInv'
  BY <1>10, ReplayStep, ApplyStep, ApplyFailsStep, OrphanStep DEF Arrives
<1>11. CASE UNCHANGED vars
  BY <1>1, <1>11, QuietStep DEF vars, replica, primary, history
<1>. QED BY <1>2, <1>3, <1>4, <1>5, <1>6, <1>7, <1>8, <1>9, <1>10, <1>11,
           AnsweredStep, ExpireStep, OutboxAssumption DEF Next

LEMMA AlwaysIInv == Spec => []IInv
<1>. QED BY InitIsGood, NextIsGood, PTL DEF Spec

-----------------------------------------------------------------------------
(* The play applier: what it logs and what it leaves out.                  *)

LEMMA EventsAre ==
  ASSUME IInv
  PROVE  /\ Len(accepted) \in Nat /\ Handed \subseteq 1..Len(accepted)
         /\ \A n \in 1..Len(accepted) : accepted[n] \in EventRec
<1>1. accepted \in Seq(EventRec) /\ applied \in Seq(1..Len(accepted))
  BY DEF IInv, Typed, EventRec
<1>2. \A i \in DOMAIN applied : applied[i] \in 1..Len(accepted)
  BY <1>1
<1>. QED BY <1>1, <1>2 DEF Handed, Range

\* What hands nothing over leaves the log as it is, or loses it in a crash.
LEMMA LogStays ==
  ASSUME IInv, LogInv, UNCHANGED <<applied, thinned, swallowed>>, last' \in {last, NoneLogged},
         Len(accepted') \in Nat, Len(accepted) <= Len(accepted'),
         \A i \in 1..Len(accepted) : accepted'[i] = accepted[i]
  PROVE  LogInv'
<1>1. Handed' = Handed /\ Handed \subseteq 1..Len(accepted) /\ Len(accepted) \in Nat
  BY EventsAre DEF Handed
<1>2. /\ last' \in [Screens -> 0..Len(accepted')]
      /\ \A s \in Screens : last'[s] = last[s] \/ last'[s] = 0
  <2>1. last \in [Screens -> 0..Len(accepted)]
    BY DEF LogInv, LogIsPlayed
  <2>2. \A i \in 0..Len(accepted) : i \in 0..Len(accepted')
    BY <1>1
  <2>3. NoneLogged \in [Screens -> 0..Len(accepted')] /\ \A s \in Screens : NoneLogged[s] = 0
    BY DEF NoneLogged
  <2>4. last \in [Screens -> 0..Len(accepted')]
    BY <2>1, <2>2
  <2>5. last' = last \/ last' = NoneLogged
    OBVIOUS
  <2>. QED BY <2>3, <2>4, <2>5
<1>3. LogIsPlayed'
  <2>. SUFFICES ASSUME NEW s \in Screens, last'[s] # 0
                PROVE  /\ last'[s] \in Handed' \ thinned'
                       /\ accepted'[last'[s]] = [screen |-> s, kind |-> "play"]
    BY <1>2 DEF LogIsPlayed
  <2>1. /\ last'[s] = last[s] /\ last[s] \in Handed \ thinned
        /\ accepted[last[s]] = [screen |-> s, kind |-> "play"]
    BY <1>2 DEF LogInv, LogIsPlayed
  <2>. QED BY <1>1, <2>1
<1>4. SkippedBehind'
  <2>1. ASSUME NEW n \in thinned
        PROVE  \E m \in Handed \ thinned : accepted'[m] = accepted'[n]
    <3>1. PICK m \in Handed \ thinned : accepted[m] = accepted[n]
      BY DEF LogInv, SkippedBehind
    <3>2. m \in 1..Len(accepted) /\ n \in 1..Len(accepted)
      BY <1>1, <3>1 DEF LogInv, SkippedBehind
    <3>3. accepted'[m] = accepted'[n]
      BY <3>1, <3>2
    <3>. QED BY <3>1, <3>3
  <2>. QED BY <1>1, <2>1 DEF LogInv, SkippedBehind
<1>. QED BY <1>1, <1>3, <1>4 DEF LogInv

\* A play handed over is logged, or left out behind the last one logged.
LEMMA LogGrows ==
  ASSUME IInv, LogInv, UNCHANGED <<accepted, outbox, refused, expired>>,
         NEW m \in wire, record[m.op] = "none", applied' = Append(applied, m.op),
         \/ /\ last' \in {last, Logged(m.op), NoneLogged} /\ thinned' = thinned
            /\ swallowed' \in {swallowed, swallowed \cup {m.op}}
         \/ /\ last' \in {last, NoneLogged} /\ thinned' = thinned \cup {m.op}
            /\ swallowed' = swallowed /\ MaySkip(m.op)
  PROVE  LogInv'
<1>. DEFINE n == m.op
<1>1. /\ n \in 1..Len(accepted) /\ Len(accepted) \in Nat /\ Handed' = Handed \cup {n}
      /\ (Play(n) => n \notin Handed) /\ accepted[n] \in EventRec
  BY OrderGrows, EventsAre DEF IInv, Typed, Wire, Sent, Primary, Records
<1>. HIDE DEF n
<1>2. /\ last \in [Screens -> 0..Len(accepted)] /\ thinned \subseteq Handed /\ swallowed \subseteq Handed
      /\ \A s \in Screens : last[s] # 0 =>
           last[s] \in Handed \ thinned /\ accepted[last[s]] = [screen |-> s, kind |-> "play"]
  BY DEF LogInv, LogIsPlayed, SkippedBehind
<1>3. /\ NoneLogged \in [Screens -> 0..Len(accepted)] /\ \A s \in Screens : NoneLogged[s] = 0
  BY <1>1 DEF NoneLogged
<1>4. /\ Logged(n) \in [Screens -> 0..Len(accepted)]
      /\ \A s \in Screens : \/ Logged(n)[s] = last[s]
                            \/ Logged(n)[s] = n /\ Play(n) /\ Screen(n) = s
  <2>1. CASE Play(n)
    <3>1. Screen(n) \in Screens
      BY <1>1 DEF Screen, EventRec
    <3>2. Logged(n) = [last EXCEPT ![Screen(n)] = n]
      BY <2>1 DEF Logged
    <3>. QED BY <1>1, <1>2, <2>1, <3>1, <3>2
  <2>2. CASE ~Play(n)
    BY <1>2, <2>2 DEF Logged
  <2>. QED BY <2>1, <2>2
<1>5. Play(n) => accepted[n] = [screen |-> Screen(n), kind |-> "play"]
  BY <1>1 DEF Play, Screen, EventRec
<1>6. accepted' = accepted
  OBVIOUS
<1>7. /\ swallowed' \subseteq Handed'
      /\ thinned' \subseteq Handed'
      /\ \A k \in Handed \ thinned : k \in Handed' \ thinned'
  <2>1. CASE thinned' = thinned /\ swallowed' \in {swallowed, swallowed \cup {n}}
    BY <1>1, <1>2, <2>1
  <2>2. CASE thinned' = thinned \cup {n} /\ swallowed' = swallowed /\ Play(n)
    BY <1>1, <1>2, <2>2
  <2>. QED BY <2>1, <2>2 DEF n, MaySkip
<1>8. LogIsPlayed'
  <2>1. CASE last' = last
    BY <1>2, <1>6, <1>7, <2>1 DEF LogIsPlayed
  <2>2. CASE last' = NoneLogged
    BY <1>3, <1>6, <2>2 DEF LogIsPlayed
  <2>3. CASE last' = Logged(n) /\ thinned' = thinned
    <3>1. ASSUME NEW s \in Screens, last'[s] # 0
          PROVE  /\ last'[s] \in Handed' \ thinned'
                 /\ accepted[last'[s]] = [screen |-> s, kind |-> "play"]
      <4>1. CASE last'[s] = last[s]
        BY <1>2, <1>7, <3>1, <4>1
      <4>2. CASE last'[s] = n /\ Play(n) /\ Screen(n) = s
        BY <1>1, <1>2, <1>5, <2>3, <4>2
      <4>. QED BY <1>4, <2>3, <4>1, <4>2
    <3>. QED BY <1>4, <1>6, <2>3, <3>1 DEF LogIsPlayed
  <2>. QED BY <2>1, <2>2, <2>3 DEF n
<1>9. \A k \in thinned : \E j \in Handed' \ thinned' : accepted[j] = accepted[k]
  <2>. SUFFICES ASSUME NEW k \in thinned PROVE \E j \in Handed' \ thinned' : accepted[j] = accepted[k]
    OBVIOUS
  <2>1. PICK j \in Handed \ thinned : accepted[j] = accepted[k]
    BY DEF LogInv, SkippedBehind
  <2>. QED BY <1>7, <2>1
<1>10. SkippedBehind'
  <2>1. CASE thinned' = thinned
    BY <1>6, <1>7, <1>9, <2>1 DEF SkippedBehind
  <2>2. CASE thinned' = thinned \cup {n} /\ MaySkip(n)
    <3>1. Screen(n) \in Screens
      BY <1>1 DEF Screen, EventRec
    <3>2. last[Screen(n)] \in Handed' \ thinned' /\ accepted[last[Screen(n)]] = accepted[n]
      BY <1>2, <1>5, <1>7, <2>2, <3>1 DEF MaySkip
    <3>3. \E j \in Handed' \ thinned' : accepted[j] = accepted[n]
      BY <3>2
    <3>. QED BY <1>6, <1>7, <1>9, <2>2, <3>3 DEF SkippedBehind
  <2>. QED BY <2>1, <2>2 DEF n
<1>. QED BY <1>7, <1>8, <1>10 DEF LogInv

LEMMA InitIsLogged == Init => LogInv
<1>. SUFFICES ASSUME Init PROVE LogInv
  OBVIOUS
<1>1. last = NoneLogged /\ thinned = {} /\ swallowed = {} /\ Len(accepted) = 0
  BY DEF Init
<1>2. last \in [Screens -> 0..Len(accepted)] /\ \A s \in Screens : last[s] = 0
  BY <1>1 DEF NoneLogged
<1>. QED BY <1>1, <1>2 DEF LogInv, LogIsPlayed, SkippedBehind

LEMMA NextIsLogged == IInv /\ LogInv /\ [Next]_vars => LogInv'
<1>. SUFFICES ASSUME IInv, LogInv, [Next]_vars PROVE LogInv'
  OBVIOUS
<1>1. Len(accepted) \in Nat /\ Len(accepted) <= Len(accepted)
  BY EventsAre
<1>2. CASE UNCHANGED <<accepted, applied, thinned, swallowed>> /\ last' \in {last, NoneLogged}
  BY <1>1, <1>2, LogStays
<1>3. CASE Tick \/ BackoffPasses \/ Answered \/ NoAnswer \/ SlowAnswer \/ Expire
  BY <1>2, <1>3 DEF Tick, BackoffPasses, Answered, NoAnswer, SlowAnswer, GivesUp, Expire, primary, plays
<1>4. CASE LinkDown \/ LinkUp \/ Restart
  BY <1>2, <1>4 DEF LinkDown, LinkUp, Restart, primary, plays
<1>5. ASSUME NEW s \in Screens, RemoveScreen(s) PROVE LogInv'
  BY <1>2, <1>5 DEF RemoveScreen, plays
<1>6. CASE UNCHANGED vars
  BY <1>2, <1>6 DEF vars, primary, plays
<1>7. ASSUME NEW s \in Screens, NEW k \in Kind, Report(s, k) PROVE LogInv'
  <2>1. UNCHANGED <<applied, thinned, swallowed, last>>
    BY <1>7 DEF Report, primary, plays
  <2>2. /\ Len(accepted') = Len(accepted) + 1
        /\ \A i \in 1..Len(accepted) : accepted'[i] = accepted[i]
    BY <1>7, Appended
  <2>3. Len(accepted') \in Nat /\ Len(accepted) <= Len(accepted')
    BY <1>1, <2>2
  <2>. QED BY <2>1, <2>2, <2>3, LogStays
<1>8. ASSUME NEW m \in wire, Arrives(m) \/ Orphan(m) PROVE LogInv'
  <2>1. UNCHANGED <<accepted, outbox, refused, expired>>
    BY <1>8 DEF Arrives, Replay, RefuseScreen, Apply, ApplyFails, Orphan, Replies, replica, history
  <2>2. CASE Replay(m) \/ RefuseScreen(m)
    BY <1>2, <2>1, <2>2 DEF Replay, RefuseScreen, plays
  <2>3. CASE Apply(m)
    <3>1. record[m.op] = "none" /\ applied' = Append(applied, m.op) /\ Takes(m.op)
      BY <2>3 DEF Apply, Claimable
    <3>. QED BY <2>1, <3>1, LogGrows DEF Takes
  <2>4. CASE ApplyFails(m)
    <3>1. /\ record[m.op] = "none" /\ UNCHANGED <<last, thinned, swallowed>>
          /\ applied' = applied \/ applied' = Append(applied, m.op)
      BY <2>4 DEF ApplyFails, Claimable, plays
    <3>. QED BY <1>2, <2>1, <3>1, LogGrows
  <2>5. CASE Orphan(m)
    <3>1. /\ record[m.op] = "none" /\ last' = NoneLogged /\ swallowed' = swallowed
          /\ \/ UNCHANGED <<applied, thinned>>
             \/ applied' = Append(applied, m.op) /\ thinned' = thinned
             \/ applied' = Append(applied, m.op) /\ thinned' = thinned \cup {m.op} /\ MaySkip(m.op)
      BY <2>5 DEF Orphan, Claimable
    <3>. QED BY <1>2, <2>1, <3>1, LogGrows
  <2>. QED BY <1>8, <2>2, <2>3, <2>4, <2>5 DEF Arrives
<1>. QED BY <1>3, <1>4, <1>5, <1>6, <1>7, <1>8, OutboxAssumption DEF Next

LEMMA AlwaysLogged == Spec => []LogInv
<1>. QED BY InitIsGood, NextIsGood, InitIsLogged, NextIsLogged, PTL DEF Spec

\* The types and the promise follow from the two invariants.
LEMMA LogIsTyped == IInv /\ LogInv => TypeOK
<1>. SUFFICES ASSUME IInv, LogInv PROVE TypeOK
  OBVIOUS
<1>1. /\ last \in [Screens -> 0..Len(accepted)]
      /\ thinned \subseteq 1..Len(accepted) /\ swallowed \subseteq 1..Len(accepted)
  BY EventsAre DEF LogInv, LogIsPlayed, SkippedBehind
<1>. QED BY <1>1 DEF IInv, Typed, TypeOK

LEMMA LogIsKept == IInv /\ LogInv => NothingVanishes
<1>. SUFFICES ASSUME IInv, LogInv, NEW n \in 1..Len(accepted), Play(n),
                     n \notin Range(outbox) \cup Recorded \cup refused \cup expired \cup swallowed
              PROVE  n \in thinned /\ \E m \in Recorded \cup swallowed : accepted[m] = accepted[n]
  BY DEF NothingVanishes
<1>1. n \in Handed
  BY DEF IInv, NothingLost
<1>2. n \in thinned
  BY <1>1 DEF Recorded
<1>3. PICK m \in Handed \ thinned : accepted[m] = accepted[n]
  BY <1>2 DEF LogInv, SkippedBehind
<1>4. m \in Recorded \cup swallowed
  BY <1>3 DEF Recorded
<1>. QED BY <1>2, <1>3, <1>4

(* Every variable of the outbox keeps its type.                            *)
THEOREM OutboxTypeCorrect == Spec => []TypeOK
<1>. QED BY AlwaysIInv, AlwaysLogged, LogIsTyped, PTL

(* A play is handed over once and in order, whatever is lost, late,        *)
(* repeated or restarted on the way: a request passes no play that waits.  *)
THEOREM PlaysAreOrdered == Spec => []PlaysOnceInOrder
BY AlwaysIInv, PTL DEF IInv

(* A play that was taken is in the outbox or logged at the primary until it*)
(* is given up, except for what the applier swallows or skips: the drain   *)
(* deletes no row but the one whose answer it has, and a play is skipped   *)
(* only behind another of its screen that the applier took.                *)
THEOREM PlaysAreKept == Spec => []NothingVanishes
<1>. QED BY AlwaysIInv, AlwaysLogged, LogIsKept, PTL

-----------------------------------------------------------------------------
(* EventRelay.  What the primary applied, without what is no play.        *)

\* One more element above all others comes last; the others keep their ranks.
LEMMA RanksGrow ==
  ASSUME NEW n \in Nat, NEW S \in SUBSET (1..n), NEW T, T = S \cup {n + 1}
  PROVE  /\ Cardinality(S) \in Nat /\ Cardinality(T) = Cardinality(S) + 1
         /\ \A k \in 1..Cardinality(S) : Ranked(T, k) = Ranked(S, k)
         /\ Ranked(T, Cardinality(S) + 1) = {n + 1}
<1>1. IsFiniteSet(S)
  <2>1. IsFiniteSet(1..n)
    BY FS_Interval
  <2>. QED BY <2>1, FS_Subset
<1>2. PICK c \in Nat : c = Cardinality(S)
  BY <1>1, FS_CardinalityType
<1>3. n + 1 \notin S
  OBVIOUS
<1>4. Cardinality(T) = c + 1
  BY <1>1, <1>2, <1>3, FS_AddElement
<1>5. ASSUME NEW i \in S
      PROVE  /\ {j \in T : j <= i} = {j \in S : j <= i}
             /\ Cardinality({j \in S : j <= i}) \in 0..c
  <2>1. {j \in T : j <= i} = {j \in S : j <= i}
    OBVIOUS
  <2>2. {j \in S : j <= i} \in SUBSET S
    OBVIOUS
  <2>3. /\ IsFiniteSet({j \in S : j <= i})
        /\ Cardinality({j \in S : j <= i}) <= Cardinality(S)
    BY <1>1, <2>2, FS_Subset
  <2>4. Cardinality({j \in S : j <= i}) \in Nat
    BY <2>3, FS_CardinalityType
  <2>. QED BY <1>2, <2>1, <2>3, <2>4
<1>6. {j \in T : j <= n + 1} = T
  <2>1. \A j \in T : j \in Nat /\ j <= n + 1
    OBVIOUS
  <2>. QED BY <2>1
<1>7. ASSUME NEW k \in 1..c PROVE Ranked(T, k) = Ranked(S, k)
  <2>1. ASSUME NEW i \in T PROVE i \in Ranked(T, k) <=> i \in Ranked(S, k)
    <3>1. CASE i = n + 1
      <4>1. Cardinality({j \in T : j <= i}) # k
        BY <1>4, <1>6, <3>1
      <4>. QED BY <1>3, <3>1, <4>1 DEF Ranked
    <3>2. CASE i \in S
      BY <1>5, <3>2 DEF Ranked
    <3>. QED BY <3>1, <3>2
  <2>. QED BY <2>1 DEF Ranked
<1>8. Ranked(T, c + 1) = {n + 1}
  <2>1. ASSUME NEW i \in T PROVE i \in Ranked(T, c + 1) <=> i = n + 1
    <3>1. CASE i = n + 1
      BY <1>4, <1>6, <3>1 DEF Ranked
    <3>2. CASE i \in S
      <4>1. Cardinality({j \in T : j <= i}) # c + 1
        BY <1>5, <3>2
      <4>. QED BY <1>3, <3>2, <4>1 DEF Ranked
    <3>. QED BY <3>1, <3>2
  <2>. QED BY <2>1 DEF Ranked
<1>. QED BY <1>2, <1>4, <1>7, <1>8

\* Every rank up to the size of a set of numbers is that of one of them.
LEMMA RanksAre ==
  ASSUME NEW n \in Nat, NEW S \in SUBSET (1..n)
  PROVE  Cardinality(S) \in Nat /\ \A k \in 1..Cardinality(S) : Ranked(S, k) # {}
<1>. DEFINE Each(U) == \A k \in 1..Cardinality(U) : Ranked(U, k) # {}
            Good == {m \in Nat : \A U \in SUBSET (1..m) : Each(U)}
<1>1. 0 \in Good
  <2>1. ASSUME NEW U \in SUBSET (1..0) PROVE Each(U)
    <3>1. U = {}
      OBVIOUS
    <3>2. Cardinality(U) = 0
      BY <3>1, FS_EmptySet
    <3>. QED BY <3>2
  <2>. QED BY <2>1
<1>2. ASSUME NEW m \in Good PROVE m + 1 \in Good
  <2>1. ASSUME NEW U \in SUBSET (1..(m + 1)) PROVE Each(U)
    <3>1. PICK V : V = U \ {m + 1}
      OBVIOUS
    <3>2. V \in SUBSET (1..m) /\ m \in Nat
      BY <3>1
    <3>3. Each(V)
      BY <1>2, <3>2
    <3>4. CASE m + 1 \notin U
      <4>1. V = U
        BY <3>1, <3>4
      <4>. QED BY <3>3, <4>1
    <3>5. CASE m + 1 \in U
      <4>1. U = V \cup {m + 1}
        BY <3>1, <3>5
      <4>2. /\ Cardinality(V) \in Nat /\ Cardinality(U) = Cardinality(V) + 1
            /\ \A k \in 1..Cardinality(V) : Ranked(U, k) = Ranked(V, k)
            /\ Ranked(U, Cardinality(V) + 1) = {m + 1}
        BY <3>2, <4>1, RanksGrow
      <4>3. ASSUME NEW k \in 1..Cardinality(U) PROVE Ranked(U, k) # {}
        <5>1. k \in 1..Cardinality(V) \/ k = Cardinality(V) + 1
          BY <4>2
        <5>. QED BY <3>3, <4>2, <5>1
      <4>. QED BY <4>3
    <3>. QED BY <3>4, <3>5
  <2>. HIDE DEF Each
  <2>. QED BY <2>1
<1>3. Nat \subseteq Good
  <2>. HIDE DEF Good
  <2>1. ASSUME Nat \ Good # {} PROVE FALSE
    <3>1. PICK m \in Nat \ Good : \A k \in Nat \ Good : m <= k
      BY <2>1, LeastNat
    <3>2. m # 0 /\ m - 1 \in Nat /\ m - 1 \in Good
      BY <1>1, <3>1
    <3>. QED BY <1>2, <3>1, <3>2
  <2>. QED BY <2>1
<1>4. IsFiniteSet(S)
  <2>1. IsFiniteSet(1..n)
    BY FS_Interval
  <2>. QED BY <2>1, FS_Subset
<1>. QED BY <1>3, <1>4, FS_CardinalityType

\* The plays applied are a sequence of events, in the order of application.
LEMMA PlaysApplied ==
  ASSUME IInv
  PROVE  /\ Len(applied) \in Nat /\ PlayedAt \in SUBSET (1..Len(applied))
         /\ Cardinality(PlayedAt) \in Nat
         /\ \A k \in 1..Cardinality(PlayedAt) :
              Nth(PlayedAt, k) \in PlayedAt /\ applied[Nth(PlayedAt, k)] \in 1..Len(accepted)
         /\ Delivered \in Seq(1..Len(accepted)) /\ Len(Delivered) = Cardinality(PlayedAt)
<1>1. /\ applied \in Seq(1..Len(accepted)) /\ Len(applied) \in Nat /\ DOMAIN applied = 1..Len(applied)
      /\ \A i \in 1..Len(applied) : applied[i] \in 1..Len(accepted)
  BY DEF IInv, Typed
<1>2. PICK S : S = PlayedAt
  OBVIOUS
<1>3. S \in SUBSET (1..Len(applied))
  BY <1>1, <1>2 DEF PlayedAt
<1>4. PICK c : c = Cardinality(S)
  OBVIOUS
<1>5. c \in Nat /\ \A k \in 1..c : Ranked(S, k) # {}
  BY <1>1, <1>3, <1>4, RanksAre
<1>6. \A k \in 1..c : Nth(S, k) \in S
  BY <1>5 DEF Nth, Ranked
<1>7. \A k \in 1..c : applied[Nth(S, k)] \in 1..Len(accepted)
  BY <1>1, <1>3, <1>6
<1>8. PICK d : d = [k \in 1..c |-> applied[Nth(S, k)]]
  OBVIOUS
<1>9. d \in Seq(1..Len(accepted)) /\ Len(d) = c
  BY <1>5, <1>7, <1>8
<1>10. d = Delivered
  BY <1>2, <1>4, <1>8 DEF Delivered
<1>. QED BY <1>1, <1>2, <1>3, <1>4, <1>5, <1>6, <1>7, <1>9, <1>10

\* Nothing is delivered by what applies nothing.
LEMMA DeliveredStays ==
  ASSUME IInv, applied' = applied, \A n \in 1..Len(accepted) : Play(n)' <=> Play(n)
  PROVE  Delivered' = Delivered
<1>1. \A i \in DOMAIN applied : applied[i] \in 1..Len(accepted)
  BY DEF IInv, Typed
<1>2. PlayedAt' = PlayedAt
  BY <1>1 DEF PlayedAt
<1>. QED BY <1>2 DEF Delivered

\* What is applied is delivered after all that was, if it is a play.
LEMMA DeliveredGrows ==
  ASSUME IInv, accepted' = accepted, NEW n \in 1..Len(accepted), applied' = Append(applied, n)
  PROVE  /\ Play(n) => Delivered' = Append(Delivered, n)
         /\ ~ Play(n) => Delivered' = Delivered
<1>1. /\ applied \in Seq(1..Len(accepted)) /\ Len(applied) \in Nat /\ DOMAIN applied = 1..Len(applied)
  BY DEF IInv, Typed
<1>2. PICK len \in Nat : len = Len(applied)
  BY <1>1
<1>3. /\ DOMAIN applied' = 1..(len + 1) /\ applied'[len + 1] = n
      /\ \A i \in 1..len : applied'[i] = applied[i]
  BY <1>1, <1>2
<1>4. PICK S, T : S = PlayedAt /\ T = PlayedAt'
  OBVIOUS
<1>5. PICK c : c = Cardinality(S)
  OBVIOUS
<1>6. /\ S \in SUBSET (1..len) /\ c \in Nat
      /\ \A k \in 1..c : Nth(S, k) \in S /\ applied[Nth(S, k)] \in 1..Len(accepted)
      /\ Delivered \in Seq(1..Len(accepted)) /\ Len(Delivered) = c
  BY <1>2, <1>4, <1>5, PlaysApplied
<1>7. Delivered = [k \in 1..c |-> applied[Nth(S, k)]]
  BY <1>4, <1>5 DEF Delivered
<1>8. Delivered' = [k \in 1..Cardinality(T) |-> applied'[Nth(T, k)]]
  BY <1>4 DEF Delivered
<1>9. \A k \in 1..c : applied'[Nth(S, k)] = applied[Nth(S, k)]
  BY <1>3, <1>6
<1>10. CASE ~ Play(n)
  <2>1. T = S
    BY <1>1, <1>2, <1>3, <1>4, <1>10 DEF PlayedAt, Play
  <2>. QED BY <1>5, <1>7, <1>8, <1>9, <1>10, <2>1
<1>11. CASE Play(n)
  <2>1. T = S \cup {len + 1}
    <3>1. \A i \in 1..(len + 1) : i \in 1..len \/ i = len + 1
      OBVIOUS
    <3>. QED BY <1>1, <1>2, <1>3, <1>4, <1>11, <3>1 DEF PlayedAt, Play
  <2>2. /\ Cardinality(T) = c + 1 /\ \A k \in 1..c : Ranked(T, k) = Ranked(S, k)
        /\ Ranked(T, c + 1) = {len + 1}
    <3>1. S \in SUBSET (1..len) /\ len \in Nat
      BY <1>6
    <3>3. \A m \in Nat : \A U \in SUBSET (1..m) : \A V :
            V = U \cup {m + 1} =>
              /\ Cardinality(U) \in Nat /\ Cardinality(V) = Cardinality(U) + 1
              /\ \A k \in 1..Cardinality(U) : Ranked(V, k) = Ranked(U, k)
              /\ Ranked(V, Cardinality(U) + 1) = {m + 1}
      BY RanksGrow
    <3>4. \A V : V = S \cup {len + 1} =>
              /\ Cardinality(S) \in Nat /\ Cardinality(V) = Cardinality(S) + 1
              /\ \A k \in 1..Cardinality(S) : Ranked(V, k) = Ranked(S, k)
              /\ Ranked(V, Cardinality(S) + 1) = {len + 1}
      BY <3>1, <3>3, Zenon
    <3>2. /\ Cardinality(S) \in Nat /\ Cardinality(T) = Cardinality(S) + 1
          /\ \A k \in 1..Cardinality(S) : Ranked(T, k) = Ranked(S, k)
          /\ Ranked(T, Cardinality(S) + 1) = {len + 1}
      BY <2>1, <3>4, Zenon
    <3>. QED BY <1>5, <3>2
  <2>3. \A k \in 1..c : Nth(T, k) = Nth(S, k)
    BY <2>2 DEF Nth
  <2>4. Nth(T, c + 1) = len + 1
    BY <2>2 DEF Nth
  <2>5. PICK d : d = Delivered
    OBVIOUS
  <2>6. d \in Seq(1..Len(accepted)) /\ Len(d) = c /\ \A k \in 1..c : d[k] = applied[Nth(S, k)]
    BY <1>6, <1>7, <2>5
  <2>7. Append(d, n) = [k \in 1..(c + 1) |-> IF k = c + 1 THEN n ELSE d[k]]
    <3>1. PICK e : e = Append(d, n)
      OBVIOUS
    <3>2. /\ e \in Seq(1..Len(accepted)) /\ Len(e) = c + 1 /\ e[c + 1] = n
          /\ \A k \in 1..c : e[k] = d[k]
      BY <1>6, <2>6, <3>1
    <3>3. e = [k \in 1..(c + 1) |-> e[k]]
      BY <3>2
    <3>4. \A k \in 1..(c + 1) : e[k] = IF k = c + 1 THEN n ELSE d[k]
      <4>1. \A k \in 1..(c + 1) : k = c + 1 \/ k \in 1..c
        BY <1>6
      <4>. QED BY <3>2, <4>1
    <3>. QED BY <3>1, <3>3, <3>4
  <2>8. \A k \in 1..(c + 1) : applied'[Nth(T, k)] = IF k = c + 1 THEN n ELSE d[k]
    <3>1. SUFFICES ASSUME NEW k \in 1..(c + 1)
                   PROVE  applied'[Nth(T, k)] = IF k = c + 1 THEN n ELSE d[k]
      OBVIOUS
    <3>2. CASE k = c + 1
      BY <1>3, <2>4, <3>2
    <3>3. CASE k # c + 1
      <4>1. k \in 1..c
        BY <1>6, <3>3
      <4>. QED BY <1>9, <2>3, <2>6, <3>3, <4>1
    <3>. QED BY <3>2, <3>3
  <2>9. Delivered' = [k \in 1..(c + 1) |-> IF k = c + 1 THEN n ELSE d[k]]
    BY <1>8, <2>2, <2>8
  <2>. QED BY <1>11, <2>5, <2>7, <2>9
<1>. QED BY <1>10, <1>11

-----------------------------------------------------------------------------
\* What was given up is not among the rows.
Gone == \A n \in expired : Play(n) => n \notin Ids

\* The plays among the rows are the rows of plays.
LEMMA RowsOfPlays ==
  ASSUME NEW rows, NEW acc, Own(rows, acc)
  PROVE  \A n : n \in Range(rows) /\ IsPlay(acc, n) <=> n \in DOMAIN rows /\ IsPlay(acc, n)
<1>1. ASSUME NEW n, n \in Range(rows), IsPlay(acc, n) PROVE n \in DOMAIN rows
  <2>1. PICK i \in DOMAIN rows : rows[i] = n
    BY <1>1 DEF Range
  <2>. QED BY <1>1, <2>1 DEF Own, IsPlay
<1>2. ASSUME NEW n \in DOMAIN rows, IsPlay(acc, n) PROVE n \in Range(rows)
  BY <1>2 DEF Own, Range
<1>. QED BY <1>1, <1>2

\* Hence what waits is among the row ids, before a step and after it.
LEMMA WaitingAre ==
  ASSUME IInv, IInv'
  PROVE  /\ Waiting = {n \in Ids \ Handed : Play(n)}
         /\ Waiting' = {n \in Ids' \ Handed' : Play(n)'}
<1>1. Own(outbox, accepted) /\ Own(outbox', accepted')
  BY DEF IInv, Replica, Own
<1>2. \A n : n \in Range(outbox) /\ Play(n) <=> n \in Ids /\ Play(n)
  BY <1>1, RowsOfPlays DEF Play, IsPlay, Ids
<1>3. \A n : n \in Range(outbox') /\ Play(n)' <=> n \in Ids' /\ Play(n)'
  BY <1>1, RowsOfPlays DEF Play, IsPlay, Ids
<1>. QED BY <1>2, <1>3 DEF Waiting

\* What touches no row and applies nothing is a stutter of the relay.
LEMMA NothingHappens ==
  ASSUME IInv, UNCHANGED <<accepted, outbox, applied, expired, thinned, swallowed>>
  PROVE  UNCHANGED Relay!vars /\ (Gone => Gone')
<1>1. Delivered' = Delivered
  BY DeliveredStays DEF Play
<1>. QED BY <1>1 DEF Relay!vars, Waiting, GivenUp, Play, Handed, Gone, Ids

\* A play applied is delivered: the first that waits, or one given up.
LEMMA AppliedIsDelivered ==
  ASSUME IInv, Gone, UNCHANGED <<accepted, outbox, refused, expired>>, NEW m \in wire, record[m.op] = "none",
         applied' = Append(applied, m.op),
         IF Play(m.op) THEN (thinned \cup swallowed)' \in {thinned \cup swallowed, (thinned \cup swallowed) \cup {m.op}}
                       ELSE UNCHANGED <<thinned, swallowed>>
  PROVE  [Relay!Next]_(Relay!vars) /\ Gone'
<1>. DEFINE n == m.op
<1>1. /\ n \in 1..Len(accepted) /\ Passed(n) /\ n \notin refused
      /\ Handed' = Handed \cup {n} /\ (Play(n) => n \notin Handed)
  <2>1. Handed' = Handed \cup {n}
    BY OrderGrows
  <2>. QED BY <2>1 DEF IInv, Typed, Wire, Sent, Primary, Records
<1>2. Gone' /\ \A k : Play(k)' = Play(k)
  BY DEF Gone, Play, Ids
<1>. HIDE DEF n
<1>3. Waiting' = Waiting \ {n} /\ GivenUp' = GivenUp \ {n} /\ Len(accepted') = Len(accepted)
  BY <1>1, <1>2 DEF Waiting, GivenUp
<1>4. CASE ~ Play(n)
  <2>1. n \notin Waiting /\ n \notin GivenUp
    BY <1>4 DEF Waiting, GivenUp
  <2>2. Delivered' = Delivered
    BY <1>1, <1>4, DeliveredGrows DEF n
  <2>3. UNCHANGED <<thinned, swallowed>>
    BY <1>4 DEF n
  <2>. QED BY <1>2, <1>3, <2>1, <2>2, <2>3 DEF Relay!vars
<1>5. CASE Play(n)
  <2>1. Delivered' = Append(Delivered, n)
    BY <1>1, <1>5, DeliveredGrows DEF n
  <2>2. CASE n \in Range(outbox)
    <3>1. n \in Waiting /\ n \in Ids /\ n \notin GivenUp
      <4>1. n \in Ids
        BY <1>5, <2>2, RowsOfPlays DEF IInv, Replica, Play, IsPlay, Ids
      <4>. QED BY <1>1, <1>5, <2>2, <4>1 DEF Waiting, GivenUp, Gone
    <3>2. \A k \in Waiting : k \in Ids
      BY RowsOfPlays DEF Waiting, IInv, Replica, Play, IsPlay, Ids
    <3>3. \A k \in Waiting : n <= k
      BY <1>1, <1>5, <3>2 DEF Passed
    <3>4. Relay!Deliver(n)
      BY <1>3, <2>1, <3>1, <3>3 DEF Relay!Deliver, Relay!Arrives, n
    <3>. QED BY <1>2, <3>1, <3>4 DEF Relay!Next
  <2>3. CASE n \notin Range(outbox)
    <3>1. n \in GivenUp /\ n \notin Waiting
      BY <1>1, <1>5, <2>3 DEF IInv, NothingLost, GivenUp, Waiting
    <3>2. Relay!ArriveLate(n)
      BY <1>3, <2>1, <3>1 DEF Relay!ArriveLate, Relay!Arrives, n
    <3>. QED BY <1>2, <3>1, <3>2 DEF Relay!Next
  <2>. QED BY <2>2, <2>3
<1>. QED BY <1>4, <1>5

\* The first row goes when the primary has it: it no longer waited.
LEMMA AnsweredIsSilent ==
  ASSUME IInv, IInv', Gone, Answered
  PROVE  UNCHANGED Relay!vars /\ Gone'
<1>1. /\ reply # "none" /\ Draining
      /\ UNCHANGED <<accepted, up, record, known, applied, thinned, swallowed, refused, expired, faults>>
  BY DEF Answered, primary, plays, history, IInv, Wire, AnswerIsFirst
<1>2. CASE reply # "ok"
  BY <1>1, <1>2, NothingHappens DEF Answered
<1>3. CASE reply = "ok"
  <2>. DEFINE id == Min(DOMAIN batch)
  <2>1. batch \in Rows /\ DOMAIN batch \subseteq Nat /\ DOMAIN batch # {}
    BY <1>1, RowsAre DEF IInv, Typed, Draining
  <2>2. id \in DOMAIN batch /\ First(batch) = batch[id] /\ First(batch) \in Handed
    BY <1>3, <2>1, MinIsLeast DEF First, IInv, Wire, AnswerIsFirst
  <2>3. Play(id) => id \in Handed
    BY <2>2 DEF IInv, Replica, Own, Play, IsPlay
  <2>4. Delete(id)
    BY <1>3 DEF Answered
  <2>. HIDE DEF id
  <2>5. Ids' = Ids \ {id}
    BY <2>4, RestrictedRows DEF Delete, Ids, IInv, Typed
  <2>6. (\A n : Play(n)' = Play(n)) /\ Handed' = Handed /\ Len(accepted') = Len(accepted)
    BY <1>1 DEF Play, Handed
  <2>7. Waiting' = Waiting
    BY <2>3, <2>5, <2>6, WaitingAre
  <2>8. Delivered' = Delivered
    BY <1>1, <2>6, DeliveredStays
  <2>. QED BY <1>1, <2>5, <2>6, <2>7, <2>8 DEF Relay!vars, GivenUp, Gone
<1>. QED BY <1>2, <1>3

\* A row that grew too old is given up, unless its play has arrived.
LEMMA ExpireGivesUp ==
  ASSUME IInv, IInv', Gone, Expire
  PROVE  [Relay!Next]_(Relay!vars) /\ Gone'
<1>. DEFINE id == Min(Ids)
            old == First(outbox)
<1>1. UNCHANGED <<accepted, applied, thinned, swallowed>> /\ expired' = expired \cup {old} /\ Delete(id) /\ outbox # NoRows
  BY DEF Expire, primary, plays
<1>2. id \in Ids /\ old = outbox[id]
  BY <1>1, RowsAre, MinIsLeast DEF First, IInv, Typed, Ids
<1>3. Ids' = Ids \ {id}
  BY <1>1, RestrictedRows DEF Delete, Ids, IInv, Typed
<1>. HIDE DEF id, old
<1>4. Play(old) => old = id
  BY <1>2 DEF IInv, Replica, Own, Play, IsPlay, Ids
<1>5. Play(id) => old = id
  BY <1>2 DEF IInv, Replica, Own, Play, IsPlay, Ids
<1>6. (\A n : Play(n)' = Play(n)) /\ Handed' = Handed /\ Len(accepted') = Len(accepted)
  BY <1>1 DEF Play, Handed
<1>7. Delivered' = Delivered
  BY <1>1, <1>6, DeliveredStays
<1>8. Gone'
  BY <1>1, <1>3, <1>4, <1>6 DEF Gone
<1>9. CASE Play(id) /\ id \notin Handed
  <2>1. id \in Waiting /\ Waiting' = Waiting \ {id} /\ GivenUp' = GivenUp \cup {id}
    BY <1>1, <1>2, <1>3, <1>5, <1>6, <1>9, WaitingAre DEF GivenUp
  <2>2. Relay!GiveUp(id)
    BY <1>1, <1>6, <1>7, <2>1 DEF Relay!GiveUp
  <2>. QED BY <1>8, <2>1, <2>2 DEF Relay!Next
<1>10. CASE ~(Play(id) /\ id \notin Handed)
  <2>1. Waiting' = Waiting
    BY <1>3, <1>6, <1>10, WaitingAre
  <2>2. GivenUp' = GivenUp
    BY <1>1, <1>4, <1>6, <1>10 DEF GivenUp
  <2>. QED BY <1>1, <1>6, <1>7, <1>8, <2>1, <2>2 DEF Relay!vars
<1>. QED BY <1>9, <1>10

\* An event is accepted: a play waits, or the outbox was full.
LEMMA ReportIsAccepted ==
  ASSUME IInv, IInv', Gone, NEW s \in Screens, NEW k \in Kind, Report(s, k)
  PROVE  Relay!Next /\ Gone'
<1>0. PICK n : n = Len(accepted) + 1
  OBVIOUS
<1>1. /\ Len(accepted) \in Nat /\ Len(accepted') = n /\ accepted'[n] = [screen |-> s, kind |-> k]
      /\ \A i \in 1..Len(accepted) : accepted'[i] = accepted[i]
  BY <1>0, Appended
<1>2. UNCHANGED <<applied, expired, thinned, swallowed>> /\ Handed' = Handed
  BY DEF Report, primary, plays, Handed
<1>3. n \notin 1..Len(accepted) /\ Len(accepted') = Len(accepted) + 1
  BY <1>0, <1>1
<1>4. \A i \in 1..Len(accepted) : Play(i)' = Play(i)
  BY <1>1 DEF Play
<1>5. /\ \A i \in Handed : i \in 1..Len(accepted)
      /\ \A i \in expired : i \in 1..Len(accepted)
      /\ \A i \in Ids : i \in 1..Len(accepted)
  <2>1. \A i \in Handed : i \in 1..Len(accepted)
    BY DEF IInv, Typed, Handed, Range
  <2>2. \A i \in expired : i \in 1..Len(accepted)
    BY DEF IInv, Typed
  <2>. QED BY <2>1, <2>2 DEF IInv, Replica, Own, Ids
<1>6. Delivered' = Delivered
  BY <1>2, <1>4, DeliveredStays
<1>7. GivenUp' = GivenUp
  BY <1>2, <1>4, <1>5 DEF GivenUp
<1>8. CASE UNCHANGED replica
  <2>1. Ids' = Ids
    BY <1>8 DEF replica, Ids
  <2>2. Waiting' = Waiting
    BY <1>2, <1>4, <1>5, <2>1, WaitingAre
  <2>3. Gone'
    BY <1>2, <1>4, <1>5, <2>1 DEF Gone
  <2>4. Relay!Accept
    BY <1>2, <1>3, <1>6, <1>7, <2>2 DEF Relay!Accept
  <2>. QED BY <2>3, <2>4 DEF Relay!Next
<1>9. CASE outbox' = Queued(RowOf(s, k, n), n)
  <2>. DEFINE id == RowOf(s, k, n)
  <2>1. id = n \/ (id \in Ids /\ k = "beat")
    BY RowOfNew
  <2>2. Ids' = Ids \cup {id}
    BY <1>9 DEF Queued, Ids
  <2>3. Play(n)' <=> k = "play"
    BY <1>1 DEF Play
  <2>4. id # n => Ids' = Ids
    BY <2>1, <2>2
  <2>. HIDE DEF id
  <2>5. Gone'
    BY <1>2, <1>3, <1>4, <1>5, <2>1, <2>2 DEF Gone
  <2>6. Waiting' \in {Waiting, Waiting \cup {n}}
    <3>1. CASE id = n /\ Play(n)'
      BY <1>2, <1>3, <1>4, <1>5, <2>2, <3>1, WaitingAre
    <3>2. CASE ~(id = n /\ Play(n)')
      <4>1. \A i \in Ids' : Play(i)' => i \in Ids
        BY <2>1, <2>2, <2>3, <3>2
      <4>. QED BY <1>2, <1>4, <1>5, <2>2, <4>1, WaitingAre
    <3>. QED BY <3>1, <3>2
  <2>7. Relay!Accept
    BY <1>1, <1>2, <1>3, <1>6, <1>7, <2>6 DEF Relay!Accept
  <2>. QED BY <2>5, <2>7 DEF Relay!Next
<1>. QED BY <1>0, <1>8, <1>9 DEF Report

-----------------------------------------------------------------------------
LEMMA InitIsRelayed == Init => Relay!Init /\ Gone
<1>. SUFFICES ASSUME Init PROVE Relay!Init /\ Gone
  OBVIOUS
<1>1. /\ accepted = <<>> /\ applied = <<>> /\ expired = {} /\ thinned \cup swallowed = {} /\ DOMAIN outbox = {} /\ Len(accepted) = 0
  BY NoRowsAreRows DEF Init
<1>2. Waiting = {} /\ GivenUp = {} /\ PlayedAt = {}
  BY <1>1 DEF Waiting, GivenUp, PlayedAt, Range
<1>3. Delivered = <<>>
  <2>1. Cardinality(PlayedAt) = 0
    BY <1>2, FS_EmptySet
  <2>2. 1..0 = {}
    OBVIOUS
  <2>3. Delivered = [k \in {} |-> applied[Nth(PlayedAt, k)]]
    BY <2>1, <2>2 DEF Delivered
  <2>. QED BY <2>3
<1>. QED BY <1>1, <1>2, <1>3 DEF Relay!Init, Gone

LEMMA StepIsRelayed ==
  IInv /\ IInv' /\ Gone /\ [Next]_vars => [Relay!Next]_(Relay!vars) /\ Gone'
<1>. SUFFICES ASSUME IInv, IInv', Gone, [Next]_vars
              PROVE  [Relay!Next]_(Relay!vars) /\ Gone'
  OBVIOUS
<1>1. CASE Tick \/ BackoffPasses \/ NoAnswer \/ SlowAnswer \/ LinkDown \/ LinkUp \/ Restart
  <2>1. UNCHANGED <<accepted, outbox, applied, expired, thinned, swallowed>>
    BY <1>1 DEF Tick, BackoffPasses, NoAnswer, SlowAnswer, GivesUp, LinkDown, LinkUp, Restart,
                replica, primary, plays, history
  <2>. QED BY <2>1, NothingHappens
<1>2. CASE UNCHANGED vars
  BY <1>2, NothingHappens DEF vars, replica, primary, plays, history
<1>3. ASSUME NEW s \in Removable \cap known, RemoveScreen(s)
      PROVE  [Relay!Next]_(Relay!vars) /\ Gone'
  BY <1>3, NothingHappens DEF RemoveScreen, replica, plays, history
<1>4. ASSUME NEW m \in wire, Arrives(m) \/ Orphan(m)
      PROVE  [Relay!Next]_(Relay!vars) /\ Gone'
  <2>1. UNCHANGED <<accepted, outbox, refused, expired>>
    BY <1>4 DEF Arrives, Replay, RefuseScreen, Apply, ApplyFails, Orphan, Replies, replica, history
  <2>2. \/ UNCHANGED <<applied, thinned, swallowed>>
        \/ /\ record[m.op] = "none" /\ applied' = Append(applied, m.op)
           /\ \/ UNCHANGED <<thinned, swallowed>>
              \/ /\ Play(m.op)
                 /\ \/ thinned' = thinned \cup {m.op} /\ swallowed' = swallowed
                    \/ thinned' = thinned /\ swallowed' = swallowed \cup {m.op}
    BY <1>4 DEF Arrives, Replay, RefuseScreen, Apply, Takes, MaySkip, ApplyFails, Orphan, Claimable, plays
  <2>. QED BY <2>1, <2>2, NothingHappens, AppliedIsDelivered
<1>5. CASE Answered
  BY <1>5, AnsweredIsSilent
<1>6. CASE Expire
  BY <1>6, ExpireGivesUp
<1>7. ASSUME NEW s \in Screens, NEW k \in Kind, Report(s, k)
      PROVE  [Relay!Next]_(Relay!vars) /\ Gone'
  BY <1>7, ReportIsAccepted
<1>. QED BY <1>1, <1>2, <1>3, <1>4, <1>5, <1>6, <1>7 DEF Next

(* The outbox of a replica, the drain, the link and the primary together   *)
(* do what EventRelay promises and nothing else: each play they take waits,*)
(* is delivered after all that were taken before it, or is given up and    *)
(* may still arrive late.                                                  *)
THEOREM PromiseIsKept == Spec => KeepsThePromise
<1>1. Init => Relay!Init /\ Gone
  BY InitIsRelayed
<1>2. IInv /\ IInv' /\ Gone /\ [Next]_vars => [Relay!Next]_(Relay!vars) /\ Gone'
  BY StepIsRelayed
<1>. QED BY <1>1, <1>2, AlwaysIInv, PTL DEF Spec, KeepsThePromise, Relay!Spec
=============================================================================
