---------------------------- MODULE CommandQueue ----------------------------
(***************************************************************************)
(* Commands and playlist pushes to one display that may be away            *)
(* (lib/command-queue.js, lib/device-command.js deliverCommand).           *)
(*                                                                         *)
(* A display with a socket in its room is sent frames at once; for one     *)
(* that is away the last command of each type is kept until it expires or  *)
(* the display registers (ws/deviceSocket.js).  An embedded panel has no   *)
(* socket: its commands wait until a poll (routes/embedded.js) carries one,*)
(* and the queue forgets it when the response has been written.            *)
(*                                                                         *)
(* The queues are keyed by display and never cross, so one is enough.  A   *)
(* command is its type and the number of its acceptance.                   *)
(***************************************************************************)
EXTENDS Integers, Sequences, FiniteSets, Functions

CONSTANTS Type,         \* command types
          Unsendable,   \* types a poll may find it cannot send now (an update held back)
          MaxCommands,  \* bound: commands accepted
          MaxVersion,   \* bound: edits of what the display should play
          MaxKept       \* bound: frames on their way when a socket registers again

ASSUME QueueAssumption ==
         /\ Unsendable \subseteq Type /\ "playlist" \notin Type
         /\ MaxCommands \in Nat /\ MaxVersion \in Nat /\ MaxKept \in Nat

VARIABLES version,    \* what buildPlaylistPayload gives now
          issued,     \* number of the last accepted command
          link,       \* the room: "down" empty, "up" a socket, "dead" a half-open one;
                      \* "none" for an embedded panel, whose room is always empty
          wire,       \* frames on their way to the display
          marker,     \* pendingPlaylistUpdate
          queue,      \* pendingCommands; `at' is an entry's place in the Map's order
          old,        \* commands older than their TTL
          current,    \* the command the poll the panel waits for will carry, if any
          abandoned,  \* commands of polls the panel has given up, still rendering
          shown,      \* history: the version the display plays
          ran         \* history: the commands the display received, in order

server == <<version, issued, marker, queue, old>>
polling == <<current, abandoned>>
display == <<shown, ran>>
vars == <<server, link, wire, polling, display>>

Number == 1..MaxCommands
Version == 0..MaxVersion
Command == [type: Type, n: Number]
Entry == [type: Type, n: Number, at: Number]

Playlist(v) == [type |-> "playlist", n |-> v]
Carried(e) == [type |-> e.type, n |-> e.n]

TypeOK ==
  /\ version \in Version /\ issued \in 0..MaxCommands /\ shown \in Version
  /\ link \in {"none", "down", "up", "dead"} /\ marker \in {"none", "set", "old"}
  /\ wire \in Seq(Command \cup {Playlist(v) : v \in Version}) /\ ran \in Seq(Command)
  /\ queue \subseteq Entry /\ \A e, f \in queue : e.type = f.type \/ e.at = f.at => e = f
  /\ old \subseteq Number /\ current \subseteq Entry /\ abandoned \subseteq Entry

Init ==
  /\ version = 0 /\ issued = 0 /\ link \in {"none", "down"} /\ wire = <<>>
  /\ marker = "none" /\ queue = {} /\ old = {} /\ current = {} /\ abandoned = {}
  /\ shown = 0 /\ ran = <<>>

Polls == link = "none"
RoomIsEmpty == link \in {"none", "down"}

-----------------------------------------------------------------------------
(* The dashboard: commands and edits.                                      *)

\* Mutants: an entry beside the old one; one entry for the whole display.
PutBeside(t, n) == queue \cup {[type |-> t, n |-> n, at |-> n]}
PutAlone(t, n) == {[type |-> t, n |-> n, at |-> n]}

\* Map.set: last of its type wins, in the place the type already has.
Put(t, n) ==
  {e \in queue : e.type # t} \cup
  {[type |-> t, n |-> n,
    at |-> IF \E e \in queue : e.type = t THEN (CHOOSE e \in queue : e.type = t).at ELSE n]}

\* deliverCommand.  Frames to a half-open socket are lost.
Send(t) ==
  /\ issued < MaxCommands /\ issued' = issued + 1
  /\ \/ RoomIsEmpty /\ queue' = Put(t, issued') /\ UNCHANGED wire
     \/ link = "up" /\ wire' = Append(wire, [type |-> t, n |-> issued']) /\ UNCHANGED queue
     \/ link = "dead" /\ UNCHANGED <<wire, queue>>
  /\ UNCHANGED <<version, link, marker, old, polling, display>>

\* An edit and the push that follows it (queueOrEmitPlaylistUpdate).
Edit ==
  /\ version < MaxVersion /\ version' = version + 1
  /\ \/ RoomIsEmpty /\ marker' = "set" /\ UNCHANGED wire
     \/ link = "up" /\ wire' = Append(wire, Playlist(version')) /\ UNCHANGED marker
     \/ link = "dead" /\ UNCHANGED <<wire, marker>>
  /\ UNCHANGED <<issued, link, queue, old, polling, display>>

-----------------------------------------------------------------------------
(* Time.  Socket displays share one TTL, so their entries age in order; an *)
(* embedded panel's TTL depends on when it is due back.                    *)

Live == {e \in queue : e.n \notin old}

Expire ==
  /\ \E e \in Live :
       /\ Polls \/ \A f \in Live : e.n <= f.n
       /\ old' = old \cup {e.n}
  /\ UNCHANGED <<version, issued, marker, queue, link, wire, polling, display>>

MarkerExpires ==
  /\ marker = "set" /\ marker' = "old"
  /\ UNCHANGED <<version, issued, queue, old, link, wire, polling, display>>

\* startSweep: pruneDevice on every display.
Sweep ==
  /\ Live # queue \/ marker = "old"
  /\ queue' = Live /\ marker' = IF marker = "old" THEN "none" ELSE marker
  /\ UNCHANGED <<version, issued, old, link, wire, polling, display>>

-----------------------------------------------------------------------------
(* A display with a socket.                                                *)

\* Mutant: the flush alone, which has a playlist only when one was marked.
FlushedAlone(entries) ==
  (IF marker = "set" THEN <<Playlist(version)>> ELSE <<>>)
    \o [i \in DOMAIN entries |-> Carried(entries[i])]

\* flushQueue, and the playlist every accepted register ends with.
Flushed(entries) == FlushedAlone(entries) \o <<Playlist(version)>>

\* What is live, in the order of the Map.
InOrder(entries) ==
  /\ Range(entries) = Live
  /\ \A i, j \in DOMAIN entries : i < j => entries[i].at < entries[j].at

\* An accepted register: on the same socket the frames on their way survive, a new
\* socket takes the room over.
Register ==
  /\ ~Polls
  /\ \E kept \in {wire, <<>>}, entries \in [1..Cardinality(Live) -> Live] :
       /\ kept = <<>> \/ (link = "up" /\ Len(kept) <= MaxKept)
       /\ InOrder(entries)
       /\ wire' = kept \o Flushed(entries)
  /\ link' = "up" /\ marker' = "none" /\ queue' = {}
  /\ UNCHANGED <<version, issued, old, polling, display>>

Deliver ==
  /\ link = "up" /\ wire # <<>> /\ wire' = Tail(wire)
  /\ LET frame == Head(wire)
     IN  IF frame.type = "playlist" THEN shown' = frame.n /\ UNCHANGED ran
         ELSE ran' = Append(ran, frame) /\ UNCHANGED shown
  /\ UNCHANGED <<server, link, polling>>

\* The display is gone, at first without the server knowing; then it knows.
LinkDies == link = "up" /\ link' = "dead" /\ wire' = <<>> /\ UNCHANGED <<server, polling, display>>
Disconnect == link \in {"up", "dead"} /\ link' = "down" /\ wire' = <<>> /\ UNCHANGED <<server, polling, display>>

-----------------------------------------------------------------------------
(* An embedded panel.                                                      *)

Rank(t) == CASE t = "upload_logs" -> 0 [] t = "update" -> 1 [] t = "reboot" -> 2 [] OTHER -> 3
Sooner(e, f) == Rank(e.type) < Rank(f.type) \/ (Rank(e.type) = Rank(f.type) /\ e.at <= f.at)

\* resolvePendingCommand: the first command that can be sent, dropping what cannot.
\* The panel asks again when it has lost patience with its last request; it leaves at
\* most one set of requests behind it (a bound).
Poll ==
  /\ Polls /\ (current = {} \/ abandoned = {})
  /\ \E held \in SUBSET Unsendable :
       LET sendable == {e \in Live : e.type \notin held}
       IN  /\ current' = {e \in sendable : \A f \in sendable : Sooner(e, f)}
           /\ queue' = {e \in Live : e.type \notin held \/ \E f \in sendable : Sooner(f, e)}
  /\ abandoned' = abandoned \cup current
  /\ UNCHANGED <<version, issued, marker, old, link, wire, display>>

\* Mutant: a 304 that carried the command does not drop it.
PoppedNever(e) == Live

\* markCommandDelivered pops by type.
Popped(e) == {f \in Live : f.type # e.type}

\* The response is written; the panel receives it or the connection is lost.  A
\* response that fails instead drops its command too (withCommandDropOnThrow).
Answer ==
  /\ \E e \in current :
       /\ queue' = Popped(e)
       /\ ran' \in {ran, Append(ran, Carried(e))}
  /\ current' = {}
  /\ UNCHANGED <<version, issued, marker, old, link, wire, abandoned, shown>>

\* A response nobody waits for any more.
LateAnswer ==
  /\ \E e \in abandoned : queue' = Popped(e) /\ abandoned' = abandoned \ {e}
  /\ UNCHANGED <<version, issued, marker, old, link, wire, current, display>>

-----------------------------------------------------------------------------
Restart ==
  /\ link' = (IF Polls THEN "none" ELSE "down") /\ wire' = <<>>
  /\ marker' = "none" /\ queue' = {}
  /\ current' = {} /\ abandoned' = {}
  /\ UNCHANGED <<version, issued, old, display>>

Next ==
  \/ \E t \in Type : Send(t)
  \/ Edit \/ Expire \/ MarkerExpires \/ Sweep
  \/ Register \/ Deliver \/ LinkDies \/ Disconnect
  \/ Poll \/ Answer \/ LateAnswer
  \/ Restart

Spec == Init /\ [][Next]_vars

-----------------------------------------------------------------------------
\* A connected display ends up with the playlist as it is now once what is on the
\* wire has arrived, whatever was edited, marked, expired or lost while it was away.
ScreenIsCurrent ==
  link = "up" =>
    LET frames == <<Playlist(shown)>> \o wire
    IN  \E i \in DOMAIN frames :
          /\ frames[i] = Playlist(version)
          /\ \A j \in DOMAIN frames : j > i => frames[j].type # "playlist"

\* A display never receives an older command after a newer one of its type, nor one
\* command twice, through any mix of queueing, flushing, polling and live sends.
NewerWins ==
  \A i, j \in DOMAIN ran : i < j /\ ran[i].type = ran[j].type => ran[i].n < ran[j].n

\* A queued command is dropped only when it has been sent, has expired, cannot be sent,
\* or a newer one of its type replaced it; a polling panel's also when a poll carries a
\* command of its type.  A restart forgets everything.
Replaced(e) == \E f \in queue' : f.type = e.type /\ e.n < f.n
Excused(e) ==
  \/ e.n \in old \/ Carried(e) \in Range(wire') \/ Replaced(e)
  \/ Polls /\ e.type \in Unsendable
NothingVanishes ==
  [][Restart \/ \A e \in queue \ queue' :
       Excused(e) \/ \E f \in current \cup abandoned : e.type = f.type]_vars
=============================================================================
