---------------------------- MODULE DisplayProofs ----------------------------
(***************************************************************************)
(* What the server promises one display: its commands (CommandQueue) and   *)
(* its way in (Admission).                                                 *)
(*                                                                         *)
(* The first half proves type correctness, the two invariants and the      *)
(* action property of CommandQueue, for any types, commands, versions and  *)
(* frames in flight.  A command can be in three places before it runs: the *)
(* queue, the poll a panel waits for, the wire.  IInv says that in each of *)
(* them it is newer than what ran of its type, and that a socket display   *)
(* uses one place at a time.                                               *)
(*                                                                         *)
(* The second half proves type correctness and the two invariants of       *)
(* Admission, for any windows, ceilings, backoffs and load bands in the    *)
(* order config.js keeps them in.                                          *)
(***************************************************************************)
EXTENDS CommandQueue, Admission, SequenceTheorems, FiniteSetTheorems, WellFoundedInduction, TLAPS

Frame == Command \cup {Playlist(v) : v \in Version}

\* What a socket has is on the wire, and what is on no wire waits in the queue;
\* only a panel has polls.
Placed ==
  /\ link \in {"up", "dead"} => queue = {}
  /\ link # "up" => wire = <<>>
  /\ link # "none" => current = {}

\* No number is beyond the last one issued.
Numbered ==
  /\ \A e \in queue : e.n <= issued /\ e.at <= issued
  /\ \A e \in current : e.n <= issued
  /\ \A i \in DOMAIN wire : wire[i].type # "playlist" => wire[i].n <= issued
  /\ \A i \in DOMAIN ran : ran[i].n <= issued

\* Newer than what ran of its type.
Fresh(c) == \A i \in DOMAIN ran : ran[i].type = c.type => ran[i].n < c.n
AllFresh ==
  /\ \A e \in queue \cup current : Fresh(e)
  /\ \A i \in DOMAIN wire : wire[i].type # "playlist" => Fresh(wire[i])

\* The wire carries the commands of a type in their order.
WireInOrder ==
  \A i, j \in DOMAIN wire :
    i < j /\ wire[i].type = wire[j].type /\ wire[i].type # "playlist" => wire[i].n < wire[j].n

IInv ==
  /\ TypeOK /\ IsFiniteSet(queue)
  /\ Placed /\ Numbered /\ AllFresh /\ WireInOrder /\ NewerWins /\ ScreenIsCurrent

-----------------------------------------------------------------------------
(* The parts of a step.                                                    *)

\* A playlist is not a command.
LEMMA Kinds ==
  /\ \A t \in Type : t # "playlist"
  /\ \A c \in Command : c.type \in Type /\ c.n \in Number /\ c.n \in Nat /\ c.type # "playlist"
  /\ \A e \in Entry : /\ e.type \in Type /\ e.n \in Number /\ e.at \in Number
                      /\ e.n \in Nat /\ e.at \in Nat /\ Carried(e) \in Command
                      /\ Carried(e).type = e.type /\ Carried(e).n = e.n
  /\ \A v : Playlist(v).type = "playlist" /\ Playlist(v).n = v
  /\ \A f \in Frame : f.type # "playlist" => f \in Command
BY QueueAssumption DEF Command, Entry, Carried, Playlist, Frame, Number

\* What ScreenIsCurrent says of a version, a wire and the version on the screen.
CurrentOn(v, w, s) ==
  \/ s = v /\ \A j \in DOMAIN w : w[j].type # "playlist"
  \/ \E i \in DOMAIN w : /\ w[i] = Playlist(v)
                         /\ \A j \in DOMAIN w : j > i => w[j].type # "playlist"

LEMMA FramesOf ==
  ASSUME NEW s \in Version, NEW w \in Seq(Frame)
  PROVE  LET frames == <<Playlist(s)>> \o w
         IN  /\ DOMAIN frames = 1..(Len(w) + 1) /\ DOMAIN w = 1..Len(w) /\ Len(w) \in Nat
             /\ frames[1] = Playlist(s)
             /\ \A i \in 1..Len(w) : frames[i + 1] = w[i]
<1>1. <<Playlist(s)>> \in Seq(Frame) /\ Len(<<Playlist(s)>>) = 1 /\ <<Playlist(s)>>[1] = Playlist(s)
  BY DEF Frame
<1>2. PICK one \in Seq(Frame) : one = <<Playlist(s)>>
  BY <1>1
<1>3. PICK frames : frames = one \o w
  OBVIOUS
<1>4. /\ frames \in Seq(Frame) /\ Len(frames) = 1 + Len(w)
      /\ \A i \in 1..(1 + Len(w)) : frames[i] = IF i <= 1 THEN one[i] ELSE w[i - 1]
  BY <1>1, <1>2, <1>3, ConcatProperties
<1>5. DOMAIN frames = 1..Len(frames) /\ DOMAIN w = 1..Len(w) /\ Len(w) \in Nat
  BY <1>4, LenProperties
<1>6. frames[1] = Playlist(s) /\ \A i \in 1..Len(w) : frames[i + 1] = w[i]
  BY <1>1, <1>2, <1>4, <1>5
<1>. QED BY <1>2, <1>3, <1>4, <1>5, <1>6

LEMMA ScreenShows ==
  ASSUME NEW v \in Version, NEW w \in Seq(Frame), NEW s \in Version
  PROVE  (LET frames == <<Playlist(s)>> \o w
          IN  \E i \in DOMAIN frames :
                /\ frames[i] = Playlist(v)
                /\ \A j \in DOMAIN frames : j > i => frames[j].type # "playlist")
         <=> CurrentOn(v, w, s)
<1>1. PICK frames : frames = <<Playlist(s)>> \o w
  OBVIOUS
<1>2. /\ DOMAIN frames = 1..(Len(w) + 1) /\ DOMAIN w = 1..Len(w) /\ Len(w) \in Nat
      /\ frames[1] = Playlist(s) /\ \A i \in 1..Len(w) : frames[i + 1] = w[i]
  BY <1>1, FramesOf
<1>3. ASSUME NEW i \in DOMAIN frames, frames[i] = Playlist(v),
             \A j \in DOMAIN frames : j > i => frames[j].type # "playlist"
      PROVE  CurrentOn(v, w, s)
  <2>1. \A j \in DOMAIN w : j + 1 > i => w[j].type # "playlist"
    BY <1>2, <1>3
  <2>2. CASE i = 1
    <3>1. s = v
      BY <1>2, <1>3, <2>2, Kinds
    <3>. QED BY <1>2, <2>1, <2>2, <3>1 DEF CurrentOn
  <2>3. CASE i # 1
    <3>1. i - 1 \in DOMAIN w /\ w[i - 1] = Playlist(v)
      BY <1>2, <1>3, <2>3
    <3>2. \A j \in DOMAIN w : j > i - 1 => w[j].type # "playlist"
      BY <1>2, <2>1
    <3>. QED BY <3>1, <3>2 DEF CurrentOn
  <2>. QED BY <2>2, <2>3
<1>4. ASSUME CurrentOn(v, w, s)
      PROVE  \E i \in DOMAIN frames :
               /\ frames[i] = Playlist(v)
               /\ \A j \in DOMAIN frames : j > i => frames[j].type # "playlist"
  <2>0. \A j \in DOMAIN frames : j # 1 => j - 1 \in DOMAIN w /\ frames[j] = w[j - 1]
    <3>. SUFFICES ASSUME NEW j \in 1..(Len(w) + 1), j # 1 
                  PROVE j - 1 \in 1..Len(w) /\ frames[j] = w[j - 1]
      BY <1>2
    <3>1. j - 1 \in 1..Len(w) /\ (j - 1) + 1 = j
      BY <1>2
    <3>. QED BY <1>2, <3>1
  <2>1. CASE s = v /\ \A j \in DOMAIN w : w[j].type # "playlist"
    <3>1. 1 \in DOMAIN frames /\ frames[1] = Playlist(v)
      BY <1>2, <2>1
    <3>2. \A j \in DOMAIN frames : j > 1 => frames[j].type # "playlist"
      BY <2>0, <2>1
    <3>. QED BY <3>1, <3>2
  <2>2. ASSUME NEW k \in DOMAIN w, w[k] = Playlist(v),
               \A j \in DOMAIN w : j > k => w[j].type # "playlist"
        PROVE  \E i \in DOMAIN frames :
                 /\ frames[i] = Playlist(v)
                 /\ \A j \in DOMAIN frames : j > i => frames[j].type # "playlist"
    <3>1. k + 1 \in DOMAIN frames /\ frames[k + 1] = Playlist(v)
      BY <1>2, <2>2
    <3>2. ASSUME NEW j \in DOMAIN frames, j > k + 1 PROVE frames[j].type # "playlist"
      <4>1. j # 1 /\ j - 1 > k
        BY <1>2, <3>2
      <4>. QED BY <2>0, <2>2, <4>1
    <3>. QED BY <3>1, <3>2
  <2>. QED BY <1>4, <2>1, <2>2 DEF CurrentOn
<1>. QED BY <1>1, <1>3, <1>4

LEMMA ScreenIs ==
  ASSUME TypeOK PROVE ScreenIsCurrent <=> (link = "up" => CurrentOn(version, wire, shown))
<1>1. version \in Version /\ shown \in Version /\ wire \in Seq(Frame)
  BY DEF TypeOK, Frame
<1>. QED BY <1>1, ScreenShows DEF ScreenIsCurrent

LEMMA ScreenWillBe ==
  ASSUME version' \in Version, wire' \in Seq(Frame), shown' \in Version,
         link' = "up" => CurrentOn(version', wire', shown')
  PROVE  ScreenIsCurrent'
<1>1. PICK v \in Version, w \in Seq(Frame), s \in Version : v = version' /\ w = wire' /\ s = shown'
  OBVIOUS
<1>2. CurrentOn(v, w, s) <=> LET frames == <<Playlist(s)>> \o w
                             IN  \E i \in DOMAIN frames :
                                   /\ frames[i] = Playlist(v)
                                   /\ \A j \in DOMAIN frames : j > i => frames[j].type # "playlist"
  BY ScreenShows
<1>. QED BY <1>1, <1>2 DEF ScreenIsCurrent, Playlist

LEMMA OneMore ==
  ASSUME NEW S, NEW w \in Seq(S), NEW f \in S
  PROVE  /\ Append(w, f) \in Seq(S) /\ Len(w) \in Nat
         /\ DOMAIN w = 1..Len(w) /\ DOMAIN Append(w, f) = 1..(Len(w) + 1)
         /\ \A i \in 1..Len(w) : Append(w, f)[i] = w[i]
         /\ Append(w, f)[Len(w) + 1] = f
         /\ \A i \in 1..(Len(w) + 1) : i \in 1..Len(w) \/ i = Len(w) + 1
<1>1. /\ Append(w, f) \in Seq(S) /\ Len(Append(w, f)) = Len(w) + 1 /\ Len(w) \in Nat
      /\ \A i \in 1..Len(w) : Append(w, f)[i] = w[i]
      /\ Append(w, f)[Len(w) + 1] = f
  BY AppendProperties, LenProperties
<1>2. DOMAIN w = 1..Len(w) /\ DOMAIN Append(w, f) = 1..(Len(w) + 1)
  BY <1>1, LenProperties
<1>. QED BY <1>1, <1>2

-----------------------------------------------------------------------------
(* What each step keeps.                                                   *)

LEMMA InitInvariant == Init => IInv
<1> SUFFICES ASSUME Init PROVE IInv
  OBVIOUS
<1>1. 0 \in Version /\ <<>> \in Seq(Frame) /\ <<>> \in Seq(Command) /\ DOMAIN <<>> = {}
  BY QueueAssumption DEF Version
<1>2. TypeOK
  BY <1>1, QueueAssumption DEF Init, TypeOK, Frame, Version
<1>. QED BY <1>1, <1>2, FS_EmptySet
     DEF Init, IInv, Placed, Numbered, AllFresh, WireInOrder, NewerWins, ScreenIsCurrent

\* Nothing new is said or received; the queue loses entries, a poll takes one.
LEMMA QueueShrinks ==
  ASSUME IInv, UNCHANGED <<version, issued, link, wire, display>>,
         queue' \subseteq queue, current' \subseteq current \cup queue, abandoned' \subseteq Entry,
         marker' \in {"none", "set", "old"}, old' \subseteq Number, current' # {} => link = "none"
  PROVE  IInv'
<1>1. TypeOK'
  BY DEF IInv, TypeOK, display
<1>2. IsFiniteSet(queue')
  BY FS_Subset DEF IInv
<1>3. Placed' /\ Numbered' /\ AllFresh' /\ WireInOrder' /\ NewerWins'
  BY DEF IInv, Placed, Numbered, AllFresh, Fresh, WireInOrder, NewerWins, display
<1>4. ScreenIsCurrent'
  BY <1>1, ScreenIs DEF IInv, ScreenIsCurrent, Playlist, display
<1>. QED BY <1>1, <1>2, <1>3, <1>4 DEF IInv

\* What is put takes the place its type has, or a place of its own.
LEMMA PutIs ==
  ASSUME IInv, NEW t \in Type, NEW n \in Number, n = issued + 1
  PROVE  \E e \in Entry :
           /\ e.type = t /\ e.n = n /\ e.at <= n
           /\ Put(t, n) = {f \in queue : f.type # t} \cup {e}
           /\ \A f \in queue : f.type # t => f.at # e.at
<1>1. CASE \E f \in queue : f.type = t
  <2>1. PICK f : f = CHOOSE g \in queue : g.type = t
    OBVIOUS
  <2>2. f \in queue /\ f.type = t /\ f \in Entry /\ f.at \in Number /\ f.at <= issued
    BY <1>1, <2>1, Kinds DEF IInv, TypeOK, Numbered
  <2>3. PICK e : e = [type |-> t, n |-> n, at |-> f.at]
    OBVIOUS
  <2>4. e \in Entry /\ e.type = t /\ e.n = n /\ e.at = f.at
    BY <2>2, <2>3 DEF Entry
  <2>5. Put(t, n) = {g \in queue : g.type # t} \cup {e}
    BY <1>1, <2>1, <2>3 DEF Put
  <2>6. \A g \in queue : g.type # t => g.at # f.at
    BY <2>2 DEF IInv, TypeOK
  <2>7. f.at <= n
    BY <2>2 DEF Number, IInv, TypeOK
  <2>. QED BY <2>4, <2>5, <2>6, <2>7
<1>2. CASE ~ \E f \in queue : f.type = t
  <2>1. PICK e : e = [type |-> t, n |-> n, at |-> n]
    OBVIOUS
  <2>2. e \in Entry /\ e.type = t /\ e.n = n /\ e.at = n /\ n <= n
    BY <2>1 DEF Entry, Number
  <2>3. Put(t, n) = {g \in queue : g.type # t} \cup {e}
    BY <1>2, <2>1 DEF Put
  <2>4. \A g \in queue : g.at <= issued /\ g.at \in Nat
    BY Kinds DEF IInv, TypeOK, Numbered
  <2>5. \A g \in queue : g.at # n
    BY <2>4 DEF IInv, TypeOK, Number
  <2>. QED BY <2>2, <2>3, <2>5
<1>. QED BY <1>1, <1>2

LEMMA SendQueued ==
  ASSUME IInv, NEW t \in Type, Send(t), RoomIsEmpty, queue' = Put(t, issued'), UNCHANGED wire
  PROVE  IInv'
<1>1. /\ issued' = issued + 1 /\ issued' \in Number /\ issued \in Nat
      /\ UNCHANGED <<version, link, marker, old, polling, display>>
  BY QueueAssumption DEF Send, IInv, TypeOK, Number
<1>2. PICK e \in Entry : /\ e.type = t /\ e.n = issued' /\ e.at <= issued'
                         /\ queue' = {f \in queue : f.type # t} \cup {e}
                         /\ \A f \in queue : f.type # t => f.at # e.at
  BY <1>1, PutIs
<1>3. TypeOK'
  BY <1>1, <1>2 DEF IInv, TypeOK, polling, display, Number
<1>4. IsFiniteSet({f \in queue : f.type # t} \cup {e})
  <2>1. IsFiniteSet({f \in queue : f.type # t})
    BY FS_Subset DEF IInv
  <2>. QED BY <2>1, FS_AddElement
<1>5. Placed'
  BY <1>1, <1>2 DEF IInv, Placed, RoomIsEmpty, polling
<1>6. Numbered'
  <2>1. \A m \in Nat : m <= issued => m <= issued'
    BY <1>1
  <2>2. \A f \in queue' : f.n <= issued' /\ f.at <= issued'
    BY <1>1, <1>2, <2>1, Kinds DEF IInv, TypeOK, Numbered, Number
  <2>3. \A f \in current' : f.n <= issued'
    BY <1>1, <2>1, Kinds DEF IInv, TypeOK, Numbered, polling
  <2>4. \A i \in DOMAIN wire : wire[i] \in Frame
    BY ElementOfSeq, LenProperties DEF IInv, TypeOK, Frame
  <2>5. \A i \in DOMAIN wire' : wire'[i].type # "playlist" => wire'[i].n <= issued'
    BY <2>1, <2>4, Kinds DEF IInv, Numbered
  <2>6. \A i \in DOMAIN ran : ran[i] \in Command
    BY ElementOfSeq, LenProperties DEF IInv, TypeOK
  <2>7. \A i \in DOMAIN ran' : ran'[i].n <= issued'
    BY <1>1, <2>1, <2>6, Kinds DEF IInv, Numbered, display
  <2>. QED BY <2>2, <2>3, <2>5, <2>7 DEF Numbered
<1>7. AllFresh'
  <2>1. \A i \in DOMAIN ran : ran[i].n <= issued /\ ran[i].n \in Nat
    BY ElementOfSeq, LenProperties, Kinds DEF IInv, TypeOK, Numbered
  <2>2. Fresh(e)
    BY <1>1, <1>2, <2>1 DEF Fresh
  <2>. QED BY <1>1, <1>2, <2>2 DEF IInv, AllFresh, Fresh, polling, display
<1>8. WireInOrder' /\ NewerWins' /\ ScreenIsCurrent'
  BY <1>1 DEF IInv, WireInOrder, NewerWins, ScreenIsCurrent, Playlist, display
<1>. QED BY <1>2, <1>3, <1>4, <1>5, <1>6, <1>7, <1>8 DEF IInv

LEMMA Typed ==
  ASSUME IInv
  PROVE  /\ issued \in Nat /\ version \in Version /\ shown \in Version
         /\ wire \in Seq(Frame) /\ ran \in Seq(Command)
         /\ DOMAIN wire = 1..Len(wire) /\ Len(wire) \in Nat
         /\ \A i \in DOMAIN wire : wire[i] \in Frame
         /\ \A i \in DOMAIN ran : ran[i] \in Command /\ ran[i].n \in Nat /\ ran[i].n <= issued
<1>1. /\ issued \in Nat /\ version \in Version /\ shown \in Version
      /\ wire \in Seq(Frame) /\ ran \in Seq(Command)
  BY QueueAssumption DEF IInv, TypeOK, Frame
<1>. QED BY <1>1, ElementOfSeq, LenProperties, Kinds DEF IInv, Numbered

\* A command that is accepted is newer than everything.
LEMMA SendLive ==
  ASSUME IInv, NEW t \in Type, Send(t), link = "up", UNCHANGED queue,
         wire' = Append(wire, [type |-> t, n |-> issued'])
  PROVE  IInv'
<1>1. /\ issued' = issued + 1 /\ issued' \in Number /\ issued \in Nat
      /\ UNCHANGED <<version, link, marker, old, polling, display>>
  BY QueueAssumption DEF Send, IInv, TypeOK, Number
<1>2. PICK c : c = [type |-> t, n |-> issued']
  OBVIOUS
<1>3. /\ c \in Command /\ c \in Frame /\ c.type = t /\ c.n = issued' /\ t # "playlist"
      /\ wire' = Append(wire, c)
  BY <1>1, <1>2, Kinds DEF Command, Frame
<1>4. /\ wire' \in Seq(Frame) /\ DOMAIN wire = 1..Len(wire) /\ Len(wire) \in Nat
      /\ DOMAIN wire' = 1..(Len(wire) + 1)
      /\ \A i \in 1..Len(wire) : wire'[i] = wire[i]
      /\ wire'[Len(wire) + 1] = c
      /\ \A i \in 1..(Len(wire) + 1) : i \in 1..Len(wire) \/ i = Len(wire) + 1
  BY <1>3, Typed, OneMore
<1>5. \A i \in DOMAIN wire' : \/ i \in DOMAIN wire /\ wire'[i] = wire[i]
                              \/ i = Len(wire) + 1 /\ wire'[i] = c
  BY <1>4
<1>6. TypeOK'
  BY <1>1, <1>4 DEF IInv, TypeOK, polling, display, Number, Frame
<1>7. Placed' /\ IsFiniteSet(queue')
  BY <1>1 DEF IInv, Placed, polling
<1>8. Numbered'
  <2>1. \A m \in Nat : m <= issued => m <= issued'
    BY <1>1
  <2>2. \A f \in queue' : f.n <= issued' /\ f.at <= issued'
    BY <2>1, Kinds DEF IInv, TypeOK, Numbered
  <2>3. \A f \in current' : f.n <= issued'
    BY <1>1, <2>1, Kinds DEF IInv, TypeOK, Numbered, polling
  <2>4. \A i \in DOMAIN wire : wire[i].type # "playlist" => wire[i].n <= issued'
    BY <2>1, Typed, Kinds DEF IInv, Numbered
  <2>5. \A i \in DOMAIN wire' : wire'[i].type # "playlist" => wire'[i].n <= issued'
    BY <1>1, <1>3, <1>5, <2>4
  <2>6. \A i \in DOMAIN ran' : ran'[i].n <= issued'
    BY <1>1, <2>1, Typed DEF display
  <2>. QED BY <2>2, <2>3, <2>5, <2>6 DEF Numbered
<1>9. AllFresh'
  <2>1. Fresh(c)
    BY <1>1, <1>3, Typed DEF Fresh
  <2>2. \A i \in DOMAIN wire' : wire'[i].type # "playlist" => Fresh(wire'[i])
    BY <1>5, <2>1 DEF IInv, AllFresh
  <2>. QED BY <1>1, <2>2 DEF IInv, AllFresh, Fresh, polling, display
<1>10. WireInOrder'
  <2>1. SUFFICES ASSUME NEW i \in DOMAIN wire', NEW j \in DOMAIN wire', i < j,
                        wire'[i].type = wire'[j].type, wire'[i].type # "playlist"
                 PROVE  wire'[i].n < wire'[j].n
    BY DEF WireInOrder
  <2>2. i \in DOMAIN wire /\ wire'[i] = wire[i]
    BY <1>4, <1>5, <2>1
  <2>3. wire[i].n <= issued /\ wire[i].n \in Nat
    BY <2>1, <2>2, Typed, Kinds DEF IInv, Numbered
  <2>. QED BY <1>1, <1>3, <1>5, <2>1, <2>2, <2>3 DEF IInv, WireInOrder
<1>11. NewerWins'
  BY <1>1 DEF IInv, NewerWins, display
<1>12. ScreenIsCurrent'
  <2>1. CurrentOn(version, wire, shown)
    BY ScreenIs DEF IInv
  <2>2. CurrentOn(version, wire', shown)
    BY <1>3, <1>4, <1>5, <2>1 DEF CurrentOn
  <2>. QED BY <1>1, <1>4, <2>2, Typed, ScreenWillBe DEF display
<1>. QED BY <1>6, <1>7, <1>8, <1>9, <1>10, <1>11, <1>12 DEF IInv

LEMMA SendKeeps == ASSUME IInv, NEW t \in Type, Send(t) PROVE IInv'
<1>1. CASE link = "dead" /\ UNCHANGED <<wire, queue>>
  <2>1. /\ issued' = issued + 1 /\ issued' \in 0..MaxCommands /\ issued \in Nat
        /\ UNCHANGED <<version, link, marker, old, polling, display, wire, queue>>
    BY <1>1, QueueAssumption DEF Send, IInv, TypeOK
  <2>2. \A m \in Nat : m <= issued => m <= issued'
    BY <2>1
  <2>3. TypeOK'
    BY <2>1 DEF IInv, TypeOK, polling, display
  <2>4. Numbered'
    BY <1>1, <2>1, <2>2, Typed DEF IInv, Placed, Numbered, polling, display
  <2>. QED BY <2>1, <2>3, <2>4
       DEF IInv, Placed, AllFresh, Fresh, WireInOrder, NewerWins, ScreenIsCurrent, Playlist,
           polling, display
<1>2. CASE link = "up" /\ wire' = Append(wire, [type |-> t, n |-> issued']) /\ UNCHANGED queue
  BY <1>2, SendLive
<1>3. CASE RoomIsEmpty /\ queue' = Put(t, issued') /\ UNCHANGED wire
  BY <1>3, SendQueued
<1>. QED BY <1>1, <1>2, <1>3 DEF Send

LEMMA EditKeeps == ASSUME IInv, Edit PROVE IInv'
<1>1. /\ version' = version + 1 /\ version' \in Version
      /\ UNCHANGED <<issued, link, queue, old, polling, display>>
  BY QueueAssumption DEF Edit, IInv, TypeOK, Version
<1>2. CASE link # "up" /\ UNCHANGED wire /\ marker' \in {"none", "set", "old"}
  BY <1>1, <1>2 DEF IInv, TypeOK, Placed, Numbered, AllFresh, Fresh, WireInOrder, NewerWins,
                    ScreenIsCurrent, polling, display
<1>3. CASE link = "up" /\ wire' = Append(wire, Playlist(version')) /\ UNCHANGED marker
  <2>1. PICK f : f = Playlist(version')
    OBVIOUS
  <2>2. f \in Frame /\ f.type = "playlist" /\ wire' = Append(wire, f)
    BY <1>1, <1>3, <2>1, Kinds DEF Frame
  <2>3. /\ wire' \in Seq(Frame) /\ DOMAIN wire = 1..Len(wire) /\ Len(wire) \in Nat
        /\ DOMAIN wire' = 1..(Len(wire) + 1)
        /\ \A i \in 1..Len(wire) : wire'[i] = wire[i]
        /\ wire'[Len(wire) + 1] = f
        /\ \A i \in 1..(Len(wire) + 1) : i \in 1..Len(wire) \/ i = Len(wire) + 1
    BY <2>2, Typed, OneMore
  <2>4. \A i \in DOMAIN wire' : \/ i \in DOMAIN wire /\ wire'[i] = wire[i]
                                \/ i = Len(wire) + 1 /\ wire'[i].type = "playlist"
    BY <2>2, <2>3
  <2>5. TypeOK'
    BY <1>1, <1>3, <2>3 DEF IInv, TypeOK, polling, display, Frame
  <2>6. Placed' /\ Numbered' /\ AllFresh'
    BY <1>1, <1>3, <2>4 DEF IInv, Placed, Numbered, AllFresh, Fresh, polling, display
  <2>7. WireInOrder' /\ NewerWins'
    BY <1>1, <2>4 DEF IInv, WireInOrder, NewerWins, display
  <2>8. CurrentOn(version', wire', shown)
    <3>1. Len(wire) + 1 \in DOMAIN wire' /\ wire'[Len(wire) + 1] = Playlist(version')
      BY <2>1, <2>3
    <3>2. \A j \in DOMAIN wire' : ~ (j > Len(wire) + 1)
      BY <2>3
    <3>. QED BY <3>1, <3>2 DEF CurrentOn
  <2>9. ScreenIsCurrent'
    BY <1>1, <2>3, <2>8, Typed, ScreenWillBe DEF display
  <2>. QED BY <1>1, <2>5, <2>6, <2>7, <2>9 DEF IInv
<1>4. link = "up" \/ link # "up"
  OBVIOUS
<1>. QED BY <1>1, <1>2, <1>3, <1>4 DEF Edit, RoomIsEmpty, IInv, TypeOK

\* What a flush sends: playlists, and the entries in order, each as its command;
\* a playlist comes last.
LEMMA FlushIs ==
  ASSUME IInv, NEW entries \in Seq(Live)
  PROVE  /\ Flushed(entries) \in Seq(Frame)
         /\ Len(Flushed(entries)) \in Nat \ {0}
         /\ DOMAIN Flushed(entries) = 1..Len(Flushed(entries))
         /\ Flushed(entries)[Len(Flushed(entries))] = Playlist(version)
         /\ \E k \in Nat :
              /\ \A i \in DOMAIN Flushed(entries) : Flushed(entries)[i].type # "playlist" =>
                   /\ i - k \in DOMAIN entries /\ Flushed(entries)[i] = Carried(entries[i - k])
              /\ \A j \in DOMAIN entries :
                   j + k \in DOMAIN Flushed(entries) /\ Flushed(entries)[j + k] = Carried(entries[j])
<1>1. PICK f : f = Playlist(version)
  OBVIOUS
<1>2. f \in Frame /\ f.type = "playlist"
  BY <1>1, Typed, Kinds DEF Frame
<1>3. /\ Len(entries) \in Nat /\ DOMAIN entries = 1..Len(entries)
      /\ \A j \in 1..Len(entries) : entries[j] \in Entry
  BY LenProperties, ElementOfSeq DEF IInv, TypeOK, Live
<1>4. PICK n \in Nat : n = Len(entries)
  BY <1>3
<1>5. PICK C : C = [i \in DOMAIN entries |-> Carried(entries[i])]
  OBVIOUS
<1>6. C = [i \in 1..n |-> Carried(entries[i])] /\ \A i \in 1..n : Carried(entries[i]) \in Frame
  BY <1>3, <1>4, <1>5, Kinds DEF Frame
<1>7. C \in Seq(Frame) /\ Len(C) = n /\ \A i \in 1..n : C[i] = Carried(entries[i])
  BY <1>6
<1>9. PICK L \in Seq(Frame) : L = <<f>> /\ Len(L) = 1 /\ L[1] = f
  <2>1. <<f>> \in Seq(Frame) /\ Len(<<f>>) = 1 /\ <<f>>[1] = f
    BY <1>2
  <2>. QED BY <2>1
<1>8. PICK P \in Seq(Frame) : /\ P = IF marker = "set" THEN <<Playlist(version)>> ELSE <<>>
                              /\ \A i \in 1..Len(P) : P[i].type = "playlist"
                              /\ Len(P) \in Nat
  <2>1. CASE marker = "set"
    <3>1. L = <<Playlist(version)>> /\ \A i \in 1..Len(L) : L[i].type = "playlist"
      BY <1>1, <1>2, <1>9
    <3>. QED BY <1>9, <2>1, <3>1
  <2>2. CASE marker # "set"
    <3>1. <<>> \in Seq(Frame) /\ Len(<<>>) = 0 /\ 1..0 = {}
      OBVIOUS
    <3>. QED BY <2>2, <3>1
  <2>. QED BY <2>1, <2>2
<1>10. PICK k \in Nat : k = Len(P)
  BY <1>8
<1>11. PICK g : g = P \o C
  OBVIOUS
<1>12. /\ g \in Seq(Frame) /\ Len(g) = k + n
       /\ \A i \in 1..(k + n) : g[i] = IF i <= k THEN P[i] ELSE C[i - k]
  BY <1>7, <1>8, <1>10, <1>11, ConcatProperties
<1>13. PICK h : h = g \o L
  OBVIOUS
<1>14. /\ h \in Seq(Frame) /\ Len(h) = k + n + 1
       /\ \A i \in 1..(k + n + 1) : h[i] = IF i <= k + n THEN g[i] ELSE L[i - (k + n)]
  BY <1>9, <1>12, <1>13, ConcatProperties
<1>15. h = Flushed(entries)
  BY <1>1, <1>5, <1>8, <1>9, <1>11, <1>13 DEF Flushed, FlushedAlone
<1>16. DOMAIN h = 1..(k + n + 1)
  BY <1>14, LenProperties
<1>17. \A i \in 1..k : h[i].type = "playlist"
  <2>1. SUFFICES ASSUME NEW i \in 1..k PROVE h[i].type = "playlist"
    OBVIOUS
  <2>2. i \in 1..(k + n) /\ i \in 1..(k + n + 1) /\ i <= k /\ i <= k + n
    OBVIOUS
  <2>3. h[i] = P[i]
    BY <1>12, <1>14, <2>2
  <2>. QED BY <1>8, <1>10, <2>3
<1>18. \A j \in 1..n : j + k \in 1..(k + n + 1) /\ h[j + k] = Carried(entries[j])
  <2>1. SUFFICES ASSUME NEW j \in 1..n
                 PROVE j + k \in 1..(k + n + 1) /\ h[j + k] = Carried(entries[j])
    OBVIOUS
  <2>2. /\ j + k \in 1..(k + n + 1) /\ j + k \in 1..(k + n) /\ j + k <= k + n
        /\ ~ (j + k <= k) /\ (j + k) - k = j
    OBVIOUS
  <2>. QED BY <1>7, <1>12, <1>14, <2>2
<1>19. h[k + n + 1] = f
  <2>1. /\ k + n + 1 \in 1..(k + n + 1) /\ ~ (k + n + 1 <= k + n) /\ (k + n + 1) - (k + n) = 1
    OBVIOUS
  <2>. QED BY <1>9, <1>14, <2>1
<1>20. \A i \in 1..(k + n + 1) : i \in 1..k \/ i = k + n + 1 \/ (i - k \in 1..n /\ (i - k) + k = i)
  OBVIOUS
<1>21. \A i \in 1..(k + n + 1) : h[i].type # "playlist" =>
         i - k \in 1..n /\ h[i] = Carried(entries[i - k])
  <2>1. SUFFICES ASSUME NEW i \in 1..(k + n + 1), h[i].type # "playlist"
                 PROVE i - k \in 1..n /\ h[i] = Carried(entries[i - k])
    OBVIOUS
  <2>2. i - k \in 1..n /\ (i - k) + k = i
    BY <1>2, <1>17, <1>19, <1>20, <2>1
  <2>. QED BY <1>18, <2>2
<1>22. Len(h) \in Nat \ {0}
  BY <1>14
<1>. QED BY <1>1, <1>3, <1>4, <1>14, <1>15, <1>16, <1>18, <1>19, <1>21, <1>22

\* Entries of one type are one entry.
LEMMA OneOfAType ==
  ASSUME IInv, NEW entries, InOrder(entries), NEW i \in DOMAIN entries, NEW j \in DOMAIN entries,
         i < j
  PROVE  entries[i].type # entries[j].type
<1>1. entries[i] \in queue /\ entries[j] \in queue /\ entries[i].at < entries[j].at
  BY DEF InOrder, Live, Range
<1>2. entries[i].at \in Nat /\ entries[j].at \in Nat
  BY <1>1, Kinds DEF IInv, TypeOK
<1>3. entries[i] # entries[j]
  BY <1>1, <1>2
<1>. QED BY <1>1, <1>3 DEF IInv, TypeOK

\* What is on the wire after a register: what was on it or what was live, in
\* order, and a playlist at the end.
LEMMA RegisterSends ==
  ASSUME IInv, Register
  PROVE  /\ wire' \in Seq(Frame) /\ CurrentOn(version, wire', shown)
         /\ \A i \in DOMAIN wire' : wire'[i].type # "playlist" =>
              \/ i \in DOMAIN wire /\ wire'[i] = wire[i]
              \/ \E e \in Live : wire'[i] = Carried(e)
         /\ \A i, j \in DOMAIN wire' :
              i < j /\ wire'[i].type = wire'[j].type /\ wire'[i].type # "playlist"
                => wire'[i].n < wire'[j].n
         /\ \A e \in Live : Carried(e) \in Range(wire')
<1>1. PICK kept \in {wire, <<>>}, entries \in [1..Cardinality(Live) -> Live] :
        /\ kept = <<>> \/ link = "up"
        /\ InOrder(entries) /\ wire' = kept \o Flushed(entries)
  BY DEF Register
<1>2. IsFiniteSet(Live) /\ Cardinality(Live) \in Nat
  BY FS_Subset, FS_CardinalityType DEF IInv, Live
<1>3. entries \in Seq(Live)
  BY <1>1, <1>2
<1>4. PICK g : g = Flushed(entries)
  OBVIOUS
<1>5. /\ g \in Seq(Frame) /\ Len(g) \in Nat \ {0} /\ DOMAIN g = 1..Len(g)
      /\ g[Len(g)] = Playlist(version)
  BY <1>3, <1>4, FlushIs
<1>6. PICK k \in Nat :
        /\ \A i \in DOMAIN g : g[i].type # "playlist" =>
             /\ i - k \in DOMAIN entries /\ g[i] = Carried(entries[i - k])
        /\ \A j \in DOMAIN entries :
             j + k \in DOMAIN g /\ g[j + k] = Carried(entries[j])
  BY <1>3, <1>4, FlushIs
<1>7. PICK w : w = kept \o g
  OBVIOUS
<1>8. wire' = w
  BY <1>1, <1>4, <1>7
<1>9. /\ w \in Seq(Frame) /\ DOMAIN w = 1..Len(w) /\ Len(w) \in Nat /\ Len(w) \in DOMAIN w
      /\ w[Len(w)] = Playlist(version)
      /\ CurrentOn(version, w, shown)
  <2>1. kept \in Seq(Frame) /\ Len(kept) \in Nat
    <3>1. <<>> \in Seq(Frame) /\ Len(<<>>) \in Nat
      OBVIOUS
    <3>. QED BY <1>1, <3>1, Typed
  <2>2. /\ w \in Seq(Frame) /\ Len(w) = Len(kept) + Len(g)
        /\ \A i \in 1..Len(kept) + Len(g) : w[i] = IF i <= Len(kept) THEN kept[i] ELSE g[i - Len(kept)]
    BY <1>5, <1>7, <2>1, ConcatProperties
  <2>3. DOMAIN w = 1..Len(w) /\ Len(w) \in Nat /\ Len(w) \in 1..Len(w)
    BY <1>5, <2>1, <2>2, LenProperties
  <2>4. w[Len(w)] = Playlist(version)
    <3>1. /\ Len(w) \in 1..Len(kept) + Len(g) /\ ~ (Len(w) <= Len(kept))
          /\ Len(w) - Len(kept) = Len(g)
      BY <1>5, <2>1, <2>2
    <3>. QED BY <1>5, <2>2, <3>1
  <2>5. \A j \in DOMAIN w : ~ (j > Len(w))
    BY <2>3
  <2>. QED BY <2>2, <2>3, <2>4, <2>5 DEF CurrentOn
<1>10. CASE kept = <<>>
  <2>1. w = g
    BY <1>5, <1>7, <1>10, ConcatEmptySeq
  <2>2. \A j \in DOMAIN entries : entries[j] \in Live
    BY <1>1
  <2>3. \A i \in DOMAIN w : w[i].type # "playlist" => \E e \in Live : w[i] = Carried(e)
    BY <1>6, <2>1, <2>2
  <2>4. ASSUME NEW i \in DOMAIN w, NEW j \in DOMAIN w, i < j, w[i].type = w[j].type,
               w[i].type # "playlist"
        PROVE  FALSE
    <3>1. /\ i - k \in DOMAIN entries /\ w[i] = Carried(entries[i - k])
          /\ j - k \in DOMAIN entries /\ w[j] = Carried(entries[j - k])
      BY <1>6, <2>1, <2>4
    <3>2. i - k < j - k
      BY <1>5, <2>1, <2>4
    <3>3. entries[i - k].type # entries[j - k].type
      BY <1>1, <3>1, <3>2, OneOfAType
    <3>. QED BY <2>4, <3>1, <3>3 DEF Carried
  <2>5. \A e \in Live : Carried(e) \in Range(w)
    BY <1>1, <1>6, <2>1 DEF InOrder, Range
  <2>. QED BY <1>8, <1>9, <2>3, <2>4, <2>5
<1>11. CASE kept = wire /\ link = "up"
  <2>1. Live = {} /\ \A j \in DOMAIN entries : FALSE
    BY <1>1, <1>11 DEF IInv, Placed, Live
  <2>2. \A i \in DOMAIN g : g[i].type = "playlist"
    BY <1>6, <2>1
  <2>3. /\ Len(w) = Len(wire) + Len(g) /\ DOMAIN wire = 1..Len(wire) /\ Len(wire) \in Nat
        /\ \A i \in 1..Len(wire) + Len(g) : w[i] = IF i <= Len(wire) THEN wire[i] ELSE g[i - Len(wire)]
    BY <1>5, <1>7, <1>11, Typed, ConcatProperties
  <2>4. ASSUME NEW i \in DOMAIN w, w[i].type # "playlist"
        PROVE  i \in DOMAIN wire /\ w[i] = wire[i]
    <3>1. i \in 1..Len(wire) + Len(g) /\ (i <= Len(wire) => i \in 1..Len(wire))
          /\ (~ (i <= Len(wire)) => i - Len(wire) \in 1..Len(g))
      BY <1>5, <1>9, <2>3
    <3>. QED BY <1>5, <2>2, <2>3, <2>4, <3>1
  <2>. QED BY <1>8, <1>9, <2>1, <2>4 DEF IInv, WireInOrder
<1>. QED BY <1>1, <1>10, <1>11

LEMMA RegisterKeeps == ASSUME IInv, Register PROVE IInv'
<1>1. /\ link' = "up" /\ marker' = "none" /\ queue' = {} /\ link # "none"
      /\ UNCHANGED <<version, issued, old, polling, display>>
  BY DEF Register, Polls
<1>2. TypeOK'
  BY <1>1, RegisterSends DEF IInv, TypeOK, polling, display, Frame
<1>3. \A i \in DOMAIN wire' : wire'[i].type # "playlist" => wire'[i].n <= issued /\ Fresh(wire'[i])
  <2>1. \A e \in Live : Carried(e).n <= issued /\ Fresh(Carried(e))
    BY Kinds DEF IInv, TypeOK, Live, Numbered, AllFresh, Fresh
  <2>. QED BY <2>1, RegisterSends DEF IInv, Numbered, AllFresh
<1>4. Placed' /\ Numbered' /\ AllFresh' /\ IsFiniteSet(queue')
  BY <1>1, <1>3, FS_EmptySet DEF IInv, Placed, Numbered, AllFresh, Fresh, polling, display
<1>5. WireInOrder' /\ NewerWins'
  BY <1>1, RegisterSends DEF IInv, WireInOrder, NewerWins, display
<1>6. ScreenIsCurrent'
  BY <1>1, RegisterSends, Typed, ScreenWillBe DEF display
<1>. QED BY <1>2, <1>4, <1>5, <1>6 DEF IInv

LEMMA DeliverKeeps == ASSUME IInv, Deliver PROVE IInv'
<1>1. /\ link = "up" /\ wire # <<>> /\ wire' = Tail(wire) /\ UNCHANGED <<server, link, polling>>
      /\ IF Head(wire).type = "playlist" THEN shown' = Head(wire).n /\ UNCHANGED ran
         ELSE ran' = Append(ran, Head(wire)) /\ UNCHANGED shown
  BY DEF Deliver
<1>2. PICK w, f : w = Tail(wire) /\ f = Head(wire)
  OBVIOUS
<1>3. /\ w \in Seq(Frame) /\ Len(w) = Len(wire) - 1 /\ f \in Frame
      /\ \A i \in 1..Len(w) : w[i] = wire[i + 1]
      /\ Len(wire) \in Nat \ {0} /\ DOMAIN wire = 1..Len(wire) /\ DOMAIN w = 1..Len(w)
      /\ f = wire[1] /\ f \in Frame
  BY <1>1, <1>2, Typed, HeadTailProperties, LenProperties, EmptySeq
<1>4. \A i \in DOMAIN w : i + 1 \in DOMAIN wire /\ 1 < i + 1 /\ w[i] = wire[i + 1]
  BY <1>3
<1>5. wire' = w
  BY <1>1, <1>2
<1>6. 1 \in DOMAIN wire /\ \A i \in DOMAIN wire : i # 1 => i - 1 \in DOMAIN w /\ w[i - 1] = wire[i]
  <2>1. SUFFICES ASSUME NEW i \in DOMAIN wire, i # 1 PROVE i - 1 \in DOMAIN w /\ w[i - 1] = wire[i]
    BY <1>3
  <2>2. i - 1 \in 1..Len(w) /\ (i - 1) + 1 = i
    BY <1>3, <2>1
  <2>. QED BY <1>3, <2>2
<1>7. WireInOrder'
  <2>1. \A i, j \in DOMAIN w : i < j => i + 1 < j + 1
    BY <1>3
  <2>. QED BY <1>4, <1>5, <2>1 DEF IInv, WireInOrder
<1>8. \A i \in DOMAIN w : w[i].type # "playlist" => w[i].n <= issued /\ Fresh(w[i])
  BY <1>4 DEF IInv, Numbered, AllFresh
<1>9. queue = {} /\ current = {}
  BY <1>1 DEF IInv, Placed
<1>10. CurrentOn(version, wire, shown)
  BY <1>1, ScreenIs DEF IInv
<1>11. CASE f.type = "playlist"
  <2>1. f.n \in Version /\ f = Playlist(f.n) /\ shown' = f.n /\ ran' = ran
    BY <1>1, <1>2, <1>3, <1>11, Kinds DEF Frame
  <2>2. CurrentOn(version, w, f.n)
    <3>1. PICK i \in DOMAIN wire : wire[i] = Playlist(version)
                                   /\ \A j \in DOMAIN wire : j > i => wire[j].type # "playlist"
      BY <1>3, <1>6, <1>10, <1>11 DEF CurrentOn
    <3>2. CASE i = 1
      <4>1. f.n = version
        BY <1>3, <3>1, <3>2, Kinds
      <4>. QED BY <1>4, <3>1, <3>2, <4>1 DEF CurrentOn
    <3>3. CASE i # 1
      <4>1. i - 1 \in DOMAIN w /\ w[i - 1] = Playlist(version)
        BY <1>6, <3>1, <3>3
      <4>2. \A j \in DOMAIN w : j > i - 1 => w[j].type # "playlist"
        <5>1. \A j \in DOMAIN w : j > i - 1 => j + 1 > i
          BY <1>3
        <5>. QED BY <1>4, <3>1, <5>1
      <4>. QED BY <4>1, <4>2 DEF CurrentOn
    <3>. QED BY <3>2, <3>3
  <2>3. TypeOK'
    BY <1>1, <1>3, <1>5, <2>1 DEF IInv, TypeOK, server, polling, Frame
  <2>4. Placed' /\ Numbered' /\ AllFresh' /\ NewerWins' /\ IsFiniteSet(queue')
    BY <1>1, <1>5, <1>8, <2>1
       DEF IInv, Placed, Numbered, AllFresh, Fresh, NewerWins, server, polling
  <2>5. ScreenIsCurrent'
    BY <1>1, <1>3, <1>5, <2>1, <2>2, Typed, ScreenWillBe DEF server
  <2>. QED BY <1>7, <2>3, <2>4, <2>5 DEF IInv
<1>12. CASE f.type # "playlist"
  <2>1. f \in Command /\ ran' = Append(ran, f) /\ shown' = shown /\ f.n <= issued /\ Fresh(f)
    BY <1>1, <1>2, <1>3, <1>6, <1>12, Kinds DEF IInv, Numbered, AllFresh
  <2>2. /\ ran' \in Seq(Command) /\ Len(ran) \in Nat
        /\ DOMAIN ran = 1..Len(ran) /\ DOMAIN ran' = 1..(Len(ran) + 1)
        /\ \A i \in 1..Len(ran) : ran'[i] = ran[i]
        /\ ran'[Len(ran) + 1] = f
        /\ \A i \in 1..(Len(ran) + 1) : i \in 1..Len(ran) \/ i = Len(ran) + 1
    BY <2>1, Typed, OneMore
  <2>3. \A i \in DOMAIN ran' : \/ i \in DOMAIN ran /\ ran'[i] = ran[i]
                               \/ i = Len(ran) + 1 /\ ran'[i] = f
    BY <2>2
  <2>4. TypeOK'
    BY <1>1, <1>3, <1>5, <2>1, <2>2 DEF IInv, TypeOK, server, polling, Frame
  <2>5. Placed' /\ Numbered' /\ IsFiniteSet(queue')
    BY <1>1, <1>5, <1>8, <1>9, <2>1, <2>3 DEF IInv, Placed, Numbered, server, polling
  <2>6. AllFresh'
    <3>1. ASSUME NEW i \in DOMAIN w, w[i].type # "playlist" PROVE Fresh(w[i])'
      <4>1. f.type = w[i].type => f.n < w[i].n
        BY <1>3, <1>4, <1>6, <1>12, <3>1 DEF IInv, WireInOrder
      <4>. QED BY <1>5, <1>8, <2>3, <3>1, <4>1 DEF Fresh
    <3>. QED BY <1>1, <1>5, <1>9, <3>1 DEF AllFresh, Fresh, server, polling
  <2>7. NewerWins'
    <3>1. SUFFICES ASSUME NEW i \in DOMAIN ran', NEW j \in DOMAIN ran', i < j,
                          ran'[i].type = ran'[j].type
                   PROVE  ran'[i].n < ran'[j].n
      BY DEF NewerWins
    <3>2. i \in DOMAIN ran /\ ran'[i] = ran[i]
      BY <2>2, <2>3, <3>1
    <3>. QED BY <2>1, <2>3, <3>1, <3>2 DEF IInv, NewerWins, Fresh
  <2>8. CurrentOn(version, w, shown)
    <3>1. CASE shown = version /\ \A j \in DOMAIN wire : wire[j].type # "playlist"
      BY <1>4, <3>1 DEF CurrentOn
    <3>2. ASSUME NEW i \in DOMAIN wire, wire[i] = Playlist(version),
                 \A j \in DOMAIN wire : j > i => wire[j].type # "playlist"
          PROVE  CurrentOn(version, w, shown)
      <4>1. i # 1
        BY <1>3, <1>12, <3>2, Kinds
      <4>2. i - 1 \in DOMAIN w /\ w[i - 1] = Playlist(version)
        BY <1>6, <3>2, <4>1
      <4>3. \A j \in DOMAIN w : j > i - 1 => w[j].type # "playlist"
        <5>1. \A j \in DOMAIN w : j > i - 1 => j + 1 > i
          BY <1>3
        <5>. QED BY <1>4, <3>2, <5>1
      <4>. QED BY <4>2, <4>3 DEF CurrentOn
    <3>. QED BY <1>10, <3>1, <3>2 DEF CurrentOn
  <2>9. ScreenIsCurrent'
    BY <1>1, <1>3, <1>5, <2>1, <2>8, Typed, ScreenWillBe DEF server
  <2>. QED BY <1>7, <2>4, <2>5, <2>6, <2>7, <2>9 DEF IInv
<1>. QED BY <1>11, <1>12

\* The wire is lost, the panel's polls too when the server starts again.
LEMMA LinkKeeps == ASSUME IInv, LinkDies \/ Disconnect PROVE IInv'
<1>1. /\ link # "none" /\ link' # "none" /\ link' # "up" /\ wire' = <<>> /\ link' \in {"down", "dead"}
      /\ link \in {"up", "dead"} /\ UNCHANGED <<server, polling, display>>
  BY DEF LinkDies, Disconnect
<1>2. TypeOK'
  BY <1>1 DEF IInv, TypeOK, server, polling, display
<1>. QED BY <1>1, <1>2 DEF IInv, Placed, Numbered, AllFresh, Fresh, WireInOrder, NewerWins,
                           ScreenIsCurrent, server, polling, display

LEMMA RestartKeeps == ASSUME IInv, Restart PROVE IInv'
<1>1. /\ link' \in {"none", "down"} /\ wire' = <<>> /\ queue' = {} /\ current' = {}
      /\ abandoned' = {} /\ marker' = "none" /\ UNCHANGED <<version, issued, old, display>>
  BY DEF Restart
<1>2. TypeOK'
  BY <1>1 DEF IInv, TypeOK, display
<1>. QED BY <1>1, <1>2, FS_EmptySet
     DEF IInv, Placed, Numbered, AllFresh, Fresh, WireInOrder, NewerWins, ScreenIsCurrent, display

\* A response takes its type out of the queue, so nothing of it is left that
\* could run after a newer one.
LEMMA AnswerKeeps == ASSUME IInv, Answer PROVE IInv'
<1>1. PICK e \in current : queue' = Popped(e) /\ ran' \in {ran, Append(ran, Carried(e))}
  BY DEF Answer
<1>2. /\ current' = {} /\ UNCHANGED <<version, issued, marker, old, link, wire, abandoned, shown>>
  BY DEF Answer
<1>3. queue' \subseteq queue /\ \A f \in queue' : f.type # e.type
  BY <1>1 DEF Popped, Live
<1>4. e \in Entry /\ link = "none" /\ wire = <<>> /\ e.n <= issued /\ Fresh(e)
  BY <1>1 DEF IInv, TypeOK, Placed, Numbered, AllFresh
<1>5. CASE ran' = ran
  BY <1>2, <1>3, <1>5, QueueShrinks DEF IInv, TypeOK, display
<1>6. CASE ran' = Append(ran, Carried(e))
  <2>1. PICK c : c = Carried(e)
    OBVIOUS
  <2>2. c \in Command /\ c.type = e.type /\ c.n = e.n /\ ran' = Append(ran, c)
    BY <1>4, <1>6, <2>1, Kinds
  <2>3. /\ ran' \in Seq(Command) /\ Len(ran) \in Nat
        /\ DOMAIN ran = 1..Len(ran) /\ DOMAIN ran' = 1..(Len(ran) + 1)
        /\ \A i \in 1..Len(ran) : ran'[i] = ran[i]
        /\ ran'[Len(ran) + 1] = c
        /\ \A i \in 1..(Len(ran) + 1) : i \in 1..Len(ran) \/ i = Len(ran) + 1
    BY <2>2, Typed, OneMore
  <2>4. \A i \in DOMAIN ran' : \/ i \in DOMAIN ran /\ ran'[i] = ran[i]
                               \/ i = Len(ran) + 1 /\ ran'[i] = c
    BY <2>3
  <2>5. TypeOK'
    BY <1>2, <1>3, <2>3 DEF IInv, TypeOK
  <2>6. Placed' /\ Numbered' /\ WireInOrder' /\ IsFiniteSet(queue')
    BY <1>2, <1>3, <1>4, <2>2, <2>4, FS_Subset DEF IInv, Placed, Numbered, WireInOrder
  <2>7. AllFresh'
    BY <1>2, <1>3, <1>4, <2>2, <2>4 DEF IInv, AllFresh, Fresh
  <2>8. NewerWins'
    <3>1. SUFFICES ASSUME NEW i \in DOMAIN ran', NEW j \in DOMAIN ran', i < j,
                          ran'[i].type = ran'[j].type
                   PROVE  ran'[i].n < ran'[j].n
      BY DEF NewerWins
    <3>2. i \in DOMAIN ran /\ ran'[i] = ran[i]
      BY <2>3, <2>4, <3>1
    <3>. QED BY <1>4, <2>2, <2>4, <3>1, <3>2 DEF IInv, NewerWins, Fresh
  <2>9. ScreenIsCurrent'
    BY <1>2, <1>4 DEF ScreenIsCurrent
  <2>. QED BY <2>5, <2>6, <2>7, <2>8, <2>9 DEF IInv
<1>. QED BY <1>1, <1>5, <1>6

LEMMA StepInvariant == IInv /\ [Next]_vars => IInv'
<1> SUFFICES ASSUME IInv, [Next]_vars PROVE IInv'
  OBVIOUS
<1>1. Live \subseteq queue /\ abandoned \subseteq Entry /\ current \cup queue \subseteq Entry /\ old \subseteq Number
      /\ marker \in {"none", "set", "old"} /\ (current # {} => link = "none")
  BY DEF Live, IInv, TypeOK, Placed
<1>2. CASE Expire
  <2>1. old' \subseteq Number
    BY <1>1, <1>2, Kinds DEF Expire
  <2>. QED BY <1>1, <1>2, <2>1, QueueShrinks DEF Expire, polling, display
<1>3. CASE MarkerExpires
  BY <1>1, <1>3, QueueShrinks DEF MarkerExpires, polling, display
<1>4. CASE Sweep
  BY <1>1, <1>4, QueueShrinks DEF Sweep, polling, display
<1>5. CASE Poll
  <2>1. /\ queue' \subseteq queue /\ current' \subseteq queue /\ abandoned' = abandoned \cup current
        /\ link = "none" /\ UNCHANGED <<version, issued, marker, old, link, wire, display>>
    BY <1>1, <1>5 DEF Poll, Polls, Live
  <2>. QED BY <1>1, <2>1, QueueShrinks
<1>6. CASE LateAnswer
  <2>1. /\ queue' \subseteq queue /\ abandoned' \subseteq abandoned
        /\ UNCHANGED <<version, issued, marker, old, link, wire, current, display>>
    BY <1>1, <1>6 DEF LateAnswer, Popped
  <2>. QED BY <1>1, <2>1, QueueShrinks
<1>7. CASE UNCHANGED vars
  BY <1>1, <1>7, QueueShrinks DEF vars, server, polling
<1>. QED BY <1>2, <1>3, <1>4, <1>5, <1>6, <1>7, SendKeeps, EditKeeps, RegisterKeeps, DeliverKeeps,
            LinkKeeps, AnswerKeeps, RestartKeeps DEF Next

-----------------------------------------------------------------------------
(* What a step drops.                                                      *)

LEMMA StepDrops ==
  IInv /\ [Next]_vars =>
    [Restart \/ \A e \in queue \ queue' :
       Excused(e) \/ \E f \in current \cup abandoned : e.type = f.type]_vars
<1> SUFFICES ASSUME IInv, Next
             PROVE  Restart \/ \A e \in queue \ queue' :
                      Excused(e) \/ \E f \in current \cup abandoned : e.type = f.type
  OBVIOUS
<1>1. ASSUME NEW t \in Type, Send(t), NEW e \in queue \ queue' PROVE Excused(e)
  <2>1. RoomIsEmpty /\ queue' = Put(t, issued') /\ issued' = issued + 1 /\ issued' \in Number
        /\ issued \in Nat
    BY <1>1, QueueAssumption DEF Send, IInv, TypeOK, Number
  <2>2. PICK p \in Entry : /\ p.type = t /\ p.n = issued'
                           /\ queue' = {f \in queue : f.type # t} \cup {p}
    BY <2>1, PutIs
  <2>3. e.n <= issued /\ e.n \in Nat /\ e.type = t
    BY <1>1, <2>2, Kinds DEF IInv, TypeOK, Numbered
  <2>. QED BY <2>1, <2>2, <2>3 DEF Excused, Replaced
<1>2. ASSUME Register, NEW e \in queue \ queue' PROVE Excused(e)
  BY <1>2, RegisterSends DEF Excused, Live
<1>3. ASSUME Sweep, NEW e \in queue \ queue' PROVE Excused(e)
  BY <1>3 DEF Sweep, Live, Excused
<1>4. ASSUME Poll, NEW e \in queue \ queue' PROVE Excused(e)
  BY <1>4 DEF Poll, Live, Excused
<1>5. ASSUME Answer \/ LateAnswer, NEW e \in queue \ queue'
      PROVE  Excused(e) \/ \E f \in current \cup abandoned : e.type = f.type
  BY <1>5 DEF Answer, LateAnswer, Popped, Live, Excused
<1>6. ASSUME Edit \/ Expire \/ MarkerExpires \/ Deliver \/ LinkDies \/ Disconnect
      PROVE  queue' = queue
  BY <1>6 DEF Edit, Expire, MarkerExpires, Deliver, LinkDies, Disconnect, server
<1>. QED BY <1>1, <1>2, <1>3, <1>4, <1>5, <1>6 DEF Next

-----------------------------------------------------------------------------
(* The theorems.                                                           *)

LEMMA Invariant == Spec => []IInv
<1>1. Init => IInv
  BY InitInvariant
<1>. QED BY <1>1, StepInvariant, PTL DEF Spec

\* Every entry is of its type and every type and place has one entry.
THEOREM QueueTypeCorrect == Spec => []TypeOK
<1>1. IInv => TypeOK
  BY DEF IInv
<1>. QED BY <1>1, Invariant, PTL

\* A display that is connected plays the playlist as it is now when what is on
\* the wire has arrived.
THEOREM ConnectedIsCurrent == Spec => []ScreenIsCurrent
<1>1. IInv => ScreenIsCurrent
  BY DEF IInv
<1>. QED BY <1>1, Invariant, PTL

\* No display runs an older command of a type after a newer one, nor one twice.
THEOREM NoOldCommand == Spec => []NewerWins
<1>1. IInv => NewerWins
  BY DEF IInv
<1>. QED BY <1>1, Invariant, PTL

\* A queued command leaves the queue only for the reasons the code names.
THEOREM DropsAreExcused == Spec => NothingVanishes
BY Invariant, StepDrops, PTL DEF Spec, NothingVanishes

-----------------------------------------------------------------------------
(* The gates.                                                              *)

\* Every nonempty set of natural numbers has a least element.
LEMMA LeastNat ==
  ASSUME NEW T, T \subseteq Nat, T # {}
  PROVE  \E m \in T : \A k \in T : m <= k
<1>. DEFINE Less == {p \in Nat \X Nat : p[1] < p[2]}
<1>1. IsWellFoundedOn(Less, Nat)
  BY NatLessThanWellFounded DEF OpToRel
<1>2. \E m \in T : \A k \in T : <<k, m>> \notin Less
  <2>. HIDE DEF Less
  <2>. QED BY <1>1, WFMin
<1>3. \A m, k \in T : <<k, m>> \in Less <=> k < m
  OBVIOUS
<1>4. \A m, k \in T : k < m \/ m <= k
  OBVIOUS
<1>. HIDE DEF Less
<1>. QED BY <1>2, <1>3, <1>4

\* A set of positive numbers up to n with which each of its members brings those
\* below it is an initial segment.
LEMMA Segment ==
  ASSUME NEW n \in Nat, NEW S \in SUBSET (1..n), \A i \in S : \A j \in 1..i : j \in S
  PROVE  Cardinality(S) \in 0..n /\ S = 1..Cardinality(S)
<1>1. PICK out : out = {i \in Nat \ {0} : i \notin S}
  OBVIOUS
<1>2. n + 1 \in out /\ out \subseteq Nat
  BY <1>1
<1>3. PICK m \in out : \A k \in out : m <= k
  BY <1>2, LeastNat
<1>4. PICK c : c = m - 1
  OBVIOUS
<1>5. c \in 0..n /\ c + 1 = m /\ c + 1 \notin S
  BY <1>1, <1>2, <1>3, <1>4
<1>6. 1..c \subseteq S
  BY <1>1, <1>3, <1>5
<1>7. ASSUME NEW i \in S PROVE i \in 1..c
  <2>1. ~ (c + 1 \in 1..i)
    BY <1>5
  <2>. QED BY <1>5, <2>1
<1>8. Cardinality(1..c) = c
  BY <1>5, FS_Interval
<1>. QED BY <1>5, <1>6, <1>7, <1>8

\* Doubled is defined by recursion: the function it names exists, and is positive.
LEMMA DoubledType ==
  \A n \in 1..MaxLevel : Doubled[n] \in Nat \ {0}
<1> DEFINE Solves(f, k) == /\ f \in [1..k -> Nat \ {0}]
                           /\ \A n \in 1..k : f[n] = IF n <= 1 THEN 1 ELSE 2 * f[n - 1]
           T == {k \in Nat : \E f : Solves(f, k)}
<1>1. 0 \in T
  <2>1. Solves([n \in 1..0 |-> 1], 0)
    OBVIOUS
  <2>. QED BY <2>1
<1>2. ASSUME NEW k \in Nat, k \in T PROVE k + 1 \in T
  <2>1. PICK f : Solves(f, k)
    BY <1>2
  <2> DEFINE g == [n \in 1..(k + 1) |-> IF n <= 1 THEN 1 ELSE 2 * f[n - 1]]
  <2>2. \A n \in 1..(k + 1) : ~ (n <= 1) => n - 1 \in 1..k
    OBVIOUS
  <2>3. g \in [1..(k + 1) -> Nat \ {0}]
    BY <2>1, <2>2
  <2>4. \A n \in 1..k : g[n] = f[n]
    BY <2>1
  <2>5. Solves(g, k + 1)
    BY <2>2, <2>3, <2>4
  <2> HIDE DEF g, Solves
  <2>. QED BY <2>5
<1>3. Nat \subseteq T
  <2>. HIDE DEF T
  <2>1. ASSUME Nat \ T # {} PROVE FALSE
    <3>1. PICK m \in Nat \ T : \A n \in Nat \ T : m <= n
      BY <2>1, LeastNat
    <3>2. m # 0 /\ m - 1 \in Nat /\ m - 1 \in T
      BY <1>1, <3>1
    <3>. QED BY <1>2, <3>1, <3>2
  <2>. QED BY <2>1
<1>4. MaxLevel \in Nat
  BY AdmissionAssumption DEF Limits
<1>5. PICK f : Solves(f, MaxLevel)
  BY <1>3, <1>4
<1>6. f = [n \in 1..MaxLevel |-> IF n <= 1 THEN 1 ELSE 2 * f[n - 1]]
  BY <1>5
<1>7. Doubled = [n \in 1..MaxLevel |-> IF n <= 1 THEN 1 ELSE 2 * Doubled[n - 1]]
  BY <1>6 DEF Doubled
<1> DEFINE U == {k \in Nat : k \in 1..MaxLevel => Doubled[k] \in Nat \ {0}}
<1>8. 0 \in U
  OBVIOUS
<1>9. ASSUME NEW k \in Nat, k \in U PROVE k + 1 \in U
  <2>1. CASE k = 0
    BY <1>4, <1>7, <2>1
  <2>2. CASE k # 0 /\ k + 1 \in 1..MaxLevel
    <3>1. k \in 1..MaxLevel /\ ~ (k + 1 <= 1) /\ (k + 1) - 1 = k
      BY <1>4, <2>2
    <3>2. Doubled[k + 1] = 2 * Doubled[k]
      BY <1>7, <2>2, <3>1
    <3>. QED BY <1>9, <3>1, <3>2
  <2>. QED BY <2>1, <2>2
<1>10. Nat \subseteq U
  <2>. HIDE DEF U
  <2>1. ASSUME Nat \ U # {} PROVE FALSE
    <3>1. PICK m \in Nat \ U : \A n \in Nat \ U : m <= n
      BY <2>1, LeastNat
    <3>2. m # 0 /\ m - 1 \in Nat /\ m - 1 \in U
      BY <1>8, <3>1
    <3>. QED BY <1>9, <3>1, <3>2
  <2>. QED BY <2>1
<1>. QED BY <1>10

-----------------------------------------------------------------------------
(* Hits: a list of ages, the newest first.                                 *)

Sorted(ages) == \A i, j \in DOMAIN ages : i < j => ages[i] <= ages[j]

\* A new hit goes first; the others move up.
LEMMA PushedIs ==
  ASSUME NEW w \in Nat \ {0}, NEW ages \in Seq(0..w - 1), Sorted(ages)
  PROVE  /\ Pushed(ages) \in Seq(0..w - 1) /\ Sorted(Pushed(ages))
         /\ Len(Pushed(ages)) = Len(ages) + 1
         /\ DOMAIN Pushed(ages) = 1..(Len(ages) + 1)
         /\ Len(ages) \in Nat /\ DOMAIN ages = 1..Len(ages)
         /\ Pushed(ages)[1] = 0
         /\ \A i \in 1..Len(ages) : Pushed(ages)[i + 1] = ages[i]
         /\ \A i \in 1..(Len(ages) + 1) :
              i = 1 \/ (i - 1 \in 1..Len(ages) /\ Pushed(ages)[i] = ages[i - 1])
<1>1. PICK new \in Seq(0..w - 1) : new = <<0>> /\ Len(new) = 1 /\ new[1] = 0
  <2>1. <<0>> \in Seq(0..w - 1) /\ Len(<<0>>) = 1 /\ <<0>>[1] = 0
    OBVIOUS
  <2>. QED BY <2>1
<1>2. PICK p : p = new \o ages
  OBVIOUS
<1>3. /\ p \in Seq(0..w - 1) /\ Len(p) = 1 + Len(ages)
      /\ \A i \in 1..(1 + Len(ages)) : p[i] = IF i <= 1 THEN new[i] ELSE ages[i - 1]
  BY <1>1, <1>2, ConcatProperties
<1>4. /\ DOMAIN p = 1..(Len(ages) + 1) /\ DOMAIN ages = 1..Len(ages) /\ Len(ages) \in Nat
      /\ \A i \in 1..Len(ages) : ages[i] \in 0..w - 1
  BY <1>3, LenProperties, ElementOfSeq
<1>5. p[1] = 0 /\ \A i \in 1..Len(ages) : p[i + 1] = ages[i]
  <2>1. ASSUME NEW i \in 1..Len(ages) PROVE p[i + 1] = ages[i]
    <3>1. i + 1 \in 1..(1 + Len(ages)) /\ ~ (i + 1 <= 1) /\ (i + 1) - 1 = i
      BY <1>4
    <3>. QED BY <1>3, <3>1
  <2>2. 1 \in 1..(1 + Len(ages)) /\ 1 <= 1
    BY <1>4
  <2>. QED BY <1>1, <1>3, <2>1, <2>2
<1>6. \A i \in 1..(Len(ages) + 1) : i = 1 \/ (i - 1 \in 1..Len(ages) /\ p[i] = ages[i - 1])
  BY <1>3, <1>4
<1>7. Sorted(p)
  <2>1. SUFFICES ASSUME NEW i \in 1..(Len(ages) + 1), NEW j \in 1..(Len(ages) + 1), i < j
                 PROVE  p[i] <= p[j]
    BY <1>4 DEF Sorted
  <2>2. j - 1 \in 1..Len(ages) /\ p[j] = ages[j - 1] /\ p[j] \in 0..w - 1
    BY <1>4, <1>6, <2>1
  <2>3. CASE i = 1
    BY <1>5, <2>2, <2>3
  <2>4. CASE i # 1
    <3>1. i - 1 \in 1..Len(ages) /\ p[i] = ages[i - 1] /\ i - 1 < j - 1
      BY <1>4, <1>6, <2>1, <2>4
    <3>. QED BY <1>4, <2>2, <3>1 DEF Sorted
  <2>. QED BY <2>3, <2>4
<1>. QED BY <1>1, <1>2, <1>3, <1>4, <1>5, <1>6, <1>7 DEF Pushed

\* A tick drops the oldest hits: what is left is a prefix, one tick older.
LEMMA AgedIs ==
  ASSUME NEW w \in Nat \ {0}, NEW ages \in Seq(0..w - 1), Sorted(ages)
  PROVE  /\ Aged(ages, w) \in Seq(0..w - 1) /\ Sorted(Aged(ages, w))
         /\ Len(Aged(ages, w)) \in 0..Len(ages) /\ Len(ages) \in Nat
         /\ DOMAIN Aged(ages, w) = 1..Len(Aged(ages, w))
         /\ DOMAIN ages = 1..Len(ages)
         /\ \A i \in DOMAIN Aged(ages, w) :
              i \in DOMAIN ages /\ Aged(ages, w)[i] = ages[i] + 1
         /\ \A i \in DOMAIN ages : ages[i] + 1 < w => i \in DOMAIN Aged(ages, w)
<1>1. /\ Len(ages) \in Nat /\ DOMAIN ages = 1..Len(ages)
      /\ \A i \in 1..Len(ages) : ages[i] \in 0..w - 1
  BY LenProperties, ElementOfSeq
<1>2. PICK kept : kept = {i \in DOMAIN ages : ages[i] + 1 < w}
  OBVIOUS
<1>3. kept \in SUBSET (1..Len(ages)) /\ \A i \in kept : \A j \in 1..i : j \in kept
  <2>1. ASSUME NEW i \in kept, NEW j \in 1..i PROVE j \in kept
    <3>1. j \in DOMAIN ages /\ i \in DOMAIN ages /\ (j < i \/ j = i) /\ ages[i] + 1 < w
      BY <1>1, <1>2, <2>1
    <3>2. ages[j] <= ages[i]
      BY <1>1, <3>1 DEF Sorted
    <3>. QED BY <1>1, <1>2, <3>1, <3>2
  <2>. QED BY <1>1, <1>2, <2>1
<1>4. PICK n : n = Cardinality(kept)
  OBVIOUS
<1>5. n \in 0..Len(ages) /\ kept = 1..n
  BY <1>1, <1>3, <1>4, Segment
<1>6. PICK b : b = [i \in 1..n |-> ages[i] + 1]
  OBVIOUS
<1>7. \A i \in 1..n : i \in DOMAIN ages /\ ages[i] + 1 \in 0..w - 1 /\ b[i] = ages[i] + 1
  <2>1. SUFFICES ASSUME NEW i \in 1..n
                 PROVE  i \in DOMAIN ages /\ ages[i] + 1 \in 0..w - 1 /\ b[i] = ages[i] + 1
    OBVIOUS
  <2>2. i \in DOMAIN ages /\ ages[i] + 1 < w
    BY <1>2, <1>5
  <2>3. ages[i] \in Nat
    BY <1>1, <2>2
  <2>. QED BY <1>6, <2>2, <2>3
<1>8. b \in Seq(0..w - 1) /\ Len(b) = n /\ DOMAIN b = 1..n
  BY <1>1, <1>5, <1>6, <1>7
<1>9. Sorted(b)
  <2>1. SUFFICES ASSUME NEW i \in 1..n, NEW j \in 1..n, i < j PROVE b[i] <= b[j]
    BY <1>8 DEF Sorted
  <2>2. i \in DOMAIN ages /\ j \in DOMAIN ages /\ b[i] = ages[i] + 1 /\ b[j] = ages[j] + 1
    BY <1>7
  <2>3. ages[i] \in Nat /\ ages[j] \in Nat
    BY <1>1, <2>2
  <2>4. ages[i] <= ages[j]
    BY <2>1, <2>2 DEF Sorted
  <2>. QED BY <2>2, <2>3, <2>4
<1>10. b = Aged(ages, w)
  <2>1. Aged(ages, w) = Older(ages, kept)
    BY <1>2 DEF Aged
  <2>2. Older(ages, kept) = [i \in 1..n |-> ages[i] + 1]
    BY <1>4 DEF Older
  <2>. QED BY <1>6, <2>1, <2>2
<1>11. \A i \in DOMAIN ages : ages[i] + 1 < w => i \in 1..n
  BY <1>2, <1>5
<1>. QED BY <1>1, <1>5, <1>7, <1>8, <1>9, <1>10, <1>11

-----------------------------------------------------------------------------
(* The flap limiter's bucket.                                              *)

\* A trip blocks for a tick at least, so a window has one trip a tick.
FlapIs(f) ==
  /\ f \in FlapBucket /\ Len(f.hits) <= FlapMax /\ Sorted(f.hits)
  /\ f.trips <= f.since + 1
  /\ (f.blocked = 0 \/ f.since > FlapWindow) => f.trips <= f.since

LEMMA NoFlapsIs == FlapIs(NoFlaps)
<1>1. PICK f : f = NoFlaps
  OBVIOUS
<1>2. /\ f.hits = <<>> /\ f.blocked = 0 /\ f.locked = 0 /\ f.trips = 0 /\ f.since = 0 /\ f.idle = 0
      /\ f = [hits |-> <<>>, blocked |-> 0, locked |-> 0, trips |-> 0, since |-> 0, idle |-> 0]
  BY <1>1 DEF NoFlaps
<1>3. <<>> \in Seq(0..FlapWindow - 1) /\ Len(<<>>) = 0 /\ DOMAIN <<>> = {}
  OBVIOUS
<1>4. f \in FlapBucket
  BY <1>2, <1>3, AdmissionAssumption DEF FlapBucket, Limits
<1>. QED BY <1>1, <1>2, <1>3, <1>4, AdmissionAssumption DEF FlapIs, Sorted, Limits

LEMMA FlapFields ==
  ASSUME NEW f \in FlapBucket
  PROVE  /\ f.hits \in Seq(0..FlapWindow - 1) /\ f.blocked \in 0..Cooldown
         /\ f.locked \in 0..Quarantine /\ f.trips \in 0..FlapWindow + 2
         /\ f.since \in 0..FlapWindow + 1 /\ f.idle \in 0..FlapIdle + 1
BY DEF FlapBucket

\* Whatever a knock does, a bucket stays a bucket, and a paired display is not
\* locked out afterwards.
LEMMA FlapOnKnock ==
  ASSUME FlapIs(flap), NEW paired \in BOOLEAN
  PROVE  /\ FlapIs(Knocked(paired))
         /\ paired => Knocked(paired).locked = 0
<1>0. /\ FlapWindow \in Nat \ {0} /\ FlapMax \in Nat \ {0} /\ Cooldown \in Nat \ {0}
      /\ Quarantine \in Nat \ {0} /\ FlapIdle \in Nat \ {0}
  BY AdmissionAssumption DEF Limits
<1>1. PICK s : s = Seen(paired)
  OBVIOUS
<1>2. /\ flap \in FlapBucket
      /\ flap.hits \in Seq(0..FlapWindow - 1) /\ flap.blocked \in 0..Cooldown
      /\ flap.locked \in 0..Quarantine /\ flap.trips \in 0..FlapWindow + 2
      /\ flap.since \in 0..FlapWindow + 1 /\ flap.idle \in 0..FlapIdle + 1
  BY FlapFields DEF FlapIs
<1>3. /\ s \in FlapBucket /\ s.hits = flap.hits /\ s.blocked = flap.blocked
      /\ s.since = flap.since
      /\ \/ s.trips = flap.trips /\ s.locked = flap.locked
         \/ s.trips = 0 /\ s.locked = 0
      /\ paired => s.locked = 0
  <2>0. 0 \in 0..Quarantine /\ 0 \in 0..FlapWindow + 2 /\ 0 \in 0..FlapIdle + 1
    BY <1>0
  <2>1. CASE flap.locked > 0 /\ paired
    <3>1. s = [flap EXCEPT !.idle = 0, !.locked = 0, !.trips = 0]
      BY <1>1, <2>1 DEF Seen
    <3>2. /\ s \in FlapBucket /\ s.hits = flap.hits /\ s.blocked = flap.blocked
          /\ s.since = flap.since /\ s.trips = 0 /\ s.locked = 0
      BY <1>2, <2>0, <3>1 DEF FlapBucket
    <3>. QED BY <3>2
  <2>2. CASE ~ (flap.locked > 0 /\ paired)
    <3>1. s = [flap EXCEPT !.idle = 0]
      BY <1>1, <2>2 DEF Seen
    <3>2. /\ s \in FlapBucket /\ s.hits = flap.hits /\ s.blocked = flap.blocked
          /\ s.since = flap.since /\ s.trips = flap.trips /\ s.locked = flap.locked
      BY <1>2, <2>0, <3>1 DEF FlapBucket
    <3>3. paired => flap.locked = 0
      BY <1>0, <1>2, <2>2
    <3>. QED BY <3>2, <3>3
  <2>. QED BY <2>1, <2>2
<1>4. FlapIs(s)
  BY <1>0, <1>2, <1>3 DEF FlapIs
<1>5. s.hits \in Seq(0..FlapWindow - 1) /\ Sorted(s.hits) /\ Len(s.hits) \in Nat
  BY <1>2, <1>3, LenProperties DEF FlapIs
<1>6. CASE Cooling(paired)
  BY <1>1, <1>3, <1>4, <1>6 DEF Knocked
<1>7. CASE ~ Cooling(paired) /\ Flaps
  <2>1. s.locked = 0 /\ s.blocked = 0 /\ s.trips <= s.since
    BY <1>1, <1>2, <1>3, <1>4, <1>7 DEF Cooling, FlapIs, FlapBucket
  <2>2. PICK f : f = Tripped(paired)
    OBVIOUS
  <2>3. f = [s EXCEPT !.hits = <<>>, !.blocked = Cooldown, !.trips = Trips(paired),
                      !.since = IF s.since > FlapWindow THEN 0 ELSE s.since,
                      !.locked = IF ~ Exempt(paired) /\ Trips(paired) >= MaxTrips
                                   THEN Quarantine ELSE s.locked]
    BY <1>1, <2>2 DEF Tripped
  <2>4. Trips(paired) = IF s.since > FlapWindow THEN 1 ELSE s.trips + 1
    BY <1>1, <1>3 DEF Trips
  <2>5. <<>> \in Seq(0..FlapWindow - 1) /\ Len(<<>>) = 0 /\ DOMAIN <<>> = {}
    OBVIOUS
  <2>6. s.trips \in Nat /\ s.since \in 0..FlapWindow + 1
    BY <1>2, <1>3
  <2>7. Trips(paired) \in 0..FlapWindow + 2
    BY <1>0, <2>1, <2>4, <2>6
  <2>10. PICK z, t, n, l :
           /\ z = <<>> /\ t = Trips(paired)
           /\ n = IF s.since > FlapWindow THEN 0 ELSE s.since
           /\ l = IF ~ Exempt(paired) /\ Trips(paired) >= MaxTrips
                    THEN Quarantine ELSE s.locked
    OBVIOUS
  <2>11. /\ z \in Seq(0..FlapWindow - 1) /\ t \in 0..FlapWindow + 2 /\ n \in 0..FlapWindow + 1
         /\ l \in 0..Quarantine /\ Cooldown \in 0..Cooldown
    BY <1>0, <2>1, <2>5, <2>6, <2>7, <2>10
  <2>12. f = [s EXCEPT !.hits = z, !.blocked = Cooldown, !.trips = t, !.since = n, !.locked = l]
    BY <2>3, <2>10
  <2>13. /\ f \in FlapBucket /\ f.hits = z /\ f.blocked = Cooldown /\ f.trips = t
         /\ f.since = n /\ f.locked = l
    BY <1>3, <2>11, <2>12 DEF FlapBucket
  <2>14. paired => l = 0
    BY <2>1, <2>10 DEF Exempt
  <2>8. /\ f.hits = <<>> /\ f.blocked = Cooldown /\ f.trips = Trips(paired)
        /\ f.since = (IF s.since > FlapWindow THEN 0 ELSE s.since)
        /\ paired => f.locked = 0
        /\ f \in FlapBucket
    BY <2>10, <2>13, <2>14
  <2>9. FlapIs(f)
    BY <1>0, <2>1, <2>4, <2>5, <2>6, <2>8 DEF FlapIs, Sorted
  <2>. QED BY <1>7, <2>2, <2>8, <2>9 DEF Knocked
<1>8. CASE ~ Cooling(paired) /\ ~ Flaps
  <2>1. PICK p : p = Pushed(s.hits)
    OBVIOUS
  <2>2. p \in Seq(0..FlapWindow - 1) /\ Sorted(p) /\ Len(p) = Len(s.hits) + 1
    BY <1>0, <1>5, <2>1, PushedIs
  <2>3. PICK f : f = [s EXCEPT !.hits = p]
    OBVIOUS
  <2>4. /\ f \in FlapBucket /\ f.hits = p /\ f.blocked = s.blocked /\ f.locked = s.locked
        /\ f.trips = s.trips /\ f.since = s.since
    BY <1>3, <2>2, <2>3 DEF FlapBucket
  <2>5. Len(p) <= FlapMax
    BY <1>0, <1>3, <1>5, <1>8, <2>2 DEF Flaps
  <2>6. FlapIs(f)
    BY <1>4, <2>2, <2>4, <2>5 DEF FlapIs
  <2>7. f = Knocked(paired)
    BY <1>1, <1>8, <2>1, <2>3 DEF Knocked
  <2>. QED BY <1>3, <2>4, <2>6, <2>7
<1>. QED BY <1>6, <1>7, <1>8

LEMMA FlapOnTick ==
  ASSUME FlapIs(flap), Tick
  PROVE  FlapIs(flap')
<1>0. FlapWindow \in Nat \ {0} /\ Cooldown \in Nat /\ Quarantine \in Nat /\ FlapIdle \in Nat
      /\ FlapMax \in Nat
  BY AdmissionAssumption DEF Limits
<1>1. /\ flap \in FlapBucket
      /\ flap.hits \in Seq(0..FlapWindow - 1) /\ flap.blocked \in 0..Cooldown
      /\ flap.locked \in 0..Quarantine /\ flap.trips \in 0..FlapWindow + 2
      /\ flap.since \in 0..FlapWindow + 1 /\ flap.idle \in 0..FlapIdle + 1
  BY FlapFields DEF FlapIs
<1>2. PICK h : h = Aged(flap.hits, FlapWindow)
  OBVIOUS
<1>3. h \in Seq(0..FlapWindow - 1) /\ Sorted(h) /\ Len(h) \in 0..Len(flap.hits) /\ Len(flap.hits) \in Nat
  BY <1>0, <1>1, <1>2, AgedIs DEF FlapIs
<1>4. flap' = [flap EXCEPT !.hits = h, !.blocked = Left(@), !.locked = Left(@),
                           !.since = Least(@ + 1, FlapWindow + 1),
                           !.idle = Least(@ + 1, FlapIdle + 1)]
  BY <1>2 DEF Tick
<1>10. /\ \A n \in Nat : \A x \in 0..n : Left(x) \in 0..n
       /\ \A n \in Nat : \A x \in 0..n :
            /\ Least(x + 1, n) \in 0..n /\ Least(x + 1, n) >= x
            /\ Least(x + 1, n) = x + 1 \/ x = n
  BY DEF Left, Least
<1>11. FlapWindow + 1 \in Nat /\ FlapIdle + 1 \in Nat
  BY <1>0
<1>12. PICK blocked, locked, since, idle :
         /\ blocked = Left(flap.blocked) /\ locked = Left(flap.locked)
         /\ since = Least(flap.since + 1, FlapWindow + 1)
         /\ idle = Least(flap.idle + 1, FlapIdle + 1)
  OBVIOUS
<1>13. blocked \in 0..Cooldown /\ locked \in 0..Quarantine /\ since \in 0..FlapWindow + 1
       /\ idle \in 0..FlapIdle + 1 /\ since >= flap.since
       /\ (since = flap.since + 1 \/ flap.since = FlapWindow + 1)
  BY <1>0, <1>1, <1>10, <1>11, <1>12
<1>5. flap' = [flap EXCEPT !.hits = h, !.blocked = blocked, !.locked = locked, !.since = since,
                           !.idle = idle]
  BY <1>4, <1>12
<1>6. PICK f : f = flap'
  OBVIOUS
<1>7. f \in FlapBucket /\ f.hits = h /\ f.trips = flap.trips /\ f.since = since
  BY <1>1, <1>3, <1>5, <1>6, <1>13 DEF FlapBucket
<1>8. Len(f.hits) <= FlapMax /\ Sorted(f.hits)
  BY <1>0, <1>3, <1>7 DEF FlapIs
<1>9. f.trips <= f.since /\ f.since \in Nat
  BY <1>0, <1>1, <1>7, <1>13 DEF FlapIs
<1>. QED BY <1>0, <1>1, <1>6, <1>7, <1>8, <1>9 DEF FlapIs

-----------------------------------------------------------------------------
(* The throttle's bucket.                                                  *)

\* A hit above the ceiling is a rejection, and a rejection blocks for a tick at
\* least: those hits are a tick apart.
Spread(ages) ==
  \A i, j \in DOMAIN ages : i < j /\ j + Ceiling <= Len(ages) => j - i <= ages[j] - ages[i]

GateIs(g) ==
  /\ g \in GateBucket /\ Sorted(g.hits) /\ Spread(g.hits)
  /\ Len(g.hits) > Ceiling /\ g.hits[1] = 0 => g.blocked > 0

\* The newest hits are no older than the newest admissions, one by one, and nobody
\* was let in since the bucket was last asked.
Covers(g, ages) ==
  /\ Len(ages) <= Len(g.hits)
  /\ \A k \in DOMAIN ages : g.hits[k] <= ages[k] /\ g.idle <= ages[k]

LEMMA GateFields ==
  ASSUME NEW g \in GateBucket
  PROVE  /\ g.hits \in Seq(0..Window - 1) /\ g.blocked \in 0..MaxBackoff
         /\ g.level \in 0..MaxLevel /\ g.calm \in 0..Release + 1 /\ g.idle \in 0..IdleReset + 1
         /\ Len(g.hits) \in Nat /\ DOMAIN g.hits = 1..Len(g.hits)
<1>1. /\ g.hits \in Seq(0..Window - 1) /\ g.blocked \in 0..MaxBackoff
      /\ g.level \in 0..MaxLevel /\ g.calm \in 0..Release + 1 /\ g.idle \in 0..IdleReset + 1
  BY DEF GateBucket
<1>. QED BY <1>1, LenProperties

LEMMA Positive ==
  /\ Window \in Nat \ {0} /\ BaseMax \in Nat \ {0} /\ Ceiling \in Nat \ {0}
                 /\ Backoff \in Nat \ {0} /\ MaxBackoff \in Nat \ {0} /\ MaxLevel \in Nat \ {0}
                 /\ Release \in Nat \ {0} /\ IdleReset \in Nat \ {0}
                 /\ Window <= MaxBackoff /\ MaxBackoff < IdleReset /\ BaseMax <= Ceiling
                 /\ Bands \subseteq Nat \ {0}
BY AdmissionAssumption DEF Limits

\* So no more of them fit in a window than it has ticks.
LEMMA FewHits ==
  ASSUME NEW g, GateIs(g)
  PROVE  Len(g.hits) <= Ceiling + Window
<1>1. /\ Window \in Nat \ {0} /\ Ceiling \in Nat \ {0} /\ Len(g.hits) \in Nat
      /\ DOMAIN g.hits = 1..Len(g.hits)
      /\ \A i \in 1..Len(g.hits) : g.hits[i] \in 0..Window - 1
  BY Positive, GateFields, ElementOfSeq DEF GateIs
<1>2. PICK n \in Nat : n = Len(g.hits)
  BY <1>1
<1>3. SUFFICES ASSUME n > Ceiling + Window PROVE FALSE
  BY <1>1, <1>2
<1>4. \E j \in Nat : j \in 1..n /\ 1 \in 1..n /\ 1 < j /\ j + Ceiling <= n /\ j - 1 >= Window
  <2>1. /\ n - Ceiling \in 1..n /\ 1 \in 1..n /\ 1 < n - Ceiling /\ (n - Ceiling) + Ceiling <= n
        /\ n - Ceiling - 1 >= Window /\ n - Ceiling \in Nat
    BY <1>1, <1>3
  <2>. QED BY <2>1
<1>5. PICK j \in Nat : j \in 1..n /\ 1 \in 1..n /\ 1 < j /\ j + Ceiling <= n /\ j - 1 >= Window
  BY <1>4
<1>6. j - 1 <= g.hits[j] - g.hits[1]
  BY <1>1, <1>2, <1>5 DEF GateIs, Spread
<1>7. PICK x, y \in 0..Window - 1 : x = g.hits[j] /\ y = g.hits[1]
  BY <1>1, <1>2, <1>5
<1>. QED BY <1>1, <1>5, <1>6, <1>7

LEMMA NoHitsIs ==
  GateIs(NoHits) /\ Covers(NoHits, <<>>) /\ NoHits.blocked = 0
<1>1. PICK g : g = NoHits
  OBVIOUS
<1>2. /\ g = [hits |-> <<>>, blocked |-> 0, level |-> 0, calm |-> 0, idle |-> 0]
      /\ g.hits = <<>> /\ g.blocked = 0
  BY <1>1 DEF NoHits
<1>3. <<>> \in Seq(0..Window - 1) /\ Len(<<>>) = 0 /\ DOMAIN <<>> = {}
  OBVIOUS
<1>4. /\ 0 \in 0..MaxBackoff /\ 0 \in 0..MaxLevel /\ 0 \in 0..Release + 1 /\ 0 \in 0..IdleReset + 1
      /\ ~ (0 > Ceiling)
  BY Positive
<1>5. g \in GateBucket
  BY <1>2, <1>3, <1>4 DEF GateBucket
<1>6. Sorted(g.hits) /\ Spread(g.hits) /\ ~ (Len(g.hits) > Ceiling)
  BY <1>2, <1>3, <1>4 DEF Sorted, Spread
<1>7. Covers(g, <<>>)
  BY <1>2, <1>3 DEF Covers
<1>. QED BY <1>1, <1>2, <1>5, <1>6, <1>7 DEF GateIs

\* Who was let in is in the window, and a bucket that is forgotten has been idle
\* for longer.
LEMMA NobodyIsForgotten ==
  ASSUME GateIs(gate), admitted \in Seq(0..Window - 1), Covers(gate, admitted),
         gate.idle > IdleReset
  PROVE  admitted = <<>>
<1>1. Len(admitted) \in Nat /\ DOMAIN admitted = 1..Len(admitted)
      /\ \A k \in 1..Len(admitted) : admitted[k] \in 0..Window - 1
  BY LenProperties, ElementOfSeq
<1>2. gate.idle \in 0..IdleReset + 1
  BY GateFields DEF GateIs
<1>3. ASSUME NEW k \in 1..Len(admitted) PROVE FALSE
  <2>1. gate.idle <= admitted[k] /\ admitted[k] \in 0..Window - 1
    BY <1>1, <1>3 DEF Covers
  <2>. QED BY <1>2, <2>1, Positive
<1>4. Len(admitted) = 0
  BY <1>1, <1>3
<1>. QED BY <1>4, EmptySeq

\* Forgetting an idle bucket forgets nobody who was let in.
LEMMA KnownIs ==
  ASSUME GateIs(gate), admitted \in Seq(0..Window - 1), Covers(gate, admitted)
  PROVE  GateIs(Known) /\ Covers(Known, admitted) /\ Known.idle = 0
<1>1. CASE gate.idle > IdleReset
  <2>1. admitted = <<>> /\ Known = NoHits
    BY <1>1, NobodyIsForgotten DEF Known
  <2>. QED BY <2>1, NoHitsIs DEF NoHits
<1>2. CASE ~ (gate.idle > IdleReset)
  <2>1. PICK g : g = Known
    OBVIOUS
  <2>2. g = [gate EXCEPT !.idle = 0] /\ gate \in GateBucket /\ 0 \in 0..IdleReset + 1
    BY <1>2, <2>1, Positive DEF Known, GateIs
  <2>3. g \in GateBucket /\ g.hits = gate.hits /\ g.blocked = gate.blocked /\ g.idle = 0
    BY <2>2 DEF GateBucket
  <2>4. \A k \in DOMAIN admitted : 0 <= admitted[k]
    BY LenProperties, ElementOfSeq, Positive
  <2>. QED BY <2>1, <2>3, <2>4 DEF GateIs, Covers
<1>. QED BY <1>1, <1>2

\* With no backoff left the newest hit is not of this tick, so one more keeps the
\* hits above the ceiling a tick apart.
LEMMA HitIs ==
  ASSUME GateIs(gate), admitted \in Seq(0..Window - 1), Sorted(admitted),
         Covers(gate, admitted), Known.blocked = 0
  PROVE  /\ Hit \in GateBucket /\ Sorted(Hit.hits) /\ Spread(Hit.hits)
         /\ Covers(Hit, admitted) /\ Covers(Hit, Pushed(admitted))
<1>1. PICK g : g = Known
  OBVIOUS
<1>2. GateIs(g) /\ Covers(g, admitted) /\ g.idle = 0 /\ g.blocked = 0 /\ g \in GateBucket
  BY <1>1, KnownIs DEF GateIs
<1>3. PICK o : o = g.hits
  OBVIOUS
<1>4. /\ o \in Seq(0..Window - 1) /\ Sorted(o) /\ Spread(o) /\ Len(o) \in Nat /\ DOMAIN o = 1..Len(o)
      /\ \A i \in 1..Len(o) : o[i] \in 0..Window - 1
      /\ Len(o) > Ceiling => o[1] # 0
  <2>1. o \in Seq(0..Window - 1) /\ Len(o) \in Nat /\ DOMAIN o = 1..Len(o)
    BY <1>2, <1>3, GateFields
  <2>2. \A i \in 1..Len(o) : o[i] \in 0..Window - 1
    BY <2>1, ElementOfSeq
  <2>3. Sorted(o) /\ Spread(o)
    BY <1>2, <1>3 DEF GateIs
  <2>4. Len(o) > Ceiling => o[1] # 0
    BY <1>2, <1>3 DEF GateIs
  <2>. QED BY <2>1, <2>2, <2>3, <2>4
<1>5. PICK p : p = Pushed(o)
  OBVIOUS
<1>6. /\ p \in Seq(0..Window - 1) /\ Sorted(p) /\ Len(p) = Len(o) + 1 /\ DOMAIN p = 1..(Len(o) + 1)
      /\ p[1] = 0 /\ \A i \in 1..(Len(o) + 1) : i = 1 \/ (i - 1 \in 1..Len(o) /\ p[i] = o[i - 1])
  <2>1. PICK w \in Nat \ {0} : w = Window
    BY Positive
  <2>2. o \in Seq(0..w - 1) /\ Sorted(o)
    BY <1>4, <2>1
  <2>. QED BY <1>5, <2>1, <2>2, PushedIs
<1>7. Spread(p)
  <2>1. SUFFICES ASSUME NEW i \in 1..(Len(o) + 1), NEW j \in 1..(Len(o) + 1), i < j,
                        j + Ceiling <= Len(o) + 1
                 PROVE  j - i <= p[j] - p[i]
    BY <1>6 DEF Spread
  <2>2. PICK m \in 1..Len(o) : m = j - 1 /\ p[j] = o[m]
    BY <1>4, <1>6, <2>1
  <2>0. Ceiling \in Nat \ {0} /\ Len(o) \in Nat
    BY <1>4, Positive
  <2>3. m + Ceiling <= Len(o) /\ o[m] \in 0..Window - 1
    BY <1>4, <2>0, <2>1, <2>2
  <2>4. CASE i # 1
    <3>1. PICK k \in 1..Len(o) : k = i - 1 /\ p[i] = o[k]
      BY <1>4, <1>6, <2>1, <2>4
    <3>2. k < m
      BY <1>4, <2>1, <2>2, <3>1
    <3>3. m - k <= o[m] - o[k]
      BY <1>4, <2>3, <3>2 DEF Spread
    <3>4. m - k = j - i
      BY <1>4, <2>1, <2>2, <3>1
    <3>. QED BY <2>2, <3>1, <3>3, <3>4
  <2>5. CASE i = 1
    <3>1. 1 \in 1..Len(o) /\ Len(o) > Ceiling
      BY <2>0, <2>2, <2>3
    <3>6. p[i] = 0 /\ j - i = m /\ m \in Nat
      BY <1>6, <2>0, <2>1, <2>2, <2>5
    <3>2. PICK x \in 0..Window - 1 : x = o[1] /\ x # 0
      BY <1>4, <3>1
    <3>3. m = 1 \/ 1 < m
      BY <1>4, <2>2
    <3>4. CASE m = 1
      BY <2>2, <3>2, <3>4, <3>6
    <3>5. CASE 1 < m
      <4>1. m - 1 <= o[m] - o[1]
        BY <1>4, <2>3, <3>1, <3>5 DEF Spread
      <4>2. PICK y \in 0..Window - 1 : y = o[m]
        BY <2>3
      <4>3. m - 1 <= y - x /\ x \in Nat \ {0} /\ y \in Nat
        BY <3>2, <4>1, <4>2
      <4>4. m <= y
        BY <3>6, <4>3
      <4>. QED BY <2>2, <3>6, <4>2, <4>3, <4>4
    <3>. QED BY <3>3, <3>4, <3>5
  <2>. QED BY <2>4, <2>5
<1>8. PICK h : h = Hit
  OBVIOUS
<1>9. h = [g EXCEPT !.hits = p]
  BY <1>1, <1>3, <1>5, <1>8 DEF Hit
<1>10. h \in GateBucket /\ h.hits = p /\ h.idle = 0
  BY <1>2, <1>6, <1>9 DEF GateBucket
<1>11. /\ Len(admitted) \in Nat /\ DOMAIN admitted = 1..Len(admitted)
       /\ \A i \in 1..Len(admitted) : admitted[i] \in 0..Window - 1
       /\ Len(admitted) <= Len(o) /\ \A i \in 1..Len(admitted) : o[i] <= admitted[i]
  BY <1>2, <1>3, LenProperties, ElementOfSeq DEF Covers
<1>12. Covers(h, admitted)
  <2>1. ASSUME NEW i \in 1..Len(admitted) PROVE p[i] <= admitted[i] /\ 0 <= admitted[i]
    <3>1. i \in 1..Len(o) /\ i \in 1..(Len(o) + 1) /\ o[i] \in 0..Window - 1 /\ o[i] <= admitted[i]
          /\ admitted[i] \in 0..Window - 1
      BY <1>4, <1>11, <2>1
    <3>2. CASE i = 1
      BY <1>6, <3>1, <3>2, Positive
    <3>3. CASE i # 1
      <4>1. i - 1 \in 1..Len(o) /\ p[i] = o[i - 1] /\ i - 1 < i
        BY <1>6, <3>1, <3>3
      <4>2. PICK m \in 1..Len(o) : m = i - 1 /\ p[i] = o[m]
        BY <4>1
      <4>3. m \in DOMAIN o /\ i \in DOMAIN o /\ m < i
        BY <1>4, <3>1, <4>2
      <4>4. o[m] <= o[i] /\ o[m] \in 0..Window - 1
        BY <1>4, <4>2, <4>3 DEF Sorted
      <4>5. PICK x, y, z \in 0..Window - 1 : x = o[m] /\ y = o[i] /\ z = admitted[i]
        BY <3>1, <4>4
      <4>6. x \in Nat /\ y \in Nat /\ z \in Nat /\ x <= y /\ y <= z
        BY <3>1, <4>4, <4>5
      <4>. QED BY <4>2, <4>5, <4>6
    <3>. QED BY <3>2, <3>3
  <2>2. Len(admitted) <= Len(p)
    BY <1>4, <1>6, <1>11
  <2>. QED BY <1>10, <1>11, <2>1, <2>2 DEF Covers
<1>13. PICK q : q = Pushed(admitted)
  OBVIOUS
<1>14. /\ Len(q) = Len(admitted) + 1 /\ DOMAIN q = 1..(Len(admitted) + 1) /\ q[1] = 0
       /\ \A i \in 1..(Len(admitted) + 1) :
            i = 1 \/ (i - 1 \in 1..Len(admitted) /\ q[i] = admitted[i - 1])
  BY <1>13, Positive, PushedIs
<1>15. Covers(h, q)
  <2>1. ASSUME NEW i \in 1..(Len(admitted) + 1) PROVE p[i] <= q[i] /\ 0 <= q[i]
    <3>1. CASE i = 1
      BY <1>6, <1>14, <3>1
    <3>2. CASE i # 1
      <4>1. i - 1 \in 1..Len(admitted) /\ q[i] = admitted[i - 1]
        BY <1>14, <2>1, <3>2
      <4>2. i \in 1..(Len(o) + 1) /\ p[i] = o[i - 1]
        BY <1>4, <1>6, <1>11, <2>1, <3>2
      <4>3. o[i - 1] <= admitted[i - 1] /\ admitted[i - 1] \in 0..Window - 1
        BY <1>11, <4>1
      <4>. QED BY <4>1, <4>2, <4>3, Positive
    <3>. QED BY <3>1, <3>2
  <2>2. Len(q) <= Len(p)
    BY <1>4, <1>6, <1>11, <1>14
  <2>. QED BY <1>10, <1>14, <2>1, <2>2 DEF Covers
<1>. QED BY <1>6, <1>7, <1>8, <1>10, <1>12, <1>13, <1>15

\* A rejection blocks for a tick at least.
LEMMA RejectedIs ==
  ASSUME GateIs(gate), admitted \in Seq(0..Window - 1), Sorted(admitted),
         Covers(gate, admitted), Known.blocked = 0, warm \in Nat, band \in Bands
  PROVE  GateIs(Rejected) /\ Covers(Rejected, admitted)
<1>1. PICK h : h = Hit
  OBVIOUS
<1>2. h \in GateBucket /\ Sorted(h.hits) /\ Spread(h.hits) /\ Covers(h, admitted)
  BY <1>1, HitIs
<1>3. PICK level, load : /\ level = Least(h.level + 1, MaxLevel)
                         /\ load = IF warm > 0 THEN 1 ELSE band
  OBVIOUS
<1>4. level \in 1..MaxLevel /\ level \in 0..MaxLevel
  <2>1. h.level \in 0..MaxLevel /\ MaxLevel \in Nat \ {0}
    BY <1>2, GateFields, Positive
  <2>. QED BY <1>3, <2>1 DEF Least
<1>5. load \in Nat \ {0}
  BY <1>3, Positive
<1>6. PICK d \in Nat \ {0} : d = Doubled[level]
  BY <1>4, DoubledType
<1>7. \A x, y \in Nat \ {0} : x * y \in Nat \ {0}
  OBVIOUS
<1>8. Backoff * d * load \in Nat \ {0}
  BY <1>5, <1>7, Positive
<1>9. PICK blocked : blocked = Least(Backoff * d * load, MaxBackoff)
  OBVIOUS
<1>10. blocked \in 0..MaxBackoff /\ blocked > 0
  BY <1>8, <1>9, Positive DEF Least
<1>11. PICK r : r = Rejected
  OBVIOUS
<1>12. r = [h EXCEPT !.level = level, !.calm = 0, !.blocked = blocked]
  BY <1>1, <1>3, <1>6, <1>9, <1>11 DEF Rejected
<1>13. 0 \in 0..Release + 1
  BY Positive
<1>14. r \in GateBucket /\ r.hits = h.hits /\ r.idle = h.idle /\ r.blocked = blocked
  BY <1>2, <1>4, <1>10, <1>12, <1>13 DEF GateBucket
<1>. QED BY <1>2, <1>10, <1>11, <1>14 DEF GateIs, Covers

\* Below the ceiling the hits cover one admission more.
LEMMA AllowedIs ==
  ASSUME GateIs(gate), admitted \in Seq(0..Window - 1), Sorted(admitted),
         Covers(gate, admitted), Known.blocked = 0, ~ Storms
  PROVE  /\ GateIs(Allowed) /\ Covers(Allowed, Pushed(admitted))
         /\ Len(Pushed(admitted)) <= Ceiling
<1>1. PICK h : h = Hit
  OBVIOUS
<1>2. /\ h \in GateBucket /\ Sorted(h.hits) /\ Spread(h.hits)
      /\ Covers(h, Pushed(admitted))
  BY <1>1, HitIs
<1>3. Len(h.hits) \in Nat /\ h.level \in 0..MaxLevel
  BY <1>2, GateFields
<1>4. Len(h.hits) <= Ceiling
  BY <1>1, <1>3, Positive DEF Storms
<1>5. PICK a : a = Allowed
  OBVIOUS
<1>6. a \in GateBucket /\ a.hits = h.hits /\ a.idle = h.idle
  <2>1. CASE h.level > 0 /\ h.calm > Release
    <3>1. a = [h EXCEPT !.level = h.level - 1, !.calm = 0]
      BY <1>1, <1>5, <2>1 DEF Allowed
    <3>2. h.level - 1 \in 0..MaxLevel /\ 0 \in 0..Release + 1
      BY <1>3, <2>1, Positive
    <3>. QED BY <1>2, <3>1, <3>2 DEF GateBucket
  <2>2. CASE ~ (h.level > 0 /\ h.calm > Release)
    <3>1. a = h
      BY <1>1, <1>5, <2>2 DEF Allowed
    <3>. QED BY <1>2, <3>1
  <2>. QED BY <2>1, <2>2
<1>7. Len(Pushed(admitted)) = Len(admitted) + 1 /\ Len(admitted) \in Nat
  BY Positive, PushedIs
<1>8. Len(Pushed(admitted)) <= Ceiling
  BY <1>2, <1>3, <1>4, <1>7, Positive DEF Covers
<1>9. ~ (Len(a.hits) > Ceiling)
  BY <1>3, <1>4, <1>6, Positive
<1>. QED BY <1>2, <1>5, <1>6, <1>8, <1>9 DEF GateIs, Covers

\* Hits and admissions age together, and leave the window together.
LEMMA GateOnTick ==
  ASSUME GateIs(gate), admitted \in Seq(0..Window - 1), Sorted(admitted),
         Covers(gate, admitted), Len(admitted) <= Ceiling, Tick
  PROVE  /\ GateIs(gate') /\ admitted' \in Seq(0..Window - 1) /\ Sorted(admitted')
         /\ Covers(gate', admitted') /\ Len(admitted') <= Ceiling
<1>0. PICK w \in Nat \ {0} : w = Window
  BY Positive
<1>1. /\ gate \in GateBucket /\ gate.hits \in Seq(0..w - 1) /\ gate.blocked \in 0..MaxBackoff
      /\ gate.level \in 0..MaxLevel /\ gate.calm \in 0..Release + 1 /\ gate.idle \in 0..IdleReset + 1
      /\ Sorted(gate.hits) /\ Spread(gate.hits)
  BY <1>0, GateFields DEF GateIs
<1>2. PICK o, h : o = gate.hits /\ h = Aged(gate.hits, w)
  OBVIOUS
<1>3. /\ h \in Seq(0..w - 1) /\ Sorted(h) /\ Len(h) \in 0..Len(o) /\ Len(o) \in Nat
      /\ DOMAIN h = 1..Len(h) /\ DOMAIN o = 1..Len(o)
      /\ \A i \in DOMAIN h : i \in DOMAIN o /\ h[i] = o[i] + 1
      /\ \A i \in DOMAIN o : o[i] + 1 < w => i \in DOMAIN h
  BY <1>1, <1>2, AgedIs
<1>4. \A i \in 1..Len(o) : o[i] \in 0..w - 1
  BY <1>1, <1>2, ElementOfSeq
<1>5. PICK a, b : a = admitted /\ b = Aged(admitted, w)
  OBVIOUS
<1>6. a \in Seq(0..w - 1) /\ Sorted(a)
  BY <1>0, <1>5
<1>7. /\ b \in Seq(0..w - 1) /\ Sorted(b) /\ Len(b) \in 0..Len(a) /\ Len(a) \in Nat
      /\ DOMAIN b = 1..Len(b) /\ DOMAIN a = 1..Len(a)
      /\ \A i \in DOMAIN b : i \in DOMAIN a /\ b[i] = a[i] + 1
  BY <1>5, <1>6, AgedIs
<1>8. \A i \in 1..Len(b) : b[i] \in 0..w - 1
  BY <1>7, ElementOfSeq
<1>9. PICK blocked, calm, idle :
        /\ blocked = Left(gate.blocked) /\ calm = Least(gate.calm + 1, Release + 1)
        /\ idle = Least(gate.idle + 1, IdleReset + 1)
  OBVIOUS
<1>10. blocked \in 0..MaxBackoff
  <2>1. \A n \in Nat : \A x \in 0..n : Left(x) \in 0..n
    BY DEF Left
  <2>. QED BY <1>1, <1>9, <2>1, Positive
<1>22. \A n \in Nat : \A x \in 0..n :
         Least(x + 1, n) \in 0..n /\ Least(x + 1, n) <= x + 1
  BY DEF Least
<1>11. calm \in 0..Release + 1 /\ idle \in 0..IdleReset + 1 /\ idle <= gate.idle + 1
  <2>1. Release + 1 \in Nat /\ IdleReset + 1 \in Nat
    BY Positive
  <2>. QED BY <1>1, <1>9, <1>22, <2>1
<1>12. PICK g : g = gate'
  OBVIOUS
<1>13. g = [gate EXCEPT !.hits = h, !.blocked = blocked, !.calm = calm, !.idle = idle]
  BY <1>0, <1>2, <1>9, <1>12 DEF Tick
<1>14. h \in Seq(0..Window - 1)
  BY <1>0, <1>3
<1>15. g \in GateBucket /\ g.hits = h /\ g.blocked = blocked /\ g.idle = idle
  BY <1>1, <1>10, <1>11, <1>13, <1>14 DEF GateBucket
<1>16. Spread(h)
  <2>1. SUFFICES ASSUME NEW i \in 1..Len(h), NEW j \in 1..Len(h), i < j, j + Ceiling <= Len(h)
                 PROVE  j - i <= h[j] - h[i]
    BY <1>3 DEF Spread
  <2>2. i \in DOMAIN o /\ j \in DOMAIN o /\ h[i] = o[i] + 1 /\ h[j] = o[j] + 1
    BY <1>3
  <2>3. Ceiling \in Nat /\ Len(h) \in Nat /\ Len(h) <= Len(o) /\ Len(o) \in Nat
    BY <1>3, Positive
  <2>4. j + Ceiling <= Len(o)
    BY <2>1, <2>3
  <2>5. j - i <= o[j] - o[i]
    BY <1>1, <1>2, <2>1, <2>2, <2>4 DEF Spread
  <2>6. PICK x, y \in Nat : x = o[i] /\ y = o[j]
    BY <1>3, <1>4, <2>2
  <2>. QED BY <2>2, <2>5, <2>6
<1>17. Len(h) > Ceiling => h[1] # 0
  <2>1. SUFFICES ASSUME Len(h) > Ceiling PROVE h[1] # 0
    OBVIOUS
  <2>2. 1 \in 1..Len(h)
    BY <1>3, <2>1, Positive
  <2>3. 1 \in 1..Len(o) /\ h[1] = o[1] + 1
    BY <1>3, <2>2
  <2>4. PICK x \in 0..w - 1 : x = o[1]
    BY <1>4, <2>3
  <2>. QED BY <2>3, <2>4
<1>18. GateIs(g)
  BY <1>3, <1>15, <1>16, <1>17 DEF GateIs
<1>19. Covers(g, b)
  <2>0. Len(a) <= Len(o) /\ \A k \in DOMAIN a : o[k] <= a[k] /\ gate.idle <= a[k]
    BY <1>2, <1>5 DEF Covers
  <2>1. ASSUME NEW k \in 1..Len(b) PROVE k \in 1..Len(h) /\ h[k] <= b[k] /\ idle <= b[k]
    <3>1. k \in 1..Len(a) /\ b[k] = a[k] + 1 /\ b[k] \in 0..w - 1
      BY <1>7, <1>8, <2>1
    <3>2. k \in 1..Len(o)
      BY <1>3, <1>7, <2>0, <3>1
    <3>3. o[k] <= a[k] /\ gate.idle <= a[k]
      BY <1>7, <2>0, <3>1
    <3>4. a[k] \in 0..w - 1
      BY <1>6, <1>7, <3>1, ElementOfSeq
    <3>5. PICK x, y, z \in Nat : x = o[k] /\ y = a[k] /\ z = gate.idle
      BY <1>1, <1>4, <3>2, <3>4
    <3>6. o[k] + 1 < w
      BY <3>1, <3>3, <3>5
    <3>7. k \in 1..Len(h) /\ h[k] = o[k] + 1
      BY <1>3, <3>2, <3>6
    <3>8. idle <= z + 1 /\ idle \in Nat /\ x <= y /\ z <= y
      BY <1>11, <3>3, <3>5, Positive
    <3>. QED BY <3>1, <3>5, <3>7, <3>8
  <2>2. Len(b) <= Len(h)
    <3>1. CASE Len(b) = 0
      BY <1>3, <3>1
    <3>2. CASE Len(b) # 0
      <4>1. Len(b) \in 1..Len(b)
        BY <1>7, <3>2
      <4>2. Len(b) \in 1..Len(h)
        BY <2>1, <4>1
      <4>. QED BY <1>3, <4>2
    <3>. QED BY <3>1, <3>2
  <2>. QED BY <1>7, <1>15, <2>1, <2>2 DEF Covers
<1>20. admitted' = b
  BY <1>0, <1>5 DEF Tick
<1>21. Len(b) <= Ceiling
  BY <1>5, <1>7, Positive
<1>. QED BY <1>0, <1>7, <1>12, <1>18, <1>19, <1>20, <1>21

-----------------------------------------------------------------------------
(* The invariant.                                                          *)

\* The state around the buckets: what the types say.
World ==
  /\ warm \in 0..Warmup /\ band \in Bands
  /\ deferral \in [on: BOOLEAN, age: 0..Valve, drain: 0..2]
  /\ token \in BOOLEAN /\ inside \in BOOLEAN

Buckets ==
  /\ FlapIs(flap) /\ GateIs(gate)
  /\ admitted \in Seq(0..Window - 1) /\ Sorted(admitted) /\ Covers(gate, admitted)
  /\ CeilingHolds

\* A display that is in was asked to wait for nothing.
Waits == told \in Nat /\ (inside => told = 0) /\ PairedIsNotLockedOut

GateInv == World /\ Buckets /\ Waits

LEMMA HeldOff ==
  ASSUME NEW held \in BOOLEAN
  PROVE  Booted(held) \in [on: BOOLEAN, age: 0..Valve, drain: 0..2]
<1>1. PICK d \in 0..2 : d = IF held THEN 1 ELSE 0
  OBVIOUS
<1>2. 0 \in 0..Valve
  BY AdmissionAssumption DEF Limits
<1>3. Booted(held) = [on |-> held, age |-> 0, drain |-> d]
  BY <1>1 DEF Booted
<1>. QED BY <1>2, <1>3

LEMMA GateStarts == ASSUME GateInit PROVE GateInv
<1>1. Warmup \in Nat \ {0} /\ Valve \in Nat \ {0} /\ Cooldown \in Nat \ {0} /\ 1 \in Bands
  BY AdmissionAssumption DEF Limits
<1>2. World
  <2>1. \A held \in BOOLEAN : Booted(held) \in [on: BOOLEAN, age: 0..Valve, drain: 0..2]
    BY HeldOff
  <2>2. deferral \in [on: BOOLEAN, age: 0..Valve, drain: 0..2]
    BY <2>1 DEF GateInit
  <2>3. warm \in 0..Warmup
    BY <1>1 DEF GateInit
  <2>4. band \in Bands /\ token \in BOOLEAN /\ inside \in BOOLEAN
    BY <1>1 DEF GateInit
  <2>. QED BY <2>2, <2>3, <2>4 DEF World
<1>3. <<>> \in Seq(0..Window - 1) /\ Len(<<>>) = 0 /\ DOMAIN <<>> = {}
  OBVIOUS
<1>4. Buckets
  <2>1. flap = NoFlaps /\ gate = NoHits /\ admitted = <<>>
    BY DEF GateInit
  <2>. QED BY <1>3, <2>1, NoFlapsIs, NoHitsIs, Positive DEF Buckets, Sorted, CeilingHolds
<1>5. Waits
  BY <1>1 DEF GateInit, Waits, PairedIsNotLockedOut
<1>. QED BY <1>2, <1>4, <1>5 DEF GateInv

LEMMA GateTyped == ASSUME GateInv PROVE GatesTypeOK
<1>1. flap \in FlapBucket /\ Len(flap.hits) <= FlapMax
  BY DEF GateInv, Buckets, FlapIs
<1>2. gate \in GateBucket /\ Len(gate.hits) <= Ceiling + Window
  BY FewHits DEF GateInv, Buckets, GateIs
<1>. QED BY <1>1, <1>2 DEF GateInv, World, Buckets, Waits, GatesTypeOK

\* A knock of any display leaves the state around the buckets typed.
LEMMA WorldOnKnock ==
  ASSUME World, NEW paired \in BOOLEAN, Knock(paired), inside' \in BOOLEAN
  PROVE  World'
<1>1. Read \in [on: BOOLEAN, age: 0..Valve, drain: 0..2]
  BY DEF World, Read, Lifted
<1>. QED BY <1>1 DEF World, Knock

LEMMA BucketsStay ==
  ASSUME Buckets, UNCHANGED <<flap, gate, admitted>>
  PROVE  Buckets'
BY DEF Buckets, CeilingHolds

LEMMA FlapMoves ==
  ASSUME Buckets, NEW paired \in BOOLEAN, Knock(paired),
         UNCHANGED <<gate, admitted>>
  PROVE  Buckets' /\ flap'.blocked \in 0..Cooldown /\ flap'.locked \in 0..Quarantine
         /\ (paired => flap'.locked = 0)
<1>1. PICK f : f = Knocked(paired)
  OBVIOUS
<1>2. FlapIs(f) /\ (paired => f.locked = 0)
  BY <1>1, FlapOnKnock DEF Buckets
<1>3. flap' = f
  BY <1>1 DEF Knock
<1>4. f.blocked \in 0..Cooldown /\ f.locked \in 0..Quarantine
  BY <1>2, FlapFields DEF FlapIs
<1>. QED BY <1>2, <1>3, <1>4 DEF Buckets, CeilingHolds

LEMMA GateMoves ==
  ASSUME Buckets, NEW paired \in BOOLEAN, Knock(paired),
         NEW g, GateIs(g), gate' = g, NEW a, admitted' = a, a \in Seq(0..Window - 1), Sorted(a),
         Covers(g, a), Len(a) <= Ceiling
  PROVE  Buckets'
<1>1. PICK f : f = Knocked(paired)
  OBVIOUS
<1>2. FlapIs(f) /\ flap' = f
  BY <1>1, FlapOnKnock DEF Buckets, Knock
<1>. QED BY <1>2 DEF Buckets, CeilingHolds

LEMMA ConnectKeeps == ASSUME GateInv, Connect PROVE GateInv'
<1>0. /\ World /\ Buckets /\ Waits /\ token \in BOOLEAN /\ Cooldown \in Nat \ {0}
      /\ warm \in Nat /\ band \in Bands
      /\ GateIs(gate) /\ admitted \in Seq(0..Window - 1) /\ Sorted(admitted)
      /\ Covers(gate, admitted) /\ Len(admitted) <= Ceiling
  <2>1. Warmup \in Nat /\ Cooldown \in Nat \ {0}
    BY AdmissionAssumption DEF Limits
  <2>2. World /\ Buckets /\ Waits
    BY DEF GateInv
  <2>3. token \in BOOLEAN /\ warm \in Nat /\ band \in Bands
    BY <2>1, <2>2 DEF World
  <2>. QED BY <2>1, <2>2, <2>3 DEF Buckets, CeilingHolds
<1>1. CASE Defer
  <2>1. /\ told' = 1 /\ inside' = inside /\ ~ inside
        /\ UNCHANGED <<warm, band, deferral, flap, gate, token, inside, admitted>>
    BY <1>1 DEF Defer
  <2>2. World'
    BY <1>0, <2>1 DEF World
  <2>3. Buckets'
    BY <1>0, <2>1, BucketsStay
  <2>4. Waits'
    BY <1>0, <2>1 DEF Waits, PairedIsNotLockedOut
  <2>. QED BY <2>2, <2>3, <2>4 DEF GateInv
<1>2. CASE RefuseFlapping
  <2>1. /\ Knock(token) /\ UNCHANGED <<gate, admitted>> /\ inside' = inside /\ ~ inside
        /\ inside' \in BOOLEAN /\ token' = token
        /\ told' = IF flap'.locked > 0 THEN flap'.locked ELSE flap'.blocked
    BY <1>0, <1>2 DEF RefuseFlapping, Knock, World
  <2>2. World'
    BY <1>0, <2>1, WorldOnKnock
  <2>3. /\ Buckets' /\ flap'.blocked \in 0..Cooldown /\ flap'.locked \in 0..Quarantine
        /\ (token => flap'.locked = 0)
    BY <1>0, <2>1, FlapMoves
  <2>4. told' \in Nat /\ (token => told' <= Cooldown)
    <3>1. Quarantine \in Nat
      BY AdmissionAssumption DEF Limits
    <3>. QED BY <1>0, <2>1, <2>3, <3>1
  <2>5. Waits'
    BY <2>1, <2>4 DEF Waits, PairedIsNotLockedOut
  <2>. QED BY <2>2, <2>3, <2>5 DEF GateInv
<1>3. CASE Throttle
  <2>1. /\ Knock(token) /\ UNCHANGED admitted /\ inside' = inside /\ ~ inside
        /\ inside' \in BOOLEAN
        /\ \/ gate' = Known
           \/ Known.blocked = 0 /\ gate' = Rejected
        /\ told' = gate'.blocked
    BY <1>0, <1>3 DEF Throttle, PassesFlap, InBackoff, World
  <2>2. World'
    BY <1>0, <2>1, WorldOnKnock
  <2>3. PICK g : g = gate'
    OBVIOUS
  <2>4. GateIs(g) /\ Covers(g, admitted)
    BY <1>0, <2>1, <2>3, KnownIs, RejectedIs
  <2>5. Buckets'
    <3>1. PICK a : a = admitted
      OBVIOUS
    <3>. QED BY <1>0, <2>1, <2>3, <2>4, <3>1, GateMoves
  <2>6. told' \in 0..MaxBackoff
    BY <2>1, <2>3, <2>4, GateFields DEF GateIs
  <2>7. Waits'
    BY <2>1, <2>6, Positive DEF Waits, PairedIsNotLockedOut
  <2>. QED BY <2>2, <2>5, <2>7 DEF GateInv
<1>4. CASE Admit
  <2>1. /\ Knock(token) /\ inside' \in BOOLEAN /\ told' = 0
        /\ Known.blocked = 0 /\ ~ Storms /\ gate' = Allowed
        /\ admitted' = Pushed(admitted)
    BY <1>4 DEF Admit, PassesFlap
  <2>2. World'
    BY <1>0, <2>1, WorldOnKnock
  <2>3. PICK g, a : g = Allowed /\ a = Pushed(admitted)
    OBVIOUS
  <2>4. GateIs(g) /\ Covers(g, a) /\ Len(a) <= Ceiling
    BY <1>0, <2>1, <2>3, AllowedIs
  <2>5. a \in Seq(0..Window - 1) /\ Sorted(a)
    BY <1>0, <2>3, Positive, PushedIs
  <2>6. Buckets'
    BY <1>0, <2>1, <2>3, <2>4, <2>5, GateMoves
  <2>7. Waits'
    BY <1>0, <2>1 DEF Waits, PairedIsNotLockedOut
  <2>. QED BY <2>2, <2>6, <2>7 DEF GateInv
<1>5. CASE AdmitUnpaired
  <2>1. /\ Knock(token) /\ UNCHANGED <<gate, admitted>> /\ inside' \in BOOLEAN /\ told' = 0
    BY <1>5 DEF AdmitUnpaired, PassesFlap
  <2>2. World' /\ Buckets'
    BY <1>0, <2>1, WorldOnKnock, FlapMoves
  <2>3. Waits'
    BY <1>0, <2>1 DEF Waits, PairedIsNotLockedOut
  <2>. QED BY <2>2, <2>3 DEF GateInv
<1>. QED BY <1>1, <1>2, <1>3, <1>4, <1>5 DEF Connect

LEMMA TickKeeps == ASSUME GateInv, Tick PROVE GateInv'
<1>0. World /\ Buckets /\ Waits
  BY DEF GateInv
<1>1. \A n \in Nat : \A x \in 0..n : Left(x) \in 0..n
  BY DEF Left
<1>2. World'
  <2>1. warm' \in 0..Warmup
    <3>1. Warmup \in Nat /\ warm \in 0..Warmup /\ warm' = Left(warm)
      BY <1>0, AdmissionAssumption DEF World, Limits, Tick
    <3>. QED BY <1>1, <3>1
  <2>2. deferral' \in [on: BOOLEAN, age: 0..Valve, drain: 0..2]
    <3>1. PICK age : age = IF deferral.on THEN Least(deferral.age + 1, Valve) ELSE deferral.age
      OBVIOUS
    <3>2. deferral' = [deferral EXCEPT !.age = age]
      BY <3>1 DEF Tick
    <3>3. Valve \in Nat /\ deferral \in [on: BOOLEAN, age: 0..Valve, drain: 0..2]
      BY <1>0, AdmissionAssumption DEF World, Limits
    <3>4. deferral.age \in 0..Valve
      BY <3>3
    <3>5. age \in 0..Valve
      BY <3>1, <3>3, <3>4 DEF Least
    <3>. QED BY <3>2, <3>3, <3>5
  <2>3. UNCHANGED <<band, token, inside>>
    BY DEF Tick
  <2>. QED BY <1>0, <2>1, <2>2, <2>3 DEF World
<1>3. Buckets'
  <2>1. FlapIs(flap')
    BY <1>0, FlapOnTick DEF Buckets
  <2>2. /\ GateIs(gate') /\ admitted' \in Seq(0..Window - 1) /\ Sorted(admitted')
        /\ Covers(gate', admitted') /\ Len(admitted') <= Ceiling
    BY <1>0, GateOnTick DEF Buckets, CeilingHolds
  <2>. QED BY <2>1, <2>2 DEF Buckets, CeilingHolds
<1>4. Waits'
  <2>1. told' = Left(told) /\ token' = token /\ inside' = inside /\ told \in Nat
    BY <1>0 DEF Tick, Waits
  <2>2. told' \in Nat /\ told' <= told /\ (told = 0 => told' = 0)
    BY <2>1 DEF Left
  <2>3. Cooldown \in Nat /\ MaxBackoff \in Nat
    BY AdmissionAssumption DEF Limits
  <2>. QED BY <1>0, <2>1, <2>2, <2>3 DEF Waits, PairedIsNotLockedOut
<1>. QED BY <1>2, <1>3, <1>4 DEF GateInv

LEMMA OthersKeep ==
  ASSUME GateInv,
         \/ Drain \/ Stale \/ SweepBuckets \/ Drop \/ Pair \/ Reinstall
         \/ LoadChanges \/ ProcessRestarts
  PROVE  GateInv'
<1>0. World /\ Buckets /\ Waits /\ Cooldown \in Nat \ {0} /\ Warmup \in Nat /\ 1 \in Bands
  BY AdmissionAssumption DEF GateInv, Limits
<1>1. CASE Drain
  <2>1. UNCHANGED <<warm, band, flap, gate, token, inside, told, admitted>>
    BY <1>1 DEF Drain
  <2>2. deferral \in [on: BOOLEAN, age: 0..Valve, drain: 0..2] /\ deferral.drain # 0
    BY <1>0, <1>1 DEF World, Drain
  <2>3. deferral' \in [on: BOOLEAN, age: 0..Valve, drain: 0..2]
    <3>1. deferral.drain \in 1..2
      BY <2>2
    <3>2. PICK d \in 0..2 : d = 3 - deferral.drain
      BY <3>1
    <3>3. deferral' = [deferral EXCEPT !.drain = d]
          \/ deferral' = [deferral EXCEPT !.on = FALSE, !.drain = 0]
      BY <1>1, <3>2 DEF Drain, Lifted
    <3>4. 0 \in 0..2
      OBVIOUS
    <3>5. CASE deferral' = [deferral EXCEPT !.drain = d]
      BY <2>2, <3>5
    <3>6. CASE deferral' = [deferral EXCEPT !.on = FALSE, !.drain = 0]
      BY <2>2, <3>4, <3>6
    <3>. QED BY <3>3, <3>5, <3>6
  <2>4. World'
    BY <1>0, <2>1, <2>3 DEF World
  <2>5. Buckets'
    BY <1>0, <2>1, BucketsStay
  <2>6. Waits'
    BY <1>0, <2>1 DEF Waits, PairedIsNotLockedOut
  <2>. QED BY <2>4, <2>5, <2>6 DEF GateInv
<1>2. CASE Stale
  <2>1. /\ Knock(FALSE) /\ UNCHANGED <<gate, admitted>> /\ UNCHANGED <<inside, told, token>>
        /\ inside' \in BOOLEAN
    BY <1>0, <1>2 DEF Stale, Knock, World
  <2>2. World' /\ Buckets'
    BY <1>0, <2>1, WorldOnKnock, FlapMoves
  <2>3. Waits'
    BY <1>0, <2>1 DEF Waits, PairedIsNotLockedOut
  <2>. QED BY <2>2, <2>3 DEF GateInv
<1>3. CASE SweepBuckets
  <2>1. UNCHANGED <<warm, band, deferral, token, inside, told, admitted>>
    BY <1>3 DEF SweepBuckets
  <2>2. World' /\ Waits'
    BY <1>0, <2>1 DEF World, Waits, PairedIsNotLockedOut
  <2>3. CASE flap' = NoFlaps /\ UNCHANGED gate
    <3>1. FlapIs(flap')
      BY <2>3, NoFlapsIs
    <3>. QED BY <1>0, <2>1, <2>2, <2>3, <3>1 DEF Buckets, CeilingHolds, GateInv
  <2>4. CASE gate.idle > IdleReset /\ gate' = NoHits /\ UNCHANGED flap
    <3>1. admitted = <<>>
      BY <1>0, <2>4, NobodyIsForgotten DEF Buckets
    <3>2. GateIs(gate') /\ Covers(gate', admitted')
      BY <2>1, <2>4, <3>1, NoHitsIs
    <3>. QED BY <1>0, <2>1, <2>2, <2>4, <3>2 DEF Buckets, CeilingHolds, GateInv
  <2>. QED BY <1>3, <2>3, <2>4 DEF SweepBuckets
<1>4. CASE Drop \/ Pair \/ Reinstall \/ LoadChanges
  <2>1. UNCHANGED <<warm, deferral, flap, gate, told, admitted>>
    BY <1>4 DEF Drop, Pair, Reinstall, LoadChanges
  <2>2. band' \in Bands /\ token' \in BOOLEAN /\ inside' \in BOOLEAN
    BY <1>0, <1>4 DEF Drop, Pair, Reinstall, LoadChanges, World
  <2>3. (inside' => inside) /\ (token' => token \/ inside)
    BY <1>4 DEF Drop, Pair, Reinstall, LoadChanges
  <2>4. World'
    BY <1>0, <2>1, <2>2 DEF World
  <2>5. Buckets'
    BY <1>0, <2>1, BucketsStay
  <2>6. Waits'
    BY <1>0, <2>1, <2>3 DEF Waits, PairedIsNotLockedOut
  <2>. QED BY <2>4, <2>5, <2>6 DEF GateInv
<1>5. CASE ProcessRestarts
  <2>1. /\ warm' = Warmup /\ band' = 1 /\ flap' = NoFlaps /\ gate' = NoHits
        /\ admitted' = <<>> /\ inside' = FALSE /\ told' = 0 /\ token' = token
        /\ \E held \in BOOLEAN : deferral' = Booted(held)
    BY <1>5 DEF ProcessRestarts
  <2>2. World'
    <3>1. deferral' \in [on: BOOLEAN, age: 0..Valve, drain: 0..2]
      BY <2>1, HeldOff
    <3>2. warm' \in 0..Warmup
      BY <1>0, <2>1
    <3>3. token' \in BOOLEAN
      BY <1>0, <2>1 DEF World
    <3>4. inside' \in BOOLEAN /\ band' \in Bands
      BY <1>0, <2>1
    <3>. QED BY <3>1, <3>2, <3>3, <3>4 DEF World
  <2>3. <<>> \in Seq(0..Window - 1) /\ Len(<<>>) = 0 /\ DOMAIN <<>> = {}
    OBVIOUS
  <2>4. GateIs(gate') /\ Covers(gate', admitted') /\ FlapIs(flap')
    BY <2>1, NoHitsIs, NoFlapsIs
  <2>5. Buckets'
    BY <2>1, <2>3, <2>4, Positive DEF Buckets, Sorted, CeilingHolds
  <2>6. Waits'
    BY <1>0, <2>1 DEF Waits, PairedIsNotLockedOut
  <2>. QED BY <2>2, <2>5, <2>6 DEF GateInv
<1>. QED BY <1>1, <1>2, <1>3, <1>4, <1>5

\* What the gates keep true at every step: their types, the hits each limiter
\* remembers, whom the throttle let in, and what a display was told to wait.
THEOREM GateInvariant == GateSpec => []GateInv
<1>1. GateInit => GateInv
  BY GateStarts
<1>2. GateInv /\ [GateNext]_(gateVars) => GateInv'
  <2>1. SUFFICES ASSUME GateInv, [GateNext]_(gateVars) PROVE GateInv'
    OBVIOUS
  <2>2. CASE GateNext
    BY <2>1, <2>2, ConnectKeeps, TickKeeps, OthersKeep DEF GateNext
  <2>3. CASE UNCHANGED gateVars
    <3>1. UNCHANGED <<warm, band, deferral, flap, gate, token, inside, told, admitted>>
      BY <2>3 DEF gateVars
    <3>2. World' /\ Waits'
      BY <2>1, <3>1 DEF GateInv, World, Waits, PairedIsNotLockedOut
    <3>3. Buckets'
      BY <2>1, <3>1, BucketsStay DEF GateInv
    <3>. QED BY <3>2, <3>3 DEF GateInv
  <2>. QED BY <2>1, <2>2, <2>3
<1>. QED BY <1>1, <1>2, PTL DEF GateSpec

\* Every bucket of the limiters keeps its fields within their limits, and forgets
\* enough hits to stay small.
THEOREM GatesTypeCorrect == GateSpec => []GatesTypeOK
<1>1. GateInv => GatesTypeOK
  BY GateTyped
<1>. QED BY <1>1, GateInvariant, PTL

\* The throttle lets in no more than Ceiling registers of a display within any
\* Window, whatever the load, the warm-up, the backoffs and the sweeps do.
THEOREM CeilingIsHard == GateSpec => []CeilingHolds
<1>1. GateInv => CeilingHolds
  BY DEF GateInv, Buckets
<1>. QED BY <1>1, GateInvariant, PTL

\* A display that holds a valid token is never told to wait out a quarantine.
THEOREM NoLongWait == GateSpec => []PairedIsNotLockedOut
<1>1. GateInv => PairedIsNotLockedOut
  BY DEF GateInv, Waits
<1>. QED BY <1>1, GateInvariant, PTL
=============================================================================
