----------------------------- MODULE OtaRollout -----------------------------
(***************************************************************************)
(* Health-checked rollouts of a player package (lib/ota-rollout.js, the    *)
(* checks of routes/native-update.js) and the screens that take it         *)
(* (native/.../system/updater.py, the privileged helper of                 *)
(* native/packaging/linux/st-helper).                                      *)
(*                                                                         *)
(* One platform with packages to go back to (Pi or Windows); a platform    *)
(* without them takes the branches in which nothing is kept.  Versions are *)
(* numbers, 0 the one every screen runs at first.  Screens are numbers, a  *)
(* version's hashes of them a rotation; screens join and are deleted.      *)
(***************************************************************************)
EXTENDS Integers, Sequences, FiniteSets

CONSTANTS Fleet,       \* screens are among 1..Fleet
          OptedIn,     \* screens with allow_package_install
          Newest,      \* versions are 1..Newest
          Copied,      \* versions whose package can be copied aside
          Sample,      \* screens that make an evidence: 3 in the code
          MaxStagings, \* bound: packages put in place
          MaxActs,     \* bound: admin actions, forced updates, screens added or deleted
          MaxTrouble   \* bound: crashes, outages, lost downloads

ASSUME RolloutAssumption ==
         /\ Fleet \in Nat \ {0} /\ Newest \in Nat \ {0} /\ Sample \in Nat \ {0}
         /\ Copied \subseteq 1..Newest /\ OptedIn \subseteq 1..Fleet
         /\ MaxStagings \in Nat /\ MaxActs \in Nat /\ MaxTrouble \in Nat

Screen == 1..Fleet
Version == 1..Newest

VARIABLES staged,    \* version of the package the cache found, 0 when there is none
          row,       \* ota_rollouts by version
          begun,     \* versions in the order of their rows
          kept,      \* versions whose row has an archived package with its sha256
          fleet,     \* the screens there are: familyDevices
          runs,      \* devices.app_version
          offer,     \* version a screen was offered and has not installed, 0: none
          through,   \* screens whose helper let it through: apt runs, detached
          took,      \* upgrade events: versions a screen changed to
          crashed,   \* versions since whose upgrade a screen crashed twice
          health,    \* of a screen: "up", "dark" for 15 minutes, "dead" for a day
          pending,   \* rows the tick read and has not come to, while it waits
          stagings, acts, trouble

package == <<staged, stagings>>
rows == <<row, begun, kept>>
screens == <<fleet, runs, offer, through, took, crashed, health>>
vars == <<package, rows, screens, pending, acts, trouble>>

Status == {"none", "rolling", "paused", "complete", "halted", "superseded"}
LastWave == 2
Fresh == 0
Soaked == 1    \* OTA_ROLLOUT_SOAK_MIN since the wave opened
Stalled == 2   \* STALL_MS since the wave opened
NoRow == [status |-> "none", wave |-> 0, prev |-> 0, age |-> Fresh]
Rollout == [status: Status, wave: 0..LastWave + 1, prev: 0..Newest, age: Fresh..Stalled]
NoRows == [v \in {} |-> NoRow]

TypeOK ==
  /\ staged \in 0..Newest /\ row \in [Version -> Rollout] /\ kept \subseteq Version
  /\ begun \in Seq(Version) /\ Len(begun) <= Newest
  /\ fleet \subseteq Screen /\ through \subseteq Screen
  /\ runs \in [Screen -> 0..Newest] /\ offer \in [Screen -> 0..Newest]
  /\ took \in [Screen -> SUBSET Version] /\ crashed \in [Screen -> SUBSET Version]
  /\ health \in [Screen -> {"up", "dark", "dead"}]
  /\ DOMAIN pending \subseteq Version /\ \A v \in DOMAIN pending : pending[v] \in Rollout
  /\ stagings \in 0..MaxStagings /\ acts \in 0..MaxActs /\ trouble \in 0..MaxTrouble

Init ==
  /\ staged = 0 /\ row = [v \in Version |-> NoRow] /\ begun = <<>> /\ kept = {}
  /\ fleet \in SUBSET Screen /\ through = {}
  /\ runs = [s \in Screen |-> 0] /\ offer = [s \in Screen |-> 0]
  /\ took = [s \in Screen |-> {}] /\ crashed = took /\ health = [s \in Screen |-> "up"]
  /\ pending = NoRows
  /\ stagings = 0 /\ acts = 0 /\ trouble = 0

-----------------------------------------------------------------------------
(* ensure: every question about the staged package first finds its row, or *)
(* opens a rollout that supersedes the live ones and goes back, if it must,*)
(* to the last version begun that was not halted by then.                  *)

Fallbacks == {i \in DOMAIN begun : row[begun[i]].status # "halted"}
Previous == IF Fallbacks = {} THEN 0 ELSE begun[CHOOSE i \in Fallbacks : \A j \in Fallbacks : j <= i]

(* The time since its wave opened counts while a row is rolling; one that  *)
(* rolls again starts it anew, one that stops may forget it.               *)
Stopped(r, status) == [r EXCEPT !.status = status, !.age = Fresh]
Superseded(r) == IF r.status \in {"rolling", "paused"} THEN Stopped(r, "superseded") ELSE r
Opened == [status |-> "rolling", wave |-> 0, prev |-> Previous, age |-> Fresh]

Ensured ==
  IF row[staged].status # "none" THEN row
  ELSE [v \in Version |-> IF v = staged THEN Opened ELSE Superseded(row[v])]

(* The package is copied aside when the row is made; its sha256 is known a *)
(* little later and noted at the next sight.                               *)
Ensure ==
  /\ staged # 0 /\ row' = Ensured
  /\ IF row[staged].status = "none"
       THEN begun' = Append(begun, staged) /\ UNCHANGED kept
       ELSE kept' = kept \cup ({staged} \cap Copied) /\ UNCHANGED begun

(* gate, on the rows ensure leaves: what is announced as the release.      *)
RollsBack == Ensured[staged].status = "halted" /\ Ensured[staged].prev \in kept
AnnouncedStaged == staged   \* mutant: the helper's lookup announces the staged package
Announced == IF RollsBack THEN Ensured[staged].prev ELSE staged

(* Waves are cut from the order of the screens there are at the moment; a  *)
(* screen the server does not know waits for the last.  (The order is kept *)
(* for a minute: a change of the fleet shows that much later.)             *)
AtLeastOne(n) == IF n = 0 THEN 1 ELSE n
WaveSize(w) ==   \* 10, 50 and 100 percent, rounded up
  LET n == Cardinality(fleet) IN
  AtLeastOne(CASE w = 0 -> (n + 9) \div 10 [] w = 1 -> (n + 1) \div 2 [] OTHER -> n)
Hash(s, v) == (s + v) % Fleet
Rank(s, v) == Cardinality({t \in fleet : Hash(t, v) < Hash(s, v)})
InWave(s, v, w) == w >= LastWave \/ (s \in fleet /\ Rank(s, v) < WaveSize(w))

Open(s, forced) ==
  LET r == Ensured[staged] IN
  /\ r.status # "halted"
  /\ \/ forced \/ r.status = "complete"
     \/ r.status \in {"rolling", "superseded"} /\ InWave(s, staged, r.wave)

-----------------------------------------------------------------------------
(* A screen's check.  A screen on the halted version is sent back at once; *)
(* any other offer is a step up and may be held by the breaker.            *)

Acts == acts < MaxActs /\ acts' = acts + 1
Asks(s) == offer[s] = 0 /\ health[s] = "up" /\ Ensure
Offered(s, v) == offer' = [offer EXCEPT ![s] = v]

OnHaltedByBreaker(s) == runs[s] < Announced   \* mutant: the breaker refuses a downgrade
OnHalted(s) == runs[s] = staged

SentBack(s) ==
  /\ Asks(s) /\ RollsBack /\ OnHalted(s) /\ Offered(s, Announced)
  /\ UNCHANGED <<package, fleet, runs, through, took, crashed, health, pending, acts, trouble>>

OfferedFallback(s) ==
  /\ Asks(s) /\ RollsBack /\ runs[s] < Announced /\ Offered(s, Announced)
  /\ UNCHANGED <<package, fleet, runs, through, took, crashed, health, pending, acts, trouble>>

OfferedUpgrade(s, forced) ==
  /\ Asks(s) /\ Open(s, forced) /\ runs[s] < staged /\ Offered(s, staged)
  /\ IF forced THEN Acts ELSE UNCHANGED acts
  /\ UNCHANGED <<package, fleet, runs, through, took, crashed, health, pending, trouble>>

ToldNothing(s) ==
  /\ Asks(s) /\ UNCHANGED <<package, screens, pending, acts, trouble>>

(* Downloaded; the helper asks which package is the release and lets that  *)
(* one through, or any if the operator opted in, who need not even get an  *)
(* answer.  (A forced check while apt runs is left out.)                   *)
LetThrough(s) == through' = through \cup {s} /\ UNCHANGED offer

HelperAsks(s) ==
  /\ offer[s] # 0 /\ s \notin through /\ health[s] = "up"
  /\ \/ Ensure /\ IF offer[s] = Announced \/ s \in OptedIn THEN LetThrough(s)
                   ELSE Offered(s, 0) /\ UNCHANGED through
     \/ s \in OptedIn /\ LetThrough(s) /\ UNCHANGED rows
  /\ UNCHANGED <<package, fleet, runs, took, crashed, health, pending, acts, trouble>>

(* apt has run; the screen registers with the version it now runs.         *)
Install(s) ==
  /\ s \in through /\ health[s] = "up" /\ Offered(s, 0) /\ through' = through \ {s}
  /\ runs' = [runs EXCEPT ![s] = offer[s]] /\ took' = [took EXCEPT ![s] = @ \cup {offer[s]}]
  /\ UNCHANGED <<package, rows, fleet, crashed, health, pending, acts, trouble>>

Trouble == trouble < MaxTrouble /\ trouble' = trouble + 1

UpdateFails(s) ==   \* the download, the helper or apt
  /\ offer[s] # 0 /\ Offered(s, 0) /\ through' = through \ {s} /\ Trouble
  /\ UNCHANGED <<package, rows, fleet, runs, took, crashed, health, pending, acts>>

CrashesTwice(s) ==
  /\ crashed[s] # took[s] /\ crashed' = [crashed EXCEPT ![s] = took[s]] /\ Trouble
  /\ UNCHANGED <<package, rows, fleet, runs, offer, through, took, health, pending, acts>>

GoesDark(s) ==
  /\ health[s] = "up" /\ health' = [health EXCEPT ![s] = "dark"] /\ Trouble
  /\ UNCHANGED <<package, rows, fleet, runs, offer, through, took, crashed, pending, acts>>

StaysDark(s) ==
  /\ health[s] = "dark" /\ health' = [health EXCEPT ![s] = "dead"]
  /\ UNCHANGED <<package, rows, fleet, runs, offer, through, took, crashed, pending, acts, trouble>>

ComesBack(s) ==
  /\ health[s] # "up" /\ health' = [health EXCEPT ![s] = "up"]
  /\ UNCHANGED <<package, rows, fleet, runs, offer, through, took, crashed, pending, acts, trouble>>

-----------------------------------------------------------------------------
(* The evidence and the tick.                                              *)

Size(S) == Cardinality(S)
AtMost(a, b) == IF a <= b THEN a ELSE b

Updated(v) == {s \in fleet : v \in took[s]}
Bad(v) == {s \in Updated(v) : v \in crashed[s] \/ health[s] # "up"}
Seen(v) == {s \in fleet \ Updated(v) : health[s] # "dead"}
Dark(v) == {s \in Seen(v) : health[s] = "dark"}

(* 30 percent are bad, and 20 percent more than of the others are dark.    *)
ClearlyWorse(v) ==
  /\ Size(Updated(v)) >= AtMost(Sample, AtLeastOne(Size(fleet)))
  /\ 10 * Size(Bad(v)) >= 3 * Size(Updated(v))
  /\ Seen(v) # {} =>
       10 * (Size(Bad(v)) * Size(Seen(v)) - Size(Dark(v)) * Size(Updated(v)))
         >= 2 * Size(Updated(v)) * Size(Seen(v))

EnoughNoStall(v, r) == Size(Updated(v)) >= AtMost(WaveSize(r.wave), Sample)  \* mutant: a wave nobody takes waits for ever
Enough(v, r) == r.age = Stalled \/ Size(Updated(v)) >= AtMost(WaveSize(r.wave), Sample)

Done(r) == r.wave >= LastWave

(* What the tick writes for a row it read as r.                            *)
Judged(v, r) ==
  CASE ClearlyWorse(v) -> Stopped(row[v], "halted")
    [] ~ClearlyWorse(v) /\ Done(r) /\ r.age >= Soaked -> Stopped(row[v], "complete")
    [] ~ClearlyWorse(v) /\ ~Done(r) /\ r.age >= Soaked /\ Enough(v, r) /\ Bad(v) = {}
         -> [row[v] EXCEPT !.wave = @ + 1, !.age = Fresh]
    [] OTHER -> row[v]

(* Row by row in one go, up to the first that is halted: the notification  *)
(* of the halt is awaited before the rest, as it was read, is looked at.   *)
Before(v, w) == \E i, j \in DOMAIN begun : i < j /\ begun[i] = v /\ begun[j] = w
Turn(read) ==
  LET reached == {v \in DOMAIN read : ~\E w \in DOMAIN read : ClearlyWorse(w) /\ Before(w, v)} IN
  /\ row' = [v \in Version |-> IF v \in reached THEN Judged(v, read[v]) ELSE row[v]]
  /\ pending' = [v \in DOMAIN read \ reached |-> read[v]]

Rolling == {v \in Version : row[v].status = "rolling"}
Read == [v \in Rolling |-> row[v]]

(* The rolling rows are read once.  Those of another platform may come     *)
(* first and have one to halt.                                             *)
TickStarts ==
  /\ pending = NoRows /\ Rolling # {}
  /\ Turn(Read) \/ (pending' = Read /\ UNCHANGED row)
  /\ UNCHANGED <<package, begun, kept, screens, acts, trouble>>

TickGoesOn ==
  /\ pending # NoRows /\ Turn(pending)
  /\ UNCHANGED <<package, begun, kept, screens, acts, trouble>>

Ages(v) ==
  /\ row[v].status = "rolling" /\ row[v].age < Stalled /\ row' = [row EXCEPT ![v].age = @ + 1]
  /\ UNCHANGED <<package, begun, kept, screens, pending, acts, trouble>>

-----------------------------------------------------------------------------
(* Operators: a package put in place, the admin page, screens added and    *)
(* deleted.  A deleted screen is left out until it is another.             *)

Stage(v) ==
  /\ v # staged /\ staged' = v /\ stagings < MaxStagings /\ stagings' = stagings + 1
  /\ UNCHANGED <<rows, screens, pending, acts, trouble>>

ReleasedInPlace(r) == Stopped(r, "complete")   \* mutant: the wave is left where it was
Released(r) == [Stopped(r, "complete") EXCEPT !.wave = LastWave]

Acted(r) ==
  CASE r.status = "rolling" -> {Stopped(r, "paused"), Released(r), Stopped(r, "halted")}
    [] r.status = "paused" -> {[r EXCEPT !.status = "rolling"], Released(r), Stopped(r, "halted")}
    [] r.status = "complete" -> {Stopped(r, "halted")}
    [] r.status = "halted" -> {[r EXCEPT !.status = "rolling"]}
    [] OTHER -> {}

Act(v) ==
  /\ \E r \in Acted(row[v]) : row' = [row EXCEPT ![v] = r]
  /\ Acts
  /\ UNCHANGED <<package, begun, kept, screens, pending, trouble>>

Join(s) ==
  /\ s \notin fleet /\ fleet' = fleet \cup {s} /\ Acts
  /\ UNCHANGED <<package, rows, runs, offer, through, took, crashed, health, pending, trouble>>

Delete(s) ==
  /\ s \in fleet /\ fleet' = fleet \ {s} /\ Acts
  /\ Offered(s, 0) /\ through' = through \ {s} /\ runs' = [runs EXCEPT ![s] = 0]
  /\ took' = [took EXCEPT ![s] = {}] /\ crashed' = [crashed EXCEPT ![s] = {}]
  /\ health' = [health EXCEPT ![s] = "up"]
  /\ UNCHANGED <<package, rows, pending, trouble>>

-----------------------------------------------------------------------------
Checks(s) == SentBack(s) \/ OfferedFallback(s) \/ (\E forced \in BOOLEAN : OfferedUpgrade(s, forced))

ScreenStep(s) ==
  \/ Checks(s) \/ ToldNothing(s) \/ HelperAsks(s) \/ Install(s) \/ UpdateFails(s)
  \/ CrashesTwice(s) \/ GoesDark(s) \/ StaysDark(s) \/ ComesBack(s)

Next ==
  \/ TickStarts \/ TickGoesOn
  \/ \E s \in fleet : ScreenStep(s)
  \/ \E s \in Screen : Join(s) \/ Delete(s)
  \/ \E v \in Version : Ages(v) \/ Act(v) \/ Stage(v)

Spec == Init /\ [][Next]_vars

(* Timers run, notifications end, the clock moves on; a screen that is up  *)
(* polls and installs what it is offered.                                  *)
FairSpec ==
  /\ Spec /\ WF_vars(TickStarts) /\ WF_vars(TickGoesOn)
  /\ \A v \in Version : WF_vars(Ages(v))
  /\ \A s \in Screen : /\ WF_vars(s \in fleet /\ SentBack(s))
                       /\ WF_vars(s \in fleet /\ HelperAsks(s)) /\ WF_vars(s \in fleet /\ Install(s))

-----------------------------------------------------------------------------
(* Who may take a version without force may still take it after any pause, *)
(* resume, release, halt, clear and change of package, as soon as the      *)
(* version is open again: a rollout never starts again narrower than it    *)
(* was, and no tick that slept over an admin's action makes it so.  Only a *)
(* change of the fleet can close it, and that only before the last wave.   *)
May(s, v, r) == r.status = "complete" \/ (r.status # "none" /\ InWave(s, v, r.wave))
OpenStaysOpen ==
  [][\A s \in Screen, v \in Version :
       May(s, v, row[v]) /\ (fleet' = fleet \/ row[v].wave >= LastWave)
         => May(s, v, row[v])']_vars

(* A halt reaches the downloads on their way: no helper lets a halted      *)
(* version through, unless nothing is kept to go back to, it is itself what*)
(* its successor goes back to, or the operator opted in; and no screen that*)
(* stays in the fleet changes to a version its helper has not let through. *)
HaltStopsInstalls ==
  [][\A s \in Screen \ OptedIn :
       /\ s \in through' \ through /\ row[offer[s]].status = "halted"
            => row[staged].prev \notin kept \/ row[staged].prev = offer[s]
       /\ s \in fleet' /\ runs'[s] # runs[s] => s \in through /\ runs'[s] = offer[s]]_vars

(* A rollout never just stops: while it is rolling and the screens that    *)
(* took it are well, its waves open one after the other, even if no screen *)
(* takes it, until it is complete or somebody stops it.                    *)
RolloutMoves == []<>(\A v \in Rolling : Bad(v) # {})

(* Screens that took a version that was halted go back, if they are up and *)
(* there is something to go back to.                                       *)
Stranded(s) ==
  staged # 0 /\ row[staged].status = "halted" /\ row[staged].prev \in kept
  /\ runs[s] = staged /\ health[s] = "up"
ScreensGoBack == []<>(\A s \in fleet : ~Stranded(s))

(* ota-rollout.js:27: only beta screens and an admin's force skip the      *)
(* waves.  TLC refutes it: so does a version that was superseded in its    *)
(* first wave and is gone back to.                                         *)
WavesAreKept ==
  [][\A s \in fleet : OfferedFallback(s) => InWave(s, Announced, row[Announced].wave)]_vars

(* ota-rollout.js:25: a screen's wave never changes between checks.  TLC   *)
(* refutes it: a screen that joins may displace one from its wave, and one *)
(* that is deleted may make a wave smaller.                                *)
WaveIsStable ==
  [][\A s \in fleet \cap fleet', v \in Version, w \in 0..LastWave :
       InWave(s, v, w) <=> InWave(s, v, w)']_vars

(* st-helper:76: a package of the player is installed only if the server   *)
(* announces it.  TLC refutes it: the question is put before apt starts.   *)
InstalledIsAnnounced ==
  [][\A s \in fleet \ OptedIn : Install(s) => offer[s] = Announced]_vars
=============================================================================
