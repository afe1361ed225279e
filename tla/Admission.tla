----------------------------- MODULE Admission -----------------------------
(***************************************************************************)
(* The gates a display's connection passes before its register does any    *)
(* work: the boot deferral (lib/boot-defer.js with the drain of            *)
(* services/heartbeat.js), the sustained flap limiter (lib/flap-limiter.js)*)
(* and the reconnect throttle (lib/reconnect-throttle.js), in the order    *)
(* ws/deviceSocket.js asks them.                                           *)
(*                                                                         *)
(* The limiters keep one bucket per display and buckets share nothing, so  *)
(* the model is one display and its two buckets.  Instants are kept as     *)
(* ages and as time left, in ticks: nothing bounds how long a run may be.  *)
(* A display that comes back at once and one that waits as it was told are *)
(* both behaviours of Connect.                                             *)
(***************************************************************************)
EXTENDS Integers, Sequences, FiniteSets

CONSTANTS Valve,                                  \* MAX_DEFER_MS
          FlapWindow, FlapMax, Cooldown, FlapIdle,\* connectRate*
          MaxTrips, Quarantine,                   \* connectRateQuarantine*
          Window, BaseMax, Ceiling, Backoff, MaxBackoff, MaxLevel,
          Release, IdleReset, Warmup,             \* reconnect*
          Bands                                   \* what a load band multiplies by

\* What level n multiplies a backoff by: Math.pow(2, n - 1).
Doubled[n \in 1..MaxLevel] == IF n <= 1 THEN 1 ELSE 2 * Doubled[n - 1]

\* What the values of config.js satisfy.  A longest backoff shorter than the
\* window would keep a display that does come back out for ever.
Limits ==
  /\ {Valve, FlapWindow, FlapMax, Cooldown, FlapIdle, MaxTrips, Quarantine,
      Window, BaseMax, Ceiling, Backoff, MaxBackoff, MaxLevel, Release,
      IdleReset, Warmup} \subseteq Nat \ {0}
  /\ Bands \subseteq Nat \ {0} /\ 1 \in Bands
  /\ BaseMax <= Ceiling /\ Window <= MaxBackoff /\ MaxBackoff < IdleReset
  /\ MaxBackoff <= Backoff * Doubled[MaxLevel] /\ FlapWindow < FlapIdle

ASSUME AdmissionAssumption == Limits

VARIABLES warm,      \* ticks of warm-up left
          band,      \* what the load band multiplies a backoff by
          deferral,  \* [on, age, drain]: players are held off; 0 or the parity of the drain's batch
          flap,      \* the flap limiter's bucket
          gate,      \* the throttle's bucket
          token,     \* the display holds a valid device token
          inside,    \* its connection passed
          told,      \* the wait the last refusal asked for, 0 when there is none
          admitted   \* history: ages of the throttled registers let in

gateVars == <<warm, band, deferral, flap, gate, token, inside, told, admitted>>

Least(a, b) == IF a < b THEN a ELSE b

\* Hits, the newest first: one more, and those a tick later that are still in the
\* window.
Pushed(ages) == <<0>> \o ages
Older(ages, kept) == [i \in 1..Cardinality(kept) |-> ages[i] + 1]
AgedLate(ages, window) == Older(ages, {i \in DOMAIN ages : ages[i] + 1 <= window})
Aged(ages, window) == Older(ages, {i \in DOMAIN ages : ages[i] + 1 < window})
Left(n) == IF n = 0 THEN 0 ELSE n - 1

NoFlaps == [hits |-> <<>>, blocked |-> 0, locked |-> 0, trips |-> 0, since |-> 0, idle |-> 0]
NoHits == [hits |-> <<>>, blocked |-> 0, level |-> 0, calm |-> 0, idle |-> 0]

FlapBucket == [hits: Seq(0..FlapWindow - 1), blocked: 0..Cooldown, locked: 0..Quarantine,
               trips: 0..FlapWindow + 2, since: 0..FlapWindow + 1, idle: 0..FlapIdle + 1]
GateBucket == [hits: Seq(0..Window - 1), blocked: 0..MaxBackoff, level: 0..MaxLevel,
               calm: 0..Release + 1, idle: 0..IdleReset + 1]

GatesTypeOK ==
  /\ warm \in 0..Warmup /\ band \in Bands
  /\ deferral \in [on: BOOLEAN, age: 0..Valve, drain: 0..2]
  /\ flap \in FlapBucket /\ Len(flap.hits) <= FlapMax
  /\ gate \in GateBucket /\ Len(gate.hits) <= Ceiling + Window
  /\ token \in BOOLEAN /\ inside \in BOOLEAN /\ told \in Nat
  /\ admitted \in Seq(0..Window - 1)

\* begin() holds players off when there is something to drain, or when forced.
Booted(held) == [on |-> held, age |-> 0, drain |-> IF held THEN 1 ELSE 0]

GateInit ==
  /\ warm = Warmup /\ band = 1 /\ deferral \in {Booted(held) : held \in BOOLEAN}
  /\ flap = NoFlaps /\ gate = NoHits /\ admitted = <<>>
  /\ token \in BOOLEAN /\ inside = FALSE /\ told = 0

----------------------------------------------------------------------------
\* The boot deferral.

LapsedNever == FALSE
Lapsed == deferral.on /\ deferral.age >= Valve
Lifted == [deferral EXCEPT !.on = FALSE]

\* A batch of the drain: more is left, or it was the last, or the valve
\* tripped, or the batch threw and the caller's catch lifts the deferral.
\* Nothing says that there is a last batch.
Drain ==
  /\ deferral.drain # 0
  /\ \/ /\ ~Lapsed
        /\ deferral' = [deferral EXCEPT !.drain = 3 - @]
     \/ deferral' = [Lifted EXCEPT !.drain = 0]
  /\ UNCHANGED <<warm, band, flap, gate, token, inside, told, admitted>>

\* isDeferred() trips the valve when it is read.
Held == deferral.on /\ ~Lapsed
Read == IF Lapsed THEN Lifted ELSE deferral

Defer ==
  /\ ~inside /\ Held
  /\ told' = 1
  /\ UNCHANGED <<warm, band, deferral, flap, gate, token, inside, admitted>>

----------------------------------------------------------------------------
\* The flap limiter.

\* A valid token releases a quarantine in flight.
Seen(paired) == IF flap.locked > 0 /\ paired
                  THEN [flap EXCEPT !.idle = 0, !.locked = 0, !.trips = 0]
                  ELSE [flap EXCEPT !.idle = 0]

Cooling(paired) == Seen(paired).locked > 0 \/ Seen(paired).blocked > 0
Flaps == Len(flap.hits) + 1 > FlapMax
Trips(paired) == IF flap.since > FlapWindow THEN 1 ELSE Seen(paired).trips + 1

ExemptNever(paired) == FALSE
Exempt(paired) == paired

Tripped(paired) ==
  [Seen(paired) EXCEPT !.hits = <<>>, !.blocked = Cooldown, !.trips = Trips(paired),
                       !.since = IF @ > FlapWindow THEN 0 ELSE @,
                       !.locked = IF ~Exempt(paired) /\ Trips(paired) >= MaxTrips
                                    THEN Quarantine ELSE @]

\* What a knock under the display's identity does to the bucket.
Refuses(paired) == Cooling(paired) \/ Flaps
Knocked(paired) == IF Cooling(paired) THEN Seen(paired)
                   ELSE IF Flaps THEN Tripped(paired)
                   ELSE [Seen(paired) EXCEPT !.hits = Pushed(@)]

Knock(paired) ==
  /\ ~Held
  /\ deferral' = Read
  /\ flap' = Knocked(paired)
  /\ UNCHANGED <<warm, band, token>>

RefuseFlapping ==
  /\ ~inside /\ Refuses(token) /\ Knock(token)
  /\ told' = IF flap'.locked > 0 THEN flap'.locked ELSE flap'.blocked
  /\ UNCHANGED <<gate, inside, admitted>>

PassesFlap == ~inside /\ ~Refuses(token) /\ Knock(token)

\* Another install under the same identity, whose token is no longer valid:
\* the limiter counts it, the token check turns it away.
Stale ==
  /\ Knock(FALSE)
  /\ UNCHANGED <<gate, inside, told, admitted>>

----------------------------------------------------------------------------
\* The reconnect throttle, asked only of a display whose token is valid.

Known == IF gate.idle > IdleReset THEN NoHits ELSE [gate EXCEPT !.idle = 0]
Hit == [Known EXCEPT !.hits = Pushed(@)]

StormsWhenCold == warm = 0 /\ Len(Hit.hits) > BaseMax
Storms == \/ Len(Hit.hits) > Ceiling
          \/ warm = 0 /\ Len(Hit.hits) > BaseMax

Rejected ==
  LET level == Least(Hit.level + 1, MaxLevel)
      load == IF warm > 0 THEN 1 ELSE band
  IN  [Hit EXCEPT !.level = level, !.calm = 0,
                  !.blocked = Least(Backoff * Doubled[level] * load, MaxBackoff)]

\* One level is forgiven for every Release ticks of calm.
Allowed ==
  IF Hit.level > 0 /\ Hit.calm > Release
    THEN [Hit EXCEPT !.level = @ - 1, !.calm = 0]
    ELSE Hit

\* Inside the backoff a refusal changes nothing: it does not extend it.
InBackoffExtended == IF Known.blocked > 0 THEN Rejected ELSE Known
InBackoff == Known

Throttle ==
  /\ PassesFlap /\ token
  /\ \/ Known.blocked > 0 /\ gate' = InBackoff
     \/ Known.blocked = 0 /\ Storms /\ gate' = Rejected
  /\ told' = gate'.blocked
  /\ UNCHANGED <<inside, admitted>>

Admit ==
  /\ PassesFlap /\ token /\ Known.blocked = 0 /\ ~Storms
  /\ gate' = Allowed
  /\ inside' = TRUE /\ told' = 0 /\ admitted' = Pushed(admitted)

\* Without a token the register goes on to pairing and meets no throttle.
AdmitUnpaired ==
  /\ PassesFlap /\ ~token
  /\ inside' = TRUE /\ told' = 0
  /\ UNCHANGED <<gate, admitted>>

Connect == Defer \/ RefuseFlapping \/ Throttle \/ Admit \/ AdmitUnpaired

----------------------------------------------------------------------------
\* The sweeps forget a bucket nobody has asked about, a quarantined one too.
SweepBuckets ==
  /\ \/ flap.idle > FlapIdle /\ flap' = NoFlaps /\ UNCHANGED gate
     \/ gate.idle > IdleReset /\ gate' = NoHits /\ UNCHANGED flap
  /\ UNCHANGED <<warm, band, deferral, token, inside, told, admitted>>

\* The connection is lost; the operator pairs the display; the display is
\* reinstalled and forgets its token.
Drop ==
  /\ inside /\ inside' = FALSE
  /\ UNCHANGED <<warm, band, deferral, flap, gate, token, told, admitted>>

Pair ==
  /\ inside /\ token' = TRUE /\ ~token
  /\ UNCHANGED <<warm, band, deferral, flap, gate, inside, told, admitted>>

Reinstall ==
  /\ token /\ token' = FALSE /\ inside' = FALSE
  /\ UNCHANGED <<warm, band, deferral, flap, gate, told, admitted>>

LoadChanges ==
  /\ band' \in Bands \ {band}
  /\ UNCHANGED <<warm, deferral, flap, gate, token, inside, told, admitted>>

ProcessRestarts ==
  /\ warm' = Warmup /\ band' = 1 /\ \E held \in BOOLEAN : deferral' = Booted(held)
  /\ flap' = NoFlaps /\ gate' = NoHits /\ admitted' = <<>>
  /\ inside' = FALSE /\ told' = 0 /\ UNCHANGED token

Tick ==
  /\ warm' = Left(warm)
  /\ deferral' = [deferral EXCEPT !.age = IF deferral.on THEN Least(@ + 1, Valve) ELSE @]
  /\ flap' = [flap EXCEPT !.hits = Aged(@, FlapWindow), !.blocked = Left(@), !.locked = Left(@),
                          !.since = Least(@ + 1, FlapWindow + 1), !.idle = Least(@ + 1, FlapIdle + 1)]
  /\ gate' = [gate EXCEPT !.hits = Aged(@, Window), !.blocked = Left(@),
                          !.calm = Least(@ + 1, Release + 1), !.idle = Least(@ + 1, IdleReset + 1)]
  /\ told' = Left(told)
  /\ admitted' = Aged(admitted, Window)
  /\ UNCHANGED <<band, token, inside>>

GateNext == \/ Drain \/ Connect \/ Stale \/ SweepBuckets \/ Drop \/ Pair \/ Reinstall \/ LoadChanges
        \/ ProcessRestarts \/ Tick

GateSpec == GateInit /\ [][GateNext]_gateVars

\* Time passes, the drain yields to itself, and a display that is not in comes
\* back some time.
FairGateSpec == GateSpec /\ WF_gateVars(Tick) /\ WF_gateVars(Drain) /\ WF_gateVars(Connect)

----------------------------------------------------------------------------
\* Whatever the load band, the warm-up, the backoffs, the idle resets and the
\* sweeps do, one process lets in no more than Ceiling registers of a display
\* within any Window (the hard ceiling of reconnect-throttle.js).
CeilingHolds == Len(admitted) <= Ceiling

\* A display with a valid token is never asked to wait longer than a cooldown
\* or the longest backoff, even when its bucket was quarantined because of
\* another install (#148 in flap-limiter.js).
PairedIsNotLockedOut == token => told <= Cooldown \/ told <= MaxBackoff

\* A boot that is not restarted lets players in whether its drain ends, throws
\* or never ends (`it always lifts', boot-defer.js).
DeferralLifts == <>[][~ProcessRestarts]_gateVars => <>[]~deferral.on

\* A display that keeps coming back gets in, however impatient it is: no
\* refusal pushes its own end away, escalation outgrows the window and a
\* quarantine runs out.  Restarts, reinstalls and other installs knocking in
\* its name have to stop.
ComesBack == <>[][~(ProcessRestarts \/ Reinstall \/ Stale)]_gateVars => []<>inside
=============================================================================
