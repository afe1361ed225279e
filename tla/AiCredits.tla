------------------------------ MODULE AiCredits ------------------------------
(***************************************************************************)
(* The credits an organization pays hosted images with: the ledger and the *)
(* reservations of lib/ai-credits.js, the request that reserves, calls the *)
(* provider and settles (routes/ai-hosted.js), Stripe's webhook, and the   *)
(* screens whose usage decides the monthly grant (lib/device-move.js).     *)
(*                                                                         *)
(* The ledger is append-only and read by its sums, so a bucket is its sum. *)
(***************************************************************************)
EXTENDS Integers, FiniteSets, FiniteSetsExt

CONSTANTS Orgs, Screens,
          Keys,        \* generations, each with an idempotency key of its own
          Orders,      \* checkout sessions
          Elsewhere,   \* the home of another organization's screen, and of a deleted one
          Unused,      \* of a key or an order nobody has sent yet
          Prices,      \* credits of the rows of the rate card
          Tiers,       \* the rate table: from how many screens on, credits for each
          Pack,        \* credits of an order
          Adjustments, \* what an administrator may add or take
          Timeout,     \* providerTimeoutMs
          Grace,       \* the five minutes the window leaves for ingest
          StaleAfter,  \* reservationStaleSec, from the environment
          MaxMonth,    \* bound: months
          MaxMoves     \* bound: changes of plan, screens moved or deleted, adjustments

ASSUME CreditsAssumption ==
         /\ Elsewhere \notin Orgs /\ Unused \notin Orgs /\ IsFiniteSet(Screens)
         /\ Prices \subseteq Nat \ {0} /\ Pack \in Nat /\ Adjustments \subseteq Nat \ {0}
         /\ Tiers \subseteq [min: Nat, rate: Nat]
         /\ {Timeout, Grace, StaleAfter} \subseteq Nat
         /\ MaxMonth \in Nat \ {0} /\ MaxMoves \in Nat

VARIABLES month,
          home,       \* the organization of a screen
          used,       \* screens with usage last month (device_usage_daily)
          paying,     \* includedEligible
          granted,    \* ledger: grants, by organization and month
          included,   \* ledger: sum of the included bucket, by organization and month
          purchased,  \* ledger: sum of the purchased bucket
          adjusted,   \* ledger: an administrator's part of it
          applied,    \* ledger: the purchases, by order
          res,        \* ai_credit_reservations, by key
          age,        \* of a pending reservation, in ticks
          attempt,    \* the request that works on a reservation, if one does
          moves

fleet == <<month, home, used, paying>>
ledger == <<granted, included, purchased, adjusted, applied>>
vars == <<fleet, ledger, res, age, attempt, moves>>

Months == 1..MaxMonth
Max2(a, b) == IF a > b THEN a ELSE b
Min2(a, b) == IF a < b THEN a ELSE b

WindowAsSet == StaleAfter   \* mutant: whatever the environment says

\* staleWindowSec: never shorter than a live attempt can take.
StaleWindow == Max2(StaleAfter, Timeout + Grace)

Reservation == [org: Orgs, inc: Nat, pur: Nat, month: Months,
                status: {"pending", "committed", "released"}]
ASSUME UnusedAssumption == Unused \notin Reservation

TypeOK ==
  /\ month \in Months /\ home \in [Screens -> Orgs \cup {Elsewhere}]
  /\ used \subseteq Screens /\ paying \subseteq Orgs
  /\ granted \in [Orgs -> [Months -> Int]] /\ included \in [Orgs -> [Months -> Int]]
  /\ purchased \in [Orgs -> Int] /\ adjusted \in [Orgs -> Int]
  /\ applied \in [Orders -> Orgs \cup {Unused}]
  /\ res \in [Keys -> Reservation \cup {Unused}]
  /\ age \in [Keys -> 0..(StaleWindow + 1)]
  /\ attempt \in [Keys -> {"none", "calling", "ingesting", "delivered", "unanswered"}]
  /\ moves \in 0..MaxMoves

Init ==
  /\ month = 1 /\ home \in [Screens -> Orgs \cup {Elsewhere}] /\ used \in SUBSET Screens /\ paying = Orgs
  /\ granted = [o \in Orgs |-> [m \in Months |-> 0]] /\ included = granted
  /\ purchased = [o \in Orgs |-> 0] /\ adjusted = purchased
  /\ applied = [s \in Orders |-> Unused] /\ res = [k \in Keys |-> Unused]
  /\ age = [k \in Keys |-> 0] /\ attempt = [k \in Keys |-> "none"] /\ moves = 0

-----------------------------------------------------------------------------
(* The ledger.                                                             *)

Pending(k) == res[k] # Unused /\ res[k].status = "pending"

\* tierFor: one flat rate for all of them, that of the highest tier they reach, so
\* more screens may come cheaper than fewer.
Reached(n) == {t \in Tiers : t.min <= n}
Rate(n) == IF Reached(n) = {} THEN 0
           ELSE (CHOOSE t \in Reached(n) : \A u \in Reached(n) : u.min <= t.min).rate
Credits(n) == n * Rate(n)

\* orgScreenBill and includedFor: last month's usage, over the screens that are
\* the organization's now.
Entitled(o) == IF o \in paying THEN Credits(Cardinality({s \in used : home[s] = o})) ELSE 0

TopUpInFull(o) ==   \* mutant: a top-up of the whole entitlement
  IF Entitled(o) > granted[o][month] THEN Entitled(o) ELSE 0

\* ensureIncludedGrant: up to the entitlement, and never back.
TopUp(o) == Max2(Entitled(o) - granted[o][month], 0)
Grant(o) == granted' = [granted EXCEPT ![o][month] = @ + TopUp(o)]

\* balanceView: whoever looks at the balance has it granted.
View(o) ==
  /\ TopUp(o) > 0 /\ Grant(o)
  /\ included' = [included EXCEPT ![o][month] = @ + TopUp(o)]
  /\ UNCHANGED <<fleet, purchased, adjusted, applied, res, age, attempt, moves>>

\* Included credits are spent first.
FromIncluded(o, p) == Min2(Max2(0, included[o][month] + TopUp(o)), p)

\* reserve: grant, check and debit in one transaction.  A refusal rolls back; a
\* key that was used is answered from its reservation.
Reserve(k, o, p) ==
  LET inc == FromIncluded(o, p) IN
  /\ res[k] = Unused /\ included[o][month] + TopUp(o) + purchased[o] >= p
  /\ Grant(o)
  /\ included' = [included EXCEPT ![o][month] = @ + TopUp(o) - inc]
  /\ purchased' = [purchased EXCEPT ![o] = @ - (p - inc)]
  /\ res' = [res EXCEPT ![k] = [org |-> o, inc |-> inc, pur |-> p - inc,
                                month |-> month, status |-> "pending"]]
  /\ attempt' = [attempt EXCEPT ![k] = "calling"]
  /\ UNCHANGED <<fleet, adjusted, applied, age, moves>>

RefundedNow(k) == month   \* mutant: into the month it is now

\* An included credit goes back to the month it came from, which may be over.
RefundMonth(k) == res[k].month

\* release: what is pending is refunded into the buckets it came from.
Release(k) ==
  IF Pending(k)
  THEN /\ res' = [res EXCEPT ![k].status = "released"]
       /\ included' = [included EXCEPT ![res[k].org][RefundMonth(k)] = @ + res[k].inc]
       /\ purchased' = [purchased EXCEPT ![res[k].org] = @ + res[k].pur]
  ELSE UNCHANGED <<res, included, purchased>>

\* recordPurchase, by session id: Stripe may deliver its event again.
Purchase(o, s) ==
  /\ applied[s] = Unused /\ applied' = [applied EXCEPT ![s] = o]
  /\ purchased' = [purchased EXCEPT ![o] = @ + Pack]
  /\ UNCHANGED <<fleet, granted, included, adjusted, res, age, attempt, moves>>

Moved == moves < MaxMoves /\ moves' = moves + 1

AdminAdjust(o, d) ==
  /\ purchased[o] + d >= 0 /\ Moved
  /\ purchased' = [purchased EXCEPT ![o] = @ + d] /\ adjusted' = [adjusted EXCEPT ![o] = @ + d]
  /\ UNCHANGED <<fleet, granted, included, applied, res, age, attempt>>

-----------------------------------------------------------------------------
(* A request between reserve and its answer.                               *)

Generated(k) ==
  /\ attempt[k] = "calling" /\ attempt' = [attempt EXCEPT ![k] = "ingesting"]
  /\ UNCHANGED <<fleet, ledger, res, age, moves>>

\* The provider, its timeout or the library refuses.
Fails(k) ==
  /\ attempt[k] \in {"calling", "ingesting"} /\ attempt' = [attempt EXCEPT ![k] = "none"]
  /\ Release(k)
  /\ UNCHANGED <<fleet, granted, adjusted, applied, age, moves>>

\* The image lands in the library and, before anything else can run, is committed.  A
\* reservation swept meanwhile stays released, and the image goes out all the same.
Commit(k) ==
  /\ attempt[k] = "ingesting" /\ attempt' = [attempt EXCEPT ![k] = "delivered"]
  /\ res' = IF Pending(k) THEN [res EXCEPT ![k].status = "committed"] ELSE res
  /\ UNCHANGED <<fleet, ledger, age, moves>>

\* The process dies, or the outcome cannot be written: with the image already in the
\* library, perhaps.
Abandoned(k) ==
  /\ \/ attempt[k] \in {"calling", "ingesting"} /\ attempt' = [attempt EXCEPT ![k] = "none"]
     \/ attempt[k] = "ingesting" /\ attempt' = [attempt EXCEPT ![k] = "unanswered"]
  /\ UNCHANGED <<fleet, ledger, res, age, moves>>

StaleThisMonth(k) == Pending(k) /\ res[k].month = month /\ age[k] > StaleWindow   \* mutant

Stale(k) == Pending(k) /\ age[k] > StaleWindow

\* sweepStale, for one of the rows it found: each is a transaction of its own.
Sweep(k) ==
  /\ Stale(k) /\ Release(k)
  /\ UNCHANGED <<fleet, granted, adjusted, applied, age, attempt, moves>>

-----------------------------------------------------------------------------
(* Time and the fleet.                                                     *)

\* The provider's call is aborted at its timeout; nothing bounds ingest.
Tick ==
  /\ \E k \in Keys : Pending(k) /\ age[k] <= StaleWindow
  /\ \A k \in Keys : attempt[k] = "calling" => age[k] < Timeout
  /\ age' = [k \in Keys |-> IF Pending(k) THEN Min2(age[k] + 1, StaleWindow + 1) ELSE age[k]]
  /\ UNCHANGED <<fleet, ledger, res, attempt, moves>>

\* Which screens were on during the month that ends.
MonthTurns ==
  /\ month < MaxMonth /\ month' = month + 1 /\ used' \in SUBSET Screens
  /\ UNCHANGED <<home, paying, ledger, res, age, attempt, moves>>

PlanChanges(o) ==
  /\ Moved /\ paying' = (IF o \in paying THEN paying \ {o} ELSE paying \cup {o})
  /\ UNCHANGED <<month, home, used, ledger, res, age, attempt>>

\* moveOne across organizations, or a delete.  The usage stays with the screen.
ScreenMoves(s, o) ==
  /\ home[s] # o /\ Moved /\ home' = [home EXCEPT ![s] = o]
  /\ UNCHANGED <<month, used, paying, ledger, res, age, attempt>>

Next ==
  \/ \E o \in Orgs : \/ View(o) \/ PlanChanges(o)
                     \/ \E k \in Keys, p \in Prices : Reserve(k, o, p)
                     \/ \E s \in Orders : Purchase(o, s)
                     \/ \E d \in Adjustments : AdminAdjust(o, d) \/ AdminAdjust(o, -d)
  \/ \E k \in Keys : Generated(k) \/ Fails(k) \/ Commit(k) \/ Abandoned(k) \/ Sweep(k)
  \/ \E s \in Screens, o \in Orgs \cup {Elsewhere} : ScreenMoves(s, o)
  \/ Tick \/ MonthTurns

\* The provider's call ends by its timeout in one way or another (an ingest may hang);
\* the clock runs and so does the ten-minute sweep.
Answered(k) == attempt[k] = "calling" /\ (Generated(k) \/ Fails(k) \/ Abandoned(k))
Spec == /\ Init /\ [][Next]_vars
        /\ WF_vars(Tick) /\ \A k \in Keys : WF_vars(Answered(k)) /\ WF_vars(Sweep(k))

-----------------------------------------------------------------------------
\* "Never negative": no interleaving of grants, debits, refunds into months that
\* are over, and adjustments overdraws a bucket.
NeverNegative == \A o \in Orgs : purchased[o] >= 0 /\ \A m \in Months : included[o][m] >= 0

\* "No charge for a failure", "no double charge": what is missing from a bucket is
\* what its unreleased reservations took, each once, and what came in came once.
Held(o) == {k \in Keys : res[k] # Unused /\ res[k].org = o /\ res[k].status # "released"}
HeldOf(o, m) == {k \in Held(o) : res[k].month = m}
Bought(o) == {s \in Orders : applied[s] = o}
Reconciled ==
  \A o \in Orgs :
    /\ purchased[o] = Pack * Cardinality(Bought(o)) + adjusted[o]
                        - SumFunction([k \in Held(o) |-> res[k].pur])
    /\ \A m \in Months :
         included[o][m] = granted[o][m] - SumFunction([k \in HeldOf(o, m) |-> res[k].inc])

\* While the provider is asked the reservation holds.  An image in the library is
\* refunded, or was answered to its customer uncharged, only if the sweep came more
\* than the provider's timeout and the five minutes after the reserve, however the window
\* is configured: its ingest outlasted them, or nobody was left to commit it.
Outlasted(k) == age[k] > Timeout + Grace
DeliveredIsCharged ==
  \A k \in Keys :
    /\ attempt[k] = "calling" => Pending(k)
    /\ attempt[k] = "delivered" => res[k].status = "committed" \/ Outlasted(k)
    /\ attempt[k] = "unanswered" => Pending(k) \/ Outlasted(k)

\* Top-ups add up to a bill, whatever the plan and the fleet do between them: what an
\* organization is granted for a month is the share of the bill of some part of the
\* fleet, one and the same, never of two parts added together.
WithinBill == \A o \in Orgs : \E n \in 0..Cardinality(used) : granted[o][month] = Credits(n)

\* No credit stays in a reservation: every attempt is committed or refunded.
Settles == \A k \in Keys : Pending(k) ~> ~Pending(k)

-----------------------------------------------------------------------------
\* What comments of the code say and the code does not do: TLC refutes each.

\* "swept mid-flight, which staleWindowSec() rules out" (routes/ai-hosted.js): an ingest
\* that outlasts the window is swept.
NoImageIsFree == \A k \in Keys : attempt[k] = "delivered" => res[k].status = "committed"

\* "The bill is fixed for the month (see orgScreenBill), so this grants once"
\* (ensureIncludedGrant): a screen takes its closed month along to another organization.
GrantsOnce ==
  [][\A o \in Orgs : granted[o][month] # 0 => granted'[o][month] = granted[o][month]]_vars

\* "The cap is 10% of the bill" (docs/ai-credits.md): where fewer screens are billed
\* more, moving one away raises the grant above the whole fleet's bill.
CapIsTheBill == \A o \in Orgs : granted[o][month] <= Credits(Cardinality(used))
=============================================================================
