--------------------------- MODULE AiCreditsProofs ---------------------------
(***************************************************************************)
(* No bucket is overdrawn, no image is free before the window is over, the *)
(* books balance and grants are the shares of bills, for any prices, rate  *)
(* table, timeouts, months, organizations and fleet.                       *)
(***************************************************************************)
EXTENDS AiCredits, FiniteSetTheorems, WellFoundedInduction, TLAPS

-----------------------------------------------------------------------------
(* Sums over finite sets: SumFunction is a fold, whose recursion is shown  *)
(* to have a solution that does not depend on the order of the elements.   *)

\* Every nonempty set of natural numbers has a least element.
LEMMA LeastNat ==
  ASSUME NEW T, T \subseteq Nat, T # {}
  PROVE  \E m \in T : \A k \in T : m <= k
<1>. DEFINE Less == {p \in Nat \X Nat : p[1] < p[2]}
<1>1. IsWellFoundedOn(Less, Nat)
  BY NatLessThanWellFounded DEF OpToRel
<1>2. \E m \in T : \A k \in T : <<k, m>> \notin Less
  <2>. HIDE DEF Less
  <2>. QED BY <1>1, WFMin
<1>3. \A m, k \in T : <<k, m>> \in Less <=> k < m
  OBVIOUS
<1>4. \A m, k \in T : k < m \/ m <= k
  OBVIOUS
<1>. HIDE DEF Less
<1>. QED BY <1>2, <1>3, <1>4

\* Induction over the natural numbers, stated of a set.
LEMMA NumbersByInduction ==
  ASSUME NEW T, 0 \in T, \A n \in Nat : n \in T => n + 1 \in T
  PROVE  Nat \subseteq T
<1>. SUFFICES ASSUME Nat \ T # {} PROVE FALSE
  OBVIOUS
<1>1. PICK m \in Nat \ T : \A n \in Nat \ T : m <= n
  BY LeastNat
<1>2. m - 1 \in Nat /\ m - 1 \in T
  <2>1. m # 0
    BY <1>1
  <2>. QED BY <2>1, <1>1
<1>. QED BY <1>2

\* The recursion SumFunction is: the fold takes an element at a time.
Pick(s) == CHOOSE x \in s : TRUE
Total(g, f, s) == IF s = {} THEN 0 ELSE f[Pick(s)] + g[s \ {Pick(s)}]
Adds(g, f, S) == g = [s \in SUBSET S |-> Total(g, f, s)]

LEMMA SumUnfolds ==
  ASSUME NEW f
  PROVE  SumFunction(f) = (CHOOSE g : Adds(g, f, DOMAIN f))[DOMAIN f]
BY DEF SumFunction, SumFunctionOnSet, FoldFunctionOnSet, MapThenFoldSet, Adds, Total, Pick

\* Taking an element from a finite set leaves one that is smaller by one.
LEMMA Smaller ==
  ASSUME NEW s, IsFiniteSet(s), NEW x \in s
  PROVE  /\ IsFiniteSet(s \ {x})
         /\ Cardinality(s) \in Nat \ {0} /\ Cardinality(s \ {x}) = Cardinality(s) - 1
<1>1. IsFiniteSet(s \ {x}) /\ Cardinality(s \ {x}) = Cardinality(s) - 1
  BY FS_RemoveElement
<1>2. Cardinality(s) \in Nat /\ Cardinality(s \ {x}) \in Nat
  BY <1>1, FS_CardinalityType
<1>. QED BY <1>1, <1>2

LEMMA PickIsIn == ASSUME NEW s, s # {} PROVE Pick(s) \in s
BY DEF Pick

\* Subsets of a finite set, by size: what holds of the empty set, and of a set when
\* it holds of the smaller ones, holds of all.
LEMMA SubsetsBySize ==
  ASSUME NEW S, IsFiniteSet(S), NEW F,
         \A s \in SUBSET S : (\A x \in s : s \ {x} \in F) => s \in F
  PROVE  SUBSET S \subseteq F
<1> DEFINE T == {n \in Nat : \A s \in SUBSET S : Cardinality(s) = n => s \in F}
<1>1. \A s \in SUBSET S : IsFiniteSet(s) /\ Cardinality(s) \in Nat
  BY FS_Subset, FS_CardinalityType
<1>2. 0 \in T
  <2>1. \A s \in SUBSET S : Cardinality(s) = 0 => s = {}
    BY <1>1, FS_EmptySet
  <2>. QED BY <2>1
<1>3. ASSUME NEW n \in Nat, n \in T PROVE n + 1 \in T
  <2> SUFFICES ASSUME NEW s \in SUBSET S, Cardinality(s) = n + 1 PROVE s \in F
    OBVIOUS
  <2>1. ASSUME NEW x \in s PROVE s \ {x} \in SUBSET S /\ Cardinality(s \ {x}) = n
    <3>1. IsFiniteSet(s)
      BY <1>1
    <3>2. Cardinality(s \ {x}) = Cardinality(s) - 1
      BY <3>1, Smaller
    <3>. QED BY <3>2
  <2>. QED BY <1>3, <2>1
<1>4. Nat \subseteq T
  <2>. HIDE DEF T
  <2>. QED BY <1>2, <1>3, NumbersByInduction
<1>. QED BY <1>1, <1>4

\* The recursion has a solution on a finite set.
LEMMA SumExists ==
  ASSUME NEW S, IsFiniteSet(S), NEW f \in [S -> Int]
  PROVE  \E g \in [SUBSET S -> Int] : Adds(g, f, S)
<1> DEFINE Small(n) == {s \in SUBSET S : Cardinality(s) <= n}
           Solves(v, n) == v \in [Small(n) -> Int] /\ \A s \in Small(n) : v[s] = Total(v, f, s)
           T == {n \in Nat : \E v : Solves(v, n)}
<1>0. \A s \in SUBSET S : IsFiniteSet(s) /\ Cardinality(s) \in Nat
  BY FS_Subset, FS_CardinalityType
<1>1. 0 \in T
  <2> DEFINE z == [s \in Small(0) |-> 0]
  <2>1. \A s \in Small(0) : s = {}
    BY <1>0, FS_EmptySet
  <2>2. Solves(z, 0)
    BY <2>1 DEF Total
  <2> HIDE DEF z, Solves
  <2>. QED BY <2>2
<1>2. ASSUME NEW n \in Nat, n \in T PROVE n + 1 \in T
  <2>1. PICK v : Solves(v, n)
    BY <1>2
  <2> DEFINE w == [s \in Small(n + 1) |-> Total(v, f, s)]
  <2>2. ASSUME NEW s \in Small(n + 1), s # {}
        PROVE  s \ {Pick(s)} \in Small(n) /\ Pick(s) \in S
    <3>1. Pick(s) \in s
      BY <2>2, PickIsIn
    <3>2. Cardinality(s \ {Pick(s)}) = Cardinality(s) - 1 /\ Cardinality(s) \in Nat
      BY <1>0, <3>1, Smaller
    <3>. QED BY <3>1, <3>2
  <2>3. \A s \in Small(n + 1) : Total(v, f, s) \in Int
    BY <2>1, <2>2 DEF Total
  <2>4. w \in [Small(n + 1) -> Int]
    BY <2>3
  <2>5. \A s \in Small(n) : s \in Small(n + 1) /\ w[s] = v[s]
    BY <1>0, <2>1
  <2>6. \A s \in Small(n + 1) : w[s] = Total(w, f, s)
    BY <2>2, <2>5 DEF Total
  <2>7. Solves(w, n + 1)
    BY <2>4, <2>6
  <2> HIDE DEF w, Solves
  <2>. QED BY <2>7
<1>3. Cardinality(S) \in T
  <2>1. Cardinality(S) \in Nat
    BY FS_CardinalityType
  <2>. HIDE DEF T
  <2>2. Nat \subseteq T
    BY <1>1, <1>2, NumbersByInduction
  <2>. QED BY <2>1, <2>2
<1>4. Small(Cardinality(S)) = SUBSET S
  BY <1>0, FS_Subset, FS_CardinalityType
<1>5. PICK v : Solves(v, Cardinality(S))
  BY <1>3
<1>6. v \in [SUBSET S -> Int] /\ \A s \in SUBSET S : v[s] = Total(v, f, s)
  BY <1>4, <1>5
<1>. QED BY <1>6 DEF Adds

\* The sum over a finite set is a value of that recursion, whose values are numbers.
LEMMA SumIs ==
  ASSUME NEW S, IsFiniteSet(S), NEW f \in [S -> Int]
  PROVE  \E g : /\ \A s \in SUBSET S : g[s] = Total(g, f, s) /\ g[s] \in Int
                /\ SumFunction(f) = g[S]
<1> DEFINE g == CHOOSE g : Adds(g, f, S)
<1>1. \E h : Adds(h, f, S)
  BY SumExists
<1>2. Adds(g, f, S)
  BY <1>1
<1>3. SumFunction(f) = g[S]
  BY SumUnfolds
<1> HIDE DEF g
<1>4. \A s \in SUBSET S : g[s] = Total(g, f, s)
  BY <1>2 DEF Adds
<1> DEFINE F == {s \in SUBSET S : g[s] \in Int}
<1>5. ASSUME NEW s \in SUBSET S, \A y \in s : s \ {y} \in F PROVE s \in F
  <2>1. s # {} => Pick(s) \in S /\ g[s \ {Pick(s)}] \in Int
    BY <1>5, PickIsIn
  <2>2. g[s] = Total(g, f, s)
    BY <1>4
  <2>. QED BY <2>1, <2>2 DEF Total
<1>6. SUBSET S \subseteq F
  <2>. HIDE DEF F
  <2>. QED BY <1>5, SubsetsBySize
<1>. QED BY <1>3, <1>4, <1>6

LEMMA SumType ==
  ASSUME NEW S, IsFiniteSet(S), NEW f \in [S -> Int]
  PROVE  SumFunction(f) \in Int
BY SumIs

LEMMA SumOfNothing == ASSUME NEW f \in [{} -> Int] PROVE SumFunction(f) = 0
<1>1. IsFiniteSet({})
  BY FS_EmptySet
<1>2. PICK g : /\ \A s \in SUBSET {} : g[s] = Total(g, f, s) /\ g[s] \in Int
               /\ SumFunction(f) = g[{}]
  BY <1>1, SumIs
<1>. QED BY <1>2 DEF Total

\* Whichever element is taken out first, the rest is the sum of the others.
LEMMA SumTakes ==
  ASSUME NEW S, IsFiniteSet(S), NEW f \in [S -> Int], NEW x \in S,
         NEW e \in [S \ {x} -> Int], \A y \in S \ {x} : e[y] = f[y]
  PROVE  SumFunction(f) = SumFunction(e) + f[x]
<1>1. IsFiniteSet(S \ {x})
  BY FS_RemoveElement
<1>2. PICK g : /\ \A s \in SUBSET S : g[s] = Total(g, f, s) /\ g[s] \in Int
               /\ SumFunction(f) = g[S]
  BY SumIs
<1>3. PICK h : /\ \A s \in SUBSET (S \ {x}) : h[s] = Total(h, e, s) /\ h[s] \in Int
               /\ SumFunction(e) = h[S \ {x}]
  BY <1>1, SumIs
<1>4. \A s \in SUBSET S : \A z \in s : g[s] = f[z] + g[s \ {z}]
  <2> DEFINE F == {s \in SUBSET S : \A z \in s : g[s] = f[z] + g[s \ {z}]}
  <2>1. ASSUME NEW s \in SUBSET S, \A y \in s : s \ {y} \in F, NEW z \in s
        PROVE  g[s] = f[z] + g[s \ {z}]
    <3>1. Pick(s) \in s /\ g[s] = f[Pick(s)] + g[s \ {Pick(s)}]
      BY <1>2, PickIsIn DEF Total
    <3>2. CASE Pick(s) = z
      BY <3>1, <3>2
    <3>3. CASE Pick(s) # z
      <4>1. g[s \ {Pick(s)}] = f[z] + g[(s \ {Pick(s)}) \ {z}]
        BY <2>1, <3>1, <3>3
      <4>2. g[s \ {z}] = f[Pick(s)] + g[(s \ {z}) \ {Pick(s)}]
        BY <2>1, <3>1, <3>3
      <4>3. (s \ {Pick(s)}) \ {z} = (s \ {z}) \ {Pick(s)}
        OBVIOUS
      <4>4. /\ f[z] \in Int /\ f[Pick(s)] \in Int /\ g[(s \ {z}) \ {Pick(s)}] \in Int
        BY <1>2, <3>1
      <4>5. g[s \ {Pick(s)}] = f[z] + g[(s \ {z}) \ {Pick(s)}]
        BY <4>1, <4>3
      <4>6. g[s] = f[Pick(s)] + (f[z] + g[(s \ {z}) \ {Pick(s)}])
        BY <3>1, <4>5
      <4> HIDE DEF F
      <4>. QED BY <4>2, <4>4, <4>6
    <3>. QED BY <3>2, <3>3
  <2>2. \A s \in SUBSET S : (\A y \in s : s \ {y} \in F) => s \in F
    BY <2>1
  <2>3. SUBSET S \subseteq F
    <3>. HIDE DEF F
    <3>. QED BY <2>2, SubsetsBySize
  <2>. QED BY <2>3
<1>5. \A s \in SUBSET (S \ {x}) : g[s] = h[s]
  <2> DEFINE F == {s \in SUBSET (S \ {x}) : g[s] = h[s]}
  <2>1. ASSUME NEW s \in SUBSET (S \ {x}), \A y \in s : s \ {y} \in F
        PROVE  g[s] = h[s]
    <3>1. s \in SUBSET S /\ g[s] = Total(g, f, s) /\ h[s] = Total(h, e, s)
      BY <1>2, <1>3
    <3>2. s # {} => Pick(s) \in s /\ g[s \ {Pick(s)}] = h[s \ {Pick(s)}]
      BY <2>1, PickIsIn
    <3>3. s # {} => f[Pick(s)] = e[Pick(s)]
      BY <3>2
    <3>. QED BY <3>1, <3>2, <3>3 DEF Total
  <2>2. \A s \in SUBSET (S \ {x}) : (\A y \in s : s \ {y} \in F) => s \in F
    BY <2>1
  <2>3. SUBSET (S \ {x}) \subseteq F
    <3> DEFINE R == S \ {x}
    <3>1. IsFiniteSet(R) /\ \A s \in SUBSET R : (\A y \in s : s \ {y} \in F) => s \in F
      BY <1>1, <2>2
    <3>2. SUBSET R \subseteq F
      <4>. HIDE DEF F, R
      <4>. QED BY <3>1, SubsetsBySize
    <3>. QED BY <3>2
  <2>. QED BY <2>3
<1>6. g[S] = f[x] + g[S \ {x}] /\ g[S \ {x}] = h[S \ {x}] /\ h[S \ {x}] \in Int /\ f[x] \in Int
  BY <1>3, <1>4, <1>5
<1>. QED BY <1>2, <1>3, <1>6

\* A new element adds its value.
LEMMA SumJoins ==
  ASSUME NEW S, IsFiniteSet(S), NEW f \in [S -> Int], NEW x, x \notin S,
         NEW e \in [S \cup {x} -> Int], \A y \in S : e[y] = f[y]
  PROVE  SumFunction(e) = SumFunction(f) + e[x]
<1> DEFINE R == S \cup {x}
<1>1. IsFiniteSet(R) /\ x \in R
  BY FS_AddElement
<1>2. R \ {x} = S
  OBVIOUS
<1>3. f \in [R \ {x} -> Int] /\ e \in [R -> Int] /\ \A y \in R \ {x} : f[y] = e[y]
  BY <1>2
<1>. HIDE DEF R
<1>. QED BY <1>1, <1>3, SumTakes

\* An element that leaves takes its value.
LEMMA SumLeaves ==
  ASSUME NEW S, NEW T, NEW f, NEW e, NEW x, IsFiniteSet(S), x \in S, T = S \ {x},
         f \in [S -> Int], e \in [T -> Int], \A y \in T : e[y] = f[y]
  PROVE  SumFunction(e) = SumFunction(f) - f[x]
<1>1. IsFiniteSet(T)
  BY FS_RemoveElement
<1>2. SumFunction(f) = SumFunction(e) + f[x]
  BY SumTakes
<1>3. SumFunction(f) \in Int /\ SumFunction(e) \in Int /\ f[x] \in Int
  BY <1>1, SumType
<1>. QED BY <1>2, <1>3

-----------------------------------------------------------------------------
(* The ledger's buckets and the reservations' states.                      *)

\* While the provider is asked the reservation is pending and young; later it may
\* have been swept, but not before the window was over.
LiveIsPending ==
  \A k \in Keys :
    /\ attempt[k] # "none" => res[k] # Unused
    /\ attempt[k] = "calling" => Pending(k) /\ age[k] <= Timeout
    /\ attempt[k] \in {"ingesting", "unanswered"} => Pending(k) \/ Outlasted(k)
    /\ attempt[k] = "delivered" => res[k].status = "committed" \/ Outlasted(k)

\* A key that was never used has not aged.
Fresh == \A k \in Keys : res[k] = Unused => age[k] = 0 /\ attempt[k] = "none"

IInv == TypeOK /\ NeverNegative /\ LiveIsPending /\ Fresh

\* The window is a number that no call of the provider reaches.
LEMMA WindowCovers == StaleWindow \in Nat /\ Timeout + Grace \in Nat /\ Timeout + Grace <= StaleWindow
BY CreditsAssumption DEF StaleWindow, Max2

\* Of the tiers a number of screens reaches one is the highest.
LEMMA CreditsType ==
  ASSUME NEW n \in Nat
  PROVE  Rate(n) \in Nat /\ Credits(n) \in Nat
<1>1. CASE Reached(n) = {}
  BY <1>1 DEF Rate, Credits
<1>2. CASE Reached(n) # {}
  <2>1. \A t \in Reached(n) : t \in Tiers /\ t.min \in Nat /\ t.rate \in Nat /\ t.min <= n
    BY CreditsAssumption DEF Reached
  <2>. DEFINE gaps == {n - t.min : t \in Reached(n)}
  <2>2. gaps \subseteq Nat /\ gaps # {} /\ \A t \in Reached(n) : n - t.min \in gaps
    BY <1>2, <2>1
  <2>3. \A g \in gaps : \E t \in Reached(n) : g = n - t.min
    OBVIOUS
  <2>. HIDE DEF gaps
  <2>4. PICK g \in gaps : \A k \in gaps : g <= k
    BY <2>2, LeastNat
  <2>5. PICK t \in Reached(n) : g = n - t.min
    BY <2>3
  <2>6. \A u \in Reached(n) : u.min <= t.min
    <3> TAKE u \in Reached(n)
    <3>1. n - t.min <= n - u.min
      BY <2>2, <2>4, <2>5
    <3>. QED BY <2>1, <3>1
  <2>7. PICK h : h = CHOOSE v \in Reached(n) : \A u \in Reached(n) : u.min <= v.min
    OBVIOUS
  <2>8. h \in Reached(n)
    BY <2>6, <2>7
  <2>9. Rate(n) = h.rate
    BY <1>2, <2>7 DEF Rate
  <2>10. Rate(n) \in Nat
    BY <2>1, <2>8, <2>9
  <2>11. \A a, b \in Nat : a * b \in Nat
    OBVIOUS
  <2>. QED BY <2>10, <2>11 DEF Credits
<1>. QED BY <1>1, <1>2

\* What an organization is entitled to is the bill of some part of the fleet.
LEMMA EntitledToABill ==
  ASSUME TypeOK, NEW o \in Orgs
  PROVE  /\ Cardinality(used) \in Nat /\ Entitled(o) \in Nat
         /\ \E n \in 0..Cardinality(used) : Entitled(o) = Credits(n)
<1> DEFINE mine == {s \in used : home[s] = o}
<1>1. IsFiniteSet(used)
  BY CreditsAssumption, FS_Subset DEF TypeOK
<1>2. mine \subseteq used
  OBVIOUS
<1>3. Cardinality(used) \in Nat /\ Cardinality(mine) \in Nat /\ Cardinality(mine) <= Cardinality(used)
  <2>. HIDE DEF mine
  <2>. QED BY <1>1, <1>2, FS_Subset, FS_CardinalityType
<1>4. PICK n : n = Cardinality(mine)
  OBVIOUS
<1>5. n \in 0..Cardinality(used) /\ n \in Nat /\ 0 \in 0..Cardinality(used)
  BY <1>3, <1>4
<1>6. Credits(n) \in Nat /\ Credits(0) = 0
  <2>1. Rate(0) \in Nat
    BY CreditsType
  <2>2. Credits(0) = 0 * Rate(0)
    BY DEF Credits
  <2>. QED BY <1>5, <2>1, <2>2, CreditsType
<1>7. Entitled(o) = Credits(n) \/ Entitled(o) = 0
  BY <1>4 DEF Entitled
<1>. QED BY <1>3, <1>5, <1>6, <1>7

LEMMA TopUpType ==
  ASSUME TypeOK, NEW o \in Orgs
  PROVE  TopUp(o) \in Nat
<1>1. Entitled(o) \in Nat /\ granted[o][month] \in Int
  BY EntitledToABill DEF TypeOK
<1>. QED BY <1>1 DEF TopUp, Max2

LEMMA GrantType ==
  ASSUME TypeOK, NEW o \in Orgs, Grant(o)
  PROVE  granted' \in [Orgs -> [Months -> Int]]
BY TopUpType DEF Grant, TypeOK

\* A reservation of a key is what the type says.
LEMMA ReservationType ==
  ASSUME TypeOK, NEW k \in Keys, res[k] # Unused
  PROVE  res[k] \in Reservation /\ res[k].org \in Orgs /\ res[k].month \in Months
         /\ res[k].inc \in Nat /\ res[k].pur \in Nat
BY DEF TypeOK, Reservation

\* A refund adds to two buckets and touches one reservation.
LEMMA ReleaseKeeps ==
  ASSUME IInv, NEW k \in Keys, Release(k)
  PROVE  /\ included' \in [Orgs -> [Months -> Int]] /\ purchased' \in [Orgs -> Int]
         /\ res' \in [Keys -> Reservation \cup {Unused}]
         /\ NeverNegative'
         /\ \A j \in Keys : j # k => res'[j] = res[j]
         /\ res'[k] = Unused <=> res[k] = Unused
<1>1. CASE ~Pending(k)
  BY <1>1 DEF Release, IInv, TypeOK, NeverNegative
<1>2. CASE Pending(k)
  <2>1. res[k] # Unused /\ TypeOK /\ NeverNegative
    BY <1>2 DEF Pending, IInv
  <2>2. res[k] \in Reservation /\ res[k].org \in Orgs /\ res[k].month \in Months
        /\ res[k].inc \in Nat /\ res[k].pur \in Nat
    BY <2>1, ReservationType
  <2>3. /\ res' = [res EXCEPT ![k].status = "released"]
        /\ included' = [included EXCEPT ![res[k].org][res[k].month] = @ + res[k].inc]
        /\ purchased' = [purchased EXCEPT ![res[k].org] = @ + res[k].pur]
    BY <1>2 DEF Release, RefundMonth
  <2>4. included' \in [Orgs -> [Months -> Int]] /\ purchased' \in [Orgs -> Int]
    BY <2>1, <2>2, <2>3 DEF TypeOK
  <2>5. NeverNegative'
    <3>1. \A o \in Orgs : purchased'[o] >= purchased[o]
      BY <2>1, <2>2, <2>3 DEF TypeOK
    <3>2. \A o \in Orgs, m \in Months : included'[o][m] >= included[o][m]
      <4> TAKE o \in Orgs, m \in Months
      <4>1. included'[o] = IF o = res[k].org
                           THEN [included[o] EXCEPT ![res[k].month] = @ + res[k].inc]
                           ELSE included[o]
        BY <2>1, <2>2, <2>3 DEF TypeOK
      <4>2. included[o] \in [Months -> Int]
        BY <2>1 DEF TypeOK
      <4>. QED BY <2>2, <4>1, <4>2
    <3>. QED BY <2>1, <2>4, <3>1, <3>2 DEF NeverNegative, TypeOK
  <2>6. /\ res' \in [Keys -> Reservation \cup {Unused}]
        /\ \A j \in Keys : j # k => res'[j] = res[j]
        /\ res'[k] # Unused
    <3>1. [res[k] EXCEPT !.status = "released"] \in Reservation
      BY <2>2 DEF Reservation
    <3>2. [res[k] EXCEPT !.status = "released"] # Unused
      BY <3>1, UnusedAssumption
    <3>. QED BY <2>1, <2>3, <3>1, <3>2 DEF TypeOK
  <2>. QED BY <2>1, <2>4, <2>5, <2>6
<1>. QED BY <1>1, <1>2

LEMMA InitInvariant == Init => IInv
BY CreditsAssumption, WindowCovers DEF Init, IInv, TypeOK, NeverNegative, LiveIsPending, Fresh, Months

LEMMA ViewKeeps == ASSUME IInv, NEW o \in Orgs, View(o) PROVE IInv'
<1>1. TypeOK /\ TopUp(o) \in Nat
  BY TopUpType DEF IInv
<1>2. granted' \in [Orgs -> [Months -> Int]]
  BY <1>1, GrantType DEF View
<1>3. /\ included' = [included EXCEPT ![o][month] = @ + TopUp(o)]
      /\ UNCHANGED <<fleet, purchased, adjusted, applied, res, age, attempt, moves>>
  BY DEF View
<1>4. included' \in [Orgs -> [Months -> Int]]
  BY <1>1, <1>3 DEF TypeOK
<1>5. TypeOK'
  BY <1>1, <1>2, <1>3, <1>4 DEF TypeOK, fleet
<1>6. NeverNegative'
  BY <1>1, <1>3 DEF IInv, NeverNegative, TypeOK
<1>7. (LiveIsPending /\ Fresh)'
  BY <1>3 DEF IInv, LiveIsPending, Fresh, Pending, Outlasted
<1>. QED BY <1>5, <1>6, <1>7 DEF IInv

\* What is taken from the included bucket is there, and the rest is in the other.
LEMMA ReserveKeeps ==
  ASSUME IInv, NEW k \in Keys, NEW o \in Orgs, NEW p \in Prices, Reserve(k, o, p)
  PROVE  IInv'
<1> DEFINE inc == FromIncluded(o, p)
           new == [org |-> o, inc |-> inc, pur |-> p - inc, month |-> month, status |-> "pending"]
<1>1. TypeOK /\ NeverNegative /\ TopUp(o) \in Nat /\ p \in Nat
  BY TopUpType, CreditsAssumption DEF IInv
<1>2. included[o][month] \in Nat /\ purchased[o] \in Nat /\ month \in Months
  BY <1>1 DEF TypeOK, NeverNegative
<1>3. /\ inc \in Nat /\ inc <= p /\ inc <= included[o][month] + TopUp(o)
      /\ (inc = p \/ inc = included[o][month] + TopUp(o))
  BY <1>1, <1>2 DEF FromIncluded, Min2, Max2
<1>4. /\ granted' \in [Orgs -> [Months -> Int]]
      /\ included[o][month] + TopUp(o) + purchased[o] >= p
      /\ included' = [included EXCEPT ![o][month] = @ + TopUp(o) - inc]
      /\ purchased' = [purchased EXCEPT ![o] = @ - (p - inc)]
      /\ res' = [res EXCEPT ![k] = new]
      /\ attempt' = [attempt EXCEPT ![k] = "calling"]
      /\ res[k] = Unused /\ UNCHANGED <<fleet, adjusted, applied, age, moves>>
  BY <1>1, GrantType DEF Reserve
<1>5. p - inc \in Nat /\ p - inc <= purchased[o]
  BY <1>1, <1>2, <1>3, <1>4
<1>6. new \in Reservation /\ new # Unused
  <2>1. new \in Reservation
    BY <1>2, <1>3, <1>5 DEF Reservation
  <2>. QED BY <2>1, UnusedAssumption
<1> HIDE DEF inc, new
<1>7. included' \in [Orgs -> [Months -> Int]] /\ purchased' \in [Orgs -> Int]
  BY <1>1, <1>2, <1>3, <1>4, <1>5 DEF TypeOK
<1>8. res' \in [Keys -> Reservation \cup {Unused}]
      /\ attempt' \in [Keys -> {"none", "calling", "ingesting", "delivered", "unanswered"}]
  BY <1>1, <1>4, <1>6 DEF TypeOK
<1>9. TypeOK'
  BY <1>1, <1>4, <1>7, <1>8 DEF TypeOK, fleet
<1>10. NeverNegative'
  BY <1>1, <1>2, <1>3, <1>4, <1>5 DEF NeverNegative, TypeOK
<1>11. new.status = "pending" /\ age[k] = 0 /\ Timeout \in Nat
  BY <1>4, CreditsAssumption DEF new, IInv, Fresh
<1>12. (LiveIsPending /\ Fresh)'
  BY <1>1, <1>4, <1>6, <1>11 DEF IInv, LiveIsPending, Fresh, Pending, Outlasted, TypeOK
<1>. QED BY <1>9, <1>10, <1>12 DEF IInv

\* Purchases and adjustments.
LEMMA LedgerKeeps ==
  ASSUME IInv, NEW o \in Orgs,
         \/ \E s \in Orders : Purchase(o, s)
         \/ \E d \in Adjustments : AdminAdjust(o, d) \/ AdminAdjust(o, -d)
  PROVE  IInv'
<1>1. CASE \E s \in Orders : Purchase(o, s)
  <2>1. TypeOK' /\ NeverNegative'
    BY <1>1, CreditsAssumption DEF Purchase, IInv, TypeOK, NeverNegative, fleet
  <2>2. (LiveIsPending /\ Fresh)'
    BY <1>1 DEF Purchase, IInv, LiveIsPending, Fresh, Pending, Outlasted
  <2>. QED BY <2>1, <2>2 DEF IInv
<1>2. ASSUME NEW d \in Int, AdminAdjust(o, d)
      PROVE  IInv'
  <2>1. TypeOK' /\ NeverNegative'
    <3>1. purchased' = [purchased EXCEPT ![o] = @ + d] /\ purchased[o] + d >= 0
          /\ adjusted' = [adjusted EXCEPT ![o] = @ + d] /\ moves' \in 0..MaxMoves
          /\ UNCHANGED <<fleet, granted, included, applied, res, age, attempt>>
      BY <1>2, CreditsAssumption DEF AdminAdjust, Moved, IInv, TypeOK
    <3>2. purchased' \in [Orgs -> Int] /\ adjusted' \in [Orgs -> Int]
      BY <1>2, <3>1 DEF IInv, TypeOK
    <3>. QED BY <3>1, <3>2 DEF IInv, TypeOK, NeverNegative, fleet
  <2>2. (LiveIsPending /\ Fresh)'
    BY <1>2 DEF AdminAdjust, IInv, LiveIsPending, Fresh, Pending, Outlasted
  <2>. QED BY <2>1, <2>2 DEF IInv
<1>3. \A d \in Adjustments : d \in Int /\ -d \in Int
  BY CreditsAssumption
<1>. QED BY <1>1, <1>2, <1>3

\* What a request and the sweep do to one reservation.
LEMMA AttemptKeeps ==
  ASSUME IInv, NEW k \in Keys,
         Generated(k) \/ Fails(k) \/ Commit(k) \/ Abandoned(k) \/ Sweep(k)
  PROVE  IInv'
<1>. USE DEF IInv
<1>1. CASE Generated(k) \/ Abandoned(k)
  <2>1. TypeOK' /\ NeverNegative'
    BY <1>1 DEF Generated, Abandoned, TypeOK, NeverNegative, fleet, ledger
  <2>2. /\ UNCHANGED <<res, age>> /\ attempt[k] # "none"
        /\ \A j \in Keys : j # k => attempt'[j] = attempt[j]
        /\ attempt'[k] \in {"none", "ingesting", "unanswered"} /\ attempt[k] \in {"calling", "ingesting"}
    BY <1>1 DEF Generated, Abandoned, TypeOK
  <2>3. (LiveIsPending /\ Fresh)'
    BY <2>2 DEF LiveIsPending, Fresh, Pending, Outlasted
  <2>. QED BY <2>1, <2>3
<1>2. CASE Fails(k) \/ Sweep(k)
  <2>1. Release(k) /\ UNCHANGED <<fleet, granted, adjusted, applied, age, moves>>
    BY <1>2 DEF Fails, Sweep
  <2>2. /\ included' \in [Orgs -> [Months -> Int]] /\ purchased' \in [Orgs -> Int]
        /\ res' \in [Keys -> Reservation \cup {Unused}] /\ NeverNegative'
        /\ \A j \in Keys : j # k => res'[j] = res[j]
        /\ res'[k] = Unused <=> res[k] = Unused
    BY <2>1, ReleaseKeeps
  <2>3. /\ attempt' \in [Keys -> {"none", "calling", "ingesting", "delivered", "unanswered"}]
        /\ attempt'[k] = "none" \/ (attempt'[k] = attempt[k] /\ attempt[k] # "calling" /\ Outlasted(k))
        /\ \A j \in Keys : j # k => attempt'[j] = attempt[j]
    <3>1. CASE Fails(k)
      BY <3>1 DEF Fails, TypeOK
    <3>2. CASE Sweep(k)
      <4>1. age[k] \in Nat /\ age[k] > StaleWindow
        BY <3>2, WindowCovers DEF Sweep, Stale, TypeOK
      <4>2. age[k] > Timeout + Grace /\ age[k] > Timeout
        BY <4>1, WindowCovers, CreditsAssumption
      <4>3. attempt[k] # "calling"
        BY <4>1, <4>2, CreditsAssumption DEF LiveIsPending
      <4>. QED BY <3>2, <4>2, <4>3 DEF Sweep, TypeOK, Outlasted
    <3>. QED BY <1>2, <3>1, <3>2
  <2>4. TypeOK'
    BY <2>1, <2>2, <2>3 DEF TypeOK, fleet
  <2>5. LiveIsPending'
    BY <2>1, <2>2, <2>3 DEF LiveIsPending, Pending, Outlasted
  <2>6. Fresh'
    BY <2>1, <2>2, <2>3 DEF Fresh
  <2>. QED BY <2>2, <2>4, <2>5, <2>6
<1>3. CASE Commit(k)
  <2>1. /\ attempt' = [attempt EXCEPT ![k] = "delivered"] /\ UNCHANGED <<fleet, ledger, age, moves>>
        /\ attempt'[k] = "delivered" /\ \A j \in Keys : j # k => attempt'[j] = attempt[j]
        /\ res[k] # Unused /\ (Pending(k) \/ Outlasted(k))
    BY <1>3 DEF Commit, LiveIsPending, TypeOK
  <2>2. CASE Pending(k)
    <3>1. res' = [res EXCEPT ![k].status = "committed"]
      BY <1>3, <2>2 DEF Commit
    <3>2. [res[k] EXCEPT !.status = "committed"] \in Reservation
      BY <2>1, ReservationType DEF Reservation
    <3>3. [res[k] EXCEPT !.status = "committed"] # Unused
      BY <3>2, UnusedAssumption
    <3>4. TypeOK' /\ NeverNegative'
      BY <2>1, <3>1, <3>2 DEF TypeOK, NeverNegative, fleet, ledger
    <3>5. res'[k].status = "committed" /\ res'[k] # Unused /\ \A j \in Keys : j # k => res'[j] = res[j]
      BY <2>1, <3>1, <3>3, ReservationType DEF TypeOK, Reservation
    <3>6. (LiveIsPending /\ Fresh)'
      BY <2>1, <3>5 DEF LiveIsPending, Fresh, Pending, Outlasted
    <3>. QED BY <3>4, <3>6
  <2>3. CASE ~Pending(k)
    <3>1. res' = res /\ Outlasted(k)
      BY <1>3, <2>1, <2>3 DEF Commit
    <3>2. TypeOK' /\ NeverNegative'
      BY <2>1, <3>1 DEF TypeOK, NeverNegative, fleet, ledger
    <3>3. (LiveIsPending /\ Fresh)'
      BY <2>1, <3>1 DEF LiveIsPending, Fresh, Pending, Outlasted
    <3>. QED BY <3>2, <3>3
  <2>. QED BY <2>2, <2>3
<1>. QED BY <1>1, <1>2, <1>3

LEMMA TickKeeps == ASSUME IInv, Tick PROVE IInv'
<1>. USE DEF IInv
<1>1. \A k \in Keys : age'[k] = IF Pending(k) THEN Min2(age[k] + 1, StaleWindow + 1) ELSE age[k]
  BY DEF Tick
<1>2. \A k \in Keys : age'[k] \in 0..(StaleWindow + 1) /\ (Pending(k) => age'[k] <= age[k] + 1)
  BY <1>1, WindowCovers DEF Min2, TypeOK
<1>3. age' \in [Keys -> 0..(StaleWindow + 1)]
  BY <1>2 DEF Tick
<1>4. TypeOK' /\ NeverNegative'
  BY <1>3 DEF Tick, TypeOK, NeverNegative, fleet, ledger
<1>5. \A k \in Keys : /\ Outlasted(k) => Outlasted(k)'
                      /\ attempt[k] = "calling" => age'[k] <= Timeout
  <2> TAKE k \in Keys
  <2>1. age[k] \in 0..(StaleWindow + 1) /\ (attempt[k] = "calling" => Pending(k) /\ age[k] < Timeout)
    BY DEF TypeOK, Tick, LiveIsPending
  <2>2. Outlasted(k) => age'[k] > Timeout + Grace
    BY <1>1, <2>1, WindowCovers DEF Outlasted, Min2
  <2>3. attempt[k] = "calling" => age'[k] <= Timeout
    BY <1>2, <2>1, WindowCovers, CreditsAssumption
  <2>. QED BY <2>2, <2>3 DEF Outlasted
<1>6. LiveIsPending'
  BY <1>5 DEF Tick, LiveIsPending, Pending
<1>7. Fresh'
  BY <1>1 DEF Tick, Fresh, Pending
<1>. QED BY <1>4, <1>6, <1>7

LEMMA FleetKeeps ==
  ASSUME IInv,
         \/ MonthTurns
         \/ \E o \in Orgs : PlanChanges(o)
         \/ \E s \in Screens, o \in Orgs \cup {Elsewhere} : ScreenMoves(s, o)
  PROVE  IInv'
<1>1. UNCHANGED <<ledger, res, age, attempt>>
  BY DEF MonthTurns, PlanChanges, ScreenMoves
<1>2. /\ month' \in Months /\ home' \in [Screens -> Orgs \cup {Elsewhere}]
      /\ used' \subseteq Screens /\ paying' \subseteq Orgs /\ moves' \in 0..MaxMoves
  <2>1. CASE MonthTurns
    BY <2>1, CreditsAssumption DEF MonthTurns, Months, IInv, TypeOK
  <2>2. CASE \E o \in Orgs : PlanChanges(o)
    BY <2>2, CreditsAssumption DEF PlanChanges, Moved, IInv, TypeOK
  <2>3. CASE \E s \in Screens, o \in Orgs \cup {Elsewhere} : ScreenMoves(s, o)
    BY <2>3, CreditsAssumption DEF ScreenMoves, Moved, IInv, TypeOK
  <2>. QED BY <2>1, <2>2, <2>3
<1>3. TypeOK' /\ NeverNegative'
  BY <1>1, <1>2 DEF IInv, TypeOK, NeverNegative, ledger
<1>4. (LiveIsPending /\ Fresh)'
  BY <1>1 DEF IInv, LiveIsPending, Fresh, Pending, Outlasted
<1>. QED BY <1>3, <1>4 DEF IInv

LEMMA StutterKeeps == ASSUME IInv, UNCHANGED vars PROVE IInv'
BY DEF IInv, TypeOK, NeverNegative, LiveIsPending, Fresh, Pending, Outlasted, vars, fleet, ledger

LEMMA StepInvariant == IInv /\ [Next]_vars => IInv'
<1> SUFFICES ASSUME IInv, [Next]_vars PROVE IInv'
  OBVIOUS
<1>1. ASSUME NEW o \in Orgs, View(o) PROVE IInv'
  BY <1>1, ViewKeeps
<1>2. ASSUME NEW o \in Orgs, NEW k \in Keys, NEW p \in Prices, Reserve(k, o, p) PROVE IInv'
  BY <1>2, ReserveKeeps
<1>3. ASSUME NEW o \in Orgs,
             \/ \E s \in Orders : Purchase(o, s)
             \/ \E d \in Adjustments : AdminAdjust(o, d) \/ AdminAdjust(o, -d)
      PROVE  IInv'
  BY <1>3, LedgerKeeps
<1>4. ASSUME NEW k \in Keys, Generated(k) \/ Fails(k) \/ Commit(k) \/ Abandoned(k) \/ Sweep(k)
      PROVE  IInv'
  BY <1>4, AttemptKeeps
<1>5. ASSUME \/ MonthTurns
             \/ \E o \in Orgs : PlanChanges(o)
             \/ \E s \in Screens, o \in Orgs \cup {Elsewhere} : ScreenMoves(s, o)
      PROVE  IInv'
  BY <1>5, FleetKeeps
<1>. QED BY <1>1, <1>2, <1>3, <1>4, <1>5, TickKeeps, StutterKeeps DEF Next

-----------------------------------------------------------------------------
(* The books.                                                              *)

\* Only finitely many keys and orders have been used.
FewAreUsed == IsFiniteSet({k \in Keys : res[k] # Unused}) /\ IsFiniteSet({s \in Orders : applied[s] # Unused})

\* What the reservations K hold of the purchased bucket and of an included one.
OfPurchased(K) == [k \in K |-> res[k].pur]
OfIncluded(K) == [k \in K |-> res[k].inc]

Balanced(o) ==
  purchased[o] = Pack * Cardinality(Bought(o)) + adjusted[o] - SumFunction(OfPurchased(Held(o)))
BalancedIn(o, m) ==
  included[o][m] = granted[o][m] - SumFunction(OfIncluded(HeldOf(o, m)))

LEMMA BooksAre == Reconciled <=> \A o \in Orgs : Balanced(o) /\ \A m \in Months : BalancedIn(o, m)
BY DEF Reconciled, Balanced, BalancedIn, OfPurchased, OfIncluded

\* What is held can be added up.
LEMMA HeldAddsUp ==
  ASSUME TypeOK, FewAreUsed, NEW o \in Orgs, NEW m
  PROVE  /\ IsFiniteSet(Held(o)) /\ IsFiniteSet(HeldOf(o, m))
         /\ OfPurchased(Held(o)) \in [Held(o) -> Int] /\ OfIncluded(HeldOf(o, m)) \in [HeldOf(o, m) -> Int]
         /\ SumFunction(OfPurchased(Held(o))) \in Int /\ SumFunction(OfIncluded(HeldOf(o, m))) \in Int
<1>1. Held(o) \subseteq {k \in Keys : res[k] # Unused} /\ HeldOf(o, m) \subseteq Held(o)
  BY DEF Held, HeldOf
<1>2. IsFiniteSet(Held(o)) /\ IsFiniteSet(HeldOf(o, m))
  BY <1>1, FS_Subset DEF FewAreUsed
<1>3. \A k \in Held(o) : res[k].pur \in Int /\ res[k].inc \in Int
  BY ReservationType DEF Held
<1>4. OfPurchased(Held(o)) \in [Held(o) -> Int] /\ OfIncluded(HeldOf(o, m)) \in [HeldOf(o, m) -> Int]
  BY <1>1, <1>3 DEF OfPurchased, OfIncluded
<1>. QED BY <1>2, <1>4, SumType

LEMMA BoughtAreFew ==
  ASSUME TypeOK, FewAreUsed, NEW o \in Orgs
  PROVE  IsFiniteSet(Bought(o)) /\ Cardinality(Bought(o)) \in Nat
<1>1. Bought(o) \subseteq {s \in Orders : applied[s] # Unused}
  BY UnusedAssumption, CreditsAssumption DEF Bought
<1>. QED BY <1>1, FS_Subset, FS_CardinalityType DEF FewAreUsed

\* A step that changes neither what is held nor the ledger keeps the books.
LEMMA BooksStand ==
  ASSUME IInv, FewAreUsed, Reconciled, UNCHANGED ledger,
         \A k \in Keys : \/ res'[k] = res[k]
                         \/ /\ res[k] # Unused /\ res'[k] # Unused
                            /\ res[k].status # "released" /\ res'[k].status # "released"
                            /\ res'[k].org = res[k].org /\ res'[k].month = res[k].month
                            /\ res'[k].inc = res[k].inc /\ res'[k].pur = res[k].pur
  PROVE  FewAreUsed' /\ Reconciled'
<1>1. {k \in Keys : res'[k] # Unused} = {k \in Keys : res[k] # Unused}
  OBVIOUS
<1>2. FewAreUsed'
  BY <1>1 DEF FewAreUsed, ledger
<1>3. ASSUME NEW o \in Orgs
      PROVE  /\ Held(o)' = Held(o) /\ Bought(o)' = Bought(o)
             /\ OfPurchased(Held(o))' = OfPurchased(Held(o))
             /\ \A m \in Months : OfIncluded(HeldOf(o, m))' = OfIncluded(HeldOf(o, m))
  <2>1. Held(o)' = Held(o)
    BY DEF Held
  <2>2. Bought(o)' = Bought(o)
    BY DEF Bought, ledger
  <2>3. \A k \in Held(o) : res'[k].month = res[k].month /\ res'[k].inc = res[k].inc /\ res'[k].pur = res[k].pur
    BY DEF Held
  <2>4. \A m : HeldOf(o, m)' = HeldOf(o, m)
    BY <2>1, <2>3 DEF HeldOf
  <2>5. \A m : HeldOf(o, m) \subseteq Held(o)
    BY DEF HeldOf
  <2>. QED BY <2>1, <2>2, <2>3, <2>4, <2>5 DEF OfPurchased, OfIncluded
<1>4. \A o \in Orgs : Balanced(o)' /\ \A m \in Months : BalancedIn(o, m)'
  BY <1>3, BooksAre DEF Balanced, BalancedIn, ledger
<1>. QED BY <1>2, <1>4, BooksAre DEF Reconciled, Balanced, BalancedIn, OfPurchased, OfIncluded

LEMMA BooksOnView ==
  ASSUME IInv, FewAreUsed, Reconciled, NEW o \in Orgs, View(o)
  PROVE  FewAreUsed' /\ Reconciled'
<1>1. TypeOK /\ TopUp(o) \in Nat /\ month \in Months
  BY TopUpType DEF IInv, TypeOK
<1>2. /\ granted' = [granted EXCEPT ![o][month] = @ + TopUp(o)]
      /\ included' = [included EXCEPT ![o][month] = @ + TopUp(o)]
      /\ UNCHANGED <<purchased, adjusted, applied, res>>
  BY DEF View, Grant
<1>3. \A q \in Orgs : Held(q)' = Held(q) /\ Bought(q)' = Bought(q) /\ \A m : HeldOf(q, m)' = HeldOf(q, m)
  BY <1>2 DEF Held, HeldOf, Bought
<1>4. \A q \in Orgs : Balanced(q)'
  BY <1>2, <1>3, BooksAre DEF Balanced, OfPurchased
<1>5. ASSUME NEW q \in Orgs, NEW m \in Months PROVE BalancedIn(q, m)'
  <2>1. included'[q][m] - granted'[q][m] = included[q][m] - granted[q][m]
        /\ granted'[q][m] \in Int /\ included'[q][m] \in Int
    BY <1>1, <1>2 DEF TypeOK
  <2>2. OfIncluded(HeldOf(q, m))' = OfIncluded(HeldOf(q, m))
    BY <1>2, <1>3 DEF OfIncluded
  <2>3. SumFunction(OfIncluded(HeldOf(q, m))) \in Int
    BY <1>1, HeldAddsUp
  <2>4. included[q][m] \in Int /\ granted[q][m] \in Int
    BY <1>1 DEF TypeOK
  <2>5. BalancedIn(q, m)
    BY BooksAre
  <2>. QED BY <2>1, <2>2, <2>3, <2>4, <2>5 DEF BalancedIn
<1>6. FewAreUsed'
  BY <1>2 DEF FewAreUsed
<1>. QED BY <1>4, <1>5, <1>6 DEF Reconciled, Balanced, BalancedIn, OfPurchased, OfIncluded

\* The new reservation holds exactly what leaves the buckets.
LEMMA BooksOnReserve ==
  ASSUME IInv, FewAreUsed, Reconciled,
         NEW k \in Keys, NEW o \in Orgs, NEW p \in Prices, Reserve(k, o, p)
  PROVE  FewAreUsed' /\ Reconciled'
<1> DEFINE inc == FromIncluded(o, p)
           new == [org |-> o, inc |-> inc, pur |-> p - inc, month |-> month, status |-> "pending"]
<1>1. TypeOK /\ TopUp(o) \in Nat /\ month \in Months /\ p \in Nat
  BY TopUpType, CreditsAssumption DEF IInv, TypeOK
<1>2. inc \in Int
  <2>1. included[o][month] \in Int
    BY <1>1 DEF TypeOK
  <2>. QED BY <1>1, <2>1 DEF FromIncluded, Min2, Max2
<1>3. /\ granted' = [granted EXCEPT ![o][month] = @ + TopUp(o)]
      /\ included' = [included EXCEPT ![o][month] = @ + TopUp(o) - inc]
      /\ purchased' = [purchased EXCEPT ![o] = @ - (p - inc)]
      /\ res' = [res EXCEPT ![k] = new]
      /\ res[k] = Unused /\ UNCHANGED <<adjusted, applied>>
  BY DEF Reserve, Grant
<1>4. res'[k] = new /\ \A j \in Keys : j # k => res'[j] = res[j]
  BY <1>1, <1>3 DEF TypeOK
<1>5. /\ new.org = o /\ new.month = month /\ new.inc = inc /\ new.pur = p - inc
      /\ new.status = "pending"
  OBVIOUS
<1>6. new # Unused
  <2>1. IInv'
    BY ReserveKeeps
  <2>2. attempt'[k] = "calling"
    BY <1>1 DEF Reserve, TypeOK
  <2>. QED BY <1>4, <2>1, <2>2 DEF IInv, Fresh
<1> HIDE DEF inc, new
<1>7. FewAreUsed'
  <2>1. {j \in Keys : res'[j] # Unused} = {j \in Keys : res[j] # Unused} \cup {k}
    BY <1>3, <1>4, <1>6
  <2>2. IsFiniteSet({j \in Keys : res[j] # Unused} \cup {k})
    BY FS_AddElement DEF FewAreUsed
  <2>. QED BY <1>3, <2>1, <2>2 DEF FewAreUsed
<1>8. /\ k \notin Held(o) /\ Held(o)' = Held(o) \cup {k}
      /\ \A q \in Orgs : q # o => Held(q)' = Held(q) /\ k \notin Held(q)
  BY <1>3, <1>4, <1>5, <1>6 DEF Held
<1>9. /\ HeldOf(o, month)' = HeldOf(o, month) \cup {k} /\ k \notin HeldOf(o, month)
      /\ \A q \in Orgs, m \in Months : q # o \/ m # month => HeldOf(q, m)' = HeldOf(q, m) /\ k \notin HeldOf(q, m)
  <2>1. \A q \in Orgs : \A j \in Held(q) : j \in Keys /\ j # k
    BY <1>3 DEF Held
  <2>2. {j \in Held(o) \cup {k} : res'[j].month = month'} = HeldOf(o, month) \cup {k}
    BY <1>4, <1>5, <2>1 DEF HeldOf, Reserve, fleet
  <2>. QED BY <1>3, <1>4, <1>5, <1>8, <2>1, <2>2 DEF HeldOf, Reserve, fleet
<1>10. /\ \A K : k \notin K /\ K \subseteq Keys => OfPurchased(K)' = OfPurchased(K) /\ OfIncluded(K)' = OfIncluded(K)
  BY <1>4 DEF OfPurchased, OfIncluded
<1>11. \A q \in Orgs : Held(q) \subseteq Keys /\ \A m : HeldOf(q, m) \subseteq Keys
  BY DEF Held, HeldOf
<1>12. ASSUME NEW q \in Orgs PROVE Balanced(q)'
  <2>1. CASE q # o
    BY <1>3, <1>8, <1>10, <1>11, <2>1, BooksAre DEF Balanced, Bought
  <2>2. CASE q = o
    <3>1. IsFiniteSet(Held(o)) /\ OfPurchased(Held(o)) \in [Held(o) -> Int] /\ SumFunction(OfPurchased(Held(o))) \in Int
      BY <1>1, HeldAddsUp
    <3>2. \A j \in Held(o) : OfPurchased(Held(o))'[j] = OfPurchased(Held(o))[j]
      BY <1>4, <1>8 DEF OfPurchased, Held
    <3>3. OfPurchased(Held(o))'[k] = p - inc /\ k \in Held(o)'
      BY <1>4, <1>5, <1>8 DEF OfPurchased
    <3>4. OfPurchased(Held(o))' \in [Held(o) \cup {k} -> Int]
      <4>1. \A j \in Held(o) \cup {k} : OfPurchased(Held(o))'[j] \in Int
        BY <1>1, <1>2, <3>1, <3>2, <3>3
      <4>2. OfPurchased(Held(o))' = [j \in Held(o) \cup {k} |-> OfPurchased(Held(o))'[j]]
        BY <1>8 DEF OfPurchased
      <4>. QED BY <4>1, <4>2
    <3>5. SumFunction(OfPurchased(Held(o))') = SumFunction(OfPurchased(Held(o))) + OfPurchased(Held(o))'[k]
      <4>1. k \notin Held(o) /\ IsFiniteSet(Held(o)) /\ OfPurchased(Held(o)) \in [Held(o) -> Int]
            /\ OfPurchased(Held(o))' \in [Held(o) \cup {k} -> Int] /\ \A y \in Held(o) : OfPurchased(Held(o))'[y] = OfPurchased(Held(o))[y]
        BY <1>8, <3>1, <3>2, <3>4
      <4>. QED BY <4>1, SumJoins
    <3>6. purchased'[o] = purchased[o] - (p - inc) /\ purchased[o] \in Int
      BY <1>1, <1>3 DEF TypeOK
    <3>7. Balanced(o) /\ Bought(o)' = Bought(o) /\ adjusted'[o] = adjusted[o]
      BY <1>3, BooksAre DEF Bought
    <3>8. Pack * Cardinality(Bought(o)) \in Int /\ adjusted[o] \in Int
      BY <1>1, BoughtAreFew, CreditsAssumption DEF TypeOK
    <3>9. purchased'[o] = Pack * Cardinality(Bought(o))' + adjusted'[o] - SumFunction(OfPurchased(Held(o))')
      <4>. QED BY <1>1, <1>2, <3>1, <3>3, <3>5, <3>6, <3>7, <3>8 DEF Balanced
    <3>. QED BY <2>2, <3>9 DEF Balanced
  <2>. QED BY <2>1, <2>2
<1>13. ASSUME NEW q \in Orgs, NEW m \in Months PROVE BalancedIn(q, m)'
  <2>1. included'[q][m] \in Int /\ granted'[q][m] \in Int /\ BalancedIn(q, m)
        /\ included[q][m] \in Int /\ granted[q][m] \in Int
    BY <1>1, <1>2, <1>3, BooksAre DEF TypeOK
  <2>2. IsFiniteSet(HeldOf(q, m)) /\ OfIncluded(HeldOf(q, m)) \in [HeldOf(q, m) -> Int]
        /\ SumFunction(OfIncluded(HeldOf(q, m))) \in Int
    BY <1>1, HeldAddsUp
  <2>3. CASE q # o \/ m # month
    <3>1. included'[q][m] = included[q][m] /\ granted'[q][m] = granted[q][m]
      BY <1>1, <1>3, <2>3 DEF TypeOK
    <3>2. OfIncluded(HeldOf(q, m))' = OfIncluded(HeldOf(q, m))
      BY <1>9, <1>10, <1>11, <2>3
    <3>. QED BY <2>1, <3>1, <3>2 DEF BalancedIn
  <2>4. CASE q = o /\ m = month
    <3>1. HeldOf(o, m)' = HeldOf(o, m) \cup {k} /\ k \notin HeldOf(o, m)
      BY <1>9, <2>4 DEF Reserve, fleet, HeldOf
    <3>2. \A j \in HeldOf(o, m) : OfIncluded(HeldOf(o, m))'[j] = OfIncluded(HeldOf(o, m))[j]
      BY <1>4, <3>1 DEF OfIncluded, HeldOf, Held
    <3>3. OfIncluded(HeldOf(o, m))'[k] = inc
      BY <1>4, <1>5, <3>1 DEF OfIncluded
    <3>4. OfIncluded(HeldOf(o, m))' \in [HeldOf(o, m) \cup {k} -> Int]
      <4>1. \A j \in HeldOf(o, m) \cup {k} : OfIncluded(HeldOf(o, m))'[j] \in Int
        BY <1>2, <2>2, <2>4, <3>2, <3>3
      <4>2. OfIncluded(HeldOf(o, m))' = [j \in HeldOf(o, m) \cup {k} |-> OfIncluded(HeldOf(o, m))'[j]]
        BY <3>1 DEF OfIncluded
      <4>. QED BY <4>1, <4>2
    <3>5. SumFunction(OfIncluded(HeldOf(o, m))') = SumFunction(OfIncluded(HeldOf(o, m))) + inc
      <4>1. SumFunction(OfIncluded(HeldOf(o, m))') = SumFunction(OfIncluded(HeldOf(o, m))) + OfIncluded(HeldOf(o, m))'[k]
        <5>1. IsFiniteSet(HeldOf(o, m)) /\ OfIncluded(HeldOf(o, m)) \in [HeldOf(o, m) -> Int]
          BY <2>2, <2>4
        <5>2. /\ IsFiniteSet(HeldOf(o, m)) /\ OfIncluded(HeldOf(o, m)) \in [HeldOf(o, m) -> Int]
              /\ k \notin HeldOf(o, m) /\ OfIncluded(HeldOf(o, m))' \in [HeldOf(o, m) \cup {k} -> Int]
              /\ \A y \in HeldOf(o, m) : OfIncluded(HeldOf(o, m))'[y] = OfIncluded(HeldOf(o, m))[y]
          BY <3>1, <3>2, <3>4, <5>1
        <5>. QED BY <5>2, SumJoins
      <4>. QED BY <3>3, <4>1
    <3>6. /\ included'[o][m] = included[o][m] + TopUp(o) - inc
          /\ granted'[o][m] = granted[o][m] + TopUp(o)
      BY <1>1, <1>3, <2>4 DEF TypeOK
    <3>7. included'[o][m] = granted'[o][m] - SumFunction(OfIncluded(HeldOf(o, m))')
      <4>. QED BY <1>1, <1>2, <2>1, <2>2, <2>4, <3>5, <3>6 DEF BalancedIn
    <3>. QED BY <2>4, <3>7 DEF BalancedIn
  <2>. QED BY <2>3, <2>4
<1>. QED BY <1>7, <1>12, <1>13 DEF Reconciled, Balanced, BalancedIn, OfPurchased, OfIncluded

\* A refund takes a reservation off what is held and puts what it held back.
LEMMA BooksOnRelease ==
  ASSUME IInv, FewAreUsed, Reconciled, NEW k \in Keys, Release(k),
         UNCHANGED <<granted, adjusted, applied>>
  PROVE  FewAreUsed' /\ Reconciled'
<1>1. CASE ~Pending(k)
  <2>1. UNCHANGED ledger /\ UNCHANGED res
    BY <1>1 DEF Release, ledger
  <2>. QED BY <2>1, BooksStand
<1>2. CASE Pending(k)
  <2>1. TypeOK /\ res[k] # Unused /\ res[k].status = "pending"
    BY <1>2 DEF Pending, IInv
  <2>. PICK o \in Orgs : o = res[k].org
    BY <2>1, ReservationType
  <2>. PICK n \in Months : n = res[k].month
    BY <2>1, ReservationType
  <2>2. o \in Orgs /\ n \in Months /\ res[k].inc \in Nat /\ res[k].pur \in Nat /\ res[k] \in Reservation
    BY <2>1, ReservationType
  <2>3. /\ included' = [included EXCEPT ![o][n] = @ + res[k].inc]
        /\ purchased' = [purchased EXCEPT ![o] = @ + res[k].pur]
        /\ res' = [res EXCEPT ![k].status = "released"]
    BY <1>2 DEF Release, RefundMonth
  <2>4. res'[k].status = "released" /\ res'[k] # Unused /\ \A j \in Keys : j # k => res'[j] = res[j]
    BY <2>1, <2>2, <2>3, ReleaseKeeps DEF TypeOK, Reservation
  <2>5. FewAreUsed'
    <3>1. {j \in Keys : res'[j] # Unused} = {j \in Keys : res[j] # Unused}
      BY <2>1, <2>4
    <3>. QED BY <3>1 DEF FewAreUsed
  <2>6. /\ k \in Held(o) /\ Held(o)' = Held(o) \ {k}
        /\ \A q \in Orgs : q # o => Held(q)' = Held(q) /\ k \notin Held(q)
    BY <2>1, <2>4 DEF Held
  <2>7. /\ k \in HeldOf(o, n)
        /\ \A j \in Held(o) \ {k} : res'[j] = res[j]
        /\ \A q \in Orgs, m \in Months : q # o \/ m # n => HeldOf(q, m)' = HeldOf(q, m) /\ k \notin HeldOf(q, m)
    BY <2>4, <2>6 DEF HeldOf, Held
  <2>8. \A K : k \notin K /\ K \subseteq Keys => OfPurchased(K)' = OfPurchased(K) /\ OfIncluded(K)' = OfIncluded(K)
    BY <2>4 DEF OfPurchased, OfIncluded
  <2>9. \A q \in Orgs : Held(q) \subseteq Keys /\ \A m : HeldOf(q, m) \subseteq Keys
    BY DEF Held, HeldOf
  <2>10. ASSUME NEW q \in Orgs PROVE Balanced(q)'
    <3>1. CASE q # o
      BY <2>3, <2>6, <2>8, <2>9, <3>1, BooksAre DEF Balanced, Bought
    <3>2. CASE q = o
      <4>1. IsFiniteSet(Held(q)) /\ OfPurchased(Held(q)) \in [Held(q) -> Int] /\ SumFunction(OfPurchased(Held(q))) \in Int
        BY <2>1, HeldAddsUp
      <4>2. k \in Held(q) /\ Held(q)' = Held(q) \ {k}
        BY <2>6, <3>2
      <4>3. OfPurchased(Held(q))[k] = res[k].pur /\ \A j \in Held(q) \ {k} : OfPurchased(Held(q))'[j] = OfPurchased(Held(q))[j]
        BY <2>4, <2>9, <4>2 DEF OfPurchased
      <4>4. OfPurchased(Held(q))' \in [Held(q)' -> Int]
        <5>1. \A j \in Held(q)' : OfPurchased(Held(q))'[j] \in Int
          BY <4>1, <4>2, <4>3
        <5>2. OfPurchased(Held(q))' = [j \in Held(q)' |-> OfPurchased(Held(q))'[j]]
          BY DEF OfPurchased
        <5>. QED BY <5>1, <5>2
      <4>5. SumFunction(OfPurchased(Held(q))') = SumFunction(OfPurchased(Held(q))) - OfPurchased(Held(q))[k]
        <5>1. PICK S, T, f, e : S = Held(q) /\ T = Held(q)' /\ f = OfPurchased(Held(q)) /\ e = OfPurchased(Held(q))'
          OBVIOUS
        <5>2. /\ IsFiniteSet(S) /\ k \in S /\ T = S \ {k} /\ f \in [S -> Int] /\ e \in [T -> Int]
              /\ \A j \in T : e[j] = f[j]
          BY <4>1, <4>2, <4>3, <4>4, <5>1
        <5>3. SumFunction(e) = SumFunction(f) - f[k]
          BY <5>2, SumLeaves
        <5>. QED BY <5>1, <5>3
      <4>6. purchased'[q] = purchased[q] + res[k].pur /\ purchased[q] \in Int
        BY <2>1, <2>2, <2>3, <3>2 DEF TypeOK
      <4>7. Balanced(q) /\ Bought(q)' = Bought(q) /\ adjusted'[q] = adjusted[q]
        BY BooksAre DEF Bought
      <4>8. Pack * Cardinality(Bought(q)) \in Int /\ adjusted[q] \in Int
        BY <2>1, BoughtAreFew, CreditsAssumption DEF TypeOK
      <4>9. purchased'[q] = Pack * Cardinality(Bought(q))' + adjusted'[q] - SumFunction(OfPurchased(Held(q))')
        <5>. QED BY <2>2, <4>1, <4>3, <4>5, <4>6, <4>7, <4>8 DEF Balanced
      <4>. QED BY <4>9 DEF Balanced
    <3>. QED BY <3>1, <3>2
  <2>11. ASSUME NEW q \in Orgs, NEW m \in Months PROVE BalancedIn(q, m)'
    <3>1. BalancedIn(q, m) /\ included[q][m] \in Int /\ granted[q][m] \in Int /\ granted'[q][m] = granted[q][m]
      BY <2>1, BooksAre DEF TypeOK
    <3>2. CASE q # o \/ m # n
      <4>1. included'[q][m] = included[q][m]
        BY <2>1, <2>2, <2>3, <3>2 DEF TypeOK
      <4>2. OfIncluded(HeldOf(q, m))' = OfIncluded(HeldOf(q, m))
        BY <2>7, <2>8, <2>9, <3>2
      <4>. QED BY <3>1, <4>1, <4>2 DEF BalancedIn
    <3>3. CASE q = o /\ m = n
      <4>1. IsFiniteSet(HeldOf(q, m)) /\ OfIncluded(HeldOf(q, m)) \in [HeldOf(q, m) -> Int] /\ SumFunction(OfIncluded(HeldOf(q, m))) \in Int
        BY <2>1, HeldAddsUp
      <4>2. k \in HeldOf(q, m) /\ HeldOf(q, m)' = HeldOf(q, m) \ {k}
        BY <2>6, <2>7, <3>3 DEF HeldOf
      <4>3. OfIncluded(HeldOf(q, m))[k] = res[k].inc /\ \A j \in HeldOf(q, m) \ {k} : OfIncluded(HeldOf(q, m))'[j] = OfIncluded(HeldOf(q, m))[j]
        BY <2>4, <2>9, <4>2 DEF OfIncluded
      <4>4. OfIncluded(HeldOf(q, m))' \in [HeldOf(q, m)' -> Int]
        <5>1. \A j \in HeldOf(q, m)' : OfIncluded(HeldOf(q, m))'[j] \in Int
          BY <4>1, <4>2, <4>3
        <5>2. OfIncluded(HeldOf(q, m))' = [j \in HeldOf(q, m)' |-> OfIncluded(HeldOf(q, m))'[j]]
          BY DEF OfIncluded
        <5>. QED BY <5>1, <5>2
      <4>5. SumFunction(OfIncluded(HeldOf(q, m))') = SumFunction(OfIncluded(HeldOf(q, m))) - OfIncluded(HeldOf(q, m))[k]
        <5>1. PICK S, T, f, e : S = HeldOf(q, m) /\ T = HeldOf(q, m)' /\ f = OfIncluded(HeldOf(q, m)) /\ e = OfIncluded(HeldOf(q, m))'
          OBVIOUS
        <5>2. /\ IsFiniteSet(S) /\ k \in S /\ T = S \ {k} /\ f \in [S -> Int] /\ e \in [T -> Int]
              /\ \A j \in T : e[j] = f[j]
          BY <4>1, <4>2, <4>3, <4>4, <5>1
        <5>3. SumFunction(e) = SumFunction(f) - f[k]
          BY <5>2, SumLeaves
        <5>. QED BY <5>1, <5>3
      <4>6. included'[q][m] = included[q][m] + res[k].inc
        BY <2>1, <2>2, <2>3, <3>3 DEF TypeOK
      <4>7. included'[q][m] = granted'[q][m] - SumFunction(OfIncluded(HeldOf(q, m))')
        <5>. QED BY <2>2, <3>1, <4>1, <4>3, <4>5, <4>6 DEF BalancedIn
      <4>. QED BY <4>7 DEF BalancedIn
    <3>. QED BY <3>2, <3>3
  <2>. QED BY <2>5, <2>10, <2>11 DEF Reconciled, Balanced, BalancedIn, OfPurchased, OfIncluded
<1>. QED BY <1>1, <1>2

\* An order is applied once and brings a pack; an adjustment is on record.
LEMMA BooksOnIncome ==
  ASSUME IInv, FewAreUsed, Reconciled, NEW o \in Orgs,
         \/ \E s \in Orders : Purchase(o, s)
         \/ \E d \in Adjustments : AdminAdjust(o, d) \/ AdminAdjust(o, -d)
  PROVE  FewAreUsed' /\ Reconciled'
<1>1. TypeOK /\ UNCHANGED <<granted, included, res>>
  BY DEF IInv, Purchase, AdminAdjust
<1>2. \A q \in Orgs : /\ OfPurchased(Held(q))' = OfPurchased(Held(q))
                      /\ \A m : OfIncluded(HeldOf(q, m))' = OfIncluded(HeldOf(q, m))
  BY <1>1 DEF OfPurchased, OfIncluded, Held, HeldOf
<1>3. \A q \in Orgs : \A m \in Months : BalancedIn(q, m)'
  BY <1>1, <1>2, BooksAre DEF BalancedIn
<1>4. \A q \in Orgs : /\ Balanced(q) /\ SumFunction(OfPurchased(Held(q))) \in Int
                      /\ adjusted[q] \in Int /\ purchased[q] \in Int
                      /\ IsFiniteSet(Bought(q)) /\ Cardinality(Bought(q)) \in Nat
  BY <1>1, HeldAddsUp, BoughtAreFew, BooksAre DEF TypeOK
<1>5. CASE \E s \in Orders : Purchase(o, s)
  <2>1. PICK s \in Orders : Purchase(o, s)
    BY <1>5
  <2>2. /\ applied[s] = Unused /\ applied' = [applied EXCEPT ![s] = o]
        /\ purchased' = [purchased EXCEPT ![o] = @ + Pack] /\ adjusted' = adjusted
    BY <2>1 DEF Purchase
  <2>3. {r \in Orders : applied'[r] # Unused} = {r \in Orders : applied[r] # Unused} \cup {s}
    BY <1>1, <2>2, CreditsAssumption DEF TypeOK
  <2>4. IsFiniteSet({r \in Orders : applied[r] # Unused} \cup {s})
    BY FS_AddElement DEF FewAreUsed
  <2>5. FewAreUsed'
    BY <1>1, <2>3, <2>4 DEF FewAreUsed
  <2>6. ASSUME NEW q \in Orgs PROVE Balanced(q)'
    <3>1. CASE q # o
      <4>1. Bought(q)' = Bought(q)
        BY <1>1, <2>2, <3>1, CreditsAssumption DEF Bought, TypeOK
      <4>2. purchased'[q] = purchased[q]
        BY <1>1, <2>2, <3>1 DEF TypeOK
      <4>. QED BY <1>2, <1>4, <2>2, <4>1, <4>2 DEF Balanced
    <3>2. CASE q = o
      <4>1. Bought(q)' = Bought(q) \cup {s} /\ s \notin Bought(q)
        BY <1>1, <2>2, <3>2, CreditsAssumption DEF Bought, TypeOK
      <4>2. Cardinality(Bought(q) \cup {s}) = Cardinality(Bought(q)) + 1
        BY <1>4, <4>1, FS_AddElement
      <4>3. purchased'[q] = purchased[q] + Pack
        BY <1>1, <2>2, <3>2 DEF TypeOK
      <4>4. Pack * (Cardinality(Bought(q)) + 1) = Pack * Cardinality(Bought(q)) + Pack
            /\ Pack * Cardinality(Bought(q)) \in Int /\ Pack \in Int
        BY <1>4, CreditsAssumption
      <4>5. Cardinality(Bought(q))' = Cardinality(Bought(q)) + 1
        BY <4>1, <4>2
      <4>6. Pack * Cardinality(Bought(q))' = Pack * Cardinality(Bought(q)) + Pack
        BY <4>4, <4>5
      <4>. QED BY <1>2, <1>4, <2>2, <4>3, <4>4, <4>6 DEF Balanced
    <3>. QED BY <3>1, <3>2
  <2>. QED BY <1>3, <2>5, <2>6 DEF Reconciled, Balanced, BalancedIn, OfPurchased, OfIncluded
<1>6. ASSUME NEW d \in Int, AdminAdjust(o, d)
      PROVE  FewAreUsed' /\ Reconciled'
  <2>1. /\ purchased' = [purchased EXCEPT ![o] = @ + d] /\ adjusted' = [adjusted EXCEPT ![o] = @ + d]
        /\ applied' = applied
    BY <1>6 DEF AdminAdjust
  <2>2. ASSUME NEW q \in Orgs PROVE Balanced(q)'
    <3>1. /\ Cardinality(Bought(q))' = Cardinality(Bought(q))
          /\ SumFunction(OfPurchased(Held(q)))' = SumFunction(OfPurchased(Held(q)))
      BY <1>2, <2>1 DEF Bought
    <3>2. CASE q = o
      <4>1. purchased'[q] = purchased[q] + d /\ adjusted'[q] = adjusted[q] + d
        BY <1>1, <2>1, <3>2 DEF TypeOK
      <4>2. PICK c, t : c = Pack * Cardinality(Bought(q)) /\ t = SumFunction(OfPurchased(Held(q)))
        OBVIOUS
      <4>3. c \in Int /\ t \in Int /\ purchased[q] = c + adjusted[q] - t /\ adjusted[q] \in Int
        BY <1>4, <4>2, CreditsAssumption DEF Balanced
      <4>4. purchased[q] + d = c + (adjusted[q] + d) - t
        BY <1>6, <4>3
      <4>. QED BY <3>1, <4>1, <4>2, <4>4 DEF Balanced
    <3>3. CASE q # o
      <4>1. purchased'[q] = purchased[q] /\ adjusted'[q] = adjusted[q]
        BY <1>1, <2>1, <3>3 DEF TypeOK
      <4>. QED BY <1>4, <3>1, <4>1 DEF Balanced
    <3>. QED BY <3>2, <3>3
  <2>3. FewAreUsed'
    BY <1>1, <2>1 DEF FewAreUsed
  <2>4. Reconciled'
    BY <1>3, <2>2 DEF Reconciled, Balanced, BalancedIn, OfPurchased, OfIncluded
  <2>. QED BY <2>3, <2>4
<1>7. \A d \in Int : -d \in Int
  OBVIOUS
<1>8. \A d \in Adjustments : d \in Int
  BY CreditsAssumption
<1>. QED BY <1>5, <1>6, <1>7, <1>8

LEMMA BooksOnCommit ==
  ASSUME IInv, FewAreUsed, Reconciled, NEW k \in Keys, Commit(k)
  PROVE  FewAreUsed' /\ Reconciled'
<1>1. UNCHANGED ledger
  BY DEF Commit
<1>2. CASE ~Pending(k)
  <2>1. res' = res
    BY <1>2 DEF Commit
  <2>. QED BY <1>1, <2>1, BooksStand
<1>3. CASE Pending(k)
  <2>1. res' = [res EXCEPT ![k].status = "committed"]
    BY <1>3 DEF Commit
  <2>2. res[k] \in Reservation /\ res[k] # Unused /\ res[k].status = "pending"
    BY <1>3, ReservationType DEF Pending, IInv
  <2>3. [res[k] EXCEPT !.status = "committed"] \in Reservation
    BY <2>2 DEF Reservation
  <2>4. /\ res'[k].status = "committed" /\ res'[k].org = res[k].org /\ res'[k].month = res[k].month
        /\ res'[k].inc = res[k].inc /\ res'[k].pur = res[k].pur /\ res'[k] # Unused
    BY <2>1, <2>2, <2>3, UnusedAssumption DEF IInv, TypeOK, Reservation
  <2>5. \A j \in Keys : j # k => res'[j] = res[j]
    BY <2>1 DEF IInv, TypeOK
  <2>. QED BY <1>1, <2>2, <2>4, <2>5, BooksStand
<1>. QED BY <1>2, <1>3

LEMMA BooksInit == Init => FewAreUsed /\ Reconciled
<1> SUFFICES ASSUME Init PROVE FewAreUsed /\ Reconciled
  OBVIOUS
<1>1. {k \in Keys : res[k] # Unused} = {} /\ {s \in Orders : applied[s] # Unused} = {}
  BY DEF Init
<1>2. FewAreUsed
  BY <1>1, FS_EmptySet DEF FewAreUsed
<1>3. ASSUME NEW o \in Orgs PROVE Balanced(o) /\ \A m \in Months : BalancedIn(o, m)
  <2>1. Held(o) = {} /\ Bought(o) = {} /\ \A m : HeldOf(o, m) = {}
    BY CreditsAssumption DEF Init, Held, HeldOf, Bought
  <2>2. OfPurchased({}) \in [{} -> Int] /\ OfIncluded({}) \in [{} -> Int]
    BY DEF OfPurchased, OfIncluded
  <2>3. SumFunction(OfPurchased({})) = 0 /\ SumFunction(OfIncluded({})) = 0
    BY <2>2, SumOfNothing
  <2>4. Pack * Cardinality({}) = 0
    BY FS_EmptySet, CreditsAssumption
  <2>5. purchased[o] = 0 /\ adjusted[o] = 0 /\ \A m \in Months : included[o][m] = 0 /\ granted[o][m] = 0
    BY DEF Init
  <2>. QED BY <2>1, <2>3, <2>4, <2>5 DEF Balanced, BalancedIn
<1>. QED BY <1>2, <1>3, BooksAre

LEMMA BooksStep == IInv /\ FewAreUsed /\ Reconciled /\ [Next]_vars => FewAreUsed' /\ Reconciled'
<1> SUFFICES ASSUME IInv, FewAreUsed, Reconciled, [Next]_vars PROVE FewAreUsed' /\ Reconciled'
  OBVIOUS
<1>1. ASSUME NEW k \in Keys, Fails(k) \/ Sweep(k) PROVE FewAreUsed' /\ Reconciled'
  BY <1>1, BooksOnRelease DEF Fails, Sweep
<1>2. ASSUME UNCHANGED <<ledger, res>> PROVE FewAreUsed' /\ Reconciled'
  BY <1>2, BooksStand
<1>3. ASSUME NEW k \in Keys, Generated(k) \/ Abandoned(k) PROVE FewAreUsed' /\ Reconciled'
  BY <1>2, <1>3 DEF Generated, Abandoned
<1>4. ASSUME \/ MonthTurns \/ Tick \/ UNCHANGED vars
             \/ \E o \in Orgs : PlanChanges(o)
             \/ \E s \in Screens, o \in Orgs \cup {Elsewhere} : ScreenMoves(s, o)
      PROVE  FewAreUsed' /\ Reconciled'
  BY <1>2, <1>4 DEF MonthTurns, Tick, vars, PlanChanges, ScreenMoves
<1>5. ASSUME NEW o \in Orgs,
             \/ \E s \in Orders : Purchase(o, s)
             \/ \E d \in Adjustments : AdminAdjust(o, d) \/ AdminAdjust(o, -d)
      PROVE  FewAreUsed' /\ Reconciled'
  BY <1>5, BooksOnIncome
<1>6. ASSUME NEW o \in Orgs, NEW k \in Keys, NEW p \in Prices, Reserve(k, o, p)
      PROVE  FewAreUsed' /\ Reconciled'
  BY <1>6, BooksOnReserve
<1>. QED BY <1>1, <1>3, <1>4, <1>5, <1>6, BooksOnView, BooksOnCommit DEF Next

-----------------------------------------------------------------------------
(* The bill.                                                               *)

\* No month has been granted before it comes.
NothingInAdvance == \A o \in Orgs, m \in Months : m > month => granted[o][m] = 0

\* Nothing is a bill: that of no screen.
LEMMA NothingIsABill ==
  ASSUME TypeOK
  PROVE  \E n \in 0..Cardinality(used) : 0 = Credits(n)
<1>1. Cardinality(used) \in Nat
  BY CreditsAssumption, FS_Subset, FS_CardinalityType DEF TypeOK
<1>2. Rate(0) \in Nat /\ Credits(0) = 0 * Rate(0)
  BY CreditsType DEF Credits
<1>. QED BY <1>1, <1>2

LEMMA BillInit == Init => NothingInAdvance /\ WithinBill
<1> SUFFICES ASSUME Init PROVE NothingInAdvance /\ WithinBill
  OBVIOUS
<1>1. TypeOK
  BY InitInvariant DEF IInv
<1>2. \A o \in Orgs, m \in Months : granted[o][m] = 0
  BY DEF Init
<1>3. month \in Months
  BY <1>1 DEF TypeOK
<1>. QED BY <1>1, <1>2, <1>3, NothingIsABill DEF NothingInAdvance, WithinBill

LEMMA BillStep == IInv /\ NothingInAdvance /\ WithinBill /\ [Next]_vars => NothingInAdvance' /\ WithinBill'
<1> SUFFICES ASSUME IInv, NothingInAdvance, WithinBill, [Next]_vars PROVE NothingInAdvance' /\ WithinBill'
  OBVIOUS
<1>1. TypeOK /\ month \in Months /\ Months \subseteq Nat
  BY DEF IInv, TypeOK, Months
<1>2. ASSUME NEW o \in Orgs, Grant(o), UNCHANGED <<month, used>> PROVE NothingInAdvance' /\ WithinBill'
  <2>1. granted' = [granted EXCEPT ![o][month] = @ + TopUp(o)]
    BY <1>2 DEF Grant
  <2>2. granted[o][month] \in Int /\ granted'[o][month] = granted[o][month] + TopUp(o)
    BY <1>1, <2>1 DEF TypeOK
  <2>3. \E n \in 0..Cardinality(used) : granted'[o][month] = Credits(n)
    <3>1. Entitled(o) \in Nat
      BY <1>1, EntitledToABill
    <3>2. granted'[o][month] = granted[o][month] \/ granted'[o][month] = Entitled(o)
      BY <2>2, <3>1 DEF TopUp, Max2
    <3>. QED BY <1>1, <3>2, EntitledToABill DEF WithinBill
  <2>4. \A q \in Orgs : q # o => granted'[q] = granted[q]
    BY <1>1, <2>1 DEF TypeOK
  <2>5. \A m \in Months : m # month => granted'[o][m] = granted[o][m]
    BY <1>1, <2>1 DEF TypeOK
  <2>. QED BY <1>1, <1>2, <2>3, <2>4, <2>5 DEF NothingInAdvance, WithinBill
<1>3. ASSUME UNCHANGED <<month, used, granted>> PROVE NothingInAdvance' /\ WithinBill'
  BY <1>3 DEF NothingInAdvance, WithinBill
<1>4. ASSUME MonthTurns PROVE NothingInAdvance' /\ WithinBill'
  <2>1. month' = month + 1 /\ granted' = granted /\ used' \subseteq Screens /\ month' \in Months
    BY <1>4, CreditsAssumption DEF MonthTurns, ledger, IInv, TypeOK, Months
  <2>2. \A o \in Orgs : granted'[o][month'] = 0
    BY <1>1, <2>1 DEF NothingInAdvance
  <2>3. \E n \in 0..Cardinality(used') : 0 = Credits(n)
    <3>1. Cardinality(used') \in Nat
      BY <2>1, CreditsAssumption, FS_Subset, FS_CardinalityType
    <3>2. Rate(0) \in Nat /\ Credits(0) = 0 * Rate(0)
      BY CreditsType DEF Credits
    <3>. QED BY <3>1, <3>2
  <2>4. NothingInAdvance'
    BY <1>1, <2>1 DEF NothingInAdvance
  <2>. QED BY <2>2, <2>3, <2>4 DEF WithinBill
<1>5. ASSUME NEW o \in Orgs, NEW k \in Keys, NEW p \in Prices, Reserve(k, o, p)
      PROVE  NothingInAdvance' /\ WithinBill'
  BY <1>2, <1>5 DEF Reserve, fleet
<1>6. ASSUME NEW o \in Orgs, View(o) PROVE NothingInAdvance' /\ WithinBill'
  BY <1>2, <1>6 DEF View, fleet
<1>7. ASSUME NEW k \in Keys, Generated(k) \/ Fails(k) \/ Commit(k) \/ Abandoned(k) \/ Sweep(k)
      PROVE  NothingInAdvance' /\ WithinBill'
  BY <1>3, <1>7 DEF Generated, Fails, Commit, Abandoned, Sweep, fleet, ledger
<1>8. ASSUME NEW o \in Orgs,
             \/ \E s \in Orders : Purchase(o, s)
             \/ \E d \in Adjustments : AdminAdjust(o, d) \/ AdminAdjust(o, -d)
      PROVE  NothingInAdvance' /\ WithinBill'
  BY <1>3, <1>8 DEF Purchase, AdminAdjust, fleet
<1>9. ASSUME \/ Tick \/ UNCHANGED vars \/ \E o \in Orgs : PlanChanges(o)
             \/ \E s \in Screens, o \in Orgs \cup {Elsewhere} : ScreenMoves(s, o)
      PROVE  NothingInAdvance' /\ WithinBill'
  BY <1>3, <1>9 DEF Tick, vars, PlanChanges, ScreenMoves, fleet, ledger
<1>. QED BY <1>4, <1>5, <1>6, <1>7, <1>8, <1>9 DEF Next

-----------------------------------------------------------------------------
LEMMA Invariant == Spec => []IInv
<1>. QED BY InitInvariant, StepInvariant, PTL DEF Spec

\* The ledger's sums, the reservations and the ages have their types.
THEOREM CreditsTypeCorrect == Spec => []TypeOK
<1>1. IInv => TypeOK
  BY DEF IInv
<1>. QED BY <1>1, Invariant, PTL

\* docs/ai-credits.md "Never negative": no bucket of any organization and month is
\* overdrawn.
THEOREM NeverOverdrawn == Spec => []NeverNegative
<1>1. IInv => NeverNegative
  BY DEF IInv
<1>. QED BY <1>1, Invariant, PTL

\* While the provider is asked the reservation holds, and no image is free before the
\* provider's timeout and the five minutes are over, whatever both and the window are
\* set to and however long an ingest takes.
THEOREM NoFreeImage == Spec => []DeliveredIsCharged
<1>1. IInv => DeliveredIsCharged
  BY DEF IInv, LiveIsPending, DeliveredIsCharged
<1>. QED BY <1>1, Invariant, PTL

\* docs/ai-credits.md "no charge for a failure", "no double charge": at every moment
\* what is missing from a bucket is held by reservations that were not released,
\* each once, and every order has come in once.
THEOREM BooksBalance == Spec => []Reconciled
<1>1. Init => FewAreUsed /\ Reconciled
  BY BooksInit
<1>2. IInv /\ (FewAreUsed /\ Reconciled) /\ [Next]_vars => (FewAreUsed /\ Reconciled)'
  BY BooksStep
<1>. QED BY <1>1, <1>2, Invariant, PTL DEF Spec

\* An organization's grant for a month is the bill of one part of the fleet, for any
\* rate table and whatever moves between organizations while it is granted.
THEOREM GrantsStayWithinBill == Spec => []WithinBill
<1>1. Init => NothingInAdvance /\ WithinBill
  BY BillInit
<1>2. IInv /\ (NothingInAdvance /\ WithinBill) /\ [Next]_vars => (NothingInAdvance /\ WithinBill)'
  BY BillStep
<1>. QED BY <1>1, <1>2, Invariant, PTL DEF Spec
=============================================================================
