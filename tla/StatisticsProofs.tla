-------------------------- MODULE StatisticsProofs --------------------------
(***************************************************************************)
(* Proofs about prices and statistics, for every value of the constants:   *)
(* what is merged and priced along different paths adds up to the same.    *)
(*                                                                         *)
(* The folds of Statistics are reasoned about by induction over the        *)
(* subsets of a finite set, which FiniteSetTheorems gives as a             *)
(* well-founded ordering: GrandTotal and SumBy are shown to be what they   *)
(* look like whatever the order in which they take the entries             *)
(* (TotalWithout, SumByIsGroups), and from there on no fold is opened.     *)
(***************************************************************************)
EXTENDS Statistics, FiniteSetTheorems, WellFoundedInduction, TLAPS

(* Every set of natural numbers that is not empty has a least one. *)
LEMMA LeastNumber ==
    ASSUME NEW T \in SUBSET Nat, T # {}
    PROVE  \E x \in T : \A y \in T : x <= y
<1>1. \E x \in T : \A y \in T : ~(<<y, x>> \in OpToRel(<, Nat))
  BY NatLessThanWellFounded, WFMin
<1>2. PICK x \in T : \A y \in T : ~(<<y, x>> \in OpToRel(<, Nat))
  BY <1>1
<1>3. ASSUME NEW y \in T PROVE ~(y < x)
  BY <1>2 DEF OpToRel
<1> QED
  BY <1>3

Begun(day) ==
    {i \in DOMAIN PricingPeriods : day = Undated \/ day >= PricingPeriods[i].effectiveFrom}

(* There is a period for every day, and it is the newest that has begun:   *)
(* no price of a later one is used, and none of an earlier one once a      *)
(* later has begun; the oldest is used for the days before all of them.    *)
THEOREM PeriodIsTheNewest ==
    ASSUME NEW day \in Nat
    PROVE  /\ GetPeriod(day) \in DOMAIN PricingPeriods
           /\ \A i \in Begun(day) :
                 /\ GetPeriod(day) \in Begun(day)
                 /\ PricingPeriods[i].effectiveFrom <= PricingPeriods[GetPeriod(day)].effectiveFrom
           /\ Begun(day) = {} =>
                 \A i \in DOMAIN PricingPeriods :
                     PricingPeriods[GetPeriod(day)].effectiveFrom
                         <= PricingPeriods[i].effectiveFrom
<1> DEFINE Date(i) == PricingPeriods[i].effectiveFrom
<1>1. /\ Len(PricingPeriods) \in Nat \ {0} /\ DOMAIN PricingPeriods = 1..Len(PricingPeriods)
      /\ \A i \in DOMAIN PricingPeriods : Date(i) \in Nat
      /\ \A i, j \in DOMAIN PricingPeriods : i < j => Date(i) >= Date(j)
  BY PricingAssumption
<1> HIDE DEF Date
<1>2. \A i, j \in DOMAIN PricingPeriods : i <= j => Date(j) <= Date(i)
  BY <1>1
<1>3. CASE Begun(day) = {}
  <2>1. GetPeriod(day) = Len(PricingPeriods)
    BY <1>3 DEF GetPeriod, Begun
  <2> QED
    BY <1>1, <1>2, <1>3, <2>1 DEF Date
<1>4. CASE Begun(day) # {}
  <2>1. Begun(day) \subseteq DOMAIN PricingPeriods /\ Begun(day) \in SUBSET Nat
    BY <1>1 DEF Begun
  <2>2. \E i \in Begun(day) : \A j \in Begun(day) : i <= j
    BY <1>4, <2>1, LeastNumber
  <2>3. GetPeriod(day) = CHOOSE i \in Begun(day) : \A j \in Begun(day) : i <= j
    BY <1>4 DEF GetPeriod, Begun
  <2>4. GetPeriod(day) \in Begun(day) /\ \A j \in Begun(day) : GetPeriod(day) <= j
    BY <2>2, <2>3
  <2> QED
    BY <1>2, <1>4, <2>1, <2>4 DEF Date
<1> QED
  BY <1>3, <1>4

-----------------------------------------------------------------------------
(* Sums and costs *)

Stats ==
    [calls : Nat, turns : Nat, prompt : Nat, completion : Nat, cacheRead : Nat,
     cacheWrite : Nat, premium : Nat, cost : Nat, costNoCache : Nat, premiumCost : Nat]

(* The order in which entries are merged makes no difference, nor does an  *)
(* empty entry: maps may be walked in any order.                           *)
THEOREM MergingHasNoOrder ==
    ASSUME NEW s \in Stats, NEW t \in Stats, NEW u \in Stats
    PROVE  /\ MergeStats(s, t) \in Stats /\ NewStats \in Stats
           /\ MergeStats(s, t) = MergeStats(t, s)
           /\ MergeStats(MergeStats(s, t), u) = MergeStats(s, MergeStats(t, u))
           /\ MergeStats(NewStats, s) = s
<1>1. MergeStats(s, t) \in Stats /\ NewStats \in Stats
  BY DEF MergeStats, NewStats, Stats
<1>2. MergeStats(s, t) = MergeStats(t, s)
  BY DEF MergeStats, Stats
<1>3. MergeStats(MergeStats(s, t), u) = MergeStats(s, MergeStats(t, u))
  BY DEF MergeStats, Stats
<1>4. MergeStats(NewStats, s) = s
  BY DEF MergeStats, NewStats, Stats
<1> QED
  BY <1>1, <1>2, <1>3, <1>4

LEMMA PricesAreNumbers ==
    ASSUME NEW model, NEW day \in Nat, HasPricing(model, day)
    PROVE  GetPricing(model, day) \in Pricing
<1> DEFINE p == PricingPeriods[GetPeriod(day)]
<1>1. GetPeriod(day) \in DOMAIN PricingPeriods
  BY PeriodIsTheNewest
<1>2. p.modelPricing \in [DOMAIN p.modelPricing -> Pricing]
  BY <1>1, PricingAssumption
<1> QED
  BY <1>2 DEF GetPricing, HasPricing

LEMMA MultipliersAreNumbers ==
    ASSUME NEW model, NEW day \in Nat
    PROVE  GetPremiumMultiplier(model, day) \in Nat
<1> DEFINE p == PricingPeriods[GetPeriod(day)]
<1>1. GetPeriod(day) \in DOMAIN PricingPeriods
  BY PeriodIsTheNewest
<1>2. p.premiumMultiplier \in [DOMAIN p.premiumMultiplier -> Nat]
  BY <1>1, PricingAssumption
<1> QED
  BY <1>2 DEF GetPremiumMultiplier

LEMMA Distributes ==
    ASSUME NEW a \in Int, NEW b \in Int, NEW p \in Int
    PROVE  (a + b) * p = a * p + b * p
OBVIOUS

LEMMA ProductIsMonotone ==
    ASSUME NEW a \in Nat, NEW b \in Nat, NEW p \in Nat, a <= b
    PROVE  a * p \in Nat /\ a * p <= b * p
OBVIOUS

(* Entries of one model and day that are merged before they are priced     *)
(* cost no more than apart, and just as much if neither has more cached    *)
(* tokens than tokens; without caching, and in premium requests, they cost *)
(* the same.  So paths of different lengths through days, projects and     *)
(* calls differ in one direction only.                                     *)
THEOREM MergedIsNotDearer ==
    ASSUME NEW model, NEW day \in Nat, NEW s \in Stats, NEW t \in Stats
    PROVE  /\ CalcCost(model, MergeStats(s, t), day)
                  <= CalcCost(model, s, day) + CalcCost(model, t, day)
           /\ Sound(s) /\ Sound(t) =>
                  CalcCost(model, MergeStats(s, t), day)
                      = CalcCost(model, s, day) + CalcCost(model, t, day)
           /\ CalcCostNoCache(model, MergeStats(s, t), day)
                  = CalcCostNoCache(model, s, day) + CalcCostNoCache(model, t, day)
           /\ Premium(MergeStats(s, t), model, day).premium
                  = Premium(s, model, day).premium + Premium(t, model, day).premium
<1> DEFINE m == MergeStats(s, t)
<1>0. Premium(m, model, day).premium
          = Premium(s, model, day).premium + Premium(t, model, day).premium
  <2> DEFINE x == GetPremiumMultiplier(model, day)
  <2>1. s.turns \in Nat /\ t.turns \in Nat /\ m.turns = s.turns + t.turns /\ m \in Stats
    BY DEF Stats, MergeStats
  <2>2. x \in Nat
    BY MultipliersAreNumbers
  <2> HIDE DEF x, m
  <2>3. (s.turns + t.turns) * x = s.turns * x + t.turns * x
    BY <2>1, <2>2, Distributes
  <2>4. /\ Premium(m, model, day).premium = m.turns * x
        /\ Premium(s, model, day).premium = s.turns * x
        /\ Premium(t, model, day).premium = t.turns * x
    BY <2>1 DEF Premium, Stats, x
  <2> QED
    BY <2>1, <2>3, <2>4
<1>1. CASE ~HasPricing(model, day)
  BY <1>0, <1>1 DEF CalcCost, CalcCostNoCache
<1>2. CASE HasPricing(model, day)
  <2> DEFINE p == GetPricing(model, day)
  <2>1. p.input \in Nat /\ p.output \in Nat /\ p.cacheRead \in Nat /\ p.cacheWrite \in Nat
    BY <1>2, PricesAreNumbers DEF Pricing
  <2>2. /\ s.prompt \in Nat /\ s.completion \in Nat /\ s.cacheRead \in Nat /\ s.cacheWrite \in Nat
        /\ t.prompt \in Nat /\ t.completion \in Nat /\ t.cacheRead \in Nat /\ t.cacheWrite \in Nat
    BY DEF Stats
  <2>3. /\ m.prompt = s.prompt + t.prompt /\ m.completion = s.completion + t.completion
        /\ m.cacheRead = s.cacheRead + t.cacheRead /\ m.cacheWrite = s.cacheWrite + t.cacheWrite
    BY DEF MergeStats
  <2> HIDE DEF m, p
  <2> DEFINE us == UncachedInput(s)
             ut == UncachedInput(t)
             um == UncachedInput(m)
  <2>4. /\ us \in Nat /\ ut \in Nat /\ um \in Nat /\ um <= us + ut
        /\ Sound(s) /\ Sound(t) => um = us + ut
    BY <2>2, <2>3 DEF UncachedInput, NetInput, Sound
  <2> HIDE DEF us, ut, um
  <2>5. /\ um * p.input \in Nat /\ um * p.input <= us * p.input + ut * p.input
        /\ Sound(s) /\ Sound(t) => um * p.input = us * p.input + ut * p.input
    <3>1. (us + ut) * p.input = us * p.input + ut * p.input
      BY <2>1, <2>4, Distributes
    <3>2. us + ut \in Nat
      BY <2>4
    <3> QED
      BY <2>1, <2>4, <3>1, <3>2, ProductIsMonotone
  <2>6. /\ m.completion * p.output = s.completion * p.output + t.completion * p.output
        /\ m.cacheRead * p.cacheRead = s.cacheRead * p.cacheRead + t.cacheRead * p.cacheRead
        /\ m.cacheWrite * p.cacheWrite = s.cacheWrite * p.cacheWrite + t.cacheWrite * p.cacheWrite
        /\ m.prompt * p.input = s.prompt * p.input + t.prompt * p.input
    BY <2>1, <2>2, <2>3, Distributes
  <2>7. /\ us * p.input \in Int /\ ut * p.input \in Int /\ s.prompt * p.input \in Int
        /\ t.prompt * p.input \in Int
        /\ s.completion * p.output \in Int /\ t.completion * p.output \in Int
        /\ s.cacheRead * p.cacheRead \in Int /\ t.cacheRead * p.cacheRead \in Int
        /\ s.cacheWrite * p.cacheWrite \in Int /\ t.cacheWrite * p.cacheWrite \in Int
    BY <2>1, <2>2, <2>4
  <2>8. /\ CalcCost(model, s, day) = us * p.input + s.completion * p.output
               + s.cacheRead * p.cacheRead + s.cacheWrite * p.cacheWrite
        /\ CalcCost(model, t, day) = ut * p.input + t.completion * p.output
               + t.cacheRead * p.cacheRead + t.cacheWrite * p.cacheWrite
        /\ CalcCost(model, m, day) = um * p.input + m.completion * p.output
               + m.cacheRead * p.cacheRead + m.cacheWrite * p.cacheWrite
    BY <1>2 DEF CalcCost, p, us, ut, um
  <2>9. /\ CalcCostNoCache(model, s, day) = s.prompt * p.input + s.completion * p.output
        /\ CalcCostNoCache(model, t, day) = t.prompt * p.input + t.completion * p.output
        /\ CalcCostNoCache(model, m, day) = m.prompt * p.input + m.completion * p.output
    BY <1>2 DEF CalcCostNoCache, p
  <2>10. CalcCost(model, m, day) <= CalcCost(model, s, day) + CalcCost(model, t, day)
    BY <2>5, <2>6, <2>7, <2>8
  <2>11. Sound(s) /\ Sound(t) =>
             CalcCost(model, m, day) = CalcCost(model, s, day) + CalcCost(model, t, day)
    BY <2>5, <2>6, <2>7, <2>8
  <2>12. CalcCostNoCache(model, m, day)
             = CalcCostNoCache(model, s, day) + CalcCostNoCache(model, t, day)
    BY <2>6, <2>7, <2>9
  <2> QED
    BY <1>0, <2>10, <2>11, <2>12 DEF m
<1> QED
  BY <1>1, <1>2

(* The calls of two windows that meet are those of the window over both,   *)
(* each in one of the two.                                                 *)
WindowsMeet ==
    \A a, c \in Times \cup {NoTime}, b \in Times, needle \in Needles :
        LET Window(from, to) == [from |-> from, to |-> to, needle |-> needle]
        IN  a <= b /\ (c = NoTime \/ b <= c) =>
                /\ QueryRecords(Window(a, c))
                       = QueryRecords(Window(a, b)) \cup QueryRecords(Window(b, c))
                /\ QueryRecords(Window(a, b)) \cap QueryRecords(Window(b, c)) = {}

THEOREM WindowsShareNoCall == StatisticsSpec => []WindowsMeet
<1>1. StatisticsInit => rows \subseteq Rows
  BY DEF StatisticsInit
<1>2. rows \subseteq Rows /\ [StatisticsNext]_statisticsVars => (rows \subseteq Rows)'
  BY DEF StatisticsNext, InsertRow, UpsertSessionWorkspace, statisticsVars
<1>3. rows \subseteq Rows => WindowsMeet
  <2> SUFFICES ASSUME rows \subseteq Rows,
                      NEW a \in Times \cup {NoTime}, NEW c \in Times \cup {NoTime},
                      NEW b \in Times, NEW needle \in Needles,
                      a <= b, c = NoTime \/ b <= c
               PROVE  LET Window(from, to) == [from |-> from, to |-> to, needle |-> needle]
                      IN  /\ QueryRecords(Window(a, c))
                                 = QueryRecords(Window(a, b)) \cup QueryRecords(Window(b, c))
                          /\ QueryRecords(Window(a, b)) \cap QueryRecords(Window(b, c)) = {}
    BY DEF WindowsMeet
  <2> DEFINE Window(from, to) == [from |-> from, to |-> to, needle |-> needle]
  <2>1. a \in Nat /\ c \in Nat /\ b \in Nat \ {NoTime}
    BY StatisticsAssumption DEF NoTime
  <2>2. ASSUME NEW r \in rows
        PROVE  /\ BuildFilters(r, Window(a, c))
                      <=> BuildFilters(r, Window(a, b)) \/ BuildFilters(r, Window(b, c))
               /\ ~(BuildFilters(r, Window(a, b)) /\ BuildFilters(r, Window(b, c)))
    <3>1. r.time \in Nat
      BY StatisticsAssumption
    <3> DEFINE found == needle # "" => needle \in Words(workspaces[r.session])
               In(from, to) == (from # 0 => r.time >= from) /\ (to # 0 => r.time < to)
    <3>2. \A from, to : BuildFilters(r, Window(from, to)) <=> In(from, to) /\ found
      BY DEF BuildFilters, NoTime
    <3>3. /\ In(a, c) <=> In(a, b) \/ In(b, c)
          /\ ~(In(a, b) /\ In(b, c))
      BY <2>1, <3>1 DEF NoTime
    <3> HIDE DEF found, In, Window
    <3> QED
      BY <3>2, <3>3
  <2> HIDE DEF Window
  <2>3. /\ QueryRecords(Window(a, c))
               = QueryRecords(Window(a, b)) \cup QueryRecords(Window(b, c))
        /\ QueryRecords(Window(a, b)) \cap QueryRecords(Window(b, c)) = {}
    BY <2>2 DEF QueryRecords
  <2> QED
    BY <2>3 DEF Window
<1> QED
  BY <1>1, <1>2, <1>3, PTL DEF StatisticsSpec

(* For a viewer west of Greenwich by whole hours, every call is so many    *)
(* hours earlier on the clock.                                             *)
THEOREM HoursShift ==
    ASSUME NEW time \in Nat, NEW offset \in Int, offset % 60 = 0
    PROVE  Hour(time, offset)
               = (Hour(time, 0) - (NormalizeTimezoneOffset(offset) \div 60)) % 24
<1> DEFINE o == NormalizeTimezoneOffset(offset)
           k == o \div 60
<1>1. o \in Int /\ o % 60 = 0 /\ NormalizeTimezoneOffset(0) = 0
  BY DEF NormalizeTimezoneOffset
<1> HIDE DEF o
<1>2. k \in Int /\ o = 60 * k
  BY <1>1
<1> HIDE DEF k
<1>3. ((time - 60 * k) % 1440) \div 60 = (((time % 1440) \div 60) - k) % 24
  BY <1>2
<1>4. Hour(time, offset) = ((time - o) % 1440) \div 60
      /\ Hour(time, 0) = ((time - 0) % 1440) \div 60
  BY <1>1 DEF Hour, MinutesPerDay, o
<1> QED
  BY <1>2, <1>3, <1>4 DEF k, o

-----------------------------------------------------------------------------
(* Induction over the subsets of a finite set *)

LEMMA SubsetInduction ==
    ASSUME NEW S, IsFiniteSet(S), NEW T,
           \A s \in SUBSET S : (\A u \in SUBSET s : u # s => u \in T) => s \in T
    PROVE  SUBSET S \subseteq T
<1> DEFINE bad == (SUBSET S) \ T
<1>1. SUFFICES ASSUME bad # {} PROVE FALSE
  OBVIOUS
<1>2. IsWellFoundedOn(StrictSubsetOrdering(S), SUBSET S)
  BY FS_StrictSubsetOrderingWellFounded, FS_FiniteSubsetsOfFinite
<1>3. PICK s \in bad : \A u \in bad : ~(<<u, s>> \in StrictSubsetOrdering(S))
  <2> HIDE DEF bad
  <2>1. bad \subseteq SUBSET S
    BY DEF bad
  <2> QED
    BY <1>1, <1>2, <2>1, WFMin
<1>4. \A u \in SUBSET s : u # s => u \in T
  BY <1>3 DEF StrictSubsetOrdering
<1> QED
  BY <1>4

-----------------------------------------------------------------------------
(* Folds *)

Chosen(s) == CHOOSE x \in s : TRUE

LEMMA ChosenIsMember == ASSUME NEW s, s # {} PROVE Chosen(s) \in s
BY DEF Chosen

IsFold(g, S, V, base, step) ==
    /\ g \in [SUBSET S -> V]
    /\ \A s \in SUBSET S :
          g[s] = IF s = {} THEN base ELSE step[<<Chosen(s), g[s \ {Chosen(s)}]>>]

LEMMA FoldUnique ==
    ASSUME NEW V, NEW base, NEW step, NEW S1, NEW S2, NEW g1, NEW g2,
           IsFold(g1, S1, V, base, step), IsFold(g2, S2, V, base, step),
           NEW S, IsFiniteSet(S), S \subseteq S1, S \subseteq S2
    PROVE  g1[S] = g2[S]
<1> DEFINE T == {s \in SUBSET S : g1[s] = g2[s]}
<1>1. ASSUME NEW s \in SUBSET S, \A u \in SUBSET s : u # s => u \in T
      PROVE  s \in T
  <2>1. s \in SUBSET S1 /\ s \in SUBSET S2
    OBVIOUS
  <2>2. CASE s = {}
    BY <2>1, <2>2 DEF IsFold
  <2>3. CASE s # {}
    <3>1. s \ {Chosen(s)} \in SUBSET s /\ s \ {Chosen(s)} # s
      BY <2>3, ChosenIsMember
    <3>2. g1[s \ {Chosen(s)}] = g2[s \ {Chosen(s)}]
      BY <1>1, <3>1
    <3> QED
      BY <2>1, <2>3, <3>2 DEF IsFold
  <2> QED
    BY <2>2, <2>3
<1> HIDE DEF T
<1>2. SUBSET S \subseteq T
  BY <1>1, SubsetInduction
<1> QED
  BY <1>2 DEF T

Steps(S, V) == [S \X V -> V]

Below(g, R) == [s \in SUBSET R |-> g[s]]

LEMMA FoldRestricts ==
    ASSUME NEW V, NEW base, NEW step, NEW S, NEW g, IsFold(g, S, V, base, step),
           NEW R \in SUBSET S
    PROVE  IsFold(Below(g, R), R, V, base, step)
<1> DEFINE h == Below(g, R)
<1>1. h \in [SUBSET R -> V]
  BY DEF IsFold, Below
<1>2. ASSUME NEW s \in SUBSET R
      PROVE  h[s] = IF s = {} THEN base ELSE step[<<Chosen(s), h[s \ {Chosen(s)}]>>]
  <2>1. s \in SUBSET S /\ s \ {Chosen(s)} \in SUBSET R
    OBVIOUS
  <2>2. h[s] = g[s] /\ h[s \ {Chosen(s)}] = g[s \ {Chosen(s)}]
    BY <2>1 DEF Below
  <2> QED
    BY <2>1, <2>2 DEF IsFold
<1> HIDE DEF h
<1>3. IsFold(h, R, V, base, step)
  BY <1>1, <1>2 DEF IsFold
<1> QED
  BY <1>3 DEF h

LEMMA FoldExists ==
    ASSUME NEW S, IsFiniteSet(S), NEW V, NEW base \in V, NEW step \in Steps(S, V)
    PROVE  \E g : IsFold(g, S, V, base, step)
<1> DEFINE Folds(s) == {g \in [SUBSET s -> V] : IsFold(g, s, V, base, step)}
           T == {s \in SUBSET S : Folds(s) # {}}
<1>1. ASSUME NEW s \in SUBSET S, \A u \in SUBSET s : u # s => u \in T
      PROVE  s \in T
  <2> DEFINE FoldTo(u) == (CHOOSE g : IsFold(g, u, V, base, step))[u]
             prev == s \ {Chosen(s)}
             last == IF s = {} THEN base ELSE step[<<Chosen(s), FoldTo(prev)>>]
             g == [u \in SUBSET s |-> IF u = s THEN last ELSE FoldTo(u)]
  <2>1. ASSUME NEW u \in SUBSET s, u # s, NEW h, IsFold(h, u, V, base, step)
        PROVE  \A v \in SUBSET u : FoldTo(v) = h[v] /\ FoldTo(v) \in V
    <3> TAKE v \in SUBSET u
    <3>1. IsFold(Below(h, v), v, V, base, step)
      BY <2>1, FoldRestricts
    <3> DEFINE f == CHOOSE k : IsFold(k, v, V, base, step)
    <3>2. IsFold(f, v, V, base, step)
      BY <3>1
    <3>3. IsFiniteSet(v)
      BY FS_Subset
    <3> HIDE DEF f
    <3>4. f[v] = h[v]
      BY <2>1, <3>2, <3>3, FoldUnique
    <3>5. h[v] \in V
      BY <2>1 DEF IsFold
    <3> QED
      BY <3>4, <3>5 DEF f
  <2>2. ASSUME NEW u \in SUBSET s, u # s
        PROVE  /\ FoldTo(u) \in V
               /\ FoldTo(u) = IF u = {} THEN base
                              ELSE step[<<Chosen(u), FoldTo(u \ {Chosen(u)})>>]
    <3>1. PICK h : IsFold(h, u, V, base, step)
      BY <1>1, <2>2
    <3> HIDE DEF FoldTo
    <3>2. \A v \in SUBSET u : FoldTo(v) = h[v] /\ FoldTo(v) \in V
      BY <2>1, <2>2, <3>1
    <3>3. u \in SUBSET u /\ u \ {Chosen(u)} \in SUBSET u
      OBVIOUS
    <3>4. h[u] = IF u = {} THEN base ELSE step[<<Chosen(u), h[u \ {Chosen(u)}]>>]
      BY <3>1, <3>3 DEF IsFold
    <3> QED
      BY <3>2, <3>3, <3>4
  <2> HIDE DEF FoldTo
  <2>3. s # {} => Chosen(s) \in s /\ prev \in SUBSET s /\ prev # s
    BY ChosenIsMember
  <2>4. last \in V
    BY <2>2, <2>3 DEF Steps
  <2>5. g \in [SUBSET s -> V]
    BY <2>2, <2>4
  <2>6. ASSUME NEW u \in SUBSET s
        PROVE  g[u] = IF u = {} THEN base ELSE step[<<Chosen(u), g[u \ {Chosen(u)}]>>]
    <3>1. u # {} => Chosen(u) \in u
      BY ChosenIsMember
    <3>2. u # {} => u \ {Chosen(u)} \in SUBSET s /\ u \ {Chosen(u)} # s
      BY <3>1
    <3>3. u # {} => g[u \ {Chosen(u)}] = FoldTo(u \ {Chosen(u)})
      BY <3>2
    <3>4. CASE u = s
      BY <3>3, <3>4
    <3>5. CASE u # s
      <4>1. g[u] = FoldTo(u)
        BY <3>5
      <4> HIDE DEF g
      <4> QED
        BY <2>2, <3>3, <3>5, <4>1
    <3> QED
      BY <3>4, <3>5
  <2> HIDE DEF g
  <2>7. IsFold(g, s, V, base, step)
    BY <2>5, <2>6 DEF IsFold
  <2> QED
    BY <2>5, <2>7
<1> HIDE DEF T
<1>2. SUBSET S \subseteq T
  BY <1>1, SubsetInduction
<1> QED
  BY <1>2 DEF T
FoldOf(S, V, base, step) == (CHOOSE g : IsFold(g, S, V, base, step))[S]

LEMMA FoldOfIs ==
    ASSUME NEW S, IsFiniteSet(S), NEW V, NEW base, NEW step, NEW g, IsFold(g, S, V, base, step)
    PROVE  FoldOf(S, V, base, step) = g[S]
<1> DEFINE f == CHOOSE h : IsFold(h, S, V, base, step)
<1>1. IsFold(f, S, V, base, step)
  OBVIOUS
<1> HIDE DEF f
<1>2. f[S] = g[S]
  BY <1>1, FoldUnique
<1> QED
  BY <1>2 DEF f, FoldOf

(* Two functions that do the same with the members of S. *)
LEMMA FoldAgrees ==
    ASSUME NEW S, IsFiniteSet(S), NEW V, NEW base \in V,
           NEW step \in Steps(S, V), NEW D, NEW step2 \in Steps(D, V), S \subseteq D,
           \A x \in S : \A v \in V : step[<<x, v>>] = step2[<<x, v>>]
    PROVE  FoldOf(S, V, base, step) = FoldOf(S, V, base, step2)
<1>1. PICK g : IsFold(g, S, V, base, step)
  BY FoldExists
<1>2. IsFold(g, S, V, base, step2)
  <2>1. g \in [SUBSET S -> V]
    BY <1>1 DEF IsFold
  <2>2. ASSUME NEW s \in SUBSET S
        PROVE  g[s] = IF s = {} THEN base ELSE step2[<<Chosen(s), g[s \ {Chosen(s)}]>>]
    <3>1. CASE s = {}
      BY <1>1, <3>1 DEF IsFold
    <3>2. CASE s # {}
      <4>1. Chosen(s) \in S /\ g[s \ {Chosen(s)}] \in V
        BY <2>1, <3>2, ChosenIsMember
      <4>2. g[s] = step[<<Chosen(s), g[s \ {Chosen(s)}]>>]
        BY <1>1, <3>2 DEF IsFold
      <4> QED
        BY <3>2, <4>1, <4>2
    <3> QED
      BY <3>1, <3>2
  <2> QED
    BY <2>1, <2>2 DEF IsFold
<1> QED
  BY <1>1, <1>2, FoldOfIs

LEMMA FoldOfType ==
    ASSUME NEW S, IsFiniteSet(S), NEW V, NEW base \in V, NEW step \in Steps(S, V)
    PROVE  FoldOf(S, V, base, step) \in V
<1>1. PICK g : IsFold(g, S, V, base, step)
  BY FoldExists
<1>2. FoldOf(S, V, base, step) = g[S]
  BY <1>1, FoldOfIs
<1>3. g[S] \in V
  BY <1>1 DEF IsFold
<1> QED
  BY <1>2, <1>3

LEMMA FoldOfMore ==
    ASSUME NEW S, IsFiniteSet(S), S # {}, NEW V, NEW base \in V, NEW step \in Steps(S, V)
    PROVE  FoldOf(S, V, base, step) = step[<<Chosen(S), FoldOf(S \ {Chosen(S)}, V, base, step)>>]
<1> DEFINE R == S \ {Chosen(S)}
<1>1. PICK g : IsFold(g, S, V, base, step)
  BY FoldExists
<1>2. R \in SUBSET S /\ IsFiniteSet(R)
  BY FS_Subset
<1>3. IsFold(Below(g, R), R, V, base, step)
  BY <1>1, <1>2, FoldRestricts
<1>4. FoldOf(R, V, base, step) = g[R]
  <2>1. FoldOf(R, V, base, step) = Below(g, R)[R]
    BY <1>2, <1>3, FoldOfIs
  <2> QED
    BY <2>1 DEF Below
<1>5. FoldOf(S, V, base, step) = g[S]
  BY <1>1, FoldOfIs
<1>6. g[S] = step[<<Chosen(S), g[R]>>]
  BY <1>1 DEF IsFold
<1> QED
  BY <1>4, <1>5, <1>6

LEMMA FoldOfNone ==
    ASSUME NEW S, S = {}, NEW V, NEW base \in V, NEW step \in Steps(S, V)
    PROVE  FoldOf(S, V, base, step) = base
<1>1. IsFiniteSet(S) /\ S \in SUBSET S
  BY FS_EmptySet
<1>2. PICK g : IsFold(g, S, V, base, step)
  BY <1>1, FoldExists
<1>3. FoldOf(S, V, base, step) = g[S]
  BY <1>1, <1>2, FoldOfIs
<1>4. g[S] = base
  BY <1>1, <1>2 DEF IsFold
<1> QED
  BY <1>3, <1>4

-----------------------------------------------------------------------------
(* Grand totals *)

LEMMA MergeType ==
    ASSUME NEW s \in Stats, NEW t \in Stats
    PROVE  MergeStats(s, t) \in Stats
BY MergingHasNoOrder

LEMMA NewStatsType == NewStats \in Stats
BY DEF NewStats, Stats

LEMMA MergesSwap ==
    ASSUME NEW s \in Stats, NEW t \in Stats, NEW u \in Stats
    PROVE  MergeStats(MergeStats(s, t), u) = MergeStats(MergeStats(s, u), t)
BY DEF MergeStats, Stats

Tables(D) == [D -> Stats]

(* What is known of a table and of a part of it. *)
LEMMA TableParts ==
    ASSUME NEW D, NEW table \in Tables(D), NEW s \in SUBSET D
    PROVE  /\ DOMAIN table = D
           /\ \A x \in D : table[x] \in Stats
           /\ Restrict(table, s) \in Tables(s)
           /\ \A x \in s : Restrict(table, s)[x] = table[x]
           /\ \A u \in SUBSET s : Restrict(Restrict(table, s), u) = Restrict(table, u)
           /\ Restrict(table, D) = table
BY DEF Restrict, Tables

TotalStep(D, table) == [p \in D \X Stats |-> MergeStats(p[2], table[p[1]])]

LEMMA TotalStepType ==
    ASSUME NEW D, NEW table \in Tables(D)
    PROVE  /\ TotalStep(D, table) \in Steps(D, Stats)
           /\ \A x \in D : \A v \in Stats :
                 TotalStep(D, table)[<<x, v>>] = MergeStats(v, table[x])
<1>1. ASSUME NEW p \in D \X Stats PROVE MergeStats(p[2], table[p[1]]) \in Stats
  <2>1. p[2] \in Stats /\ table[p[1]] \in Stats
    BY DEF Tables
  <2> QED
    BY <2>1, MergeType
<1>2. TotalStep(D, table) = [p \in D \X Stats |-> MergeStats(p[2], table[p[1]])]
  BY DEF TotalStep
<1>3. TotalStep(D, table) \in Steps(D, Stats)
  BY <1>1, <1>2 DEF Steps
<1>4. ASSUME NEW x \in D, NEW v \in Stats
      PROVE  TotalStep(D, table)[<<x, v>>] = MergeStats(v, table[x])
  BY <1>2
<1> QED
  BY <1>3, <1>4

LEMMA GrandTotalIsFold ==
    ASSUME NEW D, IsFiniteSet(D), NEW table \in Tables(D)
    PROVE  GrandTotal(table) = FoldOf(D, Stats, NewStats, TotalStep(D, table))
<1> DEFINE Body(iter) == [s \in SUBSET D |->
               IF s = {} THEN NewStats
               ELSE LET x == CHOOSE y \in s : TRUE IN MergeStats(iter[s \ {x}], table[x])]
           f == CHOOSE iter : iter = Body(iter)
<1>1. GrandTotal(table) = f[D]
  <2>1. DOMAIN table = D
    BY DEF Tables
  <2> QED
    BY <2>1 DEF GrandTotal, FoldSet, MapThenFoldSet
<1>2. NewStats \in Stats /\ TotalStep(D, table) \in Steps(D, Stats)
  BY TotalStepType, MergeType DEF NewStats, Stats
<1>3. PICK g : IsFold(g, D, Stats, NewStats, TotalStep(D, table))
  BY <1>2, FoldExists
<1>4. ASSUME NEW s \in SUBSET D, s # {}
      PROVE  /\ Chosen(s) \in s /\ s \ {Chosen(s)} \in SUBSET D
             /\ g[s] = MergeStats(g[s \ {Chosen(s)}], table[Chosen(s)])
  <2>1. Chosen(s) \in s /\ s \ {Chosen(s)} \in SUBSET D /\ g[s \ {Chosen(s)}] \in Stats
    BY <1>3, <1>4, ChosenIsMember DEF IsFold
  <2>2. g[s] = TotalStep(D, table)[<<Chosen(s), g[s \ {Chosen(s)}]>>]
    BY <1>3, <1>4 DEF IsFold
  <2> QED
    BY <2>1, <2>2, TotalStepType
<1>5. g = Body(g)
  <2>1. g \in [SUBSET D -> Stats] /\ g[{}] = NewStats
    BY <1>3 DEF IsFold
  <2>2. \A s \in SUBSET D : g[s] = Body(g)[s]
    BY <1>4, <2>1 DEF Chosen
  <2> QED
    BY <2>1, <2>2
<1>6. f = Body(f)
  <2> HIDE DEF Body
  <2> QED
    BY <1>5
<1> HIDE DEF f
<1>7. ASSUME NEW s \in SUBSET D
      PROVE  f[s] = IF s = {} THEN NewStats
                    ELSE MergeStats(f[s \ {Chosen(s)}], table[Chosen(s)])
  <2>1. f[s] = Body(f)[s]
    BY <1>6
  <2> QED
    BY <2>1 DEF Chosen
<1> DEFINE T == {s \in SUBSET D : f[s] = g[s]}
<1>8. ASSUME NEW s \in SUBSET D, \A u \in SUBSET s : u # s => u \in T
      PROVE  s \in T
  <2>1. CASE s = {}
    BY <1>3, <1>7, <2>1 DEF IsFold
  <2>2. CASE s # {}
    <3>1. f[s \ {Chosen(s)}] = g[s \ {Chosen(s)}]
      BY <1>4, <1>8, <2>2
    <3> QED
      BY <1>4, <1>7, <2>2, <3>1
  <2> QED
    BY <2>1, <2>2
<1> HIDE DEF T
<1>9. SUBSET D \subseteq T
  BY <1>8, SubsetInduction
<1>10. f[D] = g[D]
  BY <1>9 DEF T
<1> QED
  BY <1>1, <1>3, <1>10, FoldOfIs

LEMMA TotalType ==
    ASSUME NEW D, IsFiniteSet(D), NEW table \in Tables(D)
    PROVE  GrandTotal(table) \in Stats
<1>1. TotalStep(D, table) \in Steps(D, Stats) /\ NewStats \in Stats
  BY TotalStepType, NewStatsType
<1>2. FoldOf(D, Stats, NewStats, TotalStep(D, table)) \in Stats
  BY <1>1, FoldOfType
<1> QED
  BY <1>2, GrandTotalIsFold

LEMMA TotalOfNone ==
    ASSUME NEW D, D = {}, NEW table \in Tables(D)
    PROVE  GrandTotal(table) = NewStats
<1> DEFINE total == FoldOf(D, Stats, NewStats, TotalStep(D, table))
<1>1. total = NewStats
  <2>1. TotalStep(D, table) \in Steps(D, Stats) /\ NewStats \in Stats
    BY TotalStepType, NewStatsType
  <2> QED
    BY <2>1, FoldOfNone
<1>2. GrandTotal(table) = total
  BY FS_EmptySet, GrandTotalIsFold
<1> QED
  BY <1>1, <1>2

LEMMA TotalWithoutChosen ==
    ASSUME NEW D, IsFiniteSet(D), NEW table \in Tables(D), D # {}
    PROVE  GrandTotal(table)
               = MergeStats(GrandTotal(Restrict(table, D \ {Chosen(D)})), table[Chosen(D)])
<1> DEFINE c == Chosen(D)
           R == D \ {c}
           rest == Restrict(table, R)
           step == TotalStep(D, table)
<1>1. c \in D /\ R \in SUBSET D /\ IsFiniteSet(R)
  BY ChosenIsMember, FS_Subset
<1>2. rest \in Tables(R) /\ \A x \in R : rest[x] = table[x]
  BY <1>1, TableParts
<1>3. /\ step \in Steps(D, Stats) /\ NewStats \in Stats
      /\ \A x \in D : \A v \in Stats : step[<<x, v>>] = MergeStats(v, table[x])
  BY TotalStepType, NewStatsType
<1>4. FoldOf(D, Stats, NewStats, step) = step[<<c, FoldOf(R, Stats, NewStats, step)>>]
  BY <1>3, FoldOfMore
<1>5. GrandTotal(table) = FoldOf(D, Stats, NewStats, step)
  BY GrandTotalIsFold
<1> HIDE DEF rest, R, c, step
<1>6. FoldOf(R, Stats, NewStats, step) = GrandTotal(rest)
  <2>1. /\ TotalStep(R, rest) \in Steps(R, Stats)
        /\ \A x \in R : \A v \in Stats : TotalStep(R, rest)[<<x, v>>] = MergeStats(v, rest[x])
    BY <1>2, TotalStepType
  <2>2. ASSUME NEW x \in R, NEW v \in Stats
        PROVE  TotalStep(R, rest)[<<x, v>>] = step[<<x, v>>]
    <3>1. x \in D /\ rest[x] = table[x]
      BY <1>1, <1>2
    <3>2. TotalStep(R, rest)[<<x, v>>] = MergeStats(v, rest[x])
      BY <2>1
    <3>3. step[<<x, v>>] = MergeStats(v, table[x])
      BY <1>3, <3>1
    <3> QED
      BY <3>1, <3>2, <3>3
  <2>3. FoldOf(R, Stats, NewStats, TotalStep(R, rest)) = FoldOf(R, Stats, NewStats, step)
    BY <1>1, <1>3, <2>1, <2>2, FoldAgrees
  <2> QED
    BY <1>1, <1>2, <2>3, GrandTotalIsFold
<1>7. GrandTotal(rest) \in Stats
  BY <1>1, <1>2, TotalType
<1>8. GrandTotal(table) = MergeStats(GrandTotal(rest), table[c])
  BY <1>1, <1>3, <1>4, <1>5, <1>6, <1>7
<1> QED
  BY <1>8 DEF rest, R, c

(* The total is the same in whatever order the entries are added. *)
LEMMA TotalWithout ==
    ASSUME NEW D, IsFiniteSet(D), NEW table \in Tables(D), NEW x \in D
    PROVE  GrandTotal(table) = MergeStats(GrandTotal(Restrict(table, D \ {x})), table[x])
<1> DEFINE P(s) == GrandTotal(Restrict(table, s))
           T == {s \in SUBSET D : \A y \in s : P(s) = MergeStats(P(s \ {y}), table[y])}
<1>1. ASSUME NEW s \in SUBSET D
      PROVE  /\ P(s) \in Stats
             /\ s # {} => /\ Chosen(s) \in s
                          /\ P(s) = MergeStats(P(s \ {Chosen(s)}), table[Chosen(s)])
  <2> DEFINE part == Restrict(table, s)
  <2>1. IsFiniteSet(s)
    BY FS_Subset
  <2>2. /\ part \in Tables(s) /\ \A y \in s : part[y] = table[y]
        /\ \A u \in SUBSET s : Restrict(part, u) = Restrict(table, u)
    BY TableParts
  <2> HIDE DEF part
  <2>3. GrandTotal(part) \in Stats
    BY <2>1, <2>2, TotalType
  <2>4. ASSUME s # {}
        PROVE  /\ Chosen(s) \in s
               /\ GrandTotal(part) = MergeStats(P(s \ {Chosen(s)}), table[Chosen(s)])
    <3>1. Chosen(s) \in s /\ s \ {Chosen(s)} \in SUBSET s
      BY <2>4, ChosenIsMember
    <3>2. GrandTotal(part)
              = MergeStats(GrandTotal(Restrict(part, s \ {Chosen(s)})), part[Chosen(s)])
      BY <2>1, <2>2, <2>4, TotalWithoutChosen
    <3> QED
      BY <2>2, <3>1, <3>2
  <2> QED
    BY <2>3, <2>4 DEF part
<1>2. \A y \in D : table[y] \in Stats
  BY TableParts
<1> HIDE DEF P
<1>3. ASSUME NEW s \in SUBSET D, \A u \in SUBSET s : u # s => u \in T
      PROVE  s \in T
  <2> SUFFICES ASSUME NEW y \in s PROVE P(s) = MergeStats(P(s \ {y}), table[y])
    OBVIOUS
  <2> DEFINE c == Chosen(s)
             both == s \ {c, y}
  <2>1. c \in s /\ P(s) = MergeStats(P(s \ {c}), table[c])
    BY <1>1
  <2>2. CASE y = c
    BY <2>1, <2>2
  <2>3. CASE y # c
    <3> HIDE DEF c
    <3>1. /\ s \ {c} \in SUBSET s /\ s \ {c} # s /\ y \in s \ {c}
          /\ s \ {y} \in SUBSET s /\ s \ {y} # s /\ c \in s \ {y}
          /\ (s \ {c}) \ {y} = both /\ (s \ {y}) \ {c} = both
      BY <2>1, <2>3
    <3>2. P(s \ {c}) = MergeStats(P(both), table[y])
      BY <1>3, <3>1
    <3>3. P(s \ {y}) = MergeStats(P(both), table[c])
      BY <1>3, <3>1
    <3>4. P(both) \in Stats /\ table[c] \in Stats /\ table[y] \in Stats
      BY <1>1, <1>2, <2>1
    <3> HIDE DEF both
    <3>5. MergeStats(MergeStats(P(both), table[y]), table[c])
              = MergeStats(MergeStats(P(both), table[c]), table[y])
      BY <3>4, MergesSwap
    <3> QED
      BY <2>1, <3>2, <3>3, <3>5
  <2> QED
    BY <2>2, <2>3
<1> HIDE DEF T
<1>4. SUBSET D \subseteq T
  BY <1>3, SubsetInduction
<1>5. P(D) = MergeStats(P(D \ {x}), table[x])
  BY <1>4 DEF T
<1>6. Restrict(table, D) = table
  BY TableParts
<1> QED
  BY <1>5, <1>6 DEF P

(* The total of the entries of s. *)
TotalOf(table, s) == GrandTotal(Restrict(table, s))

LEMMA TotalOfParts ==
    ASSUME NEW D, IsFiniteSet(D), NEW table \in Tables(D)
    PROVE  /\ \A s \in SUBSET D : TotalOf(table, s) \in Stats
           /\ TotalOf(table, {}) = NewStats
           /\ \A s \in SUBSET D : \A x \in s :
                 TotalOf(table, s) = MergeStats(TotalOf(table, s \ {x}), table[x])
           /\ TotalOf(table, D) = GrandTotal(table)
<1>1. ASSUME NEW s \in SUBSET D
      PROVE  /\ TotalOf(table, s) \in Stats
             /\ \A x \in s : TotalOf(table, s) = MergeStats(TotalOf(table, s \ {x}), table[x])
  <2> DEFINE part == Restrict(table, s)
  <2>1. IsFiniteSet(s)
    BY FS_Subset
  <2>2. /\ part \in Tables(s) /\ \A y \in s : part[y] = table[y]
        /\ \A u \in SUBSET s : Restrict(part, u) = Restrict(table, u)
    BY TableParts
  <2> HIDE DEF part
  <2>3. GrandTotal(part) \in Stats
    BY <2>1, <2>2, TotalType
  <2>4. ASSUME NEW x \in s
        PROVE  GrandTotal(part) = MergeStats(TotalOf(table, s \ {x}), table[x])
    <3>1. GrandTotal(part) = MergeStats(GrandTotal(Restrict(part, s \ {x})), part[x])
      BY <2>1, <2>2, TotalWithout
    <3>2. Restrict(part, s \ {x}) = Restrict(table, s \ {x})
      BY <2>2
    <3> QED
      BY <2>2, <3>1, <3>2 DEF TotalOf
  <2> QED
    BY <2>3, <2>4 DEF part, TotalOf
<1>2. TotalOf(table, {}) = NewStats
  <2> DEFINE none == {}
  <2>1. Restrict(table, none) \in Tables(none)
    BY TableParts
  <2> QED
    BY <2>1, TotalOfNone DEF TotalOf
<1>3. TotalOf(table, D) = GrandTotal(table)
  BY TableParts DEF TotalOf
<1> QED
  BY <1>1, <1>2, <1>3

LEMMA MergeOfNew ==
    ASSUME NEW s \in Stats
    PROVE  MergeStats(NewStats, s) = s /\ MergeStats(s, NewStats) = s
BY MergingHasNoOrder

LEMMA MergesAssociate ==
    ASSUME NEW s \in Stats, NEW t \in Stats, NEW u \in Stats
    PROVE  MergeStats(MergeStats(s, t), u) = MergeStats(s, MergeStats(t, u))
BY DEF MergeStats, Stats

(* The total is that of two halves. *)
LEMMA TotalSplits ==
    ASSUME NEW D, IsFiniteSet(D), NEW table \in Tables(D), NEW A \in SUBSET D, NEW B \in SUBSET D,
           A \cap B = {}
    PROVE  TotalOf(table, A \cup B) = MergeStats(TotalOf(table, A), TotalOf(table, B))
<1> DEFINE P(s) == TotalOf(table, s)
           T == {s \in SUBSET A : P(s \cup B) = MergeStats(P(s), P(B))}
<1>1. /\ \A s \in SUBSET D : P(s) \in Stats
      /\ P({}) = NewStats
      /\ \A s \in SUBSET D : \A x \in s : P(s) = MergeStats(P(s \ {x}), table[x])
  BY TotalOfParts
<1>2. \A y \in D : table[y] \in Stats
  BY TableParts
<1> HIDE DEF P
<1>3. ASSUME NEW s \in SUBSET A, \A u \in SUBSET s : u # s => u \in T
      PROVE  s \in T
  <2>1. CASE s = {}
    <3>1. s \cup B = B
      BY <2>1
    <3>2. P(B) = MergeStats(NewStats, P(B))
      BY <1>1, MergeOfNew
    <3> QED
      BY <1>1, <2>1, <3>1, <3>2
  <2>2. CASE s # {}
    <3>1. PICK x : x \in s
      BY <2>2
    <3> DEFINE r == s \ {x}
    <3>2. /\ r \in SUBSET s /\ r # s /\ (s \cup B) \ {x} = r \cup B
          /\ s \cup B \in SUBSET D /\ s \in SUBSET D
      BY <3>1
    <3>3. P(r \cup B) = MergeStats(P(r), P(B))
      BY <1>3, <3>2
    <3>4. P(s \cup B) = MergeStats(P(r \cup B), table[x]) /\ P(s) = MergeStats(P(r), table[x])
      BY <1>1, <3>1, <3>2
    <3>5. P(r) \in Stats /\ P(B) \in Stats /\ table[x] \in Stats
      BY <1>1, <1>2, <3>1, <3>2
    <3> HIDE DEF r
    <3>6. MergeStats(MergeStats(P(r), P(B)), table[x])
              = MergeStats(MergeStats(P(r), table[x]), P(B))
      BY <3>5, MergesSwap
    <3> QED
      BY <3>3, <3>4, <3>6
  <2> QED
    BY <2>1, <2>2
<1> HIDE DEF T
<1>4. IsFiniteSet(A)
  BY FS_Subset
<1>5. SUBSET A \subseteq T
  BY <1>3, <1>4, SubsetInduction
<1> QED
  BY <1>5 DEF T, P

(* Values that may be merged, and functions of them that may be applied    *)
(* before or after the merging.                                            *)
Closed(V) ==
    /\ V \subseteq Stats /\ NewStats \in V
    /\ \A s, t \in V : MergeStats(s, t) \in V

Additive(V) ==
    {f \in [V -> Stats] :
        /\ f[NewStats] = NewStats
        /\ \A s, t \in V : f[MergeStats(s, t)] = MergeStats(f[s], f[t])}

LEMMA TotalMaps ==
    ASSUME NEW D, IsFiniteSet(D), NEW table \in Tables(D), NEW V, Closed(V), NEW f \in Additive(V),
           NEW mapped \in Tables(D), NEW s \in SUBSET D,
           \A x \in s : table[x] \in V /\ mapped[x] = f[table[x]]
    PROVE  TotalOf(table, s) \in V /\ f[TotalOf(table, s)] = TotalOf(mapped, s)
<1> DEFINE P(u) == TotalOf(table, u)
           Q(u) == TotalOf(mapped, u)
           T == {u \in SUBSET s : P(u) \in V /\ f[P(u)] = Q(u)}
<1>1. /\ P({}) = NewStats
      /\ \A u \in SUBSET D : \A x \in u : P(u) = MergeStats(P(u \ {x}), table[x])
  BY TotalOfParts
<1>2. /\ Q({}) = NewStats
      /\ \A u \in SUBSET D : \A x \in u : Q(u) = MergeStats(Q(u \ {x}), mapped[x])
  BY TotalOfParts
<1> HIDE DEF P, Q
<1>3. ASSUME NEW u \in SUBSET s, \A v \in SUBSET u : v # u => v \in T
      PROVE  u \in T
  <2>1. CASE u = {}
    BY <1>1, <1>2, <2>1 DEF Additive, Closed
  <2>2. CASE u # {}
    <3>1. PICK x : x \in u
      BY <2>2
    <3> DEFINE r == u \ {x}
    <3>2. r \in SUBSET u /\ r # u /\ u \in SUBSET D /\ r \in SUBSET D /\ x \in s /\ x \in D
      BY <3>1
    <3>3. P(r) \in V /\ f[P(r)] = Q(r)
      BY <1>3, <3>2
    <3>4. P(u) = MergeStats(P(r), table[x]) /\ Q(u) = MergeStats(Q(r), mapped[x])
      BY <1>1, <1>2, <3>1, <3>2
    <3>5. P(r) \in V /\ table[x] \in V /\ mapped[x] = f[table[x]]
      BY <3>2, <3>3
    <3> HIDE DEF r
    <3>6. /\ MergeStats(P(r), table[x]) \in V
          /\ f[MergeStats(P(r), table[x])] = MergeStats(f[P(r)], f[table[x]])
      BY <3>5 DEF Additive, Closed
    <3> QED
      BY <3>3, <3>4, <3>5, <3>6
  <2> QED
    BY <2>1, <2>2
<1> HIDE DEF T
<1>4. IsFiniteSet(s)
  BY FS_Subset
<1>5. SUBSET s \subseteq T
  BY <1>3, <1>4, SubsetInduction
<1> QED
  BY <1>5 DEF T, P, Q

KeysOf(key, s) == {key[x] : x \in s}
Group(key, s, k) == {x \in s : key[x] = k}

(* What SumBy makes of the entries of s. *)
Groups(table, key, s) == [k \in KeysOf(key, s) |-> TotalOf(table, Group(key, s, k))]

LEMMA GroupsType ==
    ASSUME NEW D, IsFiniteSet(D), NEW table \in Tables(D), NEW key, NEW s \in SUBSET D
    PROVE  /\ Groups(table, key, s) \in Tables(KeysOf(key, s))
           /\ IsFiniteSet(KeysOf(key, s))
<1>1. \A k \in KeysOf(key, s) : TotalOf(table, Group(key, s, k)) \in Stats
  <2>1. \A k : Group(key, s, k) \in SUBSET D
    BY DEF Group
  <2> QED
    BY <2>1, TotalOfParts
<1>2. IsFiniteSet(KeysOf(key, s))
  <2>1. IsFiniteSet(s)
    BY FS_Subset
  <2> DEFINE f == [x \in s |-> key[x]]
  <2>2. f \in Surjection(s, KeysOf(key, s))
    BY DEF Surjection, KeysOf
  <2> QED
    BY <2>1, <2>2, FS_Surjection
<1> QED
  BY <1>1, <1>2 DEF Groups, Tables

(* A further entry. *)
LEMMA GroupsAdd ==
    ASSUME NEW D, IsFiniteSet(D), NEW table \in Tables(D), NEW key, NEW s \in SUBSET D,
           NEW x \in s
    PROVE  Groups(table, key, s)
               = AddEntry(Groups(table, key, s \ {x}), key[x], table[x])
<1> DEFINE r == s \ {x}
           keys == KeysOf(key, s)
           sums == Groups(table, key, s)
           rest == Groups(table, key, r)
           added == AddEntry(rest, key[x], table[x])
<1>1. keys = KeysOf(key, r) \cup {key[x]}
  BY DEF KeysOf
<1>2. DOMAIN rest = KeysOf(key, r) /\ DOMAIN sums = keys
  BY DEF Groups
<1>3. ASSUME NEW k \in keys
      PROVE  sums[k] = IF k # key[x] THEN rest[k]
                       ELSE IF key[x] \in DOMAIN rest THEN MergeStats(rest[key[x]], table[x])
                       ELSE table[x]
  <2>1. sums[k] = TotalOf(table, Group(key, s, k))
    BY DEF Groups
  <2>2. CASE k # key[x]
    <3>1. Group(key, s, k) = Group(key, r, k) /\ k \in KeysOf(key, r)
      BY <1>1, <2>2 DEF Group
    <3> QED
      BY <2>1, <2>2, <3>1 DEF Groups
  <2>3. CASE k = key[x]
    <3>1. /\ x \in Group(key, s, k) /\ Group(key, s, k) \ {x} = Group(key, r, k)
          /\ Group(key, s, k) \in SUBSET D
      BY <2>3 DEF Group
    <3>2. sums[k] = MergeStats(TotalOf(table, Group(key, r, k)), table[x])
      BY <2>1, <3>1, TotalOfParts
    <3>3. CASE k \in KeysOf(key, r)
      <4>1. rest[k] = TotalOf(table, Group(key, r, k))
        BY <3>3 DEF Groups
      <4> QED
        BY <1>2, <2>3, <3>2, <3>3, <4>1
    <3>4. CASE k \notin KeysOf(key, r)
      <4>1. Group(key, r, k) = {}
        BY <3>4 DEF Group, KeysOf
      <4>2. TotalOf(table, {}) = NewStats /\ table[x] \in Stats
        BY TotalOfParts, TableParts
      <4>3. MergeStats(NewStats, table[x]) = table[x]
        BY <4>2, MergeOfNew
      <4> QED
        BY <1>2, <2>3, <3>2, <3>4, <4>1, <4>2, <4>3
    <3> QED
      BY <3>3, <3>4
  <2> QED
    BY <2>2, <2>3
<1>4. sums = [k \in keys |-> sums[k]]
  BY DEF Groups
<1> HIDE DEF sums, rest, keys
<1>5. added = [k \in keys |->
                 IF k # key[x] THEN rest[k]
                 ELSE IF key[x] \in DOMAIN rest THEN MergeStats(rest[key[x]], table[x])
                 ELSE table[x]]
  <2>1. DOMAIN rest \cup {key[x]} = keys
    BY <1>1, <1>2
  <2> QED
    BY <2>1 DEF AddEntry
<1>6. sums = added
  BY <1>3, <1>4, <1>5
<1> QED
  BY <1>6 DEF sums, rest

(* SumBy, the nested maps of the loops in buildAllDerivedStats and         *)
(* buildStatsPayload: whatever the order in which a Go map is walked, each *)
(* key has the total of the entries that are mapped to it.                 *)
THEOREM SumByIsGroups ==
    ASSUME NEW D, IsFiniteSet(D), NEW table \in Tables(D), NEW key
    PROVE  SumBy(table, key) = Groups(table, key, D)
<1> DEFINE Body(iter) == [s \in SUBSET D |->
               IF s = {} THEN <<>>
               ELSE LET x == CHOOSE y \in s : TRUE IN AddEntry(iter[s \ {x}], key[x], table[x])]
           f == CHOOSE iter : iter = Body(iter)
           g == [s \in SUBSET D |-> Groups(table, key, s)]
<1>1. SumBy(table, key) = f[D]
  <2>1. DOMAIN table = D
    BY DEF Tables
  <2> QED
    BY <2>1 DEF SumBy, FoldSet, MapThenFoldSet
<1>2. Groups(table, key, {}) = <<>>
  <2>1. KeysOf(key, {}) = {}
    BY DEF KeysOf
  <2> QED
    BY <2>1 DEF Groups
<1>3. ASSUME NEW s \in SUBSET D, s # {}
      PROVE  /\ Chosen(s) \in s /\ s \ {Chosen(s)} \in SUBSET D
             /\ g[s] = AddEntry(g[s \ {Chosen(s)}], key[Chosen(s)], table[Chosen(s)])
  <2>1. Chosen(s) \in s /\ s \ {Chosen(s)} \in SUBSET D
    BY <1>3, ChosenIsMember
  <2>2. Groups(table, key, s)
            = AddEntry(Groups(table, key, s \ {Chosen(s)}), key[Chosen(s)], table[Chosen(s)])
    BY <2>1, GroupsAdd
  <2> QED
    BY <2>1, <2>2
<1>4. DOMAIN g = SUBSET D /\ g = [s \in SUBSET D |-> g[s]] /\ g[{}] = <<>>
  BY <1>2
<1> HIDE DEF g
<1>5. g = Body(g)
  <2>1. \A s \in SUBSET D : g[s] = Body(g)[s]
    BY <1>3, <1>4 DEF Chosen
  <2> QED
    BY <1>4, <2>1
<1>6. f = Body(f)
  <2> HIDE DEF Body
  <2> QED
    BY <1>5
<1> HIDE DEF f
<1>7. ASSUME NEW s \in SUBSET D
      PROVE  f[s] = IF s = {} THEN <<>>
                    ELSE AddEntry(f[s \ {Chosen(s)}], key[Chosen(s)], table[Chosen(s)])
  <2>1. f[s] = Body(f)[s]
    BY <1>6
  <2> QED
    BY <2>1 DEF Chosen
<1> DEFINE T == {s \in SUBSET D : f[s] = g[s]}
<1>8. ASSUME NEW s \in SUBSET D, \A u \in SUBSET s : u # s => u \in T
      PROVE  s \in T
  <2>1. CASE s = {}
    BY <1>4, <1>7, <2>1
  <2>2. CASE s # {}
    <3>1. f[s \ {Chosen(s)}] = g[s \ {Chosen(s)}]
      BY <1>3, <1>8, <2>2
    <3> QED
      BY <1>3, <1>7, <2>2, <3>1
  <2> QED
    BY <2>1, <2>2
<1> HIDE DEF T
<1>9. SUBSET D \subseteq T
  BY <1>8, SubsetInduction
<1>10. f[D] = g[D]
  BY <1>9 DEF T
<1> QED
  BY <1>1, <1>10 DEF g

(* No entry is lost on the way through groups. *)
LEMMA TotalOfSomeGroups ==
    ASSUME NEW D, IsFiniteSet(D), NEW table \in Tables(D), NEW key,
           NEW L \in SUBSET KeysOf(key, D)
    PROVE  TotalOf(Groups(table, key, D), L) = TotalOf(table, {x \in D : key[x] \in L})
<1> DEFINE keys == KeysOf(key, D)
           sums == Groups(table, key, D)
           In(M) == {x \in D : key[x] \in M}
           T == {M \in SUBSET keys : TotalOf(sums, M) = TotalOf(table, In(M))}
<1>1. sums \in Tables(keys) /\ IsFiniteSet(keys)
  BY GroupsType
<1>2. \A k \in keys : sums[k] = TotalOf(table, Group(key, D, k))
  BY DEF Groups
<1> HIDE DEF sums
<1>3. ASSUME NEW M \in SUBSET keys, \A u \in SUBSET M : u # M => u \in T
      PROVE  M \in T
  <2>1. CASE M = {}
    <3>1. In(M) = {}
      BY <2>1
    <3>2. TotalOf(sums, {}) = NewStats
      BY <1>1, TotalOfParts
    <3>3. TotalOf(table, {}) = NewStats
      BY TotalOfParts
    <3> HIDE DEF In
    <3> QED
      BY <2>1, <3>1, <3>2, <3>3
  <2>2. CASE M # {}
    <3>1. PICK k : k \in M
      BY <2>2
    <3> DEFINE N == M \ {k}
               A == In(N)
               B == Group(key, D, k)
    <3>2. N \in SUBSET M /\ N # M /\ N \in SUBSET keys
      BY <3>1
    <3>3. TotalOf(sums, M) = MergeStats(TotalOf(sums, N), sums[k])
      BY <1>1, <3>1, TotalOfParts
    <3>4. TotalOf(sums, N) = TotalOf(table, A)
      BY <1>3, <3>2
    <3>5. In(M) = A \cup B /\ A \cap B = {} /\ A \in SUBSET D /\ B \in SUBSET D
      BY <3>1 DEF Group
    <3>6. sums[k] = TotalOf(table, B)
      BY <1>2, <3>1
    <3> HIDE DEF In, A, B
    <3>7. TotalOf(table, A \cup B) = MergeStats(TotalOf(table, A), TotalOf(table, B))
      BY <3>5, TotalSplits
    <3> QED
      BY <3>3, <3>4, <3>5, <3>6, <3>7
  <2> QED
    BY <2>1, <2>2
<1> HIDE DEF T
<1>4. SUBSET keys \subseteq T
  BY <1>1, <1>3, SubsetInduction
<1>5. TotalOf(sums, L) = TotalOf(table, In(L))
  BY <1>4 DEF T
<1> QED
  BY <1>5 DEF sums

LEMMA TotalOfGroups ==
    ASSUME NEW D, IsFiniteSet(D), NEW table \in Tables(D), NEW key
    PROVE  GrandTotal(Groups(table, key, D)) = GrandTotal(table)
<1> DEFINE keys == KeysOf(key, D)
           sums == Groups(table, key, D)
<1>1. sums \in Tables(keys) /\ IsFiniteSet(keys) /\ keys \in SUBSET keys
  BY GroupsType
<1>2. {x \in D : key[x] \in keys} = D
  BY DEF KeysOf
<1>3. TotalOf(sums, keys) = TotalOf(table, {x \in D : key[x] \in keys})
  BY <1>1, TotalOfSomeGroups
<1>4. TotalOf(sums, keys) = GrandTotal(sums)
  BY <1>1, TotalOfParts
<1>5. TotalOf(table, D) = GrandTotal(table)
  BY TotalOfParts
<1> QED
  BY <1>2, <1>3, <1>4, <1>5

(* Groups of groups are groups. *)
LEMMA GroupsOfGroups ==
    ASSUME NEW D, IsFiniteSet(D), NEW table \in Tables(D), NEW key, NEW key2, NEW both,
           \A x \in D : both[x] = key2[key[x]]
    PROVE  Groups(Groups(table, key, D), key2, KeysOf(key, D)) = Groups(table, both, D)
<1> DEFINE keys == KeysOf(key, D)
           sums == Groups(table, key, D)
<1>1. KeysOf(key2, keys) = KeysOf(both, D)
  BY DEF KeysOf
<1>2. ASSUME NEW j \in KeysOf(both, D)
      PROVE  TotalOf(sums, Group(key2, keys, j)) = TotalOf(table, Group(both, D, j))
  <2> DEFINE L == Group(key2, keys, j)
  <2>1. L \in SUBSET keys
    BY DEF Group
  <2>2. {x \in D : key[x] \in L} = Group(both, D, j)
    BY DEF Group, KeysOf
  <2> HIDE DEF L
  <2>3. TotalOf(sums, L) = TotalOf(table, {x \in D : key[x] \in L})
    BY <2>1, TotalOfSomeGroups
  <2> QED
    BY <2>2, <2>3 DEF L
<1> HIDE DEF sums, keys
<1>3. Groups(sums, key2, keys) = Groups(table, both, D)
  BY <1>1, <1>2 DEF Groups
<1> QED
  BY <1>3 DEF sums, keys

(* Entries may be mapped before or after they are put into groups. *)
LEMMA GroupsMap ==
    ASSUME NEW D, IsFiniteSet(D), NEW table \in Tables(D), NEW key, NEW V, Closed(V),
           NEW f, NEW mapped \in Tables(D),
           \A x \in D : /\ table[x] \in V /\ f[key[x]] \in Additive(V)
                       /\ mapped[x] = f[key[x]][table[x]]
    PROVE  /\ \A k \in KeysOf(key, D) : Groups(table, key, D)[k] \in V
           /\ [k \in KeysOf(key, D) |-> f[k][Groups(table, key, D)[k]]] = Groups(mapped, key, D)
<1>1. ASSUME NEW k \in KeysOf(key, D)
      PROVE  /\ Groups(table, key, D)[k] \in V
             /\ f[k][Groups(table, key, D)[k]] = TotalOf(mapped, Group(key, D, k))
  <2> DEFINE s == Group(key, D, k)
  <2>1. PICK x \in D : key[x] = k
    BY DEF KeysOf
  <2>2. f[k] \in Additive(V)
    BY <2>1
  <2>3. s \in SUBSET D /\ \A y \in s : table[y] \in V /\ mapped[y] = f[k][table[y]]
    BY DEF Group
  <2>4. Groups(table, key, D)[k] = TotalOf(table, s)
    BY DEF Groups
  <2> HIDE DEF s
  <2>5. TotalOf(table, s) \in V /\ f[k][TotalOf(table, s)] = TotalOf(mapped, s)
    BY <2>2, <2>3, TotalMaps
  <2> QED
    BY <2>4, <2>5 DEF s
<1> QED
  BY <1>1 DEF Groups

(* Everything but the cost. *)
Lin(s) == [s EXCEPT !.cost = 0]

LEMMA LinFields ==
    ASSUME NEW s \in Stats
    PROVE  /\ Lin(s) = [calls |-> s.calls, turns |-> s.turns, prompt |-> s.prompt,
                        completion |-> s.completion, cacheRead |-> s.cacheRead,
                        cacheWrite |-> s.cacheWrite, premium |-> s.premium, cost |-> 0,
                        costNoCache |-> s.costNoCache, premiumCost |-> s.premiumCost]
           /\ Lin(s) \in Stats
BY DEF Lin, Stats

(* An entry as it is looked at: whole, or without its cost.  The cost adds *)
(* up only where no entry has more cached tokens than tokens.              *)
Values(whole) == IF whole THEN {s \in Stats : Sound(s)} ELSE Stats
View(whole)   == [s \in Stats |-> IF whole THEN s ELSE Lin(s)]

LEMMA ValuesAreClosed ==
    ASSUME NEW whole \in BOOLEAN
    PROVE  Closed(Values(whole)) /\ Closed(Stats)
<1>1. Closed(Stats)
  BY MergeType, NewStatsType DEF Closed
<1>2. ASSUME NEW s \in Stats, NEW t \in Stats, Sound(s), Sound(t)
      PROVE  Sound(MergeStats(s, t))
  BY <1>2 DEF Sound, MergeStats, Stats
<1>3. Sound(NewStats)
  BY DEF Sound, NewStats
<1> QED
  BY <1>1, <1>2, <1>3 DEF Closed, Values

LEMMA ViewIsAdditive ==
    ASSUME NEW whole \in BOOLEAN
    PROVE  View(whole) \in Additive(Stats)
<1> DEFINE f == View(whole)
<1>1. \A s \in Stats : f[s] = (IF whole THEN s ELSE Lin(s)) /\ f[s] \in Stats
  BY LinFields DEF View
<1>2. f \in [Stats -> Stats]
  BY <1>1 DEF View
<1>3. f[NewStats] = NewStats
  BY NewStatsType, LinFields DEF View, NewStats
<1>4. ASSUME NEW s \in Stats, NEW t \in Stats
      PROVE  f[MergeStats(s, t)] = MergeStats(f[s], f[t])
  <2>1. MergeStats(s, t) \in Stats
    BY MergeType
  <2>2. Lin(MergeStats(s, t)) = MergeStats(Lin(s), Lin(t))
    BY <2>1, LinFields DEF MergeStats, Stats
  <2> HIDE DEF f
  <2> QED
    BY <1>1, <2>1, <2>2
<1> HIDE DEF f
<1>5. f \in Additive(Stats)
  BY <1>2, <1>3, <1>4 DEF Additive
<1> QED
  BY <1>5 DEF f

LEMMA CostsAreNumbers ==
    ASSUME NEW model, NEW day \in Nat, NEW s \in Stats
    PROVE  /\ CalcCost(model, s, day) \in Nat
           /\ CalcCostNoCache(model, s, day) \in Nat
           /\ s.premium * GetPremiumRequestCost(day) \in Nat
           /\ s.turns * GetPremiumMultiplier(model, day) \in Nat
<1>1. /\ s.prompt \in Nat /\ s.completion \in Nat /\ s.cacheRead \in Nat /\ s.cacheWrite \in Nat
      /\ s.premium \in Nat /\ s.turns \in Nat
  BY DEF Stats
<1>2. CalcCost(model, s, day) \in Nat /\ CalcCostNoCache(model, s, day) \in Nat
  <2>1. CASE ~HasPricing(model, day)
    BY <2>1 DEF CalcCost, CalcCostNoCache
  <2>2. CASE HasPricing(model, day)
    <3> DEFINE p == GetPricing(model, day)
               u == UncachedInput(s)
    <3>1. p.input \in Nat /\ p.output \in Nat /\ p.cacheRead \in Nat /\ p.cacheWrite \in Nat
      BY <2>2, PricesAreNumbers DEF Pricing
    <3>2. u \in Nat
      BY <1>1 DEF UncachedInput, NetInput
    <3> HIDE DEF p, u
    <3>3. /\ u * p.input \in Nat /\ s.completion * p.output \in Nat /\ s.prompt * p.input \in Nat
          /\ s.cacheRead * p.cacheRead \in Nat /\ s.cacheWrite * p.cacheWrite \in Nat
      BY <1>1, <3>1, <3>2
    <3>4. /\ CalcCost(model, s, day) = u * p.input + s.completion * p.output
                 + s.cacheRead * p.cacheRead + s.cacheWrite * p.cacheWrite
          /\ CalcCostNoCache(model, s, day) = s.prompt * p.input + s.completion * p.output
      BY <2>2 DEF CalcCost, CalcCostNoCache, p, u
    <3> QED
      BY <3>3, <3>4
  <2> QED
    BY <2>1, <2>2
<1>3. GetPremiumRequestCost(day) \in Nat
  <2>1. GetPeriod(day) \in DOMAIN PricingPeriods
    BY PeriodIsTheNewest
  <2> QED
    BY <2>1, PricingAssumption DEF GetPremiumRequestCost
<1>4. GetPremiumMultiplier(model, day) \in Nat
  BY MultipliersAreNumbers
<1> QED
  BY <1>1, <1>2, <1>3, <1>4

LEMMA PricedFields ==
    ASSUME NEW model, NEW day \in Nat, NEW s \in Stats
    PROVE  /\ Priced(s, model, day)
                  = [calls |-> s.calls, turns |-> s.turns, prompt |-> s.prompt,
                     completion |-> s.completion, cacheRead |-> s.cacheRead,
                     cacheWrite |-> s.cacheWrite, premium |-> s.premium,
                     cost |-> CalcCost(model, s, day),
                     costNoCache |-> CalcCostNoCache(model, s, day),
                     premiumCost |-> s.premium * GetPremiumRequestCost(day)]
           /\ Priced(s, model, day) \in Stats
<1> DEFINE a == CalcCost(model, s, day)
           b == CalcCostNoCache(model, s, day)
           c == s.premium * GetPremiumRequestCost(day)
           With(r, x, y, z) ==
               [calls |-> r.calls, turns |-> r.turns, prompt |-> r.prompt,
                completion |-> r.completion, cacheRead |-> r.cacheRead,
                cacheWrite |-> r.cacheWrite, premium |-> r.premium,
                cost |-> x, costNoCache |-> y, premiumCost |-> z]
           priced == With(s, a, b, c)
<1>1. a \in Nat /\ b \in Nat /\ c \in Nat
  BY CostsAreNumbers
<1>2. Priced(s, model, day) = [s EXCEPT !.cost = a, !.costNoCache = b, !.premiumCost = c]
  BY DEF Priced
<1> HIDE DEF a, b, c
<1>3. [s EXCEPT !.cost = a, !.costNoCache = b, !.premiumCost = c] = priced
  <2> DEFINE s1 == [s EXCEPT !.cost = a]
             s2 == [s1 EXCEPT !.costNoCache = b]
             s3 == [s2 EXCEPT !.premiumCost = c]
  <2>1. s3 = [s EXCEPT !.cost = a, !.costNoCache = b, !.premiumCost = c]
    OBVIOUS
  <2>2. s1 = With(s, a, s.costNoCache, s.premiumCost)
    BY DEF Stats
  <2>3. s1 \in Stats
    BY <1>1, <2>2 DEF Stats
  <2> HIDE DEF s1
  <2>4. s2 = With(s1, s1.cost, b, s1.premiumCost)
    BY <2>3 DEF Stats
  <2>5. s2 \in Stats
    BY <1>1, <2>3, <2>4 DEF Stats
  <2> HIDE DEF s2
  <2>6. s3 = With(s2, s2.cost, s2.costNoCache, c)
    BY <2>5 DEF Stats
  <2> HIDE DEF s3
  <2>7. s3 = priced
    BY <2>2, <2>4, <2>6
  <2> QED
    BY <2>1, <2>7
<1>4. priced \in Stats
  BY <1>1 DEF Stats
<1> QED
  BY <1>2, <1>3, <1>4 DEF a, b, c

LEMMA PremiumFields ==
    ASSUME NEW model, NEW day \in Nat, NEW s \in Stats
    PROVE  /\ Premium(s, model, day)
                  = [calls |-> s.calls, turns |-> s.turns, prompt |-> s.prompt,
                     completion |-> s.completion, cacheRead |-> s.cacheRead,
                     cacheWrite |-> s.cacheWrite,
                     premium |-> s.turns * GetPremiumMultiplier(model, day),
                     cost |-> s.cost, costNoCache |-> s.costNoCache,
                     premiumCost |-> s.premiumCost]
           /\ Premium(s, model, day) \in Stats
<1>1. Premium(s, model, day)
          = [calls |-> s.calls, turns |-> s.turns, prompt |-> s.prompt,
             completion |-> s.completion, cacheRead |-> s.cacheRead,
             cacheWrite |-> s.cacheWrite,
             premium |-> s.turns * GetPremiumMultiplier(model, day),
             cost |-> s.cost, costNoCache |-> s.costNoCache,
             premiumCost |-> s.premiumCost]
  BY DEF Premium, Stats
<1> QED
  BY <1>1, CostsAreNumbers DEF Stats

(* How an entry looks, and how the raw sums look. *)
PricedAs(whole, model, day) == [s \in Values(whole) |-> View(whole)[Priced(s, model, day)]]
BilledAs(whole, model, day) ==
    [s \in Values(whole) |-> PricedAs(whole, model, day)[Premium(s, model, day)]]

LEMMA PricedAsIsAdditive ==
    ASSUME NEW whole \in BOOLEAN, NEW model, NEW day \in Nat
    PROVE  PricedAs(whole, model, day) \in Additive(Values(whole))
<1> DEFINE f == PricedAs(whole, model, day)
           V == Values(whole)
           c == GetPremiumRequestCost(day)
           n(r) == CalcCostNoCache(model, r, day)
           p(r) == r.premium * c
           a(r) == IF whole THEN CalcCost(model, r, day) ELSE 0
           Looks(r) == [calls |-> r.calls, turns |-> r.turns, prompt |-> r.prompt,
                        completion |-> r.completion, cacheRead |-> r.cacheRead,
                        cacheWrite |-> r.cacheWrite, premium |-> r.premium, cost |-> a(r),
                        costNoCache |-> n(r), premiumCost |-> p(r)]
<1>1. Closed(V) /\ V \subseteq Stats
  BY ValuesAreClosed DEF Closed
<1>2. ASSUME NEW s \in V
      PROVE  f[s] = Looks(s) /\ f[s] \in Stats
  <2>1. s \in Stats
    BY <1>1
  <2>2. f[s] = (IF whole THEN Priced(s, model, day) ELSE Lin(Priced(s, model, day)))
        /\ Priced(s, model, day) \in Stats
    BY <2>1, PricedFields DEF PricedAs, View
  <2> HIDE DEF f
  <2>3. CASE whole
    BY <2>1, <2>2, <2>3, PricedFields
  <2>4. CASE ~whole
    BY <2>1, <2>2, <2>4, PricedFields, LinFields
  <2> QED
    BY <2>3, <2>4
<1>3. f \in [V -> Stats]
  BY <1>2 DEF PricedAs
<1>4. c \in Nat
  <2>1. GetPeriod(day) \in DOMAIN PricingPeriods
    BY PeriodIsTheNewest
  <2> QED
    BY <2>1, PricingAssumption DEF GetPremiumRequestCost
<1> HIDE DEF f, c
<1>5. Looks(NewStats) = NewStats
  <2>1. CalcCostNoCache(model, NewStats, day) = 0 /\ CalcCost(model, NewStats, day) = 0
    <3>1. HasPricing(model, day) => GetPricing(model, day) \in Pricing
      BY PricesAreNumbers
    <3>2. UncachedInput(NewStats) = 0
      BY DEF UncachedInput, NetInput, NewStats
    <3> QED
      BY <3>1, <3>2 DEF CalcCostNoCache, CalcCost, NewStats, Pricing
  <2> QED
    BY <1>4, <2>1 DEF NewStats
<1>6. ASSUME NEW s \in V, NEW t \in V
      PROVE  f[MergeStats(s, t)] = MergeStats(f[s], f[t])
  <2> DEFINE m == MergeStats(s, t)
  <2>1. m \in V /\ s \in Stats /\ t \in Stats
    BY <1>1 DEF Closed
  <2>2. n(m) = n(s) + n(t)
    BY <2>1, MergedIsNotDearer
  <2>3. a(m) = a(s) + a(t)
    <3>1. whole => Sound(s) /\ Sound(t)
      BY DEF Values
    <3> QED
      BY <2>1, <3>1, MergedIsNotDearer
  <2>4. p(m) = p(s) + p(t)
    <3>1. s.premium \in Nat /\ t.premium \in Nat /\ m.premium = s.premium + t.premium
      BY <2>1 DEF Stats, MergeStats
    <3> HIDE DEF m
    <3> QED
      BY <1>4, <3>1, Distributes
  <2>5. /\ m.calls = s.calls + t.calls /\ m.turns = s.turns + t.turns
        /\ m.prompt = s.prompt + t.prompt /\ m.completion = s.completion + t.completion
        /\ m.cacheRead = s.cacheRead + t.cacheRead /\ m.cacheWrite = s.cacheWrite + t.cacheWrite
        /\ m.premium = s.premium + t.premium
    BY DEF MergeStats
  <2> HIDE DEF m, n, p, a
  <2>6. f[m] = Looks(m) /\ f[s] = Looks(s) /\ f[t] = Looks(t)
    BY <1>2, <2>1
  <2>7. MergeStats(Looks(s), Looks(t)) = Looks(m)
    BY <2>2, <2>3, <2>4, <2>5 DEF MergeStats
  <2>8. f[m] = MergeStats(f[s], f[t])
    BY <2>6, <2>7
  <2> QED
    BY <2>8 DEF m
<1> HIDE DEF Looks, V
<1>7. f \in Additive(V)
  <2>1. NewStats \in V
    BY <1>1 DEF Closed
  <2> QED
    BY <1>2, <1>3, <1>5, <1>6, <2>1 DEF Additive
<1> QED
  BY <1>7 DEF f, V

LEMMA PremiumIsAdditive ==
    ASSUME NEW model, NEW day \in Nat, NEW s \in Stats, NEW t \in Stats
    PROVE  Premium(MergeStats(s, t), model, day)
               = MergeStats(Premium(s, model, day), Premium(t, model, day))
<1> DEFINE m == MergeStats(s, t)
           x == GetPremiumMultiplier(model, day)
<1>1. m \in Stats
  BY MergeType
<1>2. x \in Nat
  BY MultipliersAreNumbers
<1>3. m.turns * x = s.turns * x + t.turns * x
  <2>1. s.turns \in Nat /\ t.turns \in Nat /\ m.turns = s.turns + t.turns
    BY DEF Stats, MergeStats
  <2> HIDE DEF m, x
  <2> QED
    BY <1>2, <2>1, Distributes
<1>4. /\ m.calls = s.calls + t.calls /\ m.turns = s.turns + t.turns
      /\ m.prompt = s.prompt + t.prompt /\ m.completion = s.completion + t.completion
      /\ m.cacheRead = s.cacheRead + t.cacheRead /\ m.cacheWrite = s.cacheWrite + t.cacheWrite
      /\ m.cost = s.cost + t.cost /\ m.costNoCache = s.costNoCache + t.costNoCache
      /\ m.premiumCost = s.premiumCost + t.premiumCost
  BY DEF MergeStats
<1> HIDE DEF m, x
<1>5. Premium(m, model, day) = MergeStats(Premium(s, model, day), Premium(t, model, day))
  BY <1>1, <1>3, <1>4, PremiumFields DEF MergeStats, x
<1> QED
  BY <1>5 DEF m

LEMMA BilledAsIsAdditive ==
    ASSUME NEW whole \in BOOLEAN, NEW model, NEW day \in Nat
    PROVE  /\ BilledAs(whole, model, day) \in Additive(Values(whole))
           /\ \A s \in Values(whole) : Premium(s, model, day) \in Values(whole)
<1> DEFINE f == PricedAs(whole, model, day)
           g == BilledAs(whole, model, day)
           V == Values(whole)
           Billed(s) == Premium(s, model, day)
<1>1. f \in Additive(V) /\ f \in [V -> Stats] /\ Closed(V)
  BY PricedAsIsAdditive, ValuesAreClosed DEF Additive
<1>2. \A s \in V : s \in Stats /\ Billed(s) \in V
  <2> TAKE s \in V
  <2>1. s \in Stats
    BY <1>1 DEF Closed
  <2>2. /\ Billed(s) \in Stats /\ Billed(s).prompt = s.prompt
        /\ Billed(s).cacheRead = s.cacheRead /\ Billed(s).cacheWrite = s.cacheWrite
    <3> DEFINE x == s.turns * GetPremiumMultiplier(model, day)
    <3>1. Billed(s) = [s EXCEPT !.premium = x]
      BY DEF Premium
    <3> HIDE DEF x
    <3>2. Billed(s).prompt = s.prompt /\ Billed(s).cacheRead = s.cacheRead
          /\ Billed(s).cacheWrite = s.cacheWrite
      BY <2>1, <3>1 DEF Stats
    <3> QED
      BY <2>1, <3>2, PremiumFields
  <2> QED
    BY <2>1, <2>2 DEF Values, Sound
<1>3. g = [s \in V |-> f[Billed(s)]]
  BY DEF BilledAs
<1>4. Billed(NewStats) = NewStats
  <2>1. GetPremiumMultiplier(model, day) \in Nat
    BY MultipliersAreNumbers
  <2> QED
    BY <2>1, NewStatsType, PremiumFields DEF NewStats
<1>5. ASSUME NEW s \in V, NEW t \in V
      PROVE  Billed(MergeStats(s, t)) = MergeStats(Billed(s), Billed(t))
  BY <1>2, PremiumIsAdditive
<1> HIDE DEF f, g, Billed, V
<1>6. g \in [V -> Stats] /\ g[NewStats] = NewStats
  <2>1. NewStats \in V
    BY <1>1 DEF Closed
  <2> QED
    BY <1>1, <1>2, <1>3, <1>4, <2>1 DEF Additive
<1>7. ASSUME NEW s \in V, NEW t \in V
      PROVE  g[MergeStats(s, t)] = MergeStats(g[s], g[t])
  <2>1. MergeStats(s, t) \in V /\ Billed(s) \in V /\ Billed(t) \in V
    BY <1>1, <1>2 DEF Closed
  <2>2. f[MergeStats(Billed(s), Billed(t))] = MergeStats(f[Billed(s)], f[Billed(t)])
    BY <1>1, <2>1 DEF Additive
  <2> QED
    BY <1>3, <1>5, <2>1, <2>2
<1>8. g \in Additive(V)
  BY <1>6, <1>7 DEF Additive
<1> QED
  BY <1>2, <1>8 DEF g, V, Billed

LEMMA SumByTotal ==
    ASSUME NEW D, IsFiniteSet(D), NEW table \in Tables(D), NEW key
    PROVE  /\ SumBy(table, key) \in Tables(KeysOf(key, D))
           /\ IsFiniteSet(KeysOf(key, D))
           /\ GrandTotal(SumBy(table, key)) = GrandTotal(table)
<1>1. SumBy(table, key) = Groups(table, key, D)
  BY SumByIsGroups
<1>2. Groups(table, key, D) \in Tables(KeysOf(key, D)) /\ IsFiniteSet(KeysOf(key, D))
  BY GroupsType
<1>3. GrandTotal(Groups(table, key, D)) = GrandTotal(table)
  BY TotalOfGroups
<1> QED
  BY <1>1, <1>2, <1>3

LEMMA PricedAsValue ==
    ASSUME NEW whole \in BOOLEAN, NEW model, NEW day \in Nat, NEW s \in Values(whole)
    PROVE  /\ s \in Stats
           /\ PricedAs(whole, model, day)[s] = View(whole)[Priced(s, model, day)]
           /\ PricedAs(whole, model, day)[s] \in Stats
<1>1. s \in Stats
  BY ValuesAreClosed DEF Closed
<1>2. PricedAs(whole, model, day) \in [Values(whole) -> Stats]
  BY PricedAsIsAdditive DEF Additive
<1> QED
  BY <1>1, <1>2 DEF PricedAs

(* The raw sums, as each of them looks by itself. *)
Apart(whole, K, raw) == [k \in K |-> PricedAs(whole, k[3], k[1])[raw[k]]]

LEMMA ApartType ==
    ASSUME NEW whole \in BOOLEAN, NEW K, NEW raw,
           \A k \in K : k[1] \in Nat /\ raw[k] \in Values(whole)
    PROVE  Apart(whole, K, raw) \in Tables(K)
<1>1. ASSUME NEW k \in K PROVE PricedAs(whole, k[3], k[1])[raw[k]] \in Stats
  BY PricedAsValue
<1> QED
  BY <1>1 DEF Apart, Tables

(* Raw sums of one day and model may be merged before or after they are    *)
(* priced.                                                                 *)
LEMMA MergedTable ==
    ASSUME NEW whole \in BOOLEAN, NEW K, IsFiniteSet(K), NEW raw \in Tables(K),
           NEW key, NEW day, NEW model,
           \A k \in K : /\ k[1] \in Nat /\ raw[k] \in Values(whole)
                       /\ day[key[k]] = k[1] /\ model[key[k]] = k[3],
           NEW table,
           table = [j \in KeysOf(key, K) |-> Priced(SumBy(raw, key)[j], model[j], day[j])]
    PROVE  /\ table \in Tables(KeysOf(key, K))
           /\ [j \in KeysOf(key, K) |-> View(whole)[table[j]]]
                  = Groups(Apart(whole, K, raw), key, K)
<1> DEFINE keys == KeysOf(key, K)
           sums == SumBy(raw, key)
           f == [j \in keys |-> PricedAs(whole, model[j], day[j])]
           apart == Apart(whole, K, raw)
<1>1. sums = Groups(raw, key, K) /\ Closed(Values(whole))
  BY SumByIsGroups, ValuesAreClosed
<1>2. apart \in Tables(K)
  BY ApartType
<1>3. ASSUME NEW k \in K
      PROVE  /\ raw[k] \in Values(whole) /\ f[key[k]] \in Additive(Values(whole))
             /\ apart[k] = f[key[k]][raw[k]]
  <2>1. key[k] \in keys
    BY DEF KeysOf
  <2>2. f[key[k]] = PricedAs(whole, k[3], k[1]) /\ k[1] \in Nat
    BY <2>1
  <2> HIDE DEF f
  <2> QED
    BY <2>2, PricedAsIsAdditive DEF Apart
<1>4. \A j \in keys : day[j] \in Nat
  BY DEF KeysOf
<1>5. \A j \in keys : table[j] = Priced(sums[j], model[j], day[j])
  OBVIOUS
<1>6. \A j \in keys : f[j] = PricedAs(whole, model[j], day[j])
  OBVIOUS
<1> HIDE DEF f, keys, sums, apart
<1>7. /\ \A j \in keys : Groups(raw, key, K)[j] \in Values(whole)
      /\ [j \in keys |-> f[j][Groups(raw, key, K)[j]]] = Groups(apart, key, K)
  BY <1>1, <1>2, <1>3, GroupsMap DEF keys
<1>8. ASSUME NEW j \in keys
      PROVE  table[j] \in Stats /\ f[j][sums[j]] = View(whole)[table[j]]
  <2>1. sums[j] \in Values(whole) /\ day[j] \in Nat
    BY <1>1, <1>4, <1>7
  <2>2. sums[j] \in Stats
    BY <2>1, PricedAsValue
  <2>3. table[j] \in Stats
    BY <1>5, <2>1, <2>2, PricedFields
  <2>4. f[j][sums[j]] = View(whole)[Priced(sums[j], model[j], day[j])]
    BY <1>6, <2>1, PricedAsValue
  <2> QED
    BY <1>5, <2>3, <2>4
<1>9. table \in Tables(keys)
  <2>1. DOMAIN table = keys /\ table = [j \in keys |-> table[j]]
    BY DEF keys
  <2> QED
    BY <1>8, <2>1 DEF Tables
<1>10. [j \in keys |-> View(whole)[table[j]]] = Groups(apart, key, K)
  BY <1>1, <1>7, <1>8
<1> QED
  BY <1>9, <1>10 DEF keys, apart

-----------------------------------------------------------------------------
(* The tables of a query *)

StatisticsInv == rows \subseteq Rows /\ IsFiniteSet(rows)

LEMMA StatisticsInvariant == StatisticsSpec => []StatisticsInv
<1>1. StatisticsInit => StatisticsInv
  BY FS_EmptySet DEF StatisticsInit, StatisticsInv
<1>2. StatisticsInv /\ [StatisticsNext]_statisticsVars => StatisticsInv'
  <2> SUFFICES ASSUME StatisticsInv, [StatisticsNext]_statisticsVars PROVE StatisticsInv'
    OBVIOUS
  <2>1. ASSUME NEW r \in Rows, InsertRow(r) PROVE StatisticsInv'
    <3>1. IsFiniteSet(rows \cup {r})
      BY FS_AddElement DEF StatisticsInv
    <3> QED
      BY <2>1, <3>1 DEF StatisticsInv, InsertRow
  <2>2. UNCHANGED rows => StatisticsInv'
    BY DEF StatisticsInv
  <2> QED
    BY <2>1, <2>2 DEF StatisticsNext, UpsertSessionWorkspace, statisticsVars
<1> QED
  BY <1>1, <1>2, PTL DEF StatisticsSpec

LEMMA RowStatsType == ASSUME NEW r \in Rows PROVE RowStats(r) \in Stats /\ Day(r) \in Nat
<1>1. /\ r.time \in Nat /\ r.prompt \in Nat /\ r.completion \in Nat
      /\ r.cacheRead \in Nat /\ r.cacheWrite \in Nat
  BY StatisticsAssumption
<1>2. Day(r) \in Nat
  BY <1>1 DEF Day, MinutesPerDay
<1>3. RowStats(r) \in Stats
  BY <1>1 DEF RowStats, NewStats, Stats
<1> QED
  BY <1>2, <1>3

LEMMA CallsType ==
    ASSUME StatisticsInv, NEW q
    PROVE  /\ IsFiniteSet(QueryRecords(q)) /\ QueryRecords(q) \subseteq Rows
           /\ Calls(q) \in Tables(QueryRecords(q))
<1>1. IsFiniteSet(QueryRecords(q)) /\ QueryRecords(q) \subseteq Rows
  BY FS_Subset DEF StatisticsInv, QueryRecords
<1>2. ASSUME NEW r \in QueryRecords(q)
      PROVE  LET model == NormalizeModel(r.model)
             IN  Priced(Premium(RowStats(r), model, Day(r)), model, Day(r)) \in Stats
  <2> DEFINE model == NormalizeModel(r.model)
  <2>1. RowStats(r) \in Stats /\ Day(r) \in Nat
    BY <1>1, RowStatsType
  <2> HIDE DEF model
  <2>2. Premium(RowStats(r), model, Day(r)) \in Stats
    BY <2>1, PremiumFields
  <2>3. Priced(Premium(RowStats(r), model, Day(r)), model, Day(r)) \in Stats
    BY <2>1, <2>2, PricedFields
  <2> QED
    BY <2>3 DEF model
<1>3. Calls(q) \in Tables(QueryRecords(q))
  BY <1>2 DEF Calls, Tables
<1> QED
  BY <1>1, <1>3

(* The calls of a query, as they look one by one. *)
Fits(whole, q) == whole => \A r \in QueryRecords(q) : Sound(r)
Seen(whole, q) == [r \in QueryRecords(q) |-> View(whole)[Calls(q)[r]]]

RawKey(q) == [r \in QueryRecords(q) |-> <<Day(r), workspaces[r.session], NormalizeModel(r.model)>>]
RawKeys(q) == KeysOf(RawKey(q), QueryRecords(q))

LEMMA SeenType ==
    ASSUME StatisticsInv, NEW q, NEW whole \in BOOLEAN
    PROVE  Seen(whole, q) \in Tables(QueryRecords(q))
<1> DEFINE D == QueryRecords(q)
           calls == Calls(q)
<1>1. \A r \in D : calls[r] \in Stats
  BY CallsType, TableParts
<1>2. View(whole) \in [Stats -> Stats]
  BY ViewIsAdditive DEF Additive
<1>3. Seen(whole, q) = [r \in D |-> View(whole)[calls[r]]]
  BY DEF Seen
<1> HIDE DEF D, calls
<1>4. Seen(whole, q) \in Tables(D)
  BY <1>1, <1>2, <1>3 DEF Tables
<1> QED
  BY <1>4 DEF D

(* The raw sums are those of the calls. *)
LEMMA RawIsCalls ==
    ASSUME StatisticsInv, NEW q, NEW whole \in BOOLEAN, Fits(whole, q)
    PROVE  LET raw == QueryDailyProjectModelStats(q)
           IN  /\ IsFiniteSet(RawKeys(q)) /\ raw \in Tables(RawKeys(q))
               /\ \A k \in RawKeys(q) : k[1] \in Nat /\ raw[k] \in Values(whole)
               /\ Apart(whole, RawKeys(q), raw)
                      = Groups(Seen(whole, q), RawKey(q), QueryRecords(q))
<1> DEFINE D == QueryRecords(q)
           K == RawKeys(q)
           V == Values(whole)
           key == RawKey(q)
           stats == [r \in D |-> RowStats(r)]
           sums == SumBy(stats, key)
           raw == QueryDailyProjectModelStats(q)
           f == [k \in K |-> BilledAs(whole, k[3], k[1])]
           calls == Calls(q)
           seen == Seen(whole, q)
<1>1. IsFiniteSet(D) /\ D \subseteq Rows /\ seen \in Tables(D) /\ Closed(V)
  BY CallsType, SeenType, ValuesAreClosed
<1>2. stats \in Tables(D)
  BY <1>1, RowStatsType DEF Tables
<1>3. \A r \in D : stats[r] = RowStats(r) /\ stats[r] \in V
  <2> TAKE r \in D
  <2>1. RowStats(r) \in Stats
    BY <1>1, RowStatsType
  <2>2. Sound(r) => Sound(RowStats(r))
    BY DEF Sound, RowStats, NewStats
  <2> QED
    BY <2>1, <2>2 DEF Fits, Values
<1>4. sums \in Tables(K) /\ IsFiniteSet(K) /\ sums = Groups(stats, key, D)
  BY <1>1, <1>2, SumByTotal, SumByIsGroups DEF RawKeys
<1>5. \A k \in K : k[1] \in Nat
  BY <1>1, RowStatsType DEF RawKeys, RawKey, KeysOf
<1>6. \A k \in K : sums[k] \in Stats
  BY <1>4, TableParts
<1>7. DOMAIN sums = K
  BY <1>4, TableParts
<1>8. raw = [k \in K |-> Premium(sums[k], k[3], k[1])]
  BY <1>7 DEF QueryDailyProjectModelStats, RawKey
<1>9. raw \in Tables(K)
  <2> HIDE DEF sums, K
  <2>1. \A k \in K : Premium(sums[k], k[3], k[1]) \in Stats
    BY <1>5, <1>6, PremiumFields
  <2> HIDE DEF raw
  <2> QED
    BY <1>8, <2>1 DEF Tables
<1>10. ASSUME NEW r \in D PROVE f[key[r]] \in Additive(V) /\ seen[r] = f[key[r]][stats[r]]
  <2> DEFINE model == NormalizeModel(r.model)
             day == Day(r)
             billed == Premium(RowStats(r), model, day)
  <2>1. key[r] \in K /\ key[r][1] = day /\ key[r][3] = model
    BY DEF RawKeys, RawKey, KeysOf
  <2>2. RowStats(r) \in V /\ stats[r] = RowStats(r) /\ day \in Nat
    BY <1>1, <1>3, RowStatsType
  <2>3. seen[r] = View(whole)[Priced(billed, model, day)]
    BY DEF Seen, Calls
  <2>4. f[key[r]] = BilledAs(whole, model, day)
    BY <2>1
  <2> HIDE DEF model, day, f, seen, V, stats
  <2>5. f[key[r]] \in Additive(V) /\ billed \in V
    BY <2>2, <2>4, BilledAsIsAdditive DEF V
  <2>6. f[key[r]][stats[r]] = PricedAs(whole, model, day)[billed]
    BY <2>2, <2>4 DEF BilledAs, V
  <2> HIDE DEF billed
  <2>7. seen[r] = f[key[r]][stats[r]]
    BY <2>2, <2>3, <2>5, <2>6, PricedAsValue DEF V
  <2> QED
    BY <2>5, <2>7
<1> HIDE DEF D, K, V, key, stats, sums, raw, seen
<1>11. \A k \in K : f[k] = BilledAs(whole, k[3], k[1])
  OBVIOUS
<1> HIDE DEF f
<1>12. /\ \A k \in K : sums[k] \in V
       /\ [k \in K |-> f[k][sums[k]]] = Groups(seen, key, D)
  <2>1. K = KeysOf(key, D)
    BY DEF K, RawKeys, key, D
  <2> QED
    BY <1>1, <1>2, <1>3, <1>4, <1>10, <2>1, GroupsMap
<1>13. \A k \in K : raw[k] \in V
  BY <1>5, <1>8, <1>12, BilledAsIsAdditive DEF V
<1>14. ASSUME NEW k \in K PROVE f[k][sums[k]] = PricedAs(whole, k[3], k[1])[raw[k]]
  <2>1. raw[k] = Premium(sums[k], k[3], k[1]) /\ f[k] = BilledAs(whole, k[3], k[1])
    BY <1>8, <1>11
  <2>2. sums[k] \in Values(whole)
    BY <1>12 DEF V
  <2> QED
    BY <2>1, <2>2 DEF BilledAs
<1>15. Apart(whole, K, raw) = Groups(seen, key, D)
  BY <1>12, <1>14 DEF Apart
<1> QED
  BY <1>4, <1>5, <1>9, <1>13, <1>15 DEF K, raw, seen, key, D, V

(* Every table made of the raw sums is a table of the calls. *)
LEMMA QueryTable ==
    ASSUME StatisticsInv, NEW q, NEW whole \in BOOLEAN, Fits(whole, q),
           NEW key, NEW day, NEW model, NEW both,
           \A k \in RawKeys(q) : day[key[k]] = k[1] /\ model[key[k]] = k[3],
           \A r \in QueryRecords(q) : both[r] = key[RawKey(q)[r]],
           NEW table,
           table = [j \in KeysOf(key, RawKeys(q)) |->
                       Priced(SumBy(QueryDailyProjectModelStats(q), key)[j], model[j], day[j])]
    PROVE  LET keys == KeysOf(both, QueryRecords(q))
           IN  /\ IsFiniteSet(keys) /\ table \in Tables(keys)
               /\ [j \in keys |-> View(whole)[table[j]]]
                      = Groups(Seen(whole, q), both, QueryRecords(q))
<1> DEFINE raw == QueryDailyProjectModelStats(q)
           K == RawKeys(q)
           D == QueryRecords(q)
           seen == Seen(whole, q)
<1>1. /\ IsFiniteSet(K) /\ raw \in Tables(K)
      /\ \A k \in K : k[1] \in Nat /\ raw[k] \in Values(whole)
      /\ Apart(whole, K, raw) = Groups(seen, RawKey(q), D)
  BY RawIsCalls
<1>2. IsFiniteSet(D) /\ seen \in Tables(D)
  BY CallsType, SeenType
<1>3. KeysOf(key, K) = KeysOf(both, D)
  BY DEF KeysOf, RawKeys
<1>4. IsFiniteSet(KeysOf(both, D))
  BY <1>2, GroupsType
<1> HIDE DEF raw, D, seen
<1>5. /\ table \in Tables(KeysOf(key, K))
      /\ [j \in KeysOf(key, K) |-> View(whole)[table[j]]] = Groups(Apart(whole, K, raw), key, K)
  <2>1. table = [j \in KeysOf(key, K) |-> Priced(SumBy(raw, key)[j], model[j], day[j])]
    BY DEF raw
  <2> HIDE DEF K
  <2>2. \A k \in K : /\ k[1] \in Nat /\ raw[k] \in Values(whole)
                     /\ day[key[k]] = k[1] /\ model[key[k]] = k[3]
    BY <1>1 DEF K
  <2> QED
    BY <1>1, <2>1, <2>2, MergedTable
<1>6. Groups(Groups(seen, RawKey(q), D), key, K) = Groups(seen, both, D)
  <2>1. \A r \in D : both[r] = key[RawKey(q)[r]]
    BY DEF D
  <2>2. K = KeysOf(RawKey(q), D)
    BY DEF RawKeys, D
  <2> HIDE DEF K
  <2> QED
    BY <1>2, <2>1, <2>2, GroupsOfGroups
<1> QED
  BY <1>1, <1>3, <1>4, <1>5, <1>6 DEF D, seen

(* A table of the calls of a query, whose keys are made of the calls by    *)
(* key: it looks like the sums of the calls of each key.                   *)
Looks(whole, table) == [k \in DOMAIN table |-> View(whole)[table[k]]]

IsOfCalls(whole, q, table, key) ==
    /\ table \in Tables(KeysOf(key, QueryRecords(q)))
    /\ Looks(whole, table) = Groups(Seen(whole, q), key, QueryRecords(q))

LEMMA LooksType ==
    ASSUME NEW whole \in BOOLEAN, NEW K, NEW table \in Tables(K)
    PROVE  /\ Looks(whole, table) \in Tables(K)
           /\ \A k \in K : table[k] \in Stats /\ Looks(whole, table)[k] = View(whole)[table[k]]
<1>1. DOMAIN table = K /\ \A k \in K : table[k] \in Stats
  BY TableParts
<1>2. View(whole) \in [Stats -> Stats]
  BY ViewIsAdditive DEF Additive
<1>3. Looks(whole, table) = [k \in K |-> View(whole)[table[k]]]
  BY <1>1 DEF Looks
<1> QED
  BY <1>1, <1>2, <1>3 DEF Tables

LEMMA LooksAddUp ==
    ASSUME NEW whole \in BOOLEAN, NEW K, IsFiniteSet(K), NEW table \in Tables(K), NEW key
    PROVE  /\ \A L \in SUBSET K :
                 /\ TotalOf(table, L) \in Stats
                 /\ View(whole)[TotalOf(table, L)] = TotalOf(Looks(whole, table), L)
           /\ Looks(whole, SumBy(table, key)) = Groups(Looks(whole, table), key, K)
<1> DEFINE looks == Looks(whole, table)
           view == View(whole)
           keys == KeysOf(key, K)
           f == [k \in keys |-> view]
<1>1. looks \in Tables(K) /\ \A k \in K : table[k] \in Stats /\ looks[k] = view[table[k]]
  BY LooksType
<1>2. view \in Additive(Stats) /\ Closed(Stats)
  BY ViewIsAdditive, ValuesAreClosed
<1> HIDE DEF looks, view
<1>3. ASSUME NEW L \in SUBSET K
      PROVE  TotalOf(table, L) \in Stats /\ view[TotalOf(table, L)] = TotalOf(looks, L)
  BY <1>1, <1>2, TotalMaps
<1>4. \A k \in K : key[k] \in keys /\ f[key[k]] = view
  BY DEF KeysOf
<1>5. \A k \in keys : f[k] = view
  OBVIOUS
<1>6. SumBy(table, key) = Groups(table, key, K) /\ DOMAIN Groups(table, key, K) = keys
  BY SumByIsGroups DEF Groups
<1> HIDE DEF f, keys
<1>7. [k \in keys |-> f[k][Groups(table, key, K)[k]]] = Groups(looks, key, K)
  <2>1. \A k \in K : /\ table[k] \in Stats /\ f[key[k]] \in Additive(Stats)
                     /\ looks[k] = f[key[k]][table[k]]
    BY <1>1, <1>2, <1>4
  <2> QED
    BY <1>1, <1>2, <2>1, GroupsMap DEF keys
<1>8. Looks(whole, SumBy(table, key)) = Groups(looks, key, K)
  BY <1>5, <1>6, <1>7 DEF Looks, view
<1> QED
  BY <1>3, <1>8 DEF looks, view

(* The keys under which a call ends up. *)
DayOfCall(q) == [r \in QueryRecords(q) |-> <<Day(r), NormalizeModel(r.model)>>]

WorkspacesOf(q) == {workspaces[r.session] : r \in QueryRecords(q)}
LabelOf(q, r) == CanonicalProjectLabel(workspaces[r.session], WorkspacesOf(q))
ProjectOfCall(q) ==
    [r \in QueryRecords(q) |-> <<Day(r), LabelOf(q, r), NormalizeModel(r.model)>>]

(* The dashboard's table of days and models is of the calls: every entry   *)
(* is what the calls of its day and model are together.                    *)
THEOREM DailyIsOfCalls ==
    ASSUME StatisticsInv, NEW q, NEW whole \in BOOLEAN, Fits(whole, q)
    PROVE  IsOfCalls(whole, q, Daily(q), DayOfCall(q))
<1> DEFINE raw == QueryDailyProjectModelStats(q)
           K == RawKeys(q)
           D == QueryRecords(q)
           key == [k \in K |-> <<k[1], k[3]>>]
           both == DayOfCall(q)
           keys == KeysOf(key, K)
           day == [j \in keys |-> j[1]]
           model == [j \in keys |-> j[2]]
           sums == SumBy(raw, key)
           table == [j \in keys |-> Priced(sums[j], model[j], day[j])]
<1>1. IsFiniteSet(K) /\ raw \in Tables(K)
  BY RawIsCalls
<1>2. \A k \in K : key[k] = <<k[1], k[3]>> /\ key[k] \in keys
  BY DEF KeysOf
<1>3. \A k \in K : day[key[k]] = k[1] /\ model[key[k]] = k[3]
  BY <1>2
<1>4. \A r \in D : both[r] = key[RawKey(q)[r]]
  <2> TAKE r \in D
  <2>1. RawKey(q)[r] = <<Day(r), workspaces[r.session], NormalizeModel(r.model)>>
        /\ RawKey(q)[r] \in K
    BY DEF RawKey, RawKeys, KeysOf
  <2> HIDE DEF K
  <2> QED
    BY <2>1 DEF DayOfCall
<1>5. DOMAIN raw = K /\ sums \in Tables(keys)
  BY <1>1, TableParts, SumByTotal
<1>6. DOMAIN sums = keys
  BY <1>5, TableParts
<1>7. Daily(q) = [j \in DOMAIN sums |-> Priced(sums[j], j[2], j[1])]
  BY <1>5 DEF Daily
<1>8. table = [j \in keys |-> Priced(SumBy(raw, key)[j], model[j], day[j])]
  OBVIOUS
<1>9. Daily(q) = table
  BY <1>6, <1>7
<1> HIDE DEF key, both, day, model, sums, table
<1>10. /\ table \in Tables(KeysOf(both, D))
       /\ [j \in KeysOf(both, D) |-> View(whole)[table[j]]] = Groups(Seen(whole, q), both, D)
  BY <1>3, <1>4, <1>8, QueryTable
<1>11. DOMAIN table = KeysOf(both, D)
  BY <1>10, TableParts
<1> QED
  BY <1>9, <1>10, <1>11 DEF IsOfCalls, Looks, both

LEMMA RawWorkspaces ==
    ASSUME NEW q
    PROVE  {k[2] : k \in RawKeys(q)} = WorkspacesOf(q)
<1> DEFINE D == QueryRecords(q)
           key == RawKey(q)
<1>1. \A r \in D : key[r] = <<Day(r), workspaces[r.session], NormalizeModel(r.model)>>
  BY DEF RawKey
<1>2. RawKeys(q) = {key[r] : r \in D}
  BY DEF RawKeys, KeysOf
<1>3. \A r \in D : key[r][2] = workspaces[r.session]
  BY <1>1
<1>4. WorkspacesOf(q) = {workspaces[r.session] : r \in D}
  BY DEF WorkspacesOf
<1> HIDE DEF key, D
<1>5. ASSUME NEW w \in {k[2] : k \in RawKeys(q)} PROVE w \in WorkspacesOf(q)
  <2>1. PICK k \in RawKeys(q) : w = k[2]
    OBVIOUS
  <2>2. PICK r \in D : k = key[r]
    BY <1>2
  <2> QED
    BY <2>1, <2>2, <1>3, <1>4
<1>6. ASSUME NEW w \in WorkspacesOf(q) PROVE w \in {k[2] : k \in RawKeys(q)}
  <2>1. PICK r \in D : w = workspaces[r.session]
    BY <1>4
  <2>2. key[r] \in RawKeys(q) /\ key[r][2] = w
    BY <2>1, <1>2, <1>3
  <2> QED
    BY <2>2
<1> QED
  BY <1>5, <1>6

(* So is its table of days, projects and models, whatever workspaces of    *)
(* codespaces are shown under local projects.                              *)
THEOREM ProjectDailyIsOfCalls ==
    ASSUME StatisticsInv, NEW q, NEW whole \in BOOLEAN, Fits(whole, q)
    PROVE  IsOfCalls(whole, q, ProjectDaily(q), ProjectOfCall(q))
<1> DEFINE raw == QueryDailyProjectModelStats(q)
           K == RawKeys(q)
           D == QueryRecords(q)
           Label(cwd) == CanonicalProjectLabel(cwd, {k[2] : k \in K})
           key == [k \in K |-> <<k[1], Label(k[2]), k[3]>>]
           both == ProjectOfCall(q)
           keys == KeysOf(key, K)
           day == [j \in keys |-> j[1]]
           model == [j \in keys |-> j[3]]
           sums == SumBy(raw, key)
           table == [j \in keys |-> Priced(sums[j], model[j], day[j])]
<1>1. IsFiniteSet(K) /\ raw \in Tables(K)
  BY RawIsCalls
<1>2. \A k \in K : key[k] = <<k[1], Label(k[2]), k[3]>> /\ key[k] \in keys
  BY DEF KeysOf
<1>3. \A k \in K : day[key[k]] = k[1] /\ model[key[k]] = k[3]
  <2> TAKE k \in K
  <2> HIDE DEF Label, key, K, keys
  <2>1. day[key[k]] = key[k][1] /\ model[key[k]] = key[k][3]
    BY <1>2
  <2>2. key[k] = <<k[1], Label(k[2]), k[3]>>
    BY <1>2
  <2> QED
    BY <2>1, <2>2
<1>4. \A r \in D : both[r] = key[RawKey(q)[r]]
  <2> TAKE r \in D
  <2>1. RawKey(q)[r] = <<Day(r), workspaces[r.session], NormalizeModel(r.model)>>
        /\ RawKey(q)[r] \in K
    BY DEF RawKey, RawKeys, KeysOf
  <2>2. {k[2] : k \in K} = WorkspacesOf(q)
    BY RawWorkspaces
  <2>3. both[r] = <<Day(r), Label(workspaces[r.session]), NormalizeModel(r.model)>>
    BY <2>2 DEF ProjectOfCall, LabelOf
  <2> HIDE DEF K, Label
  <2> QED
    BY <2>1, <2>3
<1>5. DOMAIN raw = K /\ sums \in Tables(keys)
  BY <1>1, TableParts, SumByTotal
<1>6. DOMAIN sums = keys
  BY <1>5, TableParts
<1>7. ProjectDaily(q) = [j \in DOMAIN sums |-> Priced(sums[j], j[3], j[1])]
  BY <1>5 DEF ProjectDaily
<1>8. table = [j \in keys |-> Priced(SumBy(raw, key)[j], model[j], day[j])]
  OBVIOUS
<1>9. ProjectDaily(q) = table
  BY <1>6, <1>7
<1> HIDE DEF key, both, day, model, sums, table
<1>10. /\ table \in Tables(KeysOf(both, D))
       /\ [j \in KeysOf(both, D) |-> View(whole)[table[j]]] = Groups(Seen(whole, q), both, D)
  BY <1>3, <1>4, <1>8, QueryTable
<1>11. DOMAIN table = KeysOf(both, D)
  BY <1>10, TableParts
<1> QED
  BY <1>9, <1>10, <1>11 DEF IsOfCalls, Looks, both

(* So is what is summed up of such a table, and what is summed up of the   *)
(* calls.                                                                  *)
LEMMA SumIsOfCalls ==
    ASSUME StatisticsInv, NEW q, NEW whole \in BOOLEAN, NEW table, NEW key,
           IsOfCalls(whole, q, table, key), NEW key2, NEW both,
           \A r \in QueryRecords(q) : both[r] = key2[key[r]]
    PROVE  IsOfCalls(whole, q, SumBy(table, key2), both)
<1> DEFINE D == QueryRecords(q)
           K == KeysOf(key, D)
           seen == Seen(whole, q)
<1>1. IsFiniteSet(D) /\ seen \in Tables(D)
  BY CallsType, SeenType
<1>2. IsFiniteSet(K)
  BY <1>1, GroupsType
<1>3. table \in Tables(K) /\ Looks(whole, table) = Groups(seen, key, D)
  BY DEF IsOfCalls
<1>4. KeysOf(key2, K) = KeysOf(both, D)
  BY DEF KeysOf
<1> HIDE DEF D, K, seen
<1>5. SumBy(table, key2) \in Tables(KeysOf(key2, K))
  BY <1>2, <1>3, SumByTotal
<1>6. Looks(whole, SumBy(table, key2)) = Groups(Looks(whole, table), key2, K)
  BY <1>2, <1>3, LooksAddUp
<1>7. Groups(Groups(seen, key, D), key2, K) = Groups(seen, both, D)
  <2>1. \A r \in D : both[r] = key2[key[r]]
    BY DEF D
  <2> QED
    BY <1>1, <2>1, GroupsOfGroups DEF K
<1> QED
  BY <1>3, <1>4, <1>5, <1>6, <1>7 DEF IsOfCalls, D, seen

LEMMA SumOfCalls ==
    ASSUME StatisticsInv, NEW q, NEW whole \in BOOLEAN, NEW key
    PROVE  IsOfCalls(whole, q, SumBy(Calls(q), key), key)
<1> DEFINE D == QueryRecords(q)
           calls == Calls(q)
<1>1. IsFiniteSet(D) /\ calls \in Tables(D)
  BY CallsType
<1>2. DOMAIN calls = D
  BY <1>1, TableParts
<1>3. Looks(whole, calls) = Seen(whole, q)
  BY <1>2 DEF Looks, Seen
<1>4. SumBy(calls, key) \in Tables(KeysOf(key, D))
  BY <1>1, SumByTotal
<1>5. Looks(whole, SumBy(calls, key)) = Groups(Looks(whole, calls), key, D)
  BY <1>1, LooksAddUp
<1> QED
  BY <1>3, <1>4, <1>5 DEF IsOfCalls

(* The total of such a table is that of the calls, and so is that of a     *)
(* part of it.                                                             *)
LEMMA TotalIsOfCalls ==
    ASSUME StatisticsInv, NEW q, NEW whole \in BOOLEAN, NEW table, NEW key,
           IsOfCalls(whole, q, table, key)
    PROVE  /\ \A L \in SUBSET KeysOf(key, QueryRecords(q)) :
                 View(whole)[TotalOf(table, L)]
                     = View(whole)[TotalOf(Calls(q), {r \in QueryRecords(q) : key[r] \in L})]
           /\ View(whole)[GrandTotal(table)] = View(whole)[GrandTotal(Calls(q))]
           /\ GrandTotal(table) \in Stats /\ GrandTotal(Calls(q)) \in Stats
<1> DEFINE D == QueryRecords(q)
           K == KeysOf(key, D)
           calls == Calls(q)
           seen == Seen(whole, q)
<1>1. IsFiniteSet(D) /\ seen \in Tables(D) /\ calls \in Tables(D)
  BY CallsType, SeenType
<1>2. IsFiniteSet(K)
  BY <1>1, GroupsType
<1>3. table \in Tables(K) /\ Looks(whole, table) = Groups(seen, key, D)
  BY DEF IsOfCalls
<1>4. Looks(whole, calls) = seen
  <2>1. DOMAIN calls = D
    BY <1>1, TableParts
  <2> QED
    BY <2>1 DEF Looks, Seen
<1>5. K \in SUBSET K /\ {r \in D : key[r] \in K} = D
  BY DEF KeysOf
<1> HIDE DEF D, K, calls, seen
<1>6. ASSUME NEW L \in SUBSET K
      PROVE  View(whole)[TotalOf(table, L)] = View(whole)[TotalOf(calls, {r \in D : key[r] \in L})]
  <2> DEFINE R == {r \in D : key[r] \in L}
  <2>1. R \in SUBSET D
    OBVIOUS
  <2>2. View(whole)[TotalOf(table, L)] = TotalOf(Groups(seen, key, D), L)
    BY <1>2, <1>3, LooksAddUp
  <2>3. TotalOf(Groups(seen, key, D), L) = TotalOf(seen, R)
    BY <1>1, TotalOfSomeGroups DEF K
  <2> HIDE DEF R
  <2>4. View(whole)[TotalOf(calls, R)] = TotalOf(seen, R)
    BY <1>1, <1>4, <2>1, LooksAddUp
  <2> QED
    BY <2>2, <2>3, <2>4 DEF R
<1>7. TotalOf(table, K) = GrandTotal(table) /\ TotalOf(calls, D) = GrandTotal(calls)
  BY <1>1, <1>2, <1>3, TotalOfParts
<1>8. View(whole)[GrandTotal(table)] = View(whole)[GrandTotal(calls)]
  BY <1>5, <1>6, <1>7
<1>9. GrandTotal(table) \in Stats /\ GrandTotal(calls) \in Stats
  BY <1>1, <1>2, <1>3, TotalType
<1> QED
  BY <1>6, <1>8, <1>9 DEF K, D, calls

LinearFields == CountFields \cup {"costNoCache", "premiumCost"}

LEMMA SameFields ==
    ASSUME NEW s \in Stats, NEW t \in Stats, View(FALSE)[s] = View(FALSE)[t]
    PROVE  \A f \in LinearFields : s[f] = t[f]
<1>1. Lin(s) = Lin(t)
  BY DEF View
<1>2. /\ s.calls = t.calls /\ s.turns = t.turns /\ s.prompt = t.prompt
      /\ s.completion = t.completion /\ s.cacheRead = t.cacheRead
      /\ s.cacheWrite = t.cacheWrite /\ s.premium = t.premium
      /\ s.costNoCache = t.costNoCache /\ s.premiumCost = t.premiumCost
  BY <1>1, LinFields
<1> QED
  BY <1>2 DEF LinearFields, CountFields

(* Whatever is summed up of the tables of days and of projects agrees with *)
(* the calls.                                                              *)
LEMMA SumsAgree ==
    ASSUME StatisticsInv, NEW q, NEW table, NEW key, IsOfCalls(FALSE, q, table, key)
    PROVE  /\ \A f \in LinearFields : GrandTotal(table)[f] = GrandTotal(Calls(q))[f]
           /\ \A key2 : \A f \in LinearFields :
                 GrandTotal(SumBy(table, key2))[f] = GrandTotal(Calls(q))[f]
<1>1. \A f \in LinearFields : GrandTotal(table)[f] = GrandTotal(Calls(q))[f]
  <2>1. /\ View(FALSE)[GrandTotal(table)] = View(FALSE)[GrandTotal(Calls(q))]
        /\ GrandTotal(table) \in Stats /\ GrandTotal(Calls(q)) \in Stats
    BY TotalIsOfCalls
  <2> QED
    BY <2>1, SameFields
<1>2. ASSUME NEW key2 PROVE GrandTotal(SumBy(table, key2)) = GrandTotal(table)
  <2> DEFINE K == KeysOf(key, QueryRecords(q))
  <2>1. IsFiniteSet(QueryRecords(q)) /\ Calls(q) \in Tables(QueryRecords(q))
    BY CallsType
  <2>2. IsFiniteSet(K)
    BY <2>1, GroupsType
  <2>3. table \in Tables(K)
    BY DEF IsOfCalls
  <2> HIDE DEF K
  <2> QED
    BY <2>2, <2>3, SumByTotal
<1> QED
  BY <1>1, <1>2

LEMMA TablesAgreeLemma == StatisticsInv => TablesAgree
<1> SUFFICES ASSUME StatisticsInv, NEW q \in Queries
             PROVE  LET calls  == Calls(q)
                        daily  == Daily(q)
                        byProject == ProjectDaily(q)
                        total  == GrandTotal(calls)
                        Agrees(table) ==
                            LET sum == GrandTotal(table)
                            IN  \A f \in CountFields \cup {"costNoCache", "premiumCost"} :
                                    sum[f] = total[f]
                    IN  /\ Agrees(DayTotals(daily)) /\ Agrees(Models(daily))
                        /\ Agrees(Projects(byProject)) /\ Agrees(ProjectModels(byProject))
                        /\ Agrees(DailyProjects(byProject))
                        /\ (\A r \in DOMAIN calls : Timed(r)) =>
                               \A offset \in Offsets : Agrees(Hourly(calls, offset))
  BY DEF TablesAgree
<1> DEFINE total == GrandTotal(Calls(q))
           daily == Daily(q)
           byProject == ProjectDaily(q)
           Agrees(table) == \A f \in LinearFields : GrandTotal(table)[f] = total[f]
<1>0. Fits(FALSE, q)
  BY DEF Fits
<1>1. \A key : Agrees(SumBy(daily, key))
  <2>1. IsOfCalls(FALSE, q, daily, DayOfCall(q))
    BY <1>0, DailyIsOfCalls
  <2> HIDE DEF daily
  <2> QED
    BY <2>1, SumsAgree
<1>2. \A key : Agrees(SumBy(byProject, key))
  <2>1. IsOfCalls(FALSE, q, byProject, ProjectOfCall(q))
    BY <1>0, ProjectDailyIsOfCalls
  <2> HIDE DEF byProject
  <2> QED
    BY <2>1, SumsAgree
<1>3. ASSUME \A r \in DOMAIN Calls(q) : Timed(r), NEW offset \in Offsets
      PROVE  Agrees(Hourly(Calls(q), offset))
  <2> DEFINE calls == Calls(q)
             D == QueryRecords(q)
  <2>1. IsFiniteSet(D) /\ calls \in Tables(D)
    BY CallsType
  <2>2. DOMAIN calls = D /\ Restrict(calls, D) = calls
    BY <2>1, TableParts
  <2>3. {r \in DOMAIN calls : Timed(r)} = D
    BY <1>3, <2>2
  <2>4. Restrict(calls, {r \in DOMAIN calls : Timed(r)}) = calls
    BY <2>2, <2>3
  <2> HIDE DEF calls, D
  <2>5. PICK key : Hourly(calls, offset) = SumBy(calls, key)
    BY <2>4 DEF Hourly
  <2>6. GrandTotal(SumBy(calls, key)) = GrandTotal(calls)
    BY <2>1, SumByTotal
  <2> QED
    BY <2>5, <2>6 DEF calls
<1> HIDE DEF total
<1>4. /\ Agrees(DayTotals(daily)) /\ Agrees(Models(daily))
      /\ Agrees(Projects(byProject)) /\ Agrees(ProjectModels(byProject))
      /\ Agrees(DailyProjects(byProject))
  <2> HIDE DEF daily, byProject, Agrees
  <2> QED
    BY <1>1, <1>2 DEF DayTotals, Models, Projects, ProjectModels, DailyProjects, SumPart
<1> QED
  BY <1>3, <1>4 DEF total, LinearFields

(* What the days of a query show are its calls. *)
LEMMA DailyShowsCalls ==
    ASSUME StatisticsInv, NEW q
    PROVE  GrandTotal(Daily(q)).calls = GrandTotal(Calls(q)).calls
<1>1. IsOfCalls(FALSE, q, Daily(q), DayOfCall(q))
  BY DailyIsOfCalls DEF Fits
<1>2. \A f \in LinearFields : GrandTotal(Daily(q))[f] = GrandTotal(Calls(q))[f]
  BY <1>1, SumsAgree
<1>3. "calls" \in LinearFields
  BY DEF LinearFields, CountFields
<1> QED
  BY <1>2, <1>3

LEMMA WindowsAddUpLemma == StatisticsInv /\ WindowsMeet => WindowsAddUp
<1> SUFFICES ASSUME StatisticsInv, WindowsMeet,
                    NEW a \in Times \cup {NoTime}, NEW c \in Times \cup {NoTime},
                    NEW b \in Times, NEW needle \in Needles,
                    a <= b, c = NoTime \/ b <= c
             PROVE  LET Window(from, to) == [from |-> from, to |-> to, needle |-> needle]
                        Shown(q) == GrandTotal(Daily(q)).calls
                    IN  Shown(Window(a, c)) = Shown(Window(a, b)) + Shown(Window(b, c))
  BY DEF WindowsAddUp
<1> DEFINE Window(from, to) == [from |-> from, to |-> to, needle |-> needle]
           D  == QueryRecords(Window(a, c))
           D1 == QueryRecords(Window(a, b))
           D2 == QueryRecords(Window(b, c))
           all == Calls(Window(a, c))
<1>1. D = D1 \cup D2 /\ D1 \cap D2 = {}
  BY DEF WindowsMeet
<1>2. IsFiniteSet(D) /\ all \in Tables(D)
  BY CallsType
<1>3. Restrict(all, D1) = Calls(Window(a, b)) /\ Restrict(all, D2) = Calls(Window(b, c))
  <2> HIDE DEF Window
  <2>1. ASSUME NEW r \in D
        PROVE  all[r] = LET model == NormalizeModel(r.model)
                        IN  Priced(Premium(RowStats(r), model, Day(r)), model, Day(r))
    BY DEF Calls
  <2>2. /\ Calls(Window(a, b)) = [r \in D1 |-> all[r]]
        /\ Calls(Window(b, c)) = [r \in D2 |-> all[r]]
    <3> HIDE DEF all
    <3> QED
      BY <1>1, <2>1 DEF Calls
  <2> QED
    BY <2>2 DEF Restrict
<1> HIDE DEF Window, D, D1, D2, all
<1>4. TotalOf(all, D1 \cup D2) = MergeStats(TotalOf(all, D1), TotalOf(all, D2))
  <2>1. D1 \in SUBSET D /\ D2 \in SUBSET D
    BY <1>1
  <2> QED
    BY <1>1, <1>2, <2>1, TotalSplits
<1>5. TotalOf(all, D) = GrandTotal(all)
  BY <1>2, TotalOfParts
<1>6. GrandTotal(all).calls = TotalOf(all, D1).calls + TotalOf(all, D2).calls
  BY <1>1, <1>4, <1>5 DEF MergeStats
<1>7. /\ TotalOf(all, D1) = GrandTotal(Calls(Window(a, b)))
      /\ TotalOf(all, D2) = GrandTotal(Calls(Window(b, c)))
  BY <1>3 DEF TotalOf
<1>8. \A q : GrandTotal(Daily(q)).calls = GrandTotal(Calls(q)).calls
  BY DailyShowsCalls
<1>9. GrandTotal(Daily(Window(a, c))).calls
          = GrandTotal(Daily(Window(a, b))).calls + GrandTotal(Daily(Window(b, c))).calls
  BY <1>6, <1>7, <1>8 DEF all
<1> QED
  BY <1>9 DEF Window

(* Groups of which only the names differ. *)
Renames(new, key1, key2, D) ==
    /\ \A x \in D : key2[x] = new[key1[x]]
    /\ \A x, y \in D : new[key1[x]] = new[key1[y]] => key1[x] = key1[y]

Renamed(new, one, two) ==
    /\ \A k \in DOMAIN one : new[k] \in DOMAIN two /\ two[new[k]] = one[k]
    /\ Cardinality(DOMAIN one) = Cardinality(DOMAIN two)

LEMMA GroupsRenamed ==
    ASSUME NEW D, IsFiniteSet(D), NEW table, NEW key1, NEW key2, NEW new,
           Renames(new, key1, key2, D)
    PROVE  Renamed(new, Groups(table, key1, D), Groups(table, key2, D))
<1> USE DEF Renames
<1> DEFINE K1 == KeysOf(key1, D)
           K2 == KeysOf(key2, D)
<1>1. ASSUME NEW k \in K1
      PROVE  new[k] \in K2 /\ Group(key2, D, new[k]) = Group(key1, D, k)
  <2>1. PICK x \in D : key1[x] = k
    BY DEF KeysOf
  <2>2. key2[x] = new[k]
    BY <2>1
  <2>3. \A y \in D : key2[y] = new[k] <=> key1[y] = k
    BY <2>1
  <2> QED
    BY <2>2, <2>3 DEF Group, KeysOf
<1>2. DOMAIN Groups(table, key1, D) = K1 /\ DOMAIN Groups(table, key2, D) = K2
  BY DEF Groups
<1>3. \A k \in K1 : /\ new[k] \in K2
                    /\ Groups(table, key2, D)[new[k]] = Groups(table, key1, D)[k]
  BY <1>1 DEF Groups
<1>4. Cardinality(K1) = Cardinality(K2)
  <2> DEFINE g == [k \in K1 |-> new[k]]
             f1 == [x \in D |-> key1[x]]
  <2>1. IsFiniteSet(K1)
    <3>1. f1 \in Surjection(D, K1)
      BY DEF Surjection, KeysOf
    <3> QED
      BY <3>1, FS_Surjection
  <2>2. g \in [K1 -> K2]
    BY <1>1
  <2>3. \A k, l \in K1 : g[k] = g[l] => k = l
    BY DEF KeysOf
  <2>4. \A j \in K2 : \E k \in K1 : g[k] = j
    BY DEF KeysOf
  <2>5. g \in Bijection(K1, K2)
    <3> HIDE DEF g, K1, K2
    <3>1. g \in Injection(K1, K2)
      BY <2>2, <2>3 DEF Injection, IsInjective
    <3>2. g \in Surjection(K1, K2)
      BY <2>2, <2>4 DEF Surjection
    <3> QED
      BY <3>1, <3>2 DEF Bijection
  <2>6. ExistsBijection(K1, K2)
    BY <2>5 DEF ExistsBijection
  <2> HIDE DEF K1, K2
  <2> QED
    BY <2>1, <2>6, FS_Bijection
<1> QED
  BY <1>2, <1>3, <1>4 DEF Renamed

LEMMA ClockShiftsBack ==
    ASSUME NEW h \in 0..23, NEW k \in 0..23, NEW n \in Int, (h - n) % 24 = (k - n) % 24
    PROVE  h = k
OBVIOUS

LEMMA HourType == ASSUME NEW time \in Nat PROVE Hour(time, 0) \in 0..23
<1>1. NormalizeTimezoneOffset(0) = 0
  BY DEF NormalizeTimezoneOffset
<1>2. Hour(time, 0) = ((time - 0) % 1440) \div 60
  BY <1>1 DEF Hour, MinutesPerDay
<1> QED
  BY <1>2

LEMMA HoursFollowLemma == StatisticsInv => HoursFollowTheViewer
<1> DEFINE q == [from |-> NoTime, to |-> NoTime, needle |-> ""]
           calls == Calls(q)
<1> SUFFICES ASSUME StatisticsInv, NEW offset \in Offsets, offset % 60 = 0
             PROVE  LET utc == Hourly(calls, 0)
                        here == Hourly(calls, offset)
                        shift == NormalizeTimezoneOffset(offset) \div 60
                    IN  /\ \A h \in DOMAIN utc : /\ (h - shift) % 24 \in DOMAIN here
                                                 /\ here[(h - shift) % 24] = utc[h]
                        /\ Cardinality(DOMAIN here) = Cardinality(DOMAIN utc)
  BY DEF HoursFollowTheViewer
<1> DEFINE shift == NormalizeTimezoneOffset(offset) \div 60
           D == {r \in QueryRecords(q) : Timed(r)}
           timed == Restrict(calls, D)
           key1 == [r \in D |-> Hour(r.time, 0)]
           key2 == [r \in D |-> Hour(r.time, offset)]
           new == [h \in 0..23 |-> (h - shift) % 24]
<1>1. /\ IsFiniteSet(QueryRecords(q)) /\ QueryRecords(q) \subseteq Rows
      /\ calls \in Tables(QueryRecords(q))
  BY CallsType
<1>2. IsFiniteSet(D) /\ timed \in Tables(D) /\ DOMAIN timed = D /\ DOMAIN calls = QueryRecords(q)
  <2>1. D \in SUBSET QueryRecords(q)
    OBVIOUS
  <2> HIDE DEF D, calls, q
  <2>2. timed \in Tables(D) /\ DOMAIN calls = QueryRecords(q)
    BY <1>1, <2>1, TableParts
  <2> HIDE DEF timed
  <2> QED
    BY <1>1, <2>1, <2>2, FS_Subset, TableParts
<1>3. Hourly(calls, 0) = SumBy(timed, key1) /\ Hourly(calls, offset) = SumBy(timed, key2)
  <2>1. {r \in DOMAIN calls : Timed(r)} = D
    BY <1>2
  <2> HIDE DEF D, calls
  <2> QED
    BY <1>2, <2>1 DEF Hourly
<1>4. offset \in Int
  BY StatisticsAssumption
<1>5. shift \in Int
  BY <1>4 DEF NormalizeTimezoneOffset
<1>6. ASSUME NEW r \in D
      PROVE  key1[r] \in 0..23 /\ new[key1[r]] = (key1[r] - shift) % 24 /\ key2[r] = new[key1[r]]
  <2>1. r.time \in Nat
    BY <1>1, StatisticsAssumption
  <2>2. key1[r] = Hour(r.time, 0) /\ key2[r] = Hour(r.time, offset)
    OBVIOUS
  <2>3. Hour(r.time, 0) \in 0..23
    BY <2>1, HourType
  <2>4. Hour(r.time, offset) = (Hour(r.time, 0) - shift) % 24
    BY <1>4, <2>1, HoursShift
  <2>5. \A h \in 0..23 : new[h] = (h - shift) % 24
    OBVIOUS
  <2> HIDE DEF key1, key2, new, shift, D
  <2> QED
    BY <2>2, <2>3, <2>4, <2>5
<1> HIDE DEF shift, D, timed, key1, key2, new
<1>7. \A x, y \in D : new[key1[x]] = new[key1[y]] => key1[x] = key1[y]
  <2> SUFFICES ASSUME NEW x \in D, NEW y \in D, new[key1[x]] = new[key1[y]]
               PROVE  key1[x] = key1[y]
    OBVIOUS
  <2>1. (key1[x] - shift) % 24 = (key1[y] - shift) % 24
    BY <1>6
  <2>2. key1[x] \in 0..23 /\ key1[y] \in 0..23
    BY <1>6
  <2> DEFINE h == key1[x]
             k == key1[y]
  <2>3. h \in 0..23 /\ k \in 0..23 /\ (h - shift) % 24 = (k - shift) % 24
    BY <2>1, <2>2
  <2> HIDE DEF h, k
  <2>4. h = k
    BY <1>5, <2>3, ClockShiftsBack
  <2> QED
    BY <2>4 DEF h, k
<1>8. SumBy(timed, key1) = Groups(timed, key1, D) /\ SumBy(timed, key2) = Groups(timed, key2, D)
  BY <1>2, SumByIsGroups
<1>9. Renamed(new, Groups(timed, key1, D), Groups(timed, key2, D))
  <2>1. Renames(new, key1, key2, D)
    BY <1>6, <1>7 DEF Renames
  <2> QED
    BY <1>2, <2>1, GroupsRenamed
<1>10. \A k \in DOMAIN Groups(timed, key1, D) : new[k] = (k - shift) % 24
  BY <1>6 DEF Groups, KeysOf
<1> QED
  BY <1>3, <1>8, <1>9, <1>10 DEF shift, Renamed

(* TotalsAgree: the tables of days, models, projects and hours add up to   *)
(* the calls that the query selects, windows that meet add up to the       *)
(* window over both, and the hours follow the viewer; whatever rows and    *)
(* workspaces the syncs have stored.                                       *)
THEOREM SumsAlwaysAgree == StatisticsSpec => []TotalsAgree
<1>1. StatisticsInv /\ WindowsMeet => TotalsAgree
  BY TablesAgreeLemma, WindowsAddUpLemma, HoursFollowLemma DEF TotalsAgree
<1> QED
  BY <1>1, StatisticsInvariant, WindowsShareNoCall, PTL

-----------------------------------------------------------------------------
(* Costs *)

LEMMA CostOfNothing ==
    ASSUME NEW model, NEW day \in Nat
    PROVE  CalcCost(model, NewStats, day) = 0
<1>1. CASE ~HasPricing(model, day)
  BY <1>1 DEF CalcCost
<1>2. CASE HasPricing(model, day)
  <2> DEFINE p == GetPricing(model, day)
  <2>1. p.input \in Nat /\ p.output \in Nat /\ p.cacheRead \in Nat /\ p.cacheWrite \in Nat
    BY <1>2, PricesAreNumbers DEF Pricing
  <2>2. UncachedInput(NewStats) = 0
    BY DEF UncachedInput, NetInput, NewStats
  <2>3. CalcCost(model, NewStats, day)
            = UncachedInput(NewStats) * p.input + NewStats.completion * p.output
              + NewStats.cacheRead * p.cacheRead + NewStats.cacheWrite * p.cacheWrite
    BY <1>2 DEF CalcCost
  <2> HIDE DEF p
  <2>4. 0 * p.input = 0 /\ 0 * p.output = 0 /\ 0 * p.cacheRead = 0 /\ 0 * p.cacheWrite = 0
    BY <2>1
  <2>5. NewStats.completion = 0 /\ NewStats.cacheRead = 0 /\ NewStats.cacheWrite = 0
    BY DEF NewStats
  <2> QED
    BY <2>2, <2>3, <2>4, <2>5
<1> QED
  BY <1>1, <1>2

(* What is merged first and priced then is not dearer. *)
LEMMA CostOfMerged ==
    ASSUME NEW D, IsFiniteSet(D), NEW table \in Tables(D), NEW dear \in Tables(D),
           NEW model, NEW day \in Nat, NEW s \in SUBSET D,
           \A x \in s : CalcCost(model, table[x], day) <= dear[x].cost
    PROVE  CalcCost(model, TotalOf(table, s), day) <= TotalOf(dear, s).cost
<1> DEFINE P(u) == TotalOf(table, u)
           Q(u) == TotalOf(dear, u)
           Cost(r) == CalcCost(model, r, day)
           T == {u \in SUBSET s : Cost(P(u)) <= Q(u).cost}
<1>1. /\ P({}) = NewStats /\ \A u \in SUBSET D : P(u) \in Stats
      /\ \A u \in SUBSET D : \A x \in u : P(u) = MergeStats(P(u \ {x}), table[x])
  BY TotalOfParts
<1>2. /\ Q({}) = NewStats /\ \A u \in SUBSET D : Q(u) \in Stats
      /\ \A u \in SUBSET D : \A x \in u : Q(u) = MergeStats(Q(u \ {x}), dear[x])
  BY TotalOfParts
<1>3. \A x \in D : table[x] \in Stats /\ dear[x] \in Stats
  BY TableParts
<1>4. Cost(NewStats) = 0 /\ NewStats.cost = 0
  BY CostOfNothing DEF NewStats
<1>5. \A r \in Stats : Cost(r) \in Nat /\ r.cost \in Nat
  BY CostsAreNumbers DEF Stats
<1>6. \A r \in Stats, t \in Stats :
          /\ Cost(MergeStats(r, t)) <= Cost(r) + Cost(t)
          /\ MergeStats(r, t).cost = r.cost + t.cost /\ MergeStats(r, t) \in Stats
  <2>1. \A r \in Stats, t \in Stats : Cost(MergeStats(r, t)) <= Cost(r) + Cost(t)
    BY MergedIsNotDearer
  <2> QED
    BY <2>1, MergeType DEF MergeStats
<1>7. \A x \in s : Cost(table[x]) <= dear[x].cost
  OBVIOUS
<1> HIDE DEF P, Q, Cost
<1>8. ASSUME NEW u \in SUBSET s, \A v \in SUBSET u : v # u => v \in T
      PROVE  u \in T
  <2>1. CASE u = {}
    BY <1>1, <1>2, <1>4, <2>1
  <2>2. CASE u # {}
    <3>1. PICK x : x \in u
      BY <2>2
    <3> DEFINE r == u \ {x}
    <3>2. r \in SUBSET u /\ r # u /\ u \in SUBSET D /\ r \in SUBSET D /\ x \in s /\ x \in D
      BY <3>1
    <3>3. Cost(P(r)) <= Q(r).cost
      BY <1>8, <3>2
    <3>4. P(u) = MergeStats(P(r), table[x]) /\ Q(u) = MergeStats(Q(r), dear[x])
      BY <1>1, <1>2, <3>1, <3>2
    <3>5. /\ P(r) \in Stats /\ table[x] \in Stats /\ Q(r) \in Stats /\ dear[x] \in Stats
          /\ Cost(table[x]) <= dear[x].cost
      BY <1>1, <1>2, <1>3, <1>7, <3>2
    <3> HIDE DEF r
    <3>6. /\ Cost(P(u)) <= Cost(P(r)) + Cost(table[x])
          /\ Q(u).cost = Q(r).cost + dear[x].cost /\ P(u) \in Stats
      BY <1>6, <3>4, <3>5
    <3>7. Cost(P(u)) \in Nat /\ Cost(P(r)) \in Nat /\ Cost(table[x]) \in Nat
          /\ Q(r).cost \in Nat /\ dear[x].cost \in Nat
      BY <1>5, <3>5, <3>6
    <3> QED
      BY <3>3, <3>5, <3>6, <3>7
  <2> QED
    BY <2>1, <2>2
<1> HIDE DEF T
<1>9. IsFiniteSet(s)
  BY FS_Subset
<1>10. SUBSET s \subseteq T
  BY <1>8, <1>9, SubsetInduction
<1> QED
  BY <1>10 DEF T, P, Q, Cost

LEMMA CostsMonotone ==
    ASSUME NEW D, IsFiniteSet(D), NEW cheap \in Tables(D), NEW dear \in Tables(D),
           \A x \in D : cheap[x].cost <= dear[x].cost
    PROVE  GrandTotal(cheap).cost <= GrandTotal(dear).cost
<1> DEFINE P(u) == TotalOf(cheap, u)
           Q(u) == TotalOf(dear, u)
           T == {u \in SUBSET D : P(u).cost <= Q(u).cost}
<1>1. /\ P({}) = NewStats /\ \A u \in SUBSET D : P(u) \in Stats
      /\ \A u \in SUBSET D : \A x \in u : P(u) = MergeStats(P(u \ {x}), cheap[x])
      /\ P(D) = GrandTotal(cheap)
  BY TotalOfParts
<1>2. /\ Q({}) = NewStats /\ \A u \in SUBSET D : Q(u) \in Stats
      /\ \A u \in SUBSET D : \A x \in u : Q(u) = MergeStats(Q(u \ {x}), dear[x])
      /\ Q(D) = GrandTotal(dear)
  BY TotalOfParts
<1>3. \A x \in D : cheap[x] \in Stats /\ dear[x] \in Stats
  BY TableParts
<1>4. NewStats.cost = 0 /\ \A r \in Stats : r.cost \in Nat
  BY DEF NewStats, Stats
<1>5. \A r, t : MergeStats(r, t).cost = r.cost + t.cost
  BY DEF MergeStats
<1> HIDE DEF P, Q
<1>6. ASSUME NEW u \in SUBSET D, \A v \in SUBSET u : v # u => v \in T
      PROVE  u \in T
  <2>1. CASE u = {}
    BY <1>1, <1>2, <1>4, <2>1
  <2>2. CASE u # {}
    <3>1. PICK x : x \in u
      BY <2>2
    <3> DEFINE r == u \ {x}
    <3>2. r \in SUBSET u /\ r # u /\ u \in SUBSET D /\ r \in SUBSET D /\ x \in D
      BY <3>1
    <3>3. P(r).cost <= Q(r).cost
      BY <1>6, <3>2
    <3>4. P(u) = MergeStats(P(r), cheap[x]) /\ Q(u) = MergeStats(Q(r), dear[x])
      BY <1>1, <1>2, <3>1, <3>2
    <3>5. P(r).cost \in Nat /\ cheap[x].cost \in Nat /\ Q(r).cost \in Nat /\ dear[x].cost \in Nat
          /\ cheap[x].cost <= dear[x].cost
      BY <1>1, <1>2, <1>3, <1>4, <3>2
    <3> HIDE DEF r
    <3>6. P(u).cost = P(r).cost + cheap[x].cost /\ Q(u).cost = Q(r).cost + dear[x].cost
      BY <1>5, <3>4
    <3> QED
      BY <3>3, <3>5, <3>6
  <2> QED
    BY <2>1, <2>2
<1> HIDE DEF T
<1>7. SUBSET D \subseteq T
  BY <1>6, SubsetInduction
<1> QED
  BY <1>1, <1>2, <1>7 DEF T

(* The sums of a table, priced at their days and models. *)
PricedSums(raw, key, K, model, day) ==
    [j \in KeysOf(key, K) |-> Priced(SumBy(raw, key)[j], model[j], day[j])]

LEMMA PricedSumsType ==
    ASSUME NEW K, IsFiniteSet(K), NEW raw \in Tables(K), NEW key, NEW model, NEW day,
           \A k \in K : day[key[k]] \in Nat
    PROVE  /\ IsFiniteSet(KeysOf(key, K))
           /\ PricedSums(raw, key, K, model, day) \in Tables(KeysOf(key, K))
           /\ \A j \in KeysOf(key, K) :
                 PricedSums(raw, key, K, model, day)[j].cost
                     = CalcCost(model[j], SumBy(raw, key)[j], day[j])
<1> DEFINE keys == KeysOf(key, K)
           sums == SumBy(raw, key)
           table == PricedSums(raw, key, K, model, day)
<1>1. IsFiniteSet(keys) /\ sums \in Tables(keys)
  BY SumByTotal
<1>2. \A j \in keys : sums[j] \in Stats
  BY <1>1, TableParts
<1>3. \A j \in keys : day[j] \in Nat
  BY DEF KeysOf
<1>4. table = [j \in keys |-> Priced(sums[j], model[j], day[j])]
  BY DEF PricedSums
<1> HIDE DEF keys, sums, table
<1>5. ASSUME NEW j \in keys
      PROVE  /\ Priced(sums[j], model[j], day[j]) \in Stats
             /\ Priced(sums[j], model[j], day[j]).cost = CalcCost(model[j], sums[j], day[j])
  BY <1>2, <1>3, PricedFields
<1>6. table \in Tables(keys) /\ \A j \in keys : table[j].cost = CalcCost(model[j], sums[j], day[j])
  BY <1>4, <1>5 DEF Tables
<1> QED
  BY <1>1, <1>6 DEF keys, sums, table

LEMMA PricedSumsAreNotDearer ==
    ASSUME NEW K, IsFiniteSet(K), NEW raw \in Tables(K), NEW dear \in Tables(K),
           NEW key, NEW model, NEW day,
           \A k \in K : /\ day[key[k]] \in Nat
                       /\ CalcCost(model[key[k]], raw[k], day[key[k]]) <= dear[k].cost
    PROVE  GrandTotal(PricedSums(raw, key, K, model, day)).cost <= GrandTotal(dear).cost
<1> DEFINE keys == KeysOf(key, K)
           sums == SumBy(raw, key)
           table == PricedSums(raw, key, K, model, day)
           groups == Groups(dear, key, K)
<1>1. /\ IsFiniteSet(keys) /\ table \in Tables(keys)
      /\ \A j \in keys : table[j].cost = CalcCost(model[j], sums[j], day[j])
  BY PricedSumsType
<1>2. groups \in Tables(keys) /\ GrandTotal(groups) = GrandTotal(dear)
  BY GroupsType, TotalOfGroups
<1>3. ASSUME NEW j \in keys PROVE table[j].cost <= groups[j].cost
  <2> DEFINE s == Group(key, K, j)
  <2>1. s \in SUBSET K /\ \A k \in s : key[k] = j
    BY DEF Group
  <2>2. day[j] \in Nat
    BY DEF KeysOf
  <2>3. \A k \in s : CalcCost(model[j], raw[k], day[j]) <= dear[k].cost
    BY <2>1
  <2>4. sums[j] = TotalOf(raw, s) /\ groups[j] = TotalOf(dear, s)
    BY SumByIsGroups DEF Groups
  <2> HIDE DEF s
  <2>5. CalcCost(model[j], TotalOf(raw, s), day[j]) <= TotalOf(dear, s).cost
    BY <2>1, <2>2, <2>3, CostOfMerged
  <2> QED
    BY <1>1, <2>4, <2>5
<1> HIDE DEF keys, sums, table, groups
<1>4. GrandTotal(table).cost <= GrandTotal(groups).cost
  BY <1>1, <1>2, <1>3, CostsMonotone
<1> QED
  BY <1>2, <1>4 DEF table

(* Premium requests have no part in the cost. *)
LEMMA PremiumCostsNothing ==
    ASSUME NEW model, NEW day \in Nat, NEW s \in Stats
    PROVE  CalcCost(model, Premium(s, model, day), day) = CalcCost(model, s, day)
<1> DEFINE t == Premium(s, model, day)
<1>1. /\ t.prompt = s.prompt /\ t.completion = s.completion
      /\ t.cacheRead = s.cacheRead /\ t.cacheWrite = s.cacheWrite
  <2> DEFINE n == s.turns * GetPremiumMultiplier(model, day)
  <2>1. t = [calls |-> s.calls, turns |-> s.turns, prompt |-> s.prompt,
             completion |-> s.completion, cacheRead |-> s.cacheRead,
             cacheWrite |-> s.cacheWrite, premium |-> n, cost |-> s.cost,
             costNoCache |-> s.costNoCache, premiumCost |-> s.premiumCost]
    BY PremiumFields
  <2> HIDE DEF n, t
  <2> QED
    BY <2>1
<1> HIDE DEF t
<1>2. UncachedInput(t) = UncachedInput(s)
  BY <1>1 DEF UncachedInput, NetInput
<1>3. CalcCost(model, t, day) = CalcCost(model, s, day)
  BY <1>1, <1>2 DEF CalcCost
<1> QED
  BY <1>3 DEF t

LEMMA CostOfCall ==
    ASSUME StatisticsInv, NEW q, NEW r \in QueryRecords(q)
    PROVE  /\ RowStats(r) \in Stats /\ Day(r) \in Nat
           /\ Calls(q)[r].cost = CalcCost(NormalizeModel(r.model), RowStats(r), Day(r))
<1> DEFINE model == NormalizeModel(r.model)
           day == Day(r)
           billed == Premium(RowStats(r), model, day)
<1>1. r \in Rows
  BY CallsType
<1>2. RowStats(r) \in Stats /\ day \in Nat
  BY <1>1, RowStatsType
<1>3. Calls(q)[r] = Priced(billed, model, day)
  BY DEF Calls
<1> HIDE DEF model, day
<1>4. billed \in Stats
  BY <1>2, PremiumFields
<1>5. CalcCost(model, billed, day) = CalcCost(model, RowStats(r), day)
  BY <1>2, PremiumCostsNothing
<1> HIDE DEF billed
<1>6. Priced(billed, model, day).cost = CalcCost(model, billed, day)
  BY <1>2, <1>4, PricedFields
<1> QED
  BY <1>2, <1>3, <1>5, <1>6 DEF model, day

LEMMA RawSums ==
    ASSUME StatisticsInv, NEW q
    PROVE  /\ IsFiniteSet(RawKeys(q)) /\ QueryDailyProjectModelStats(q) \in Tables(RawKeys(q))
           /\ \A k \in RawKeys(q) : k[1] \in Nat
BY RawIsCalls DEF Fits

(* A raw sum is not dearer than its calls. *)
LEMMA RawIsNotDearer ==
    ASSUME StatisticsInv, NEW q, NEW k \in RawKeys(q)
    PROVE  CalcCost(k[3], QueryDailyProjectModelStats(q)[k], k[1])
               <= Groups(Calls(q), RawKey(q), QueryRecords(q))[k].cost
<1> DEFINE D == QueryRecords(q)
           K == RawKeys(q)
           key == RawKey(q)
           stats == [r \in D |-> RowStats(r)]
           sums == SumBy(stats, key)
           raw == QueryDailyProjectModelStats(q)
           calls == Calls(q)
           s == Group(key, D, k)
<1>1. IsFiniteSet(D) /\ calls \in Tables(D) /\ k[1] \in Nat
  BY CallsType, RawSums
<1>2. stats \in Tables(D)
  BY CostOfCall DEF Tables
<1>3. sums \in Tables(K) /\ sums = Groups(stats, key, D)
  BY <1>1, <1>2, SumByTotal, SumByIsGroups DEF RawKeys
<1>4. DOMAIN sums = K
  BY <1>3, TableParts
<1>5. raw[k] = Premium(sums[k], k[3], k[1])
  BY <1>4 DEF QueryDailyProjectModelStats, RawKey
<1>6. k \in KeysOf(key, D)
  BY DEF RawKeys
<1>7. sums[k] = TotalOf(stats, s) /\ Groups(calls, key, D)[k] = TotalOf(calls, s)
  BY <1>3, <1>6 DEF Groups
<1>8. s \in SUBSET D
  BY DEF Group
<1>9. ASSUME NEW r \in s PROVE CalcCost(k[3], stats[r], k[1]) <= calls[r].cost
  <2>1. r \in D /\ key[r] = k
    BY DEF Group
  <2>2. k[1] = Day(r) /\ k[3] = NormalizeModel(r.model) /\ stats[r] = RowStats(r)
    BY <2>1 DEF RawKey
  <2>3. /\ RowStats(r) \in Stats /\ Day(r) \in Nat
        /\ calls[r].cost = CalcCost(NormalizeModel(r.model), RowStats(r), Day(r))
    BY <2>1, CostOfCall
  <2>4. calls[r].cost \in Nat
    BY <2>3, CostsAreNumbers
  <2> QED
    BY <2>2, <2>3, <2>4
<1> HIDE DEF D, K, key, stats, sums, raw, calls, s
<1>10. CalcCost(k[3], TotalOf(stats, s), k[1]) <= TotalOf(calls, s).cost
  BY <1>1, <1>2, <1>8, <1>9, CostOfMerged
<1>11. TotalOf(stats, s) \in Stats
  BY <1>1, <1>2, <1>8, TotalOfParts
<1>12. CalcCost(k[3], raw[k], k[1]) = CalcCost(k[3], TotalOf(stats, s), k[1])
  BY <1>1, <1>5, <1>7, <1>11, PremiumCostsNothing
<1> QED
  BY <1>7, <1>10, <1>12 DEF raw, calls, key, D

(* The two tables as priced sums: that of days may be made of the raw sums *)
(* or of the sums of projects.                                             *)
DayKey(q) == [k \in RawKeys(q) |-> <<k[1], k[3]>>]
ProjectKey(q) ==
    [k \in RawKeys(q) |-> <<k[1], CanonicalProjectLabel(k[2], WorkspacesOf(q)), k[3]>>]

ProjectSums(q) == SumBy(QueryDailyProjectModelStats(q), ProjectKey(q))
ProjectKeys(q) == KeysOf(ProjectKey(q), RawKeys(q))
DayOfProject(q) == [j \in ProjectKeys(q) |-> <<j[1], j[3]>>]

LEMMA ProjectKeyFields ==
    ASSUME NEW q, NEW k \in RawKeys(q)
    PROVE  /\ ProjectKey(q)[k] \in ProjectKeys(q)
           /\ ProjectKey(q)[k][1] = k[1] /\ ProjectKey(q)[k][3] = k[3]
           /\ DayOfProject(q)[ProjectKey(q)[k]] = DayKey(q)[k]
<1> DEFINE l == CanonicalProjectLabel(k[2], WorkspacesOf(q))
           j == ProjectKey(q)[k]
<1>1. j \in ProjectKeys(q)
  BY DEF ProjectKeys, KeysOf
<1>2. j = <<k[1], l, k[3]>>
  BY DEF ProjectKey
<1> HIDE DEF l
<1>3. j[1] = k[1] /\ j[3] = k[3]
  BY <1>2
<1> HIDE DEF j
<1>4. DayOfProject(q)[j] = <<j[1], j[3]>> /\ DayKey(q)[k] = <<k[1], k[3]>>
  BY <1>1 DEF DayOfProject, DayKey
<1> QED
  BY <1>1, <1>3, <1>4 DEF j

LEMMA ProjectDailyShape ==
    ASSUME StatisticsInv, NEW q
    PROVE  /\ IsFiniteSet(ProjectKeys(q)) /\ ProjectSums(q) \in Tables(ProjectKeys(q))
           /\ ProjectDaily(q) =
                 PricedSums(QueryDailyProjectModelStats(q), ProjectKey(q), RawKeys(q),
                            [j \in ProjectKeys(q) |-> j[3]], [j \in ProjectKeys(q) |-> j[1]])
<1> DEFINE raw == QueryDailyProjectModelStats(q)
           K == RawKeys(q)
           sums == ProjectSums(q)
           keys == ProjectKeys(q)
           cwds == {k[2] : k \in K}
<1>1. IsFiniteSet(K) /\ raw \in Tables(K)
  BY RawSums
<1>2. DOMAIN raw = K /\ sums \in Tables(keys) /\ IsFiniteSet(keys)
  BY <1>1, TableParts, SumByTotal DEF ProjectSums, ProjectKeys
<1>3. DOMAIN sums = keys
  BY <1>2, TableParts
<1>4. cwds = WorkspacesOf(q)
  BY RawWorkspaces
<1>5. sums = SumBy(raw, [k \in K |-> <<k[1], CanonicalProjectLabel(k[2], cwds), k[3]>>])
  BY <1>4 DEF ProjectSums, ProjectKey
<1>6. ProjectDaily(q) = [j \in DOMAIN sums |-> Priced(sums[j], j[3], j[1])]
  BY <1>2, <1>5 DEF ProjectDaily
<1>7. PricedSums(raw, ProjectKey(q), K, [j \in keys |-> j[3]], [j \in keys |-> j[1]])
          = [j \in keys |-> Priced(sums[j], j[3], j[1])]
  BY DEF PricedSums, ProjectSums, ProjectKeys
<1> QED
  BY <1>2, <1>3, <1>6, <1>7

LEMMA DailyShape ==
    ASSUME StatisticsInv, NEW q
    PROVE  LET keys == KeysOf(DayOfProject(q), ProjectKeys(q))
           IN  Daily(q) = PricedSums(ProjectSums(q), DayOfProject(q), ProjectKeys(q),
                              [j \in keys |-> j[2]], [j \in keys |-> j[1]])
<1> DEFINE raw == QueryDailyProjectModelStats(q)
           K == RawKeys(q)
           sums == SumBy(raw, DayKey(q))
           keys == KeysOf(DayOfProject(q), ProjectKeys(q))
<1>1. IsFiniteSet(K) /\ raw \in Tables(K)
  BY RawSums
<1>2. IsFiniteSet(ProjectKeys(q)) /\ ProjectSums(q) \in Tables(ProjectKeys(q))
  BY ProjectDailyShape
<1>3. DOMAIN raw = K /\ sums \in Tables(KeysOf(DayKey(q), K))
  BY <1>1, TableParts, SumByTotal
<1>4. KeysOf(DayKey(q), K) = keys
  BY ProjectKeyFields DEF KeysOf, ProjectKeys
<1>5. DOMAIN sums = keys
  BY <1>3, <1>4, TableParts
<1>6. Daily(q) = [j \in DOMAIN sums |-> Priced(sums[j], j[2], j[1])]
  BY <1>3 DEF Daily, DayKey
<1>7. SumBy(ProjectSums(q), DayOfProject(q)) = sums
  <2>1. ProjectSums(q) = Groups(raw, ProjectKey(q), K)
    BY <1>1, SumByIsGroups DEF ProjectSums
  <2>2. SumBy(ProjectSums(q), DayOfProject(q))
            = Groups(ProjectSums(q), DayOfProject(q), ProjectKeys(q))
    BY <1>2, SumByIsGroups
  <2>3. sums = Groups(raw, DayKey(q), K)
    BY <1>1, SumByIsGroups
  <2>4. \A k \in K : DayKey(q)[k] = DayOfProject(q)[ProjectKey(q)[k]]
    BY ProjectKeyFields
  <2> HIDE DEF raw, K, sums
  <2>5. Groups(Groups(raw, ProjectKey(q), K), DayOfProject(q), KeysOf(ProjectKey(q), K))
            = Groups(raw, DayKey(q), K)
    BY <1>1, <2>4, GroupsOfGroups
  <2> QED
    BY <2>1, <2>2, <2>3, <2>5 DEF ProjectKeys, K
<1>8. PricedSums(ProjectSums(q), DayOfProject(q), ProjectKeys(q),
                 [j \in keys |-> j[2]], [j \in keys |-> j[1]])
          = [j \in keys |-> Priced(sums[j], j[2], j[1])]
  BY <1>7 DEF PricedSums
<1> QED
  BY <1>5, <1>6, <1>8

LEMMA ProjectsAreNotDearer ==
    ASSUME StatisticsInv, NEW q
    PROVE  GrandTotal(ProjectDaily(q)).cost <= GrandTotal(Calls(q)).cost
<1> DEFINE raw == QueryDailyProjectModelStats(q)
           K == RawKeys(q)
           D == QueryRecords(q)
           dear == Groups(Calls(q), RawKey(q), D)
           key == ProjectKey(q)
           model == [j \in ProjectKeys(q) |-> j[3]]
           day == [j \in ProjectKeys(q) |-> j[1]]
<1>1. IsFiniteSet(K) /\ raw \in Tables(K) /\ \A k \in K : k[1] \in Nat
  BY RawSums
<1>2. IsFiniteSet(D) /\ Calls(q) \in Tables(D)
  BY CallsType
<1>3. dear \in Tables(K) /\ GrandTotal(dear) = GrandTotal(Calls(q))
  BY <1>2, GroupsType, TotalOfGroups DEF RawKeys
<1>4. \A k \in K : model[key[k]] = k[3] /\ day[key[k]] = k[1]
  BY ProjectKeyFields
<1>5. \A k \in K : CalcCost(k[3], raw[k], k[1]) <= dear[k].cost
  BY RawIsNotDearer
<1>6. ProjectDaily(q) = PricedSums(raw, key, K, model, day)
  BY ProjectDailyShape
<1> HIDE DEF raw, K, D, dear, key, model, day
<1>7. GrandTotal(PricedSums(raw, key, K, model, day)).cost <= GrandTotal(dear).cost
  BY <1>1, <1>3, <1>4, <1>5, PricedSumsAreNotDearer
<1> QED
  BY <1>3, <1>6, <1>7

LEMMA DaysAreNotDearer ==
    ASSUME StatisticsInv, NEW q
    PROVE  GrandTotal(Daily(q)).cost <= GrandTotal(ProjectDaily(q)).cost
<1> DEFINE raw == QueryDailyProjectModelStats(q)
           K == RawKeys(q)
           J == ProjectKeys(q)
           sums == ProjectSums(q)
           dear == ProjectDaily(q)
           key == DayOfProject(q)
           keys == KeysOf(key, J)
           model == [j \in keys |-> j[2]]
           day == [j \in keys |-> j[1]]
           model3 == [j \in J |-> j[3]]
           day3 == [j \in J |-> j[1]]
<1>1. IsFiniteSet(K) /\ raw \in Tables(K) /\ \A k \in K : k[1] \in Nat
  BY RawSums
<1>2. /\ IsFiniteSet(J) /\ sums \in Tables(J)
      /\ dear = PricedSums(raw, ProjectKey(q), K, model3, day3)
  BY ProjectDailyShape
<1>3. \A k \in K : day3[ProjectKey(q)[k]] \in Nat
  BY <1>1, ProjectKeyFields
<1>4. J = KeysOf(ProjectKey(q), K) /\ sums = SumBy(raw, ProjectKey(q))
  BY DEF ProjectKeys, ProjectSums
<1>5. \A j \in J : j[1] \in Nat
  BY <1>1, <1>4, ProjectKeyFields DEF KeysOf
<1>6. \A j \in J : model3[j] = j[3] /\ day3[j] = j[1]
  OBVIOUS
<1>7. \A j \in J : model[key[j]] = j[3] /\ day[key[j]] = j[1]
  <2> TAKE j \in J
  <2>1. key[j] \in keys
    BY DEF KeysOf
  <2>2. key[j] = <<j[1], j[3]>>
    BY DEF DayOfProject
  <2> HIDE DEF key, keys
  <2>3. model[key[j]] = key[j][2] /\ day[key[j]] = key[j][1]
    BY <2>1
  <2> QED
    BY <2>2, <2>3
<1>8. Daily(q) = PricedSums(sums, key, J, model, day)
  BY DailyShape
<1> HIDE DEF raw, K, J, sums, dear, key, keys, model, day, model3, day3
<1>9. /\ dear \in Tables(J)
      /\ \A j \in J : dear[j].cost = CalcCost(model3[j], sums[j], day3[j])
  BY <1>1, <1>2, <1>3, <1>4, PricedSumsType
<1>10. \A j \in J : sums[j] \in Stats
  BY <1>2, TableParts
<1>11. ASSUME NEW j \in J
       PROVE  /\ day[key[j]] \in Nat
              /\ CalcCost(model[key[j]], sums[j], day[key[j]]) <= dear[j].cost
  <2>1. CalcCost(j[3], sums[j], j[1]) \in Nat
    BY <1>5, <1>10, CostsAreNumbers
  <2> QED
    BY <1>5, <1>6, <1>7, <1>9, <2>1
<1>12. GrandTotal(PricedSums(sums, key, J, model, day)).cost <= GrandTotal(dear).cost
  BY <1>2, <1>9, <1>11, PricedSumsAreNotDearer
<1> QED
  BY <1>8, <1>12 DEF dear

LEMMA PathsCostTheSame ==
    ASSUME StatisticsInv, NEW q, \A r \in QueryRecords(q) : Sound(r)
    PROVE  GrandTotal(Daily(q)) = GrandTotal(Calls(q))
<1>1. Fits(TRUE, q)
  BY DEF Fits
<1>2. IsOfCalls(TRUE, q, Daily(q), DayOfCall(q))
  BY <1>1, DailyIsOfCalls
<1>3. /\ View(TRUE)[GrandTotal(Daily(q))] = View(TRUE)[GrandTotal(Calls(q))]
      /\ GrandTotal(Daily(q)) \in Stats /\ GrandTotal(Calls(q)) \in Stats
  BY <1>2, TotalIsOfCalls
<1>4. \A s \in Stats : View(TRUE)[s] = s
  BY DEF View
<1> QED
  BY <1>3, <1>4

(* Neither does it matter what is summed up of a table. *)
LEMMA SumsOfTables ==
    ASSUME StatisticsInv, NEW q, NEW key
    PROVE  /\ GrandTotal(SumBy(Daily(q), key)) = GrandTotal(Daily(q))
           /\ GrandTotal(SumBy(ProjectDaily(q), key)) = GrandTotal(ProjectDaily(q))
<1>1. IsOfCalls(FALSE, q, Daily(q), DayOfCall(q))
  BY DailyIsOfCalls DEF Fits
<1>2. IsOfCalls(FALSE, q, ProjectDaily(q), ProjectOfCall(q))
  BY ProjectDailyIsOfCalls DEF Fits
<1>3. ASSUME NEW table, NEW key1, IsOfCalls(FALSE, q, table, key1)
      PROVE  GrandTotal(SumBy(table, key)) = GrandTotal(table)
  <2> DEFINE K == KeysOf(key1, QueryRecords(q))
  <2>1. IsFiniteSet(K)
    BY CallsType, GroupsType
  <2>2. table \in Tables(K)
    BY <1>3 DEF IsOfCalls
  <2> HIDE DEF K
  <2> QED
    BY <2>1, <2>2, SumByTotal
<1> QED
  BY <1>1, <1>2, <1>3

(* What is added up before it is priced costs no more: days, projects,     *)
(* calls; and the same if no call has more cached tokens than tokens.      *)
LEMMA CostsAddUpLemma == StatisticsInv => CostsAddUp
<1> SUFFICES ASSUME StatisticsInv, NEW q \in Queries
             PROVE  LET daily     == Daily(q)
                        byProject == ProjectDaily(q)
                        Cost(table) == GrandTotal(table).cost
                    IN  /\ Cost(daily) <= Cost(byProject) /\ Cost(byProject) <= Cost(Calls(q))
                        /\ (\A r \in QueryRecords(q) : Sound(r)) => Cost(daily) = Cost(Calls(q))
                        /\ Cost(Models(daily)) = Cost(daily) /\ Cost(DayTotals(daily)) = Cost(daily)
                        /\ Cost(Projects(byProject)) = Cost(byProject)
                        /\ Cost(ProjectModels(byProject)) = Cost(byProject)
                        /\ Cost(DailyProjects(byProject)) = Cost(byProject)
  BY DEF CostsAddUp
<1> DEFINE daily == Daily(q)
           byProject == ProjectDaily(q)
           Cost(table) == GrandTotal(table).cost
<1>1. Cost(daily) <= Cost(byProject) /\ Cost(byProject) <= Cost(Calls(q))
  BY DaysAreNotDearer, ProjectsAreNotDearer
<1>2. (\A r \in QueryRecords(q) : Sound(r)) => Cost(daily) = Cost(Calls(q))
  BY PathsCostTheSame
<1>3. \A key : /\ Cost(SumBy(daily, key)) = Cost(daily)
               /\ Cost(SumBy(byProject, key)) = Cost(byProject)
  BY SumsOfTables
<1>4. /\ Cost(Models(daily)) = Cost(daily) /\ Cost(DayTotals(daily)) = Cost(daily)
      /\ Cost(Projects(byProject)) = Cost(byProject)
      /\ Cost(ProjectModels(byProject)) = Cost(byProject)
      /\ Cost(DailyProjects(byProject)) = Cost(byProject)
  <2> HIDE DEF daily, byProject, Cost
  <2> QED
    BY <1>3 DEF DayTotals, Models, Projects, ProjectModels, DailyProjects, SumPart
<1> QED
  BY <1>1, <1>2, <1>4

-----------------------------------------------------------------------------
(* The projects of the command line *)

(* Tables of the same calls under the same keys are one and the same. *)
LEMMA TablesOfTheSame ==
    ASSUME NEW q, NEW key, NEW one, NEW two,
           IsOfCalls(TRUE, q, one, key), IsOfCalls(TRUE, q, two, key)
    PROVE  one = two
<1> DEFINE K == KeysOf(key, QueryRecords(q))
<1>1. one \in Tables(K) /\ two \in Tables(K)
  BY DEF IsOfCalls
<1>2. Looks(TRUE, one) = Looks(TRUE, two)
  BY DEF IsOfCalls
<1> HIDE DEF K
<1>3. ASSUME NEW table \in Tables(K)
      PROVE  /\ DOMAIN table = K /\ table = [k \in K |-> table[k]]
             /\ \A k \in K : Looks(TRUE, table)[k] = table[k]
  <2>1. DOMAIN table = K /\ \A k \in K : table[k] \in Stats
    BY TableParts
  <2> QED
    BY <2>1 DEF Looks, View, Tables
<1>4. \A k \in K : one[k] = two[k]
  BY <1>1, <1>2, <1>3
<1> QED
  BY <1>1, <1>3, <1>4

IsMerged(q) ==
    \E cwd \in WorkspacesOf(q) :
        IsCodespacesWorkspacePath(cwd) /\ LocalProjects(WorkspacesOf(q), cwd.base) # {}

LEMMA LabelsAreLegacy ==
    ASSUME NEW q, ~IsMerged(q), NEW r \in QueryRecords(q)
    PROVE  LabelOf(q, r) = LegacyProject(r)
<1> DEFINE cwd == workspaces[r.session]
           cwds == WorkspacesOf(q)
<1>1. cwd \in cwds
  BY DEF WorkspacesOf
<1>2. ~(IsCodespacesWorkspacePath(cwd) /\ LocalProjects(cwds, cwd.base) # {})
  BY <1>1 DEF IsMerged
<1>3. CanonicalProjectLabel(cwd, cwds)
          = IF cwd = NoWorkspace THEN UnknownProject ELSE ProjectName(cwd)
  BY <1>2 DEF CanonicalProjectLabel
<1> QED
  BY <1>3 DEF LabelOf, LegacyProject

LEMMA LegacyIsProjects ==
    ASSUME StatisticsInv, NEW q, ~IsMerged(q), \A r \in QueryRecords(q) : Sound(r)
    PROVE  LegacyProjects(Calls(q)) = Projects(ProjectDaily(q))
<1> DEFINE D == QueryRecords(q)
           K == KeysOf(ProjectOfCall(q), D)
           legacy == [r \in D |-> LegacyProject(r)]
           part == [k \in K |-> k[2]]
           byProject == ProjectDaily(q)
<1>1. IsOfCalls(TRUE, q, byProject, ProjectOfCall(q))
  BY ProjectDailyIsOfCalls DEF Fits
<1>2. DOMAIN byProject = K
  BY <1>1, TableParts DEF IsOfCalls
<1>3. DOMAIN Calls(q) = D
  BY DEF Calls
<1>4. LegacyProjects(Calls(q)) = SumBy(Calls(q), legacy)
  BY <1>3 DEF LegacyProjects
<1>5. Projects(byProject) = SumBy(byProject, part)
  BY <1>2 DEF Projects, SumPart
<1>6. IsOfCalls(TRUE, q, SumBy(Calls(q), legacy), legacy)
  BY SumOfCalls
<1>7. ASSUME NEW r \in D PROVE legacy[r] = part[ProjectOfCall(q)[r]]
  <2> DEFINE k == ProjectOfCall(q)[r]
  <2>1. k \in K
    BY DEF KeysOf
  <2>2. k = <<Day(r), LabelOf(q, r), NormalizeModel(r.model)>>
    BY DEF ProjectOfCall
  <2>3. LabelOf(q, r) = LegacyProject(r)
    BY LabelsAreLegacy
  <2> HIDE DEF K, k
  <2>4. part[k] = k[2]
    BY <2>1
  <2> QED
    BY <2>2, <2>3, <2>4 DEF k
<1> HIDE DEF part, legacy, byProject
<1>8. IsOfCalls(TRUE, q, SumBy(byProject, part), legacy)
  BY <1>1, <1>7, SumIsOfCalls
<1> QED
  BY <1>4, <1>5, <1>6, <1>8, TablesOfTheSame DEF byProject

LEMMA LegacyShowsProjectsLemma == StatisticsInv => LegacyShowsProjects
<1> SUFFICES ASSUME StatisticsInv, NEW q \in Queries
             PROVE  LET cwds   == {workspaces[r.session] : r \in QueryRecords(q)}
                        merged == \E cwd \in cwds :
                                      /\ IsCodespacesWorkspacePath(cwd)
                                      /\ LocalProjects(cwds, cwd.base) # {}
                    IN  ~merged /\ (\A r \in QueryRecords(q) : Sound(r)) =>
                            LegacyProjects(Calls(q)) = Projects(ProjectDaily(q))
  BY DEF LegacyShowsProjects
<1>1. ~IsMerged(q) /\ (\A r \in QueryRecords(q) : Sound(r)) =>
          LegacyProjects(Calls(q)) = Projects(ProjectDaily(q))
  BY LegacyIsProjects
<1> QED
  BY <1>1 DEF IsMerged, WorkspacesOf

-----------------------------------------------------------------------------
(* Daily spend *)

LEMMA PartOfAWeek ==
    ASSUME NEW b \in Int, NEW days, days \subseteq b - 6 .. b, b \in days
    PROVE  IsFiniteSet(days) /\ Cardinality(days) \in 1..7
<1> DEFINE week == b - 6 .. b
<1>1. IsFiniteSet(week) /\ Cardinality(week) = 7
  BY FS_Interval
<1> HIDE DEF week
<1>2. days \in SUBSET week
  BY DEF week
<1>3. IsFiniteSet(days) /\ Cardinality(days) <= 7
  BY <1>1, <1>2, FS_Subset
<1>4. Cardinality(days) \in Nat
  BY <1>3, FS_CardinalityType
<1>5. Cardinality(days) # 0
  BY <1>3, FS_EmptySet
<1> QED
  BY <1>3, <1>4, <1>5

LEMMA SpendDaysAreAWeek ==
    ASSUME NEW range \in {<<>>} \cup {<<Today - 2, Today>>, <<Today - 1, Today - 1>>}
    PROVE  IsFiniteSet(SpendDays(range)) /\ Cardinality(SpendDays(range)) \in 1..7
<1>0. Today \in Int
  BY StatisticsAssumption
<1>1. CASE range = <<>>
  <2>1. SpendDays(range) \subseteq Today - 6 .. Today /\ Today \in SpendDays(range)
    BY <1>0, <1>1 DEF SpendDays
  <2> QED
    BY <1>0, <2>1, PartOfAWeek
<1>2. CASE range # <<>>
  <2>1. range[2] \in Int /\ range[1] <= range[2]
    BY <1>0, <1>2
  <2>2. SpendDays(range) \subseteq range[2] - 6 .. range[2] /\ range[2] \in SpendDays(range)
    BY <1>2, <2>1 DEF SpendDays
  <2> QED
    BY <2>1, <2>2, PartOfAWeek
<1> QED
  BY <1>1, <1>2

(* A sum over days is the last of the sums over more and more of them. *)
AddsUp(total, trend, f, days) ==
    /\ total[{}] = 0
    /\ \A s \in SUBSET days : \A d \in s : total[s] = GrandTotal(trend[d])[f] + total[s \ {d}]

LEMMA PointsAddUp ==
    ASSUME NEW days, IsFiniteSet(days), NEW trend, NEW f, NEW total, AddsUp(total, trend, f, days)
    PROVE  MapThenSumSet(LAMBDA d : GrandTotal(trend[d])[f], days) = total[days]
<1> USE DEF AddsUp
<1> DEFINE Body(iter) == [s \in SUBSET days |->
               IF s = {} THEN 0
               ELSE LET d == CHOOSE y \in s : TRUE IN GrandTotal(trend[d])[f] + iter[s \ {d}]]
           sum == CHOOSE iter : iter = Body(iter)
           g == [s \in SUBSET days |-> total[s]]
<1>1. MapThenSumSet(LAMBDA d : GrandTotal(trend[d])[f], days) = sum[days]
  BY DEF MapThenSumSet, MapThenFoldSet
<1>2. ASSUME NEW s \in SUBSET days, s # {}
      PROVE  /\ Chosen(s) \in s /\ s \ {Chosen(s)} \in SUBSET days /\ s \ {Chosen(s)} # s
             /\ g[s] = GrandTotal(trend[Chosen(s)])[f] + g[s \ {Chosen(s)}]
  BY <1>2, ChosenIsMember
<1>3. g = Body(g)
  <2>1. \A s \in SUBSET days : g[s] = Body(g)[s]
    BY <1>2 DEF Chosen
  <2> QED
    BY <2>1
<1>4. sum = Body(sum)
  <2> HIDE DEF Body
  <2> QED
    BY <1>3
<1> HIDE DEF sum
<1>5. ASSUME NEW s \in SUBSET days
      PROVE  sum[s] = IF s = {} THEN 0
                      ELSE GrandTotal(trend[Chosen(s)])[f] + sum[s \ {Chosen(s)}]
  <2>1. sum[s] = Body(sum)[s]
    BY <1>4
  <2> QED
    BY <2>1 DEF Chosen
<1>6. g[{}] = 0
  OBVIOUS
<1> HIDE DEF g
<1> DEFINE T == {s \in SUBSET days : sum[s] = g[s]}
<1>7. ASSUME NEW s \in SUBSET days, \A u \in SUBSET s : u # s => u \in T
      PROVE  s \in T
  <2>1. CASE s = {}
    BY <1>5, <1>6, <2>1
  <2>2. CASE s # {}
    BY <1>2, <1>5, <1>7, <2>2
  <2> QED
    BY <2>1, <2>2
<1> HIDE DEF T
<1>8. SUBSET days \subseteq T
  BY <1>7, SubsetInduction
<1> QED
  BY <1>1, <1>8 DEF T, g

KeysOn(K, days) == {k \in K : k[1] \in days}

LEMMA RollingTotal ==
    ASSUME NEW K, IsFiniteSet(K), NEW table \in Tables(K), NEW days
    PROVE  /\ GrandTotal(Rolling(table, days)) = TotalOf(table, KeysOn(K, days))
           /\ DOMAIN Rolling(table, days) = {} <=> KeysOn(K, days) = {}
<1> DEFINE s == KeysOn(K, days)
           part == Restrict(table, s)
           key == [k \in s |-> k[2]]
<1>1. s \in SUBSET K /\ DOMAIN table = K
  BY TableParts DEF KeysOn
<1>2. OnDays(table, days) = part
  BY <1>1 DEF OnDays, KeysOn
<1>3. IsFiniteSet(s)
  BY <1>1, FS_Subset
<1>4. part \in Tables(s)
  BY <1>1, TableParts
<1>5. DOMAIN part = s
  BY <1>4, TableParts
<1>6. Rolling(table, days) = SumBy(part, key)
  BY <1>2, <1>5 DEF Rolling, SumPart
<1> HIDE DEF s, part, key
<1>7. SumBy(part, key) \in Tables(KeysOf(key, s)) /\ GrandTotal(SumBy(part, key)) = GrandTotal(part)
  BY <1>3, <1>4, SumByTotal
<1>8. DOMAIN SumBy(part, key) = KeysOf(key, s)
  BY <1>7, TableParts
<1>9. KeysOf(key, s) = {} <=> s = {}
  BY DEF KeysOf
<1> QED
  BY <1>6, <1>7, <1>8, <1>9 DEF s, part, TotalOf

SpendFields == {"prompt", "completion", "premiumCost", "cost"}

LEMMA SpendFieldsMerge ==
    ASSUME NEW f \in SpendFields
    PROVE  /\ NewStats[f] = 0
           /\ \A s \in Stats : s[f] \in Nat
           /\ \A s, t \in Stats : MergeStats(s, t)[f] = s[f] + t[f]
<1>1. f = "prompt" \/ f = "completion" \/ f = "premiumCost" \/ f = "cost"
  BY DEF SpendFields
<1> QED
  BY <1>1 DEF NewStats, Stats, MergeStats

LEMMA TrendAddsUp ==
    ASSUME NEW K, IsFiniteSet(K), NEW table \in Tables(K), NEW days, IsFiniteSet(days),
           NEW f \in SpendFields
    PROVE  MapThenSumSet(LAMBDA d : GrandTotal(Trend(table, days)[d])[f], days)
               = GrandTotal(Rolling(table, days))[f]
<1> DEFINE trend == Trend(table, days)
           P(s) == TotalOf(table, KeysOn(K, s))
           total == [s \in SUBSET days |-> P(s)[f]]
<1>1. \A s : KeysOn(K, s) \in SUBSET K
  BY DEF KeysOn
<1>2. \A s : P(s) \in Stats
  BY <1>1, TotalOfParts
<1>3. total[{}] = 0
  <2>1. KeysOn(K, {}) = {}
    BY DEF KeysOn
  <2>2. P({}) = NewStats
    BY <2>1, TotalOfParts
  <2> QED
    BY <2>2, SpendFieldsMerge
<1>4. ASSUME NEW s \in SUBSET days, NEW d \in s
      PROVE  total[s] = GrandTotal(trend[d])[f] + total[s \ {d}]
  <2> DEFINE one == {d}
             rest == s \ one
  <2>1. KeysOn(K, s) = KeysOn(K, rest) \cup KeysOn(K, one)
        /\ KeysOn(K, rest) \cap KeysOn(K, one) = {}
    BY DEF KeysOn
  <2>2. GrandTotal(trend[d]) = P(one)
    <3>1. trend[d] = Rolling(table, one)
      BY DEF Trend
    <3> QED
      BY <3>1, RollingTotal
  <2>3. total[s] = P(s)[f] /\ total[rest] = P(rest)[f]
    OBVIOUS
  <2> HIDE DEF one, rest, total, trend
  <2>4. P(s) = MergeStats(P(rest), P(one))
    BY <1>1, <2>1, TotalSplits
  <2>5. P(rest) \in Stats /\ P(one) \in Stats
    BY <1>2
  <2> HIDE DEF P
  <2>6. P(s)[f] = P(rest)[f] + P(one)[f] /\ P(rest)[f] \in Nat /\ P(one)[f] \in Nat
    BY <2>4, <2>5, SpendFieldsMerge
  <2> QED
    BY <2>2, <2>3, <2>6 DEF rest, one
<1>5. total[days] = GrandTotal(Rolling(table, days))[f]
  <2>1. total[days] = P(days)[f]
    OBVIOUS
  <2> QED
    BY <2>1, RollingTotal
<1> HIDE DEF total
<1>6. AddsUp(total, trend, f, days)
  BY <1>3, <1>4 DEF AddsUp
<1>7. AddsUp(total, Trend(table, days), f, days)
  BY <1>6
<1>8. MapThenSumSet(LAMBDA d : GrandTotal(Trend(table, days)[d])[f], days) = total[days]
  <2> HIDE DEF trend
  <2> QED
    BY <1>7, PointsAddUp
<1> QED
  BY <1>5, <1>8

(* What a table of the calls shows of some days is what they were. *)
CallsOn(q, days) == {r \in QueryRecords(q) : Day(r) \in days}
KeyedByDay(q, key) == \A r \in QueryRecords(q) : key[r][1] = Day(r)

LEMMA DaysOfTable ==
    ASSUME StatisticsInv, NEW q, NEW whole \in BOOLEAN, NEW table, NEW key,
           IsOfCalls(whole, q, table, key), KeyedByDay(q, key), NEW days
    PROVE  /\ GrandTotal(Rolling(table, days)) \in Stats
           /\ View(whole)[GrandTotal(Rolling(table, days))]
                  = View(whole)[TotalOf(Calls(q), CallsOn(q, days))]
           /\ DOMAIN Rolling(table, days) = {} <=> CallsOn(q, days) = {}
<1> USE DEF KeyedByDay
<1> DEFINE D == QueryRecords(q)
           K == KeysOf(key, D)
           L == KeysOn(K, days)
           some == CallsOn(q, days)
<1>1. IsFiniteSet(K)
  BY CallsType, GroupsType
<1>2. table \in Tables(K)
  BY DEF IsOfCalls
<1>3. L \in SUBSET K
  BY DEF KeysOn
<1>4. {r \in D : key[r] \in L} = some
  BY DEF KeysOn, KeysOf, CallsOn
<1>5. L = {} <=> some = {}
  BY DEF KeysOn, KeysOf, CallsOn
<1>6. View(whole)[TotalOf(table, L)] = View(whole)[TotalOf(Calls(q), {r \in D : key[r] \in L})]
  BY <1>3, TotalIsOfCalls
<1> HIDE DEF D, K, L, some
<1>7. TotalOf(table, L) \in Stats
  BY <1>1, <1>2, <1>3, TotalOfParts
<1>8. /\ GrandTotal(Rolling(table, days)) = TotalOf(table, L)
      /\ DOMAIN Rolling(table, days) = {} <=> L = {}
  BY <1>1, <1>2, RollingTotal DEF L
<1> QED
  BY <1>4, <1>5, <1>6, <1>7, <1>8 DEF some, D

LEMMA DailyProjectsIsOfCalls ==
    ASSUME StatisticsInv, NEW q
    PROVE  LET key == [r \in QueryRecords(q) |-> <<Day(r), LabelOf(q, r)>>]
           IN  IsOfCalls(FALSE, q, DailyProjects(ProjectDaily(q)), key)
<1> DEFINE D == QueryRecords(q)
           key == [r \in D |-> <<Day(r), LabelOf(q, r)>>]
           K == KeysOf(ProjectOfCall(q), D)
           pair == [k \in K |-> <<k[1], k[2]>>]
           byProject == ProjectDaily(q)
<1>1. IsOfCalls(FALSE, q, byProject, ProjectOfCall(q))
  BY ProjectDailyIsOfCalls DEF Fits
<1>2. DOMAIN byProject = K
  BY <1>1, TableParts DEF IsOfCalls
<1>3. DailyProjects(byProject) = SumBy(byProject, pair)
  BY <1>2 DEF DailyProjects
<1>4. ASSUME NEW r \in D PROVE key[r] = pair[ProjectOfCall(q)[r]]
  <2> DEFINE k == ProjectOfCall(q)[r]
             l == LabelOf(q, r)
  <2>1. k \in K
    BY DEF KeysOf
  <2>2. key[r] = <<Day(r), l>>
    OBVIOUS
  <2> HIDE DEF K, pair, key, byProject
  <2>3. k = <<Day(r), l, NormalizeModel(r.model)>>
    BY DEF ProjectOfCall
  <2> HIDE DEF k, l
  <2>4. pair[k] = <<k[1], k[2]>>
    BY <2>1 DEF pair
  <2> QED
    BY <2>2, <2>3, <2>4 DEF k
<1> HIDE DEF pair, key, byProject
<1>5. IsOfCalls(FALSE, q, SumBy(byProject, pair), key)
  BY <1>1, <1>4, SumIsOfCalls
<1> QED
  BY <1>3, <1>5 DEF key, byProject

LEMMA SpendAgreesLemma == StatisticsInv => SpendAgrees
<1> SUFFICES ASSUME StatisticsInv, NEW q \in Queries,
                    NEW range \in {<<>>} \cup {<<Today - 2, Today>>, <<Today - 1, Today - 1>>}
             PROVE  LET days     == SpendDays(range)
                        daily    == Daily(q)
                        models   == Rolling(daily, days)
                        projects == Rolling(DailyProjects(ProjectDaily(q)), days)
                        trend    == Trend(daily, days)
                        Points(f) == MapThenSumSet(LAMBDA d : GrandTotal(trend[d])[f], days)
                    IN  /\ Cardinality(days) \in 1..7
                        /\ \A f \in {"prompt", "completion", "premiumCost", "cost"} :
                               /\ Points(f) = GrandTotal(models)[f]
                               /\ f # "cost" => Points(f) = GrandTotal(projects)[f]
                        /\ DOMAIN projects = {} <=> DOMAIN models = {}
  BY DEF SpendAgrees
<1> DEFINE days     == SpendDays(range)
           daily    == Daily(q)
           byDay    == DailyProjects(ProjectDaily(q))
           models   == Rolling(daily, days)
           projects == Rolling(byDay, days)
           trend    == Trend(daily, days)
           Points(f) == MapThenSumSet(LAMBDA d : GrandTotal(trend[d])[f], days)
           pairs    == [r \in QueryRecords(q) |-> <<Day(r), LabelOf(q, r)>>]
<1>1. IsFiniteSet(days) /\ Cardinality(days) \in 1..7
  BY SpendDaysAreAWeek
<1>2. IsOfCalls(FALSE, q, daily, DayOfCall(q)) /\ IsOfCalls(FALSE, q, byDay, pairs)
  BY DailyIsOfCalls, DailyProjectsIsOfCalls DEF Fits
<1>3. KeyedByDay(q, DayOfCall(q)) /\ KeyedByDay(q, pairs)
  BY DEF DayOfCall, KeyedByDay
<1>4. ASSUME NEW f \in SpendFields PROVE Points(f) = GrandTotal(models)[f]
  <2> DEFINE K == KeysOf(DayOfCall(q), QueryRecords(q))
  <2>1. IsFiniteSet(K)
    BY CallsType, GroupsType
  <2>2. daily \in Tables(K)
    BY <1>2 DEF IsOfCalls
  <2> HIDE DEF K, days, daily
  <2>3. MapThenSumSet(LAMBDA d : GrandTotal(Trend(daily, days)[d])[f], days)
            = GrandTotal(Rolling(daily, days))[f]
    BY <1>1, <2>1, <2>2, TrendAddsUp
  <2> QED
    BY <2>3
<1> HIDE DEF days, daily, byDay, pairs, Points
<1>5. /\ GrandTotal(models) \in Stats /\ GrandTotal(projects) \in Stats
      /\ View(FALSE)[GrandTotal(models)] = View(FALSE)[GrandTotal(projects)]
      /\ DOMAIN projects = {} <=> DOMAIN models = {}
  <2>1. /\ GrandTotal(models) \in Stats
        /\ View(FALSE)[GrandTotal(models)] = View(FALSE)[TotalOf(Calls(q), CallsOn(q, days))]
        /\ DOMAIN models = {} <=> CallsOn(q, days) = {}
    BY <1>2, <1>3, DaysOfTable
  <2>2. /\ GrandTotal(projects) \in Stats
        /\ View(FALSE)[GrandTotal(projects)] = View(FALSE)[TotalOf(Calls(q), CallsOn(q, days))]
        /\ DOMAIN projects = {} <=> CallsOn(q, days) = {}
    BY <1>2, <1>3, DaysOfTable
  <2> QED
    BY <2>1, <2>2
<1> HIDE DEF models, projects
<1>6. \A f \in LinearFields : GrandTotal(models)[f] = GrandTotal(projects)[f]
  BY <1>5, SameFields
<1>7. ASSUME NEW f \in {"prompt", "completion", "premiumCost", "cost"}
      PROVE  /\ Points(f) = GrandTotal(models)[f]
             /\ f # "cost" => Points(f) = GrandTotal(projects)[f]
  <2>1. f \in SpendFields /\ (f # "cost" => f \in LinearFields)
    BY DEF SpendFields, LinearFields, CountFields
  <2> QED
    BY <1>4, <1>6, <2>1
<1>8. /\ Cardinality(days) \in 1..7
      /\ \A f \in {"prompt", "completion", "premiumCost", "cost"} :
             /\ Points(f) = GrandTotal(models)[f]
             /\ f # "cost" => Points(f) = GrandTotal(projects)[f]
      /\ DOMAIN projects = {} <=> DOMAIN models = {}
  BY <1>1, <1>5, <1>7
<1> QED
  BY <1>8 DEF days, daily, byDay, models, projects, Points

(* CostsAgree: the costs add up along every path, the command line's       *)
(* projects are the dashboard's, and the daily spend shows the same sums   *)
(* in its trends and its rolling totals.                                   *)
THEOREM CostsAlwaysAgree == StatisticsSpec => []CostsAgree
<1>1. StatisticsInv => CostsAgree
  BY CostsAddUpLemma, LegacyShowsProjectsLemma, SpendAgreesLemma DEF CostsAgree
<1> QED
  BY <1>1, StatisticsInvariant, PTL
=============================================================================
