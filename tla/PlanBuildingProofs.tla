------------------------- MODULE PlanBuildingProofs -------------------------
(***************************************************************************)
(* Plan building: that the greedy assignment and the balance step keep     *)
(* every day within its cap and every stop in one day, and report a class  *)
(* as short only when its stops do not fit, for any reps, days, stops,     *)
(* homes, caps and targets; and that the timetable of a day takes the      *)
(* lunch break once, where it was planned, and counts the border legs      *)
(* apart, for any stops, matrices, estimates and rules. (The stops of a    *)
(* day are numbered in the order of the visit, which any matrix allows.)   *)
(* And that the solver of a route keeps every stop, once, hands over none  *)
(* dearer than nearest neighbour and only swaps stops where it pays off,   *)
(* for any matrix, seeds, bounds of its passes and deadlines.              *)
(***************************************************************************)
EXTENDS PlanAssignment, DayTimetable, RouteSolver, FiniteInduction, SequenceTheorems, TLAPS

-----------------------------------------------------------------------------
(* Minutes between points.                                                 *)

LEMMA MinutesType ==
  ASSUME NEW a \in Int, NEW b \in Int
  PROVE  Minutes(a, b) \in Nat
  BY DEF Minutes, Dist

\* Rounded up, a way by another point is no shorter than the direct one.
LEMMA MinutesTriangle ==
  ASSUME NEW a \in Int, NEW b \in Int, NEW c \in Int
  PROVE  Minutes(a, c) <= Minutes(a, b) + Minutes(b, c)
  BY DEF Minutes, Dist

(* What a request holds.                                                   *)
LEMMA Points ==
  ASSUME in \in AssignmentInputs
  PROVE  /\ \A c \in Stops : At(c) \in Int /\ At(c) # NoPoint
         /\ \A r \in Reps : Home(r) # NoPoint => Home(r) \in Int
         /\ \A r \in Reps : in.depot[r] # NoPoint => in.depot[r] \in Int
         /\ \A r \in Reps : in.cap[r] \in Nat /\ in.travelCap[r] \in Nat
  BY AssignRequests DEF At, Home

-----------------------------------------------------------------------------
(* The cells are those of the days, the reps and the ladder.               *)

LEMMA MultipleGrows ==
  ASSUME NEW a \in Nat, NEW b \in Nat, NEW k \in Nat, a <= b
  PROVE  a * k <= b * k
  BY SMTT(20)

LEMMA QuotientBound ==
  ASSUME NEW k \in Nat \ {0}, NEW m \in Nat, NEW n \in Nat, n < m * k
  PROVE  n \div k \in 0..(m - 1)
<1> DEFINE q == n \div k
<1>1. q \in Nat /\ q * k <= n
  BY SMTT(20)
<1>2. CASE q >= m
  <2>1. m * k <= q * k
    BY <1>1, <1>2, MultipleGrows
  <2> HIDE DEF q
  <2>2. m * k \in Int /\ q * k \in Int
    BY <1>1
  <2>3. QED BY <2>1, <2>2, <1>1
<1>3. QED BY <1>1, <1>2

LEMMA RemainderBound ==
  ASSUME NEW k \in Nat \ {0}, NEW n \in Nat
  PROVE  n % k \in 0..(k - 1)
  BY SMTT(20)

LEMMA CellTypes ==
  ASSUME NEW n \in Cells
  PROVE  DayOf(n) \in PlanDays /\ RepOf(n) \in Reps /\ RungOf(n) \in Range(Ladder)
<1> DEFINE m == Cardinality(PlanDays)
           k == Cardinality(Reps)
           x == n - 1
<1>1. m \in Nat /\ k \in Nat \ {0}
  BY AssignSizes, FS_CardinalityType, FS_EmptySet
<1>2. Len(Ladder) = 7 /\ DOMAIN Ladder = 1..7
  BY DEF Ladder
<1>3. x \in Nat /\ x < m * (k * 7) /\ k * 7 \in Nat \ {0}
  <2>1. n \in 1..(m * k * 7)
    BY <1>2 DEF Cells
  <2>2. m * k * 7 = m * (k * 7)
    BY <1>1, SMTT(20)
  <2>3. m * (k * 7) \in Int /\ k * 7 \in Nat \ {0}
    BY <1>1
  <2> HIDE DEF m, k
  <2>4. QED BY <2>1, <2>2, <2>3
<1>4. DayOf(n) \in PlanDays
  <2> HIDE DEF m, x
  <2>1. x \div (k * 7) \in 0..(m - 1)
    BY <1>1, <1>3, QuotientBound
  <2>2. DayOf(n) = (x \div (k * 7)) + 1
    BY <1>2 DEF DayOf, x
  <2>3. PlanDays = 1..m
    BY AssignSizes DEF m
  <2>4. QED BY <2>1, <2>2, <2>3, <1>1
<1>5. RepOf(n) \in Reps
  <2> HIDE DEF k, x
  <2>1. x \div 7 \in Nat
    BY <1>3
  <2>2. (x \div 7) % k \in 0..(k - 1)
    BY <1>1, <2>1, RemainderBound
  <2>3. RepOf(n) = ((x \div 7) % k) + 1
    BY <1>2 DEF RepOf, x, k
  <2>4. Reps = 1..k
    BY AssignSizes DEF k
  <2>5. QED BY <2>2, <2>3, <2>4, <1>1
<1>6. RungOf(n) \in Range(Ladder)
  <2>1. (x % 7) + 1 \in 1..7
    BY <1>3
  <2>2. RungOf(n) = Ladder[(x % 7) + 1]
    BY <1>2 DEF RungOf
  <2> HIDE DEF x
  <2>3. QED BY <2>1, <2>2, <1>2 DEF Range
<1>7. QED BY <1>4, <1>5, <1>6

LEMMA NextCell ==
  ASSUME NEW n \in Nat
  PROVE  CellAfter(n) \in Cells \cup {Done}
<1> DEFINE S == {m \in Cells : m > n /\ Demand(m) > 0} \cup {Done}
<1>1. Cells \in SUBSET Int /\ IsFiniteSet(Cells)
  <2>1. Cardinality(PlanDays) * Cardinality(Reps) * Len(Ladder) \in Nat
    <3>1. Cardinality(PlanDays) \in Nat /\ Cardinality(Reps) \in Nat /\ Len(Ladder) = 7
      BY AssignSizes, FS_CardinalityType DEF Ladder
    <3>2. QED BY <3>1
  <2>2. QED BY <2>1, FS_Interval DEF Cells
<1>2. Done \in Int
  BY <1>1, FS_CardinalityType DEF Done
<1>3. S \in SUBSET Int /\ IsFiniteSet(S) /\ S # {}
  <2>1. IsFiniteSet({m \in Cells : m > n /\ Demand(m) > 0})
    BY <1>1, FS_Subset
  <2>2. IsFiniteSet(S)
    BY <2>1, FS_AddElement
  <2>3. QED BY <1>1, <1>2, <2>2
<1>4. PICK m \in S : \A o \in S : m <= o
  <2> HIDE DEF S
  <2>1. QED BY <1>3, MinExists
<1>5. Min(S) \in S
  <2> HIDE DEF S
  <2>1. QED BY <1>4, Zenon DEF Min
<1>6. QED BY <1>5 DEF CellAfter

-----------------------------------------------------------------------------
(* What estimateDayMinutes adds up before the way back.                    *)

HopSum(r, s) == SumFunctionOnSet([i \in DOMAIN s |-> Hop(r, s, i) + Service], DOMAIN s)

LEMMA HopType ==
  ASSUME in \in AssignmentInputs, NEW r \in Reps, NEW s \in Seq(Stops), NEW i \in DOMAIN s
  PROVE  Hop(r, s, i) + Service \in Nat
<1>1. s[i] \in Stops /\ i \in 1..Len(s)
  OBVIOUS
<1>2. At(s[i]) \in Int /\ Service \in Nat
  BY <1>1, Points, AssignSizes
<1>3. CASE i > 1
  <2>1. s[i - 1] \in Stops
    BY <1>1, <1>3
  <2>2. Minutes(At(s[i - 1]), At(s[i])) \in Nat
    BY <2>1, <1>2, Points, MinutesType
  <2>3. QED BY <2>2, <1>2, <1>3 DEF Hop
<1>4. CASE ~(i > 1)
  <2>1. i = 1
    BY <1>1, <1>4
  <2>2. Home(r) # NoPoint => Minutes(Home(r), At(s[1])) \in Nat
    BY <2>1, <1>2, Points, MinutesType
  <2>3. QED BY <2>1, <2>2, <1>2 DEF Hop
<1>5. QED BY <1>3, <1>4

LEMMA HopSumType ==
  ASSUME in \in AssignmentInputs, NEW r \in Reps, NEW s \in Seq(Stops)
  PROVE  HopSum(r, s) \in Nat
<1> DEFINE f == [i \in DOMAIN s |-> Hop(r, s, i) + Service]
<1>1. \A i \in DOMAIN s : f[i] \in Nat
  BY HopType
<1>2. IsFiniteSet(DOMAIN s)
  BY FS_Interval
<1> HIDE DEF f
<1>3. SumFunctionOnSet(f, DOMAIN s) \in Nat
  BY <1>1, <1>2, SumIsNat
<1>4. QED BY <1>3 DEF HopSum, f

LEMMA HopSumEmpty ==
  ASSUME NEW r
  PROVE  HopSum(r, <<>>) = 0
<1>1. DOMAIN <<>> = {}
  OBVIOUS
<1>2. QED BY <1>1, SumOfNone DEF HopSum

\* A stop at the end adds its hop and its service time.
LEMMA HopSumAppend ==
  ASSUME in \in AssignmentInputs, NEW r \in Reps, NEW s \in Seq(Stops), NEW c \in Stops
  PROVE  HopSum(r, Append(s, c)) = HopSum(r, s) + Hop(r, Append(s, c), Len(s) + 1) + Service
<1> DEFINE t == Append(s, c)
           f == [i \in DOMAIN t |-> Hop(r, t, i) + Service]
           g == [i \in DOMAIN s |-> Hop(r, s, i) + Service]
           n == Len(s) + 1
<1>1. /\ t \in Seq(Stops) /\ Len(t) = n /\ DOMAIN t = DOMAIN s \cup {n}
      /\ n \notin DOMAIN s /\ \A i \in DOMAIN s : t[i] = s[i]
  OBVIOUS
<1>2. \A i \in DOMAIN t : f[i] \in Int
  <2>1. \A i \in DOMAIN t : Hop(r, t, i) + Service \in Nat
    <3> HIDE DEF t
    <3>1. QED BY <1>1, HopType
  <2>2. QED BY <2>1
<1>3. \A i \in DOMAIN s : f[i] = g[i]
  <2> SUFFICES ASSUME NEW i \in DOMAIN s PROVE Hop(r, t, i) = Hop(r, s, i)
    BY <1>1
  <2>1. i \in 1..Len(s) /\ t[i] = s[i] /\ (i > 1 => t[i - 1] = s[i - 1]) /\ (i = 1 => t[1] = s[1])
    BY <1>1
  <2> HIDE DEF t
  <2>2. QED BY <2>1 DEF Hop
<1>4. IsFiniteSet(DOMAIN s)
  BY FS_Interval
<1>5. SumFunctionOnSet(f, DOMAIN s \cup {n}) = f[n] + SumFunctionOnSet(f, DOMAIN s)
  <2> HIDE DEF f, t, n
  <2>1. QED BY <1>1, <1>2, <1>4, SumWith
<1>6. SumFunctionOnSet(f, DOMAIN s) = SumFunctionOnSet(g, DOMAIN s)
  <2> HIDE DEF f, g
  <2>1. QED BY <1>3, <1>4, SumOfSame
<1>7. HopSum(r, t) = SumFunctionOnSet(f, DOMAIN s \cup {n}) /\ HopSum(r, s) = SumFunctionOnSet(g, DOMAIN s)
  <2> HIDE DEF t, n
  <2>1. QED BY <1>1 DEF HopSum
<1>8. f[n] = Hop(r, t, n) + Service
  <2> HIDE DEF t, n
  <2>1. QED BY <1>1
<1>9. HopSum(r, s) \in Nat /\ Hop(r, t, n) + Service \in Nat
  <2>1. HopSum(r, s) \in Nat
    BY HopSumType
  <2>2. n \in DOMAIN t
    OBVIOUS
  <2> HIDE DEF t, n
  <2>3. QED BY <2>1, <2>2, <1>1, HopType
<1>10. Hop(r, t, n) \in Int /\ Service \in Int
  <2>1. n \in 1..Len(t) /\ (n > 1 => t[n - 1] \in Stops) /\ t[n] \in Stops
    OBVIOUS
  <2> HIDE DEF t, n
  <2>2. n > 1 => Minutes(At(t[n - 1]), At(t[n])) \in Nat
    BY <2>1, Points, MinutesType
  <2>3. n <= 1 => n = 1
    BY <2>1
  <2>4. n = 1 /\ Home(r) # NoPoint => Minutes(Home(r), At(t[1])) \in Nat
    BY <2>1, Points, MinutesType
  <2>5. Hop(r, t, n) \in Int
    BY <2>1, <2>2, <2>3, <2>4 DEF Hop
  <2>6. QED BY <2>5, AssignSizes
<1>11. QED
  <2> HIDE DEF t, f, g, n
  <2>1. HopSum(r, t) = HopSum(r, s) + Hop(r, t, n) + Service
    BY <1>5, <1>6, <1>7, <1>8, <1>9, <1>10
  <2>2. QED BY <2>1 DEF t, n

LEMMA LegTypes ==
  ASSUME in \in AssignmentInputs, NEW r \in Reps, NEW c \in Stops
  PROVE  LegBack(r, c) \in Nat
<1>1. Home(r) # NoPoint => Minutes(At(c), Home(r)) \in Nat
  BY Points, MinutesType
<1>2. QED BY <1>1 DEF LegBack

LEMMA EstimateType ==
  ASSUME in \in AssignmentInputs, NEW r \in Reps, NEW s \in Seq(Stops)
  PROVE  Estimate(r, s) \in Nat
<1>1. HopSum(r, s) \in Nat
  BY HopSumType
<1>2. s # <<>> => LegBack(r, s[Len(s)]) \in Nat
  BY LegTypes
<1>3. QED BY <1>1, <1>2 DEF Estimate, HopSum

\* A stop at the end costs no more than its hop, its service and its way back.
LEMMA EstimateAppend ==
  ASSUME in \in AssignmentInputs, NEW r \in Reps, NEW s \in Seq(Stops), NEW c \in Stops
  PROVE  Estimate(r, Append(s, c))
           <= HopSum(r, s) + Hop(r, Append(s, c), Len(s) + 1) + Service + LegBack(r, c)
<1> DEFINE t == Append(s, c)
<1>1. t \in Seq(Stops) /\ t # <<>> /\ t[Len(t)] = c
  OBVIOUS
<1>2. HopSum(r, t) = HopSum(r, s) + Hop(r, t, Len(s) + 1) + Service
  BY HopSumAppend
<1>3. HopSum(r, t) \in Nat /\ LegBack(r, c) \in Nat
  <2> HIDE DEF t
  <2>1. QED BY <1>1, HopSumType, LegTypes
<1> HIDE DEF t
<1>4. Estimate(r, t) \in {0, HopSum(r, t) + LegBack(r, c)}
  BY <1>1 DEF Estimate, HopSum
<1>5. Estimate(r, t) <= HopSum(r, t) + LegBack(r, c)
  BY <1>3, <1>4
<1>6. QED BY <1>2, <1>5 DEF t

\* Without its last stop a day does not take longer.
LEMMA EstimateFront ==
  ASSUME in \in AssignmentInputs, NEW r \in Reps, NEW s \in Seq(Stops), NEW c \in Stops
  PROVE  Estimate(r, s) <= Estimate(r, Append(s, c))
<1> DEFINE t == Append(s, c)
           n == Len(s) + 1
<1>1. t \in Seq(Stops) /\ t # <<>> /\ t[Len(t)] = c /\ n \in DOMAIN t
      /\ t[n] = c /\ (s # <<>> => n > 1 /\ t[n - 1] = s[Len(s)] /\ s[Len(s)] \in Stops)
  <2>1. t \in Seq(Stops) /\ Len(t) = n /\ t[n] = c /\ n \in DOMAIN t /\ t # <<>>
    OBVIOUS
  <2>2. s # <<>> => Len(s) \in DOMAIN s /\ s[Len(s)] \in Stops /\ Len(s) > 0
    OBVIOUS
  <2>3. \A i \in DOMAIN s : t[i] = s[i]
    OBVIOUS
  <2> HIDE DEF t
  <2>4. QED BY <2>1, <2>2, <2>3
<1>2. HopSum(r, t) = HopSum(r, s) + Hop(r, t, n) + Service
  BY HopSumAppend
<1> HIDE DEF t, n
<1>3. HopSum(r, s) \in Nat /\ Hop(r, t, n) + Service \in Nat /\ Estimate(r, t) \in Nat
  BY <1>1, HopSumType, HopType, EstimateType
<1>4. CASE s = <<>> \/ (Home(r) = NoPoint /\ ~Open(r))
  <2>1. Estimate(r, s) = 0
    BY <1>4 DEF Estimate
  <2>2. QED BY <2>1, <1>3 DEF t
<1>5. CASE ~(s = <<>> \/ (Home(r) = NoPoint /\ ~Open(r)))
  <2> DEFINE b == s[Len(s)]
  <2>1. Estimate(r, s) = HopSum(r, s) + LegBack(r, b)
    BY <1>5 DEF Estimate, HopSum
  <2>2. Estimate(r, t) = HopSum(r, t) + LegBack(r, c)
    BY <1>5, <1>1 DEF Estimate, HopSum
  <2>3. b \in Stops /\ Hop(r, t, n) = Minutes(At(b), At(c))
    BY <1>1, <1>5 DEF Hop
  <2> HIDE DEF b
  <2>4. LegBack(r, b) <= Minutes(At(b), At(c)) + LegBack(r, c)
    <3>1. At(b) \in Int /\ At(c) \in Int
      BY <2>3, Points
    <3>2. Minutes(At(b), At(c)) \in Nat
      BY <3>1, MinutesType
    <3>3. CASE Home(r) = NoPoint \/ Open(r)
      BY <3>2, <3>3 DEF LegBack
    <3>4. CASE ~(Home(r) = NoPoint \/ Open(r))
      <4>1. Home(r) \in Int
        BY <3>4, Points
      <4>2. QED BY <3>1, <3>4, <4>1, MinutesTriangle DEF LegBack
    <3>5. QED BY <3>3, <3>4
  <2>5. LegBack(r, b) \in Nat /\ LegBack(r, c) \in Nat
    BY <2>3, LegTypes
  <2>6. Hop(r, t, n) \in Nat /\ Service \in Nat
    BY <2>3, Points, MinutesType, AssignSizes
  <2>7. Estimate(r, s) <= Estimate(r, t)
    BY <2>1, <2>2, <2>3, <2>4, <2>5, <2>6, <1>2, <1>3
  <2>8. QED BY <2>7 DEF t
<1>6. QED BY <1>4, <1>5

-----------------------------------------------------------------------------
(* The invariant. Until a day is opened for balancing, what tryFit has     *)
(* added up covers the hops of the day, and what it has refused would      *)
(* still be refused; afterwards the balance step moves stops that are in   *)
(* the longest day, or in none.                                            *)

RequestTyped == in \in AssignmentInputs /\ AssignTypeOK

Greedy == bal = [pc |-> "day", day |-> 1]

UsedCovers ==
  \A r \in Reps, d \in PlanDays : HopSum(r, days[<<r, d>>]) <= used[<<r, d>>]

RefusedStay ==
  cell # Done => \A c \in tried \ Taken : ~Fits(RepOf(cell), DayOf(cell), c)

ShortRefused ==
  \A n \in Cells : short[n] > 0 =>
    \A c \in Bucket(RepOf(n), {RungOf(n)}) \ Taken : ~Fits(RepOf(n), DayOf(n), c)

MovesApart ==
  bal.pc = "move" =>
    /\ bal.long # bal.short /\ bal.day \in PlanDays /\ bal.queue \subseteq chosen
    /\ \A c \in bal.queue, k \in Reps \X PlanDays :
         c \in Range(days[k]) => k = <<bal.long, bal.day>>

BuildInv ==
  /\ RequestTyped
  /\ (cell # Done => Greedy)
  /\ (Greedy => UsedCovers /\ RefusedStay /\ ShortRefused)
  /\ DayFits /\ PlannedOnce /\ MovesApart

LEMMA AssignStart == AssignInit => BuildInv
<1> SUFFICES ASSUME AssignInit PROVE BuildInv
  OBVIOUS
<1> USE DEF AssignInit
<1>1. in \in AssignmentInputs
  OBVIOUS
<1>2. cell \in Cells \cup {Done}
  BY NextCell
<1>3. \A k \in Reps \X PlanDays : days[k] = <<>> /\ DOMAIN days[k] = {} /\ Range(days[k]) = {}
  BY DEF Range
<1>4. Taken = {}
  BY <1>3 DEF Taken
<1>5. cell # Done => Demand(cell) \in Nat
  BY <1>1, <1>2, CellTypes, AssignRequests DEF Demand
<1>6. RequestTyped
  <2>1. bal \in Balance
    BY DEF Balance
  <2>2. days \in [Reps \X PlanDays -> Seq(Stops)]
    OBVIOUS
  <2>3. placed \in Nat /\ (cell # Done => placed <= Demand(cell))
    BY <1>5
  <2>4. QED BY <1>1, <1>2, <1>4, <2>1, <2>2, <2>3 DEF RequestTyped, AssignTypeOK
<1>7. UsedCovers
  BY HopSumEmpty DEF UsedCovers
<1>8. RefusedStay /\ ShortRefused
  BY DEF RefusedStay, ShortRefused
<1>9. DayFits
  BY <1>1, Points DEF DayFits, Estimate
<1>10. PlannedOnce
  BY <1>3 DEF PlannedOnce
<1>11. Greedy /\ MovesApart
  BY DEF Greedy, MovesApart
<1>12. QED BY <1>6, <1>7, <1>8, <1>9, <1>10, <1>11 DEF BuildInv

-----------------------------------------------------------------------------
(* The request stays, so that a day which stays takes as long as before.   *)

LEMMA SameRequest ==
  ASSUME in' = in
  PROVE  /\ \A r, k : Estimate(r, days[k])' = Estimate(r, days'[k])
         /\ \A r, k : HopSum(r, days[k])' = HopSum(r, days'[k])
         /\ \A n : Demand(n)' = Demand(n)
         /\ \A r, S : Bucket(r, S)' = Bucket(r, S)
         /\ \A r, c : LegBack(r, c)' = LegBack(r, c)
  BY DEF Estimate, HopSum, Hop, LegBack, Home, Open, At, Minutes, Dist, Demand, Bucket

LEMMA SameDays ==
  ASSUME in' = in, days' = days, used' = used, travel' = travel
  PROVE  /\ Taken' = Taken
         /\ UsedCovers => UsedCovers'
         /\ DayFits => DayFits'
         /\ PlannedOnce => PlannedOnce'
         /\ \A r, d, c : Fits(r, d, c)' <=> Fits(r, d, c)
<1>1. Taken' = Taken
  BY DEF Taken
<1>2. UsedCovers => UsedCovers'
  BY SameRequest DEF UsedCovers
<1>3. DayFits => DayFits'
  BY SameRequest DEF DayFits
<1>4. PlannedOnce => PlannedOnce'
  BY DEF PlannedOnce
<1>5. \A r, d, c : Fits(r, d, c)' <=> Fits(r, d, c)
  BY DEF Fits, LegTo, LegBack, Prev, Home, Open, At, Minutes, Dist
<1>6. QED BY <1>1, <1>2, <1>3, <1>4, <1>5

LEMMA DemandType ==
  ASSUME in \in AssignmentInputs, NEW n \in Cells
  PROVE  Demand(n) \in Nat
  BY CellTypes, AssignRequests DEF Demand

LEMMA CloseStep ==
  ASSUME BuildInv, CloseCell
  PROVE  BuildInv'
<1> USE DEF CloseCell
<1>1. RequestTyped /\ Greedy /\ UsedCovers /\ RefusedStay /\ ShortRefused /\ cell \in Cells
      /\ DayFits /\ PlannedOnce
  BY DEF BuildInv, RequestTyped, AssignTypeOK
<1>2. in \in AssignmentInputs /\ placed \in Nat /\ placed <= Demand(cell) /\ Demand(cell) \in Nat
  BY <1>1, DemandType DEF RequestTyped, AssignTypeOK
<1>3. cell' \in Cells \cup {Done} /\ (cell' # Done => Demand(cell)' \in Nat)
  <2>1. cell \in Nat
    BY <1>1 DEF Cells
  <2>2. cell' \in Cells \cup {Done}
    BY <2>1, NextCell
  <2>3. cell' # Done => Demand(cell') \in Nat
    BY <1>2, <2>2, DemandType
  <2>4. Demand(cell)' = Demand(cell')
    <3>1. RepOf(cell)' = RepOf(cell') /\ RungOf(cell)' = RungOf(cell') /\ in' = in
      BY DEF RepOf, RungOf
    <3>2. QED BY <3>1, Zenon DEF Demand
  <2>5. QED BY <2>2, <2>3, <2>4
<1>4. short' \in [Cells -> Nat]
  BY <1>1, <1>2 DEF RequestTyped, AssignTypeOK
<1>5. RequestTyped'
  <2>1. Taken' = Taken
    BY SameDays
  <2>2. placed' = 0 /\ (cell' # Done => 0 <= Demand(cell)')
    BY <1>3
  <2>3. QED BY <1>1, <1>3, <1>4, <2>1, <2>2 DEF RequestTyped, AssignTypeOK
<1>6. RefusedStay'
  BY DEF RefusedStay
<1>7. ShortRefused'
  <2> SUFFICES ASSUME NEW n \in Cells, short'[n] > 0,
                      NEW c \in Bucket(RepOf(n), {RungOf(n)}) \ Taken
               PROVE  ~Fits(RepOf(n), DayOf(n), c)
    BY SameDays, SameRequest DEF ShortRefused
  <2>1. CASE n # cell
    BY <1>1, <2>1 DEF ShortRefused, RequestTyped, AssignTypeOK
  <2>2. CASE n = cell
    <3>1. placed # Demand(cell)
      BY <1>1, <1>2, <2>2 DEF RequestTyped, AssignTypeOK
    <3>2. Pool(cell) = {}
      BY <3>1 DEF Exhausted
    <3>3. c \in tried
      BY <2>2, <3>2 DEF Pool
    <3>4. QED BY <1>1, <2>2, <3>3 DEF RefusedStay
  <2>3. QED BY <2>1, <2>2
<1>8. Greedy' /\ MovesApart'
  BY <1>1 DEF Greedy, MovesApart
<1>9. QED
  BY <1>1, <1>5, <1>6, <1>7, <1>8, SameDays DEF BuildInv

-----------------------------------------------------------------------------
(* A stop is added to the end of a day.                                    *)

LEMMA LegToType ==
  ASSUME RequestTyped, NEW r \in Reps, NEW d \in PlanDays, NEW c \in Stops
  PROVE  /\ LegTo(r, d, c) \in Nat
         /\ Prev(r, d) # NoPoint => Prev(r, d) \in Int
<1>1. Prev(r, d) # NoPoint => Prev(r, d) \in Int
  <2>1. days[<<r, d>>] \in Seq(Stops) /\ in \in AssignmentInputs
    BY DEF RequestTyped, AssignTypeOK
  <2>2. days[<<r, d>>] # <<>> => days[<<r, d>>][Len(days[<<r, d>>])] \in Stops
    BY <2>1
  <2>3. QED BY <2>1, <2>2, Points DEF Prev
<1>2. QED BY <1>1, Points, MinutesType DEF LegTo, RequestTyped, AssignTypeOK

\* The hop that estimateDayMinutes counts is the leg that tryFit counted, or none.
LEMMA HopLeg ==
  ASSUME RequestTyped, NEW r \in Reps, NEW d \in PlanDays, NEW c \in Stops
  PROVE  Hop(r, Append(days[<<r, d>>], c), Len(days[<<r, d>>]) + 1) <= LegTo(r, d, c)
<1> DEFINE s == days[<<r, d>>]
           t == Append(s, c)
           n == Len(s) + 1
<1>1. s \in Seq(Stops) /\ in \in AssignmentInputs
  BY DEF RequestTyped, AssignTypeOK
<1>2. t[n] = c /\ n \in Nat /\ (s = <<>> => n = 1) /\ (s # <<>> => n > 1 /\ t[n - 1] = s[Len(s)] /\ s[Len(s)] \in Stops)
  <2> HIDE DEF s
  <2>1. Len(s) \in Nat /\ t[Len(s) + 1] = c /\ (s = <<>> => Len(s) = 0)
    BY <1>1
  <2>2. s # <<>> => Len(s) \in DOMAIN s /\ Len(s) > 0 /\ s[Len(s)] \in Stops
    BY <1>1
  <2>3. \A i \in DOMAIN s : t[i] = s[i]
    BY <1>1
  <2>4. QED BY <2>1, <2>2, <2>3
<1>3. LegTo(r, d, c) \in Nat
  BY LegToType
<1>4. CASE s # <<>>
  <2>1. Prev(r, d) = At(s[Len(s)]) /\ Prev(r, d) # NoPoint
    BY <1>1, <1>2, <1>4, Points DEF Prev
  <2> HIDE DEF s, t, n
  <2>2. Hop(r, t, n) = Minutes(At(s[Len(s)]), At(c))
    BY <1>2, <1>4 DEF Hop
  <2>3. Hop(r, t, n) = LegTo(r, d, c)
    BY <2>1, <2>2 DEF LegTo
  <2>4. QED BY <2>3, <1>3 DEF s, t, n
<1>5. CASE s = <<>>
  <2>1. Home(r) # NoPoint => Prev(r, d) = Home(r)
    BY <1>5 DEF Prev
  <2>2. n = 1 /\ t[1] = c
    BY <1>2, <1>5
  <2> HIDE DEF s, t, n
  <2>3. Hop(r, t, n) = IF Home(r) = NoPoint \/ Open(r) THEN 0 ELSE Minutes(Home(r), At(c))
    BY <2>2 DEF Hop
  <2>4. Hop(r, t, n) \in {0, LegTo(r, d, c)}
    BY <2>1, <2>3 DEF LegTo
  <2>5. Hop(r, t, n) <= LegTo(r, d, c)
    BY <2>4, <1>3
  <2>6. QED BY <2>5 DEF s, t, n
<1>6. QED BY <1>4, <1>5

\* What tryFit has accepted fits as estimateDayMinutes adds it up.
LEMMA FittingDay ==
  ASSUME RequestTyped, UsedCovers, NEW r \in Reps, NEW d \in PlanDays, NEW c \in Stops, Fits(r, d, c)
  PROVE  /\ HopSum(r, Append(days[<<r, d>>], c)) <= used[<<r, d>>] + LegTo(r, d, c) + Service
         /\ Estimate(r, Append(days[<<r, d>>], c)) <= in.cap[r]
<1> DEFINE s == days[<<r, d>>]
           t == Append(s, c)
           h == Hop(r, t, Len(s) + 1)
<1>1. s \in Seq(Stops) /\ t \in Seq(Stops) /\ in \in AssignmentInputs /\ used[<<r, d>>] \in Nat
  BY DEF RequestTyped, AssignTypeOK
<1>2. /\ HopSum(r, s) \in Nat /\ HopSum(r, s) <= used[<<r, d>>] /\ LegTo(r, d, c) \in Nat
      /\ HopSum(r, t) = HopSum(r, s) + h + Service /\ h <= LegTo(r, d, c)
      /\ Estimate(r, t) <= HopSum(r, s) + h + Service + LegBack(r, c)
  BY <1>1, HopSumType, HopSumAppend, HopLeg, EstimateAppend, LegToType DEF UsedCovers
<1>3. h \in Int /\ Service \in Nat /\ LegBack(r, c) \in Nat /\ in.cap[r] \in Nat
      /\ Estimate(r, t) \in Nat /\ HopSum(r, t) \in Nat
  <2>1. h + Service \in Nat
    <3>1. Len(s) + 1 \in DOMAIN t
      BY <1>1
    <3> HIDE DEF t, s
    <3>2. QED BY <1>1, <3>1, HopType
  <2>2. Estimate(r, t) \in Nat /\ HopSum(r, t) \in Nat /\ LegBack(r, c) \in Nat
    <3> HIDE DEF t
    <3>1. QED BY <1>1, EstimateType, HopSumType, LegTypes
  <2>3. h \in Int
    <3>1. CASE s = <<>>
      <4>1. h = IF Home(r) = NoPoint \/ Open(r) THEN 0 ELSE Minutes(Home(r), At(c))
        BY <3>1 DEF Hop
      <4>2. QED BY <4>1, <1>1, Points, MinutesType
    <3>2. CASE s # <<>>
      <4>1. Len(s) > 0 /\ Len(s) \in Nat /\ t[Len(s) + 1 - 1] \in Stops /\ t[Len(s) + 1] \in Stops
        BY <1>1, <3>2
      <4> HIDE DEF s, t
      <4>2. h = Minutes(At(t[Len(s) + 1 - 1]), At(t[Len(s) + 1]))
        BY <4>1 DEF Hop
      <4>3. At(t[Len(s) + 1 - 1]) \in Int /\ At(t[Len(s) + 1]) \in Int
        BY <4>1, <1>1, Points
      <4>4. Minutes(At(t[Len(s) + 1 - 1]), At(t[Len(s) + 1])) \in Nat
        BY <4>3, MinutesType
      <4>5. QED BY <4>2, <4>4
    <3>3. QED BY <3>1, <3>2
  <2>4. QED BY <1>1, <2>2, <2>3, Points, AssignSizes
<1>4. used[<<r, d>>] + LegTo(r, d, c) + Service + LegBack(r, c) <= in.cap[r]
  BY DEF Fits
<1> HIDE DEF h, t
<1>5. HopSum(r, t) <= used[<<r, d>>] + LegTo(r, d, c) + Service /\ Estimate(r, t) <= in.cap[r]
  <2> DEFINE u == used[<<r, d>>]  a == LegTo(r, d, c)  b == LegBack(r, c)  x == in.cap[r]
             p == HopSum(r, s)  q == HopSum(r, t)  e == Estimate(r, t)
  <2>1. /\ u \in Nat /\ a \in Nat /\ b \in Nat /\ x \in Nat /\ p \in Nat /\ q \in Nat /\ e \in Nat
        /\ h \in Int /\ Service \in Nat
    BY <1>1, <1>2, <1>3
  <2>2. /\ p <= u /\ q = p + h + Service /\ h <= a /\ e <= p + h + Service + b
        /\ u + a + Service + b <= x
    BY <1>2, <1>4
  <2> HIDE DEF u, a, b, x, p, q, e
  <2>3. q <= u + a + Service /\ e <= x
    BY <2>1, <2>2
  <2>4. QED BY <2>3 DEF u, a, x, q, e
<1>6. QED BY <1>5 DEF t

\* A stop that did not fit does not fit after another one either.
LEMMA RefusalsStay ==
  ASSUME RequestTyped, in' = in, NEW r \in Reps, NEW d \in PlanDays, NEW c \in Stops,
         days' = [days EXCEPT ![<<r, d>>] = Append(@, c)],
         used' = [used EXCEPT ![<<r, d>>] = @ + LegTo(r, d, c) + Service],
         travel' = [travel EXCEPT ![<<r, d>>] = @ + LegTo(r, d, c)],
         NEW q \in Reps, NEW e \in PlanDays, NEW o \in Stops, Fits(q, e, o)'
  PROVE  Fits(q, e, o)
<1>1. CASE <<q, e>> # <<r, d>>
  <2>1. days'[<<q, e>>] = days[<<q, e>>] /\ used'[<<q, e>>] = used[<<q, e>>] /\ travel'[<<q, e>>] = travel[<<q, e>>]
    BY <1>1 DEF RequestTyped, AssignTypeOK
  <2>2. QED BY <2>1 DEF Fits, LegTo, LegBack, Prev, Home, Open, At, Minutes, Dist
<1>2. CASE <<q, e>> = <<r, d>>
  <2> DEFINE K == <<r, d>>
  <2>1. q = r /\ e = d /\ K \in Reps \X PlanDays
    BY <1>2
  <2>2. /\ days'[K] = Append(days[K], c) /\ used'[K] = used[K] + LegTo(r, d, c) + Service
        /\ travel'[K] = travel[K] + LegTo(r, d, c) /\ days[K] \in Seq(Stops)
        /\ used[K] \in Nat /\ travel[K] \in Nat /\ in \in AssignmentInputs
    BY <2>1 DEF RequestTyped, AssignTypeOK
  <2>3. days'[K] # <<>> /\ days'[K][Len(days'[K])] = c
    <3> DEFINE s == days[K]
    <3> HIDE DEF s
    <3>1. s \in Seq(Stops) => Append(s, c) # <<>> /\ Append(s, c)[Len(Append(s, c))] = c
      OBVIOUS
    <3>2. QED BY <2>2, <3>1 DEF s
  <2>4. LegTo(r, d, o)' = Minutes(At(c), At(o))
    <3>1. At(c)' # NoPoint /\ At(c)' = At(c) /\ At(o)' = At(o)
      BY <2>2, Points DEF At
    <3>2. Prev(r, d)' = At(c)'
      BY <2>3 DEF Prev
    <3>3. QED BY <3>1, <3>2 DEF LegTo, Minutes, Dist
  <2>5. LegTo(r, d, o) <= LegTo(r, d, c) + Minutes(At(c), At(o))
    <3>1. At(c) \in Int /\ At(o) \in Int
      BY <2>2, Points
    <3>2. CASE Prev(r, d) = NoPoint
      <4>1. LegTo(r, d, o) = 0 /\ LegTo(r, d, c) = 0 /\ Minutes(At(c), At(o)) \in Nat
        BY <3>1, <3>2, MinutesType DEF LegTo
      <4>2. QED BY <4>1
    <3>3. CASE Prev(r, d) # NoPoint
      BY <3>1, <3>3, LegToType, MinutesTriangle DEF LegTo
    <3>4. QED BY <3>2, <3>3
  <2>6. /\ LegTo(r, d, o) \in Nat /\ LegTo(r, d, c) \in Nat /\ Minutes(At(c), At(o)) \in Nat
        /\ LegBack(r, o) \in Nat /\ Service \in Nat /\ in.cap[r] \in Nat /\ in.travelCap[r] \in Nat
    BY <2>2, LegToType, Points, MinutesType, LegTypes, AssignSizes
  <2>7. LegBack(r, o)' = LegBack(r, o)
    BY SameRequest
  <2>8. /\ used'[K] + Minutes(At(c), At(o)) + Service + LegBack(r, o) <= in.cap[r]
        /\ travel'[K] + Minutes(At(c), At(o)) + LegBack(r, o) <= in.travelCap[r]
    BY <2>1, <2>4, <2>7 DEF Fits
  <2>9. used[K] + LegTo(r, d, o) + Service + LegBack(r, o) <= in.cap[r]
    <3> DEFINE u == used[K]  w == used'[K]  v == LegTo(r, d, o)  l == LegTo(r, d, c)
               m == Minutes(At(c), At(o))  b == LegBack(r, o)  x == in.cap[r]
    <3>1. u \in Nat /\ v \in Nat /\ l \in Nat /\ m \in Nat /\ b \in Nat /\ x \in Nat /\ Service \in Nat
      BY <2>2, <2>6
    <3>2. w = u + l + Service /\ v <= l + m /\ w + m + Service + b <= x
      BY <2>2, <2>5, <2>8
    <3> HIDE DEF u, w, v, l, m, b, x
    <3>3. u + v + Service + b <= x
      BY <3>1, <3>2
    <3>4. QED BY <3>3 DEF u, v, b, x
  <2>10. travel[K] + LegTo(r, d, o) + LegBack(r, o) <= in.travelCap[r]
    <3> DEFINE u == travel[K]  w == travel'[K]  v == LegTo(r, d, o)  l == LegTo(r, d, c)
               m == Minutes(At(c), At(o))  b == LegBack(r, o)  x == in.travelCap[r]
    <3>1. u \in Nat /\ v \in Nat /\ l \in Nat /\ m \in Nat /\ b \in Nat /\ x \in Nat
      BY <2>2, <2>6
    <3>2. w = u + l /\ v <= l + m /\ w + m + b <= x
      BY <2>2, <2>5, <2>8
    <3> HIDE DEF u, w, v, l, m, b, x
    <3>3. u + v + b <= x
      BY <3>1, <3>2
    <3>4. QED BY <3>3 DEF u, v, b, x
  <2>11. QED BY <2>1, <2>9, <2>10 DEF Fits, K
<1>3. QED BY <1>1, <1>2

(* The stops of the days as a function, so that a step can be taken in     *)
(* parts.                                                                  *)

Apart(f) ==
  \A k, o \in Reps \X PlanDays : \A i \in DOMAIN f[k], j \in DOMAIN f[o] :
    f[k][i] = f[o][j] => k = o /\ i = j

Held(f) == UNION {Range(f[k]) : k \in Reps \X PlanDays}

LEMMA HeldIn ==
  ASSUME NEW f, NEW x
  PROVE  x \in Held(f) <=> \E k \in Reps \X PlanDays : x \in Range(f[k])
  BY DEF Held

Added(f, K, c) == [f EXCEPT ![K] = Append(f[K], c)]

\* A stop that is in no day is added to one: the days stay apart.
LEMMA AppendApart ==
  ASSUME NEW f \in [Reps \X PlanDays -> Seq(Stops)], Apart(f), NEW K \in Reps \X PlanDays,
         NEW c \in Stops, c \notin Held(f)
  PROVE  /\ Added(f, K, c) \in [Reps \X PlanDays -> Seq(Stops)]
         /\ Apart(Added(f, K, c))
         /\ \A x : x \in Held(Added(f, K, c)) <=> x \in Held(f) \/ x = c
<1> DEFINE g == Added(f, K, c)
<1>0. \A k, o \in Reps \X PlanDays : \A i \in DOMAIN f[k], j \in DOMAIN f[o] :
        f[k][i] = f[o][j] => k = o /\ i = j
  BY DEF Apart
<1>1. \A k \in Reps \X PlanDays : f[k] \in Seq(Stops)
  OBVIOUS
<1>2. \A k \in Reps \X PlanDays : k # K => g[k] = f[k]
  BY DEF Added
<1>3. g[K] = Append(f[K], c) /\ g \in [Reps \X PlanDays -> Seq(Stops)]
  BY DEF Added
<1> HIDE DEF g
<1>4. \A k \in Reps \X PlanDays : \A i \in DOMAIN f[k] : f[k][i] # c
  BY DEF Held, Range
<1> DEFINE n == Len(f[K]) + 1
<1>5. /\ DOMAIN g[K] = DOMAIN f[K] \cup {n} /\ n \notin DOMAIN f[K]
      /\ \A i \in DOMAIN f[K] : g[K][i] = f[K][i]
      /\ g[K][n] = c
  <2> DEFINE s == f[K]
  <2> HIDE DEF s
  <2>1. s \in Seq(Stops) =>
          /\ DOMAIN Append(s, c) = DOMAIN s \cup {Len(s) + 1} /\ Len(s) + 1 \notin DOMAIN s
          /\ \A i \in DOMAIN s : Append(s, c)[i] = s[i]
          /\ Append(s, c)[Len(s) + 1] = c
    OBVIOUS
  <2>2. QED BY <1>1, <1>3, <2>1 DEF s
<1> HIDE DEF n
\* where a stop of the new days was
<1>6. \A k \in Reps \X PlanDays : \A i \in DOMAIN g[k] :
        \/ k = K /\ i = n /\ g[k][i] = c
        \/ i \in DOMAIN f[k] /\ g[k][i] = f[k][i]
  BY <1>2, <1>5
<1>7. Apart(g)
  <2> SUFFICES ASSUME NEW k \in Reps \X PlanDays, NEW o \in Reps \X PlanDays,
                      NEW i \in DOMAIN g[k], NEW j \in DOMAIN g[o], g[k][i] = g[o][j]
               PROVE  k = o /\ i = j
    BY DEF Apart
  <2>1. CASE k = K /\ i = n /\ g[k][i] = c
    BY <1>4, <1>6, <2>1
  <2>2. CASE i \in DOMAIN f[k] /\ g[k][i] = f[k][i]
    <3>1. j \in DOMAIN f[o] /\ g[o][j] = f[o][j]
      BY <1>4, <1>6, <2>2
    <3>2. f[k][i] = f[o][j]
      BY <2>2, <3>1
    <3>3. QED BY <1>0, <2>2, <3>1, <3>2
  <2>3. QED BY <1>6, <2>1, <2>2
<1>8. Range(g[K]) = Range(f[K]) \cup {c}
  BY <1>5 DEF Range
<1>9. \A x : x \in Held(g) <=> x \in Held(f) \/ x = c
  <2>1. \A k \in Reps \X PlanDays : k # K => Range(g[k]) = Range(f[k])
    BY <1>2
  <2>2. QED BY SMTT(20), <1>8, <2>1, HeldIn
<1>10. QED BY <1>3, <1>7, <1>9 DEF g

LEMMA PoolIsFree ==
  ASSUME NEW n
  PROVE  Pool(n) \subseteq (Stops \ Taken) \ tried
  BY DEF Pool, Bucket

LEMMA TryStep ==
  ASSUME BuildInv, NEW c \in Stops, Try(c)
  PROVE  BuildInv'
<1>1. /\ RequestTyped /\ Greedy /\ UsedCovers /\ RefusedStay /\ ShortRefused
      /\ DayFits /\ PlannedOnce /\ cell \in Cells
  BY DEF BuildInv, RequestTyped, AssignTypeOK, Try
<1>2. PICK r \in Reps, d \in PlanDays : r = RepOf(cell) /\ d = DayOf(cell)
  BY <1>1, CellTypes
<1>3. c \in Stops /\ c \notin Taken /\ c \notin tried
  BY PoolIsFree DEF Try, Nearest
<1>4. /\ in' = in /\ cell' = cell /\ short' = short /\ bal' = bal
      /\ tried' = tried \cup {c} /\ placed < Demand(cell)
  BY DEF Try
<1>5. Demand(cell)' = Demand(cell) /\ Demand(cell) \in Nat /\ in \in AssignmentInputs
  <2>1. in \in AssignmentInputs
    BY <1>1 DEF RequestTyped, AssignTypeOK
  <2>2. RepOf(cell)' = RepOf(cell) /\ RungOf(cell)' = RungOf(cell)
    BY <1>4 DEF RepOf, RungOf
  <2>3. QED BY <1>1, <1>4, <2>1, <2>2, DemandType DEF Demand
<1>6. Greedy' /\ MovesApart'
  BY <1>1, <1>4 DEF Greedy, MovesApart
<1>7. RepOf(cell)' = r /\ DayOf(cell)' = d
  BY <1>2, <1>4 DEF RepOf, DayOf
<1>8. CASE Fits(r, d, c)
  <2>1. /\ placed' = placed + 1
        /\ days' = [days EXCEPT ![<<r, d>>] = Append(@, c)]
        /\ used' = [used EXCEPT ![<<r, d>>] = @ + LegTo(r, d, c) + Service]
        /\ travel' = [travel EXCEPT ![<<r, d>>] = @ + LegTo(r, d, c)]
        /\ chosen' = chosen \cup {c}
    BY <1>2, <1>8 DEF Try
  <2>2. /\ days' \in [Reps \X PlanDays -> Seq(Stops)] /\ PlannedOnce' /\ Taken' = Taken \cup {c}
    <3>1. /\ days \in [Reps \X PlanDays -> Seq(Stops)] /\ Apart(days) /\ c \notin Held(days)
          /\ <<r, d>> \in Reps \X PlanDays
      BY <1>1, <1>3 DEF RequestTyped, AssignTypeOK, PlannedOnce, Apart, Taken, Held
    <3>2. /\ days' \in [Reps \X PlanDays -> Seq(Stops)] /\ Apart(days') /\ Held(days') = Held(days) \cup {c}
      <4>1. days' = Added(days, <<r, d>>, c)
        BY <2>1 DEF Added
      <4>2. c \in Stops /\ <<r, d>> \in Reps \X PlanDays
        BY <1>3
      <4>3. Apart(Added(days, <<r, d>>, c))
        BY <3>1, <4>2, AppendApart
      <4>4. \A x : x \in Held(Added(days, <<r, d>>, c)) <=> x \in Held(days) \/ x = c
        BY <3>1, <4>2, AppendApart
      <4>5. Added(days, <<r, d>>, c) \in [Reps \X PlanDays -> Seq(Stops)]
        BY <3>1, <4>2, AppendApart
      <4>6. Held(days') = Held(days) \cup {c}
        BY <4>1, <4>4
      <4>7. QED BY <4>1, <4>3, <4>5, <4>6
    <3>3. QED BY <3>2 DEF PlannedOnce, Apart, Taken, Held
  <2>3. /\ used' \in [Reps \X PlanDays -> Nat] /\ travel' \in [Reps \X PlanDays -> Nat]
        /\ \A k \in Reps \X PlanDays : travel'[k] <= used'[k]
    <3>1. LegTo(r, d, c) \in Nat /\ Service \in Nat
      BY <1>1, <1>2, LegToType, AssignSizes
    <3>2. \A k \in Reps \X PlanDays : /\ used[k] \in Nat /\ travel[k] \in Nat /\ travel[k] <= used[k]
      BY <1>1 DEF RequestTyped, AssignTypeOK
    <3>3. \A k \in Reps \X PlanDays :
            \/ k # <<r, d>> /\ used'[k] = used[k] /\ travel'[k] = travel[k]
            \/ used'[k] = used[k] + LegTo(r, d, c) + Service /\ travel'[k] = travel[k] + LegTo(r, d, c)
      BY <1>1, <2>1 DEF RequestTyped, AssignTypeOK
    <3>4. \A k \in Reps \X PlanDays : used'[k] \in Nat /\ travel'[k] \in Nat /\ travel'[k] <= used'[k]
      BY <3>1, <3>2, <3>3
    <3>5. DOMAIN used' = Reps \X PlanDays /\ DOMAIN travel' = Reps \X PlanDays
      BY <1>1, <2>1 DEF RequestTyped, AssignTypeOK
    <3>6. used' = [k \in Reps \X PlanDays |-> used'[k]] /\ travel' = [k \in Reps \X PlanDays |-> travel'[k]]
      BY <1>1, <2>1, <3>5 DEF RequestTyped, AssignTypeOK
    <3>7. QED BY <3>4, <3>6
  <2>4. RequestTyped'
    <3>1. placed' \in Nat /\ (cell' # Done => placed' <= Demand(cell)')
      BY <1>1, <1>4, <1>5, <2>1 DEF RequestTyped, AssignTypeOK
    <3>2. tried' \subseteq Stops /\ Taken' \subseteq chosen' /\ chosen' \subseteq Stops
      BY <1>1, <1>4, <2>1, <2>2 DEF RequestTyped, AssignTypeOK
    <3>3. QED BY <1>1, <1>4, <2>2, <2>3, <3>1, <3>2 DEF RequestTyped, AssignTypeOK
  <2>5. \A q \in Reps, e \in PlanDays : <<q, e>> # <<r, d>> =>
          days'[<<q, e>>] = days[<<q, e>>] /\ used'[<<q, e>>] = used[<<q, e>>]
    BY <1>1, <2>1 DEF RequestTyped, AssignTypeOK
  <2>6. /\ days'[<<r, d>>] = Append(days[<<r, d>>], c)
        /\ used'[<<r, d>>] = used[<<r, d>>] + LegTo(r, d, c) + Service
    BY <1>1, <1>2, <2>1 DEF RequestTyped, AssignTypeOK
  <2>7. UsedCovers'
    <3> SUFFICES ASSUME NEW q \in Reps, NEW e \in PlanDays
                 PROVE  HopSum(q, days'[<<q, e>>]) <= used'[<<q, e>>]
      BY <1>4, SameRequest DEF UsedCovers
    <3>1. CASE <<q, e>> # <<r, d>>
      BY <1>1, <2>5, <3>1 DEF UsedCovers
    <3>2. CASE <<q, e>> = <<r, d>>
      BY <1>1, <1>2, <1>8, <2>6, <3>2, FittingDay
    <3>3. QED BY <3>1, <3>2
  <2>8. DayFits'
    <3> SUFFICES ASSUME NEW q \in Reps, NEW e \in PlanDays
                 PROVE  Estimate(q, days'[<<q, e>>]) <= in.cap[q]
      BY <1>4, SameRequest DEF DayFits
    <3>1. CASE <<q, e>> # <<r, d>>
      BY <1>1, <2>5, <3>1 DEF DayFits
    <3>2. CASE <<q, e>> = <<r, d>>
      BY <1>1, <1>2, <1>8, <2>6, <3>2, FittingDay
    <3>3. QED BY <3>1, <3>2
  <2>9. \A q \in Reps, e \in PlanDays, o \in Stops : Fits(q, e, o)' => Fits(q, e, o)
    BY <1>1, <1>2, <1>4, <2>1, RefusalsStay
  <2>10. RefusedStay'
    <3>1. \A o \in tried' \ Taken' : o \in tried \ Taken /\ o \in Stops
      BY <1>1, <1>4, <2>2 DEF RequestTyped, AssignTypeOK
    <3>2. \A o \in tried \ Taken : ~Fits(r, d, o)
      BY <1>1, <1>2, <1>4 DEF RefusedStay, Try
    <3>3. \A o \in tried' \ Taken' : ~Fits(r, d, o)'
      BY <1>2, <2>9, <3>1, <3>2
    <3>4. QED BY <1>7, <3>3 DEF RefusedStay
  <2>11. ShortRefused'
    <3> SUFFICES ASSUME NEW n \in Cells, short[n] > 0,
                        NEW o \in Bucket(RepOf(n), {RungOf(n)}) \ Taken'
                 PROVE  ~Fits(RepOf(n), DayOf(n), o)'
      BY <1>4, SameRequest DEF ShortRefused
    <3>1. ~Fits(RepOf(n), DayOf(n), o)
      BY <1>1, <2>2 DEF ShortRefused
    <3>2. RepOf(n) \in Reps /\ DayOf(n) \in PlanDays /\ o \in Stops
      BY CellTypes DEF Bucket
    <3>3. QED BY <2>9, <3>1, <3>2
  <2>12. QED BY <1>6, <2>2, <2>4, <2>7, <2>8, <2>10, <2>11 DEF BuildInv
<1>9. CASE ~Fits(r, d, c)
  <2>1. /\ days' = days /\ used' = used /\ travel' = travel /\ chosen' = chosen /\ placed' = placed
    BY <1>2, <1>9 DEF Try
  <2>2. /\ Taken' = Taken /\ UsedCovers' /\ DayFits' /\ PlannedOnce'
        /\ \A q, e, o : Fits(q, e, o)' <=> Fits(q, e, o)
    BY <1>1, <1>4, <2>1, SameDays
  <2>3. RequestTyped'
    BY <1>1, <1>4, <1>5, <2>1, <2>2 DEF RequestTyped, AssignTypeOK
  <2>4. RefusedStay'
    <3>1. \A o \in tried \ Taken : ~Fits(r, d, o)
      BY <1>1, <1>2, <1>4 DEF RefusedStay, Try
    <3>2. \A o \in tried' \ Taken' : ~Fits(r, d, o)'
      BY <1>4, <1>9, <2>2, <3>1
    <3>3. QED BY <1>7, <3>2 DEF RefusedStay
  <2>5. ShortRefused'
    BY <1>1, <1>4, <2>2, SameRequest DEF ShortRefused
  <2>6. QED BY <1>6, <2>2, <2>3, <2>4, <2>5 DEF BuildInv
<1>10. QED BY <1>8, <1>9

-----------------------------------------------------------------------------
(* The balance step. A stop is taken out of a day, with the last one of    *)
(* what is left: each of the others is where it was or one place before.   *)

LEMMA WithoutIt ==
  ASSUME NEW s \in Seq(Stops), \A i, j \in DOMAIN s : s[i] = s[j] => i = j, NEW c
  PROVE  /\ Without(s, c) \in Seq(Stops)
         /\ \E h \in [DOMAIN Without(s, c) -> DOMAIN s] :
              /\ \A i \in DOMAIN Without(s, c) : Without(s, c)[i] = s[h[i]] /\ Without(s, c)[i] # c
              /\ \A i, j \in DOMAIN Without(s, c) : h[i] = h[j] => i = j
<1> DEFINE w == Without(s, c)
<1>1. CASE c \in Range(s)
  <2>1. \E at \in DOMAIN s : s[at] = c
    BY <1>1 DEF Range
  <2>2. PICK at \in DOMAIN s : s[at] = c /\ w = SubSeq(s, 1, at - 1) \o SubSeq(s, at + 1, Len(s))
    BY <1>1, <2>1, Zenon DEF Without
  <2>3. at \in 1..Len(s)
    OBVIOUS
  <2>4. w \in Seq(Stops) /\ Len(w) = Len(s) - 1
        /\ \A i \in 1..Len(w) : w[i] = IF i < at THEN s[i] ELSE s[i + 1]
    <3> DEFINE p == SubSeq(s, 1, at - 1)
               q == SubSeq(s, at + 1, Len(s))
    <3>1. p \in Seq(Stops) /\ Len(p) = at - 1 /\ \A i \in 1..(at - 1) : p[i] = s[i]
      BY <2>3
    <3>2. q \in Seq(Stops) /\ Len(q) = Len(s) - at /\ \A i \in 1..(Len(s) - at) : q[i] = s[at + i]
      BY <2>3
    <3> HIDE DEF p, q
    <3>3. /\ p \o q \in Seq(Stops) /\ Len(p \o q) = Len(p) + Len(q)
          /\ \A i \in 1..(Len(p) + Len(q)) :
               (p \o q)[i] = IF i <= Len(p) THEN p[i] ELSE q[i - Len(p)]
      BY SMTT(20), <3>1, <3>2, ConcatProperties
    <3>4. w = p \o q
      BY <2>2 DEF p, q
    <3> HIDE DEF w
    <3>5. Len(w) = Len(s) - 1 /\ w \in Seq(Stops)
      BY <2>3, <3>1, <3>2, <3>3, <3>4
    <3>6. ASSUME NEW i \in 1..Len(w) PROVE w[i] = IF i < at THEN s[i] ELSE s[i + 1]
      <4>1. CASE i < at
        BY <4>1, <2>3, <3>1, <3>2, <3>3, <3>4, <3>5
      <4>2. CASE ~(i < at)
        <5>1. i - (at - 1) \in 1..(Len(s) - at) /\ at + (i - (at - 1)) = i + 1 /\ ~(i <= at - 1)
          BY <4>2, <2>3, <3>5
        <5>2. w[i] = q[i - (at - 1)]
          BY <5>1, <2>3, <3>1, <3>2, <3>3, <3>4, <3>5
        <5>3. q[i - (at - 1)] = s[at + (i - (at - 1))]
          BY <5>1, <3>2
        <5>4. QED BY <4>2, <5>1, <5>2, <5>3
      <4>3. QED BY <4>1, <4>2
    <3>7. QED BY <3>5, <3>6
  <2> DEFINE h == [i \in DOMAIN w |-> IF i < at THEN i ELSE i + 1]
  <2> HIDE DEF w
  <2>5. DOMAIN w = 1..Len(w)
    BY <2>4
  <2>6. h \in [DOMAIN w -> DOMAIN s]
    BY <2>3, <2>4, <2>5
  <2>7. \A i, j \in DOMAIN w : h[i] = h[j] => i = j
    BY <2>3, <2>4, <2>5
  <2>8. \A i \in DOMAIN w : w[i] = s[h[i]] /\ h[i] # at
    BY <2>3, <2>4, <2>5
  <2>9. \A i \in DOMAIN w : w[i] = s[h[i]] /\ w[i] # c
    <3> SUFFICES ASSUME NEW i \in DOMAIN w PROVE s[h[i]] # c
      BY <2>8
    <3>1. h[i] \in DOMAIN s /\ h[i] # at
      BY <2>6, <2>8
    <3> HIDE DEF h
    <3>2. QED BY <2>2, <3>1
  <2> HIDE DEF h
  <2>10. QED BY <2>4, <2>6, <2>7, <2>9 DEF w
<1>2. CASE c \notin Range(s)
  <2>1. w = s
    BY <1>2 DEF Without
  <2> HIDE DEF w
  <2> DEFINE h == [i \in DOMAIN s |-> i]
  <2>2. h \in [DOMAIN s -> DOMAIN s] /\ \A i \in DOMAIN s : h[i] = i
    OBVIOUS
  <2>3. \A i \in DOMAIN s : s[i] # c
    BY <1>2 DEF Range
  <2> HIDE DEF h
  <2>4. QED BY <2>1, <2>2, <2>3 DEF w
<1>3. QED BY <1>1, <1>2

LEMMA RemovedIt ==
  ASSUME in \in AssignmentInputs, NEW s \in Seq(Stops), \A i, j \in DOMAIN s : s[i] = s[j] => i = j,
         NEW c
  PROVE  /\ Removed(s, c) \in Seq(Stops)
         /\ \E h \in [DOMAIN Removed(s, c) -> DOMAIN s] :
              /\ \A i \in DOMAIN Removed(s, c) : Removed(s, c)[i] = s[h[i]] /\ Removed(s, c)[i] # c
              /\ \A i, j \in DOMAIN Removed(s, c) : h[i] = h[j] => i = j
         /\ \A r \in Reps : Estimate(r, Removed(s, c)) <= Estimate(r, Without(s, c))
<1> DEFINE w == Without(s, c)
           u == Removed(s, c)
<1>1. w \in Seq(Stops)
  BY WithoutIt
<1>2. PICK h \in [DOMAIN w -> DOMAIN s] :
        /\ \A i \in DOMAIN w : w[i] = s[h[i]] /\ w[i] # c
        /\ \A i, j \in DOMAIN w : h[i] = h[j] => i = j
  BY WithoutIt
<1>3. u = IF w = <<>> THEN w ELSE SubSeq(w, 1, Len(w) - 1)
  BY DEF Removed
<1> HIDE DEF w
<1>4. /\ u \in Seq(Stops) /\ DOMAIN u \subseteq DOMAIN w /\ \A i \in DOMAIN u : u[i] = w[i]
      /\ (u = w \/ (w = Append(u, w[Len(w)]) /\ w[Len(w)] \in Stops))
  <2>1. CASE w = <<>>
    BY <1>1, <1>3, <2>1
  <2>2. CASE w # <<>>
    <3>1. Len(w) > 0 /\ Len(w) \in Nat /\ w[Len(w)] \in Stops
      BY <1>1, <2>2
    <3>2. /\ SubSeq(w, 1, Len(w) - 1) \in Seq(Stops) /\ Len(SubSeq(w, 1, Len(w) - 1)) = Len(w) - 1
          /\ \A i \in 1..(Len(w) - 1) : SubSeq(w, 1, Len(w) - 1)[i] = w[i]
      <4> DEFINE n == Len(w) - 1
      <4>1. n \in Nat /\ 1 \in Int /\ \A i \in 1..n : w[i] \in Stops
        BY <1>1, <3>1
      <4> HIDE DEF n
      <4>2. /\ SubSeq(w, 1, n) \in Seq(Stops) /\ Len(SubSeq(w, 1, n)) = IF 1 <= n THEN n - 1 + 1 ELSE 0
            /\ \A i \in 1..(n - 1 + 1) : SubSeq(w, 1, n)[i] = w[1 + i - 1]
        BY <4>1, SubSeqProperties
      <4>3. Len(SubSeq(w, 1, n)) = n /\ \A i \in 1..n : SubSeq(w, 1, n)[i] = w[i]
        BY <4>1, <4>2
      <4>4. QED BY <4>2, <4>3 DEF n
    <3> HIDE DEF u
    <3>3. u \in Seq(Stops) /\ Len(u) = Len(w) - 1 /\ \A i \in 1..(Len(w) - 1) : u[i] = w[i]
      BY <1>3, <2>2, <3>2
    <3>4. DOMAIN u = 1..(Len(w) - 1) /\ DOMAIN w = 1..Len(w)
      BY <1>1, <3>3
    <3>5. w = Append(u, w[Len(w)])
      <4> DEFINE t == Append(u, w[Len(w)])
      <4>1. t \in Seq(Stops) /\ Len(t) = Len(w) /\ \A i \in 1..Len(w) : t[i] = w[i]
        BY <3>1, <3>3
      <4> HIDE DEF t
      <4>2. w = t
        BY <4>1, <1>1
      <4>3. QED BY <4>2 DEF t
    <3>6. DOMAIN u \subseteq DOMAIN w
      BY <3>1, <3>4
    <3>7. QED BY <3>1, <3>3, <3>4, <3>5, <3>6
  <2>3. QED BY <2>1, <2>2
<1> HIDE DEF u
<1>5. \E g \in [DOMAIN u -> DOMAIN s] :
        /\ \A i \in DOMAIN u : u[i] = s[g[i]] /\ u[i] # c
        /\ \A i, j \in DOMAIN u : g[i] = g[j] => i = j
  <2> DEFINE g == [i \in DOMAIN u |-> h[i]]
  <2>1. g \in [DOMAIN u -> DOMAIN s] /\ \A i \in DOMAIN u : g[i] = h[i]
    BY <1>2, <1>4
  <2> HIDE DEF g
  <2>2. QED BY <1>2, <1>4, <2>1
<1>6. \A r \in Reps : Estimate(r, u) <= Estimate(r, w)
  <2> SUFFICES ASSUME NEW r \in Reps PROVE Estimate(r, u) <= Estimate(r, w)
    OBVIOUS
  <2>1. CASE u = w
    <3>1. Estimate(r, w) \in Nat
      BY <1>1, EstimateType
    <3>2. QED BY <2>1, <3>1
  <2>2. CASE w = Append(u, w[Len(w)]) /\ w[Len(w)] \in Stops
    BY <1>4, <2>2, EstimateFront
  <2>3. QED BY <1>4, <2>1, <2>2
<1>7. QED BY <1>4, <1>5, <1>6 DEF u, w

Put(f, K, u) == [f EXCEPT ![K] = u]

\* A day that keeps some of its stops, in order, and not c, which no other has.
LEMMA PutApart ==
  ASSUME NEW f \in [Reps \X PlanDays -> Seq(Stops)], Apart(f), NEW K \in Reps \X PlanDays,
         NEW u \in Seq(Stops), NEW c,
         \E h \in [DOMAIN u -> DOMAIN f[K]] :
           /\ \A i \in DOMAIN u : u[i] = f[K][h[i]] /\ u[i] # c
           /\ \A i, j \in DOMAIN u : h[i] = h[j] => i = j,
         \A k \in Reps \X PlanDays : c \in Range(f[k]) => k = K
  PROVE  /\ Put(f, K, u) \in [Reps \X PlanDays -> Seq(Stops)]
         /\ Apart(Put(f, K, u))
         /\ \A x : x \in Held(Put(f, K, u)) => x \in Held(f) /\ x # c
         /\ Range(u) \subseteq Range(f[K])
<1> DEFINE g == Put(f, K, u)
<1>0. \A k, o \in Reps \X PlanDays : \A i \in DOMAIN f[k], j \in DOMAIN f[o] :
        f[k][i] = f[o][j] => k = o /\ i = j
  BY DEF Apart
<1>1. PICK h \in [DOMAIN u -> DOMAIN f[K]] :
        /\ \A i \in DOMAIN u : u[i] = f[K][h[i]] /\ u[i] # c
        /\ \A i, j \in DOMAIN u : h[i] = h[j] => i = j
  OBVIOUS
<1>2. g \in [Reps \X PlanDays -> Seq(Stops)] /\ g[K] = u
      /\ \A k \in Reps \X PlanDays : k # K => g[k] = f[k]
  BY DEF Put
<1> HIDE DEF g
<1>3. \A k \in Reps \X PlanDays : \A i \in DOMAIN g[k] :
        \/ k = K /\ i \in DOMAIN u /\ h[i] \in DOMAIN f[k] /\ g[k][i] = f[k][h[i]]
        \/ k # K /\ i \in DOMAIN f[k] /\ g[k][i] = f[k][i]
  BY <1>1, <1>2
<1>4. Apart(g)
  <2> SUFFICES ASSUME NEW k \in Reps \X PlanDays, NEW o \in Reps \X PlanDays,
                      NEW i \in DOMAIN g[k], NEW j \in DOMAIN g[o], g[k][i] = g[o][j]
               PROVE  k = o /\ i = j
    BY DEF Apart
  <2>1. CASE k = K /\ i \in DOMAIN u /\ h[i] \in DOMAIN f[k] /\ g[k][i] = f[k][h[i]]
    <3>1. CASE o = K /\ j \in DOMAIN u /\ h[j] \in DOMAIN f[o] /\ g[o][j] = f[o][h[j]]
      BY <1>0, <1>1, <2>1, <3>1
    <3>2. CASE o # K /\ j \in DOMAIN f[o] /\ g[o][j] = f[o][j]
      BY <1>0, <2>1, <3>2
    <3>3. QED BY <1>3, <3>1, <3>2
  <2>2. CASE k # K /\ i \in DOMAIN f[k] /\ g[k][i] = f[k][i]
    <3>1. CASE o = K /\ j \in DOMAIN u /\ h[j] \in DOMAIN f[o] /\ g[o][j] = f[o][h[j]]
      <4>1. h[j] \in DOMAIN f[o] /\ f[k][i] = f[o][h[j]]
        BY <2>2, <3>1
      <4>2. QED BY <1>0, <2>2, <3>1, <4>1
    <3>2. CASE o # K /\ j \in DOMAIN f[o] /\ g[o][j] = f[o][j]
      <4>1. f[k][i] = f[o][j]
        BY <2>2, <3>2
      <4>2. QED BY <1>0, <2>2, <3>2, <4>1
    <3>3. QED BY <1>3, <3>1, <3>2
  <2>3. QED BY <1>3, <2>1, <2>2
<1>5. Range(u) \subseteq Range(f[K]) /\ c \notin Range(u)
  BY <1>1 DEF Range
<1>6. \A x : x \in Held(g) => x \in Held(f) /\ x # c
  BY <1>2, <1>5, HeldIn
<1>7. QED BY <1>2, <1>4, <1>5, <1>6 DEF g

-----------------------------------------------------------------------------
(* The balance step moves only stops of its own day and two reps.          *)

LEMMA BalanceTypes ==
  ASSUME bal \in Balance
  PROVE  /\ bal.day \in Nat
         /\ bal.pc = "pick" => bal.minutes \in [Reps -> Nat] /\ bal.iter \in Nat
         /\ bal.pc = "move" =>
              /\ bal.minutes \in [Reps -> Nat] /\ bal.iter \in Nat /\ bal.gap \in Nat
              /\ bal.long \in Reps /\ bal.short \in Reps /\ bal.swaps \in Nat
              /\ bal.queue \subseteq Stops
  BY DEF Balance

LEMMA NotGreedyAgain ==
  ASSUME BuildInv, Balancing
  PROVE  /\ cell = Done /\ NextDay \in Balance /\ NextDay.pc = "day"
         /\ NextDay # [pc |-> "day", day |-> 1]
<1>1. bal.day \in Nat /\ bal.day \in PlanDays
  BY BalanceTypes DEF BuildInv, RequestTyped, AssignTypeOK, Balancing
<1>2. bal.day >= 1
  BY <1>1, AssignSizes, FS_CardinalityType
<1>3. NextDay.day # 1
  BY <1>1, <1>2 DEF NextDay
<1>4. QED BY <1>1, <1>3 DEF NextDay, Balance, Balancing

\* A step of the balance that moves no stop.
LEMMA BalanceStep ==
  ASSUME BuildInv, cell = Done, bal' \in Balance, ~Greedy', MovesApart',
         UNCHANGED <<in, cell, tried, placed, days, used, travel, short, chosen>>
  PROVE  BuildInv'
<1>1. RequestTyped /\ DayFits /\ PlannedOnce
  BY DEF BuildInv
<1>2. Taken' = Taken /\ DayFits' /\ PlannedOnce'
  BY <1>1, SameDays
<1>3. RequestTyped'
  BY <1>1, <1>2 DEF RequestTyped, AssignTypeOK
<1>4. QED BY <1>2, <1>3 DEF BuildInv

LEMMA OpenStep ==
  ASSUME BuildInv, OpenDay
  PROVE  BuildInv'
<1>1. Balancing
  BY DEF OpenDay
<1>2. RequestTyped /\ bal.day \in PlanDays /\ bal.day \in Nat
  BY <1>1, BalanceTypes DEF BuildInv, RequestTyped, AssignTypeOK, Balancing
<1> DEFINE minutes == [r \in Reps |-> Estimate(r, days[<<r, bal.day>>])]
<1>3. minutes \in [Reps -> Nat]
  BY <1>2, EstimateType DEF RequestTyped, AssignTypeOK
<1>4. \/ bal' = NextDay
      \/ bal' = [pc |-> "pick", day |-> bal.day, minutes |-> minutes, iter |-> 0]
  BY DEF OpenDay
<1> HIDE DEF minutes
<1>5. bal' \in Balance /\ bal'.pc # "move" /\ bal' # [pc |-> "day", day |-> 1]
  <2>1. CASE bal' = NextDay
    BY <1>1, <2>1, NotGreedyAgain
  <2>2. CASE bal' = [pc |-> "pick", day |-> bal.day, minutes |-> minutes, iter |-> 0]
    <3>1. bal' \in Balance /\ bal'.pc = "pick"
      BY <1>2, <1>3, <2>2 DEF Balance
    <3>2. QED BY <3>1
  <2>3. QED BY <1>4, <2>1, <2>2
<1>6. ~Greedy' /\ MovesApart'
  BY <1>5 DEF Greedy, MovesApart
<1>7. QED BY <1>1, <1>5, <1>6, BalanceStep, NotGreedyAgain DEF OpenDay

LEMMA EndStep ==
  ASSUME BuildInv, EndIteration
  PROVE  BuildInv'
<1>1. Balancing
  BY DEF EndIteration
<1>2. RequestTyped /\ bal \in Balance
  BY DEF BuildInv, RequestTyped, AssignTypeOK
<1>3. \/ bal' = NextDay
      \/ bal.pc = "move" /\ bal' = [pc |-> "pick", day |-> bal.day, minutes |-> bal.minutes, iter |-> bal.iter]
  BY DEF EndIteration
<1>4. bal' \in Balance /\ bal'.pc # "move" /\ bal' # [pc |-> "day", day |-> 1]
  <2>1. CASE bal' = NextDay
    BY <1>1, <2>1, NotGreedyAgain
  <2>2. CASE bal.pc = "move" /\ bal' = [pc |-> "pick", day |-> bal.day, minutes |-> bal.minutes, iter |-> bal.iter]
    <3>1. bal.day \in Nat /\ bal.minutes \in [Reps -> Nat] /\ bal.iter \in Nat
      BY <1>2, <2>2, BalanceTypes
    <3>2. bal' \in Balance /\ bal'.pc = "pick"
      BY <2>2, <3>1 DEF Balance
    <3>3. QED BY <3>2
  <2>3. QED BY <1>3, <2>1, <2>2
<1>5. ~Greedy' /\ MovesApart'
  BY <1>4 DEF Greedy, MovesApart
<1>6. QED BY <1>1, <1>4, <1>5, BalanceStep, NotGreedyAgain DEF EndIteration

LEMMA PickStep ==
  ASSUME BuildInv, NEW l \in Reps, NEW s \in Reps, Pick(l, s)
  PROVE  BuildInv'
<1>1. Balancing /\ bal.pc = "pick"
  BY DEF Pick
<1>2. RequestTyped /\ PlannedOnce /\ bal \in Balance /\ bal.day \in PlanDays
  BY <1>1 DEF BuildInv, RequestTyped, AssignTypeOK, Balancing
<1>3. bal.day \in Nat /\ bal.minutes \in [Reps -> Nat] /\ bal.iter \in Nat
  BY <1>1, <1>2, BalanceTypes
<1> DEFINE K == <<l, bal.day>>
           gap == GapOf(bal.minutes)
           move == [pc |-> "move", day |-> bal.day, minutes |-> bal.minutes,
                    iter |-> bal.iter + 1, gap |-> gap, long |-> l, short |-> s, swaps |-> 0,
                    queue |-> Range(days[K])]
<1>4. gap = bal.minutes[l] - bal.minutes[s]
  BY DEF GapOf, Pick
<1>5. \/ bal' = NextDay
      \/ gap > GapThreshold /\ bal' = move
  <2>1. gap \in Int
    BY <1>3, <1>4
  <2>2. GapThreshold \in Int
    BY AssignSizes
  <2>3. bal' = IF gap <= GapThreshold \/ Home(s) = NoPoint THEN NextDay ELSE move
    BY DEF Pick
  <2> HIDE DEF gap, move
  <2>4. QED BY <2>1, <2>2, <2>3
<1>6. CASE bal' = NextDay
  <2>1. bal' \in Balance /\ bal'.pc # "move" /\ bal' # [pc |-> "day", day |-> 1]
    BY <1>1, <1>6, NotGreedyAgain
  <2>2. ~Greedy' /\ MovesApart'
    BY <2>1 DEF Greedy, MovesApart
  <2>3. QED BY <1>1, <2>1, <2>2, BalanceStep, NotGreedyAgain DEF Pick
<1>7. CASE gap > GapThreshold /\ bal' = move
  <2>1. gap \in Nat /\ l # s
    <3>1. bal.minutes[l] \in Nat /\ bal.minutes[s] \in Nat /\ GapThreshold \in Nat
      BY <1>3, AssignSizes
    <3> HIDE DEF gap
    <3>2. gap > 0
      BY <1>4, <1>7, <3>1
    <3>3. QED BY <1>4, <3>1, <3>2
  <2>2. K \in Reps \X PlanDays /\ Range(days[K]) \subseteq Taken
    BY <1>2 DEF Taken
  <2>3. Range(days[K]) \subseteq chosen /\ Range(days[K]) \subseteq Stops
    BY <1>2, <2>2 DEF RequestTyped, AssignTypeOK
  <2>4. \A c \in Range(days[K]), k \in Reps \X PlanDays : c \in Range(days[k]) => k = K
    BY <1>2, <2>2 DEF PlannedOnce, Range
  <2> HIDE DEF gap, K
  <2>5. bal' \in Balance
    BY <1>3, <1>7, <2>1, <2>3 DEF Balance
  <2>6. /\ bal'.pc = "move" /\ bal'.long = l /\ bal'.short = s /\ bal'.day = bal.day
        /\ bal'.queue = Range(days[K])
    BY <1>7
  <2>7. ~Greedy'
    BY <2>6 DEF Greedy
  <2>8. days' = days /\ chosen' = chosen
    BY DEF Pick
  <2>9. MovesApart'
    BY <1>2, <2>1, <2>3, <2>4, <2>6, <2>8 DEF MovesApart, K
  <2>10. QED BY <1>1, <2>5, <2>7, <2>9, BalanceStep, NotGreedyAgain DEF Pick
<1>8. QED BY <1>5, <1>6, <1>7

LEMMA MoveStep ==
  ASSUME BuildInv, NEW c \in Stops, Move(c)
  PROVE  BuildInv'
<1>1. Balancing /\ bal.pc = "move" /\ c \in bal.queue
  BY DEF Move
<1>2. /\ RequestTyped /\ DayFits /\ PlannedOnce /\ MovesApart /\ bal \in Balance
      /\ in \in AssignmentInputs /\ days \in [Reps \X PlanDays -> Seq(Stops)] /\ Taken \subseteq chosen
  BY DEF BuildInv, RequestTyped, AssignTypeOK
<1>3. PICK l \in Reps, s \in Reps, d \in PlanDays :
        l = bal.long /\ s = bal.short /\ d = bal.day
  BY <1>1, <1>2, BalanceTypes DEF MovesApart
<1>4. /\ l # s /\ d \in Nat /\ bal.minutes \in [Reps -> Nat] /\ bal.iter \in Nat /\ bal.gap \in Nat
      /\ bal.swaps \in Nat /\ bal.queue \subseteq Stops /\ bal.queue \subseteq chosen
      /\ \A o \in bal.queue, k \in Reps \X PlanDays : o \in Range(days[k]) => k = <<l, d>>
  BY <1>1, <1>2, <1>3, BalanceTypes DEF MovesApart
<1>5. PICK L \in Reps \X PlanDays, S \in Reps \X PlanDays : L = <<l, d>> /\ S = <<s, d>> /\ L # S
  <2>1. <<l, d>> \in Reps \X PlanDays /\ <<s, d>> \in Reps \X PlanDays
    BY <1>3
  <2>2. <<l, d>> # <<s, d>>
    BY <1>4
  <2>3. QED BY <2>1, <2>2, Zenon
<1> DEFINE w == Without(days[L], c)
           u == Removed(days[L], c)
           toLong == Estimate(l, w)
           toShort == Estimate(s, Append(days[S], c))
<1>6. /\ in' = in /\ cell' = cell /\ tried' = tried /\ placed' = placed /\ used' = used
      /\ travel' = travel /\ short' = short /\ chosen' = chosen
      /\ cell = Done
  BY <1>1 DEF Move, Balancing
<1>7. \/ /\ Acceptable(toLong, toShort)
         /\ days' = [days EXCEPT ![L] = u, ![S] = Append(days[S], c)]
         /\ bal' = [bal EXCEPT !.queue = bal.queue \ {c}, !.swaps = bal.swaps + 1,
                               !.minutes = [bal.minutes EXCEPT ![l] = toLong, ![s] = toShort]]
      \/ /\ bal' = [bal EXCEPT !.queue = bal.queue \ {c}]
         /\ days' = days
  BY ZenonT(60), <1>3, <1>4, <1>5 DEF Move
<1>8. days[L] \in Seq(Stops) /\ days[S] \in Seq(Stops) /\ Apart(days)
  BY <1>2 DEF PlannedOnce, Apart
<1>9. \A i, j \in DOMAIN days[L] : days[L][i] = days[L][j] => i = j
  BY <1>8 DEF Apart
<1>10. /\ u \in Seq(Stops) /\ Estimate(l, u) <= toLong /\ w \in Seq(Stops)
       /\ \E h \in [DOMAIN u -> DOMAIN days[L]] :
            /\ \A i \in DOMAIN u : u[i] = days[L][h[i]] /\ u[i] # c
            /\ \A i, j \in DOMAIN u : h[i] = h[j] => i = j
  BY <1>2, <1>8, <1>9, RemovedIt, WithoutIt
<1>11. toLong \in Nat /\ toShort \in Nat /\ Estimate(l, u) \in Nat /\ in.cap[l] \in Nat
  <2>1. Append(days[S], c) \in Seq(Stops)
    BY <1>8
  <2> HIDE DEF w, u
  <2>2. QED BY <1>2, <1>10, <2>1, EstimateType, Points
<1> HIDE DEF w, u, toLong, toShort
<1>12. CASE /\ Acceptable(toLong, toShort)
            /\ days' = [days EXCEPT ![L] = u, ![S] = Append(days[S], c)]
            /\ bal' = [bal EXCEPT !.queue = bal.queue \ {c}, !.swaps = bal.swaps + 1,
                                  !.minutes = [bal.minutes EXCEPT ![l] = toLong, ![s] = toShort]]
  <2> DEFINE f == Put(days, L, u)
             g == Added(f, S, c)
  <2>1. \A k \in Reps \X PlanDays : c \in Range(days[k]) => k = L
    BY <1>1, <1>4, <1>5
  <2>2. /\ f \in [Reps \X PlanDays -> Seq(Stops)] /\ Apart(f) /\ Range(u) \subseteq Range(days[L])
        /\ \A x : x \in Held(f) => x \in Held(days) /\ x # c
    BY <1>2, <1>8, <1>10, <2>1, PutApart
  <2>3. /\ g \in [Reps \X PlanDays -> Seq(Stops)] /\ Apart(g)
        /\ \A x : x \in Held(g) <=> x \in Held(f) \/ x = c
    <3> HIDE DEF f
    <3>1. c \notin Held(f)
      BY <2>2
    <3>2. QED BY <2>2, <3>1, AppendApart
  <2>4. days' = g
    BY <1>2, <1>5, <1>12 DEF Put, Added
  <2> HIDE DEF f, g
  <2>5. /\ days' \in [Reps \X PlanDays -> Seq(Stops)] /\ PlannedOnce'
    BY <2>3, <2>4 DEF PlannedOnce, Apart
  <2>6. Taken' \subseteq chosen'
    <3>1. Taken' = Held(days') /\ Taken = Held(days)
      BY DEF Taken, Held
    <3>2. \A x : x \in Held(g) => x \in chosen
      BY <1>1, <1>2, <1>4, <2>2, <2>3, <3>1
    <3>3. QED BY <1>6, <2>4, <3>1, <3>2
  <2>7. /\ bal'.pc = "move" /\ bal'.day = d /\ bal'.long = l /\ bal'.short = s
        /\ bal'.queue = bal.queue \ {c} /\ bal' \in Balance
    <3>1. bal \in [pc : {"move"}, day : Nat, minutes : [Reps -> Nat], iter : Nat, gap : Nat,
                   long : Reps, short : Reps, swaps : Nat, queue : SUBSET Stops]
      BY <1>1, <1>2 DEF Balance
    <3>2. [bal.minutes EXCEPT ![l] = toLong, ![s] = toShort] \in [Reps -> Nat]
      BY <1>4, <1>11
    <3>3. bal.queue \ {c} \subseteq Stops /\ bal.swaps + 1 \in Nat
      BY <1>4
    <3>4. QED BY <1>3, <1>12, <3>1, <3>2, <3>3 DEF Balance
  <2>8. RequestTyped'
    BY <1>2, <1>6, <2>5, <2>6, <2>7 DEF RequestTyped, AssignTypeOK
  <2>9. /\ days'[L] = u /\ days'[S] = Append(days[S], c)
        /\ \A k \in Reps \X PlanDays : k # L /\ k # S => days'[k] = days[k]
    BY <1>2, <1>5, <1>12
  <2>10. DayFits'
    <3> SUFFICES ASSUME NEW q \in Reps, NEW e \in PlanDays
                 PROVE  Estimate(q, days'[<<q, e>>]) <= in.cap[q]
      BY <1>6, SameRequest DEF DayFits
    <3>1. CASE <<q, e>> = L
      <4>1. q = l /\ days'[<<q, e>>] = u
        BY <1>5, <2>9, <3>1
      <4>2. toLong <= in.cap[l]
        BY <1>3, <1>12 DEF Acceptable
      <4>3. QED BY <1>10, <1>11, <4>1, <4>2
    <3>2. CASE <<q, e>> = S
      <4>1. q = s /\ days'[<<q, e>>] = Append(days[S], c)
        BY <1>5, <2>9, <3>2
      <4>2. toShort <= in.cap[s]
        BY <1>3, <1>12 DEF Acceptable
      <4>3. QED BY <4>1, <4>2 DEF toShort
    <3>3. CASE <<q, e>> # L /\ <<q, e>> # S
      BY <1>2, <2>9, <3>3 DEF DayFits
    <3>4. QED BY <3>1, <3>2, <3>3
  <2>11. MovesApart'
    <3>1. \A o \in bal.queue \ {c}, k \in Reps \X PlanDays : o \in Range(days'[k]) => k = L
      <4> SUFFICES ASSUME NEW o \in bal.queue, o # c, NEW k \in Reps \X PlanDays,
                          o \in Range(days'[k]), k # L
                   PROVE  FALSE
        OBVIOUS
      <4>1. o \notin Range(days[k])
        BY <1>4, <1>5
      <4>2. k = S
        BY <2>9, <4>1
      <4>3. Range(Append(days[S], c)) = Range(days[S]) \cup {c}
        <5> DEFINE t == days[S]
        <5> HIDE DEF t
        <5>1. t \in Seq(Stops) => Range(Append(t, c)) = Range(t) \cup {c}
          <6> SUFFICES ASSUME t \in Seq(Stops) PROVE Range(Append(t, c)) = Range(t) \cup {c}
            OBVIOUS
          <6> DEFINE v == Append(t, c)
          <6>1. /\ DOMAIN v = DOMAIN t \cup {Len(t) + 1} /\ v[Len(t) + 1] = c
                /\ \A i \in DOMAIN t : v[i] = t[i]
            OBVIOUS
          <6> HIDE DEF v
          <6>2. Range(v) = Range(t) \cup {c}
            BY <6>1 DEF Range
          <6>3. QED BY <6>2 DEF v
        <5>2. QED BY <1>8, <5>1 DEF t
      <4>4. QED BY <2>9, <4>1, <4>2, <4>3
    <3>2. bal.queue \ {c} \subseteq chosen'
      BY <1>4, <1>6
    <3>3. QED BY <1>4, <1>5, <2>7, <3>1, <3>2 DEF MovesApart
  <2>12. ~Greedy'
    BY <2>7 DEF Greedy
  <2>13. QED BY <1>6, <2>5, <2>8, <2>10, <2>11, <2>12 DEF BuildInv
<1>13. CASE bal' = [bal EXCEPT !.queue = bal.queue \ {c}] /\ days' = days
  <2>1. /\ bal'.pc = "move" /\ bal'.day = d /\ bal'.long = l /\ bal'.short = s
        /\ bal'.queue = bal.queue \ {c} /\ bal' \in Balance
    <3>1. bal \in [pc : {"move"}, day : Nat, minutes : [Reps -> Nat], iter : Nat, gap : Nat,
                   long : Reps, short : Reps, swaps : Nat, queue : SUBSET Stops]
      BY <1>1, <1>2 DEF Balance
    <3>2. bal.queue \ {c} \subseteq Stops
      BY <1>4
    <3>3. QED BY <1>3, <1>13, <3>1, <3>2 DEF Balance
  <2>2. ~Greedy'
    BY <2>1 DEF Greedy
  <2>3. MovesApart'
    BY <1>4, <1>6, <1>13, <2>1 DEF MovesApart
  <2>4. QED BY <1>6, <1>13, <2>1, <2>2, <2>3, BalanceStep
<1>14. QED BY <1>7, <1>12, <1>13

LEMMA StutterStep ==
  ASSUME BuildInv, UNCHANGED assignVars
  PROVE  BuildInv'
<1> USE DEF assignVars
<1>1. /\ Taken' = Taken /\ (UsedCovers => UsedCovers') /\ DayFits' /\ PlannedOnce'
      /\ \A r, d, c : Fits(r, d, c)' <=> Fits(r, d, c)
  BY SameDays DEF BuildInv
<1>2. RepOf(cell)' = RepOf(cell) /\ DayOf(cell)' = DayOf(cell) /\ RungOf(cell)' = RungOf(cell)
  BY DEF RepOf, DayOf, RungOf
<1>3. RequestTyped'
  <2>1. Demand(cell)' = Demand(cell)
    BY <1>2 DEF Demand
  <2>2. QED BY <1>1, <2>1 DEF BuildInv, RequestTyped, AssignTypeOK
<1>4. RefusedStay => RefusedStay'
  BY <1>1, <1>2 DEF RefusedStay
<1>5. ShortRefused => ShortRefused'
  BY <1>1, SameRequest DEF ShortRefused
<1>6. MovesApart' /\ (Greedy' <=> Greedy)
  BY DEF BuildInv, MovesApart, Greedy
<1>7. QED BY <1>1, <1>3, <1>4, <1>5, <1>6 DEF BuildInv

-----------------------------------------------------------------------------
LEMMA AssignStep == BuildInv /\ [AssignNext]_assignVars => BuildInv'
<1> SUFFICES ASSUME BuildInv, [AssignNext]_assignVars PROVE BuildInv'
  OBVIOUS
<1>1. ASSUME NEW c \in Stops, Try(c) PROVE BuildInv'
  BY <1>1, TryStep
<1>2. ASSUME NEW c \in Stops, Move(c) PROVE BuildInv'
  BY <1>2, MoveStep
<1>3. CASE CloseCell
  BY <1>3, CloseStep
<1>4. CASE OpenDay
  BY <1>4, OpenStep
<1>5. CASE EndIteration
  BY <1>5, EndStep
<1>6. ASSUME NEW l \in Reps, NEW s \in Reps, Pick(l, s) PROVE BuildInv'
  BY <1>6, PickStep
<1>7. CASE UNCHANGED assignVars
  BY <1>7, StutterStep
<1>8. QED BY <1>1, <1>2, <1>3, <1>4, <1>5, <1>6, <1>7 DEF AssignNext

LEMMA BuildInvariant == AssignSpec => []BuildInv
<1>1. QED BY AssignStart, AssignStep, PTL DEF AssignSpec

(* The request, the cell, the days and the balance step keep their types,  *)
(* and no cell accepts more than its target: for any number of reps, days  *)
(* and stops.                                                              *)
THEOREM AssignmentTyped == AssignSpec => []AssignTypeOK
<1>1. BuildInv => AssignTypeOK
  BY DEF BuildInv, RequestTyped
<1>2. QED BY BuildInvariant, <1>1, PTL

(* No day takes longer than its rep's cap: tryFit's running total covers   *)
(* what estimateDayMinutes counts, and a stop the balance step moves into  *)
(* a day is tested against that estimate, while the day it leaves shrinks. *)
THEOREM NoDayTooLong == AssignSpec => []DayFits
<1>1. BuildInv => DayFits
  BY DEF BuildInv
<1>2. QED BY BuildInvariant, <1>1, PTL

(* No stop is in two days, or in one twice: what is offered has not been   *)
(* taken, and a stop that is moved was in the longest day only, or was     *)
(* lost from it by the second splice.                                      *)
THEOREM StopsPlannedOnce == AssignSpec => []PlannedOnce
<1>1. BuildInv => PlannedOnce
  BY DEF BuildInv
<1>2. QED BY BuildInvariant, <1>1, PTL

(* A class is reported short only when none of its free stops fits: what a *)
(* cell has refused stays refused as its day grows, because a detour is no *)
(* shorter than the direct way.                                            *)
THEOREM ShortfallsAreReal == AssignSpec => []ShortOnlyIfFull
<1>1. BuildInv => ShortOnlyIfFull
  <2> SUFFICES ASSUME BuildInv, Greedy, NEW n \in Cells, short[n] > 0,
                      NEW c \in Bucket(RepOf(n), {RungOf(n)}) \ Taken
               PROVE  \/ used[<<RepOf(n), DayOf(n)>>] + LegTo(RepOf(n), DayOf(n), c) + Service
                           + LegBack(RepOf(n), c) + Len(days[<<RepOf(n), DayOf(n)>>]) > in.cap[RepOf(n)]
                      \/ travel[<<RepOf(n), DayOf(n)>>] + LegTo(RepOf(n), DayOf(n), c)
                           + LegBack(RepOf(n), c) + Len(days[<<RepOf(n), DayOf(n)>>]) > in.travelCap[RepOf(n)]
    BY DEF ShortOnlyIfFull, Greedy
  <2>1. RequestTyped /\ ~Fits(RepOf(n), DayOf(n), c)
    BY DEF BuildInv, ShortRefused
  <2>2. PICK r \in Reps, d \in PlanDays : r = RepOf(n) /\ d = DayOf(n)
    BY CellTypes
  <2>3. /\ used[<<r, d>>] \in Nat /\ travel[<<r, d>>] \in Nat /\ days[<<r, d>>] \in Seq(Stops)
        /\ in \in AssignmentInputs /\ c \in Stops
    BY <2>1 DEF RequestTyped, AssignTypeOK, Bucket
  <2>4. /\ LegTo(r, d, c) \in Nat /\ LegBack(r, c) \in Nat /\ Len(days[<<r, d>>]) \in Nat
        /\ in.cap[r] \in Nat /\ in.travelCap[r] \in Nat /\ Service \in Nat
    BY <2>1, <2>3, LegToType, LegTypes, Points, AssignSizes
  <2>5. \/ ~(used[<<r, d>>] + LegTo(r, d, c) + Service + LegBack(r, c) <= in.cap[r])
        \/ ~(travel[<<r, d>>] + LegTo(r, d, c) + LegBack(r, c) <= in.travelCap[r])
    BY <2>1, <2>2 DEF Fits
  <2> DEFINE u == used[<<r, d>>]  t == travel[<<r, d>>]  a == LegTo(r, d, c)  b == LegBack(r, c)
             e == Len(days[<<r, d>>])  x == in.cap[r]  y == in.travelCap[r]
  <2>6. \/ u + a + Service + b + e > x \/ t + a + b + e > y
    <3> HIDE DEF u, t, a, b, e, x, y
    <3>1. \/ ~(u + a + Service + b <= x) \/ ~(t + a + b <= y)
      BY <2>5 DEF u, t, a, b, x, y
    <3>2. /\ u \in Nat /\ t \in Nat /\ a \in Nat /\ b \in Nat /\ e \in Nat /\ x \in Nat /\ y \in Nat
          /\ Service \in Nat
      BY <2>3, <2>4 DEF u, t, a, b, e, x, y
    <3>3. QED BY <3>1, <3>2
  <2>7. QED BY <2>2, <2>6
<1>2. QED BY BuildInvariant, <1>1, PTL

-----------------------------------------------------------------------------
(* The timetable of a day. Before the walk nothing has moved. On the walk  *)
(* the rep is at the last stop of a row, the break was taken if it lay     *)
(* before that stop, and the two sums of minutes differ by the way to the  *)
(* first one. Where every leg is measured, a row is reached when the       *)
(* simulation says, the break apart; the break is where the simulation     *)
(* first passes its earliest time.                                         *)

TableRow == [stop: Nat, order: Nat, arrival: Nat \cup {Gap}, travel: Nat]

\* The stops behind the rep.
Served == IF phase = "done" THEN Len(ordered) ELSE Len(rows)

DayTyped ==
  /\ todo \in DayInputs
  /\ phase \in {"sequence", "break", "walk", "return", "done", "crashed"}
  /\ ordered \in Orders
  /\ lunch \in [before: Nat, status: {"none", "on_time", "late", "skipped"}]
  /\ taken \in Nat /\ clock \in Nat /\ drive \in Nat /\ driveAll \in Nat
  /\ rows \in Seq(TableRow)

NotStarted ==
  phase \in {"sequence", "break", "crashed"} =>
    rows = <<>> /\ taken = 0 /\ clock = 0 /\ lunch = [before |-> 0, status |-> "none"]

Walking ==
  /\ Served \in 0..Len(ordered) /\ Served <= Len(rows)
  /\ phase = "return" => Served = Len(ordered)
  /\ here = IF Served = 0 THEN (IF todo.home THEN 0 ELSE Gap) ELSE ordered[Served]

\* Where the break is, and whether it is behind the rep.
BreakSet ==
  phase \in {"walk", "return", "done"} =>
    IF todo.lunch = NoBreak THEN lunch = [before |-> 0, status |-> "none"]
    ELSE \/ lunch.status \in {"on_time", "late"} /\ lunch.before \in 1..(Len(ordered) + 1)
         \/ lunch = [before |-> 0, status |-> "skipped"] /\ ~todo.lunch.hard

BreakTaken ==
  taken = IF lunch.before \in 1..(Served + (IF phase \in {"return", "done"} THEN 1 ELSE 0))
          THEN 1 ELSE 0

BreakPlanned ==
  phase \in {"walk", "return", "done"} /\ todo.lunch # NoBreak =>
    \A i \in DOMAIN ordered :
      /\ lunch.before = 0 \/ i < lunch.before => SimArrival(i) < todo.lunch.earliest
      /\ i = lunch.before => SimArrival(i) >= todo.lunch.earliest

BorderLegs ==
  driveAll - drive =
    (IF OpenRoute /\ Served > 0 THEN rows[1].travel ELSE 0)
      + (IF OpenRoute /\ phase = "done" THEN LastLeg ELSE 0)

Measured ==
  /\ HasMatrix /\ \A a, b \in 0..N : a # b => Entry(a, b) \notin {Gap, 0}
  /\ ~todo.persist /\ ~OpenRoute

OnSchedule ==
  Measured /\ phase \in {"walk", "return", "done"} =>
    /\ \A i \in 1..Served :
         rows[i].arrival = SimArrival(i)
           + (IF lunch.before \in 1..i THEN todo.lunch.minutes ELSE 0)
    /\ phase = "walk" =>
         clock = IF Served = 0 THEN 0 ELSE rows[Served].arrival + todo.service

TableInv ==
  /\ DayTyped /\ NotStarted /\ Walking /\ BreakSet /\ BreakTaken
  /\ BreakPlanned /\ BorderLegs /\ OnSchedule

\* What a day to sequence holds.
LEMMA DayFields ==
  ASSUME todo \in DayInputs
  PROVE  /\ N \in Nat /\ todo.service \in Nat /\ todo.unplaced \in Nat
         /\ \A a, b \in 0..N : Far(a, b) \in Nat /\ Entry(a, b) \in Nat \cup {Gap}
         /\ todo.lunch # NoBreak =>
              todo.lunch.earliest \in Nat /\ todo.lunch.minutes \in Nat /\ todo.lunch.hard \in BOOLEAN
         /\ todo.home \in BOOLEAN /\ todo.persist \in BOOLEAN
<1>1. N \in Nat
  BY DayRequests DEF N
<1>2. ASSUME NEW a \in 0..N, NEW b \in 0..N
      PROVE  Far(a, b) \in Nat /\ Entry(a, b) \in Nat \cup {Gap}
  <2>1. a + 1 \in 1..(N + 1) /\ b + 1 \in 1..(N + 1)
    BY <1>1
  <2> DEFINE i == a + 1
             j == b + 1
  <2>2. i \in 1..(todo.n + 1) /\ j \in 1..(todo.n + 1)
    BY <2>1 DEF N
  <2>3. Far(a, b) = todo.far[i][j] /\ Entry(a, b) = IF HasMatrix THEN todo.matrix[i][j] ELSE Gap
    BY DEF Far, Entry
  <2> HIDE DEF i, j
  <2>4. QED BY <2>2, <2>3, DayRequests DEF HasMatrix
<1>3. QED BY <1>1, <1>2, DayRequests

LEMMA OrdersAre ==
  ASSUME NEW s \in Orders, N \in Nat
  PROVE  /\ s \in Seq(1..N) /\ Len(s) \in 0..N /\ DOMAIN s = 1..Len(s)
         /\ \A i \in DOMAIN s : s[i] \in 1..N
         /\ \A i, j \in DOMAIN s : i # j => s[i] # s[j]
<1>1. PICK k \in 0..N : s \in [1..k -> 1..N] /\ \A i, j \in 1..k : i < j => s[i] < s[j]
  BY DEF Orders
<1>2. s \in Seq(1..N) /\ Len(s) = k
  BY <1>1
<1>3. \A i, j \in 1..k : i # j => s[i] # s[j]
  <2>1. SUFFICES ASSUME NEW i \in 1..k, NEW j \in 1..k, i # j PROVE s[i] # s[j]
    OBVIOUS
  <2>2. s[i] \in Int /\ s[j] \in Int
    BY <1>1
  <2>3. i < j \/ j < i
    BY <2>1
  <2>4. QED BY <1>1, <2>1, <2>2, <2>3
<1>4. QED BY <1>1, <1>2, <1>3

-----------------------------------------------------------------------------
(* The simulated walk.                                                     *)

LEMMA SimLegType ==
  ASSUME todo \in DayInputs, ordered \in Orders
  PROVE  \A k \in 1..Len(ordered) : SimLeg(k) \in Nat
<1>0. N \in Nat
  BY DayFields
<1>1. SUFFICES ASSUME NEW k \in 1..Len(ordered) PROVE SimLeg(k) \in Nat
  OBVIOUS
<1> DEFINE from == IF k = 1 THEN 0 ELSE ordered[k - 1]
           leg == IF Entry(from, ordered[k]) # Gap THEN Entry(from, ordered[k]) ELSE Far(0, ordered[k])
<1>2. ordered[k] \in 0..N /\ from \in 0..N /\ 0 \in 0..N
  BY <1>0, OrdersAre
<1>3. leg \in Nat
  <2> HIDE DEF from
  <2>1. QED BY <1>2, DayFields
<1>4. SimLeg(k) = leg + (IF k = 1 THEN 0 ELSE todo.service)
  BY DEF SimLeg
<1> HIDE DEF leg
<1>5. QED BY <1>3, <1>4, DayFields

LEMMA SimArrivals ==
  ASSUME todo \in DayInputs, ordered \in Orders
  PROVE  /\ SimArrival(0) = 0
         /\ \A i \in 0..Len(ordered) : SimArrival(i) \in Nat
         /\ \A i \in 0..(Len(ordered) - 1) : SimArrival(i + 1) = SimArrival(i) + SimLeg(i + 1)
<1>0. Len(ordered) \in Nat
  BY DayFields, OrdersAre
<1> DEFINE F(i) == [k \in 1..i |-> SimLeg(k)]
<1>1. SimArrival(0) = 0
  <2>1. 1..0 = {}
    OBVIOUS
  <2>2. QED BY <2>1, SumOfNone DEF SimArrival
<1>2. ASSUME NEW i \in 0..Len(ordered) PROVE SimArrival(i) \in Nat
  <2>1. IsFiniteSet(1..i)
    BY <1>0, FS_Interval
  <2>2. \A k \in 1..i : F(i)[k] \in Nat
    BY <1>0, SimLegType
  <2>3. SumFunctionOnSet(F(i), 1..i) \in Nat
    <3> DEFINE f == F(i)
    <3> HIDE DEF f
    <3>1. \A k \in 1..i : f[k] \in Nat
      BY <2>2 DEF f
    <3>2. SumFunctionOnSet(f, 1..i) \in Nat
      BY <2>1, <3>1, SumIsNat
    <3>3. QED BY <3>2 DEF f
  <2>4. QED BY <2>3 DEF SimArrival
<1>3. ASSUME NEW i \in 0..(Len(ordered) - 1)
      PROVE  SimArrival(i + 1) = SimArrival(i) + SimLeg(i + 1)
  <2> DEFINE f == F(i)
             g == F(i + 1)
             n == i + 1
  <2>1. i \in Nat /\ n \in Nat /\ n \in 1..Len(ordered) /\ 1..n = (1..i) \cup {n} /\ n \notin 1..i
    BY <1>0
  <2>2. IsFiniteSet(1..i)
    BY <2>1, FS_Interval
  <2>3. \A k \in 1..i : f[k] = SimLeg(k) /\ g[k] = SimLeg(k)
    BY <2>1
  <2>4. g[n] = SimLeg(n)
    BY <2>1
  <2>5. \A k \in (1..i) \cup {n} : g[k] \in Int
    BY <2>1, <2>3, <2>4, <1>0, SimLegType
  <2>6. SimArrival(i) = SumFunctionOnSet(f, 1..i) /\ SimArrival(n) = SumFunctionOnSet(g, 1..n)
    BY DEF SimArrival
  <2> HIDE DEF f, g
  <2>7. SumFunctionOnSet(g, (1..i) \cup {n}) = g[n] + SumFunctionOnSet(g, 1..i)
    BY <2>1, <2>2, <2>5, SumWith
  <2>8. SumFunctionOnSet(g, 1..i) = SumFunctionOnSet(f, 1..i)
    <3>1. \A k \in 1..i : g[k] = f[k]
      BY <2>3
    <3>2. QED BY <2>2, <3>1, SumOfSame
  <2>9. SimArrival(i) \in Nat /\ SimLeg(n) \in Nat
    BY <1>0, <1>2, <2>1, SimLegType
  <2> HIDE DEF n
  <2>10. SimArrival(n) = SimArrival(i) + SimLeg(n)
    <3>1. SimArrival(n) = SumFunctionOnSet(g, (1..i) \cup {n})
      BY <2>1, <2>6, Zenon
    <3>2. SimArrival(n) = SimLeg(n) + SimArrival(i)
      BY <2>4, <2>6, <2>7, <2>8, <3>1, Zenon
    <3>3. QED BY <2>9, <3>2
  <2>11. QED BY <2>10 DEF n
<1>4. QED BY <1>1, <1>2, <1>3

-----------------------------------------------------------------------------
(* The steps.                                                              *)

LEMMA TableStart == TableInit => TableInv
<1> SUFFICES ASSUME TableInit PROVE TableInv
  OBVIOUS
<1> USE DEF TableInit
<1>1. todo \in DayInputs /\ N \in Nat
  BY DayFields
<1>2. <<>> \in Orders
  <2>1. 0 \in 0..N
    BY <1>1
  <2>2. <<>> \in [1..0 -> 1..N] /\ \A i, j \in 1..0 : FALSE
    OBVIOUS
  <2>3. <<>> \in {s \in [1..0 -> 1..N] : \A i, j \in 1..0 : i < j => s[i] < s[j]}
    BY <2>2
  <2>4. QED BY <2>1, <2>3 DEF Orders
<1>3. DayTyped
  BY <1>1, <1>2 DEF DayTyped
<1>4. NotStarted /\ Walking /\ BreakSet /\ BreakTaken
  BY DEF NotStarted, Walking, BreakSet, BreakTaken, Served
<1>5. BreakPlanned /\ BorderLegs /\ OnSchedule
  BY DEF BreakPlanned, BorderLegs, OnSchedule, Served
<1>6. QED BY <1>3, <1>4, <1>5 DEF TableInv

LEMMA SequenceStep ==
  ASSUME TableInv, NEW order \in Orders, Sequence(order)
  PROVE  TableInv'
<1> USE DEF TableInv, Sequence
<1>1. rows = <<>> /\ taken = 0 /\ clock = 0 /\ lunch = [before |-> 0, status |-> "none"]
      /\ Served = 0 /\ Served' = 0 /\ phase' \in {"break", "crashed"}
  BY DEF NotStarted, Served
<1>2. N' = N /\ Orders' = Orders /\ OpenRoute' = OpenRoute /\ LastLeg' = LastLeg
  BY DEF N, Orders, OpenRoute, LastLeg, Entry, HasMatrix, HasDepot, Far
<1>3. ordered' \in Orders
  BY DEF DayTyped
<1>4. DayTyped'
  BY <1>1, <1>2, <1>3 DEF DayTyped
<1>5. NotStarted'
  BY <1>1 DEF NotStarted
<1>6. Walking'
  <2>1. Len(ordered') \in Nat
    BY <1>3, DayFields, OrdersAre DEF DayTyped
  <2>2. here = IF todo.home THEN 0 ELSE Gap
    BY <1>1 DEF Walking
  <2>3. QED BY <1>1, <2>1, <2>2 DEF Walking
<1>7. BreakSet' /\ BreakTaken' /\ BreakPlanned' /\ OnSchedule'
  BY <1>1 DEF BreakSet, BreakTaken, BreakPlanned, OnSchedule
<1>8. BorderLegs'
  <2>1. driveAll - drive = 0
    BY <1>1 DEF BorderLegs, DayTyped
  <2>2. QED BY <1>1, <2>1 DEF BorderLegs
<1>9. QED BY <1>4, <1>5, <1>6, <1>7, <1>8

LEMMA PlanBreakStep ==
  ASSUME TableInv, PlanBreak
  PROVE  TableInv'
<1> USE DEF TableInv, PlanBreak
<1>0. todo \in DayInputs /\ ordered \in Orders /\ N \in Nat
  BY DayFields DEF DayTyped
<1>1. rows = <<>> /\ taken = 0 /\ clock = 0 /\ lunch = [before |-> 0, status |-> "none"]
      /\ Served = 0 /\ Served' = 0 /\ phase' \in {"walk", "crashed"}
  BY DEF NotStarted, Served
<1>2. /\ N' = N /\ Orders' = Orders /\ OpenRoute' = OpenRoute /\ LastLeg' = LastLeg
      /\ \A i : SimArrival(i)' = SimArrival(i)
  BY DEF N, Orders, OpenRoute, LastLeg, Entry, HasMatrix, HasDepot, Far, SimArrival, SimLeg
<1>3. Len(ordered) \in Nat /\ DOMAIN ordered = 1..Len(ordered)
  BY <1>0, OrdersAre
<1>4. \A i \in DOMAIN ordered : SimArrival(i) \in Nat
  BY <1>0, <1>3, SimArrivals
<1>5. /\ DayTyped' /\ NotStarted' /\ BreakSet' /\ BreakPlanned'
  <2>1. CASE todo.lunch = NoBreak
    <3>1. phase' = "walk" /\ lunch' = lunch
      BY <2>1
    <3>2. QED BY <2>1, <3>1, <1>1, <1>2 DEF DayTyped, NotStarted, BreakSet, BreakPlanned
  <2>2. CASE todo.lunch # NoBreak /\ phase' = "crashed"
    <3>1. lunch' = lunch
      BY <2>2
    <3>2. QED BY <2>2, <3>1, <1>1, <1>2 DEF DayTyped, NotStarted, BreakSet, BreakPlanned
  <2>3. CASE todo.lunch # NoBreak /\ phase' = "walk"
    <3>0. todo.lunch.earliest \in Nat /\ todo.lunch.hard \in BOOLEAN
      BY <1>0, <2>3, DayFields
    <3>1. CASE ReachedAfter # {}
      <4> DEFINE m == Min(ReachedAfter)
      <4>1. m \in ReachedAfter /\ \A y \in ReachedAfter : m <= y
        <5>1. ReachedAfter \subseteq Int /\ IsFiniteSet(ReachedAfter)
          <6>1. ReachedAfter \subseteq 1..Len(ordered)
            BY <1>3 DEF ReachedAfter
          <6>2. IsFiniteSet(1..Len(ordered))
            BY <1>3, FS_Interval
          <6>3. IsFiniteSet(ReachedAfter)
            BY <6>1, <6>2, FS_Subset
          <6>4. QED BY <6>1, <6>3, <1>3
        <5>2. \E k \in ReachedAfter : \A y \in ReachedAfter : k <= y
          BY <3>1, <5>1, MinExists
        <5>3. QED BY <5>2 DEF Min
      <4>2. lunch'.before = m /\ lunch'.status \in {"on_time", "late"} /\ lunch' = [before |-> lunch'.before, status |-> lunch'.status]
        BY <2>3, <3>1
      <4> HIDE DEF m
      <4>3. m \in 1..Len(ordered) /\ SimArrival(m) >= todo.lunch.earliest
        BY <4>1, <1>3 DEF ReachedAfter
      <4>4. \A i \in DOMAIN ordered : i < m => SimArrival(i) < todo.lunch.earliest
        <5>1. SUFFICES ASSUME NEW i \in DOMAIN ordered, i < m PROVE SimArrival(i) < todo.lunch.earliest
          OBVIOUS
        <5>2. i \notin ReachedAfter
          BY <4>1, <4>3, <5>1, <1>3
        <5>3. ~(SimArrival(i) >= todo.lunch.earliest)
          BY <5>2 DEF ReachedAfter
        <5>4. QED BY <5>3, <1>4, <3>0
      <4>5. DayTyped'
        BY <4>2, <4>3, <1>1, <1>2, <2>3 DEF DayTyped
      <4>6. BreakSet'
        BY <4>2, <4>3, <1>3, <2>3 DEF BreakSet
      <4>7. BreakPlanned'
        BY <4>2, <4>3, <4>4, <1>2, <1>3, <2>3 DEF BreakPlanned
      <4>8. QED BY <4>5, <4>6, <4>7, <2>3 DEF NotStarted
    <3>2. CASE ReachedAfter = {}
      <4>1. \A i \in DOMAIN ordered : SimArrival(i) < todo.lunch.earliest
        BY <3>2, <1>4, <3>0 DEF ReachedAfter
      <4>2. CASE todo.lunch.hard
        <5>1. lunch' = [before |-> Len(ordered) + 1, status |-> "late"]
          BY <2>3, <3>2, <4>2
        <5>2. \A i \in DOMAIN ordered : i # Len(ordered) + 1
          BY <1>3
        <5>3. QED BY <4>1, <5>1, <5>2, <1>1, <1>2, <1>3, <2>3 DEF DayTyped, NotStarted, BreakSet, BreakPlanned
      <4>3. CASE ~todo.lunch.hard
        <5>1. lunch' = [before |-> 0, status |-> "skipped"]
          BY <2>3, <3>2, <4>3
        <5>2. \A i \in DOMAIN ordered : i # 0
          BY <1>3
        <5>3. QED BY <4>1, <4>3, <5>1, <5>2, <1>1, <1>2, <2>3 DEF DayTyped, NotStarted, BreakSet, BreakPlanned
      <4>4. QED BY <4>2, <4>3
    <3>3. QED BY <3>1, <3>2
  <2>4. QED BY <2>1, <2>2, <2>3, <1>1
<1>6. Walking'
  BY <1>1, <1>3 DEF Walking
<1>7. BreakTaken'
  <2>1. lunch'.before \in Nat
    BY <1>5 DEF DayTyped
  <2>2. QED BY <1>1, <2>1 DEF BreakTaken
<1>8. BorderLegs'
  <2>1. driveAll - drive = 0
    BY <1>1 DEF BorderLegs, DayTyped
  <2>2. phase' # "done" /\ drive' = drive /\ driveAll' = driveAll
    BY <1>1
  <2>3. QED BY <1>1, <2>1, <2>2 DEF BorderLegs
<1>9. OnSchedule'
  BY <1>1 DEF OnSchedule
<1>10. QED BY <1>5, <1>6, <1>7, <1>8, <1>9

\* The way home is a number of minutes.
LEMMA LastLegType ==
  ASSUME todo \in DayInputs, here \in 0..N \cup {Gap}
  PROVE  LastLeg \in Nat
<1>1. CASE ~todo.home \/ here \in {0, Gap}
  BY <1>1 DEF LastLeg
<1>2. CASE ~(~todo.home \/ here \in {0, Gap})
  <2>1. here \in 0..N /\ 0 \in 0..N
    BY <1>2, DayFields
  <2>2. Far(here, 0) \in Nat /\ Entry(here, 0) \in Nat \cup {Gap}
    BY <2>1, DayFields
  <2>3. QED BY <1>2, <2>2 DEF LastLeg
<1>3. QED BY <1>1, <1>2

\* Where the rep is.
LEMMA WhereWeAre ==
  ASSUME DayTyped, Walking
  PROVE  here \in 0..N \cup {Gap}
<1>1. todo \in DayInputs /\ ordered \in Orders /\ N \in Nat
  BY DayFields DEF DayTyped
<1>2. CASE Served = 0
  BY <1>1, <1>2, DayFields DEF Walking
<1>3. CASE Served # 0
  <2>1. Len(ordered) \in Nat /\ DOMAIN ordered = 1..Len(ordered) /\ \A i \in DOMAIN ordered : ordered[i] \in 1..N
    BY <1>1, OrdersAre
  <2>2. Served \in DOMAIN ordered
    <3>1. Served \in 0..Len(ordered)
      BY DEF Walking
    <3>2. QED BY <1>3, <2>1, <3>1
  <2>3. ordered[Served] \in 1..N
    BY <2>1, <2>2
  <2>4. here = ordered[Served]
    BY <1>3 DEF Walking
  <2>5. QED BY <2>3, <2>4, <1>1
<1>4. QED BY <1>2, <1>3

LEMMA TravelType ==
  ASSUME todo \in DayInputs, here \in 0..N \cup {Gap}, NEW s \in 1..N,
         NEW answer \in Answers, NEW caution \in BOOLEAN
  PROVE  Travel(s, answer, caution) \in Nat
<1> DEFINE known == IF answer > 0 THEN answer
                    ELSE IF here = Gap \/ Entry(here, s) = Gap THEN 0 ELSE Entry(here, s)
           slow == IF caution THEN (3 * known) \div 2 ELSE known
<1>1. N \in Nat /\ answer \in Nat /\ s \in 0..N
  BY DayFields, TravelTimes
<1>2. here # Gap => Entry(here, s) \in Nat \cup {Gap} /\ Far(here, s) \in Nat
  BY <1>1, DayFields
<1>3. known \in Nat
  BY <1>1, <1>2
<1> HIDE DEF known
<1>4. slow \in Nat
  BY <1>3
<1>5. Travel(s, answer, caution) = IF slow # 0 THEN slow ELSE IF here = Gap THEN 0 ELSE Far(here, s)
  BY DEF Travel, known
<1> HIDE DEF slow
<1>6. QED BY <1>2, <1>4, <1>5

\* On a full matrix, without routes, a leg takes what the simulation says.
LEMMA MeasuredLeg ==
  ASSUME TableInv, Measured, phase = "walk", NEW i, i = Len(rows) + 1, i \in DOMAIN ordered
  PROVE  /\ Travel(ordered[i], 0, FALSE)
              = SimLeg(i) - (IF i = 1 THEN 0 ELSE todo.service)
         /\ Served = i - 1 /\ i \in 1..Len(ordered)
<1>1. todo \in DayInputs /\ ordered \in Orders /\ N \in Nat
  BY DayFields DEF TableInv, DayTyped
<1>2. /\ Len(ordered) \in Nat /\ DOMAIN ordered = 1..Len(ordered)
      /\ \A k \in DOMAIN ordered : ordered[k] \in 1..N
      /\ \A k, l \in DOMAIN ordered : k # l => ordered[k] # ordered[l]
  BY <1>1, OrdersAre
<1>3. Len(rows) \in Nat /\ Served = Len(rows) /\ Served = i - 1
  BY DEF TableInv, DayTyped, Served
<1>4. todo.home
  BY DayRequests, <1>1 DEF Measured, OpenRoute, HasMatrix, HasDepot
<1>5. here = IF i = 1 THEN 0 ELSE ordered[i - 1]
  BY <1>3, <1>4 DEF TableInv, Walking
<1>6. here \in 0..N /\ ordered[i] \in 0..N /\ here # ordered[i] /\ here # Gap
  <2>1. CASE i = 1
    BY <1>1, <1>2, <1>5, <2>1, TravelTimes
  <2>2. CASE i # 1
    <3>1. i - 1 \in DOMAIN ordered /\ i - 1 # i
      BY <1>2, <2>2
    <3>2. here = ordered[i - 1] /\ ordered[i - 1] # ordered[i] /\ ordered[i - 1] \in 1..N
      BY <1>2, <1>5, <2>2, <3>1
    <3>3. QED BY <1>1, <1>2, <3>2, TravelTimes
  <2>3. QED BY <2>1, <2>2
<1>7. Entry(here, ordered[i]) \in Nat /\ Entry(here, ordered[i]) # 0
  <2>1. Entry(here, ordered[i]) \notin {Gap, 0}
    BY <1>6 DEF Measured
  <2>2. QED BY <2>1, <1>1, <1>6, DayFields
<1>8. Entry(here, ordered[i]) # Gap
  BY <1>7, TravelTimes
<1>9. Travel(ordered[i], 0, FALSE) = Entry(here, ordered[i])
  BY <1>6, <1>7, <1>8 DEF Travel
<1>10. SimLeg(i) = Entry(here, ordered[i]) + (IF i = 1 THEN 0 ELSE todo.service)
  BY <1>5, <1>8 DEF SimLeg
<1>11. todo.service \in Nat
  BY <1>1, DayFields
<1> DEFINE e == Entry(here, ordered[i])
           v == IF i = 1 THEN 0 ELSE todo.service
<1>12. e \in Nat /\ v \in Nat /\ SimLeg(i) = e + v /\ Travel(ordered[i], 0, FALSE) = e
  BY <1>7, <1>9, <1>10, <1>11
<1>13. Travel(ordered[i], 0, FALSE) = SimLeg(i) - v
  <2> DEFINE leg == SimLeg(i)
             way == Travel(ordered[i], 0, FALSE)
  <2>1. e \in Nat /\ v \in Nat /\ leg = e + v /\ way = e
    BY <1>12
  <2> HIDE DEF e, v, leg, way
  <2>2. way = leg - v
    BY <2>1
  <2>3. QED BY <2>2 DEF leg, way
<1>14. QED BY <1>2, <1>3, <1>13

LEMMA VisitStep ==
  ASSUME TableInv, NEW answer \in Answers, NEW caution \in BOOLEAN, Visit(answer, caution)
  PROVE  TableInv'
<1> DEFINE i == Len(rows) + 1
           s == ordered[i]
           minutes == Travel(s, answer, caution)
           border == OpenRoute /\ i = 1
           arrival == clock + BreakAt(i) + (IF border THEN 0 ELSE minutes)
           new == [stop |-> s, order |-> i, arrival |-> arrival, travel |-> minutes]
<1>1. /\ phase = "walk" /\ i \in DOMAIN ordered
      /\ answer > 0 => todo.persist
      /\ caution => answer > 0
      /\ rows' = Append(rows, new)
      /\ taken' = taken + (IF BreakHere(i) THEN 1 ELSE 0)
      /\ clock' = arrival + todo.service
      /\ drive' = drive + (IF border THEN 0 ELSE minutes)
      /\ driveAll' = driveAll + minutes
      /\ here' = s
      /\ UNCHANGED <<todo, phase, ordered, lunch>>
  BY DEF Visit
<1>2. /\ DayTyped /\ Walking /\ BreakSet /\ BreakTaken /\ BreakPlanned /\ BorderLegs /\ OnSchedule
      /\ todo \in DayInputs /\ ordered \in Orders /\ N \in Nat
  BY DayFields DEF TableInv, DayTyped
<1>3. /\ N' = N /\ Orders' = Orders /\ OpenRoute' = OpenRoute /\ Measured' = Measured
      /\ \A k : SimArrival(k)' = SimArrival(k)
  BY <1>1 DEF N, Orders, OpenRoute, Entry, HasMatrix, HasDepot, SimArrival, SimLeg, Far, Measured
<1>4. /\ Len(ordered) \in Nat /\ DOMAIN ordered = 1..Len(ordered)
      /\ \A k \in DOMAIN ordered : ordered[k] \in 1..N
  BY <1>2, OrdersAre
<1>5. rows \in Seq(TableRow) /\ Len(rows) \in Nat /\ i \in Nat /\ i \in 1..Len(ordered) /\ i - 1 = Len(rows)
  BY <1>1, <1>2, <1>4 DEF DayTyped
<1>6. Served = i - 1 /\ Served' = i
  <2>1. Len(rows') = Len(rows) + 1
    BY <1>1, <1>5
  <2>2. QED BY <1>1, <1>5, <2>1 DEF Served
<1>7. here \in 0..N \cup {Gap} /\ s \in 1..N
  BY <1>1, <1>2, <1>4, WhereWeAre
<1>8. minutes \in Nat
  BY <1>2, <1>7, TravelType
<1>9. BreakAt(i) \in Nat /\ todo.service \in Nat
  <2>1. BreakHere(i) => todo.lunch.minutes \in Nat
    BY <1>1, <1>2, DayFields DEF BreakHere, BreakSet
  <2>2. QED BY <2>1, <1>2, DayFields DEF BreakAt
<1>10. clock \in Nat /\ taken \in Nat /\ drive \in Nat /\ driveAll \in Nat /\ lunch.before \in Nat
  BY <1>2 DEF DayTyped
<1> HIDE DEF minutes
<1>11. arrival \in Nat
  BY <1>8, <1>9, <1>10
<1>12. /\ Len(rows') = i /\ rows'[i] = new /\ \A k \in 1..(i - 1) : rows'[k] = rows[k]
  BY <1>1, <1>5
<1> HIDE DEF arrival
<1>13. new \in TableRow
  BY <1>5, <1>7, <1>8, <1>11, <1>2 DEF TableRow
<1>14. DayTyped'
  <2>1. rows' \in Seq(TableRow)
    BY <1>1, <1>5, <1>13
  <2>2. taken' \in Nat /\ clock' \in Nat /\ drive' \in Nat /\ driveAll' \in Nat
    BY <1>1, <1>8, <1>9, <1>10, <1>11
  <2>3. TableRow' = TableRow
    BY DEF TableRow
  <2>4. QED BY <2>1, <2>2, <2>3, <1>1, <1>2, <1>3 DEF DayTyped
<1>15. NotStarted'
  BY <1>1 DEF NotStarted
<1>16. Walking'
  BY <1>1, <1>5, <1>6, <1>12 DEF Walking
<1>17. BreakSet'
  BY <1>1, <1>2 DEF BreakSet
<1>18. BreakTaken'
  <2>1. BreakHere(i) <=> lunch.before = i
    BY <1>1, <1>2, <1>5 DEF BreakSet, BreakHere
  <2>2. taken = IF lunch.before \in 1..(i - 1) THEN 1 ELSE 0
    BY <1>1, <1>2, <1>5, <1>6 DEF BreakTaken
  <2>3. taken' = IF lunch.before \in 1..i THEN 1 ELSE 0
    BY <1>1, <2>1, <2>2, <1>10, <1>5
  <2>4. QED BY <1>1, <2>3, <1>5, <1>6 DEF BreakTaken
<1>19. BreakPlanned'
  BY <1>1, <1>2, <1>3 DEF BreakPlanned
<1>20. BorderLegs'
  <2>0. i # 1 => rows[1].travel \in Nat
    <3>1. i # 1 => 1 \in DOMAIN rows
      BY <1>5
    <3>2. i # 1 => rows[1] \in TableRow
      BY <1>5, <3>1
    <3>3. QED BY <3>2 DEF TableRow
  <2>1. driveAll - drive = IF OpenRoute /\ i # 1 THEN rows[1].travel ELSE 0
    <3>1. driveAll - drive = (IF OpenRoute /\ Served > 0 THEN rows[1].travel ELSE 0) + 0
      BY <1>1, <1>2 DEF BorderLegs
    <3>2. Served > 0 <=> i # 1
      BY <1>5, <1>6
    <3> HIDE DEF i
    <3>3. QED BY <2>0, <3>1, <3>2
  <2>2. i # 1 => rows'[1] = rows[1]
    BY <1>5, <1>12
  <2>3. i = 1 => rows'[1].travel = minutes
    BY <1>12
  <2>5. driveAll' - drive' = IF OpenRoute THEN rows'[1].travel ELSE 0
    <3>1. drive' = drive + (IF OpenRoute /\ i = 1 THEN 0 ELSE minutes) /\ driveAll' = driveAll + minutes
      BY <1>1
    <3> HIDE DEF i
    <3>2. CASE i = 1
      BY <2>1, <2>3, <3>1, <3>2, <1>8, <1>10
    <3>3. CASE i # 1
      BY <2>0, <2>1, <2>2, <3>1, <3>3, <1>8, <1>10
    <3>4. QED BY <3>2, <3>3
  <2>6. QED BY <2>5, <1>1, <1>3, <1>5, <1>6 DEF BorderLegs
<1>21. OnSchedule'
  <2>1. SUFFICES ASSUME Measured PROVE OnSchedule'
    BY <1>3 DEF OnSchedule
  <2>2. ~todo.persist /\ ~OpenRoute /\ answer \in Nat
    BY <2>1, TravelTimes DEF Measured
  <2>3. answer = 0 /\ caution = FALSE /\ ~border
    BY <1>1, <2>2
  <2>4. minutes = SimLeg(i) - (IF i = 1 THEN 0 ELSE todo.service)
    BY <1>1, <2>1, <2>3, MeasuredLeg DEF minutes
  <2>5. SimArrival(i - 1) \in Nat /\ SimArrival(i) = SimArrival(i - 1) + SimLeg(i) /\ SimLeg(i) \in Nat
        /\ (i = 1 => SimArrival(i - 1) = 0)
    <3>1. i - 1 \in 0..(Len(ordered) - 1) /\ (i - 1) + 1 = i
      BY <1>5, <1>4
    <3>2. QED BY <3>1, <1>2, <1>4, SimArrivals, SimLegType
  <2>6. BreakAt(i) = IF lunch.before = i THEN todo.lunch.minutes ELSE 0
    <3>1. BreakHere(i) <=> lunch.before = i
      BY <1>1, <1>2, <1>5 DEF BreakSet, BreakHere
    <3>2. QED BY <3>1 DEF BreakAt
  <2>7. clock = IF i = 1 THEN 0
                ELSE SimArrival(i - 1) + (IF lunch.before \in 1..(i - 1) THEN todo.lunch.minutes ELSE 0)
                       + todo.service
    <3>1. clock = IF i - 1 = 0 THEN 0 ELSE rows[i - 1].arrival + todo.service
      BY <1>1, <1>2, <1>6, <2>1 DEF OnSchedule
    <3>2. i # 1 => i - 1 \in 1..Served
      BY <1>5, <1>6
    <3>3. i # 1 => rows[i - 1].arrival = SimArrival(i - 1)
                     + (IF lunch.before \in 1..(i - 1) THEN todo.lunch.minutes ELSE 0)
      BY <1>1, <1>2, <3>2, <2>1 DEF OnSchedule
    <3>4. QED BY <3>1, <3>3, <1>5
  <2>8. arrival = SimArrival(i) + (IF lunch.before \in 1..i THEN todo.lunch.minutes ELSE 0)
    <3>0. arrival = clock + BreakAt(i) + minutes
      BY <2>3 DEF arrival
    <3>1. lunch.before \in 1..i => todo.lunch.minutes \in Nat
      BY <1>1, <1>2, <1>5, DayFields DEF BreakSet
    <3> DEFINE m == todo.lunch.minutes
               b == lunch.before
               v == todo.service
               A == SimArrival(i - 1)
               L == SimLeg(i)
    <3>2. /\ b \in Nat /\ (b \in 1..i => m \in Nat) /\ v \in Nat /\ A \in Nat /\ L \in Nat
          /\ i \in Nat /\ i >= 1 /\ (i = 1 => A = 0)
          /\ minutes = L - (IF i = 1 THEN 0 ELSE v)
          /\ clock = (IF i = 1 THEN 0 ELSE A + (IF b \in 1..(i - 1) THEN m ELSE 0) + v)
          /\ BreakAt(i) = (IF b = i THEN m ELSE 0)
          /\ SimArrival(i) = A + L
      BY <2>4, <2>5, <2>6, <2>7, <1>5, <1>9, <1>10, <3>1
    <3> HIDE DEF m, b, v, A, L, i
    <3>3. clock + BreakAt(i) + minutes = A + L + (IF b \in 1..i THEN m ELSE 0)
      <4>1. CASE i = 1
        BY <3>2, <4>1
      <4>2. CASE i # 1 /\ b = i
        BY <3>2, <4>2
      <4>3. CASE i # 1 /\ b # i /\ b \in 1..i
        BY <3>2, <4>3
      <4>4. CASE i # 1 /\ b \notin 1..i
        BY <3>2, <4>4
      <4>5. QED BY <4>1, <4>2, <4>3, <4>4
    <3>4. QED BY <3>0, <3>2, <3>3 DEF b, m
  <2>9. \A k \in 1..i : rows'[k].arrival
          = SimArrival(k) + (IF lunch.before \in 1..k THEN todo.lunch.minutes ELSE 0)
    <3>1. SUFFICES ASSUME NEW k \in 1..i
                   PROVE  rows'[k].arrival
                            = SimArrival(k) + (IF lunch.before \in 1..k THEN todo.lunch.minutes ELSE 0)
      OBVIOUS
    <3>2. CASE k = i
      BY <3>2, <1>12, <2>8
    <3>3. CASE k # i
      <4>1. k \in 1..Served /\ k \in 1..(i - 1)
        BY <3>3, <1>5, <1>6
      <4>2. rows'[k] = rows[k]
        BY <4>1, <1>12
      <4>3. QED BY <4>1, <4>2, <1>1, <1>2, <2>1 DEF OnSchedule
    <3>4. QED BY <3>2, <3>3
  <2>10. clock' = rows'[i].arrival + todo.service
    BY <1>1, <1>12
  <2>11. QED BY <2>9, <2>10, <1>1, <1>3, <1>5, <1>6 DEF OnSchedule
<1>22. QED BY <1>14, <1>15, <1>16, <1>17, <1>18, <1>19, <1>20, <1>21 DEF TableInv

LEMMA EndOfDayStep ==
  ASSUME TableInv, EndOfDayBreak
  PROVE  TableInv'
<1> DEFINE i == Len(ordered) + 1
<1>1. /\ phase = "walk" /\ phase' = "return" /\ Len(rows) = Len(ordered)
      /\ clock' = clock + BreakAt(i)
      /\ taken' = taken + (IF BreakHere(i) THEN 1 ELSE 0)
      /\ UNCHANGED <<todo, ordered, lunch, here, rows, drive, driveAll>>
  BY DEF EndOfDayBreak
<1>2. /\ DayTyped /\ Walking /\ BreakSet /\ BreakTaken /\ BreakPlanned /\ BorderLegs /\ OnSchedule
      /\ todo \in DayInputs /\ ordered \in Orders /\ N \in Nat
  BY DayFields DEF TableInv, DayTyped
<1>3. /\ N' = N /\ Orders' = Orders /\ OpenRoute' = OpenRoute /\ Measured' = Measured
      /\ \A k : SimArrival(k)' = SimArrival(k)
  BY <1>1 DEF N, Orders, OpenRoute, Entry, HasMatrix, HasDepot, SimArrival, SimLeg, Far, Measured
<1>4. Len(ordered) \in Nat /\ i \in Nat /\ i - 1 = Len(ordered)
  BY <1>2, OrdersAre
<1>5. Served = Len(ordered) /\ Served' = Len(ordered)
  BY <1>1 DEF Served
<1>6. taken \in Nat /\ clock \in Nat /\ lunch.before \in Nat
  BY <1>2 DEF DayTyped
<1>7. BreakAt(i) \in Nat
  <2>1. BreakHere(i) => todo.lunch.minutes \in Nat
    BY <1>1, <1>2, <1>4, DayFields DEF BreakHere, BreakSet
  <2>2. QED BY <2>1 DEF BreakAt
<1>8. DayTyped'
  BY <1>1, <1>2, <1>3, <1>6, <1>7 DEF DayTyped, TableRow
<1>9. NotStarted' /\ BreakSet' /\ BreakPlanned'
  BY <1>1, <1>2, <1>3 DEF NotStarted, BreakSet, BreakPlanned
<1>10. Walking'
  BY <1>1, <1>2, <1>4, <1>5 DEF Walking
<1>11. BreakTaken'
  <2>1. BreakHere(i) <=> lunch.before = i
    BY <1>1, <1>2, <1>4 DEF BreakSet, BreakHere
  <2>2. taken = IF lunch.before \in 1..(i - 1) THEN 1 ELSE 0
    <3>1. taken = IF lunch.before \in 1..(Served + 0) THEN 1 ELSE 0
      BY <1>1, <1>2 DEF BreakTaken
    <3>2. QED BY <3>1, <1>4, <1>5
  <2> HIDE DEF i
  <2>3. taken' = IF lunch.before \in 1..i THEN 1 ELSE 0
    BY <1>1, <2>1, <2>2, <1>4, <1>6
  <2>4. QED BY <1>1, <2>3, <1>5 DEF BreakTaken, i
<1>12. BorderLegs'
  <2>1. driveAll - drive = (IF OpenRoute /\ Served > 0 THEN rows[1].travel ELSE 0) + 0
    BY <1>1, <1>2 DEF BorderLegs
  <2>2. QED BY <2>1, <1>1, <1>3, <1>5 DEF BorderLegs
<1>13. OnSchedule'
  BY <1>1, <1>2, <1>3, <1>5 DEF OnSchedule
<1>14. QED BY <1>8, <1>9, <1>10, <1>11, <1>12, <1>13 DEF TableInv

LEMMA ReturnStep ==
  ASSUME TableInv, Return
  PROVE  TableInv'
<1> DEFINE tail == [k \in 1..todo.unplaced |->
                      [stop |-> N + k, order |-> Len(rows) + k, arrival |-> Gap, travel |-> 0]]
<1>1. /\ phase = "return" /\ phase' = "done"
      /\ drive' = drive + WorkingLastLeg /\ driveAll' = driveAll + LastLeg
      /\ rows' = rows \o tail
      /\ UNCHANGED <<todo, ordered, lunch, taken, clock, here>>
  BY DEF Return
<1>2. /\ DayTyped /\ Walking /\ BreakSet /\ BreakTaken /\ BreakPlanned /\ BorderLegs /\ OnSchedule
      /\ todo \in DayInputs /\ ordered \in Orders /\ N \in Nat /\ todo.unplaced \in Nat
  BY DayFields DEF TableInv, DayTyped
<1>3. /\ N' = N /\ Orders' = Orders /\ OpenRoute' = OpenRoute /\ Measured' = Measured
      /\ LastLeg' = LastLeg /\ \A k : SimArrival(k)' = SimArrival(k)
  BY <1>1 DEF N, Orders, OpenRoute, Entry, HasMatrix, HasDepot, SimArrival, SimLeg, Far, Measured, LastLeg
<1>4. Len(ordered) \in Nat
  BY <1>2, OrdersAre
<1>5. Served = Len(ordered) /\ Served' = Len(ordered) /\ Len(rows) = Len(ordered)
  BY <1>1, <1>2 DEF Served, Walking
<1>6. rows \in Seq(TableRow) /\ drive \in Nat /\ driveAll \in Nat
  BY <1>2 DEF DayTyped
<1>7. tail \in Seq(TableRow) /\ Len(tail) = todo.unplaced
  <2>1. \A k \in 1..todo.unplaced :
          [stop |-> N + k, order |-> Len(rows) + k, arrival |-> Gap, travel |-> 0] \in TableRow
    BY <1>2, <1>4, <1>5 DEF TableRow
  <2>2. QED BY <2>1, <1>2
<1> HIDE DEF tail
<1>8. /\ rows' \in Seq(TableRow) /\ Len(rows') = Len(rows) + Len(tail)
      /\ \A k \in 1..Len(rows) : rows'[k] = rows[k]
  <2> DEFINE r == rows
  <2>1. r \in Seq(TableRow) /\ tail \in Seq(TableRow)
    BY <1>6, <1>7
  <2> HIDE DEF r
  <2>2. /\ r \o tail \in Seq(TableRow) /\ Len(r \o tail) = Len(r) + Len(tail)
        /\ \A k \in 1..Len(r) : (r \o tail)[k] = r[k]
    BY <2>1
  <2>3. QED BY <2>2, <1>1 DEF r
<1>9. LastLeg \in Nat
  BY <1>2, WhereWeAre, LastLegType
<1>10. DayTyped'
  BY <1>1, <1>2, <1>3, <1>6, <1>8, <1>9 DEF DayTyped, TableRow, WorkingLastLeg
<1>11. NotStarted' /\ BreakSet' /\ BreakPlanned' /\ BreakTaken'
  BY <1>1, <1>2, <1>3, <1>5 DEF NotStarted, BreakSet, BreakPlanned, BreakTaken
<1>12. Walking'
  <2>1. Len(ordered) <= Len(rows')
    BY <1>4, <1>5, <1>7, <1>8, <1>2
  <2>2. QED BY <2>1, <1>1, <1>2, <1>4, <1>5 DEF Walking
<1>13. BorderLegs'
  <2>1. driveAll - drive = (IF OpenRoute /\ Served > 0 THEN rows[1].travel ELSE 0) + 0
    BY <1>1, <1>2 DEF BorderLegs
  <2> DEFINE first == IF OpenRoute /\ Served > 0 THEN rows[1].travel ELSE 0
             back == IF OpenRoute THEN LastLeg ELSE 0
  <2>2. Served > 0 => 1 \in 1..Len(rows) /\ rows[1] \in TableRow /\ rows'[1] = rows[1]
    BY <1>4, <1>5, <1>6, <1>8
  <2>3. first \in Nat
    BY <2>2 DEF TableRow
  <2>4. back \in Nat /\ WorkingLastLeg = LastLeg - back
    BY <1>9 DEF WorkingLastLeg
  <2>5. driveAll' - drive' = first + back
    <3> HIDE DEF first, back
    <3>1. driveAll - drive = first
      BY <2>1, <2>3 DEF first
    <3>2. QED BY <3>1, <2>3, <2>4, <1>1, <1>6, <1>9
  <2>6. (IF OpenRoute' /\ Served' > 0 THEN rows'[1].travel ELSE 0) = first
    BY <2>2, <1>3, <1>5
  <2>7. (IF OpenRoute' /\ phase' = "done" THEN LastLeg' ELSE 0) = back
    BY <1>1, <1>3
  <2> HIDE DEF first, back
  <2>8. QED BY <2>5, <2>6, <2>7 DEF BorderLegs
<1>14. OnSchedule'
  <2>1. \A k \in 1..Served : rows'[k] = rows[k]
    BY <1>5, <1>8
  <2>2. QED BY <2>1, <1>1, <1>2, <1>3, <1>5 DEF OnSchedule
<1>15. QED BY <1>10, <1>11, <1>12, <1>13, <1>14 DEF TableInv

LEMMA TableStep == TableInv /\ [TableNext]_tableVars => TableInv'
<1> SUFFICES ASSUME TableInv, [TableNext]_tableVars PROVE TableInv'
  OBVIOUS
<1>1. CASE UNCHANGED tableVars
  <2>1. UNCHANGED <<todo, phase, ordered, lunch, taken, clock, here, rows, drive, driveAll>>
    BY <1>1 DEF tableVars
  <2>2. /\ N' = N /\ Orders' = Orders /\ OpenRoute' = OpenRoute /\ Measured' = Measured
        /\ LastLeg' = LastLeg /\ Served' = Served /\ \A k : SimArrival(k)' = SimArrival(k)
    BY <2>1 DEF N, Orders, OpenRoute, Entry, HasMatrix, HasDepot, SimArrival, SimLeg, Far, Measured,
                LastLeg, Served
  <2>3. DayTyped' /\ NotStarted' /\ Walking' /\ BreakSet'
    BY <2>1, <2>2 DEF TableInv, DayTyped, NotStarted, Walking, BreakSet, TableRow
  <2>4. BreakTaken' /\ BreakPlanned' /\ BorderLegs' /\ OnSchedule'
    BY <2>1, <2>2 DEF TableInv, BreakTaken, BreakPlanned, BorderLegs, OnSchedule
  <2>5. QED BY <2>3, <2>4 DEF TableInv
<1>2. CASE \E order \in Orders : Sequence(order)
  BY <1>2, SequenceStep
<1>3. CASE \E answer \in Answers, caution \in BOOLEAN : Visit(answer, caution)
  BY <1>3, VisitStep
<1>4. CASE PlanBreak \/ EndOfDayBreak \/ Return
  BY <1>4, PlanBreakStep, EndOfDayStep, ReturnStep
<1>5. QED BY <1>1, <1>2, <1>3, <1>4 DEF TableNext

LEMMA TableInvariant == TableSpec => []TableInv
BY TableStart, TableStep, PTL DEF TableSpec

\* A day is a timetable at every step: what it holds, in which phase.
THEOREM TimetableTyped == TableSpec => []TableTypeOK
<1>1. TableInv => TableTypeOK
  <2> SUFFICES ASSUME TableInv PROVE TableTypeOK
    OBVIOUS
  <2>1. /\ DayTyped /\ Walking /\ BreakSet /\ BreakTaken /\ NotStarted /\ BorderLegs
        /\ todo \in DayInputs /\ ordered \in Orders /\ N \in Nat
    BY DayFields DEF TableInv, DayTyped
  <2>2. Len(ordered) \in 0..N /\ here \in 0..N \cup {Gap}
    BY <2>1, OrdersAre, WhereWeAre
  <2>3. lunch.before \in 0..(N + 1)
    <3>1. CASE phase \in {"walk", "return", "done"}
      BY <3>1, <2>1, <2>2 DEF BreakSet
    <3>2. CASE phase \notin {"walk", "return", "done"}
      BY <3>2, <2>1 DEF NotStarted, DayTyped
    <3>3. QED BY <3>1, <3>2
  <2>4. taken \in 0..1
    BY <2>1 DEF BreakTaken
  <2>5. drive \in 0..driveAll
    <3> DEFINE first == IF OpenRoute /\ Served > 0 THEN rows[1].travel ELSE 0
               back == IF OpenRoute /\ phase = "done" THEN LastLeg ELSE 0
    <3>1. Served > 0 => rows[1] \in TableRow
      <4>1. Served > 0 => 1 \in DOMAIN rows
        BY <2>1, <2>2 DEF Walking, DayTyped
      <4>2. QED BY <4>1, <2>1 DEF DayTyped
    <3>2. first \in Nat
      BY <3>1 DEF TableRow
    <3>3. back \in Nat
      BY <2>1, <2>2, LastLegType
    <3>4. driveAll - drive = first + back /\ drive \in Nat /\ driveAll \in Nat
      BY <2>1 DEF BorderLegs, DayTyped
    <3> HIDE DEF first, back
    <3>5. QED BY <3>2, <3>3, <3>4
  <2>6. QED BY <2>1, <2>2, <2>3, <2>4, <2>5 DEF TableTypeOK, DayTyped
<1>2. QED BY <1>1, TableInvariant, PTL

\* A required break is taken once, whatever the day; none is taken twice, and on
\* measured legs it is where it was planned.
THEOREM LunchIsKept == TableSpec => []LunchKept
<1>1. TableInv => LunchKept
  <2> SUFFICES ASSUME TableInv PROVE LunchKept
    OBVIOUS
  <2>1. /\ BreakSet /\ BreakTaken /\ BreakPlanned /\ OnSchedule /\ Walking
        /\ todo \in DayInputs /\ ordered \in Orders
    BY DEF TableInv, DayTyped
  <2>2. /\ Len(ordered) \in Nat /\ DOMAIN ordered = 1..Len(ordered)
    BY <2>1, DayFields, OrdersAre
  <2>3. LunchOnce
    <3> SUFFICES ASSUME phase = "done", todo.lunch # NoBreak
                 PROVE  (todo.lunch.hard => taken = 1) /\ (taken = 1 <=> lunch.status # "skipped")
      BY DEF LunchOnce
    <3>1. taken = IF lunch.before \in 1..(Len(ordered) + 1) THEN 1 ELSE 0
      BY <2>1 DEF BreakTaken, Served
    <3>2. QED BY <2>1, <2>2, <3>1 DEF BreakSet
  <2>4. LunchAsPlanned
    <3> SUFFICES ASSUME phase = "done", todo.lunch # NoBreak, Measured, NEW i \in DOMAIN ordered
                 PROVE  /\ taken = 0 \/ i < lunch.before => rows[i].arrival < todo.lunch.earliest
                        /\ i = lunch.before =>
                             rows[i].arrival - todo.lunch.minutes >= todo.lunch.earliest
      BY DEF LunchAsPlanned, Measured
    <3>1. i \in 1..Served /\ i \in 0..Len(ordered) /\ i \in Nat /\ i >= 1
      BY <2>2 DEF Served
    <3>2. rows[i].arrival = SimArrival(i) + (IF lunch.before \in 1..i THEN todo.lunch.minutes ELSE 0)
      BY <2>1, <3>1 DEF OnSchedule
    <3>3. SimArrival(i) \in Nat /\ todo.lunch.minutes \in Nat /\ todo.lunch.earliest \in Nat
      BY <2>1, <3>1, SimArrivals, DayFields
    <3>4. taken = IF lunch.before \in 1..(Len(ordered) + 1) THEN 1 ELSE 0
      BY <2>1 DEF BreakTaken, Served
    <3>5. lunch.before \in 0..(Len(ordered) + 1)
      BY <2>1, <2>2 DEF BreakSet
    <3>6. taken = 0 \/ i < lunch.before => rows[i].arrival < todo.lunch.earliest
      <4> SUFFICES ASSUME taken = 0 \/ i < lunch.before PROVE rows[i].arrival < todo.lunch.earliest
        OBVIOUS
      <4>1. lunch.before = 0 \/ i < lunch.before
        BY <3>4, <3>5, <2>2
      <4>2. SimArrival(i) < todo.lunch.earliest
        BY <4>1, <2>1 DEF BreakPlanned
      <4>3. lunch.before \notin 1..i
        BY <4>1, <3>1, <3>5, <2>2
      <4>4. QED BY <4>2, <4>3, <3>2, <3>3
    <3>7. i = lunch.before => rows[i].arrival - todo.lunch.minutes >= todo.lunch.earliest
      <4> SUFFICES ASSUME i = lunch.before
                   PROVE  rows[i].arrival - todo.lunch.minutes >= todo.lunch.earliest
        OBVIOUS
      <4>1. SimArrival(i) >= todo.lunch.earliest
        BY <2>1 DEF BreakPlanned
      <4>2. lunch.before \in 1..i
        BY <3>1
      <4>3. QED BY <4>1, <4>2, <3>2, <3>3
    <3>8. QED BY <3>6, <3>7
  <2>5. QED BY <2>3, <2>4 DEF LunchKept
<1>2. QED BY <1>1, TableInvariant, PTL

\* The two sums of drive minutes differ by the border legs of an open route and by
\* nothing else, from any mixture of matrix, routes and estimates.
THEOREM BorderLegsApart == TableSpec => []BordersApart
<1>1. TableInv => BordersApart
  <2> SUFFICES ASSUME TableInv, phase = "done"
               PROVE  driveAll - drive = IF ~OpenRoute THEN 0
                        ELSE LastLeg + (IF ordered = <<>> THEN 0 ELSE rows[1].travel)
    BY DEF BordersApart
  <2>1. /\ DayTyped /\ Walking /\ BorderLegs
        /\ todo \in DayInputs /\ ordered \in Orders /\ Served = Len(ordered)
    BY DEF TableInv, DayTyped, Served
  <2>2. Len(ordered) \in Nat /\ (ordered = <<>> <=> Len(ordered) = 0)
    BY <2>1, DayFields, OrdersAre
  <2>3. LastLeg \in Nat
    BY <2>1, WhereWeAre, LastLegType
  <2>4. ordered # <<>> => rows[1].travel \in Nat
    <3>1. ordered # <<>> => 1 \in DOMAIN rows
      BY <2>1, <2>2 DEF Walking, DayTyped
    <3>2. ordered # <<>> => rows[1] \in TableRow
      BY <3>1, <2>1 DEF DayTyped
    <3>3. QED BY <3>2 DEF TableRow
  <2>5. driveAll - drive = (IF OpenRoute /\ ordered # <<>> THEN rows[1].travel ELSE 0)
                             + (IF OpenRoute THEN LastLeg ELSE 0)
    BY <2>1, <2>2 DEF BorderLegs
  <2>6. QED BY <2>3, <2>4, <2>5
<1>2. QED BY <1>1, TableInvariant, PTL

-----------------------------------------------------------------------------
(* The solver: what routes are made of.                                    *)
Node == Sites \cup {Depot}

\* The elements of a sequence, and those behind the first.
AllOf(s) == {s[n] : n \in 1..Len(s)}
Behind(s) == {s[n] : n \in 2..Len(s)}

Tour(r) == r \in Seq(Node) /\ IsRoute(r)
Tours == {r \in Seq(Node) : Tour(r)}

LEMMA Sizes ==
  /\ Size \in Nat /\ Size >= 2 /\ Sites = 1..(Size - 1) /\ Size = Cardinality(Sites) + 1
  /\ IsFiniteSet(Sites) /\ Inf \in Nat /\ Depot = 0 /\ Depot \notin Sites
<1>1. IsFiniteSet(Sites) /\ Sites # {} /\ Sites = 1..Cardinality(Sites) /\ Inf \in Nat
  BY SolverSizes
<1>2. Cardinality(Sites) \in Nat /\ Cardinality(Sites) # 0
  BY <1>1, FS_CardinalityType, FS_EmptySet
<1> DEFINE n == Cardinality(Sites)
<1>3. n \in Nat /\ n # 0 /\ Sites = 1..n
  BY <1>1, <1>2
<1> HIDE DEF n
<1>4. Size = n + 1
  BY DEF Size, n
<1>5. n + 1 \in Nat /\ n + 1 >= 2 /\ Sites = 1..((n + 1) - 1) /\ 0 \notin Sites
  BY <1>3
<1>6. QED BY <1>1, <1>4, <1>5 DEF Depot, n

LEMMA CostType ==
  ASSUME job \in SolverRequest, NEW a \in Node, NEW b \in Node
  PROVE  Cost(a, b) \in Nat
<1> DEFINE n == Size
<1>1. job.cost \in [1..n -> [1..n -> Nat]]
  BY DEF SolverRequest, Size
<1>2. n \in Nat /\ Node = 0..(n - 1)
  BY Sizes DEF Node
<1> HIDE DEF n
<1>3. a + 1 \in 1..n /\ b + 1 \in 1..n
  BY <1>2
<1>4. QED BY <1>1, <1>3 DEF Cost

LEMMA RouteCostType ==
  ASSUME job \in SolverRequest, NEW r \in Seq(Node)
  PROVE  RouteCost(r) \in Nat
<1> DEFINE legs == 1..(Len(r) - 1)
           f == [k \in legs |-> Cost(r[k], r[k + 1])]
<1>1. IsFiniteSet(legs) /\ \A k \in legs : r[k] \in Node /\ r[k + 1] \in Node
  <2>1. Len(r) - 1 \in Int
    OBVIOUS
  <2>2. IsFiniteSet(legs)
    BY <2>1, FS_Interval
  <2>3. QED BY <2>2
<1>2. \A k \in legs : f[k] \in Nat
  BY <1>1, CostType
<1>3. SumFunctionOnSet(f, legs) \in Nat
  <2> HIDE DEF legs, f
  <2>1. QED BY <1>1, <1>2, SumIsNat
<1>4. RouteCost(r) \in {Inf, SumFunctionOnSet(f, legs)}
  BY DEF RouteCost
<1>5. QED BY <1>3, <1>4, Sizes

LEMMA BetterIs ==
  ASSUME job \in SolverRequest, NEW r, NEW V, V \subseteq Seq(Node), r \in V,
         NEW n \in Nat \ {0}, NEW cands \in [1..n -> V]
  PROVE  Better(r, cands) \in V /\ RouteCost(Better(r, cands)) <= RouteCost(r)
<1> DEFINE cost(m) == RouteCost(cands[m])
           S == {cost(m) : m \in 1..n}
           Best(k) == \A m \in DOMAIN cands :
              \/ RouteCost(cands[k]) < RouteCost(cands[m])
              \/ RouteCost(cands[k]) = RouteCost(cands[m]) /\ k <= m
           best == CHOOSE k \in DOMAIN cands : Best(k)
<1>1. \A m \in 1..n : cost(m) \in Nat
  BY RouteCostType
<1>2. PICK low \in S : \A x \in S : low <= x
  <2>1. S # {} /\ S \in SUBSET Int
    <3>1. cost(1) \in S
      OBVIOUS
    <3>2. ASSUME NEW x \in S PROVE x \in Int
      <4>1. PICK m \in 1..n : x = cost(m)
        OBVIOUS
      <4>2. cost(m) \in Nat
        BY <1>1
      <4> HIDE DEF cost
      <4>3. QED BY <4>1, <4>2
    <3> HIDE DEF S
    <3>3. QED BY <3>1, <3>2
  <2>2. IsFiniteSet(S)
    <3> DEFINE f == [m \in 1..n |-> cost(m)]
    <3>1. S = {f[m] : m \in 1..n}
      OBVIOUS
    <3>2. IsFiniteSet(1..n)
      BY FS_Interval
    <3> HIDE DEF S, f
    <3>3. QED BY <3>1, <3>2, FiniteImage
  <2> HIDE DEF S
  <2>3. QED BY <2>1, <2>2, MinExists
<1> DEFINE T == {m \in 1..n : cost(m) = low}
<1>3. T # {}
  OBVIOUS
<1>4. PICK k \in T : \A m \in T : k <= m
  <2>1. IsFiniteSet(1..n) /\ 1..n \in SUBSET Int
    BY FS_Interval
  <2>2. T \in SUBSET (1..n)
    OBVIOUS
  <2> HIDE DEF T
  <2>3. IsFiniteSet(T) /\ T \in SUBSET Int
    BY <2>1, <2>2, FS_Subset
  <2>4. QED BY <1>3, <2>3, MinExists
<1>5. DOMAIN cands = 1..n
  OBVIOUS
<1>6. k \in DOMAIN cands /\ Best(k)
  <2>1. SUFFICES ASSUME NEW m \in 1..n PROVE cost(k) < cost(m) \/ (cost(k) = cost(m) /\ k <= m)
    BY <1>5
  <2>2. cost(k) = low /\ low <= cost(m)
    BY <1>2
  <2>3. CASE cost(m) = low
    BY <2>3, <2>2, <1>4
  <2>4. CASE cost(m) # low
    <3> HIDE DEF cost
    <3>1. cost(m) \in Nat /\ cost(k) \in Nat
      BY <1>1
    <3>2. QED BY <2>4, <2>2, <3>1
  <2>5. QED BY <2>3, <2>4
<1>7. best \in DOMAIN cands
  <2> HIDE DEF Best
  <2>1. QED BY <1>6
<1>8. Better(r, cands) = IF RouteCost(cands[best]) < RouteCost(r) THEN cands[best] ELSE r
  BY DEF Better
<1> HIDE DEF best
<1>9. cands[best] \in V /\ RouteCost(cands[best]) \in Nat /\ RouteCost(r) \in Nat
  BY <1>5, <1>7, RouteCostType
<1>10. QED BY <1>8, <1>9

LEMMA Joining ==
  ASSUME NEW Elem, NEW s \in Seq(Elem), NEW t \in Seq(Elem)
  PROVE  /\ s \o t \in Seq(Elem) /\ Len(s \o t) = Len(s) + Len(t)
         /\ AllOf(s \o t) = AllOf(s) \cup AllOf(t)
         /\ s # <<>> => /\ (s \o t)[1] = s[1] /\ s \o t # <<>>
                        /\ Behind(s \o t) = Behind(s) \cup AllOf(t)
<1> DEFINE m == Len(s)
           n == Len(t)
           u == s \o t
<1>1. /\ m \in Nat /\ n \in Nat /\ u \in Seq(Elem) /\ Len(u) = m + n
      /\ \A k \in 1..m : u[k] = s[k]
      /\ \A k \in 1..n : u[m + k] = t[k]
  OBVIOUS
<1>2. AllOf(s) = {s[k] : k \in 1..m} /\ AllOf(t) = {t[k] : k \in 1..n}
      /\ AllOf(u) = {u[k] : k \in 1..(m + n)}
  BY <1>1 DEF AllOf
<1>3. Behind(s) = {s[k] : k \in 2..m} /\ Behind(u) = {u[k] : k \in 2..(m + n)}
  BY <1>1 DEF Behind
<1>4. s # <<>> => m >= 1
  OBVIOUS
<1> HIDE DEF m, n, u
<1>5. \A k \in 1..n : m + k \in 1..(m + n) /\ (m >= 1 => m + k \in 2..(m + n))
  BY <1>1
<1>6. \A k \in 1..(m + n) : k \in 1..m \/ (k - m \in 1..n /\ m + (k - m) = k)
  BY <1>1
<1>7. \A k \in 1..(m + n) : k \in 1..m \/ (k - m \in 1..n /\ u[k] = t[k - m])
  BY <1>1, <1>6
<1>8. AllOf(u) = AllOf(s) \cup AllOf(t)
  <2>1. \A x \in AllOf(u) : x \in AllOf(s) \cup AllOf(t)
    BY <1>1, <1>2, <1>7
  <2>2. \A x \in AllOf(s) : x \in AllOf(u)
    BY <1>1, <1>2
  <2>3. \A x \in AllOf(t) : x \in AllOf(u)
    BY <1>1, <1>2, <1>5
  <2>4. QED BY <2>1, <2>2, <2>3
<1>9. ASSUME m >= 1 PROVE Behind(u) = Behind(s) \cup AllOf(t)
  <2>1. \A x \in Behind(u) : x \in Behind(s) \cup AllOf(t)
    BY <1>1, <1>2, <1>3, <1>7
  <2>2. \A x \in Behind(s) : x \in Behind(u)
    BY <1>1, <1>3
  <2>3. \A x \in AllOf(t) : x \in Behind(u)
    BY <1>1, <1>2, <1>3, <1>5, <1>9
  <2>4. QED BY <2>1, <2>2, <2>3
<1>10. m >= 1 => u[1] = s[1] /\ u # <<>>
  BY <1>1
<1>11. QED BY <1>1, <1>4, <1>8, <1>9, <1>10 DEF m, n, u

LEMMA Reversing ==
  ASSUME NEW Elem, NEW s \in Seq(Elem)
  PROVE  Reverse(s) \in Seq(Elem) /\ Len(Reverse(s)) = Len(s) /\ AllOf(Reverse(s)) = AllOf(s)
<1> DEFINE n == Len(s)
           u == [i \in 1..n |-> s[(n - i) + 1]]
<1>1. Reverse(s) = u
  BY DEF Reverse
<1>2. n \in Nat /\ \A i \in 1..n : s[i] \in Elem
  OBVIOUS
<1> HIDE DEF n
<1>3. \A i \in 1..n : (n - i) + 1 \in 1..n /\ (n - ((n - i) + 1)) + 1 = i
  BY <1>2
<1>4. u \in Seq(Elem) /\ Len(u) = n
  BY <1>2, <1>3
<1>5. AllOf(u) = {u[i] : i \in 1..n} /\ AllOf(s) = {s[i] : i \in 1..n}
  BY <1>4 DEF AllOf, n
<1>6. \A i \in 1..n : u[i] = s[(n - i) + 1] /\ u[(n - i) + 1] = s[i]
  BY <1>2, <1>3
<1> HIDE DEF u
<1>7. \A x \in AllOf(u) : x \in AllOf(s)
  BY <1>3, <1>5, <1>6
<1>8. \A x \in AllOf(s) : x \in AllOf(u)
  BY <1>3, <1>5, <1>6
<1>9. QED BY <1>1, <1>4, <1>7, <1>8 DEF n

LEMMA SameSequence ==
  ASSUME NEW Elem, NEW s \in Seq(Elem), NEW t \in Seq(Elem), Len(s) = Len(t),
         \A k \in 1..Len(s) : s[k] = t[k]
  PROVE  s = t
<1>1. s = [k \in 1..Len(s) |-> s[k]] /\ t = [k \in 1..Len(t) |-> t[k]]
  OBVIOUS
<1>2. QED BY <1>1

LEMMA Pieces ==
  ASSUME NEW Elem, NEW r \in Seq(Elem), NEW a \in Int, NEW b \in Int, 1 <= a, a <= b + 1, b <= Len(r)
  PROVE  /\ SubSeq(r, a, b) \in Seq(Elem) /\ Len(SubSeq(r, a, b)) = b - a + 1
         /\ \A k \in 1..(b - a + 1) : SubSeq(r, a, b)[k] = r[k + a - 1]
<1>1. \A k \in a..b : r[k] \in Elem
  OBVIOUS
<1>2. b - a + 1 \in Nat
  OBVIOUS
<1>3. SubSeq(r, a, b) = [k \in 1..(b - a + 1) |-> r[a + k - 1]]
  OBVIOUS
<1>4. \A k \in 1..(b - a + 1) : a + k - 1 \in a..b /\ a + k - 1 = k + a - 1
  OBVIOUS
<1>5. QED BY <1>1, <1>2, <1>3, <1>4

(* Cutting, joining and turning round, as names that no prover opens.      *)
Part(r, a, b) == SubSeq(r, a, b)
Glue(s, t) == s \o t
Turned(s) == Reverse(s)

\* A route is its four pieces, joined.
Cuts(r, i, j, k) ==
  /\ Part(r, 1, i) \in Seq(Node) /\ Len(Part(r, 1, i)) = i
  /\ Part(r, i + 1, j) \in Seq(Node) /\ Len(Part(r, i + 1, j)) = j - i
  /\ Part(r, j + 1, k) \in Seq(Node) /\ Len(Part(r, j + 1, k)) = k - j
  /\ Part(r, k + 1, Len(r)) \in Seq(Node) /\ Len(Part(r, k + 1, Len(r))) = Len(r) - k
  /\ r = Glue(Glue(Glue(Part(r, 1, i), Part(r, i + 1, j)), Part(r, j + 1, k)),
              Part(r, k + 1, Len(r)))

LEMMA Cut ==
  ASSUME NEW r \in Seq(Node), NEW i \in Nat, NEW j \in Nat, NEW k \in Nat,
         i <= j, j <= k, k <= Len(r)
  PROVE  Cuts(r, i, j, k)
<1> DEFINE n == Len(r)
           A == SubSeq(r, 1, i)
           B == SubSeq(r, i + 1, j)
           C == SubSeq(r, j + 1, k)
           D == SubSeq(r, k + 1, n)
           u == A \o B \o C \o D
<1>1. n \in Nat /\ k <= n
  OBVIOUS
<1>2. A \in Seq(Node) /\ Len(A) = i /\ \A x \in 1..i : A[x] = r[x]
  BY <1>1, Pieces
<1>3. B \in Seq(Node) /\ Len(B) = j - i /\ \A x \in 1..(j - i) : B[x] = r[x + i]
  BY <1>1, Pieces
<1>4. C \in Seq(Node) /\ Len(C) = k - j /\ \A x \in 1..(k - j) : C[x] = r[x + j]
  BY <1>1, Pieces
<1>5. D \in Seq(Node) /\ Len(D) = n - k /\ \A x \in 1..(n - k) : D[x] = r[x + k]
  BY <1>1, Pieces
<1> HIDE DEF A, B, C, D
<1>6. /\ A \o B \in Seq(Node) /\ Len(A \o B) = j
      /\ \A x \in 1..j : (A \o B)[x] = r[x]
  <2>1. A \o B \in Seq(Node) /\ Len(A \o B) = j
    <3>1. A \o B \in Seq(Node) /\ Len(A \o B) = Len(A) + Len(B)
      BY <1>2, <1>3, Joining
    <3>2. QED BY <3>1, <1>2, <1>3
  <2>2. \A x \in 1..j : (A \o B)[x] = IF x <= i THEN A[x] ELSE B[x - i]
    BY <1>2, <1>3
  <2>3. \A x \in 1..j : x <= i \/ (x - i \in 1..(j - i) /\ (x - i) + i = x)
    OBVIOUS
  <2>4. \A x \in 1..j : x <= i => x \in 1..i
    OBVIOUS
  <2>5. QED BY <2>1, <2>2, <2>3, <2>4, <1>2, <1>3
<1> DEFINE AB == A \o B
<1> HIDE DEF AB
<1>7. /\ AB \o C \in Seq(Node) /\ Len(AB \o C) = k
      /\ \A x \in 1..k : (AB \o C)[x] = r[x]
  <2>0. AB \in Seq(Node) /\ Len(AB) = j /\ \A x \in 1..j : AB[x] = r[x]
    BY <1>6 DEF AB
  <2>1. AB \o C \in Seq(Node) /\ Len(AB \o C) = k
    <3>1. AB \o C \in Seq(Node) /\ Len(AB \o C) = Len(AB) + Len(C)
      BY <2>0, <1>4, Joining
    <3>2. QED BY <3>1, <2>0, <1>4
  <2>2. \A x \in 1..k : (AB \o C)[x] = IF x <= j THEN AB[x] ELSE C[x - j]
    BY <2>0, <1>4
  <2>3. \A x \in 1..k : x <= j \/ (x - j \in 1..(k - j) /\ (x - j) + j = x)
    OBVIOUS
  <2>4. QED BY <2>0, <2>1, <2>2, <2>3, <1>4
<1> DEFINE ABC == AB \o C
<1> HIDE DEF ABC
<1>8. /\ ABC \o D \in Seq(Node) /\ Len(ABC \o D) = n
      /\ \A x \in 1..n : (ABC \o D)[x] = r[x]
  <2>0. ABC \in Seq(Node) /\ Len(ABC) = k /\ \A x \in 1..k : ABC[x] = r[x]
    BY <1>7 DEF ABC
  <2>1. ABC \o D \in Seq(Node) /\ Len(ABC \o D) = n
    <3> HIDE DEF n
    <3>1. ABC \o D \in Seq(Node) /\ Len(ABC \o D) = Len(ABC) + Len(D)
      BY <2>0, <1>5, Joining
    <3>2. QED BY <3>1, <2>0, <1>1, <1>5
  <2>2. \A x \in 1..n : (ABC \o D)[x] = IF x <= k THEN ABC[x] ELSE D[x - k]
    <3> HIDE DEF n
    <3>1. QED BY <2>0, <1>1, <1>5
  <2>3. \A x \in 1..n : x <= k \/ (x - k \in 1..(n - k) /\ (x - k) + k = x)
    <3> HIDE DEF n
    <3>1. QED BY <1>1
  <2> HIDE DEF n
  <2>4. \A x \in 1..n : x <= k => x \in 1..k
    BY <1>1
  <2>5. QED BY <2>0, <2>1, <2>2, <2>3, <2>4, <1>5
<1>9. ABC \o D = r
  BY <1>8, SameSequence
<1>10. QED BY <1>2, <1>3, <1>4, <1>5, <1>9 DEF Cuts, Part, Glue, ABC, AB, A, B, C, D

(* A sequence of n nodes with these members; one that starts at a, with    *)
(* these behind it.                                                        *)
Run(s, n, all) == s \in Seq(Node) /\ n \in Nat /\ Len(s) = n /\ AllOf(s) = all
Start(s, n, a, rest) ==
  s \in Seq(Node) /\ n \in Nat \ {0} /\ Len(s) = n /\ s[1] = a /\ Behind(s) = rest

LEMMA JoinRuns ==
  ASSUME NEW s, NEW n, NEW X, Run(s, n, X), NEW t, NEW m, NEW Y, Run(t, m, Y)
  PROVE  Run(Glue(s, t), n + m, X \cup Y)
<1>1. s \in Seq(Node) /\ t \in Seq(Node) /\ Len(s) = n /\ Len(t) = m /\ n + m \in Nat
      /\ AllOf(s) = X /\ AllOf(t) = Y
  BY DEF Run
<1>2. Glue(s, t) \in Seq(Node) /\ Len(Glue(s, t)) = Len(s) + Len(t)
      /\ AllOf(Glue(s, t)) = AllOf(s) \cup AllOf(t)
  BY <1>1, Joining DEF Glue
<1>3. QED BY <1>1, <1>2 DEF Run

LEMMA JoinStart ==
  ASSUME NEW s, NEW n, NEW a, NEW X, Start(s, n, a, X), NEW t, NEW m, NEW Y, Run(t, m, Y)
  PROVE  Start(Glue(s, t), n + m, a, X \cup Y)
<1>1. s \in Seq(Node) /\ t \in Seq(Node) /\ Len(s) = n /\ Len(t) = m
      /\ Behind(s) = X /\ AllOf(t) = Y /\ s[1] = a /\ n \in Nat \ {0} /\ m \in Nat
  BY DEF Run, Start
<1>2. s # <<>>
  BY <1>1
<1>3. Glue(s, t) \in Seq(Node) /\ Len(Glue(s, t)) = Len(s) + Len(t) /\ Glue(s, t)[1] = s[1]
      /\ Behind(Glue(s, t)) = Behind(s) \cup AllOf(t)
  BY <1>1, <1>2, Joining DEF Glue
<1>4. n + m \in Nat \ {0}
  BY <1>1
<1>5. QED BY <1>1, <1>3, <1>4 DEF Start

LEMMA TurnRun ==
  ASSUME NEW s, NEW n, NEW X, Run(s, n, X)
  PROVE  Run(Turned(s), n, X)
<1>1. s \in Seq(Node) /\ Len(s) = n /\ AllOf(s) = X /\ n \in Nat
  BY DEF Run
<1>2. Turned(s) \in Seq(Node) /\ Len(Turned(s)) = Len(s) /\ AllOf(Turned(s)) = AllOf(s)
  BY <1>1, Reversing DEF Turned
<1>3. QED BY <1>1, <1>2 DEF Run

LEMMA NoRun ==
  ASSUME NEW s, NEW X, Run(s, 0, X)
  PROVE  X = {}
BY DEF Run, AllOf

\* A route is cut into four.
Places(i, j, k, n) ==
  i \in Nat /\ j \in Nat /\ k \in Nat /\ 1 <= i /\ i <= j /\ j <= k /\ k <= n
CutInto(r, n, a, X, i, j, k) ==
  Start(r, n, a, X) /\ Places(i, j, k, n) =>
    \E X1, X2, X3, X4 :
      /\ Start(Part(r, 1, i), i, a, X1) /\ Run(Part(r, i + 1, j), j - i, X2)
      /\ Run(Part(r, j + 1, k), k - j, X3) /\ Run(Part(r, k + 1, n), n - k, X4)
      /\ X = X1 \cup X2 \cup X3 \cup X4

LEMMA CutRoute ==
  ASSUME NEW r, NEW n, NEW a, NEW X, NEW i, NEW j, NEW k
  PROVE  CutInto(r, n, a, X, i, j, k)
<1>0. SUFFICES ASSUME Start(r, n, a, X), i \in Nat, j \in Nat, k \in Nat,
                      1 <= i, i <= j, j <= k, k <= n
               PROVE  \E X1, X2, X3, X4 :
      /\ Start(Part(r, 1, i), i, a, X1) /\ Run(Part(r, i + 1, j), j - i, X2)
      /\ Run(Part(r, j + 1, k), k - j, X3) /\ Run(Part(r, k + 1, n), n - k, X4)
      /\ X = X1 \cup X2 \cup X3 \cup X4
  BY Zenon DEF CutInto, Places
<1> DEFINE A == Part(r, 1, i)
           B == Part(r, i + 1, j)
           C == Part(r, j + 1, k)
           D == Part(r, k + 1, n)
<1>1. r \in Seq(Node) /\ n \in Nat /\ Len(r) = n /\ r[1] = a /\ Behind(r) = X
  BY <1>0 DEF Start
<1>2. /\ A \in Seq(Node) /\ Len(A) = i /\ B \in Seq(Node) /\ Len(B) = j - i
      /\ C \in Seq(Node) /\ Len(C) = k - j /\ D \in Seq(Node) /\ Len(D) = n - k
      /\ r = Glue(Glue(Glue(A, B), C), D)
  <2>1. r \in Seq(Node) /\ k <= Len(r)
    BY <1>0, <1>1
  <2>a. Cuts(r, i, j, k)
    BY <1>0, <2>1, Cut
  <2>2. /\ Part(r, 1, i) \in Seq(Node) /\ Len(Part(r, 1, i)) = i
        /\ Part(r, i + 1, j) \in Seq(Node) /\ Len(Part(r, i + 1, j)) = j - i
        /\ Part(r, j + 1, k) \in Seq(Node) /\ Len(Part(r, j + 1, k)) = k - j
        /\ Part(r, k + 1, Len(r)) \in Seq(Node) /\ Len(Part(r, k + 1, Len(r))) = Len(r) - k
        /\ r = Glue(Glue(Glue(Part(r, 1, i), Part(r, i + 1, j)), Part(r, j + 1, k)),
                    Part(r, k + 1, Len(r)))
    BY <2>a, Zenon DEF Cuts
  <2>3. Len(r) = n
    BY <1>1
  <2>4. QED BY <2>2, <2>3, Zenon
<1> HIDE DEF A, B, C, D
<1> DEFINE X1 == Behind(A)
           X2 == AllOf(B)
           X3 == AllOf(C)
           X4 == AllOf(D)
<1>3. i \in Nat \ {0} /\ j - i \in Nat /\ k - j \in Nat /\ n - k \in Nat
  BY <1>0, <1>1
<1>4. /\ Start(A, i, A[1], X1) /\ Run(B, j - i, X2) /\ Run(C, k - j, X3) /\ Run(D, n - k, X4)
  BY <1>2, <1>3 DEF Start, Run
<1> HIDE DEF X1, X2, X3, X4
<1>5. Start(Glue(A, B), i + (j - i), A[1], X1 \cup X2)
  BY <1>4, JoinStart
<1>6. Start(Glue(Glue(A, B), C), (i + (j - i)) + (k - j), A[1], (X1 \cup X2) \cup X3)
  BY <1>4, <1>5, JoinStart
<1>7. Start(Glue(Glue(Glue(A, B), C), D), ((i + (j - i)) + (k - j)) + (n - k), A[1],
            ((X1 \cup X2) \cup X3) \cup X4)
  BY <1>4, <1>6, JoinStart
<1>8. Start(r, ((i + (j - i)) + (k - j)) + (n - k), A[1], ((X1 \cup X2) \cup X3) \cup X4)
  <2>1. r = Glue(Glue(Glue(A, B), C), D)
    BY <1>2
  <2>2. QED BY <2>1, <1>7, Zenon
<1>9. r[1] = A[1] /\ Behind(r) = ((X1 \cup X2) \cup X3) \cup X4
  BY <1>8, Zenon DEF Start
<1>10. A[1] = a /\ X = X1 \cup X2 \cup X3 \cup X4
  BY <1>1, <1>9, Zenon
<1>11. Start(A, i, a, X1)
  BY <1>4, <1>10, Zenon
<1>12. QED BY <1>4, <1>10, <1>11, Zenon DEF A, B, C, D

LEMMA TourIs ==
  ASSUME NEW r
  PROVE  Tour(r) <=> Start(r, Size, Depot, Sites)
<1>1. Size \in Nat \ {0}
  BY Sizes
<1>2. QED BY <1>1 DEF Tour, IsRoute, Behind, Start

LEMMA ReversedTour ==
  ASSUME NEW r, Tour(r), NEW i \in 2..Size, NEW j \in 2..Size, i <= j
  PROVE  Tour(Reversed(r, i, j))
<1> DEFINE p == i - 1
           A == Part(r, 1, p)
           B == Part(r, i, j)
           gap == Part(r, j + 1, j)
           C == Part(r, j + 1, Size)
<1>1. Start(r, Size, Depot, Sites) /\ Size \in Nat /\ Len(r) = Size
  BY TourIs, Sizes DEF Tour, IsRoute
<1>2. p \in Nat /\ 1 <= p /\ p <= j /\ j <= j /\ j \in Nat /\ j <= Size /\ p + 1 = i
  BY <1>1
<1>3. PICK X1, X2, X3, X4 :
        /\ Start(A, p, Depot, X1) /\ Run(B, j - p, X2) /\ Run(gap, j - j, X3) /\ Run(C, Size - j, X4)
        /\ Sites = X1 \cup X2 \cup X3 \cup X4
  <2> HIDE DEF p
  <2>1. \E X1, X2, X3, X4 :
          /\ Start(Part(r, 1, p), p, Depot, X1) /\ Run(Part(r, p + 1, j), j - p, X2)
          /\ Run(Part(r, j + 1, j), j - j, X3) /\ Run(Part(r, j + 1, Size), Size - j, X4)
          /\ Sites = X1 \cup X2 \cup X3 \cup X4
    <3>1. CutInto(r, Size, Depot, Sites, p, j, j)
      BY CutRoute
    <3>2. Places(p, j, j, Size)
      BY <1>2 DEF Places
    <3>3. QED BY <1>1, <3>1, <3>2, Zenon DEF CutInto
  <2>2. Part(r, p + 1, j) = B
    BY <1>2
  <2>3. QED BY <2>1, <2>2
<1>4. Reversed(r, i, j) = Glue(Glue(A, Turned(B)), C)
  BY <1>1 DEF Reversed, Part, Glue, Turned
<1> HIDE DEF A, B, C, gap, p
<1>5. X3 = {}
  <2>1. j - j = 0
    BY <1>2
  <2>2. QED BY <2>1, <1>3, NoRun
<1>6. Run(Turned(B), j - p, X2)
  BY <1>3, TurnRun
<1>7. Start(Glue(A, Turned(B)), p + (j - p), Depot, X1 \cup X2)
  BY <1>3, <1>6, JoinStart
<1>8. Start(Glue(Glue(A, Turned(B)), C), (p + (j - p)) + (Size - j), Depot, (X1 \cup X2) \cup X4)
  BY <1>3, <1>7, JoinStart
<1>9. (p + (j - p)) + (Size - j) = Size /\ (X1 \cup X2) \cup X4 = Sites
  BY <1>1, <1>2, <1>3, <1>5
<1>10. QED BY <1>4, <1>8, <1>9, TourIs

LEMMA MovedTour ==
  ASSUME NEW r, Tour(r), NEW i \in 2..Size, NEW m \in 1..Size, i + m - 1 <= Size,
         NEW j \in 1..Size, j < i - 1 \/ j > i + m - 1
  PROVE  Tour(Moved(r, i, m, j))
<1> DEFINE p == i - 1
           q == i + m - 1
           n == Size - m
           at == IF j < i THEN j ELSE j - m
           A == Part(r, 1, p)
           B == Part(r, i, q)
           gap == Part(r, q + 1, q)
           C == Part(r, i + m, Size)
           rest == Glue(A, C)
           P == Part(rest, 1, at)
           gap2 == Part(rest, at + 1, at)
           Q == Part(rest, at + 1, n)
<1>1. Start(r, Size, Depot, Sites) /\ Size \in Nat /\ Len(r) = Size
  BY TourIs, Sizes DEF Tour, IsRoute
<1>2. p \in Nat /\ 1 <= p /\ p <= q /\ q \in Nat /\ q <= q /\ q <= Size /\ p + 1 = i /\ q + 1 = i + m
  BY <1>1
<1>3. n \in Nat /\ at \in Nat /\ 1 <= at /\ at <= at /\ at <= n /\ p + (Size - q) = n
  BY <1>1
<1>4. PICK X1, X2, X3, X4 :
        /\ Start(A, p, Depot, X1) /\ Run(B, q - p, X2) /\ Run(gap, q - q, X3) /\ Run(C, Size - q, X4)
        /\ Sites = X1 \cup X2 \cup X3 \cup X4
  <2> HIDE DEF p, q
  <2>1. \E X1, X2, X3, X4 :
          /\ Start(Part(r, 1, p), p, Depot, X1) /\ Run(Part(r, p + 1, q), q - p, X2)
          /\ Run(Part(r, q + 1, q), q - q, X3) /\ Run(Part(r, q + 1, Size), Size - q, X4)
          /\ Sites = X1 \cup X2 \cup X3 \cup X4
    <3>1. CutInto(r, Size, Depot, Sites, p, q, q)
      BY CutRoute
    <3>2. Places(p, q, q, Size)
      BY <1>2 DEF Places
    <3>3. QED BY <1>1, <3>1, <3>2, Zenon DEF CutInto
  <2>2. Part(r, p + 1, q) = B /\ Part(r, q + 1, Size) = C
    BY <1>2
  <2>3. QED BY <2>1, <2>2
<1>5. X3 = {}
  <2>1. q - q = 0
    BY <1>2
  <2> HIDE DEF gap
  <2>2. QED BY <2>1, <1>4, NoRun
<1>6. Start(rest, n, Depot, X1 \cup X4)
  <2> HIDE DEF A, C
  <2>1. Start(Glue(A, C), p + (Size - q), Depot, X1 \cup X4)
    BY <1>4, JoinStart
  <2> HIDE DEF n, p, q
  <2>2. QED BY <2>1, <1>3
<1>7. Moved(r, i, m, j) = Glue(Glue(P, B), Q)
  <2>1. Len(rest) = n
    BY <1>6 DEF Start
  <2>2. rest = SubSeq(r, 1, i - 1) \o SubSeq(r, i + m, Len(r))
    BY <1>1 DEF Glue, Part
  <2>3. P = SubSeq(rest, 1, at) /\ Q = SubSeq(rest, at + 1, Len(rest)) /\ B = SubSeq(r, i, i + m - 1)
    BY <2>1 DEF Part
  <2>4. Moved(r, i, m, j) = SubSeq(rest, 1, at) \o SubSeq(r, i, i + m - 1) \o SubSeq(rest, at + 1, Len(rest))
    BY <2>2 DEF Moved
  <2> HIDE DEF P, Q, B, rest
  <2>5. QED BY <2>3, <2>4 DEF Glue
<1> HIDE DEF A, B, C, gap, rest, n, at
<1>8. PICK Y1, Y2, Y3, Y4 :
        /\ Start(P, at, Depot, Y1) /\ Run(gap2, at - at, Y2) /\ Run(gap2, at - at, Y3)
        /\ Run(Q, n - at, Y4)
        /\ X1 \cup X4 = Y1 \cup Y2 \cup Y3 \cup Y4
  <2>1. CutInto(rest, n, Depot, X1 \cup X4, at, at, at)
    BY CutRoute
  <2>2. Places(at, at, at, n)
    BY <1>3 DEF Places
  <2>3. QED BY <1>6, <2>1, <2>2, Zenon DEF CutInto
<1> HIDE DEF P, gap2, Q
<1>9. Y2 = {} /\ Y3 = {}
  <2>1. at - at = 0
    BY <1>3
  <2>2. QED BY <2>1, <1>8, NoRun
<1>10. Start(Glue(P, B), at + (q - p), Depot, Y1 \cup X2)
  BY <1>4, <1>8, JoinStart
<1>11. Start(Glue(Glue(P, B), Q), (at + (q - p)) + (n - at), Depot, (Y1 \cup X2) \cup Y4)
  BY <1>8, <1>10, JoinStart
<1>12. (at + (q - p)) + (n - at) = Size
  <2> HIDE DEF p, q
  <2>1. QED BY <1>1, <1>2, <1>3
<1>13. (Y1 \cup X2) \cup Y4 = Sites
  BY <1>4, <1>5, <1>8, <1>9
<1>14. QED BY <1>7, <1>11, <1>12, <1>13, TourIs

LEMMA ReconnectedTours ==
  ASSUME NEW r, Tour(r), NEW i \in 1..Size, NEW j \in 1..Size, NEW k \in 1..Size, i <= j, j <= k
  PROVE  Reconnected(r, i, j, k) \in [1..7 -> Tours]
<1> DEFINE A == Part(r, 1, i)
           B == Part(r, i + 1, j)
           C == Part(r, j + 1, k)
           D == Part(r, k + 1, Size)
<1>1. Start(r, Size, Depot, Sites) /\ Size \in Nat /\ Len(r) = Size
  BY TourIs, Sizes DEF Tour, IsRoute
<1>2. i \in Nat /\ 1 <= i /\ j \in Nat /\ k \in Nat /\ k <= Size
  BY <1>1
<1>3. PICK X1, X2, X3, X4 :
        /\ Start(A, i, Depot, X1) /\ Run(B, j - i, X2) /\ Run(C, k - j, X3) /\ Run(D, Size - k, X4)
        /\ Sites = X1 \cup X2 \cup X3 \cup X4
  <2>1. CutInto(r, Size, Depot, Sites, i, j, k)
    BY CutRoute
  <2>2. Places(i, j, k, Size)
    BY <1>2 DEF Places
  <2>3. QED BY <1>1, <2>1, <2>2, Zenon DEF CutInto
<1>4. Reconnected(r, i, j, k) =
        <<Glue(Glue(Glue(A, Turned(B)), C), D), Glue(Glue(Glue(A, B), Turned(C)), D),
          Glue(Glue(Glue(A, Turned(B)), Turned(C)), D), Glue(Glue(Glue(A, C), B), D),
          Glue(Glue(Glue(A, C), Turned(B)), D), Glue(Glue(Glue(A, Turned(C)), B), D),
          Glue(Glue(Glue(A, Turned(C)), Turned(B)), D)>>
  BY <1>1 DEF Reconnected, Part, Glue, Turned
<1> HIDE DEF A, B, C, D
<1>5. Run(Turned(B), j - i, X2) /\ Run(Turned(C), k - j, X3)
  BY <1>3, TurnRun
<1>6. ASSUME NEW E, NEW F, NEW e, NEW f, NEW Y, NEW Z, Run(E, e, Y), Run(F, f, Z),
             ((i + e) + f) + (Size - k) = Size, Y \cup Z = X2 \cup X3
      PROVE  Tour(Glue(Glue(Glue(A, E), F), D))
  <2>1. Start(Glue(A, E), i + e, Depot, X1 \cup Y)
    BY <1>3, <1>6, JoinStart
  <2>2. Start(Glue(Glue(A, E), F), (i + e) + f, Depot, (X1 \cup Y) \cup Z)
    BY <1>6, <2>1, JoinStart
  <2>3. Start(Glue(Glue(Glue(A, E), F), D), ((i + e) + f) + (Size - k), Depot,
              ((X1 \cup Y) \cup Z) \cup X4)
    BY <1>3, <2>2, JoinStart
  <2>4. ((X1 \cup Y) \cup Z) \cup X4 = Sites
    BY <1>3, <1>6
  <2>5. QED BY <1>6, <2>3, <2>4, TourIs, Zenon
<1> DEFINE s1 == Glue(Glue(Glue(A, Turned(B)), C), D)
           s2 == Glue(Glue(Glue(A, B), Turned(C)), D)
           s3 == Glue(Glue(Glue(A, Turned(B)), Turned(C)), D)
           s4 == Glue(Glue(Glue(A, C), B), D)
           s5 == Glue(Glue(Glue(A, C), Turned(B)), D)
           s6 == Glue(Glue(Glue(A, Turned(C)), B), D)
           s7 == Glue(Glue(Glue(A, Turned(C)), Turned(B)), D)
<1>7. /\ ((i + (j - i)) + (k - j)) + (Size - k) = Size /\ ((i + (k - j)) + (j - i)) + (Size - k) = Size
      /\ X2 \cup X3 = X3 \cup X2
  BY <1>1, <1>2
<1>8. Tour(s1) /\ Tour(s2) /\ Tour(s3)
  BY <1>3, <1>5, <1>6, <1>7, Zenon
<1>9. Tour(s4) /\ Tour(s5) /\ Tour(s6) /\ Tour(s7)
  BY <1>3, <1>5, <1>6, <1>7, Zenon
<1> HIDE DEF s1, s2, s3, s4, s5, s6, s7
<1>10. Reconnected(r, i, j, k) = <<s1, s2, s3, s4, s5, s6, s7>>
  BY <1>4 DEF s1, s2, s3, s4, s5, s6, s7
<1>11. s1 \in Tours /\ s2 \in Tours /\ s3 \in Tours /\ s4 \in Tours
       /\ s5 \in Tours /\ s6 \in Tours /\ s7 \in Tours
  BY <1>8, <1>9 DEF Tours, Tour
<1>12. <<s1, s2, s3, s4, s5, s6, s7>> \in [1..7 -> Tours]
  BY <1>11
<1>13. QED BY <1>10, <1>12, Zenon

(* What the rows of a kernel and the moves of a row may be.                *)
FitRow(kernel, row) ==
  \/ kernel = "2opt" /\ row.i \in 2..(Size - 1)
  \/ kernel = "oropt" /\ row.seg \in 1..Size /\ row.i \in 2..Size /\ row.i + row.seg <= Size
  \/ kernel = "3opt" /\ row.i \in 1..(Size - 3)

FitMove(kernel, row, mv) ==
  CASE kernel = "2opt" -> mv[1] \in (row.i + 1)..Size
    [] kernel = "oropt" -> mv[1] \in 1..Size /\ (mv[1] < row.i - 1 \/ mv[1] > row.i + row.seg - 1)
    [] kernel = "3opt" -> mv[1] \in (row.i + 1)..Size /\ mv[2] \in (mv[1] + 1)..Size

KernelNames == {"2opt", "oropt", "3opt"}

LEMMA RowsFit ==
  ASSUME NEW kernel \in KernelNames, Usable(kernel)
  PROVE  \A x \in DOMAIN Rows(kernel) : FitRow(kernel, Rows(kernel)[x])
<1> DEFINE upto(n, m) == [i \in 1..n |-> [seg |-> m, i |-> i + 1]]
<1>1. Size \in Nat /\ Size >= 4
  BY Sizes DEF Usable, KernelNames
<1>2. CASE kernel = "2opt"
  <2>1. Rows(kernel) = upto(Size - 2, 0)
    BY <1>2 DEF Rows
  <2>2. QED BY <1>1, <1>2, <2>1 DEF FitRow
<1>3. CASE kernel = "oropt"
  <2> DEFINE a == upto(Size - 2, 1)
             b == upto(Size - 3, 2)
             c == upto(Size - 4, 3)
             Fitting == {row \in [seg : 1..3, i : 2..Size] : row.i + row.seg <= Size}
  <2>1. Rows(kernel) = a \o b \o c
    BY <1>3 DEF Rows
  <2>2. a \in Seq(Fitting)
    <3>1. \A i \in 1..(Size - 2) : a[i] \in Fitting
      BY <1>1
    <3>2. QED BY <3>1, <1>1
  <2>3. b \in Seq(Fitting)
    <3>1. \A i \in 1..(Size - 3) : b[i] \in Fitting
      BY <1>1
    <3>2. QED BY <3>1, <1>1
  <2>4. c \in Seq(Fitting)
    <3>1. \A i \in 1..(Size - 4) : c[i] \in Fitting
      BY <1>1
    <3>2. QED BY <3>1, <1>1
  <2>5. Rows(kernel) \in Seq(Fitting)
    <3> HIDE DEF a, b, c, Fitting
    <3>1. QED BY <2>1, <2>2, <2>3, <2>4
  <2>6. \A x \in DOMAIN Rows(kernel) : Rows(kernel)[x] \in Fitting
    <3> HIDE DEF Fitting
    <3>1. QED BY <2>5
  <2>7. QED BY <2>6, <1>1, <1>3 DEF FitRow
<1>4. CASE kernel = "3opt"
  <2>1. Rows(kernel) = [i \in 1..(Size - 3) |-> [seg |-> 0, i |-> i]]
    BY <1>4 DEF Rows
  <2>2. QED BY <1>1, <1>4, <2>1 DEF FitRow
<1>5. QED BY <1>2, <1>3, <1>4 DEF KernelNames

LEMMA PairsType ==
  ASSUME NEW kernel, kernel = "3opt", NEW row, FitRow(kernel, row)
  PROVE  Moves(kernel, row) \in Seq({mv \in Nat \X Nat : FitMove(kernel, row, mv)})
<1> DEFINE i == row.i
           s == [x \in 1..(Size - i - 2) |-> x]
           n == Size - i - 2
           M == {mv \in Nat \X Nat : FitMove(kernel, row, mv)}
           V == Seq(M)
           On(x, v) == v \o [m \in 1..(Size - i - s[x] - 1) |-> <<i + s[x], i + s[x] + m>>]
           G == [p \in (1..n) \X V |-> On(p[1], p[2])]
           run == CHOOSE k : k = [t \in SUBSET DOMAIN s |->
                     IF t = {} THEN <<>> ELSE On(Max(t), k[t \ {Max(t)}])]
<1>a. Size \in Nat /\ i \in 1..(Size - 3)
  BY Sizes DEF FitRow
<1>0. n \in Nat /\ DOMAIN s = 1..n /\ <<>> \in V
  BY <1>a
<1>1. Moves(kernel, row) = run[1..n]
  BY <1>0 DEF Moves, FoldLeft, MapThenFoldSet
<1>2. ASSUME NEW x \in 1..n, NEW v \in V PROVE On(x, v) \in V
  <2> DEFINE w == [m \in 1..(Size - i - x - 1) |-> <<i + x, i + x + m>>]
  <2>1. s[x] = x /\ Size - i - x - 1 \in Nat
    BY <1>a
  <2>2. \A m \in 1..(Size - i - x - 1) : w[m] \in M
    BY SMTT(20), <1>a DEF FitMove
  <2> HIDE DEF M, i
  <2>3. w \in V
    BY <2>1, <2>2
  <2>4. On(x, v) = v \o w
    BY <2>1
  <2> HIDE DEF w, On
  <2>5. v \o w \in V
    BY <2>3
  <2>6. QED BY <2>4, <2>5, Zenon
<1> HIDE DEF On, V, n
<1>3. G \in [(1..n) \X V -> V] /\ \A x \in 1..n, v \in V : G[<<x, v>>] = On(x, v)
  BY <1>2
<1> HIDE DEF G
<1>4. \A t \in SUBSET (1..n) : t # {} => Max(t) \in 1..n
  BY <1>0, MaxIn
<1>5. PICK it \in [SUBSET (1..n) -> V] : IsFold(it, n, <<>>, G)
  BY <1>0, <1>3, FoldInside
<1>6. it = [t \in SUBSET (1..n) |-> IF t = {} THEN <<>> ELSE On(Max(t), it[t \ {Max(t)}])]
  <2>1. \A t \in SUBSET (1..n) : t # {} => G[<<Max(t), it[t \ {Max(t)}]>>] = On(Max(t), it[t \ {Max(t)}])
    BY <1>3, <1>4, <1>5
  <2>2. QED BY <2>1, <1>5 DEF IsFold
<1>7. run = [t \in SUBSET (1..n) |-> IF t = {} THEN <<>> ELSE On(Max(t), run[t \ {Max(t)}])]
  BY <1>6, <1>0, Zenon
<1> HIDE DEF run
<1>8. Follows(run, n, <<>>, G, V)
  <2>1. \A t \in SUBSET (1..n) : t # {} /\ run[t \ {Max(t)}] \in V =>
          G[<<Max(t), run[t \ {Max(t)}]>>] = On(Max(t), run[t \ {Max(t)}])
    BY <1>3, <1>4
  <2>2. QED BY <2>1, <1>7 DEF Follows
<1>9. run \in [SUBSET (1..n) -> V]
  BY <1>0, <1>3, <1>8, FoldRuns
<1>10. QED BY <1>1, <1>9 DEF V

LEMMA MovesFit ==
  ASSUME NEW kernel \in KernelNames, NEW row, FitRow(kernel, row)
  PROVE  /\ Len(Moves(kernel, row)) \in Nat /\ DOMAIN Moves(kernel, row) = 1..Len(Moves(kernel, row))
         /\ \A x \in DOMAIN Moves(kernel, row) : FitMove(kernel, row, Moves(kernel, row)[x])
<1> DEFINE i == row.i
           last == i + row.seg - 1
<1>1. Size \in Nat
  BY Sizes
<1>2. CASE kernel = "2opt"
  <2>1. Moves(kernel, row) = [n \in 1..(Size - i) |-> <<i + n>>]
    BY <1>2 DEF Moves
  <2>2. i \in 2..(Size - 1)
    BY <1>2 DEF FitRow
  <2>3. QED BY <1>1, <1>2, <2>1, <2>2 DEF FitMove
<1>3. CASE kernel = "oropt"
  <2> DEFINE a == [j \in 1..(i - 2) |-> <<j>>]
             b == [n \in 1..(Size - last) |-> <<last + n>>]
             M == {mv \in Seq(Nat) : FitMove(kernel, row, mv)}
  <2>1. Moves(kernel, row) = a \o b
    BY <1>3 DEF Moves
  <2>2. i \in 2..Size /\ row.seg \in 1..Size /\ i + row.seg <= Size
    BY <1>3 DEF FitRow
  <2>3. \A j \in 1..(i - 2) : a[j] \in M
    <3> TAKE j \in 1..(i - 2)
    <3>1. a[j] = <<j>> /\ j \in 1..Size /\ j < i - 1
      BY <1>1, <2>2
    <3>2. <<j>> \in Seq(Nat) /\ <<j>>[1] = j
      BY <1>1, <2>2
    <3> HIDE DEF a, i
    <3>3. QED BY <1>3, <3>1, <3>2 DEF FitMove, i
  <2>4. \A n \in 1..(Size - last) : b[n] \in M
    <3> TAKE n \in 1..(Size - last)
    <3>1. b[n] = <<last + n>> /\ last + n \in 1..Size /\ last + n > i + row.seg - 1
      BY <1>1, <2>2
    <3>2. <<last + n>> \in Seq(Nat) /\ <<last + n>>[1] = last + n
      BY <1>1, <2>2
    <3> HIDE DEF b, last, i
    <3>3. QED BY <1>3, <3>1, <3>2 DEF FitMove, i
  <2>5. i - 2 \in Nat /\ Size - last \in Nat
    BY <1>1, <2>2
  <2>6. a \in Seq(M) /\ b \in Seq(M)
    <3> HIDE DEF i, last, M
    <3>1. QED BY <2>3, <2>4, <2>5
  <2> HIDE DEF a, b
  <2>7. Moves(kernel, row) \in Seq(M)
    <3> HIDE DEF M
    <3>1. QED BY <2>1, <2>6
  <2>8. QED BY <2>7
<1>4. CASE kernel = "3opt"
  <2> DEFINE M == {mv \in Nat \X Nat : FitMove(kernel, row, mv)}
             all == Moves(kernel, row)
  <2>1. all \in Seq(M)
    BY <1>4, PairsType
  <2>2. Len(all) \in Nat /\ DOMAIN all = 1..Len(all) /\ \A x \in DOMAIN all : all[x] \in M
    <3> HIDE DEF M, all
    <3>1. QED BY <2>1
  <2>3. QED BY <2>2
<1>5. QED BY <1>2, <1>3, <1>4 DEF KernelNames

LEMMA CandidatesFit ==
  ASSUME NEW kernel \in KernelNames, NEW row, FitRow(kernel, row), NEW mv, FitMove(kernel, row, mv),
         NEW r, Tour(r)
  PROVE  \E n \in Nat \ {0} : Candidates(kernel, row, mv, r) \in [1..n -> Tours]
<1>1. Size \in Nat
  BY Sizes
<1>2. CASE kernel = "2opt"
  <2>1. Candidates(kernel, row, mv, r) = <<Reversed(r, row.i, mv[1])>>
    BY <1>2 DEF Candidates
  <2>2. row.i \in 2..Size /\ mv[1] \in 2..Size /\ row.i <= mv[1]
    BY <1>1, <1>2 DEF FitRow, FitMove
  <2>3. Tour(Reversed(r, row.i, mv[1]))
    BY <2>2, ReversedTour
  <2>4. Reversed(r, row.i, mv[1]) \in Tours
    BY <2>3 DEF Tours, Tour
  <2>5. Candidates(kernel, row, mv, r) \in [1..1 -> Tours]
    BY <2>1, <2>4
  <2>6. QED BY <2>5
<1>3. CASE kernel = "oropt"
  <2>1. Candidates(kernel, row, mv, r) = <<Moved(r, row.i, row.seg, mv[1])>>
    BY <1>3 DEF Candidates
  <2>2. /\ row.i \in 2..Size /\ row.seg \in 1..Size /\ row.i + row.seg - 1 <= Size
        /\ mv[1] \in 1..Size /\ (mv[1] < row.i - 1 \/ mv[1] > row.i + row.seg - 1)
    BY <1>1, <1>3 DEF FitRow, FitMove
  <2>3. Tour(Moved(r, row.i, row.seg, mv[1]))
    BY <2>2, MovedTour
  <2>4. Moved(r, row.i, row.seg, mv[1]) \in Tours
    BY <2>3 DEF Tours, Tour
  <2>5. Candidates(kernel, row, mv, r) \in [1..1 -> Tours]
    BY <2>1, <2>4
  <2>6. QED BY <2>5
<1>4. CASE kernel = "3opt"
  <2>1. Candidates(kernel, row, mv, r) = Reconnected(r, row.i, mv[1], mv[2])
    BY <1>4 DEF Candidates
  <2>2. /\ row.i \in 1..Size /\ mv[1] \in 1..Size /\ mv[2] \in 1..Size
        /\ row.i <= mv[1] /\ mv[1] <= mv[2]
    BY <1>1, <1>4 DEF FitRow, FitMove
  <2>3. Candidates(kernel, row, mv, r) \in [1..7 -> Tours]
    <3>1. Reconnected(r, row.i, mv[1], mv[2]) \in [1..7 -> Tours]
      BY <2>2, ReconnectedTours
    <3>2. QED BY <2>1, <3>1, Zenon
  <2>4. 7 \in Nat \ {0}
    OBVIOUS
  <2>5. QED BY <2>3, <2>4, Zenon
<1>5. QED BY <1>2, <1>3, <1>4 DEF KernelNames

\* A row is a fold over its moves that keeps to tours no dearer than the first.
BestOf(kernel, row, x, v) == Better(v, Candidates(kernel, row, Moves(kernel, row)[x], v))

NoDearer(r) == {t \in Seq(Node) : Tour(t) /\ RouteCost(t) <= RouteCost(r)}

LEMMA MoveKeeps ==
  ASSUME job \in SolverRequest, NEW kernel \in KernelNames, NEW row, FitRow(kernel, row),
         NEW r, Tour(r), NEW x \in 1..Len(Moves(kernel, row)), NEW v \in NoDearer(r)
  PROVE  BestOf(kernel, row, x, v) \in NoDearer(r)
<1> DEFINE mv == Moves(kernel, row)[x]
           cands == Candidates(kernel, row, mv, v)
           b == Better(v, cands)
           top == RouteCost(r)
<1>1. FitMove(kernel, row, mv)
  BY MovesFit
<1>2. Tour(v) /\ RouteCost(v) <= top /\ r \in Seq(Node) /\ top \in Nat
  BY RouteCostType DEF NoDearer, Tour
<1>3. PICK m \in Nat \ {0} : cands \in [1..m -> Tours]
  <2> HIDE DEF mv
  <2>1. QED BY <1>1, <1>2, CandidatesFit
<1> HIDE DEF cands
<1>4. v \in Tours /\ Tours \in SUBSET Seq(Node)
  BY <1>2 DEF Tours, NoDearer
<1>5. b \in Tours /\ RouteCost(b) <= RouteCost(v)
  BY <1>3, <1>4, BetterIs
<1>6. RouteCost(v) \in Nat /\ RouteCost(b) \in Nat
  BY <1>4, <1>5, RouteCostType
<1>7. BestOf(kernel, row, x, v) = b
  BY DEF cands, BestOf
<1> HIDE DEF b, top
<1>8. RouteCost(b) <= top
  BY <1>2, <1>5, <1>6
<1>9. QED BY <1>5, <1>7, <1>8 DEF Tours, NoDearer, top

Width(kernel, row) == Len(Moves(kernel, row))

RowRun(run, kernel, row, r) ==
  /\ AfterRow(kernel, row, r) = run[1..Width(kernel, row)]
  /\ run = [t \in SUBSET (1..Width(kernel, row)) |->
       IF t = {} THEN r ELSE BestOf(kernel, row, Max(t), run[t \ {Max(t)}])]

LEMMA RowRuns ==
  ASSUME job \in SolverRequest, NEW kernel \in KernelNames, NEW row, FitRow(kernel, row),
         NEW r, Tour(r)
  PROVE  /\ Width(kernel, row) \in Nat
         /\ \E run \in [SUBSET (1..Width(kernel, row)) -> NoDearer(r)] : RowRun(run, kernel, row, r)
<1> DEFINE s == Moves(kernel, row)
           n == Len(s)
           V == NoDearer(r)
           On(x, v) == BestOf(kernel, row, x, v)
           G == [p \in (1..n) \X V |-> On(p[1], p[2])]
           run == CHOOSE k : k = [t \in SUBSET DOMAIN s |->
                     IF t = {} THEN r ELSE On(Max(t), k[t \ {Max(t)}])]
<1>0. n \in Nat /\ DOMAIN s = 1..n /\ r \in V
  <2>1. r \in Seq(Node) /\ RouteCost(r) \in Nat
    BY RouteCostType DEF Tour
  <2>2. r \in V
    BY <2>1 DEF NoDearer
  <2>3. QED BY <2>2, MovesFit
<1>1. AfterRow(kernel, row, r) = run[1..n]
  BY <1>0 DEF AfterRow, FoldLeft, MapThenFoldSet, BestOf
<1>2. ASSUME NEW x \in 1..n, NEW v \in V PROVE On(x, v) \in V
  BY MoveKeeps
<1> HIDE DEF On, V, n
<1>3. G \in [(1..n) \X V -> V] /\ \A x \in 1..n, v \in V : G[<<x, v>>] = On(x, v)
  BY <1>2
<1> HIDE DEF G
<1>4. \A t \in SUBSET (1..n) : t # {} => Max(t) \in 1..n
  BY <1>0, MaxIn
<1>5. PICK it \in [SUBSET (1..n) -> V] : IsFold(it, n, r, G)
  BY <1>0, <1>3, FoldInside
<1>6. it = [t \in SUBSET (1..n) |-> IF t = {} THEN r ELSE On(Max(t), it[t \ {Max(t)}])]
  <2>1. \A t \in SUBSET (1..n) : t # {} => G[<<Max(t), it[t \ {Max(t)}]>>] = On(Max(t), it[t \ {Max(t)}])
    BY <1>3, <1>4, <1>5
  <2>2. QED BY <2>1, <1>5 DEF IsFold
<1>7. run = [t \in SUBSET (1..n) |-> IF t = {} THEN r ELSE On(Max(t), run[t \ {Max(t)}])]
  BY <1>6, <1>0, Zenon
<1> HIDE DEF run
<1>8. Follows(run, n, r, G, V)
  <2>1. \A t \in SUBSET (1..n) : t # {} /\ run[t \ {Max(t)}] \in V =>
          G[<<Max(t), run[t \ {Max(t)}]>>] = On(Max(t), run[t \ {Max(t)}])
    BY <1>3, <1>4
  <2>2. QED BY <2>1, <1>7 DEF Follows
<1>9. run \in [SUBSET (1..n) -> V]
  BY <1>0, <1>3, <1>8, FoldRuns
<1>10. Width(kernel, row) = n /\ RowRun(run, kernel, row, r)
  BY <1>1, <1>7, Zenon DEF On, n, RowRun, Width
<1>11. QED BY <1>0, <1>9, <1>10, Zenon DEF V

LEMMA RowImproves ==
  ASSUME job \in SolverRequest, NEW kernel \in KernelNames, NEW row, FitRow(kernel, row),
         NEW r, Tour(r)
  PROVE  Tour(AfterRow(kernel, row, r)) /\ RouteCost(AfterRow(kernel, row, r)) <= RouteCost(r)
<1> DEFINE n == Width(kernel, row)
<1>1. PICK run \in [SUBSET (1..n) -> NoDearer(r)] : RowRun(run, kernel, row, r)
  BY RowRuns
<1>2. AfterRow(kernel, row, r) \in NoDearer(r)
  BY <1>1 DEF RowRun
<1>3. QED BY <1>2 DEF NoDearer

\* A row that leaves the route as it was has found none of its moves cheaper:
\* what a move changes is cheaper, and no later one makes it dearer again.
LEMMA RowTries ==
  ASSUME job \in SolverRequest, NEW kernel \in KernelNames, NEW row, FitRow(kernel, row),
         NEW r, Tour(r), AfterRow(kernel, row, r) = r
  PROVE  \A x \in 1..Width(kernel, row) : BestOf(kernel, row, x, r) = r
<1> DEFINE n == Width(kernel, row)
           V == NoDearer(r)
           top == RouteCost(r)
           On(x, v) == BestOf(kernel, row, x, v)
<1>0. n \in Nat /\ r \in V
  <2>1. n \in Nat
    BY RowRuns
  <2>2. r \in Seq(Node) /\ RouteCost(r) \in Nat
    BY RouteCostType DEF Tour
  <2>3. QED BY <2>1, <2>2 DEF NoDearer
<1>a. PICK run \in [SUBSET (1..n) -> V] : RowRun(run, kernel, row, r)
  BY RowRuns
<1>1. /\ run \in [SUBSET (1..n) -> V] /\ AfterRow(kernel, row, r) = run[1..n]
      /\ run = [t \in SUBSET (1..n) |-> IF t = {} THEN r ELSE On(Max(t), run[t \ {Max(t)}])]
  BY <1>a, Zenon DEF RowRun
<1>2. ASSUME NEW x \in 1..n, NEW v \in V PROVE On(x, v) = v \/ RouteCost(On(x, v)) < RouteCost(v)
  BY DEF BestOf, Better
<1>3. \A v \in V : RouteCost(v) \in Nat /\ RouteCost(v) <= top
  BY RouteCostType DEF NoDearer
<1> DEFINE at(m) == run[1..m]
           Fine(m) == \/ at(m) = r /\ \A x \in 1..m : On(x, r) = r
                      \/ RouteCost(at(m)) < top
<1>4. at(0) = r /\ \A m \in 1..n : at(m) = On(m, at(m - 1)) /\ at(m - 1) \in V /\ at(m) \in V
  <2> HIDE DEF n, V, On
  <2>1. at(0) = r
    <3>1. 1..0 = {} /\ {} \in SUBSET (1..n)
      OBVIOUS
    <3>2. QED BY <1>1, <3>1, Zenon
  <2>2. ASSUME NEW m \in 1..n PROVE at(m) = On(m, at(m - 1)) /\ at(m - 1) \in V /\ at(m) \in V
    <3>1. 1..m \in SUBSET (1..n) /\ 1..m # {} /\ 1..(m - 1) \in SUBSET (1..n)
      BY <1>0
    <3>2. m - 1 \in Nat /\ (m - 1) + 1 = m
      BY <1>0
    <3>3. Max(1..m) = m /\ (1..m) \ {m} = 1..(m - 1)
      BY <3>2, MaxOfPrefix
    <3>4. run[1..m] = On(Max(1..m), run[(1..m) \ {Max(1..m)}])
      BY <1>1, <3>1, Zenon
    <3>5. QED BY <1>1, <3>1, <3>3, <3>4
  <2>3. QED BY <2>1, <2>2
<1> HIDE DEF at, n, V, On, top
<1>5. \A m \in 0..n : Fine(m)
  <2> DEFINE Bad == {m \in 0..n : ~Fine(m)}
  <2>1. SUFFICES ASSUME Bad # {} PROVE FALSE
    OBVIOUS
  <2>2. PICK m \in Bad : \A k \in Bad : m <= k
    <3>1. Bad \in SUBSET Int /\ IsFiniteSet(Bad)
      <4>1. Bad \in SUBSET (0..n) /\ 0..n \in SUBSET Int /\ IsFiniteSet(0..n)
        BY <1>0, FS_Interval
      <4> HIDE DEF Bad
      <4>2. QED BY <4>1, FS_Subset
    <3> HIDE DEF Bad
    <3>2. QED BY <2>1, <3>1, MinExists
  <2>3. m \in 0..n /\ ~Fine(m)
    BY <2>2
  <2>4. m # 0
    BY <1>4, <2>3
  <2>5. m \in 1..n /\ m - 1 \in 0..n
    BY <1>0, <2>3, <2>4
  <2>6. Fine(m - 1)
    BY <1>0, <2>2, <2>5
  <2>7. /\ at(m) = On(m, at(m - 1)) /\ at(m - 1) \in V /\ at(m) \in V
        /\ (at(m) = at(m - 1) \/ RouteCost(at(m)) < RouteCost(at(m - 1)))
        /\ RouteCost(at(m)) \in Nat /\ RouteCost(at(m - 1)) \in Nat /\ RouteCost(at(m - 1)) <= top
        /\ top \in Nat
    BY <1>0, <1>2, <1>3, <1>4, <2>5 DEF top
  <2>8. CASE RouteCost(at(m - 1)) < top
    <3>1. RouteCost(at(m)) < top
      BY <2>7, <2>8
    <3>2. QED BY <2>3, <3>1
  <2>9. CASE at(m - 1) = r /\ \A x \in 1..(m - 1) : On(x, r) = r
    <3>1. CASE at(m) = at(m - 1)
      <4>1. at(m) = r /\ On(m, r) = r
        BY <2>7, <2>9, <3>1
      <4>2. \A x \in 1..m : x = m \/ x \in 1..(m - 1)
        BY <1>0, <2>5
      <4>3. \A x \in 1..m : On(x, r) = r
        BY <2>9, <4>1, <4>2
      <4>4. QED BY <2>3, <4>1, <4>3
    <3>2. CASE RouteCost(at(m)) < RouteCost(at(m - 1))
      BY <2>3, <2>7, <3>2
    <3>3. QED BY <2>7, <3>1, <3>2
  <2>10. QED BY <2>6, <2>8, <2>9
<1>6. Fine(n) /\ at(n) = r /\ top \in Nat
  <2>1. Fine(n)
    BY <1>0, <1>5
  <2>2. run[1..n] = r
    BY <1>1
  <2>3. at(n) = r
    BY <2>2 DEF at
  <2>4. QED BY <1>0, <1>3, <2>1, <2>3 DEF top
<1>7. ~(RouteCost(at(n)) < top)
  BY <1>6 DEF top
<1>8. \A x \in 1..n : On(x, r) = r
  BY <1>6, <1>7
<1>9. QED BY <1>8 DEF On, n

LEMMA ReversalRows ==
  ASSUME NEW kernel
  PROVE  kernel = "2opt" =>
           /\ DOMAIN Rows(kernel) = 1..(Size - 2)
           /\ \A k \in DOMAIN Rows(kernel) : Rows(kernel)[k].i = k + 1
<1>1. CASE kernel = "2opt"
  <2>1. Rows(kernel) = [k \in 1..(Size - 2) |-> [seg |-> 0, i |-> k + 1]]
    BY <1>1 DEF Rows
  <2>2. QED BY <2>1
<1>2. QED BY <1>1

LEMMA ReversalMoves ==
  ASSUME NEW kernel, NEW row
  PROVE  kernel = "2opt" => Moves(kernel, row) = [n \in 1..(Size - row.i) |-> <<row.i + n>>]
<1> DEFINE i == row.i
<1>1. CASE kernel = "2opt"
  <2>1. Moves(kernel, row) = [n \in 1..(Size - i) |-> <<i + n>>]
    BY <1>1 DEF Moves
  <2>2. QED BY <2>1
<1>2. QED BY <1>1

\* A row of 2-opt then has no cheaper reversal that starts at its position.
LEMMA ReversalsTriedAt ==
  ASSUME job \in SolverRequest, NEW kernel, kernel = "2opt", NEW row, FitRow(kernel, row),
         NEW r, Tour(r), AfterRow(kernel, row, r) = r
  PROVE  NoReversalAt(r, row.i)
<1> DEFINE i == row.i
<1>1. i \in 2..(Size - 1) /\ Size \in Nat
  BY Sizes DEF FitRow
<1>2. ASSUME NEW j \in (i + 1)..Size, RouteCost(Reversed(r, i, j)) < RouteCost(r) PROVE FALSE
  <2> DEFINE M == [n \in 1..(Size - i) |-> <<i + n>>]
             x == j - i
             cand == Reversed(r, i, j)
  <2>1. Moves(kernel, row) = M
    BY ReversalMoves
  <2>2. Size - i \in Nat /\ x \in 1..(Size - i) /\ i + x = j
    BY <1>1
  <2> HIDE DEF x
  <2>3. Len(M) = Size - i /\ M[x] = <<j>>
    BY <2>2
  <2>4. Width(kernel, row) = Size - i
    BY <2>1, <2>3 DEF Width
  <2>5. BestOf(kernel, row, x, r) = r
    BY <2>2, <2>4, RowTries DEF KernelNames
  <2> HIDE DEF M
  <2>6. Candidates(kernel, row, <<j>>, r) = <<cand>>
    BY DEF Candidates
  <2>7. BestOf(kernel, row, x, r) = Better(r, <<cand>>)
    BY <2>1, <2>3, <2>6, Zenon DEF BestOf
  <2> HIDE DEF cand
  <2>8. Better(r, <<cand>>) = cand
    <3>1. DOMAIN <<cand>> = {1} /\ <<cand>>[1] = cand
      OBVIOUS
    <3>2. RouteCost(cand) < RouteCost(r)
      BY <1>2 DEF cand
    <3>3. QED BY <3>1, <3>2 DEF Better
  <2>9. cand = r /\ RouteCost(r) \in Nat
    BY <2>5, <2>7, <2>8, RouteCostType DEF Tour
  <2>10. QED BY <1>2, <2>9 DEF cand
<1>3. ASSUME NEW j \in (i + 1)..Size
      PROVE  RouteCost(Reversed(r, i, j)) \in Nat /\ RouteCost(r) \in Nat
  <2>1. i \in 2..Size /\ j \in 2..Size /\ i <= j
    BY <1>1
  <2>2. Tour(Reversed(r, i, j))
    BY <2>1, ReversedTour
  <2>3. Reversed(r, i, j) \in Seq(Node) /\ r \in Seq(Node)
    BY <2>2 DEF Tour
  <2>4. QED BY <2>3, RouteCostType
<1> HIDE DEF i
<1>4. ASSUME NEW j \in (i + 1)..Size PROVE RouteCost(Reversed(r, i, j)) >= RouteCost(r)
  BY <1>2, <1>3
<1>5. QED BY <1>4 DEF NoReversalAt, i

(* The nearest stop, and the chain of them.                                *)
LEMMA LexLeast ==
  ASSUME NEW T, IsFiniteSet(T), T # {}, NEW f, NEW g, \A x \in T : f[x] \in Int /\ g[x] \in Int
  PROVE  \E x \in T : \A y \in T : f[x] < f[y] \/ (f[x] = f[y] /\ g[x] <= g[y])
<1> DEFINE S == {f[x] : x \in T}
<1>1. IsFiniteSet(S) /\ S \in SUBSET Int /\ S # {}
  <2>1. IsFiniteSet(S)
    BY FiniteImage
  <2>2. QED BY <2>1
<1>2. PICK low \in S : \A v \in S : low <= v
  <2> HIDE DEF S
  <2>1. QED BY <1>1, MinExists
<1> DEFINE U == {x \in T : f[x] = low}
           R == {g[x] : x \in U}
<1>3. IsFiniteSet(U) /\ U # {}
  <2>1. U \in SUBSET T
    OBVIOUS
  <2>2. IsFiniteSet(U)
    BY <2>1, FS_Subset
  <2>3. QED BY <2>2
<1>4. IsFiniteSet(R) /\ R \in SUBSET Int /\ R # {}
  <2>1. \A x \in U : g[x] \in Int
    OBVIOUS
  <2> HIDE DEF U
  <2>2. IsFiniteSet(R)
    BY <1>3, FiniteImage
  <2>3. QED BY <1>3, <2>1, <2>2
<1>5. PICK least \in R : \A v \in R : least <= v
  <2> HIDE DEF R
  <2>1. QED BY <1>4, MinExists
<1>6. PICK x \in U : g[x] = least
  OBVIOUS
<1>7. ASSUME NEW y \in T PROVE f[x] < f[y] \/ (f[x] = f[y] /\ g[x] <= g[y])
  <2>a. f[y] \in S /\ f[y] \in Int /\ f[x] = low
    OBVIOUS
  <2>1. f[x] = low /\ low <= f[y] /\ low \in Int /\ f[y] \in Int
    <3> HIDE DEF S, U, R
    <3>1. QED BY <2>a, <1>1, <1>2
  <2>2. CASE f[y] = low
    <3>1. y \in U /\ g[y] \in R
      BY <2>2
    <3>2. QED BY <1>5, <1>6, <2>1, <2>2, <3>1
  <2>3. CASE f[y] # low
    <3> HIDE DEF S, U, R
    <3>1. QED BY <2>1, <2>3
  <2>4. QED BY <2>2, <2>3
<1>8. QED BY <1>7

Ordering(order) == \A x \in Sites : order[x] \in Int

LEMMA NextStopIn ==
  ASSUME job \in SolverRequest, NEW at \in Node, NEW T \in SUBSET Sites, T # {},
         NEW sense \in {1, -1}, NEW order, Ordering(order)
  PROVE  NextStop(at, T, sense, order) \in T
<1> DEFINE f == [x \in T |-> sense * Cost(at, x)]
           Least(x) == \A y \in T :
             \/ sense * Cost(at, x) < sense * Cost(at, y)
             \/ Cost(at, x) = Cost(at, y) /\ order[x] <= order[y]
<1>1. IsFiniteSet(T)
  BY Sizes, FS_Subset
<1>2. \A x \in T : Cost(at, x) \in Nat
  BY CostType DEF Node
<1>3. \A x \in T : f[x] = sense * Cost(at, x) /\ f[x] \in Int /\ order[x] \in Int
  <2> TAKE x \in T
  <2>1. f[x] = sense * Cost(at, x)
    OBVIOUS
  <2>2. sense * Cost(at, x) \in Int
    BY <1>2
  <2>3. QED BY <2>1, <2>2 DEF Ordering
<1> HIDE DEF f
<1>4. PICK x \in T : \A y \in T : f[x] < f[y] \/ (f[x] = f[y] /\ order[x] <= order[y])
  BY <1>1, <1>3, LexLeast
<1>5. Least(x)
  <2> SUFFICES ASSUME NEW y \in T
               PROVE  \/ sense * Cost(at, x) < sense * Cost(at, y)
                      \/ Cost(at, x) = Cost(at, y) /\ order[x] <= order[y]
    OBVIOUS
  <2>1. f[x] = sense * Cost(at, x) /\ f[y] = sense * Cost(at, y)
    BY <1>3
  <2>2. Cost(at, x) \in Nat /\ Cost(at, y) \in Nat
    BY <1>2
  <2>3. f[x] < f[y] \/ (f[x] = f[y] /\ order[x] <= order[y])
    BY <1>4
  <2> DEFINE a == Cost(at, x)
             b == Cost(at, y)
  <2>4. a \in Nat /\ b \in Nat /\ f[x] = sense * a /\ f[y] = sense * b
    BY <2>1, <2>2
  <2> HIDE DEF a, b
  <2>5. f[x] = f[y] => a = b
    BY <2>4
  <2>6. QED BY <2>1, <2>3, <2>5 DEF a, b
<1>6. \E z \in T : Least(z)
  <2> HIDE DEF Least
  <2>1. QED BY <1>5
<1>7. QED BY <1>6, Zenon DEF NextStop

IsChain(c, sense, order) ==
  c = [p \in Node \X SUBSET Sites |->
         IF p[2] = {} THEN <<>>
         ELSE LET x == NextStop(p[1], p[2], sense, order)
              IN  <<x>> \o c[<<x, p[2] \ {x}>>]]

LEMMA ChainExists ==
  ASSUME job \in SolverRequest, NEW sense \in {1, -1}, NEW order, Ordering(order)
  PROVE  \E c : IsChain(c, sense, order)
<1> DEFINE P == Node \X SUBSET Sites
           Upto(k) == {p \in P : Cardinality(p[2]) <= k}
           Nx(p) == NextStop(p[1], p[2], sense, order)
           On(g, p) == IF p[2] = {} THEN <<>> ELSE <<Nx(p)>> \o g[<<Nx(p), p[2] \ {Nx(p)}>>]
           Good == {k \in Nat : \E g : g = [p \in Upto(k) |-> On(g, p)]}
<1>a. IsFiniteSet(Sites) /\ Sites \in SUBSET Node
  BY Sizes DEF Node
<1>0. \A p \in P : IsFiniteSet(p[2]) /\ Cardinality(p[2]) \in Nat
                   /\ Cardinality(p[2]) <= Cardinality(Sites)
  BY <1>a, FS_Subset, FS_CardinalityType
<1>1. 0 \in Good
  <2> DEFINE g == [p \in Upto(0) |-> <<>>]
  <2>1. \A p \in Upto(0) : p[2] = {}
    BY <1>0, FS_EmptySet
  <2>2. g = [p \in Upto(0) |-> On(g, p)]
    BY <2>1
  <2>3. QED BY <2>2
<1>2. ASSUME NEW k \in Good PROVE k + 1 \in Good
  <2>1. k \in Nat /\ k + 1 \in Nat
    OBVIOUS
  <2>2. PICK g : g = [p \in Upto(k) |-> On(g, p)]
    OBVIOUS
  <2> DEFINE h == [p \in Upto(k + 1) |-> On(g, p)]
  <2>3. Upto(k) \in SUBSET Upto(k + 1)
    <3>1. \A p \in P : Cardinality(p[2]) <= k => Cardinality(p[2]) <= k + 1
      BY <2>1, <1>0
    <3>2. QED BY <3>1
  <2>4. \A p \in Upto(k) : h[p] = g[p]
    <3> SUFFICES ASSUME NEW p \in Upto(k) PROVE h[p] = g[p]
      OBVIOUS
    <3> HIDE DEF On, Upto
    <3>1. h[p] = On(g, p)
      BY <2>3
    <3>2. g[p] = On(g, p)
      BY <2>2
    <3>3. QED BY <3>1, <3>2
  <2>5. ASSUME NEW p \in Upto(k + 1) PROVE On(g, p) = On(h, p)
    <3>1. CASE p[2] = {}
      BY <3>1
    <3>2. CASE p[2] # {}
      <4>0. p[1] \in Node /\ p[2] \in SUBSET Sites /\ Cardinality(p[2]) <= k + 1
        OBVIOUS
      <4>1. Nx(p) \in p[2] /\ Nx(p) \in Node
        BY <3>2, <4>0, <1>a, NextStopIn
      <4> HIDE DEF Nx
      <4>2. p[2] \ {Nx(p)} \in SUBSET Sites /\ Cardinality(p[2] \ {Nx(p)}) <= k
        BY <4>0, <4>1, <2>1, <1>a, SmallerWithout
      <4>3. <<Nx(p), p[2] \ {Nx(p)}>> \in Upto(k)
        BY <4>1, <4>2
      <4>4. h[<<Nx(p), p[2] \ {Nx(p)}>>] = g[<<Nx(p), p[2] \ {Nx(p)}>>]
        BY <4>3, <2>4
      <4> HIDE DEF h
      <4>5. QED BY <4>4
    <3>3. QED BY <3>1, <3>2
  <2>6. h = [p \in Upto(k + 1) |-> On(h, p)]
    <3>1. \A p \in Upto(k + 1) : On(g, p) = On(h, p)
      BY <2>5
    <3> HIDE DEF On
    <3>2. QED BY <3>1
  <2>7. \E f : f = [p \in Upto(k + 1) |-> On(f, p)]
    <3> HIDE DEF h, On, Upto
    <3>1. QED BY <2>6
  <2>8. QED BY <2>7, <2>1
<1>3. Good = Nat
  <2>1. Good \in SUBSET Nat
    OBVIOUS
  <2> HIDE DEF Good
  <2>2. QED BY <1>1, <1>2, <2>1, NatSetInduction
<1>4. Cardinality(Sites) \in Good
  BY <1>3, <1>a, FS_CardinalityType
<1>5. PICK c : c = [p \in Upto(Cardinality(Sites)) |-> On(c, p)]
  BY <1>4
<1>6. Upto(Cardinality(Sites)) = P
  BY <1>0
<1>7. c = [p \in P |-> On(c, p)]
  <2> HIDE DEF On, P, Upto
  <2>1. QED BY <1>5, <1>6
<1>8. IsChain(c, sense, order)
  BY <1>7 DEF IsChain
<1>9. QED BY <1>8

LEMMA ChainRuns ==
  ASSUME job \in SolverRequest, NEW sense \in {1, -1}, NEW order, Ordering(order),
         NEW c, IsChain(c, sense, order)
  PROVE  \A at \in Node, T \in SUBSET Sites : Run(c[<<at, T>>], Cardinality(T), T)
<1> DEFINE Fine(p) == Run(c[p], Cardinality(p[2]), p[2])
           P == Node \X SUBSET Sites
           Good == {k \in Nat : \A p \in P : Cardinality(p[2]) <= k => Fine(p)}
<1>a. IsFiniteSet(Sites) /\ Sites \in SUBSET Node
  BY Sizes DEF Node
<1>0. \A p \in P : p[2] \in SUBSET Sites /\ IsFiniteSet(p[2]) /\ Cardinality(p[2]) \in Nat
                   /\ Cardinality(p[2]) <= Cardinality(Sites)
  BY <1>a, FS_Subset, FS_CardinalityType
<1>b. Cardinality({}) = 0
  BY FS_EmptySet
<1>1. \A p \in P : p[2] = {} => Fine(p)
  <2> TAKE p \in P
  <2>1. SUFFICES ASSUME p[2] = {} PROVE Run(c[p], 0, {})
    BY <1>b
  <2>2. c[p] = <<>>
    BY <2>1 DEF IsChain
  <2>3. Len(<<>>) = 0 /\ <<>> \in Seq(Node) /\ AllOf(<<>>) = {}
    BY DEF AllOf
  <2>4. QED BY <2>2, <2>3 DEF Run
<1>2. 0 \in Good
  <2>1. \A p \in P : Cardinality(p[2]) <= 0 => p[2] = {}
    BY <1>0, FS_EmptySet
  <2>2. QED BY <2>1, <1>1
<1>3. ASSUME NEW k \in Good PROVE k + 1 \in Good
  <2>1. SUFFICES ASSUME NEW p \in P, Cardinality(p[2]) <= k + 1 PROVE Fine(p)
    OBVIOUS
  <2>2. CASE p[2] = {}
    BY <2>2, <1>1
  <2>3. CASE p[2] # {}
    <3> DEFINE x == NextStop(p[1], p[2], sense, order)
               rest == <<x, p[2] \ {x}>>
    <3>1. x \in p[2] /\ x \in Node
      BY <2>3, <1>a, NextStopIn
    <3>2. c[p] = <<x>> \o c[rest]
      BY <2>3 DEF IsChain
    <3> HIDE DEF x
    <3>3. k \in Nat /\ p[2] \ {x} \in SUBSET Sites /\ Cardinality(p[2] \ {x}) <= k
      BY <2>1, <3>1, <1>a, <1>0, SmallerWithout
    <3>4. rest \in P /\ rest[2] = p[2] \ {x}
      BY <3>1, <3>3
    <3> HIDE DEF rest
    <3>5. Fine(rest)
      BY <3>3, <3>4, <1>3
    <3> DEFINE m == Cardinality(p[2] \ {x})
    <3>6. Run(c[rest], m, p[2] \ {x})
      BY <3>4, <3>5
    <3>7. Run(<<x>>, 1, {x})
      BY <3>1 DEF Run, AllOf
    <3> HIDE DEF m
    <3>8. Run(Glue(<<x>>, c[rest]), 1 + m, {x} \cup (p[2] \ {x}))
      BY <3>6, <3>7, JoinRuns
    <3>9. {x} \cup (p[2] \ {x}) = p[2] /\ 1 + m = Cardinality(p[2])
      <4>1. m = Cardinality(p[2]) - 1
        BY <3>1, <1>0, FS_RemoveElement DEF m
      <4>2. Cardinality(p[2]) \in Nat
        BY <1>0
      <4>3. QED BY <3>1, <4>1, <4>2
    <3>10. Glue(<<x>>, c[rest]) = c[p]
      BY <3>2 DEF Glue
    <3>11. QED BY <3>8, <3>9, <3>10, Zenon
  <2>4. QED BY <2>2, <2>3
<1>4. Good = Nat
  <2>1. Good \in SUBSET Nat
    OBVIOUS
  <2> HIDE DEF Good
  <2>2. QED BY <1>2, <1>3, <2>1, NatSetInduction
<1>5. TAKE at \in Node, T \in SUBSET Sites
<1>6. <<at, T>> \in P /\ Cardinality(T) \in Nat
  BY <1>a, FS_Subset, FS_CardinalityType
<1>7. \A p \in P : Cardinality(p[2]) <= Cardinality(T) => Fine(p)
  BY <1>4, <1>6
<1>8. Fine(<<at, T>>)
  BY <1>6, <1>7
<1>9. QED BY <1>8

LEMMA ChainIs ==
  ASSUME job \in SolverRequest, NEW at \in Node, NEW T \in SUBSET Sites,
         NEW sense \in {1, -1}, NEW order, Ordering(order)
  PROVE  Run(Chain(at, T, sense, order), Cardinality(T), T)
<1> DEFINE c == CHOOSE chain : chain = [p \in (Sites \cup {Depot}) \X SUBSET Sites |->
         IF p[2] = {} THEN <<>>
         ELSE LET x == NextStop(p[1], p[2], sense, order)
              IN  <<x>> \o chain[<<x, p[2] \ {x}>>]]
<1>1. Chain(at, T, sense, order) = c[<<at, T>>]
  BY DEF Chain
<1>2. PICK d : IsChain(d, sense, order)
  BY ChainExists
<1>3. d = [p \in (Sites \cup {Depot}) \X SUBSET Sites |->
         IF p[2] = {} THEN <<>>
         ELSE LET x == NextStop(p[1], p[2], sense, order)
              IN  <<x>> \o d[<<x, p[2] \ {x}>>]]
  BY <1>2 DEF IsChain, Node
<1>4. c = [p \in (Sites \cup {Depot}) \X SUBSET Sites |->
         IF p[2] = {} THEN <<>>
         ELSE LET x == NextStop(p[1], p[2], sense, order)
              IN  <<x>> \o c[<<x, p[2] \ {x}>>]]
  BY <1>3, Zenon
<1> HIDE DEF c
<1>5. IsChain(c, sense, order)
  BY <1>4 DEF IsChain, Node
<1>6. Run(c[<<at, T>>], Cardinality(T), T)
  BY <1>5, ChainRuns
<1>7. QED BY <1>1, <1>6, Zenon

(* Where the seeds start from.                                             *)
Permutation(s) == Run(s, Size - 1, Sites)

LEMMA Orderings ==
  ASSUME job \in SolverRequest
  PROVE  Ordering(AsGiven) /\ Ordering(ByPareto)
<1>1. Ordering(AsGiven)
  <2>1. Sites \in SUBSET Int
    BY Sizes
  <2>2. QED BY <2>1 DEF Ordering, AsGiven
<1>2. ASSUME NEW x \in Sites PROVE ByPareto[x] \in Int
  <2>1. x \in Int /\ job.rank[x] \in Int /\ Cardinality(Sites) + 1 \in Int
    BY Sizes DEF SolverRequest
  <2>2. ByPareto[x] = job.rank[x] * (Cardinality(Sites) + 1) + x
    BY DEF ByPareto
  <2> DEFINE a == job.rank[x]
             b == Cardinality(Sites) + 1
  <2>3. a \in Int /\ b \in Int /\ ByPareto[x] = a * b + x
    BY <2>1, <2>2
  <2> HIDE DEF a, b
  <2>4. a * b \in Int
    BY <2>3
  <2> DEFINE ab == a * b
  <2>5. ab \in Int /\ ByPareto[x] = ab + x
    BY <2>3, <2>4
  <2> HIDE DEF ab
  <2>6. QED BY <2>1, <2>5
<1>3. QED BY <1>1, <1>2 DEF Ordering

LEMMA AllStops == Cardinality(Sites) = Size - 1 /\ Size - 1 \in Nat
<1>1. Cardinality(Sites) \in Nat /\ Size = Cardinality(Sites) + 1
  BY Sizes, FS_CardinalityType
<1>2. QED BY <1>1

LEMMA Chains ==
  ASSUME job \in SolverRequest
  PROVE  /\ Permutation(NearestFirst(Depot, Sites, AsGiven))
         /\ Permutation(NearestFirst(Depot, Sites, ByPareto))
         /\ Permutation(FarthestFirst(Depot, Sites))
<1>1. Depot \in Node /\ Sites \in SUBSET Sites
  BY DEF Node
<1>2. Ordering(AsGiven) /\ Ordering(ByPareto)
  BY Orderings
<1>3. Run(Chain(Depot, Sites, 1, AsGiven), Cardinality(Sites), Sites)
  BY <1>1, <1>2, ChainIs
<1>4. Run(Chain(Depot, Sites, 1, ByPareto), Cardinality(Sites), Sites)
  BY <1>1, <1>2, ChainIs
<1>5. Run(Chain(Depot, Sites, -1, AsGiven), Cardinality(Sites), Sites)
  BY <1>1, <1>2, ChainIs
<1>6. QED BY <1>3, <1>4, <1>5, AllStops DEF Permutation, NearestFirst, FarthestFirst

LEMMA FarStart ==
  ASSUME job \in SolverRequest
  PROVE  LET far == FarthestFirst(Depot, Sites)[1]
         IN  Permutation(<<far>> \o NearestFirst(far, Sites \ {far}, AsGiven))
<1> DEFINE far == FarthestFirst(Depot, Sites)[1]
           rest == NearestFirst(far, Sites \ {far}, AsGiven)
<1>1. far \in Sites
  <2>1. Permutation(FarthestFirst(Depot, Sites))
    BY Chains
  <2>2. Size - 1 >= 1
    BY Sizes
  <2>3. FarthestFirst(Depot, Sites)[1] \in AllOf(FarthestFirst(Depot, Sites))
    BY <2>1, <2>2 DEF Permutation, Run, AllOf
  <2>4. QED BY <2>1, <2>3 DEF Permutation, Run
<1> HIDE DEF far
<1>2. far \in Node /\ Sites \ {far} \in SUBSET Sites
  BY <1>1 DEF Node
<1>3. Run(Chain(far, Sites \ {far}, 1, AsGiven), Cardinality(Sites \ {far}), Sites \ {far})
  BY <1>2, Orderings, ChainIs
<1> DEFINE m == Cardinality(Sites \ {far})
<1>4. 1 + m = Size - 1
  <2>1. m = Cardinality(Sites) - 1
    BY <1>1, Sizes, FS_RemoveElement
  <2> HIDE DEF m
  <2>2. QED BY <2>1, AllStops
<1>5. Run(rest, m, Sites \ {far})
  BY <1>3 DEF NearestFirst
<1>6. Run(<<far>>, 1, {far})
  BY <1>2 DEF Run, AllOf
<1> HIDE DEF m, rest
<1>7. Run(Glue(<<far>>, rest), 1 + m, {far} \cup (Sites \ {far}))
  BY <1>5, <1>6, JoinRuns
<1>8. {far} \cup (Sites \ {far}) = Sites
  BY <1>1
<1>9. Permutation(<<far>> \o rest)
  BY <1>4, <1>7, <1>8 DEF Permutation, Glue
<1>10. QED BY <1>9 DEF rest, far

LEMMA AnyOrder ==
  ASSUME NEW f \in SetToSeqs(Sites)
  PROVE  Permutation(f)
<1> DEFINE n == Cardinality(Sites)
           D == 1..n
<1>1. f \in [D -> Sites] /\ \A i, j \in D : i # j => f[i] # f[j]
  BY DEF SetToSeqs
<1>2. f \in Injection(D, Sites)
  <2> HIDE DEF D
  <2>1. QED BY <1>1 DEF Injection, IsInjective
<1>3. n = Size - 1 /\ n \in Nat
  BY AllStops
<1>4. IsFiniteSet(Sites)
  BY Sizes
<1>5. Cardinality(D) = Cardinality(Sites)
  <2>1. Sites = D
    BY Sizes, <1>3
  <2>2. QED BY <2>1
<1>6. f \in Surjection(D, Sites)
  BY <1>2, <1>4, <1>5, FS_Injection
<1>7. \A x \in Sites : \E i \in D : f[i] = x
  BY <1>6 DEF Surjection
<1> HIDE DEF n
<1>8. f \in Seq(Node) /\ Len(f) = n
  BY <1>1, <1>3 DEF Node
<1>9. AllOf(f) = Sites
  <2>1. AllOf(f) = {f[i] : i \in D}
    BY <1>8 DEF AllOf
  <2>2. QED BY <2>1, <1>1, <1>7
<1>10. QED BY <1>3, <1>8, <1>9 DEF Permutation, Run

LEMMA SeedIs ==
  ASSUME job \in SolverRequest, NEW n \in 0..4, NEW r \in SeedRoutes(n)
  PROVE  Permutation(r)
<1>1. CASE n = 0
  BY <1>1, Chains DEF SeedRoutes
<1>2. CASE n = 1
  <2>1. LET far == FarthestFirst(Depot, Sites)[1]
        IN  r = <<far>> \o NearestFirst(far, Sites \ {far}, AsGiven)
    <3>1. SeedRoutes(1) = LET far == FarthestFirst(Depot, Sites)[1]
                          IN  {<<far>> \o NearestFirst(far, Sites \ {far}, AsGiven)}
      BY DEF SeedRoutes
    <3>2. r \in SeedRoutes(1)
      BY <1>2
    <3>3. QED BY <3>1, <3>2, Zenon
  <2>2. QED BY <2>1, FarStart
<1>3. CASE n = 2
  BY <1>3, Chains DEF SeedRoutes
<1>4. CASE n = 3
  <2>1. r \in SetToSeqs(Sites)
    BY <1>4 DEF SeedRoutes
  <2>2. QED BY <2>1, AnyOrder
<1>5. CASE n = 4
  BY <1>5, Chains DEF SeedRoutes
<1>6. QED BY <1>1, <1>2, <1>3, <1>4, <1>5

LEMMA FromDepot ==
  ASSUME NEW s, Permutation(s)
  PROVE  Tour(<<Depot>> \o s)
<1>1. Run(s, Size - 1, Sites)
  BY DEF Permutation
<1>2. <<Depot>> \in Seq(Node) /\ Len(<<Depot>>) = 1 /\ <<Depot>>[1] = Depot /\ Behind(<<Depot>>) = {}
  BY DEF Node, Behind
<1>3. Start(<<Depot>>, 1, Depot, {})
  BY <1>2 DEF Start
<1>4. Start(Glue(<<Depot>>, s), 1 + (Size - 1), Depot, {} \cup Sites)
  BY <1>1, <1>3, JoinStart
<1>5. 1 + (Size - 1) = Size /\ {} \cup Sites = Sites
  BY Sizes
<1>6. QED BY <1>4, <1>5, TourIs DEF Glue

-----------------------------------------------------------------------------
(* The invariant.                                                          *)
NearestTour == <<Depot>> \o NearestFirst(Depot, Sites, AsGiven)

\* Routes are tours; there is one where the solver needs one.
ToursKept ==
  /\ route # <<>> => Tour(route)
  /\ bestRoute # <<>> => Tour(bestRoute)
  /\ pc = "improve" => route # <<>> /\ seed < Seeds[job.tier]
  /\ pc = "seed" /\ seed > 0 => route # <<>>
  /\ pc \in {"soft", "done"} => route # <<>> /\ bestRoute # <<>>
  /\ job.tier = "legacy" => ~expired

\* The first seed starts from the nearest neighbours, and what replaces it is
\* cheaper; unless it has an arc missing, when none is dearer.
CostsKept ==
  /\ pc = "improve" /\ seed = 0 => RouteCost(route) <= RouteCost(NearestTour)
  /\ bestRoute # <<>> => RouteCost(bestRoute) <= RouteCost(NearestTour)
  /\ pc \in {"seed", "improve"} /\ seed = 0 => bestRoute = <<>>
  /\ pc \in {"seed", "improve"} /\ seed >= 1 /\ bestRoute = <<>> => Inf <= RouteCost(NearestTour)
  /\ pc = "seed" /\ seed = 1 /\ job.tier = "legacy" => RouteCost(route) <= RouteCost(NearestTour)

\* Each swap pays off against the order that came in.
SwapsKept ==
  pc \in {"soft", "done"} =>
    \/ route = bestRoute
    \/ Slip(route) + 1 <= Slip(bestRoute) /\ 20 * Drive(route) <= 21 * Drive(bestRoute)

SolverInv == SolverTypeOK /\ ToursKept /\ CostsKept /\ SwapsKept

LEMMA SameJob ==
  ASSUME job' = job
  PROVE  /\ RouteCost(NearestTour)' = RouteCost(NearestTour)
         /\ RouteCost(route)' = RouteCost(route') /\ RouteCost(bestRoute)' = RouteCost(bestRoute')
         /\ Slip(route)' = Slip(route') /\ Slip(bestRoute)' = Slip(bestRoute')
         /\ Drive(route)' = Drive(route') /\ Drive(bestRoute)' = Drive(bestRoute')
<1>1. NearestTour' = NearestTour
  BY DEF NearestTour, NearestFirst, Chain, NextStop, Cost, AsGiven
<1>2. RouteCost(NearestTour)' = RouteCost(NearestTour')
  BY DEF RouteCost, Cost
<1>3. RouteCost(route)' = RouteCost(route') /\ RouteCost(bestRoute)' = RouteCost(bestRoute')
  BY DEF RouteCost, Cost
<1>4. Slip(route)' = Slip(route') /\ Slip(bestRoute)' = Slip(bestRoute')
  BY DEF Slip, SlipAt, Arrival, Leg, Cost
<1>5. Drive(route)' = Drive(route') /\ Drive(bestRoute)' = Drive(bestRoute')
  BY DEF Drive, Leg, Cost
<1>6. QED BY <1>1, <1>2, <1>3, <1>4, <1>5

LEMMA TourType ==
  ASSUME NEW r, Tour(r)
  PROVE  r \in Seq(Node) /\ r # <<>> /\ Len(r) = Size
<1>1. r \in Seq(Node) /\ Len(r) = Size
  BY DEF Tour, IsRoute
<1>2. QED BY <1>1, Sizes

LEMMA NearestIsTour ==
  ASSUME job \in SolverRequest
  PROVE  Tour(NearestTour) /\ RouteCost(NearestTour) \in Nat
<1>1. Tour(NearestTour)
  BY Chains, FromDepot DEF NearestTour
<1>2. QED BY <1>1, TourType, RouteCostType

Counting == [todo : Seq(KernelNames), row : Nat \ {0}, pass : Nat \ {0}, improved : BOOLEAN,
             gaveUp : BOOLEAN]

LEMMA FreshKernels ==
  ASSUME NEW s \in Seq(KernelNames), NEW g \in BOOLEAN
  PROVE  /\ Starting(s, g) \in Counting /\ Starting(s, g).todo = s /\ Starting(s, g).pass = 1
         /\ Starting(s, g).row = 1 /\ ~Starting(s, g).improved
<1>1. 1 \in Nat \ {0} /\ FALSE \in BOOLEAN
  OBVIOUS
<1>2. \A b, c \in BOOLEAN :
          [todo |-> s, row |-> 1, pass |-> 1, improved |-> b, gaveUp |-> c] \in Counting
  BY DEF Counting
<1>3. Starting(s, g) \in Counting
  BY <1>1, <1>2, Zenon DEF Starting
<1>4. Starting(s, g).todo = s /\ Starting(s, g).pass = 1 /\ Starting(s, g).row = 1
  BY DEF Starting
<1>5. Starting(s, g).improved = FALSE
  BY Zenon DEF Starting
<1>6. QED BY <1>3, <1>4, <1>5

LEMMA IdleKernels == Idle \in Counting /\ Idle.todo = <<>>
<1>1. <<>> \in Seq(KernelNames) /\ FALSE \in BOOLEAN
  OBVIOUS
<1>2. Starting(<<>>, FALSE) \in Counting /\ Starting(<<>>, FALSE).todo = <<>>
  BY <1>1, FreshKernels, Zenon
<1>3. QED BY <1>2, Zenon DEF Idle

LEMMA KernelsOf ==
  ASSUME NEW t \in {"legacy", "small", "medium", "large"}
  PROVE  Kernels[t] \in Seq(KernelNames)
<1>1. "2opt" \in KernelNames /\ "oropt" \in KernelNames /\ "3opt" \in KernelNames
  BY DEF KernelNames
<1> HIDE DEF KernelNames
<1>2. /\ <<"2opt">> \in Seq(KernelNames) /\ <<"oropt", "2opt">> \in Seq(KernelNames)
      /\ <<"oropt", "2opt", "3opt">> \in Seq(KernelNames)
  BY <1>1
<1>3. \/ Kernels[t] = <<"2opt">>
      \/ Kernels[t] = <<"oropt", "2opt">>
      \/ Kernels[t] = <<"oropt", "2opt", "3opt">>
  BY DEF Kernels
<1>4. QED BY <1>2, <1>3, Zenon

LEMMA HeadIn ==
  ASSUME NEW s \in Seq(KernelNames), s # <<>>
  PROVE  Head(s) \in KernelNames /\ Tail(s) \in Seq(KernelNames)
         /\ MaxPasses[Head(s)] \in Nat \ {0}
<1>1. Head(s) \in KernelNames /\ Tail(s) \in Seq(KernelNames)
  <2> HIDE DEF KernelNames
  <2>1. QED OBVIOUS
<1>2. QED BY <1>1, SolverSizes DEF KernelNames

LEMMA SolverStart == SolverInit => SolverInv
<1> SUFFICES ASSUME SolverInit PROVE SolverInv
  OBVIOUS
<1>1. /\ job \in SolverRequest /\ pc = "seed" /\ expired = FALSE /\ seed = 0 /\ route = <<>>
      /\ kern = Idle /\ bestRoute = <<>> /\ swap = [i |-> 1, n |-> 0, pass |-> 1]
  BY SolverRequests DEF SolverInit
<1>2. Size \in Nat /\ Size >= 2 /\ SwapsPerPass \in Nat /\ SwapPasses \in Nat \ {0}
  BY Sizes, SolverSizes
<1>3. Seeds[job.tier] \in Nat
  BY <1>1 DEF Seeds, SolverRequest
<1>4. SolverTypeOK
  <2>1. kern \in Counting /\ kern.todo = <<>>
    BY <1>1, IdleKernels
  <2>2. swap \in [i : 1..Size, n : 0..SwapsPerPass, pass : 1..SwapPasses]
    BY <1>1, <1>2
  <2>3. route \in Seq(Sites \cup {Depot}) /\ bestRoute \in Seq(Sites \cup {Depot})
    BY <1>1
  <2>4. seed \in 0..Seeds[job.tier] /\ expired \in BOOLEAN /\ pc \in {"seed", "improve", "soft", "done"}
    <3>1. seed \in 0..Seeds[job.tier]
      BY <1>1, <1>3
    <3>2. QED BY <1>1, <3>1, Zenon
  <2>5. QED BY <1>1, <2>1, <2>2, <2>3, <2>4 DEF SolverTypeOK, Counting, KernelNames
<1>5. QED BY <1>1, <1>4 DEF SolverInv, ToursKept, CostsKept, SwapsKept

LEMMA DeadlineStep == SolverInv /\ Deadline => SolverInv'
<1> SUFFICES ASSUME SolverInv, Deadline PROVE SolverInv'
  OBVIOUS
<1> USE DEF SolverInv, Deadline
<1>1. /\ job' = job /\ pc' = pc /\ seed' = seed /\ route' = route /\ kern' = kern
      /\ bestRoute' = bestRoute /\ swap' = swap /\ expired' = TRUE /\ job.tier # "legacy"
      /\ pc \in {"seed", "improve"}
  OBVIOUS
<1>2. SolverTypeOK'
  BY <1>1 DEF SolverTypeOK
<1>3. ToursKept'
  BY <1>1 DEF ToursKept, Tour, IsRoute
<1>4. CostsKept'
  BY <1>1, SameJob DEF CostsKept
<1>5. SwapsKept'
  BY <1>1 DEF SwapsKept
<1>6. QED BY <1>2, <1>3, <1>4, <1>5

LEMMA StartSeedStep == SolverInv /\ StartSeed => SolverInv'
<1> SUFFICES ASSUME SolverInv, StartSeed PROVE SolverInv'
  OBVIOUS
<1>0. SolverTypeOK /\ ToursKept /\ CostsKept
  BY DEF SolverInv
<1>1. /\ job' = job /\ expired' = expired /\ seed' = seed /\ bestRoute' = bestRoute /\ swap' = swap
      /\ pc = "seed" /\ pc' = "improve" /\ seed < Seeds[job.tier]
      /\ kern' = Starting(Kernels[job.tier], kern.gaveUp)
  BY DEF StartSeed
<1>2. PICK r \in SeedRoutes(seed) : route' = <<Depot>> \o r
  BY DEF StartSeed
<1>3. job \in SolverRequest /\ seed \in 0..4
  BY <1>0, <1>1 DEF SolverTypeOK, SolverRequest, Seeds
<1>4. Permutation(r)
  BY <1>3, SeedIs
<1>5. Tour(route')
  BY <1>2, <1>4, FromDepot
<1>6. route' \in Seq(Node) /\ route' # <<>>
  BY <1>5, TourType
<1>7. SolverTypeOK'
  <2>1. Kernels[job.tier] \in Seq(KernelNames)
    BY <1>3, KernelsOf DEF SolverRequest
  <2>a. kern.gaveUp \in BOOLEAN
    BY <1>0 DEF SolverTypeOK
  <2>2. kern' \in Counting /\ kern'.todo = Kernels[job.tier] /\ kern'.pass = 1
    BY <1>1, <2>1, <2>a, FreshKernels, Zenon
  <2>3. kern'.todo # <<>> => kern'.pass <= MaxPasses[Head(kern'.todo)]
    BY <2>1, <2>2, HeadIn
  <2>4. QED BY <1>0, <1>1, <1>6, <2>2, <2>3 DEF SolverTypeOK, Node, KernelNames, Counting
<1>8. ToursKept'
  <2>1. Tour(route)'
    BY <1>5 DEF Tour, IsRoute
  <2>2. QED BY <1>0, <1>1, <1>6, <2>1 DEF ToursKept, Tour, IsRoute
<1>9. CostsKept'
  <2>1. seed = 0 => RouteCost(route)' = RouteCost(NearestTour)
    <3>1. SUFFICES ASSUME seed = 0 PROVE RouteCost(route') = RouteCost(NearestTour)
      BY <1>1, SameJob
    <3>2. r = NearestFirst(Depot, Sites, AsGiven)
      BY <1>2, <3>1 DEF SeedRoutes
    <3>3. QED BY <1>2, <3>2 DEF NearestTour
  <2>2. RouteCost(NearestTour) \in Nat
    BY <1>3, NearestIsTour
  <2>3. QED BY <1>0, <1>1, <2>1, <2>2, SameJob DEF CostsKept
<1>10. SwapsKept'
  BY <1>1 DEF SwapsKept
<1>11. QED BY <1>7, <1>8, <1>9, <1>10 DEF SolverInv

LEMMA ImproveRowStep == SolverInv /\ ImproveRow => SolverInv'
<1> SUFFICES ASSUME SolverInv, ImproveRow PROVE SolverInv'
  OBVIOUS
<1>0. SolverTypeOK /\ ToursKept /\ CostsKept
  BY DEF SolverInv
<1> DEFINE kernel == Head(kern.todo)
           passRows == IF Usable(kernel) THEN Rows(kernel) ELSE <<>>
<1>1. /\ job' = job /\ expired' = expired /\ seed' = seed /\ bestRoute' = bestRoute /\ swap' = swap
      /\ pc = "improve" /\ pc' = pc /\ kern.todo # <<>>
  BY DEF ImproveRow
<1>2. IF kern.row \in DOMAIN passRows
      THEN /\ route' = AfterRow(kernel, passRows[kern.row], route)
           /\ kern' = [kern EXCEPT !.row = @ + 1, !.improved = @ \/ route' # route]
      ELSE /\ kern' = IF kern.improved /\ kern.pass < MaxPasses[kernel]
                      THEN [kern EXCEPT !.row = 1, !.pass = @ + 1, !.improved = FALSE]
                      ELSE Starting(Tail(kern.todo),
                                    kern.gaveUp \/ (kernel = "2opt" /\ kern.improved))
           /\ UNCHANGED route
  BY DEF ImproveRow
<1>3. job \in SolverRequest /\ Tour(route)
  BY <1>0, <1>1 DEF SolverTypeOK, ToursKept
<1>4. /\ kern \in Counting
      /\ kernel \in KernelNames /\ kern.pass <= MaxPasses[kernel]
      /\ \A k \in KernelNames : MaxPasses[k] \in Nat \ {0}
  <2>1. kern \in Counting /\ kern.pass <= MaxPasses[kernel]
    BY <1>0, <1>1 DEF SolverTypeOK, KernelNames, Counting
  <2>2. kern.todo \in Seq(KernelNames)
    BY <2>1 DEF Counting
  <2>3. \A k \in KernelNames : MaxPasses[k] \in Nat \ {0}
    BY SolverSizes DEF KernelNames
  <2>4. QED BY <1>1, <2>1, <2>2, <2>3, HeadIn
<1>5. Tour(route') /\ RouteCost(route') <= RouteCost(route)
  <2>1. CASE kern.row \in DOMAIN passRows
    <3>1. Usable(kernel) /\ kern.row \in DOMAIN Rows(kernel) /\ passRows[kern.row] = Rows(kernel)[kern.row]
      BY <2>1
    <3>2. FitRow(kernel, passRows[kern.row])
      BY <1>4, <3>1, RowsFit
    <3>3. route' = AfterRow(kernel, passRows[kern.row], route)
      BY <1>2, <2>1
    <3> HIDE DEF passRows, kernel
    <3>4. QED BY <1>3, <1>4, <3>2, <3>3, RowImproves
  <2>2. CASE kern.row \notin DOMAIN passRows
    <3>1. route' = route
      BY <1>2, <2>2
    <3>2. RouteCost(route) \in Nat
      BY <1>3, TourType, RouteCostType
    <3>3. QED BY <1>3, <3>1, <3>2
  <2>3. QED BY <2>1, <2>2
<1>6. /\ kern' \in Counting
      /\ kern'.todo # <<>> => kern'.pass <= MaxPasses[Head(kern'.todo)]
  <2> HIDE DEF passRows
  <2>0. kern.row \in Nat /\ kern.pass \in Nat /\ kern.improved \in BOOLEAN
        /\ kern.todo \in Seq(KernelNames) /\ MaxPasses[kernel] \in Nat
        /\ kern.gaveUp \in BOOLEAN
        /\ kern = [todo |-> kern.todo, row |-> kern.row, pass |-> kern.pass, improved |-> kern.improved,
                   gaveUp |-> kern.gaveUp]
    BY <1>4 DEF Counting
  <2>1. CASE kern.row \in DOMAIN passRows
    <3>1. kern' = [kern EXCEPT !.row = kern.row + 1, !.improved = kern.improved \/ route' # route]
      BY <1>2, <2>1
    <3> DEFINE won == kern.improved \/ route' # route
    <3>2. won \in BOOLEAN /\ kern.row + 1 \in Nat \ {0}
      BY <2>0
    <3> HIDE DEF won
    <3>3. kern' = [todo |-> kern.todo, row |-> kern.row + 1, pass |-> kern.pass, improved |-> won,
                   gaveUp |-> kern.gaveUp]
      BY <2>0, <3>1 DEF won
    <3>4. QED BY <1>4, <2>0, <3>2, <3>3 DEF Counting
  <2>2. CASE kern.row \notin DOMAIN passRows /\ kern.improved /\ kern.pass < MaxPasses[kernel]
    <3>1. kern' = [kern EXCEPT !.row = 1, !.pass = kern.pass + 1, !.improved = FALSE]
      BY <1>2, <2>2
    <3>2. kern' = [todo |-> kern.todo, row |-> 1, pass |-> kern.pass + 1, improved |-> FALSE,
                   gaveUp |-> kern.gaveUp]
      BY <2>0, <3>1
    <3>3. kern.pass + 1 <= MaxPasses[kernel] /\ kern.pass + 1 \in Nat \ {0}
      BY <2>0, <2>2
    <3>4. QED BY <2>0, <3>2, <3>3 DEF Counting
  <2>3. CASE kern.row \notin DOMAIN passRows /\ ~(kern.improved /\ kern.pass < MaxPasses[kernel])
    <3> DEFINE gave == kern.gaveUp \/ (kernel = "2opt" /\ kern.improved)
    <3>1. kern' = Starting(Tail(kern.todo), gave)
      BY <1>2, <2>3
    <3>2. Tail(kern.todo) \in Seq(KernelNames) /\ gave \in BOOLEAN
      BY <1>1, <2>0, HeadIn
    <3> HIDE DEF gave
    <3>3. kern' \in Counting /\ kern'.todo = Tail(kern.todo) /\ kern'.pass = 1
      BY <3>1, <3>2, FreshKernels, Zenon
    <3>4. kern'.todo # <<>> => MaxPasses[Head(kern'.todo)] \in Nat \ {0}
      BY <3>2, <3>3, HeadIn
    <3>5. QED BY <3>3, <3>4
  <2>4. QED BY <2>1, <2>2, <2>3
<1>7. route' \in Seq(Node) /\ route' # <<>>
  BY <1>5, TourType
<1> HIDE DEF kernel, passRows
<1>8. SolverTypeOK'
  BY <1>0, <1>1, <1>6, <1>7 DEF SolverTypeOK, Node, KernelNames, Counting
<1>9. ToursKept'
  <2>1. Tour(route)'
    BY <1>5 DEF Tour, IsRoute
  <2>2. QED BY <1>0, <1>1, <1>7, <2>1 DEF ToursKept, Tour, IsRoute
<1>10. CostsKept'
  <2>1. /\ RouteCost(route) \in Nat /\ RouteCost(route') \in Nat /\ RouteCost(NearestTour) \in Nat
    BY <1>3, <1>7, TourType, RouteCostType, NearestIsTour
  <2>2. seed = 0 => RouteCost(route') <= RouteCost(NearestTour)
    <3>1. seed = 0 => RouteCost(route) <= RouteCost(NearestTour)
      BY <1>0, <1>1 DEF CostsKept
    <3>2. QED BY <1>5, <2>1, <3>1
  <2>3. QED BY <1>0, <1>1, <2>1, <2>2, SameJob DEF CostsKept
<1>11. SwapsKept'
  BY <1>1 DEF SwapsKept
<1>12. QED BY <1>8, <1>9, <1>10, <1>11 DEF SolverInv

LEMMA EndSeedStep == SolverInv /\ EndSeed => SolverInv'
<1> SUFFICES ASSUME SolverInv, EndSeed PROVE SolverInv'
  OBVIOUS
<1>0. SolverTypeOK /\ ToursKept /\ CostsKept
  BY DEF SolverInv
<1>1. /\ job' = job /\ expired' = expired /\ seed' = seed + 1 /\ route' = route /\ kern' = kern
      /\ swap' = swap /\ pc = "improve" /\ pc' = "seed" /\ bestRoute' = Keeps(bestRoute, route)
  BY DEF EndSeed
<1>2. /\ job \in SolverRequest /\ Tour(route) /\ route # <<>> /\ seed \in Nat
      /\ seed < Seeds[job.tier] /\ Seeds[job.tier] \in Nat
  BY <1>0, <1>1 DEF SolverTypeOK, ToursKept, SolverRequest, Seeds
<1>3. /\ RouteCost(route) \in Nat /\ RouteCost(NearestTour) \in Nat /\ Inf \in Nat
      /\ bestRoute # <<>> => RouteCost(bestRoute) \in Nat
  BY <1>0, <1>2, TourType, RouteCostType, NearestIsTour, Sizes DEF ToursKept
<1> DEFINE limit == IF bestRoute = <<>> THEN Inf ELSE RouteCost(bestRoute)
<1>4. bestRoute' = IF RouteCost(route) < limit THEN route ELSE bestRoute
  BY <1>1 DEF Keeps
<1>5. SolverTypeOK'
  <2>1. bestRoute' \in Seq(Sites \cup {Depot})
    BY <1>0, <1>4 DEF SolverTypeOK
  <2>2. seed' \in 0..Seeds[job'.tier]
    BY <1>1, <1>2
  <2>3. QED BY <1>0, <1>1, <2>1, <2>2 DEF SolverTypeOK
<1>6. ToursKept'
  <2>1. bestRoute' # <<>> => Tour(bestRoute')
    BY <1>0, <1>2, <1>4 DEF ToursKept
  <2>2. Tour(route') /\ route' # <<>>
    BY <1>1, <1>2
  <2>3. QED BY <1>0, <1>1, <2>1, <2>2 DEF ToursKept, Tour, IsRoute
<1>7. CostsKept'
  <2> DEFINE c == RouteCost(route)
             b == RouteCost(bestRoute)
             near == RouteCost(NearestTour)
  <2>1. /\ seed = 0 => c <= near /\ bestRoute = <<>>
        /\ bestRoute # <<>> => b <= near
        /\ seed >= 1 /\ bestRoute = <<>> => Inf <= near
    BY <1>0, <1>1 DEF CostsKept
  <2>2. c \in Nat /\ near \in Nat /\ (bestRoute # <<>> => b \in Nat)
        /\ bestRoute' = IF c < (IF bestRoute = <<>> THEN Inf ELSE b) THEN route ELSE bestRoute
    BY <1>3, <1>4
  <2>3. CASE c < (IF bestRoute = <<>> THEN Inf ELSE b)
    <3>1. bestRoute' = route
      BY <2>2, <2>3
    <3>2. c <= near
      <4> HIDE DEF c, b, near
      <4>1. QED BY <1>2, <1>3, <2>1, <2>2, <2>3
    <3>3. RouteCost(bestRoute') <= near
      BY <3>1, <3>2
    <3>4. RouteCost(route') <= near
      BY <1>1, <3>2
    <3>5. bestRoute' # <<>>
      BY <1>2, <3>1
    <3>6. seed' >= 1
      BY <1>1, <1>2
    <3> HIDE DEF near
    <3>7. near' = near
      BY <1>1, SameJob DEF near
    <3>8. QED BY <1>1, <3>3, <3>4, <3>5, <3>6, <3>7, SameJob DEF CostsKept, near
  <2>4. CASE ~(c < (IF bestRoute = <<>> THEN Inf ELSE b))
    <3>1. bestRoute' = bestRoute
      BY <2>2, <2>4
    <3>2. bestRoute = <<>> => Inf <= near
      <4> HIDE DEF c, b, near
      <4>1. QED BY <1>2, <1>3, <2>1, <2>2, <2>4
    <3>3. bestRoute' # <<>> => RouteCost(bestRoute') <= near
      BY <2>1, <3>1
    <3>4. seed' >= 1 /\ (seed' = 1 => seed = 0)
      BY <1>1, <1>2
    <3>5. seed' = 1 => RouteCost(route') <= near
      BY <1>1, <2>1, <3>4
    <3> HIDE DEF near, c, b
    <3>6. near' = near
      BY <1>1, SameJob DEF near
    <3>7. QED BY <1>1, <3>1, <3>2, <3>3, <3>4, <3>5, <3>6, SameJob DEF CostsKept, near
  <2>5. QED BY <2>3, <2>4
<1>8. SwapsKept'
  BY <1>1 DEF SwapsKept
<1>9. QED BY <1>5, <1>6, <1>7, <1>8 DEF SolverInv

LEMMA FallbackStep == SolverInv /\ Fallback => SolverInv'
<1> SUFFICES ASSUME SolverInv, Fallback PROVE SolverInv'
  OBVIOUS
<1>0. SolverTypeOK /\ ToursKept
  BY DEF SolverInv
<1>1. /\ job' = [job EXCEPT !.tier = "legacy"] /\ expired' = FALSE /\ seed' = 0 /\ pc = "seed"
      /\ pc' = pc /\ route' = route /\ kern' = Idle /\ bestRoute' = bestRoute /\ bestRoute = <<>>
      /\ swap' = swap
  BY DEF Fallback
<1>2. job' \in SolverRequest /\ job'.tier = "legacy"
  <2>1. job \in SolverRequest
    BY <1>0 DEF SolverTypeOK
  <2>2. QED BY <1>1, <2>1 DEF SolverRequest
<1>3. SolverTypeOK'
  <2>1. Seeds[job'.tier] = 1
    BY <1>2 DEF Seeds
  <2>2. seed' \in 0..Seeds[job'.tier]
    BY <1>1, <2>1
  <2>3. expired' \in BOOLEAN
    BY <1>1
  <2>4. kern' \in Counting /\ kern'.todo = <<>>
    BY <1>1, IdleKernels
  <2>5. QED BY <1>0, <1>1, <1>2, <2>2, <2>3, <2>4 DEF SolverTypeOK, Counting, KernelNames
<1>4. ToursKept'
  <2>1. Tour(route)' <=> Tour(route)
    BY <1>1 DEF Tour, IsRoute
  <2>2. QED BY <1>0, <1>1, <2>1 DEF ToursKept
<1>5. CostsKept'
  BY <1>1 DEF CostsKept
<1>6. SwapsKept'
  BY <1>1 DEF SwapsKept
<1>7. QED BY <1>3, <1>4, <1>5, <1>6 DEF SolverInv

LEMMA SettledStep == SolverInv /\ Settled => SolverInv'
<1> SUFFICES ASSUME SolverInv, Settled PROVE SolverInv'
  OBVIOUS
<1>0. SolverTypeOK /\ ToursKept /\ CostsKept
  BY DEF SolverInv
<1>1. /\ job' = job /\ expired' = expired /\ seed' = seed /\ kern' = kern /\ swap' = swap
      /\ pc = "seed" /\ pc' \in {"soft", "done"} /\ (expired \/ seed = Seeds[job.tier])
      /\ (bestRoute # <<>> \/ job.tier = "legacy")
      /\ route' = (IF bestRoute = <<>> THEN route ELSE bestRoute) /\ bestRoute' = route'
  BY DEF Settled
<1>2. bestRoute = <<>> => seed = 1 /\ job.tier = "legacy" /\ route # <<>>
  <2>1. bestRoute = <<>> => job.tier = "legacy" /\ ~expired /\ seed = Seeds["legacy"]
    BY <1>0, <1>1 DEF ToursKept
  <2>2. Seeds["legacy"] = 1
    BY DEF Seeds
  <2>3. QED BY <1>0, <1>1, <2>1, <2>2 DEF ToursKept
<1>3. Tour(route') /\ route' # <<>> /\ RouteCost(route') <= RouteCost(NearestTour)
  BY <1>0, <1>1, <1>2 DEF ToursKept, CostsKept
<1>4. SolverTypeOK'
  <2>1. route' \in Seq(Sites \cup {Depot})
    BY <1>0, <1>1 DEF SolverTypeOK
  <2>2. QED BY <1>0, <1>1, <2>1 DEF SolverTypeOK
<1>5. ToursKept'
  <2>1. Tour(route)' /\ Tour(bestRoute)'
    BY <1>1, <1>3 DEF Tour, IsRoute
  <2>2. QED BY <1>0, <1>1, <1>3, <2>1 DEF ToursKept
<1>6. CostsKept'
  <2>1. RouteCost(bestRoute)' <= RouteCost(NearestTour)'
    BY <1>1, <1>3, SameJob
  <2>2. QED BY <1>1, <2>1 DEF CostsKept
<1>7. SwapsKept'
  BY <1>1 DEF SwapsKept
<1>8. QED BY <1>4, <1>5, <1>6, <1>7 DEF SolverInv

\* Two stops that change places leave a tour.
LEMMA SwappedTour ==
  ASSUME NEW r, Tour(r), NEW i \in 1..Size, i < Size - 1
  PROVE  Tour(Swapped(r, i))
<1> DEFINE u == Swapped(r, i)
           n == Size
<1>1. r \in Seq(Node) /\ Len(r) = n /\ r[1] = Depot /\ {r[k] : k \in 2..n} = Sites /\ n \in Nat
  BY Sizes DEF Tour, IsRoute
<1>2. i + 1 \in 2..n /\ i + 2 \in 2..n /\ i + 1 # i + 2
  BY <1>1
<1> HIDE DEF n
<1>3. DOMAIN r = 1..n /\ r \in [1..n -> Node]
  BY <1>1
<1>4. /\ u \in [1..n -> Node] /\ u[i + 1] = r[i + 2] /\ u[i + 2] = r[i + 1]
      /\ \A k \in 1..n : k # i + 1 /\ k # i + 2 => u[k] = r[k]
  <2> DEFINE a == i + 1
             b == i + 2
  <2>1. u = [r EXCEPT ![a] = r[b], ![b] = r[a]]
    BY DEF Swapped
  <2>2. a \in 1..n /\ b \in 1..n /\ a # b
    BY <1>1, <1>2
  <2> HIDE DEF a, b, u
  <2>3. r[a] \in Node /\ r[b] \in Node
    BY <1>3, <2>2
  <2>4. /\ u \in [1..n -> Node] /\ u[a] = r[b] /\ u[b] = r[a]
        /\ \A k \in 1..n : k # a /\ k # b => u[k] = r[k]
    BY <1>3, <2>1, <2>2, <2>3
  <2>5. QED BY <2>4 DEF a, b
<1> HIDE DEF u
<1>5. u \in Seq(Node) /\ Len(u) = n
  BY <1>1, <1>4
<1>6. u[1] = Depot
  <2>1. 1 \in 1..n /\ 1 # i + 1 /\ 1 # i + 2
    BY <1>1, <1>2
  <2>2. QED BY <1>1, <1>4, <2>1
<1>7. {u[k] : k \in 2..n} = Sites
  <2>0. \A k \in 2..n : k \in 1..n
    BY <1>1
  <2>1. ASSUME NEW k \in 2..n PROVE u[k] \in {r[m] : m \in 2..n}
    <3>1. CASE k = i + 1
      BY <1>2, <1>4, <3>1
    <3>2. CASE k = i + 2
      BY <1>2, <1>4, <3>2
    <3>3. CASE k # i + 1 /\ k # i + 2
      BY <1>4, <2>0, <3>3
    <3>4. QED BY <3>1, <3>2, <3>3
  <2>2. ASSUME NEW k \in 2..n PROVE r[k] \in {u[m] : m \in 2..n}
    <3>1. CASE k = i + 1
      BY <1>2, <1>4, <3>1
    <3>2. CASE k = i + 2
      BY <1>2, <1>4, <3>2
    <3>3. CASE k # i + 1 /\ k # i + 2
      BY <1>4, <2>0, <3>3
    <3>4. QED BY <3>1, <3>2, <3>3
  <2>3. QED BY <1>1, <2>1, <2>2
<1>8. QED BY <1>5, <1>6, <1>7 DEF Tour, IsRoute, u, n

LEMMA DurationTypes ==
  ASSUME job \in SolverRequest, NEW r \in Seq(Node), r # <<>>, Behind(r) \in SUBSET Sites
  PROVE  Drive(r) \in Nat /\ Slip(r) \in Int
<1>1. \A a, b \in Node : Leg(a, b) \in Nat
  BY CostType DEF Leg
<1>2. \A k \in 1..(Len(r) - 1) : r[k] \in Node /\ r[k + 1] \in Node
  OBVIOUS
<1>3. Drive(r) \in Nat
  <2> DEFINE legs == 1..(Len(r) - 1)
             f == [k \in legs |-> Leg(r[k], r[k + 1])]
  <2>1. \A k \in legs : f[k] \in Nat
    BY <1>1, <1>2
  <2>2. IsFiniteSet(legs)
    <3>1. Len(r) - 1 \in Int
      OBVIOUS
    <3>2. QED BY <3>1, FS_Interval
  <2>3. Drive(r) = SumFunctionOnSet(f, legs)
    BY DEF Drive
  <2> HIDE DEF legs, f
  <2>4. QED BY <2>1, <2>2, <2>3, SumIsNat
<1>4. ASSUME NEW n \in 2..Len(r) PROVE Arrival(r, n) \in Nat
  <2> DEFINE legs == 1..(n - 1)
             f == [k \in legs |-> Leg(r[k], r[k + 1]) + (IF k = 1 THEN 0 ELSE job.service)]
  <2>0. job.service \in Nat
    BY DEF SolverRequest
  <2>1. \A k \in legs : f[k] \in Nat
    <3> TAKE k \in legs
    <3>1. k \in 1..(Len(r) - 1)
      OBVIOUS
    <3>2. Leg(r[k], r[k + 1]) \in Nat
      BY <1>1, <1>2, <3>1
    <3>3. f[k] = Leg(r[k], r[k + 1]) + (IF k = 1 THEN 0 ELSE job.service)
      OBVIOUS
    <3> HIDE DEF f
    <3>4. QED BY <2>0, <3>2, <3>3
  <2>2. IsFiniteSet(legs)
    <3>1. n - 1 \in Int
      OBVIOUS
    <3>2. QED BY <3>1, FS_Interval
  <2>3. Arrival(r, n) = SumFunctionOnSet(f, legs)
    BY DEF Arrival
  <2> HIDE DEF legs, f
  <2>4. QED BY <2>1, <2>2, <2>3, SumIsNat
<1>5. ASSUME NEW n \in 2..Len(r) PROVE SlipAt(r[n], Arrival(r, n)) \in Int
  <2> DEFINE w == job.window[r[n]]
             t == Arrival(r, n)
  <2>1. r[n] \in Sites
    BY DEF Behind
  <2>2. w \in Int \X Int
    BY <2>1 DEF SolverRequest
  <2>3. w[1] \in Int /\ w[2] \in Int /\ t \in Int
    BY <1>4, <2>2
  <2>4. SlipAt(r[n], t) = IF t < w[1] THEN w[1] - t ELSE IF t > w[2] THEN t - w[2] ELSE 0
    BY DEF SlipAt
  <2> HIDE DEF w, t
  <2>5. SlipAt(r[n], t) \in Int
    BY <2>3, <2>4
  <2>6. QED BY <2>5 DEF t
<1>6. Slip(r) \in Int
  <2> DEFINE S == 2..Len(r)
             f == [n \in S |-> SlipAt(r[n], Arrival(r, n))]
  <2>1. \A n \in S : f[n] \in Int
    BY <1>5
  <2>2. IsFiniteSet(S)
    <3>1. Len(r) \in Int
      OBVIOUS
    <3>2. QED BY <3>1, FS_Interval
  <2>3. Slip(r) = SumFunctionOnSet(f, S)
    BY DEF Slip
  <2> HIDE DEF S, f
  <2>4. QED BY <2>1, <2>2, <2>3, SumType
<1>7. QED BY <1>3, <1>6

LEMMA SwapStepStep == SolverInv /\ SwapStep => SolverInv'
<1> SUFFICES ASSUME SolverInv, SwapStep PROVE SolverInv'
  OBVIOUS
<1>0. SolverTypeOK /\ ToursKept /\ CostsKept /\ SwapsKept
  BY DEF SolverInv
<1>1. /\ job' = job /\ expired' = expired /\ seed' = seed /\ kern' = kern
      /\ bestRoute' = bestRoute /\ pc = "soft"
  BY DEF SwapStep
<1>2. /\ job \in SolverRequest /\ Tour(route) /\ Tour(bestRoute) /\ route # <<>> /\ bestRoute # <<>>
  BY <1>0, <1>1 DEF SolverTypeOK, ToursKept
<1>3. swap \in [i : 1..Size, n : 0..SwapsPerPass, pass : 1..SwapPasses] /\ Size \in Nat
      /\ SwapsPerPass \in Nat /\ SwapPasses \in Nat /\ Size >= 2 /\ SwapPasses >= 1
  BY <1>0, Sizes, SolverSizes DEF SolverTypeOK
<1>4. /\ swap.i \in 1..Size /\ swap.n \in 0..SwapsPerPass /\ swap.pass \in 1..SwapPasses
      /\ swap = [i |-> swap.i, n |-> swap.n, pass |-> swap.pass]
  BY <1>3
<1>5. pc' \in {"soft", "done"} /\ swap' \in [i : 1..Size, n : 0..SwapsPerPass, pass : 1..SwapPasses]
  <2>1. CASE swap.i < Size - 1 /\ swap.n < SwapsPerPass
    <3>1. \/ swap' = [swap EXCEPT !.i = swap.i + 1, !.n = swap.n + 1]
          \/ swap' = [swap EXCEPT !.i = swap.i + 1]
      BY <2>1 DEF SwapStep
    <3>2. \/ swap' = [i |-> swap.i + 1, n |-> swap.n + 1, pass |-> swap.pass]
          \/ swap' = [i |-> swap.i + 1, n |-> swap.n, pass |-> swap.pass]
      BY <1>4, <3>1
    <3>3. swap.i + 1 \in 1..Size /\ swap.n + 1 \in 0..SwapsPerPass
      BY <1>3, <1>4, <2>1
    <3>4. pc' = pc
      BY <2>1 DEF SwapStep
    <3>5. QED BY <1>1, <1>4, <3>2, <3>3, <3>4
  <2>2. CASE ~(swap.i < Size - 1 /\ swap.n < SwapsPerPass) /\ swap.n > 0 /\ swap.pass < SwapPasses
    <3>1. swap' = [swap EXCEPT !.i = 1, !.n = 0, !.pass = swap.pass + 1] /\ pc' = pc
      BY <2>2 DEF SwapStep
    <3>2. swap' = [i |-> 1, n |-> 0, pass |-> swap.pass + 1]
      BY <1>4, <3>1
    <3>3. 1 \in 1..Size /\ 0 \in 0..SwapsPerPass /\ swap.pass + 1 \in 1..SwapPasses
      BY <1>3, <1>4, <2>2
    <3>4. QED BY <1>1, <3>1, <3>2, <3>3
  <2>3. CASE ~(swap.i < Size - 1 /\ swap.n < SwapsPerPass) /\ ~(swap.n > 0 /\ swap.pass < SwapPasses)
    <3>1. swap' = swap /\ pc' = "done"
      BY <2>3 DEF SwapStep
    <3>2. QED BY <1>3, <3>1
  <2>4. QED BY <2>1, <2>2, <2>3
<1>6. \/ route' = route
      \/ /\ swap.i < Size - 1
         /\ route' = Swapped(route, swap.i)
         /\ WorthIt(route, Swapped(route, swap.i))
  BY DEF SwapStep
<1>7. Tour(route')
  BY <1>2, <1>4, <1>6, SwappedTour
<1>8. route' \in Seq(Node) /\ route' # <<>>
  BY <1>7, TourType
<1>9. SolverTypeOK'
  <2>1. pc' \in {"seed", "improve", "soft", "done"}
    BY <1>5
  <2>2. QED BY <1>0, <1>1, <1>5, <1>8, <2>1 DEF SolverTypeOK, Node
<1>10. ToursKept'
  <2>1. Tour(route)' /\ Tour(bestRoute)'
    BY <1>1, <1>2, <1>7 DEF Tour, IsRoute
  <2>2. pc' # "seed" /\ pc' # "improve"
    BY <1>5
  <2>3. QED BY <1>0, <1>1, <1>2, <1>8, <2>1, <2>2 DEF ToursKept
<1>11. CostsKept'
  <2>1. RouteCost(bestRoute)' <= RouteCost(NearestTour)'
    BY <1>0, <1>1, <1>2, SameJob DEF CostsKept
  <2>2. pc' # "seed" /\ pc' # "improve"
    BY <1>5
  <2>3. QED BY <2>1, <2>2 DEF CostsKept
<1>12. SwapsKept'
  <2>1. \A r \in {route, route', bestRoute} : Slip(r) \in Int /\ Drive(r) \in Nat
    <3>1. \A r : Tour(r) => r \in Seq(Node) /\ r # <<>> /\ Behind(r) \in SUBSET Sites
      BY TourIs, TourType DEF Start
    <3>2. QED BY <1>2, <1>7, <3>1, DurationTypes
  <2>2. \/ route' = bestRoute
        \/ Slip(route') + 1 <= Slip(bestRoute) /\ 20 * Drive(route') <= 21 * Drive(bestRoute)
    <3>1. \/ route = bestRoute
          \/ Slip(route) + 1 <= Slip(bestRoute) /\ 20 * Drive(route) <= 21 * Drive(bestRoute)
      BY <1>0, <1>1 DEF SwapsKept
    <3>2. CASE route' = route
      BY <3>1, <3>2
    <3>3. CASE route' = Swapped(route, swap.i) /\ WorthIt(route, Swapped(route, swap.i))
      <4>1. Slip(route') + 1 <= Slip(route) /\ 20 * Drive(route') <= 21 * Drive(bestRoute)
        BY <3>3 DEF WorthIt
      <4> DEFINE a == Slip(route')
                 b == Slip(route)
                 c == Slip(bestRoute)
      <4>2. a \in Int /\ b \in Int /\ c \in Int /\ a + 1 <= b /\ (b = c \/ b + 1 <= c)
        BY <2>1, <3>1, <4>1
      <4> HIDE DEF a, b, c
      <4>3. a + 1 <= c
        BY <4>2
      <4>4. QED BY <4>1, <4>3 DEF a, c
    <3>4. QED BY <1>6, <3>2, <3>3
  <2>3. QED BY <1>1, <2>2, SameJob DEF SwapsKept
<1>13. QED BY <1>9, <1>10, <1>11, <1>12 DEF SolverInv

LEMMA SolverStutter == SolverInv /\ UNCHANGED routeVars => SolverInv'
<1> SUFFICES ASSUME SolverInv, UNCHANGED routeVars PROVE SolverInv'
  OBVIOUS
<1>1. /\ job' = job /\ pc' = pc /\ expired' = expired /\ seed' = seed /\ route' = route
      /\ kern' = kern /\ bestRoute' = bestRoute /\ swap' = swap
  BY DEF routeVars
<1>2. SolverTypeOK'
  BY <1>1 DEF SolverInv, SolverTypeOK
<1>3. ToursKept'
  BY <1>1 DEF SolverInv, ToursKept, Tour, IsRoute
<1>4. CostsKept'
  BY <1>1, SameJob DEF SolverInv, CostsKept
<1>5. SwapsKept'
  BY <1>1, SameJob DEF SolverInv, SwapsKept
<1>6. QED BY <1>2, <1>3, <1>4, <1>5 DEF SolverInv

LEMMA SolverInvariant == SolverSpec => []SolverInv
<1>1. SolverInit => SolverInv
  BY SolverStart
<1>2. SolverInv /\ [SolverNext]_routeVars => SolverInv'
  BY DeadlineStep, StartSeedStep, ImproveRowStep, EndSeedStep, FallbackStep, SettledStep,
     SwapStepStep, SolverStutter DEF SolverNext
<1>3. QED BY <1>1, <1>2, PTL DEF SolverSpec

\* The state of the solver has the types of its variables: the bounds of the
\* passes, of the seeds and of the swaps are never left.
THEOREM SolverTyped == SolverSpec => []SolverTypeOK
<1>1. SolverInv => SolverTypeOK
  BY DEF SolverInv
<1>2. QED BY <1>1, SolverInvariant, PTL

\* Every kernel, seed and deadline leaves every stop of the day in the route,
\* once, behind the depot.
THEOREM RoutesKeepStops == SolverSpec => []EveryStopOnce
<1>1. SolverInv => EveryStopOnce
  BY DEF SolverInv, ToursKept, EveryStopOnce, Tour
<1>2. QED BY <1>1, SolverInvariant, PTL

\* What the solver hands over is no dearer than nearest neighbour.
THEOREM RoutesNoDearer == SolverSpec => []NoDearerThanNearest
<1>1. SolverInv => NoDearerThanNearest
  BY DEF SolverInv, ToursKept, CostsKept, NoDearerThanNearest, NearestTour
<1>2. QED BY <1>1, SolverInvariant, PTL

\* The swaps for opening hours pay off, all together.
THEOREM RouteSwapsPayOff == SolverSpec => []SwapsPayOff
<1>1. ASSUME SolverInv PROVE SwapsPayOff
  <2>1. SUFFICES ASSUME pc = "done", route # bestRoute
                 PROVE  Slip(route) < Slip(bestRoute) /\ 20 * Drive(route) <= 21 * Drive(bestRoute)
    BY DEF SwapsPayOff
  <2>2. Slip(route) + 1 <= Slip(bestRoute) /\ 20 * Drive(route) <= 21 * Drive(bestRoute)
    BY <1>1, <2>1 DEF SolverInv, SwapsKept
  <2>3. Tour(route) /\ Tour(bestRoute) /\ job \in SolverRequest
    BY <1>1, <2>1 DEF SolverInv, ToursKept, SolverTypeOK
  <2>4. \A r : Tour(r) => r \in Seq(Node) /\ r # <<>> /\ Behind(r) \in SUBSET Sites
    BY TourIs, TourType DEF Start
  <2>5. Slip(route) \in Int /\ Slip(bestRoute) \in Int
    BY <2>3, <2>4, DurationTypes
  <2>6. QED BY <2>2, <2>5
<1>2. QED BY <1>1, SolverInvariant, PTL
-----------------------------------------------------------------------------
(* Reversals.  While 2-opt has changed nothing in a pass, the reversals of  *)
(* the rows behind it are no cheaper; it ends only with a pass like that,   *)
(* or gives up.  What a seed leaves behind is then tight, and so is the     *)
(* best of the seeds.                                                       *)
RowsTried == \A i \in 2..kern.row : i < Size => NoReversalAt(route, i)

ReversalsTried ==
  Trusted =>
    /\ pc = "improve" =>
         \/ kern.todo = <<"oropt", "2opt">>
         \/ kern.todo = <<"2opt">> /\ (~kern.improved => RowsTried)
         \/ kern.todo = <<>> /\ Tight(route)
    /\ pc = "seed" /\ seed > 0 => Tight(route)
    /\ bestRoute # <<>> => Tight(bestRoute)

LEMMA SameReversals ==
  ASSUME job' = job
  PROVE  /\ Tight(route)' <=> Tight(route')
         /\ Tight(bestRoute)' <=> Tight(bestRoute')
         /\ \A i : NoReversalAt(route, i)' <=> NoReversalAt(route', i)
BY DEF Tight, NoReversalAt, RouteCost, Cost

LEMMA ReversalsStart == SolverInit => ReversalsTried
BY DEF SolverInit, ReversalsTried

LEMMA KernelsTried ==
  ASSUME NEW tier \in {"legacy", "small", "medium", "large"}, tier # "large"
  PROVE  Kernels[tier] = <<"2opt">> \/ Kernels[tier] = <<"oropt", "2opt">>
BY DEF Kernels

LEMMA ReversalsStartSeed == SolverInv /\ ReversalsTried /\ StartSeed => ReversalsTried'
<1> SUFFICES ASSUME SolverInv, ReversalsTried, StartSeed, Trusted' PROVE ReversalsTried'
  BY DEF ReversalsTried
<1>1. /\ job' = job /\ expired' = expired /\ bestRoute' = bestRoute /\ pc' = "improve"
      /\ kern' = Starting(Kernels[job.tier], kern.gaveUp) /\ job \in SolverRequest
      /\ kern.gaveUp \in BOOLEAN
  BY DEF StartSeed, SolverInv, SolverTypeOK
<1>2. job.tier \in {"legacy", "small", "medium", "large"}
  BY <1>1 DEF SolverRequest
<1>3. Kernels[job.tier] \in Seq(KernelNames)
  BY <1>2, KernelsOf
<1>4. kern'.todo = Kernels[job.tier] /\ kern'.row = 1
  BY <1>1, <1>3, FreshKernels, Zenon
<1>5. kern'.gaveUp = kern.gaveUp
  BY <1>1, Zenon DEF Starting
<1>6. Trusted
  BY <1>1, <1>5 DEF Trusted, Usable
<1>7. kern'.todo = <<"2opt">> \/ kern'.todo = <<"oropt", "2opt">>
  BY <1>1, <1>2, <1>4, <1>6, KernelsTried DEF Trusted
<1>8. RowsTried'
  BY <1>4 DEF RowsTried
<1>9. bestRoute' # <<>> => Tight(bestRoute)'
  BY <1>1, <1>6, SameReversals DEF ReversalsTried
<1>10. QED BY <1>1, <1>7, <1>8, <1>9 DEF ReversalsTried

LEMMA ReversalsImproveRow == SolverInv /\ ReversalsTried /\ ImproveRow => ReversalsTried'
<1> SUFFICES ASSUME SolverInv, ReversalsTried, ImproveRow, Trusted' PROVE ReversalsTried'
  BY DEF ReversalsTried
<1> DEFINE kernel == Head(kern.todo)
           passRows == IF Usable(kernel) THEN Rows(kernel) ELSE <<>>
<1>1. /\ job' = job /\ expired' = expired /\ bestRoute' = bestRoute
      /\ pc = "improve" /\ pc' = pc /\ kern.todo # <<>>
  BY DEF ImproveRow
<1>2. IF kern.row \in DOMAIN passRows
      THEN /\ route' = AfterRow(kernel, passRows[kern.row], route)
           /\ kern' = [kern EXCEPT !.row = @ + 1, !.improved = @ \/ route' # route]
      ELSE /\ kern' = IF kern.improved /\ kern.pass < MaxPasses[kernel]
                      THEN [kern EXCEPT !.row = 1, !.pass = @ + 1, !.improved = FALSE]
                      ELSE Starting(Tail(kern.todo),
                                    kern.gaveUp \/ (kernel = "2opt" /\ kern.improved))
           /\ UNCHANGED route
  BY DEF ImproveRow
<1>3. /\ job \in SolverRequest /\ Tour(route) /\ kern \in Counting
      /\ kern.row \in Nat \ {0} /\ kern.improved \in BOOLEAN /\ kern.gaveUp \in BOOLEAN
      /\ kern.todo \in Seq(KernelNames) /\ Size \in Nat
  <2>1. kern \in Counting /\ job \in SolverRequest /\ Tour(route)
    BY <1>1 DEF SolverInv, SolverTypeOK, ToursKept, Counting, KernelNames
  <2>2. QED BY <2>1, Sizes DEF Counting
<1>4. kern = [todo |-> kern.todo, row |-> kern.row, pass |-> kern.pass, improved |-> kern.improved,
              gaveUp |-> kern.gaveUp]
  BY <1>3 DEF Counting
<1> HIDE DEF passRows
<1>5. CASE kern.row \in DOMAIN passRows
  <2> DEFINE won == kern.improved \/ route' # route
  <2>1. kern' = [kern EXCEPT !.row = kern.row + 1, !.improved = won]
    BY <1>2, <1>5
  <2> HIDE DEF won
  <2>2. kern' = [todo |-> kern.todo, row |-> kern.row + 1, pass |-> kern.pass, improved |-> won,
                 gaveUp |-> kern.gaveUp]
    BY <1>4, <2>1
  <2>3. kern'.todo = kern.todo /\ kern'.row = kern.row + 1
    BY <2>2
  <2>4. kern'.improved = won /\ kern'.gaveUp = kern.gaveUp
    BY <2>2, Zenon
  <2>5. Trusted
    BY <1>1, <2>4 DEF Trusted, Usable
  <2>6. bestRoute' # <<>> => Tight(bestRoute)'
    BY <1>1, <2>5, SameReversals DEF ReversalsTried
  <2>7. CASE kern.todo = <<"oropt", "2opt">>
    BY <1>1, <2>3, <2>6, <2>7 DEF ReversalsTried
  <2>8. CASE kern.todo = <<"2opt">> /\ (~kern.improved => RowsTried)
    <3>1. kernel = "2opt" /\ Usable(kernel)
      BY <2>5, <2>8 DEF Trusted
    <3>2. kern.row \in DOMAIN Rows(kernel) /\ passRows[kern.row] = Rows(kernel)[kern.row]
      BY <1>5, <3>1 DEF passRows
    <3>3. FitRow(kernel, Rows(kernel)[kern.row])
      BY <3>1, <3>2, RowsFit DEF KernelNames
    <3>4. Rows(kernel)[kern.row].i = kern.row + 1
      BY <3>1, <3>2, ReversalRows
    <3>5. SUFFICES ASSUME ~won PROVE RowsTried'
      BY <1>1, <2>3, <2>4, <2>6, <2>8 DEF ReversalsTried
    <3>6. RowsTried /\ route' = route
      BY <2>8, <3>5 DEF won
    <3>7. NoReversalAt(route, kern.row + 1)
      <4>1. AfterRow(kernel, Rows(kernel)[kern.row], route) = route
        BY <1>2, <1>5, <3>2, <3>6
      <4> HIDE DEF kernel
      <4>2. NoReversalAt(route, Rows(kernel)[kern.row].i)
        BY <1>3, <3>1, <3>3, <4>1, ReversalsTriedAt
      <4>3. QED BY <3>4, <4>2
    <3>8. ASSUME NEW i \in 2..(kern.row + 1), i < Size PROVE NoReversalAt(route, i)
      <4>1. CASE i = kern.row + 1
        BY <3>7, <4>1
      <4>2. CASE i # kern.row + 1
        <5>1. i \in 2..kern.row
          BY <1>3, <4>2
        <5>2. QED BY <3>6, <3>8, <5>1 DEF RowsTried
      <4>3. QED BY <4>1, <4>2
    <3>9. \A i \in 2..(kern.row + 1) : i < Size => NoReversalAt(route', i)
      BY <3>6, <3>8
    <3>10. QED BY <1>1, <2>3, <3>9, SameReversals DEF RowsTried
  <2>9. CASE kern.todo = <<>>
    BY <1>1, <2>9
  <2>10. QED BY <1>1, <2>5, <2>7, <2>8, <2>9 DEF ReversalsTried
<1>6. CASE kern.row \notin DOMAIN passRows /\ kern.improved /\ kern.pass < MaxPasses[kernel]
  <2>1. kern' = [kern EXCEPT !.row = 1, !.pass = kern.pass + 1, !.improved = FALSE] /\ route' = route
    BY <1>2, <1>6
  <2>2. kern'.todo = kern.todo /\ kern'.row = 1
    BY <1>4, <2>1
  <2>3. kern'.gaveUp = kern.gaveUp
    BY <1>4, <2>1
  <2>4. Trusted
    BY <1>1, <2>3 DEF Trusted, Usable
  <2>5. bestRoute' # <<>> => Tight(bestRoute)'
    BY <1>1, <2>4, SameReversals DEF ReversalsTried
  <2>6. RowsTried'
    BY <2>2 DEF RowsTried
  <2>7. kern.todo = <<"oropt", "2opt">> \/ kern.todo = <<"2opt">>
    BY <1>1, <2>4 DEF ReversalsTried
  <2>8. QED BY <1>1, <2>2, <2>5, <2>6, <2>7 DEF ReversalsTried
<1>7. CASE kern.row \notin DOMAIN passRows /\ ~(kern.improved /\ kern.pass < MaxPasses[kernel])
  <2> DEFINE gave == kern.gaveUp \/ (kernel = "2opt" /\ kern.improved)
  <2>1. kern' = Starting(Tail(kern.todo), gave) /\ route' = route
    BY <1>2, <1>7
  <2>2. Tail(kern.todo) \in Seq(KernelNames) /\ gave \in BOOLEAN
    BY <1>1, <1>3, HeadIn
  <2> HIDE DEF gave
  <2>3. kern'.todo = Tail(kern.todo) /\ kern'.row = 1
    BY <2>1, <2>2, FreshKernels, Zenon
  <2>4. kern'.gaveUp = gave
    BY <2>1, Zenon DEF Starting
  <2>5. ~gave /\ ~kern.gaveUp
    BY <2>4 DEF Trusted, gave
  <2>6. Trusted
    BY <1>1, <2>5 DEF Trusted, Usable
  <2>7. bestRoute' # <<>> => Tight(bestRoute)'
    BY <1>1, <2>6, SameReversals DEF ReversalsTried
  <2>8. CASE kern.todo = <<"oropt", "2opt">>
    <3>1. kern'.todo = <<"2opt">>
      BY <2>3, <2>8
    <3>2. RowsTried'
      BY <2>3 DEF RowsTried
    <3>3. QED BY <1>1, <2>7, <3>1, <3>2 DEF ReversalsTried
  <2>9. CASE kern.todo = <<"2opt">> /\ (~kern.improved => RowsTried)
    <3>1. kernel = "2opt" /\ Usable(kernel) /\ kern'.todo = <<>>
      BY <2>3, <2>6, <2>9 DEF Trusted
    <3>2. RowsTried
      BY <2>5, <2>9, <3>1 DEF gave
    <3>3. DOMAIN Rows(kernel) = 1..(Size - 2) /\ kern.row \notin DOMAIN Rows(kernel)
      BY <1>7, <3>1, ReversalRows DEF passRows
    <3>4. kern.row > Size - 2
      BY <1>3, <3>3
    <3>5. Tight(route)
      <4> SUFFICES ASSUME NEW i \in 2..Size PROVE NoReversalAt(route, i)
        BY DEF Tight
      <4>1. CASE i < Size
        <5>1. i \in 2..kern.row
          BY <1>3, <3>4, <4>1
        <5>2. QED BY <3>2, <4>1, <5>1 DEF RowsTried
      <4>2. CASE i = Size
        <5>1. (Size + 1)..Size = {}
          BY <1>3
        <5>2. QED BY <4>2, <5>1 DEF NoReversalAt
      <4>3. QED BY <1>3, <4>1, <4>2
    <3>6. Tight(route)'
      BY <1>1, <2>1, <3>5, SameReversals
    <3>7. QED BY <1>1, <2>7, <3>1, <3>6 DEF ReversalsTried
  <2>10. QED BY <1>1, <2>6, <2>8, <2>9 DEF ReversalsTried
<1>8. QED BY <1>5, <1>6, <1>7

LEMMA ReversalsEndSeed == SolverInv /\ ReversalsTried /\ EndSeed => ReversalsTried'
<1> SUFFICES ASSUME SolverInv, ReversalsTried, EndSeed, Trusted' PROVE ReversalsTried'
  BY DEF ReversalsTried
<1>1. /\ job' = job /\ expired' = expired /\ route' = route /\ kern' = kern
      /\ pc = "improve" /\ pc' = "seed" /\ bestRoute' = Keeps(bestRoute, route)
      /\ kern.todo = <<>> \/ expired
  BY DEF EndSeed
<1>2. Trusted /\ kern.todo = <<>>
  BY <1>1 DEF Trusted, Usable
<1>3. Tight(route)
  BY <1>1, <1>2 DEF ReversalsTried
<1>4. bestRoute' # <<>> => Tight(bestRoute')
  BY <1>1, <1>2, <1>3 DEF ReversalsTried, Keeps
<1>5. QED BY <1>1, <1>3, <1>4, SameReversals DEF ReversalsTried

LEMMA ReversalsSettled == SolverInv /\ ReversalsTried /\ Settled => ReversalsTried'
<1> SUFFICES ASSUME SolverInv, ReversalsTried, Settled, Trusted' PROVE ReversalsTried'
  BY DEF ReversalsTried
<1>1. /\ job' = job /\ expired' = expired /\ kern' = kern /\ pc = "seed" /\ pc' \in {"soft", "done"}
      /\ (expired \/ seed = Seeds[job.tier]) /\ job \in SolverRequest
      /\ bestRoute' = IF bestRoute = <<>> THEN route ELSE bestRoute
  BY DEF Settled, SolverInv, SolverTypeOK
<1>2. Trusted
  BY <1>1 DEF Trusted, Usable
<1>3. seed > 0
  BY <1>1, <1>2 DEF Trusted, Seeds, SolverRequest
<1>4. Tight(route) /\ (bestRoute # <<>> => Tight(bestRoute))
  BY <1>1, <1>2, <1>3 DEF ReversalsTried
<1>5. Tight(bestRoute)'
  BY <1>1, <1>4, SameReversals
<1>6. QED BY <1>1, <1>5 DEF ReversalsTried

LEMMA ReversalsStep == SolverInv /\ ReversalsTried /\ [SolverNext]_routeVars => ReversalsTried'
<1> SUFFICES ASSUME SolverInv, ReversalsTried, [SolverNext]_routeVars, Trusted' PROVE ReversalsTried'
  BY DEF ReversalsTried
<1>1. CASE Deadline
  BY <1>1 DEF Deadline, Trusted
<1>2. CASE Fallback
  BY <1>2 DEF Fallback, ReversalsTried
<1>3. CASE SwapStep
  <2>1. /\ job' = job /\ expired' = expired /\ kern' = kern /\ bestRoute' = bestRoute
        /\ pc = "soft" /\ pc' \in {"soft", "done"}
    BY <1>3 DEF SwapStep
  <2>2. Trusted
    BY <2>1 DEF Trusted, Usable
  <2>3. QED BY <2>1, <2>2, SameReversals DEF ReversalsTried
<1>4. CASE UNCHANGED routeVars
  <2>1. /\ job' = job /\ pc' = pc /\ expired' = expired /\ seed' = seed /\ route' = route
        /\ kern' = kern /\ bestRoute' = bestRoute
    BY <1>4 DEF routeVars
  <2>2. Trusted
    BY <2>1 DEF Trusted, Usable
  <2>3. RowsTried => RowsTried'
    BY <2>1, SameReversals DEF RowsTried
  <2>4. QED BY <2>1, <2>2, <2>3, SameReversals DEF ReversalsTried
<1>5. QED BY <1>1, <1>2, <1>3, <1>4, ReversalsStartSeed, ReversalsImproveRow, ReversalsEndSeed,
            ReversalsSettled DEF SolverNext

\* A solver of three stops or more that had its time, and whose 2-opt ended by
\* itself, hands over a route that no reversal makes cheaper.
THEOREM NoReversalLeft == SolverSpec => []NoReversalHelps
<1>1. SolverInv /\ ReversalsTried => NoReversalHelps
  BY DEF SolverInv, ToursKept, ReversalsTried, NoReversalHelps
<1>2. QED BY <1>1, ReversalsStart, ReversalsStep, SolverInvariant, PTL DEF SolverSpec
=============================================================================
