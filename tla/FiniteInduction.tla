--------------------------- MODULE FiniteInduction ---------------------------
(***************************************************************************)
(* Induction over finite sets in a form the provers can use: what is to be *)
(* shown of a set is given as a set of sets, so that no operator has to be *)
(* instantiated. With it, that a finite set of numbers has a greatest one, *)
(* and what the sum of a function over a finite set does when the set      *)
(* grows or one value changes.                                             *)
(***************************************************************************)
EXTENDS Integers, FiniteSetsExt, Functions, FiniteSetTheorems, WellFoundedInduction, TLAPS

-----------------------------------------------------------------------------
(* A set of numbers with zero and with the successor of each of its        *)
(* members holds them all: the least one it misses would have a            *)
(* predecessor in it.                                                      *)
LEMMA NatSetInduction ==
  ASSUME NEW T \in SUBSET Nat, 0 \in T, \A n \in T : n + 1 \in T
  PROVE  T = Nat
<1> DEFINE L == OpToRel(<, Nat)
<1>1. SUFFICES ASSUME Nat \ T # {} PROVE FALSE
  OBVIOUS
<1>2. PICK x \in Nat \ T : \A y \in Nat \ T : <<y, x>> \notin L
  <2>1. IsWellFoundedOn(L, Nat) BY NatLessThanWellFounded
  <2> HIDE DEF L
  <2>2. QED BY ONLY <2>1, <1>1, WFMin
<1>3. \A y \in Nat : y < x => y \in T
  <2>1. \A y \in Nat : y < x => <<y, x>> \in L
    BY DEF OpToRel
  <2>2. QED BY <2>1, <1>2
<1> HIDE DEF L
<1>4. x \in Nat /\ x # 0 /\ x \notin T
  BY <1>2
<1>5. x - 1 \in Nat /\ x - 1 < x
  BY <1>4
<1>6. (x - 1) + 1 \in T
  BY <1>5, <1>3
<1>7. (x - 1) + 1 = x
  BY <1>4
<1>8. QED BY <1>4, <1>6, <1>7

(* A finite set belongs to a set of its subsets that has the empty one and *)
(* is closed under adding an element.                                      *)
LEMMA SetInduction ==
  ASSUME NEW S, IsFiniteSet(S), NEW Q \in SUBSET SUBSET S, {} \in Q,
         \A U \in Q : \A x \in S \ U : U \cup {x} \in Q
  PROVE  S \in Q
<1> DEFINE Good == {n \in Nat : \A U \in SUBSET S : Cardinality(U) = n => U \in Q}
<1>1. 0 \in Good
  BY FS_EmptySet, FS_Subset
<1>2. ASSUME NEW n \in Good PROVE n + 1 \in Good
  <2>0. n \in Nat /\ n + 1 \in Nat
    OBVIOUS
  <2>1. SUFFICES ASSUME NEW U \in SUBSET S, Cardinality(U) = n + 1 PROVE U \in Q
    BY <2>0
  <2>2. IsFiniteSet(U) BY FS_Subset
  <2>3. PICK x \in U : TRUE BY <2>0, <2>1, <2>2, FS_EmptySet
  <2>4. Cardinality(U \ {x}) = n
    <3>1. Cardinality(U \ {x}) = Cardinality(U) - 1 BY <2>2, <2>3, FS_RemoveElement
    <3> HIDE DEF Good
    <3>2. QED BY <3>1, <2>1, <2>0
  <2>5. U \ {x} \in Q BY <2>4, <1>2
  <2>6. (U \ {x}) \cup {x} = U BY <2>3
  <2>7. x \in S \ (U \ {x}) BY <2>3
  <2>8. QED BY <2>5, <2>6, <2>7
<1>3. Good = Nat
  <2> Good \in SUBSET Nat OBVIOUS
  <2> HIDE DEF Good
  <2> QED BY <1>1, <1>2, NatSetInduction
<1>4. Cardinality(S) \in Nat BY FS_CardinalityType
<1> QED BY <1>3, <1>4

(* The values of a function on a finite set are finitely many.             *)
LEMMA FiniteImage ==
  ASSUME NEW S, IsFiniteSet(S), NEW f
  PROVE  IsFiniteSet({f[x] : x \in S})
<1> DEFINE T == {f[x] : x \in S}
           g == [x \in S |-> f[x]]
<1>1. g \in Surjection(S, T)
  BY DEF Surjection
<1> HIDE DEF g
<1>2. QED BY <1>1, FS_Surjection

(* A finite set of numbers that is not empty has a greatest one.           *)
LEMMA MaxExists ==
  ASSUME NEW S \in SUBSET Int, IsFiniteSet(S), S # {}
  PROVE  \E m \in S : \A n \in S : n <= m
<1> DEFINE Q == {U \in SUBSET S : U # {} => \E m \in U : \A n \in U : n <= m}
<1>1. {} \in Q
  OBVIOUS
<1>2. ASSUME NEW U \in Q, NEW x \in S \ U PROVE U \cup {x} \in Q
  <2>1. CASE U = {}
    BY <2>1
  <2>2. CASE U # {}
    <3>1. PICK m \in U : \A n \in U : n <= m BY <2>2
    <3>2. CASE x <= m
      <4>1. \A n \in U \cup {x} : n <= m BY <3>1, <3>2
      <4>2. QED BY <4>1, <3>1
    <3>3. CASE m < x
      <4>1. \A n \in U \cup {x} : n <= x BY <3>1, <3>3
      <4>2. QED BY <4>1
    <3>4. QED BY <3>2, <3>3
  <2>3. QED BY <2>1, <2>2
<1>3. S \in Q
  <2> HIDE DEF Q
  <2>1. Q \in SUBSET SUBSET S BY DEF Q
  <2>2. QED BY <1>1, <1>2, <2>1, SetInduction
<1>4. QED BY <1>3

(* And one that has a least one.                                           *)
LEMMA MinExists ==
  ASSUME NEW S \in SUBSET Int, IsFiniteSet(S), S # {}
  PROVE  \E m \in S : \A n \in S : m <= n
<1> DEFINE f == [x \in S |-> -x]
           T == {f[x] : x \in S}
<1>1. T \in SUBSET Int /\ T # {}
  <2>1. \A x \in S : f[x] \in Int
    OBVIOUS
  <2> HIDE DEF f
  <2>2. QED BY <2>1
<1>2. IsFiniteSet(T)
  <2> HIDE DEF f
  <2>1. QED BY FiniteImage
<1>3. PICK t \in T : \A u \in T : u <= t
  <2> HIDE DEF T
  <2>1. QED BY <1>1, <1>2, MaxExists
<1>4. PICK m \in S : t = f[m]
  OBVIOUS
<1>5. \A n \in S : m <= n
  <2> TAKE n \in S
  <2>1. f[n] \in T
    OBVIOUS
  <2>2. f[n] <= f[m]
    <3> HIDE DEF T, f
    <3>1. QED BY <1>3, <1>4, <2>1
  <2>3. f[n] = -n /\ f[m] = -m
    OBVIOUS
  <2> HIDE DEF f
  <2>4. QED BY <2>2, <2>3
<1>6. QED BY <1>5

-----------------------------------------------------------------------------
(* Sums. The fold of the community modules is a recursive function on the  *)
(* subsets of a set: such a function exists when the set is finite, it     *)
(* does not depend on the element that each step chooses, nor on the set   *)
(* on whose subsets it is defined.                                         *)
Chosen(s) == CHOOSE x \in s : TRUE

IsSumming(it, f, S) ==
  it = [s \in SUBSET S |-> IF s = {} THEN 0 ELSE f[Chosen(s)] + it[s \ {Chosen(s)}]]

LEMMA SmallerWithout ==
  ASSUME NEW S, IsFiniteSet(S), NEW s \in SUBSET S, NEW n \in Nat, Cardinality(s) <= n + 1, NEW x \in s
  PROVE  s \ {x} \in SUBSET S /\ Cardinality(s \ {x}) <= n
<1>1. IsFiniteSet(s) /\ Cardinality(s) \in Nat
  BY FS_Subset, FS_CardinalityType
<1>2. Cardinality(s \ {x}) = Cardinality(s) - 1
  BY <1>1, FS_RemoveElement
<1>3. QED
  BY <1>1, <1>2

LEMMA SummingExists ==
  ASSUME NEW S, IsFiniteSet(S), NEW f
  PROVE  \E it : IsSumming(it, f, S)
<1> DEFINE Upto(n) == {s \in SUBSET S : Cardinality(s) <= n}
           On(g, s) == IF s = {} THEN 0 ELSE f[Chosen(s)] + g[s \ {Chosen(s)}]
           Good == {n \in Nat : \E g : g = [s \in Upto(n) |-> On(g, s)]}
<1>0. \A s \in SUBSET S : IsFiniteSet(s) /\ Cardinality(s) \in Nat /\ Cardinality(s) <= Cardinality(S)
  BY FS_Subset, FS_CardinalityType
<1>1. 0 \in Good
  <2> DEFINE g == [s \in Upto(0) |-> 0]
  <2>1. \A s \in Upto(0) : s = {}
    BY <1>0, FS_EmptySet
  <2>2. g = [s \in Upto(0) |-> On(g, s)]
    BY <2>1
  <2>3. QED BY <2>2
<1>2. ASSUME NEW n \in Good PROVE n + 1 \in Good
  <2>1. n \in Nat /\ n + 1 \in Nat
    OBVIOUS
  <2>2. PICK g : g = [s \in Upto(n) |-> On(g, s)]
    OBVIOUS
  <2> DEFINE h == [s \in Upto(n + 1) |-> On(g, s)]
  <2>3. Upto(n) \in SUBSET Upto(n + 1)
    BY <2>1, <1>0
  <2>4. \A s \in Upto(n) : h[s] = g[s]
    <3> SUFFICES ASSUME NEW s \in Upto(n) PROVE h[s] = g[s]
      OBVIOUS
    <3>1. h[s] = On(g, s)
      BY <2>3
    <3>2. g[s] = On(g, s)
      BY <2>2
    <3>3. QED BY <3>1, <3>2
  <2>5. ASSUME NEW s \in Upto(n + 1) PROVE On(g, s) = On(h, s)
    <3>1. CASE s = {}
      BY <3>1
    <3>2. CASE s # {}
      <4>1. Chosen(s) \in s
        BY <3>2 DEF Chosen
      <4>2. s \ {Chosen(s)} \in Upto(n)
        BY <4>1, <2>1, SmallerWithout
      <4>3. QED BY <4>2, <2>4
    <3>3. QED BY <3>1, <3>2
  <2>6. h = [s \in Upto(n + 1) |-> On(h, s)]
    <3>1. \A s \in Upto(n + 1) : On(g, s) = On(h, s)
      BY <2>5
    <3> HIDE DEF On
    <3>2. QED BY <3>1
  <2>7. \E k : k = [s \in Upto(n + 1) |-> On(k, s)]
    <3> HIDE DEF h, On, Upto
    <3>1. QED BY <2>6
  <2>8. QED BY <2>7, <2>1
<1>3. Good = Nat
  <2>1. Good \in SUBSET Nat
    OBVIOUS
  <2> HIDE DEF Good
  <2>2. QED BY <1>1, <1>2, <2>1, NatSetInduction
<1>4. Cardinality(S) \in Good
  BY <1>3, FS_CardinalityType
<1>5. Upto(Cardinality(S)) = SUBSET S
  BY <1>0
<1>6. QED
  BY <1>4, <1>5 DEF IsSumming

(* Two such functions agree on the subsets they share, as long as the      *)
(* functions they sum do.                                                  *)
LEMMA SummingsAgree ==
  ASSUME NEW S, IsFiniteSet(S), NEW T \in SUBSET S, NEW f, NEW g, \A x \in T : f[x] = g[x],
         NEW it, IsSumming(it, f, S), NEW jt, IsSumming(jt, g, T)
  PROVE  \A s \in SUBSET T : it[s] = jt[s]
<1> DEFINE Good == {n \in Nat : \A s \in SUBSET T : Cardinality(s) <= n => it[s] = jt[s]}
<1>0. \A s \in SUBSET T : s \in SUBSET S /\ IsFiniteSet(s) /\ Cardinality(s) \in Nat
  BY FS_Subset, FS_CardinalityType
<1>1. \A s \in SUBSET T :
        /\ it[s] = IF s = {} THEN 0 ELSE f[Chosen(s)] + it[s \ {Chosen(s)}]
        /\ jt[s] = IF s = {} THEN 0 ELSE g[Chosen(s)] + jt[s \ {Chosen(s)}]
  BY <1>0 DEF IsSumming
<1>2. 0 \in Good
  <2>1. \A s \in SUBSET T : Cardinality(s) <= 0 => s = {}
    BY <1>0, FS_EmptySet
  <2>2. QED BY <2>1, <1>1
<1>3. ASSUME NEW n \in Good PROVE n + 1 \in Good
  <2>1. SUFFICES ASSUME NEW s \in SUBSET T, Cardinality(s) <= n + 1 PROVE it[s] = jt[s]
    OBVIOUS
  <2>2. CASE s = {}
    BY <2>2, <1>1
  <2>3. CASE s # {}
    <3>1. Chosen(s) \in s
      BY <2>3 DEF Chosen
    <3>2. IsFiniteSet(T)
      BY FS_Subset
    <3>3. s \ {Chosen(s)} \in SUBSET T /\ Cardinality(s \ {Chosen(s)}) <= n
      BY <2>1, <3>1, <3>2, SmallerWithout
    <3>4. it[s \ {Chosen(s)}] = jt[s \ {Chosen(s)}]
      BY <3>3
    <3>5. f[Chosen(s)] = g[Chosen(s)]
      BY <3>1
    <3>6. QED BY <3>4, <3>5, <1>1, <2>3
  <2>4. QED BY <2>2, <2>3
<1>4. Good = Nat
  <2>1. Good \in SUBSET Nat
    OBVIOUS
  <2> HIDE DEF Good
  <2>2. QED BY <1>2, <1>3, <2>1, NatSetInduction
<1>5. QED
  BY <1>4, <1>0

(* Whichever element is taken out first.                                   *)
LEMMA SummingWithout ==
  ASSUME NEW S, IsFiniteSet(S), NEW f, \A x \in S : f[x] \in Int,
         NEW it, IsSumming(it, f, S)
  PROVE  \A s \in SUBSET S : it[s] \in Int /\ \A x \in s : it[s] = f[x] + it[s \ {x}]
<1> DEFINE Fine(s) == it[s] \in Int /\ \A x \in s : it[s] = f[x] + it[s \ {x}]
           Good == {n \in Nat : \A s \in SUBSET S : Cardinality(s) <= n => Fine(s)}
<1>0. \A s \in SUBSET S : IsFiniteSet(s) /\ Cardinality(s) \in Nat
  BY FS_Subset, FS_CardinalityType
<1>1. \A s \in SUBSET S : it[s] = IF s = {} THEN 0 ELSE f[Chosen(s)] + it[s \ {Chosen(s)}]
  BY DEF IsSumming
<1>2. 0 \in Good
  <2>1. \A s \in SUBSET S : Cardinality(s) <= 0 => s = {}
    BY <1>0, FS_EmptySet
  <2>2. Fine({})
    BY <1>1
  <2>3. QED BY <2>1, <2>2
<1>3. ASSUME NEW n \in Good PROVE n + 1 \in Good
  <2>1. SUFFICES ASSUME NEW s \in SUBSET S, Cardinality(s) <= n + 1 PROVE Fine(s)
    OBVIOUS
  <2>2. CASE s = {}
    <3>1. it[s] = 0
      BY <2>2, <1>1
    <3>2. QED BY <3>1, <2>2
  <2>3. CASE s # {}
    <3> DEFINE y == Chosen(s)
    <3>1. y \in s
      BY <2>3 DEF Chosen
    <3>2. it[s] = f[y] + it[s \ {y}]
      BY <1>1, <2>3
    <3> HIDE DEF y
    <3>3. Fine(s \ {y})
      BY <2>1, <3>1, SmallerWithout
    <3>4. f[y] \in Int /\ it[s] \in Int
      BY <3>1, <3>2, <3>3
    <3>5. ASSUME NEW x \in s PROVE it[s] = f[x] + it[s \ {x}]
      <4>1. CASE x = y
        BY <4>1, <3>2
      <4>2. CASE x # y
        <5>1. it[s \ {y}] = f[x] + it[(s \ {y}) \ {x}]
          BY <3>3, <4>2
        <5>2. Fine(s \ {x})
          BY <2>1, SmallerWithout
        <5>3. it[s \ {x}] = f[y] + it[(s \ {x}) \ {y}]
          BY <5>2, <3>1, <4>2
        <5>4. (s \ {x}) \ {y} = (s \ {y}) \ {x}
          OBVIOUS
        <5>5. Fine((s \ {y}) \ {x})
          <6>1. Cardinality(s \ {y}) <= n + 1 /\ s \ {y} \in SUBSET S
            BY <2>1, <3>1, SmallerWithout, <1>0
          <6>2. QED BY <6>1, <4>2, SmallerWithout
        <5>6. f[x] \in Int
          OBVIOUS
        <5>7. it[(s \ {y}) \ {x}] \in Int
          BY <5>5
        <5> DEFINE rest == it[(s \ {y}) \ {x}]
        <5>8. it[s] = f[y] + (f[x] + rest) /\ it[s \ {x}] = f[y] + rest
          BY <5>1, <5>3, <5>4, <3>2
        <5> HIDE DEF Fine, Good, rest
        <5>9. rest \in Int
          BY <5>7 DEF rest
        <5>10. QED BY <5>6, <5>8, <5>9, <3>4
      <4>3. QED BY <4>1, <4>2
    <3>6. QED BY <3>4, <3>5
  <2>4. QED BY <2>2, <2>3
<1>4. Good = Nat
  <2>1. Good \in SUBSET Nat
    OBVIOUS
  <2> HIDE DEF Good
  <2>2. QED BY <1>2, <1>3, <2>1, NatSetInduction
<1>5. QED
  BY <1>4, <1>0

(* What the community modules' sum is.                                     *)
LEMMA SumIsSumming ==
  ASSUME NEW S, IsFiniteSet(S), NEW f
  PROVE  \E it : IsSumming(it, f, S) /\ SumFunctionOnSet(f, S) = it[S]
<1> DEFINE it == CHOOSE k : k = [s \in SUBSET S |->
                    IF s = {} THEN 0 ELSE f[CHOOSE x \in s : TRUE] + k[s \ {CHOOSE x \in s : TRUE}]]
<1>1. IsSumming(it, f, S)
  <2>1. \E k : k = [s \in SUBSET S |->
                    IF s = {} THEN 0 ELSE f[CHOOSE x \in s : TRUE] + k[s \ {CHOOSE x \in s : TRUE}]]
    <3>1. PICK k : IsSumming(k, f, S)
      BY SummingExists
    <3>2. k = [s \in SUBSET S |-> IF s = {} THEN 0 ELSE f[Chosen(s)] + k[s \ {Chosen(s)}]]
      BY <3>1 DEF IsSumming
    <3>3. k = [s \in SUBSET S |->
                 IF s = {} THEN 0 ELSE f[CHOOSE x \in s : TRUE] + k[s \ {CHOOSE x \in s : TRUE}]]
      BY <3>2 DEF Chosen
    <3>4. QED BY <3>3
  <2>2. it = [s \in SUBSET S |->
                    IF s = {} THEN 0 ELSE f[CHOOSE x \in s : TRUE] + it[s \ {CHOOSE x \in s : TRUE}]]
    BY <2>1, Zenon
  <2> HIDE DEF it
  <2>3. QED BY <2>2 DEF IsSumming, Chosen
<1>2. SumFunctionOnSet(f, S) = it[S]
  BY DEF SumFunctionOnSet, FoldFunctionOnSet, MapThenFoldSet
<1>3. QED
  BY <1>1, <1>2

THEOREM SumOfNone ==
  ASSUME NEW f
  PROVE  SumFunctionOnSet(f, {}) = 0
<1>1. PICK it : IsSumming(it, f, {}) /\ SumFunctionOnSet(f, {}) = it[{}]
  BY SumIsSumming, FS_EmptySet
<1>2. QED BY <1>1 DEF IsSumming

THEOREM SumOfSame ==
  ASSUME NEW S, IsFiniteSet(S), NEW f, NEW g, \A x \in S : f[x] = g[x]
  PROVE  SumFunctionOnSet(f, S) = SumFunctionOnSet(g, S)
<1>1. PICK it : IsSumming(it, f, S) /\ SumFunctionOnSet(f, S) = it[S]
  BY SumIsSumming
<1>2. PICK jt : IsSumming(jt, g, S) /\ SumFunctionOnSet(g, S) = jt[S]
  BY SumIsSumming
<1>3. S \in SUBSET S
  OBVIOUS
<1>4. \A s \in SUBSET S : it[s] = jt[s]
  BY <1>1, <1>2, <1>3, SummingsAgree
<1>5. QED
  BY <1>1, <1>2, <1>4

LEMMA SumWith ==
  ASSUME NEW S, IsFiniteSet(S), NEW x, x \notin S, NEW f, \A y \in S \cup {x} : f[y] \in Int
  PROVE  SumFunctionOnSet(f, S \cup {x}) = f[x] + SumFunctionOnSet(f, S)
<1> DEFINE R == S \cup {x}
<1>0. IsFiniteSet(R) /\ S \in SUBSET R /\ R \ {x} = S /\ x \in R
  BY FS_AddElement
<1>1. PICK it : IsSumming(it, f, R) /\ SumFunctionOnSet(f, R) = it[R]
  <2> HIDE DEF R
  <2>1. QED BY <1>0, SumIsSumming
<1>2. PICK jt : IsSumming(jt, f, S) /\ SumFunctionOnSet(f, S) = jt[S]
  BY SumIsSumming
<1>3. \A y \in R : f[y] \in Int
  OBVIOUS
<1> HIDE DEF R
<1>4. it[R] = f[x] + it[R \ {x}]
  BY <1>0, <1>1, <1>3, SummingWithout
<1>5. it[S] = jt[S]
  BY <1>0, <1>1, <1>2, SummingsAgree
<1>6. QED
  BY <1>0, <1>1, <1>2, <1>4, <1>5 DEF R

THEOREM SumType ==
  ASSUME NEW S, IsFiniteSet(S), NEW f, \A x \in S : f[x] \in Int
  PROVE  SumFunctionOnSet(f, S) \in Int
<1>1. PICK it : IsSumming(it, f, S) /\ SumFunctionOnSet(f, S) = it[S]
  BY SumIsSumming
<1>2. QED
  BY <1>1, SummingWithout

(* A sum of natural numbers is one.                                        *)
THEOREM SumIsNat ==
  ASSUME NEW S, IsFiniteSet(S), NEW f, \A x \in S : f[x] \in Nat
  PROVE  SumFunctionOnSet(f, S) \in Nat
<1> DEFINE Q == {U \in SUBSET S : SumFunctionOnSet(f, U) \in Nat}
<1>1. {} \in Q
  BY SumOfNone
<1>2. ASSUME NEW U \in Q, NEW x \in S \ U PROVE U \cup {x} \in Q
  <2>1. U \in SUBSET S /\ SumFunctionOnSet(f, U) \in Nat
    OBVIOUS
  <2> HIDE DEF Q
  <2>2. IsFiniteSet(U) /\ x \notin U /\ \A y \in U \cup {x} : f[y] \in Int
    BY <2>1, FS_Subset
  <2>3. SumFunctionOnSet(f, U \cup {x}) = f[x] + SumFunctionOnSet(f, U)
    BY <2>2, SumWith
  <2>4. SumFunctionOnSet(f, U \cup {x}) \in Nat
    BY <2>1, <2>3
  <2>5. QED BY <2>1, <2>4 DEF Q
<1>3. Q \in SUBSET SUBSET S
  OBVIOUS
<1> HIDE DEF Q
<1>4. S \in Q
  BY <1>1, <1>2, <1>3, SetInduction
<1>5. QED BY <1>4 DEF Q

-----------------------------------------------------------------------------
(* Folds over sequences. What a fold does with a value and an element is   *)
(* given as a function G of the place and the value, on a set of values V  *)
(* that it does not leave: then the fold over 1..n exists. What follows G  *)
(* as long as the values are in V has its values in V, and folds each      *)
(* prefix from the one before.                                             *)
IsFold(it, n, b, G) ==
  it = [s \in SUBSET (1..n) |-> IF s = {} THEN b ELSE G[<<Max(s), it[s \ {Max(s)}]>>]]

Follows(it, n, b, G, V) ==
  /\ it = [s \in SUBSET (1..n) |-> it[s]]
  /\ it[{}] = b
  /\ \A s \in SUBSET (1..n) : s # {} /\ it[s \ {Max(s)}] \in V =>
       it[s] = G[<<Max(s), it[s \ {Max(s)}]>>]

LEMMA MaxIn ==
  ASSUME NEW n \in Nat, NEW s \in SUBSET (1..n), s # {}
  PROVE  Max(s) \in s /\ \A y \in s : y <= Max(s)
<1>1. IsFiniteSet(1..n) /\ s \in SUBSET Int
  BY FS_Interval
<1>2. IsFiniteSet(s)
  BY <1>1, FS_Subset
<1>3. \E m \in s : \A y \in s : y <= m
  BY <1>1, <1>2, MaxExists
<1>4. \E m \in s : \A y \in s : m >= y
  BY <1>1, <1>3
<1>5. Max(s) \in s /\ \A y \in s : Max(s) >= y
  BY <1>4 DEF Max
<1>6. QED BY <1>1, <1>5

LEMMA MaxOfPrefix ==
  ASSUME NEW n \in Nat
  PROVE  1..(n + 1) # {} /\ Max(1..(n + 1)) = n + 1 /\ (1..(n + 1)) \ {n + 1} = 1..n
<1>1. n + 1 \in 1..(n + 1) /\ n + 1 \in Nat
  OBVIOUS
<1>2. Max(1..(n + 1)) \in 1..(n + 1) /\ \A y \in 1..(n + 1) : y <= Max(1..(n + 1))
  BY <1>1, MaxIn
<1>3. n + 1 <= Max(1..(n + 1))
  BY <1>1, <1>2
<1>4. Max(1..(n + 1)) = n + 1
  <2> DEFINE m == Max(1..(n + 1))
  <2>1. m \in 1..(n + 1) /\ n + 1 <= m
    BY <1>2, <1>3
  <2> HIDE DEF m
  <2>2. m = n + 1
    BY <2>1
  <2>3. QED BY <2>2, Zenon DEF m
<1>5. (1..(n + 1)) \ {n + 1} = 1..n
  OBVIOUS
<1>6. QED BY <1>1, <1>4, <1>5, Zenon

LEMMA FoldExists ==
  ASSUME NEW n \in Nat, NEW b, NEW G
  PROVE  \E it : IsFold(it, n, b, G)
<1> DEFINE S == 1..n
           Upto(k) == {s \in SUBSET S : Cardinality(s) <= k}
           On(g, s) == IF s = {} THEN b ELSE G[<<Max(s), g[s \ {Max(s)}]>>]
           Good == {k \in Nat : \E g : g = [s \in Upto(k) |-> On(g, s)]}
<1>a. IsFiniteSet(S)
  BY FS_Interval
<1>b. \A s \in SUBSET S : s # {} => Max(s) \in s
  BY MaxIn
<1> HIDE DEF S
<1>0. \A s \in SUBSET S : IsFiniteSet(s) /\ Cardinality(s) \in Nat /\ Cardinality(s) <= Cardinality(S)
  BY <1>a, FS_Subset, FS_CardinalityType
<1>1. 0 \in Good
  <2> DEFINE g == [s \in Upto(0) |-> b]
  <2>1. \A s \in Upto(0) : s = {}
    BY <1>0, FS_EmptySet
  <2>2. g = [s \in Upto(0) |-> On(g, s)]
    BY <2>1
  <2>3. QED BY <2>2
<1>2. ASSUME NEW k \in Good PROVE k + 1 \in Good
  <2>1. k \in Nat /\ k + 1 \in Nat
    OBVIOUS
  <2>2. PICK g : g = [s \in Upto(k) |-> On(g, s)]
    OBVIOUS
  <2> DEFINE h == [s \in Upto(k + 1) |-> On(g, s)]
  <2>3. Upto(k) \in SUBSET Upto(k + 1)
    BY <2>1, <1>0
  <2>4. \A s \in Upto(k) : h[s] = g[s]
    <3> SUFFICES ASSUME NEW s \in Upto(k) PROVE h[s] = g[s]
      OBVIOUS
    <3>1. h[s] = On(g, s)
      BY <2>3
    <3>2. g[s] = On(g, s)
      BY <2>2
    <3>3. QED BY <3>1, <3>2
  <2>5. ASSUME NEW s \in Upto(k + 1) PROVE On(g, s) = On(h, s)
    <3>1. CASE s = {}
      BY <3>1
    <3>2. CASE s # {}
      <4>1. Max(s) \in s
        BY <3>2, <1>b
      <4>2. s \ {Max(s)} \in Upto(k)
        BY <4>1, <2>1, <1>a, SmallerWithout
      <4>3. QED BY <4>2, <2>4
    <3>3. QED BY <3>1, <3>2
  <2>6. h = [s \in Upto(k + 1) |-> On(h, s)]
    <3>1. \A s \in Upto(k + 1) : On(g, s) = On(h, s)
      BY <2>5
    <3> HIDE DEF On
    <3>2. QED BY <3>1
  <2>7. \E f : f = [s \in Upto(k + 1) |-> On(f, s)]
    <3> HIDE DEF h, On, Upto
    <3>1. QED BY <2>6
  <2>8. QED BY <2>7, <2>1
<1>3. Good = Nat
  <2>1. Good \in SUBSET Nat
    OBVIOUS
  <2> HIDE DEF Good
  <2>2. QED BY <1>1, <1>2, <2>1, NatSetInduction
<1>4. Cardinality(S) \in Good
  BY <1>3, <1>a, FS_CardinalityType
<1>5. Upto(Cardinality(S)) = SUBSET S
  BY <1>0
<1>6. QED
  BY <1>4, <1>5 DEF IsFold, S

THEOREM FoldRuns ==
  ASSUME NEW n \in Nat, NEW V, NEW b \in V, NEW G \in [(1..n) \X V -> V],
         NEW it, Follows(it, n, b, G, V)
  PROVE  /\ it \in [SUBSET (1..n) -> V]
         /\ it[1..0] = b
         /\ \A i \in 0..(n - 1) : it[1..(i + 1)] = G[<<i + 1, it[1..i]>>]
<1> DEFINE S == 1..n
           Good == {k \in Nat : \A s \in SUBSET S : Cardinality(s) <= k => it[s] \in V}
<1>a. IsFiniteSet(S)
  BY FS_Interval
<1>0. \A s \in SUBSET S : IsFiniteSet(s) /\ Cardinality(s) \in Nat
  BY <1>a, FS_Subset, FS_CardinalityType
<1>1. /\ it[{}] = b
      /\ \A s \in SUBSET S : s # {} /\ it[s \ {Max(s)}] \in V =>
           it[s] = G[<<Max(s), it[s \ {Max(s)}]>>]
  BY DEF Follows
<1>2. 0 \in Good
  <2>1. \A s \in SUBSET S : Cardinality(s) <= 0 => s = {}
    BY <1>0, FS_EmptySet
  <2>2. QED BY <2>1, <1>1
<1>3. ASSUME NEW k \in Good PROVE k + 1 \in Good
  <2>1. SUFFICES ASSUME NEW s \in SUBSET S, Cardinality(s) <= k + 1 PROVE it[s] \in V
    OBVIOUS
  <2>2. CASE s = {}
    BY <2>2, <1>1
  <2>3. CASE s # {}
    <3>1. Max(s) \in s /\ Max(s) \in 1..n
      BY <2>3, MaxIn
    <3>2. s \ {Max(s)} \in SUBSET S /\ Cardinality(s \ {Max(s)}) <= k
      BY <2>1, <3>1, <1>a, SmallerWithout
    <3>3. it[s \ {Max(s)}] \in V
      BY <3>2
    <3>4. <<Max(s), it[s \ {Max(s)}]>> \in (1..n) \X V
      BY <3>1, <3>3
    <3>5. G[<<Max(s), it[s \ {Max(s)}]>>] \in V
      BY <3>4
    <3>6. QED BY <3>3, <3>5, <1>1, <2>3
  <2>4. QED BY <2>2, <2>3
<1>4. Good = Nat
  <2>1. Good \in SUBSET Nat
    OBVIOUS
  <2> HIDE DEF Good
  <2>2. QED BY <1>2, <1>3, <2>1, NatSetInduction
<1>5. \A s \in SUBSET S : it[s] \in V
  BY <1>4, <1>0
<1>6. it \in [SUBSET S -> V]
  <2>1. it = [s \in SUBSET S |-> it[s]]
    BY DEF Follows
  <2>2. QED BY <2>1, <1>5
<1>7. it[1..0] = b
  <2>1. 1..0 = {} /\ {} \in SUBSET S
    OBVIOUS
  <2>2. QED BY <2>1, <1>1
<1>8. ASSUME NEW i \in 0..(n - 1) PROVE it[1..(i + 1)] = G[<<i + 1, it[1..i]>>]
  <2>1. i \in Nat /\ 1..(i + 1) \in SUBSET S
    OBVIOUS
  <2>2. 1..(i + 1) # {} /\ Max(1..(i + 1)) = i + 1 /\ (1..(i + 1)) \ {i + 1} = 1..i
    BY <2>1, MaxOfPrefix
  <2> DEFINE T == 1..(i + 1)
  <2>a. 1..i \in SUBSET S
    BY <2>1
  <2>b. it[T \ {Max(T)}] \in V
    BY <2>2, <2>a, <1>5
  <2>3. it[T] = G[<<Max(T), it[T \ {Max(T)}]>>]
    <3>1. T \in SUBSET S /\ T # {}
      BY <2>1, <2>2
    <3> HIDE DEF T
    <3>2. QED BY <3>1, <2>b, <1>1
  <2>4. QED BY <2>2, <2>3, Zenon
<1>9. QED BY <1>6, <1>7, <1>8

THEOREM FoldInside ==
  ASSUME NEW n \in Nat, NEW V, NEW b \in V, NEW G \in [(1..n) \X V -> V]
  PROVE  \E it : IsFold(it, n, b, G) /\ it \in [SUBSET (1..n) -> V]
<1>1. PICK it : IsFold(it, n, b, G)
  BY FoldExists
<1>2. it[{}] = b /\ {} \in SUBSET (1..n)
  BY <1>1 DEF IsFold
<1>3. Follows(it, n, b, G, V)
  BY <1>1, <1>2 DEF IsFold, Follows
<1>4. QED BY <1>1, <1>3, FoldRuns
=============================================================================
