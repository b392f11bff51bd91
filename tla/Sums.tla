--------------------------------- MODULE Sums ----------------------------------
(***************************************************************************)
(* Sums over finite sets, as the community modules define them: the value  *)
(* of an element that is chosen, and the sum of the rest.  What is proved: *)
(* the choice does not matter, and sums respect the order of their terms   *)
(* and linear bounds on them.                                              *)
(*                                                                         *)
(* The inductions are over a set of subsets, as no installed prover can    *)
(* instantiate the induction theorems of the library.                      *)
(***************************************************************************)
EXTENDS Integers, FiniteSets, FiniteSetsExt, FiniteSetTheorems, NaturalsInduction,
        WellFoundedInduction, TLAPS

(* A set of numbers with 0 and the successor of each of its elements. *)
LEMMA NatInductionSet ==
  ASSUME NEW P \in SUBSET Nat, 0 \in P, \A n \in P : n + 1 \in P
  PROVE  P = Nat
<1>. DEFINE Less == {p \in Nat \X Nat : p[1] < p[2]}
            Rest == Nat \ P
<1>1. IsWellFoundedOn(Less, Nat)
  BY NatLessThanWellFounded, Zenon DEF OpToRel
<1>2. ASSUME Rest # {} PROVE FALSE
  <2>. HIDE DEF Less
  <2>1. Rest \subseteq Nat
    OBVIOUS
  <2>. HIDE DEF Rest
  <2>2. PICK m \in Rest : \A e \in Rest : ~(<<e, m>> \in Less)
    BY <1>1, <1>2, <2>1, WFMin, Zenon
  <2>3. m \in Nat /\ m \notin P /\ m # 0
    BY DEF Rest
  <2>4. m - 1 \in Nat /\ m - 1 < m /\ (m - 1) + 1 = m
    BY <2>3
  <2>5. m - 1 \in Rest
    BY <2>3, <2>4 DEF Rest
  <2>6. <<m - 1, m>> \in Nat \X Nat /\ <<m - 1, m>>[1] = m - 1 /\ <<m - 1, m>>[2] = m
    BY <2>3, <2>4
  <2>. QED  BY <2>2, <2>4, <2>5, <2>6, Zenon DEF Less
<1>. QED  BY <1>2

(* What holds of no element, and goes on to hold when one is added. *)
LEMMA SetInduction ==
  ASSUME NEW S, IsFiniteSet(S), NEW P, {} \in P,
         \A T \in SUBSET S : \A x \in S \ T : T \in P => T \cup {x} \in P
  PROVE  S \in P
<1>. DEFINE Q == {n \in Nat : \A T \in SUBSET S : Cardinality(T) = n => T \in P}
<1>1. 0 \in Q
  <2>. SUFFICES ASSUME NEW T \in SUBSET S, Cardinality(T) = 0 PROVE T \in P
    OBVIOUS
  <2>. QED  BY FS_EmptySet, FS_Subset
<1>2. ASSUME NEW n \in Q PROVE n + 1 \in Q
  <2>. SUFFICES ASSUME NEW T \in SUBSET S, Cardinality(T) = n + 1 PROVE T \in P
    OBVIOUS
  <2>1. IsFiniteSet(T) /\ T # {}
    BY FS_Subset, FS_EmptySet
  <2>2. PICK x \in T : TRUE
    BY <2>1
  <2>3. Cardinality(T \ {x}) = n
    <3>1. Cardinality(T \ {x}) = Cardinality(T) - 1
      BY <2>1, <2>2, FS_RemoveElement
    <3>. QED  BY <3>1
  <2>4. T \ {x} \in SUBSET S /\ x \in S \ (T \ {x}) /\ (T \ {x}) \cup {x} = T
    BY <2>2
  <2>5. T \ {x} \in P
    BY <2>3, <2>4
  <2>. QED  BY <2>4, <2>5
<1>3. Q = Nat
  <2>. HIDE DEF Q
  <2>1. Q \in SUBSET Nat
    BY DEF Q
  <2>. QED  BY <1>1, <1>2, <2>1, NatInductionSet
<1>4. Cardinality(S) \in Q
  BY <1>3, FS_CardinalityType
<1>. QED  BY <1>4

LEMMA MaxIs ==
  ASSUME NEW S \in SUBSET Nat, IsFiniteSet(S), S # {}
  PROVE  Max(S) \in S /\ \A x \in S : x <= Max(S)
<1>. DEFINE P == {T \in SUBSET S : T = {} \/ \E m \in T : \A x \in T : x <= m}
<1>1. {} \in P
  OBVIOUS
<1>2. ASSUME NEW T \in SUBSET S, NEW y \in S \ T, T \in P PROVE T \cup {y} \in P
  <2>1. CASE T = {}
    BY <2>1
  <2>2. CASE T # {}
    <3>1. PICK m \in T : \A x \in T : x <= m
      BY <1>2, <2>2
    <3>2. CASE y <= m
      BY <3>1, <3>2
    <3>3. CASE ~(y <= m)
      <4>1. \A x \in T \cup {y} : x <= y
        BY <3>1, <3>3
      <4>. QED  BY <4>1
    <3>. QED  BY <3>2, <3>3
  <2>. QED  BY <2>1, <2>2
<1>3. S \in P
  <2>. HIDE DEF P
  <2>. QED  BY <1>1, <1>2, SetInduction
<1>4. \E m \in S : \A x \in S : x <= m
  BY <1>3
<1>. QED  BY <1>4 DEF Max

-----------------------------------------------------------------------------
(* A fold over a finite set, as in the community modules: it takes what    *)
(* pick chooses of the set, and op of that and of the fold of the rest.    *)
FoldStep(pick, op, base, g, s) ==
  IF s = {} THEN base ELSE op[pick[s]][g[s \ {pick[s]}]]

Picks(pick, S) == \A s \in SUBSET S : s # {} => pick[s] \in s
Closed(op, S, R) == \A x \in S : \A y \in R : op[x][y] \in R
Folds(g, pick, op, base, S) == \A s \in SUBSET S : g[s] = FoldStep(pick, op, base, g, s)

FoldOf(pick, op, base, S, R) ==
  CHOOSE g \in [SUBSET S -> R] : Folds(g, pick, op, base, S)

(* The equation of a fold has a solution.                                  *)
LEMMA FoldExists ==
  ASSUME NEW S, IsFiniteSet(S), NEW R, NEW base \in R,
         NEW pick, Picks(pick, S), NEW op, Closed(op, S, R)
  PROVE  /\ FoldOf(pick, op, base, S, R) \in [SUBSET S -> R]
         /\ Folds(FoldOf(pick, op, base, S, R), pick, op, base, S)
<1>. DEFINE Fits(g, n) ==
              \A s \in SUBSET S : Cardinality(s) <= n => g[s] = FoldStep(pick, op, base, g, s)
            Q == {n \in Nat : \E g \in [SUBSET S -> R] : Fits(g, n)}
<1>0. \A s \in SUBSET S : IsFiniteSet(s) /\ Cardinality(s) \in Nat
  BY FS_Subset, FS_CardinalityType
<1>4. ASSUME NEW s \in SUBSET S, s # {}
      PROVE  /\ pick[s] \in S /\ s \ {pick[s]} \in SUBSET S
             /\ Cardinality(s \ {pick[s]}) = Cardinality(s) - 1
  BY <1>0, <1>4, FS_RemoveElement DEF Picks
<1>1. 0 \in Q
  <2>. DEFINE g == [s \in SUBSET S |-> base]
  <2>1. g \in [SUBSET S -> R]
    OBVIOUS
  <2>2. Fits(g, 0)
    BY <1>0, FS_EmptySet DEF FoldStep
  <2>. QED  BY <2>1, <2>2
<1>2. ASSUME NEW n \in Q PROVE n + 1 \in Q
  <2>1. PICK g \in [SUBSET S -> R] : Fits(g, n)
    OBVIOUS
  <2>. DEFINE h == [s \in SUBSET S |->
                      IF Cardinality(s) <= n THEN g[s] ELSE FoldStep(pick, op, base, g, s)]
  <2>2. \A s \in SUBSET S : FoldStep(pick, op, base, g, s) \in R
    BY <1>4 DEF FoldStep, Closed
  <2>3. h \in [SUBSET S -> R]
    BY <2>2
  <2>4. ASSUME NEW s \in SUBSET S, Cardinality(s) <= n + 1
        PROVE  h[s] = FoldStep(pick, op, base, h, s)
    <3>1. CASE s = {}
      BY <3>1, <2>1, FS_EmptySet DEF FoldStep
    <3>2. CASE s # {}
      <4>1. Cardinality(s \ {pick[s]}) <= n
        BY <3>2, <2>4, <1>4, <1>0
      <4>2. h[s \ {pick[s]}] = g[s \ {pick[s]}]
        BY <4>1, <3>2, <1>4
      <4>3. h[s] = FoldStep(pick, op, base, g, s)
        BY <2>1
      <4>. QED  BY <4>2, <4>3 DEF FoldStep
    <3>. QED  BY <3>1, <3>2
  <2>5. n + 1 \in Nat
    OBVIOUS
  <2>. HIDE DEF h
  <2>. QED  BY <2>3, <2>4, <2>5
<1>3. Q = Nat
  <2>. HIDE DEF Q
  <2>1. Q \in SUBSET Nat
    BY DEF Q
  <2>. QED  BY <1>1, <1>2, <2>1, NatInductionSet
<1>5. Cardinality(S) \in Q
  BY <1>3, FS_CardinalityType
<1>6. PICK g \in [SUBSET S -> R] : Fits(g, Cardinality(S))
  BY <1>5
<1>7. Folds(g, pick, op, base, S)
  BY <1>6, FS_Subset DEF Folds
<1>. QED  BY <1>7 DEF FoldOf

-----------------------------------------------------------------------------
(* The sum of f over S. *)
AnyOf(s) == CHOOSE x \in s : TRUE

SumStep(f, g, s) == IF s = {} THEN 0 ELSE f[AnyOf(s)] + g[s \ {AnyOf(s)}]

Solves(f, S, g) == g = [s \in SUBSET S |-> SumStep(f, g, s)]

Total(f, S) == (CHOOSE g : Solves(f, S, g))[S]

LEMMA AnyIn == ASSUME NEW s, s # {} PROVE AnyOf(s) \in s
BY DEF AnyOf

(* There is a sum to choose, and only one.                                 *)
LEMMA SolutionExists ==
  ASSUME NEW S, IsFiniteSet(S), NEW f, \A x \in S : f[x] \in Int
  PROVE  \E g \in [SUBSET S -> Int] : Solves(f, S, g)
<1>. PICK pick : pick = [s \in SUBSET S |-> AnyOf(s)]
  OBVIOUS
<1>. PICK op : op = [x \in S |-> [y \in Int |-> f[x] + y]]
  OBVIOUS
<1>4. \A s \in SUBSET S : pick[s] = AnyOf(s)
  OBVIOUS
<1>1. Picks(pick, S)
  BY <1>4, AnyIn DEF Picks
<1>2. \A x \in S, y \in Int : op[x][y] = f[x] + y
  OBVIOUS
<1>3. Closed(op, S, Int)
  BY <1>2 DEF Closed
<1>5. PICK g \in [SUBSET S -> Int] : Folds(g, pick, op, 0, S)
  <2>1. 0 \in Int
    OBVIOUS
  <2>. QED  BY <1>1, <1>3, <2>1, FoldExists, Zenon
<1>6. ASSUME NEW s \in SUBSET S PROVE FoldStep(pick, op, 0, g, s) = SumStep(f, g, s)
  <2>1. CASE s = {}
    BY <2>1 DEF FoldStep, SumStep
  <2>2. CASE s # {}
    <3>1. AnyOf(s) \in S /\ g[s \ {AnyOf(s)}] \in Int
      BY <2>2, AnyIn
    <3>. QED  BY <1>2, <1>4, <2>2, <3>1 DEF FoldStep, SumStep
  <2>. QED  BY <2>1, <2>2
<1>7. \A s \in SUBSET S : g[s] = SumStep(f, g, s)
  BY <1>5, <1>6 DEF Folds
<1>8. g = [s \in SUBSET S |-> SumStep(f, g, s)]
  BY <1>7
<1>. QED  BY <1>8 DEF Solves

LEMMA SolutionsAgree ==
  ASSUME NEW S, IsFiniteSet(S), NEW T \in SUBSET S,
         NEW f, NEW e, \A x \in T : f[x] = e[x],
         NEW g, NEW h, Solves(f, S, g), Solves(e, T, h)
  PROVE  \A s \in SUBSET T : g[s] = h[s]
<1>. DEFINE Q == {n \in Nat : \A s \in SUBSET T : Cardinality(s) = n => g[s] = h[s]}
<1>0. \A s \in SUBSET T : IsFiniteSet(s) /\ Cardinality(s) \in Nat /\ s \in SUBSET S
  BY FS_Subset, FS_CardinalityType
<1>6. \A s \in SUBSET T : g[s] = SumStep(f, g, s) /\ h[s] = SumStep(e, h, s)
  BY <1>0 DEF Solves
<1>1. 0 \in Q
  BY <1>0, <1>6, FS_EmptySet DEF SumStep
<1>2. ASSUME NEW n \in Q PROVE n + 1 \in Q
  <2>. SUFFICES ASSUME NEW s \in SUBSET T, Cardinality(s) = n + 1 PROVE g[s] = h[s]
    OBVIOUS
  <2>1. s # {} /\ IsFiniteSet(s)
    BY <1>0, FS_EmptySet
  <2>2. AnyOf(s) \in s /\ s \ {AnyOf(s)} \in SUBSET T
    BY <2>1, AnyIn
  <2>4. Cardinality(s \ {AnyOf(s)}) = Cardinality(s) - 1
    BY <2>1, <2>2, FS_RemoveElement
  <2>5. Cardinality(s \ {AnyOf(s)}) = n
    BY <2>4
  <2>3. g[s \ {AnyOf(s)}] = h[s \ {AnyOf(s)}] /\ f[AnyOf(s)] = e[AnyOf(s)]
    BY <2>2, <2>5
  <2>. QED  BY <1>6, <2>3, <2>1 DEF SumStep
<1>3. Q = Nat
  <2>. HIDE DEF Q
  <2>1. Q \in SUBSET Nat
    BY DEF Q
  <2>. QED  BY <1>1, <1>2, <2>1, NatInductionSet
<1>. QED  BY <1>0, <1>3

(* A total is that of any solution that reaches as far. *)
LEMMA TotalOf ==
  ASSUME NEW S, IsFiniteSet(S), NEW T \in SUBSET S,
         NEW f, NEW e, \A x \in T : f[x] = e[x], \A x \in T : e[x] \in Int,
         NEW g, Solves(f, S, g)
  PROVE  Total(e, T) = g[T]
<1>1. IsFiniteSet(T)
  BY FS_Subset
<1>2. \E h : Solves(e, T, h)
  BY <1>1, SolutionExists
<1>3. PICK h : h = (CHOOSE k : Solves(e, T, k)) /\ Solves(e, T, h)
  BY <1>2
<1>5. Solves(e, T, h)
  BY <1>3
<1>6. \A s \in SUBSET T : g[s] = h[s]
  BY SMTT(30), <1>5, SolutionsAgree
<1>4. g[T] = h[T]
  BY <1>6
<1>. QED  BY <1>3, <1>4 DEF Total
(* There is a solution on a finite set, and any gives the total. *)
LEMMA SolutionTotals ==
  ASSUME NEW S, IsFiniteSet(S), NEW f, \A x \in S : f[x] \in Int
  PROVE  /\ \E g : Solves(f, S, g)
         /\ \A g : Solves(f, S, g) => Total(f, S) = g[S]
<1>1. \A x \in S : f[x] = f[x] /\ f[x] \in Int
  OBVIOUS
<1>2. S \in SUBSET S
  OBVIOUS
<1>3. ASSUME NEW g, Solves(f, S, g) PROVE Total(f, S) = g[S]
  BY <1>1, <1>2, <1>3, TotalOf
<1>. QED  BY <1>3, SolutionExists

(* The sum of f over S is what any of its elements adds, and the rest.     *)
LEMMA TotalEmpty == ASSUME NEW f PROVE Total(f, {}) = 0
<1>1. PICK g : Solves(f, {}, g)
  BY FS_EmptySet, SolutionExists
<1>2. Total(f, {}) = g[{}]
  BY <1>1, FS_EmptySet, TotalOf
<1>. QED  BY <1>1, <1>2 DEF Solves, SumStep

LEMMA TotalAny ==
  ASSUME NEW S, IsFiniteSet(S), NEW f, \A x \in S : f[x] \in Int
  PROVE  /\ Total(f, S) \in Int
         /\ S # {} => Total(f, S) = f[AnyOf(S)] + Total(f, S \ {AnyOf(S)})
<1>1. PICK g \in [SUBSET S -> Int] : Solves(f, S, g)
  BY SolutionExists
<1>2. \A T \in SUBSET S : Total(f, T) = g[T]
  <2>. SUFFICES ASSUME NEW T \in SUBSET S PROVE Total(f, T) = g[T]
    OBVIOUS
  <2>1. \A x \in T : f[x] = f[x] /\ f[x] \in Int
    OBVIOUS
  <2>. QED  BY <1>1, <2>1, TotalOf
<1>3. Total(f, S) = g[S] /\ g[S] \in Int
  BY <1>1, <1>2
<1>4. g[S] = SumStep(f, g, S)
  BY <1>1 DEF Solves
<1>5. Total(f, S \ {AnyOf(S)}) = g[S \ {AnyOf(S)}]
  BY <1>2
<1>. QED  BY <1>3, <1>4, <1>5 DEF SumStep

LEMMA TotalRemove ==
  ASSUME NEW S, IsFiniteSet(S), NEW f, \A x \in S : f[x] \in Int
  PROVE  \A x \in S : Total(f, S) = f[x] + Total(f, S \ {x})
<1>. DEFINE Q == {n \in Nat : \A T \in SUBSET S : Cardinality(T) = n =>
                     \A x \in T : Total(f, T) = f[x] + Total(f, T \ {x})}
<1>0. \A T \in SUBSET S : IsFiniteSet(T) /\ Cardinality(T) \in Nat /\ Total(f, T) \in Int
  <2>. SUFFICES ASSUME NEW T \in SUBSET S
                PROVE  IsFiniteSet(T) /\ Cardinality(T) \in Nat /\ Total(f, T) \in Int
    OBVIOUS
  <2>1. IsFiniteSet(T) /\ Cardinality(T) \in Nat
    BY FS_Subset, FS_CardinalityType
  <2>. QED  BY <2>1, TotalAny
<1>1. 0 \in Q
  BY <1>0, FS_EmptySet
<1>2. ASSUME NEW n \in Q PROVE n + 1 \in Q
  <2>. SUFFICES ASSUME NEW T \in SUBSET S, Cardinality(T) = n + 1, NEW x \in T
                PROVE  Total(f, T) = f[x] + Total(f, T \ {x})
    OBVIOUS
  <2>. DEFINE c == AnyOf(T)
  <2>1. c \in T /\ IsFiniteSet(T)
    BY <1>0, AnyIn
  <2>2. Total(f, T) = f[c] + Total(f, T \ {c})
    BY <2>1, TotalAny
  <2>. HIDE DEF c
  <2>3. CASE x = c
    BY <2>2, <2>3
  <2>4. CASE x # c
    <3>1. Cardinality(T \ {c}) = Cardinality(T) - 1 /\ Cardinality(T \ {x}) = Cardinality(T) - 1
      BY <2>1, FS_RemoveElement
    <3>2. Cardinality(T \ {c}) = n /\ Cardinality(T \ {x}) = n
      BY <3>1
    <3>3. Total(f, T \ {c}) = f[x] + Total(f, (T \ {c}) \ {x})
      BY <2>1, <2>4, <3>2
    <3>4. Total(f, T \ {x}) = f[c] + Total(f, (T \ {x}) \ {c})
      BY <2>1, <2>4, <3>2
    <3>5. (T \ {c}) \ {x} = (T \ {x}) \ {c} /\ (T \ {c}) \ {x} \in SUBSET S
      OBVIOUS
    <3>6. f[x] \in Int /\ f[c] \in Int /\ Total(f, (T \ {c}) \ {x}) \in Int
      BY <1>0, <2>1, <3>5
    <3>. QED  BY <2>2, <3>3, <3>4, <3>5, <3>6
  <2>. QED  BY <2>3, <2>4
<1>3. Q = Nat
  <2>. HIDE DEF Q
  <2>1. Q \in SUBSET Nat
    BY DEF Q
  <2>. QED  BY <1>1, <1>2, <2>1, NatInductionSet
<1>. QED  BY <1>0, <1>3

(* An element more, a sum more. *)
LEMMA TotalAdd ==
  ASSUME NEW S, IsFiniteSet(S), NEW x, x \notin S, NEW f, \A y \in S \cup {x} : f[y] \in Int
  PROVE  /\ Total(f, S \cup {x}) = f[x] + Total(f, S)
         /\ Total(f, S) \in Int
<1>1. IsFiniteSet(S \cup {x}) /\ x \in S \cup {x} /\ (S \cup {x}) \ {x} = S
  BY FS_AddElement
<1>2. Total(f, S \cup {x}) = f[x] + Total(f, (S \cup {x}) \ {x})
  BY <1>1, TotalRemove
<1>3. Total(f, S) \in Int
  BY TotalAny
<1>. QED  BY <1>1, <1>2, <1>3

(* Sums agree where their terms do. *)
LEMMA TotalSame ==
  ASSUME NEW S, IsFiniteSet(S), NEW f, NEW e, \A x \in S : f[x] = e[x] /\ e[x] \in Int
  PROVE  Total(f, S) = Total(e, S)
<1>1. PICK g : Solves(e, S, g)
  BY SolutionExists
<1>2. S \in SUBSET S
  OBVIOUS
<1>3. Total(e, S) = g[S]
  BY ZenonT(60), <1>1, <1>2, TotalOf
<1>4. \A x \in S : e[x] = f[x] /\ f[x] \in Int
  OBVIOUS
<1>5. Total(f, S) = g[S]
  BY SMTT(30), <1>1, <1>2, <1>4, TotalOf
<1>. QED  BY <1>3, <1>5

(* Termwise at most is at most in sum.                                     *)
LEMMA TotalMonotone ==
  ASSUME NEW S, IsFiniteSet(S), NEW f, NEW e,
         \A x \in S : f[x] \in Int /\ e[x] \in Int /\ f[x] <= e[x]
  PROVE  Total(f, S) <= Total(e, S)
<1>. DEFINE P == {T \in SUBSET S : Total(f, T) <= Total(e, T)}
<1>1. {} \in P
  BY TotalEmpty
<1>2. ASSUME NEW T \in SUBSET S, NEW x \in S \ T, T \in P PROVE T \cup {x} \in P
  <2>1. IsFiniteSet(T)
    BY FS_Subset
  <2>2. /\ Total(f, T \cup {x}) = f[x] + Total(f, T) /\ Total(f, T) \in Int
        /\ Total(e, T \cup {x}) = e[x] + Total(e, T) /\ Total(e, T) \in Int
    BY <2>1, TotalAdd
  <2>. QED  BY <1>2, <2>2
<1>3. S \in P
  <2>. HIDE DEF P
  <2>. QED  BY <1>1, <1>2, SetInduction
<1>. QED  BY <1>3

(* Of natural numbers, none is more than all of them.                      *)
LEMMA TotalNat ==
  ASSUME NEW S, IsFiniteSet(S), NEW f, \A x \in S : f[x] \in Nat
  PROVE  Total(f, S) \in Nat /\ \A x \in S : f[x] <= Total(f, S)
<1>. DEFINE P == {T \in SUBSET S : Total(f, T) \in Nat}
<1>1. {} \in P
  BY TotalEmpty
<1>2. ASSUME NEW T \in SUBSET S, NEW x \in S \ T, T \in P PROVE T \cup {x} \in P
  <2>1. IsFiniteSet(T)
    BY FS_Subset
  <2>2. Total(f, T \cup {x}) = f[x] + Total(f, T)
    BY SMTT(30), <2>1, TotalAdd
  <2>. QED  BY <1>2, <2>2
<1>3. \A T \in SUBSET S : Total(f, T) \in Nat
  <2>. SUFFICES ASSUME NEW T \in SUBSET S PROVE T \in P
    OBVIOUS
  <2>1. IsFiniteSet(T) /\ \A Q \in SUBSET T : \A x \in T \ Q : Q \in P => Q \cup {x} \in P
    BY <1>2, FS_Subset
  <2>. HIDE DEF P
  <2>. QED  BY <1>1, <2>1, SetInduction
<1>4. ASSUME NEW x \in S PROVE f[x] <= Total(f, S)
  <2>1. Total(f, S) = f[x] + Total(f, S \ {x})
    BY TotalRemove
  <2>2. Total(f, S \ {x}) \in Nat
    BY <1>3
  <2>. QED  BY <2>1, <2>2
<1>. QED  BY <1>3, <1>4

LEMMA Distribute == \A a, b, c \in Int : a * (b + c) = a * b + a * c
OBVIOUS

(* A linear bound on each term is one on the sum. *)
LEMMA TotalLinear ==
  ASSUME NEW S, IsFiniteSet(S), NEW f, NEW e, NEW a \in Int, NEW b \in Int, NEW c \in Int,
         \A x \in S : f[x] \in Int /\ e[x] \in Int /\ a * f[x] <= b * e[x] + c
  PROVE  a * Total(f, S) <= b * Total(e, S) + c * Cardinality(S)
<1>. DEFINE P == {T \in SUBSET S : a * Total(f, T) <= b * Total(e, T) + c * Cardinality(T)}
<1>1. {} \in P
  BY TotalEmpty, FS_EmptySet
<1>2. ASSUME NEW T \in SUBSET S, NEW x \in S \ T, T \in P PROVE T \cup {x} \in P
  <2>1. IsFiniteSet(T)
    BY FS_Subset
  <2>2. /\ Total(f, T \cup {x}) = f[x] + Total(f, T) /\ Total(f, T) \in Int
        /\ Total(e, T \cup {x}) = e[x] + Total(e, T) /\ Total(e, T) \in Int
    BY <2>1, TotalAdd
  <2>3. Cardinality(T \cup {x}) = Cardinality(T) + 1 /\ Cardinality(T) \in Nat
    BY <2>1, FS_AddElement, FS_CardinalityType
  <2>4. /\ a * (f[x] + Total(f, T)) = a * f[x] + a * Total(f, T)
        /\ b * (e[x] + Total(e, T)) = b * e[x] + b * Total(e, T)
        /\ c * (Cardinality(T) + 1) = c * Cardinality(T) + c * 1
    <3>1. f[x] \in Int /\ e[x] \in Int /\ 1 \in Int /\ Cardinality(T) \in Int
      BY <2>3
    <3>. HIDE DEF P
    <3>2. a * (f[x] + Total(f, T)) = a * f[x] + a * Total(f, T)
      BY <2>2, <3>1, Distribute
    <3>3. b * (e[x] + Total(e, T)) = b * e[x] + b * Total(e, T)
      BY <2>2, <3>1, Distribute
    <3>4. c * (Cardinality(T) + 1) = c * Cardinality(T) + c * 1
      BY <3>1, Distribute
    <3>. QED  BY <3>2, <3>3, <3>4
  <2>5. a * f[x] <= b * e[x] + c /\ a * Total(f, T) <= b * Total(e, T) + c * Cardinality(T)
    BY <1>2
  <2>6. /\ a * f[x] \in Int /\ b * e[x] \in Int /\ a * Total(f, T) \in Int
        /\ b * Total(e, T) \in Int /\ c * Cardinality(T) \in Int
    BY <2>2, <2>3
  <2>7. a * f[x] + a * Total(f, T) <= b * e[x] + b * Total(e, T) + (c * Cardinality(T) + c * 1)
    BY <2>5, <2>6
  <2>. QED  BY <2>2, <2>3, <2>4, <2>7
<1>3. S \in P
  <2>. HIDE DEF P
  <2>. QED  BY <1>1, <1>2, SetInduction
<1>. QED  BY <1>3

(* Terms that are zero may be left out. *)
LEMMA TotalSupport ==
  ASSUME NEW S, IsFiniteSet(S), NEW T \in SUBSET S, NEW f,
         \A x \in S : f[x] \in Int, \A x \in S \ T : f[x] = 0
  PROVE  Total(f, S) = Total(f, T)
<1>. DEFINE P == {Q \in SUBSET (S \ T) : Total(f, T \cup Q) = Total(f, T)}
<1>1. {} \in P
  OBVIOUS
<1>2. ASSUME NEW Q \in SUBSET (S \ T), NEW x \in (S \ T) \ Q, Q \in P
      PROVE  Q \cup {x} \in P
  <2>1. IsFiniteSet(T \cup Q) /\ x \notin T \cup Q /\ T \cup (Q \cup {x}) = (T \cup Q) \cup {x}
    BY FS_Subset
  <2>2. /\ Total(f, (T \cup Q) \cup {x}) = f[x] + Total(f, T \cup Q)
        /\ Total(f, T \cup Q) \in Int
    BY <2>1, TotalAdd
  <2>3. Total(f, T \cup Q) = Total(f, T) /\ f[x] = 0
    BY <1>2
  <2>5. Total(f, (T \cup Q) \cup {x}) = Total(f, T)
    <3>. HIDE DEF P
    <3>. QED  BY <2>2, <2>3
  <2>4. Total(f, T \cup (Q \cup {x})) = Total(f, T)
    BY <2>1, <2>5, Zenon
  <2>. QED  BY <2>4
<1>3. S \ T \in P
  <2>1. IsFiniteSet(S \ T)
    BY FS_Subset
  <2>. HIDE DEF P
  <2>. QED  BY <1>1, <1>2, <2>1, SetInduction
<1>. QED  BY <1>3

(* One more for each element of B. *)
LEMMA TotalMarked ==
  ASSUME NEW S, IsFiniteSet(S), NEW B \in SUBSET S, NEW f, NEW e,
         \A x \in S : f[x] \in Int /\ e[x] = f[x] + (IF x \in B THEN 1 ELSE 0)
  PROVE  Total(e, S) = Total(f, S) + Cardinality(B)
<1>. DEFINE P == {T \in SUBSET S : Total(e, T) = Total(f, T) + Cardinality(T \cap B)}
<1>1. {} \in P
  BY TotalEmpty, FS_EmptySet
<1>2. ASSUME NEW T \in SUBSET S, NEW x \in S \ T, T \in P PROVE T \cup {x} \in P
  <2>1. IsFiniteSet(T) /\ IsFiniteSet(T \cap B) /\ x \notin T \cap B
    BY FS_Subset
  <2>5. \A y \in T \cup {x} : f[y] \in Int /\ e[y] \in Int
    OBVIOUS
  <2>2. /\ Total(f, T \cup {x}) = f[x] + Total(f, T) /\ Total(f, T) \in Int
        /\ Total(e, T \cup {x}) = e[x] + Total(e, T) /\ Total(e, T) \in Int
    BY <2>1, <2>5, TotalAdd
  <2>3. Cardinality(T \cap B) \in Nat
    BY <2>1, FS_CardinalityType
  <2>4. Cardinality((T \cup {x}) \cap B)
          = Cardinality(T \cap B) + (IF x \in B THEN 1 ELSE 0)
    <3>1. CASE x \in B
      <4>1. (T \cup {x}) \cap B = (T \cap B) \cup {x}
        BY <3>1
      <4>. QED  BY <2>1, <3>1, <4>1, FS_AddElement
    <3>2. CASE x \notin B
      <4>1. (T \cup {x}) \cap B = T \cap B
        BY <3>2
      <4>. QED  BY <2>3, <3>2, <4>1
    <3>. QED  BY <3>1, <3>2
  <2>. QED  BY <1>2, <2>2, <2>3, <2>4
<1>3. S \in P
  <2>. HIDE DEF P
  <2>. QED  BY <1>1, <1>2, SetInduction
<1>4. S \cap B = B
  OBVIOUS
<1>. QED  BY <1>3, <1>4

(* A sum of nothing but zeros, of nothing but ones, and a sum of less over *)
(* a part.                                                                 *)
LEMMA TotalZero ==
  ASSUME NEW S, IsFiniteSet(S), NEW f, \A x \in S : f[x] = 0
  PROVE  Total(f, S) = 0
<1>1. {} \in SUBSET S /\ (\A x \in S : f[x] \in Int) /\ \A x \in S \ {} : f[x] = 0
  OBVIOUS
<1>2. Total(f, S) = Total(f, {})
  BY <1>1, TotalSupport
<1>. QED  BY <1>2, TotalEmpty

LEMMA TotalOnes ==
  ASSUME NEW S, IsFiniteSet(S), NEW f, \A x \in S : f[x] = 1
  PROVE  Total(f, S) = Cardinality(S)
<1>. DEFINE zero == [x \in S |-> 0]
<1>1. /\ S \in SUBSET S /\ \A x \in S : zero[x] = 0
      /\ \A x \in S : zero[x] \in Int /\ f[x] = zero[x] + (IF x \in S THEN 1 ELSE 0)
  OBVIOUS
<1>. HIDE DEF zero
<1>2. Total(f, S) = Total(zero, S) + Cardinality(S)
  BY <1>1, TotalMarked
<1>3. Total(zero, S) = 0
  BY <1>1, TotalZero
<1>. QED  BY <1>2, <1>3, FS_CardinalityType

LEMMA TotalWithin ==
  ASSUME NEW S, IsFiniteSet(S), NEW T \in SUBSET S, NEW e, NEW f,
         \A x \in S : f[x] \in Nat, \A x \in T : e[x] \in Nat /\ e[x] <= f[x]
  PROVE  Total(e, T) <= Total(f, S)
<1>. DEFINE g == [x \in S |-> IF x \in T THEN f[x] ELSE 0]
<1>0. IsFiniteSet(T)
  BY FS_Subset
<1>1. /\ \A x \in S : g[x] \in Int /\ f[x] \in Int /\ g[x] <= f[x]
      /\ \A x \in S : g[x] \in Int
      /\ \A x \in S \ T : g[x] = 0
      /\ \A x \in T : e[x] \in Int /\ g[x] \in Int /\ e[x] <= g[x]
  OBVIOUS
<1>. HIDE DEF g
<1>2. Total(g, S) <= Total(f, S)
  BY <1>1, TotalMonotone
<1>3. Total(g, S) = Total(g, T)
  BY <1>1, TotalSupport
<1>4. Total(e, T) <= Total(g, T)
  BY <1>0, <1>1, TotalMonotone
<1>5. Total(e, T) \in Int /\ Total(g, T) \in Int /\ Total(f, S) \in Int
  <2>1. (\A x \in T : e[x] \in Int) /\ (\A x \in T : g[x] \in Int) /\ \A x \in S : f[x] \in Int
    BY <1>1
  <2>. QED  BY <1>0, <2>1, TotalAny
<1>. QED  BY <1>2, <1>3, <1>4, <1>5
===============================================================================
