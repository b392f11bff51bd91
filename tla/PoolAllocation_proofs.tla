------------------------ MODULE PoolAllocation_proofs --------------------------
(***************************************************************************)
(* The division of a pool, for any participants, scores, pool, baseline    *)
(* and rounding grid: it hands out exactly the pool, never more to less    *)
(* compute, and nobody is more than a point from the exact share.          *)
(*                                                                         *)
(* Each share is near the exact one (ShareNear), so the whole points of    *)
(* all leave between nothing and one point a participant (FloorsFit).      *)
(* That is what the loop over the remainders can hand out.                 *)
(***************************************************************************)
EXTENDS PoolAllocation, Sums


(* The community modules' sum of a function is the Total of Sums.          *)
LEMMA SumIsTotal == ASSUME NEW f PROVE SumFunction(f) = Total(f, DOMAIN f)
BY Zenon DEF SumFunction, SumFunctionOnSet, FoldFunctionOnSet, MapThenFoldSet, Total,
             Solves, SumStep, AnyOf

-----------------------------------------------------------------------------
(* Numbers.                                                                *)

LEMMA ProductNat == \A a, b \in Nat : a * b \in Nat
OBVIOUS

LEMMA CancelLeft ==
  ASSUME NEW n \in Nat \ {0}, NEW a \in Int, NEW b \in Int, n * a <= n * b
  PROVE  a <= b
<1>. SUFFICES ASSUME b + 1 <= a PROVE FALSE
  OBVIOUS
<1>1. PICK k \in Nat : a = b + 1 + k
  <2>1. a - (b + 1) \in Nat /\ a = b + 1 + (a - (b + 1))
    OBVIOUS
  <2>. QED  BY <2>1
<1>2. n * a = n * b + n * (1 + k)
  BY <1>1
<1>3. n * (1 + k) = n + n * k /\ n * k \in Nat
  BY Distribute, ProductNat
<1>. QED  BY <1>2, <1>3

LEMMA ScaleUp ==
  ASSUME NEW n \in Nat, NEW a \in Int, NEW b \in Int, a <= b
  PROVE  n * a <= n * b
<1>1. b - a \in Nat /\ b = a + (b - a)
  OBVIOUS
<1>2. n * b = n * a + n * (b - a)
  BY <1>1, Distribute
<1>3. n * (b - a) \in Nat
  BY <1>1, ProductNat
<1>. QED  BY <1>2, <1>3

LEMMA Quotient ==
  ASSUME NEW n \in Nat, NEW d \in Nat \ {0}
  PROVE  n \div d \in Nat /\ d * (n \div d) <= n /\ n < d * (n \div d) + d
OBVIOUS

LEMMA QuotientMonotone ==
  ASSUME NEW n \in Nat, NEW m \in Nat, NEW d \in Nat \ {0}, n <= m
  PROVE  n \div d <= m \div d
<1>. DEFINE q == n \div d
            p == m \div d
<1>1. q \in Nat /\ d * q <= n /\ p \in Nat /\ m < d * p + d
  BY Quotient
<1>. HIDE DEF q, p
<1>. SUFFICES q <= p
  BY DEF q, p
<1>2. CASE p + 1 <= q
  <2>1. d * (p + 1) <= d * q
    BY <1>1, <1>2, ScaleUp
  <2>2. d * (p + 1) = d * p + d
    BY <1>1
  <2>3. d * p \in Int /\ d * q \in Int
    BY <1>1
  <2>. QED  BY <1>1, <2>1, <2>2, <2>3
<1>. QED  BY <1>1, <1>2

LEMMA ScalePositive == Scale \in Nat \ {0} /\ 2 * Scale \in Nat \ {0}
<1>1. MaxCap * Cardinality(Users) \in Nat
  BY PoolAssumption, FS_CardinalityType, ProductNat
<1>. QED  BY <1>1, ScaleAssumption

(* A quotient rounded to the grid is within half a step of it. *)
LEMMA RoundedBounds ==
  ASSUME NEW a \in Nat, NEW b \in Nat \ {0}
  PROVE  /\ Rounded(a, b) \in Nat
         /\ 2 * b * Rounded(a, b) <= 2 * Scale * a + b
         /\ 2 * Scale * a <= 2 * b * Rounded(a, b) + b
<1>. DEFINE n == 2 * Scale * a + b
            d == 2 * b
<1>1. n \in Nat /\ d \in Nat \ {0} /\ Rounded(a, b) = n \div d
  BY ScaleAssumption DEF Rounded
<1>. HIDE DEF n, d
<1>2. n \div d \in Nat /\ d * (n \div d) <= n /\ n < d * (n \div d) + d
  BY <1>1, Quotient
<1>. QED  BY <1>1, <1>2, ScaleAssumption DEF n, d

LEMMA RoundedMonotone ==
  ASSUME NEW a \in Nat, NEW c \in Nat, NEW b \in Nat \ {0}, a <= c
  PROVE  Rounded(a, b) <= Rounded(c, b)
<1>1. 2 * Scale * a <= 2 * Scale * c
  BY ScalePositive, ScaleUp
<1>2. 2 * Scale * a + b \in Nat /\ 2 * Scale * c + b \in Nat /\ 2 * b \in Nat \ {0}
  BY ScalePositive, ProductNat
<1>3. 2 * Scale * a + b <= 2 * Scale * c + b
  <2>1. 2 * Scale * a \in Int /\ 2 * Scale * c \in Int
    BY ScalePositive, ProductNat
  <2>. QED  BY <1>1, <2>1
<1>. QED  BY <1>2, <1>3, QuotientMonotone DEF Rounded

LEMMA RoundedZero ==
  ASSUME NEW b \in Nat \ {0}
  PROVE  Rounded(0, b) = 0
<1>1. 2 * b * Rounded(0, b) <= b /\ Rounded(0, b) \in Nat
  BY RoundedBounds, ScalePositive
<1>2. CASE Rounded(0, b) >= 1
  <2>1. (2 * b) * 1 <= (2 * b) * Rounded(0, b)
    BY <1>1, <1>2, ScaleUp
  <2>. QED  BY <1>1, <2>1
<1>. QED  BY <1>1, <1>2

LEMMA MinOfTwo ==
  ASSUME NEW a \in Int, NEW b \in Int
  PROVE  Min({a, b}) \in {a, b} /\ Min({a, b}) <= a /\ Min({a, b}) <= b
<1>1. \E x \in {a, b} : \A y \in {a, b} : x <= y
  OBVIOUS
<1>. QED  BY <1>1 DEF Min

-----------------------------------------------------------------------------

(* What the variables hold, but for the division itself.                   *)
Shaped ==
  /\ path \in {"fixed", "baseline"}
  /\ score \in [Users -> Nat]
  /\ cap \in 0 .. MaxCap
  /\ baseline \in Nat \ {0}
  /\ pool \in Nat

Positive == {u \in Users : score[u] > 0}
Whole == [u \in Users |-> Share(u) \div Scale]

LEMMA NetworkSums ==
  ASSUME Shaped
  PROVE  /\ Network = Total(score, Users) /\ Network \in Nat
         /\ \A u \in Users : score[u] <= Network
<1>1. IsFiniteSet(Users) /\ DOMAIN score = Users /\ \A u \in Users : score[u] \in Nat
  BY PoolAssumption DEF Shaped
<1>2. Network = Total(score, Users)
  BY <1>1, SumIsTotal DEF Network
<1>. QED  BY <1>1, <1>2, TotalNat

(* The effective pool is within the scheduled one but for what is promised *)
(* whatever the day, and not a point more than the day's part of it.       *)
LEMMA EffectivePoolBounds ==
  ASSUME Shaped
  PROVE  /\ EffectivePool \in Nat
         /\ FloorPoints = 0 => EffectivePool <= cap
         /\ (EffectivePool - FloorPoints - 1) * baseline < cap * Min({Network, baseline})
         /\ Network = 0 => EffectivePool = FloorPoints
<1>. DEFINE m == Min({Network, baseline})
            q == Rounded(cap * m, baseline)
            p == q \div Scale
<1>1. Network \in Nat /\ cap \in Nat /\ baseline \in Nat \ {0} /\ FloorPoints \in Nat
  BY NetworkSums, PoolAssumption DEF Shaped
<1>2. m \in Nat /\ m <= baseline /\ m <= Network
  BY <1>1, MinOfTwo
<1>3. EffectivePool = p + FloorPoints
  BY DEF EffectivePool
<1>. HIDE DEF m
<1>. DEFINE c == cap * m
<1>4. c \in Nat /\ c <= cap * baseline
  BY <1>1, <1>2, ProductNat, ScaleUp
<1>5. q \in Nat /\ 2 * baseline * q <= 2 * Scale * c + baseline
  BY <1>1, <1>4, RoundedBounds
<1>. HIDE DEF q, c
<1>6. p \in Nat /\ Scale * p <= q
  BY <1>5, ScalePositive, Quotient
<1>. HIDE DEF p
<1>7. (2 * Scale) * (p * baseline) <= (2 * Scale) * c + baseline
  <2>1. (2 * baseline) * (Scale * p) <= (2 * baseline) * q
    BY <1>1, <1>5, <1>6, ScalePositive, ScaleUp
  <2>2. (2 * baseline) * (Scale * p) = (2 * Scale) * (p * baseline)
    BY <1>1, <1>6, ScalePositive
  <2>. QED  BY <1>1, <1>4, <1>5, <1>6, <2>1, <2>2, ScalePositive
<1>8. p * baseline < c + baseline
  <2>1. p * baseline \in Nat
    BY <1>1, <1>6, ProductNat
  <2>2. CASE c + baseline <= p * baseline
    <3>1. (2 * Scale) * (c + baseline) <= (2 * Scale) * (p * baseline)
      BY <1>1, <1>4, <2>1, <2>2, ScalePositive, ScaleUp
    <3>2. (2 * Scale) * (c + baseline) = (2 * Scale) * c + (2 * Scale) * baseline
      BY <1>1, <1>4, ScalePositive, Distribute
    <3>3. (2 * Scale) * c \in Nat /\ (2 * Scale) * baseline = Scale * baseline + Scale * baseline
          /\ Scale * baseline \in Nat
      BY <1>1, <1>4, ScalePositive, ProductNat
    <3>4. baseline * 1 <= baseline * Scale /\ baseline * Scale = Scale * baseline
      BY <1>1, ScalePositive, ScaleUp
    <3>5. (2 * Scale) * (p * baseline) \in Nat
      BY <2>1, ScalePositive, ProductNat
    <3>. QED  BY <1>1, <1>7, <3>1, <3>2, <3>3, <3>4, <3>5
  <2>. QED  BY <1>1, <1>4, <2>1, <2>2
<1>9. (EffectivePool - FloorPoints - 1) * baseline < c
  <2>1. EffectivePool - FloorPoints - 1 = p - 1
    BY <1>1, <1>3, <1>6
  <2>2. (p - 1) * baseline = p * baseline - baseline
    BY <1>1, <1>6
  <2>3. p * baseline \in Nat
    BY <1>1, <1>6, ProductNat
  <2>. QED  BY <1>1, <1>4, <1>8, <2>1, <2>2, <2>3
<1>10. p <= cap
  <2>1. p * baseline < cap * baseline + baseline
    <3>1. p * baseline \in Nat /\ cap * baseline \in Nat
      BY <1>1, <1>6, ProductNat
    <3>. QED  BY <1>1, <1>4, <1>8, <3>1
  <2>2. CASE cap + 1 <= p
    <3>1. baseline * (cap + 1) <= baseline * p
      BY <1>1, <1>6, <2>2, ScaleUp
    <3>2. baseline * (cap + 1) = cap * baseline + baseline /\ baseline * p = p * baseline
      BY <1>1, <1>6
    <3>3. cap * baseline \in Nat /\ p * baseline \in Nat
      BY <1>1, <1>6, ProductNat
    <3>. QED  BY <1>1, <2>1, <3>1, <3>2, <3>3
  <2>. QED  BY <1>1, <1>6, <2>2
<1>11. Network = 0 => p = 0
  <2>. SUFFICES ASSUME Network = 0 PROVE p = 0
    OBVIOUS
  <2>1. m = 0
    BY <1>2
  <2>2. c = 0
    BY <1>1, <2>1 DEF c
  <2>3. q = 0
    BY <1>1, <2>2, RoundedZero DEF q, c
  <2>4. Scale * p <= 0
    BY <1>6, <2>3
  <2>5. CASE p >= 1
    BY <1>6, <2>4, <2>5, ScaleUp, ScalePositive
  <2>. QED  BY <1>6, <2>5
<1>. QED  BY <1>1, <1>3, <1>6, <1>9, <1>10, <1>11 DEF c, m

-----------------------------------------------------------------------------
(* How far a share may be from the exact one, in steps of the network: a   *)
(* rounded quotient times the pool, or one rounded quotient.               *)
Slack == IF path = "fixed" THEN pool ELSE IF pool = 0 THEN 0 ELSE 1

LEMMA SlackSmall ==
  ASSUME Shaped, pool <= cap
  PROVE  Slack \in Nat /\ Slack <= cap /\ Slack * Cardinality(Users) < 2 * Scale
<1>. DEFINE n == Cardinality(Users)
<1>1. n \in Nat /\ MaxCap \in Nat /\ cap \in Nat /\ cap <= MaxCap /\ pool \in Nat
  BY PoolAssumption, FS_CardinalityType DEF Shaped
<1>2. Slack \in Nat /\ Slack <= pool
  BY <1>1 DEF Slack
<1>. HIDE DEF n
<1>3. n * Slack <= n * MaxCap
  BY <1>1, <1>2, ScaleUp
<1>4. n * MaxCap = MaxCap * n /\ n * Slack = Slack * n /\ Slack * n \in Nat /\ MaxCap * n \in Nat
  BY <1>1, <1>2, ProductNat
<1>5. 2 * Scale > MaxCap * n
  BY ScaleAssumption DEF n
<1>6. Slack * n < 2 * Scale
  BY <1>3, <1>4, <1>5, ScalePositive
<1>. QED  BY <1>1, <1>2, <1>6 DEF n

LEMMA ShareNear ==
  ASSUME Shaped, Network > 0, NEW u \in Users
  PROVE  /\ Share(u) \in Nat
         /\ 2 * Network * Share(u) <= 2 * Scale * (pool * score[u]) + Slack * Network
         /\ 2 * Scale * (pool * score[u]) <= 2 * Network * Share(u) + Slack * Network
         /\ score[u] = 0 => Share(u) = 0
<1>. DEFINE n == Network
            x == score[u]
<1>1. n \in Nat \ {0} /\ x \in Nat /\ pool \in Nat
  BY NetworkSums DEF Shaped
<1>2. CASE path = "fixed"
  <2>. DEFINE q == Rounded(x, n)
  <2>1. Share(u) = q * pool /\ Slack = pool
    BY <1>2 DEF Share, Slack
  <2>. HIDE DEF n, x
  <2>2. /\ q \in Nat
        /\ (2 * n) * q <= 2 * Scale * x + n /\ 2 * Scale * x <= (2 * n) * q + n
        /\ x = 0 => q = 0
    BY <1>1, RoundedBounds, RoundedZero
  <2>. HIDE DEF q
  <2>3. (2 * n) * q \in Nat /\ 2 * Scale * x \in Nat /\ q * pool \in Nat
    BY <1>1, <2>2, ScalePositive, ProductNat
  <2>4. /\ pool * ((2 * n) * q) <= pool * (2 * Scale * x + n)
        /\ pool * (2 * Scale * x) <= pool * ((2 * n) * q + n)
    BY <1>1, <2>2, <2>3, ScaleUp
  <2>5. /\ pool * ((2 * n) * q) = 2 * n * (q * pool)
        /\ pool * (2 * Scale * x) = 2 * Scale * (pool * x)
    BY <1>1, <2>2, ScalePositive
  <2>6. /\ pool * (2 * Scale * x + n) = pool * (2 * Scale * x) + pool * n
        /\ pool * ((2 * n) * q + n) = pool * ((2 * n) * q) + pool * n
    BY <1>1, <2>3, Distribute
  <2>7. x = 0 => q * pool = 0
    BY <1>1, <2>2
  <2>8. /\ q * pool \in Nat
        /\ 2 * n * (q * pool) <= 2 * Scale * (pool * x) + pool * n
        /\ 2 * Scale * (pool * x) <= 2 * n * (q * pool) + pool * n
        /\ x = 0 => q * pool = 0
    BY <2>3, <2>4, <2>5, <2>6, <2>7, Zenon
  <2>. QED  BY <2>1, <2>8, Zenon DEF n, x
<1>3. CASE path = "baseline"
  <2>. DEFINE y == pool * x
  <2>1. Share(u) = Rounded(y, n) /\ n # 0
    BY <1>1, <1>3 DEF Share
  <2>. HIDE DEF n, x
  <2>2. y \in Nat /\ (pool = 0 => y = 0) /\ (x = 0 => y = 0)
    BY <1>1, ProductNat
  <2>. HIDE DEF y
  <2>3. /\ Rounded(y, n) \in Nat
        /\ 2 * n * Rounded(y, n) <= 2 * Scale * y + n
        /\ 2 * Scale * y <= 2 * n * Rounded(y, n) + n
        /\ y = 0 => Rounded(y, n) = 0
    BY <1>1, <2>2, RoundedBounds, RoundedZero
  <2>4. CASE pool = 0
    <3>1. Slack = 0 /\ y = 0 /\ Rounded(y, n) = 0
      BY <1>3, <2>2, <2>3, <2>4 DEF Slack
    <3>2. 2 * n * 0 = 0 /\ 2 * Scale * 0 = 0 /\ 0 * n = 0
      BY <1>1, ScalePositive
    <3>. QED  BY <2>1, <3>1, <3>2 DEF n, x, y
  <2>5. CASE pool # 0
    <3>1. Slack = 1 /\ Slack * n = n
      BY <1>1, <1>3, <2>5 DEF Slack
    <3>. QED  BY <2>1, <2>2, <2>3, <3>1 DEF n, x, y
  <2>. QED  BY <2>4, <2>5
<1>. QED  BY <1>2, <1>3 DEF Shaped

-----------------------------------------------------------------------------

(* The whole points of a share, as far from the exact share.               *)
LEMMA WholePoints ==
  ASSUME Shaped, pool <= cap, Network > 0, NEW u \in Users
  PROVE  /\ Whole[u] \in Nat
         /\ (2 * Network * Scale) * Whole[u] <= (2 * Scale * pool) * score[u] + Slack * Network
         /\ (2 * Scale * pool) * score[u] <=
              (2 * Network * Scale) * Whole[u] + (2 * Network * (Scale - 1) + Slack * Network)
         /\ score[u] = 0 => Whole[u] = 0
<1>. DEFINE n == Network
            x == score[u]
            s == Share(u)
            w == s \div Scale
            l == Slack * n
<1>1. n \in Nat \ {0} /\ x \in Nat /\ pool \in Nat /\ Scale \in Nat \ {0} /\ l \in Nat
  BY NetworkSums, SlackSmall, ScalePositive, ProductNat DEF Shaped
<1>2. /\ s \in Nat /\ (x = 0 => s = 0)
      /\ 2 * n * s <= 2 * Scale * (pool * x) + l
      /\ 2 * Scale * (pool * x) <= 2 * n * s + l
  BY ShareNear
<1>3. Whole[u] = w
  BY DEF Whole
<1>. HIDE DEF n, x, s, l
<1>4. w \in Nat /\ Scale * w <= s /\ s < Scale * w + Scale
  BY <1>1, <1>2, Quotient
<1>5. x = 0 => w = 0
  <2>1. CASE w >= 1
    <3>1. Scale * 1 <= Scale * w
      BY <1>1, <1>4, <2>1, ScaleUp
    <3>2. Scale * w \in Nat
      BY <1>1, <1>4, ProductNat
    <3>. QED  BY <1>1, <1>2, <1>4, <3>1, <3>2
  <2>. QED  BY <1>4, <2>1
<1>. HIDE DEF w
<1>6. Scale * w \in Nat /\ pool * x \in Nat /\ 2 * n \in Nat /\ 2 * Scale * (pool * x) \in Nat
  BY <1>1, <1>4, ProductNat
<1>7. (2 * n) * (Scale * w) <= (2 * n) * s
  BY <1>2, <1>4, <1>6, ScaleUp
<1>8. (2 * n) * s <= (2 * n) * (Scale * w + (Scale - 1))
  <2>1. s <= Scale * w + (Scale - 1)
    BY <1>1, <1>2, <1>4, <1>6
  <2>. QED  BY <1>1, <1>2, <1>6, <2>1, ScaleUp
<1>9. (2 * n) * (Scale * w + (Scale - 1)) = (2 * n) * (Scale * w) + (2 * n) * (Scale - 1)
  BY <1>1, <1>6, Distribute
<1>10. /\ (2 * n) * (Scale * w) = (2 * n * Scale) * w
       /\ 2 * Scale * (pool * x) = (2 * Scale * pool) * x
       /\ (2 * n) * s = 2 * n * s /\ (2 * n) * (Scale - 1) = 2 * n * (Scale - 1)
  BY <1>1, <1>2, <1>4
<1>11. /\ (2 * n) * (Scale * w) \in Nat /\ (2 * n) * s \in Nat /\ (2 * n) * (Scale - 1) \in Nat
  <2>1. Scale - 1 \in Nat
    BY <1>1
  <2>. QED  BY <1>2, <1>6, <2>1, ProductNat
<1>12. (2 * n * Scale) * w <= (2 * Scale * pool) * x + l
  BY <1>1, <1>2, <1>6, <1>7, <1>10, <1>11
<1>13. (2 * Scale * pool) * x <= (2 * n * Scale) * w + (2 * n * (Scale - 1) + l)
  BY <1>1, <1>2, <1>6, <1>8, <1>9, <1>10, <1>11
<1>. QED  BY <1>3, <1>4, <1>5, <1>12, <1>13 DEF n, x, l

(* All floors together: the rounding of every share adds up to less than   *)
(* a point (ScaleAssumption), so that they leave a whole number from 0 to  *)
(* the number of participants with a score.                                *)
LEMMA FloorsFit ==
  ASSUME Shaped, pool <= cap, Network > 0
  PROVE  /\ Total(Whole, Users) \in Nat
         /\ Total(Whole, Users) <= pool
         /\ pool - Total(Whole, Users) <= Cardinality(Positive)
<1>. DEFINE n == Network
            F == Total(Whole, Users)
            N == Cardinality(Users)
            P == Cardinality(Positive)
            l == Slack
<1>1. /\ n \in Nat \ {0} /\ pool \in Nat /\ Scale \in Nat \ {0} /\ l \in Nat
      /\ n = Total(score, Users) /\ l * N < 2 * Scale
  BY NetworkSums, SlackSmall, ScalePositive DEF Shaped
<1>2. IsFiniteSet(Users) /\ IsFiniteSet(Positive) /\ Positive \in SUBSET Users
  BY PoolAssumption, FS_Subset DEF Positive
<1>3. N \in Nat /\ P \in Nat /\ P <= N
  BY <1>2, FS_Subset, FS_CardinalityType
<1>4. F \in Nat
  BY <1>2, WholePoints, TotalNat
<1>5. (2 * n * Scale) * F <= (2 * Scale * pool) * n + (l * n) * N
  <2>1. 2 * n * Scale \in Int /\ 2 * Scale * pool \in Int /\ l * n \in Int
    BY <1>1
  <2>2. \A u \in Users : /\ Whole[u] \in Int /\ score[u] \in Int
                         /\ (2 * n * Scale) * Whole[u] <= (2 * Scale * pool) * score[u] + l * n
    BY WholePoints DEF Shaped
  <2>. HIDE DEF n, l, F, N
  <2>3. (2 * n * Scale) * Total(Whole, Users) <=
          (2 * Scale * pool) * Total(score, Users) + (l * n) * Cardinality(Users)
    BY <1>2, <2>1, <2>2, TotalLinear
  <2>. QED  BY <1>1, <2>3 DEF F, N
<1>6. (2 * Scale * pool) * n <= (2 * n * Scale) * F + (2 * n * (Scale - 1) + l * n) * P
  <2>1. 2 * n * Scale \in Int /\ 2 * Scale * pool \in Int /\ 2 * n * (Scale - 1) + l * n \in Int
    BY <1>1
  <2>2. \A u \in Positive :
          /\ Whole[u] \in Int /\ score[u] \in Int
          /\ (2 * Scale * pool) * score[u] <=
               (2 * n * Scale) * Whole[u] + (2 * n * (Scale - 1) + l * n)
    BY WholePoints DEF Shaped, Positive
  <2>3. Total(Whole, Users) = Total(Whole, Positive) /\ Total(score, Users) = Total(score, Positive)
    <3>1. /\ \A u \in Users : Whole[u] \in Int /\ score[u] \in Int
          /\ \A u \in Users \ Positive : Whole[u] = 0 /\ score[u] = 0
      BY WholePoints DEF Shaped, Positive
    <3>. QED  BY <1>2, <3>1, TotalSupport
  <2>. HIDE DEF n, l, F, P
  <2>4. (2 * Scale * pool) * Total(score, Positive) <=
          (2 * n * Scale) * Total(Whole, Positive)
            + (2 * n * (Scale - 1) + l * n) * Cardinality(Positive)
    BY <1>2, <2>1, <2>2, TotalLinear
  <2>. QED  BY <1>1, <2>3, <2>4 DEF F, P
<1>. HIDE DEF n, F, N, P, l
(* Divided by the network. *)
<1>7. (2 * Scale) * F <= (2 * Scale) * pool + l * N
  <2>1. (2 * n * Scale) * F = n * ((2 * Scale) * F)
    BY <1>1, <1>4
  <2>2. (2 * Scale * pool) * n + (l * n) * N = n * ((2 * Scale) * pool + l * N)
    <3>1. (2 * Scale * pool) * n = n * ((2 * Scale) * pool) /\ (l * n) * N = n * (l * N)
      BY <1>1, <1>3
    <3>. QED  BY <1>1, <1>3, <3>1, Distribute
  <2>3. (2 * Scale) * F \in Int /\ (2 * Scale) * pool + l * N \in Int
    BY <1>1, <1>3, <1>4
  <2>. QED  BY <1>1, <1>5, <2>1, <2>2, <2>3, CancelLeft
<1>8. F <= pool
  <2>1. CASE pool + 1 <= F
    <3>1. (2 * Scale) * (pool + 1) <= (2 * Scale) * F
      BY <1>1, <1>4, <2>1, ScaleUp
    <3>2. (2 * Scale) * (pool + 1) = (2 * Scale) * pool + 2 * Scale
      BY <1>1
    <3>3. (2 * Scale) * pool \in Int /\ (2 * Scale) * F \in Int /\ l * N \in Int
      BY <1>1, <1>3, <1>4
    <3>. QED  BY <1>1, <1>7, <3>1, <3>2, <3>3
  <2>. QED  BY <1>1, <1>4, <2>1
<1>9. (2 * Scale) * pool <= (2 * Scale) * F + ((2 * (Scale - 1)) * P + l * P)
  <2>1. (2 * Scale * pool) * n = n * ((2 * Scale) * pool)
    BY <1>1
  <2>2. (2 * n * Scale) * F + (2 * n * (Scale - 1) + l * n) * P
          = n * ((2 * Scale) * F + ((2 * (Scale - 1)) * P + l * P))
    <3>1. (2 * n * Scale) * F = n * ((2 * Scale) * F)
      BY <1>1, <1>4
    <3>2. (2 * n * (Scale - 1) + l * n) * P = n * ((2 * (Scale - 1)) * P + l * P)
      <4>1. 2 * n * (Scale - 1) + l * n = n * (2 * (Scale - 1) + l)
        <5>1. 2 * n * (Scale - 1) = n * (2 * (Scale - 1)) /\ l * n = n * l
          BY <1>1
        <5>. QED  BY <1>1, <5>1, Distribute
      <4>2. (n * (2 * (Scale - 1) + l)) * P = n * ((2 * (Scale - 1) + l) * P)
        BY <1>1, <1>3
      <4>3. (2 * (Scale - 1) + l) * P = (2 * (Scale - 1)) * P + l * P
        BY <1>1, <1>3
      <4>. QED  BY <4>1, <4>2, <4>3
    <3>3. (2 * Scale) * F \in Int /\ (2 * (Scale - 1)) * P + l * P \in Int
      BY <1>1, <1>3, <1>4
    <3>. QED  BY <1>1, <3>1, <3>2, <3>3, Distribute
  <2>3. (2 * Scale) * pool \in Int /\ (2 * Scale) * F + ((2 * (Scale - 1)) * P + l * P) \in Int
    BY <1>1, <1>3, <1>4
  <2>. QED  BY <1>1, <1>6, <2>1, <2>2, <2>3, CancelLeft
<1>10. pool - F <= P
  <2>1. CASE F + P + 1 <= pool
    <3>1. (2 * Scale) * (F + P + 1) <= (2 * Scale) * pool
      BY <1>1, <1>3, <1>4, <2>1, ScaleUp
    <3>2. (2 * Scale) * (F + P + 1) = (2 * Scale) * F + (2 * Scale) * P + 2 * Scale
      BY <1>1, <1>3, <1>4
    <3>3. (2 * (Scale - 1)) * P = (2 * Scale) * P - 2 * P
      BY <1>1, <1>3
    <3>4. l * P <= l * N
      BY <1>1, <1>3, ScaleUp
    <3>5. /\ (2 * Scale) * pool \in Int /\ (2 * Scale) * F \in Int /\ (2 * Scale) * P \in Int
          /\ l * P \in Int /\ l * N \in Int
      BY <1>1, <1>3, <1>4
    <3>. QED  BY <1>1, <1>3, <1>9, <3>1, <3>2, <3>3, <3>4, <3>5
  <2>. QED  BY <1>1, <1>3, <1>4, <2>1
<1>. QED  BY <1>4, <1>8, <1>10 DEF F, P

-----------------------------------------------------------------------------

Chosen == IF path = "fixed" THEN cap ELSE EffectivePool

(* One more point goes first to those whom the order puts first. *)
InOrder ==
  /\ bonus \subseteq Positive
  /\ \A v \in bonus, u \in Positive \ bonus : Before(v, u)
  /\ bonus # {} => pool > 0

(* The pool is its protocol's and within the scheduled one; the floors are *)
(* those of the shares; what remains to be handed out is never negative,   *)
(* and nothing at the end.                                                 *)
PoolInv ==
  /\ Shaped
  /\ floor \in [Users -> Nat]
  /\ pc \in {"pool", "floor", "bonus", "done", "refused"}
  /\ pc \in {"pool", "floor"} => bonus = {}
  /\ pc \in {"floor", "bonus", "done"} => pool = Chosen /\ pool <= cap
  /\ pc \in {"bonus", "done"} => floor = Whole /\ InOrder
  /\ pc = "bonus" => Remaining >= 0
  /\ pc = "done" /\ Network > 0 => Distributed = pool
  /\ pc = "refused" => FloorPoints # 0

(* An empty network has no shares.                                         *)
LEMMA WholeType ==
  ASSUME Shaped, pool <= cap
  PROVE  /\ Whole \in [Users -> Nat]
         /\ Network = 0 => Total(Whole, Users) = 0
<1>1. Network \in Nat /\ Scale \in Nat \ {0}
  BY NetworkSums, ScalePositive
<1>2. CASE Network > 0
  <2>1. \A u \in Users : Whole[u] \in Nat
    BY <1>2, WholePoints
  <2>. QED  BY <1>2, <2>1 DEF Whole
<1>3. CASE Network = 0
  <2>1. 0 \div Scale = 0
    BY <1>1
  <2>2. Whole = [u \in Users |-> 0]
    BY <1>3, <2>1 DEF Whole, Share
  <2>3. Total(Whole, Users) = Total(Whole, {})
    <3>1. IsFiniteSet(Users) /\ {} \in SUBSET Users /\ \A u \in Users : Whole[u] = 0
      BY <2>2, PoolAssumption
    <3>. HIDE DEF Whole
    <3>2. /\ \A u \in Users : Whole[u] \in Int
          /\ \A u \in Users \ {} : Whole[u] = 0
      BY <3>1
    <3>. QED  BY <3>1, <3>2, TotalSupport
  <2>. QED  BY <2>2, <2>3, TotalEmpty
<1>. QED  BY <1>1, <1>2, <1>3

(* What was handed out, and what remains.                                  *)
LEMMA DistributedSums ==
  ASSUME Shaped, floor \in [Users -> Nat], bonus \subseteq Users
  PROVE  /\ SumFunction(floor) = Total(floor, Users) /\ Total(floor, Users) \in Nat
         /\ Cardinality(bonus) \in Nat /\ IsFiniteSet(bonus)
         /\ Distributed = Total(floor, Users) + Cardinality(bonus)
<1>1. IsFiniteSet(Users) /\ IsFiniteSet(bonus)
  BY PoolAssumption, FS_Subset
<1>2. SumFunction(floor) = Total(floor, Users) /\ Total(floor, Users) \in Nat
  BY <1>1, SumIsTotal, TotalNat
<1>3. Distributed = Total(Points, Users)
  BY SumIsTotal DEF Distributed, Points
<1>4. \A u \in Users : floor[u] \in Int /\ Points[u] = floor[u] + (IF u \in bonus THEN 1 ELSE 0)
  BY DEF Points
<1>5. Total(Points, Users) = Total(floor, Users) + Cardinality(bonus)
  BY <1>1, <1>4, TotalMarked
<1>. QED  BY <1>1, <1>2, <1>3, <1>5, FS_CardinalityType

LEMMA RemainingSums ==
  ASSUME Shaped, floor \in [Users -> Nat], bonus \subseteq Users
  PROVE  /\ Remaining \in Int
         /\ Remaining > 0 => pool > 0
         /\ path = "baseline" \/ Network > 0 => Remaining = pool - Distributed
         /\ path = "fixed" /\ Network = 0 => Remaining = 0
<1>. DEFINE F == Total(floor, Users)
            B == Cardinality(bonus)
<1>1. SumFunction(floor) = F /\ F \in Nat /\ B \in Nat /\ Distributed = F + B
  BY DistributedSums
<1>2. pool \in Nat /\ path \in {"fixed", "baseline"} /\ Network \in Nat
  BY NetworkSums DEF Shaped
<1>. HIDE DEF F
<1>3. Remaining = IF path = "fixed" /\ Network = 0 THEN 0 ELSE pool - F - B
  BY <1>1 DEF Remaining
<1>. HIDE DEF B
<1>. QED  BY <1>1, <1>2, <1>3

LEMMA InitPool == Init => PoolInv
<1>. SUFFICES ASSUME Init PROVE PoolInv
  OBVIOUS
<1>1. score \in [Users -> Nat] /\ cap \in 0 .. MaxCap /\ baseline \in Nat \ {0}
  BY PoolAssumption DEF Init
<1>. QED  BY <1>1 DEF Init, PoolInv, Shaped

LEMMA ChoosesPool == PoolInv /\ ChoosePool => PoolInv'
<1>. SUFFICES ASSUME PoolInv, ChoosePool PROVE PoolInv'
  OBVIOUS
<1>1. Shaped /\ pool' = Chosen /\ cap \in Nat
  BY DEF PoolInv, ChoosePool, Chosen, Shaped
<1>2. EffectivePool \in Nat /\ (FloorPoints = 0 => EffectivePool <= cap)
  BY <1>1, EffectivePoolBounds
<1>3. Chosen \in Nat
  BY <1>1, <1>2 DEF Chosen
<1>4. Shaped' /\ Chosen' = Chosen /\ Network' = Network
  BY <1>1, <1>3 DEF ChoosePool, Shaped, Chosen, EffectivePool, Network
<1>5. pc' \in {"floor", "refused"}
  BY DEF ChoosePool
<1>6. pc' = "floor" => Chosen <= cap
  BY <1>1, <1>2 DEF ChoosePool, Chosen, Shaped
<1>7. pc' = "refused" => FloorPoints # 0
  BY <1>1, <1>2 DEF ChoosePool
<1>. QED  BY <1>1, <1>4, <1>5, <1>6, <1>7 DEF PoolInv, ChoosePool

LEMMA FloorsShares == PoolInv /\ FloorShares => PoolInv'
<1>. SUFFICES ASSUME PoolInv, FloorShares PROVE PoolInv'
  OBVIOUS
<1>1. Shaped /\ pool <= cap /\ pool = Chosen /\ bonus = {} /\ bonus' = {}
  BY DEF PoolInv, FloorShares
<1>2. /\ floor' = Whole /\ Whole' = Whole /\ Chosen' = Chosen /\ Network' = Network
      /\ Shaped' /\ pc' = "bonus"
  BY <1>1 DEF FloorShares, Whole, Share, Network, Chosen, EffectivePool, Shaped
<1>3. Whole \in [Users -> Nat]
  BY <1>1, WholeType
<1>4. InOrder'
  BY <1>1 DEF InOrder
<1>5. Remaining' >= 0
  <2>1. DOMAIN Whole = Users
    BY DEF Whole
  <2>2. Remaining' = IF path = "fixed" /\ Network = 0 THEN 0 ELSE pool - Total(Whole, Users) - 0
    <3>1. SumFunction(floor') = Total(Whole, Users) /\ Cardinality(bonus') = 0
      BY <1>1, <1>2, <2>1, SumIsTotal, FS_EmptySet
    <3>. QED  BY <1>2, <3>1 DEF Remaining, FloorShares
  <2>3. Network \in Nat /\ pool \in Nat
    BY <1>1, NetworkSums DEF Shaped
  <2>4. CASE Network = 0
    BY <1>1, <2>2, <2>3, <2>4, WholeType
  <2>5. CASE Network > 0
    BY <1>1, <2>2, <2>3, <2>5, FloorsFit
  <2>. QED  BY <2>3, <2>4, <2>5
<1>. QED  BY <1>1, <1>2, <1>3, <1>4, <1>5 DEF PoolInv, FloorShares

LEMMA GivesOne == PoolInv /\ GiveOne => PoolInv'
<1>. SUFFICES ASSUME PoolInv, GiveOne PROVE PoolInv'
  OBVIOUS
<1>1. /\ Shaped /\ pool <= cap /\ pool = Chosen /\ floor = Whole /\ InOrder
      /\ floor \in [Users -> Nat] /\ Remaining > 0 /\ pc' = "bonus"
  BY DEF PoolInv, GiveOne
<1>2. PICK w \in Candidates : /\ \A v \in Candidates \ {w} : Before(w, v)
                              /\ bonus' = bonus \cup {w}
  BY DEF GiveOne
<1>3. /\ UNCHANGED <<path, score, cap, baseline, pool, floor>>
      /\ Whole' = Whole /\ Chosen' = Chosen /\ Network' = Network /\ Shaped'
      /\ Positive' = Positive
      /\ \A u, v : Before(u, v)' = Before(u, v)
  BY <1>1 DEF GiveOne, Whole, Share, Network, Chosen, EffectivePool, Shaped, Positive,
              Before, Remainder
<1>4. bonus \subseteq Users /\ w \in Users /\ w \notin bonus
  BY <1>1, <1>2 DEF InOrder, Positive, Candidates
<1>5. pool > 0
  BY <1>1, <1>4, RemainingSums
<1>6. InOrder'
  <2>1. bonus' \subseteq Positive
    BY <1>1, <1>2 DEF InOrder, Candidates, Positive
  <2>2. ASSUME NEW v \in bonus', NEW u \in Positive \ bonus' PROVE Before(v, u)
    BY <1>1, <1>2 DEF InOrder, Candidates, Positive
  <2>. QED  BY <1>3, <1>5, <2>1, <2>2 DEF InOrder
<1>7. Remaining' >= 0
  <2>1. IsFiniteSet(bonus) /\ Cardinality(bonus) \in Nat /\ SumFunction(floor) \in Nat
    BY <1>1, <1>4, DistributedSums
  <2>2. Cardinality(bonus') = Cardinality(bonus) + 1
    BY <1>2, <1>4, <2>1, FS_AddElement
  <2>3. pool \in Nat
    BY <1>1 DEF Shaped
  <2>. QED  BY <1>1, <1>3, <2>1, <2>2, <2>3 DEF Remaining
<1>. QED  BY <1>1, <1>3, <1>6, <1>7 DEF PoolInv

LEMMA Finishes == PoolInv /\ Finish => PoolInv'
<1>. SUFFICES ASSUME PoolInv, Finish PROVE PoolInv'
  OBVIOUS
<1>1. /\ Shaped /\ pool <= cap /\ pool = Chosen /\ floor = Whole /\ InOrder
      /\ floor \in [Users -> Nat] /\ Remaining >= 0 /\ pc' \in {"done", "refused"}
  BY DEF PoolInv, Finish
<1>2. /\ UNCHANGED <<path, score, cap, baseline, pool, floor, bonus>>
      /\ Whole' = Whole /\ Chosen' = Chosen /\ Network' = Network /\ Shaped'
      /\ InOrder' = InOrder /\ Distributed' = Distributed
  BY <1>1 DEF Finish, Whole, Share, Network, Chosen, EffectivePool, Shaped, Positive,
              Before, Remainder, InOrder, Distributed, Points
<1>3. bonus \subseteq Users /\ Network \in Nat /\ pool \in Nat /\ path \in {"fixed", "baseline"}
  BY <1>1, NetworkSums DEF InOrder, Positive, Shaped
<1>4. Distributed \in Nat
  BY <1>1, <1>3, DistributedSums
<1>5. Network > 0 => Distributed = pool
  <2>. SUFFICES ASSUME Network > 0 PROVE Distributed = pool
    OBVIOUS
  <2>1. Remaining = pool - Distributed
    BY <1>1, <1>3, RemainingSums
  <2>2. CASE Remaining <= 0
    BY <1>1, <1>3, <1>4, <2>1, <2>2
  <2>3. CASE Candidates = {}
    <3>1. bonus = Positive
      BY <1>1, <2>3 DEF Candidates, Positive, InOrder
    <3>2. Distributed = Total(floor, Users) + Cardinality(Positive)
      BY <1>1, <1>3, <3>1, DistributedSums
    <3>3. /\ Total(floor, Users) \in Nat
          /\ pool - Total(floor, Users) <= Cardinality(Positive)
      BY <1>1, FloorsFit
    <3>4. Cardinality(Positive) \in Nat
      BY <1>1, <1>3, <3>1, DistributedSums
    <3>. QED  BY <1>1, <1>3, <1>4, <2>1, <3>2, <3>3, <3>4
  <2>. QED  BY <2>2, <2>3 DEF Finish
<1>6. ASSUME FloorPoints = 0, path = "baseline" PROVE Distributed = pool
  <2>1. CASE Network > 0
    BY <1>5, <2>1
  <2>2. CASE Network = 0
    <3>1. pool = 0
      BY <1>1, <1>6, <2>2, EffectivePoolBounds DEF Chosen
    <3>2. Remaining = 0 - Distributed
      BY <1>1, <1>3, <1>6, <3>1, RemainingSums
    <3>. QED  BY <1>1, <1>4, <3>1, <3>2
  <2>. QED  BY <1>3, <2>1, <2>2
<1>7. pc' = "refused" => FloorPoints # 0
  BY <1>6 DEF Finish
<1>. QED  BY <1>1, <1>2, <1>5, <1>7 DEF PoolInv

LEMMA NextPool == PoolInv /\ [Next]_vars => PoolInv'
<1>. SUFFICES ASSUME PoolInv, [Next]_vars PROVE PoolInv'
  OBVIOUS
<1>1. CASE UNCHANGED vars
  BY <1>1 DEF PoolInv, vars, Shaped, Chosen, EffectivePool, Network, Whole, Share, InOrder,
              Positive, Before, Remainder, Remaining, Distributed, Points
<1>. QED  BY <1>1, ChoosesPool, FloorsShares, GivesOne, Finishes DEF Next

-----------------------------------------------------------------------------

(* Allocations always sum to exactly the pool, whichever way each quotient *)
(* was rounded: no points are minted or lost by the division.              *)
THEOREM PoolIsSpent == Spec => []SumsToPool
<1>1. PoolInv => SumsToPool
  BY DEF PoolInv, SumsToPool
<1>. QED  BY <1>1, InitPool, NextPool, PTL DEF Spec

(* The effective pool never exceeds the scheduled one, and a day below the *)
(* baseline is never paid a whole point more than its part of it.          *)
THEOREM PoolWithinScheduled == Spec => []WithinScheduled
<1>1. PoolInv => WithinScheduled
  <2>. SUFFICES ASSUME PoolInv, path = "baseline", pc \in {"floor", "bonus", "done"}
                PROVE  /\ pool <= cap
                       /\ (pool - FloorPoints - 1) * baseline < cap * Min({Network, baseline})
    BY DEF WithinScheduled
  <2>1. Shaped /\ pool <= cap /\ pool = EffectivePool
    BY DEF PoolInv, Chosen
  <2>. QED  BY <2>1, EffectivePoolBounds
<1>. QED  BY <1>1, InitPool, NextPool, PTL DEF Spec

(* With nothing promised below the baseline, rounding never makes the SQL  *)
(* path refuse an epoch.                                                   *)
THEOREM EpochNeverRefused == Spec => []NeverRefused
<1>1. PoolInv => NeverRefused
  BY DEF PoolInv, NeverRefused
<1>. QED  BY <1>1, InitPool, NextPool, PTL DEF Spec

(* Rounding keeps the order of scores.                                     *)
LEMMA SharesFollowScores ==
  ASSUME Shaped, NEW u \in Users, NEW v \in Users, score[u] > score[v]
  PROVE  /\ Network > 0
         /\ Share(v) \in Nat /\ Share(u) \in Nat
         /\ Share(v) <= Share(u)
<1>1. /\ score[u] \in Nat /\ score[v] \in Nat /\ pool \in Nat
      /\ Network \in Nat /\ score[u] <= Network
  BY NetworkSums DEF Shaped
<1>2. Network \in Nat \ {0}
  BY <1>1
<1>3. CASE path = "fixed"
  <2>1. Rounded(score[v], Network) <= Rounded(score[u], Network)
    BY <1>1, <1>2, RoundedMonotone
  <2>2. Rounded(score[v], Network) \in Nat /\ Rounded(score[u], Network) \in Nat
    BY <1>1, <1>2, RoundedBounds
  <2>3. pool * Rounded(score[v], Network) <= pool * Rounded(score[u], Network)
    BY <1>1, <2>1, <2>2, ScaleUp
  <2>4. /\ Share(v) = pool * Rounded(score[v], Network)
        /\ Share(u) = pool * Rounded(score[u], Network)
    BY <1>1, <1>2, <1>3, <2>2 DEF Share
  <2>. QED  BY <1>1, <1>2, <2>2, <2>3, <2>4, ProductNat
<1>4. CASE path = "baseline"
  <2>. DEFINE y == pool * score[v]
              z == pool * score[u]
  <2>1. y <= z
    BY <1>1, ScaleUp
  <2>2. y \in Nat /\ z \in Nat
    BY <1>1, ProductNat
  <2>3. Share(v) = Rounded(y, Network) /\ Share(u) = Rounded(z, Network)
    BY <1>2, <1>4 DEF Share
  <2>. HIDE DEF y, z
  <2>. QED  BY <1>2, <2>1, <2>2, <2>3, RoundedMonotone, RoundedBounds
<1>. QED  BY <1>3, <1>4 DEF Shaped

(* A smaller remainder, or an equal one of a smaller score, comes later. *)
LEMMA OrderFollowsScores ==
  ASSUME Shaped, pool > 0, NEW u \in Users, NEW v \in Users, score[u] > score[v],
         floor = Whole, floor[u] = floor[v]
  PROVE  ~Before(v, u)
<1>1. /\ score[u] \in Nat /\ score[v] \in Nat /\ pool \in Nat \ {0}
      /\ Network \in Nat /\ Scale \in Nat \ {0}
  BY NetworkSums, ScalePositive DEF Shaped
<1>2. CASE path = "fixed"
  <2>. DEFINE s == Share(u)
              t == Share(v)
  <2>1. s \in Nat /\ t \in Nat /\ t <= s
    BY SharesFollowScores
  <2>2. s \div Scale = t \div Scale
    BY DEF Whole
  <2>. HIDE DEF s, t
  <2>3. /\ s % Scale = s - Scale * (s \div Scale)
        /\ t % Scale = t - Scale * (t \div Scale)
        /\ Scale * (s \div Scale) \in Int
    BY <1>1, <2>1
  <2>4. t % Scale <= s % Scale
    <3>. DEFINE k == Scale * (s \div Scale)
    <3>1. k \in Int /\ s % Scale = s - k /\ t % Scale = t - k
      BY <2>2, <2>3
    <3>. HIDE DEF k
    <3>. QED  BY <2>1, <3>1
  <2>5. Remainder(u) = s % Scale /\ Remainder(v) = t % Scale
    BY <1>2 DEF Remainder, s, t
  <2>6. s % Scale \in Int /\ t % Scale \in Int
    BY <1>1, <2>1
  <2>7. /\ ~(Remainder(v) > Remainder(u))
    BY <2>4, <2>5, <2>6
  <2>8. ~(score[v] > score[u]) /\ score[v] # score[u]
    BY <1>1
  <2>. QED  BY <1>2, <2>7, <2>8 DEF Before
<1>3. CASE path = "baseline"
  <2>1. pool * (score[v] + 1) <= pool * score[u]
    BY <1>1, ScaleUp
  <2>2. pool * (score[v] + 1) = pool * score[v] + pool
    BY <1>1
  <2>3. pool * score[v] \in Int /\ pool * score[u] \in Int
    BY <1>1
  <2>4. pool * score[v] < pool * score[u]
    BY <1>1, <2>1, <2>2, <2>3
  <2>5. floor[u] \in Int
    <3>1. Network > 0
      BY SharesFollowScores
    <3>2. Share(u) \in Nat /\ floor[u] = Share(u) \div Scale
      BY SharesFollowScores DEF Whole
    <3>. QED  BY <1>1, <3>2
  <2>6. floor[u] * Network \in Int
    BY <1>1, <2>5
  <2>7. /\ Remainder(v) = pool * score[v] - floor[u] * Network
        /\ Remainder(u) = pool * score[u] - floor[u] * Network
    BY <1>3 DEF Remainder
  <2>8. ~(Remainder(v) > Remainder(u)) /\ Remainder(v) # Remainder(u)
    BY <2>3, <2>4, <2>6, <2>7
  <2>. QED  BY <2>8 DEF Before
<1>. QED  BY <1>2, <1>3 DEF Shaped

(* More compute is never paid less, whatever the order of the remainders.  *)
THEOREM MoreScoreMorePoints == Spec => []MoreScoreNeverLess
<1>1. PoolInv => MoreScoreNeverLess
  <2>. SUFFICES ASSUME PoolInv, pc = "done", NEW u \in Users, NEW v \in Users,
                       score[u] > score[v]
                PROVE  Points[u] >= Points[v]
    BY DEF MoreScoreNeverLess
  <2>1. /\ Shaped /\ pool <= cap /\ floor = Whole /\ InOrder
        /\ floor[u] \in Nat /\ floor[v] \in Nat
    BY DEF PoolInv
  <2>2. floor[v] <= floor[u]
    <3>1. Share(v) \div Scale <= Share(u) \div Scale
      BY <2>1, SharesFollowScores, ScalePositive, QuotientMonotone
    <3>. QED  BY <2>1, <3>1 DEF Whole
  <2>3. /\ Points[u] = floor[u] + (IF u \in bonus THEN 1 ELSE 0)
        /\ Points[v] = floor[v] + (IF v \in bonus THEN 1 ELSE 0)
    BY DEF Points
  <2>4. CASE floor[u] = floor[v] /\ v \in bonus
    <3>1. u \in Positive
      BY <2>1 DEF Shaped, Positive
    <3>2. ~Before(v, u)
      BY <2>1, <2>4, OrderFollowsScores DEF InOrder
    <3>3. u \in bonus
      BY <2>1, <2>4, <3>1, <3>2 DEF InOrder
    <3>. QED  BY <2>1, <2>3, <2>4, <3>3
  <2>5. CASE floor[u] = floor[v] /\ v \notin bonus
    BY <2>1, <2>3, <2>5
  <2>6. CASE floor[u] # floor[v]
    BY <2>1, <2>2, <2>3, <2>6
  <2>. QED  BY <2>4, <2>5, <2>6
<1>. QED  BY <1>1, InitPool, NextPool, PTL DEF Spec

(* Nobody is more than a point from the exact share, beyond what rounding  *)
(* that share may add.                                                     *)
THEOREM PointsWithinOne == Spec => []WithinOnePoint
<1>1. PoolInv => WithinOnePoint
  <2>. SUFFICES ASSUME PoolInv, pc = "done", Network > 0, NEW u \in Users
                PROVE  LET off == 2 * Scale * (Points[u] * Network - pool * score[u])
                           bound == (2 * Scale + cap) * Network
                       IN  -bound <= off /\ off <= bound
    BY DEF WithinOnePoint
  <2>1. Shaped /\ pool <= cap /\ floor = Whole
    BY DEF PoolInv
  <2>. DEFINE n == Network
              x == score[u]
              w == Whole[u]
              p == Points[u]
              l == Slack
              a == (2 * n * Scale) * w
              b == (2 * Scale * pool) * x
  <2>2. /\ n \in Nat /\ x \in Nat /\ pool \in Nat /\ cap \in Nat /\ Scale \in Nat \ {0}
        /\ l \in Nat /\ l <= cap
    BY <2>1, NetworkSums, SlackSmall, ScalePositive DEF Shaped
  <2>3. /\ w \in Nat /\ a <= b + l * n
        /\ b <= a + (2 * n * (Scale - 1) + l * n)
    BY <2>1, WholePoints
  <2>4. p = w \/ p = w + 1
    BY <2>1, <2>3 DEF Points
  <2>. HIDE DEF n, x, w, p, l
  <2>5. a \in Nat /\ b \in Nat /\ l * n \in Nat /\ cap * n \in Nat /\ n * Scale \in Nat
    <3>1. 2 * n * Scale \in Nat /\ 2 * Scale * pool \in Nat
      BY <2>2, ProductNat
    <3>. QED  BY <2>2, <2>3, <3>1, ProductNat
  <2>6. 2 * Scale * (p * n - pool * x) = (2 * n * Scale) * p - b
    <3>1. p \in Int
      BY <2>3, <2>4
    <3>. QED  BY <2>2, <3>1
  <2>7. (2 * n * Scale) * (w + 1) = a + 2 * (n * Scale)
    BY <2>2, <2>3
  <2>8. (2 * Scale + cap) * n = 2 * (n * Scale) + cap * n
    BY <2>2
  <2>9. n * l <= n * cap /\ n * l = l * n /\ n * cap = cap * n
    BY <2>2, ScaleUp
  <2>10. 2 * n * (Scale - 1) = 2 * (n * Scale) - 2 * n
    BY <2>2
  <2>. HIDE DEF a, b
  <2>. DEFINE off == 2 * Scale * (p * n - pool * x)
              k == n * Scale
              c == cap * n
              d == l * n
  <2>11. /\ off = a - b \/ off = (a + 2 * k) - b
    <3>1. off = (2 * n * Scale) * p - b
      BY <2>6 DEF off
    <3>2. CASE p = w
      BY <3>1, <3>2, Zenon DEF a
    <3>3. CASE p = w + 1
      BY <2>7, <3>1, <3>3, Zenon DEF k
    <3>. QED  BY <2>4, <3>2, <3>3
  <2>12. a <= b + d /\ b <= a + (2 * k - 2 * n + d) /\ d <= c
    BY <2>3, <2>9, <2>10 DEF a, b
  <2>13. (2 * Scale + cap) * n = 2 * k + c
    BY <2>8
  <2>14. a \in Nat /\ b \in Nat /\ c \in Nat /\ d \in Nat /\ k \in Nat /\ n \in Nat
    BY <2>2, <2>5
  <2>. HIDE DEF off, k, c, d
  <2>15. -(2 * k + c) <= off /\ off <= 2 * k + c
    BY <2>11, <2>12, <2>14
  <2>. QED  BY <2>13, <2>15 DEF off, n, x, p
<1>. QED  BY <1>1, InitPool, NextPool, PTL DEF Spec
===============================================================================
