---------------------------- MODULE PoolAllocation -----------------------------
(***************************************************************************)
(* How an epoch's pool becomes whole points: largest remainder, written    *)
(* once in TypeScript over doubles (allocateEpochRewards, the fixed pool)  *)
(* and once in SQL over numerics (settle_beta_v2_epoch, baseline-linear).  *)
(*                                                                         *)
(* Neither quotient is exact.  A double share is rounded before it is      *)
(* multiplied by the pool; a SQL numeric quotient is rounded to its scale  *)
(* before floor sees it.  Both are rounded here to a grid of Scale steps,  *)
(* a small number where the code has 10^15 or more, so that a floor that   *)
(* comes out one too high or too low, rare there, is common here.  All     *)
(* that is kept of the real Scale is that the participants' errors add up  *)
(* to less than a point (ScaleAssumption).                                 *)
(***************************************************************************)
EXTENDS Integers, FiniteSets, FiniteSetsExt, Functions

CONSTANTS
  Users,        \* participants, numbered in the order of their user ids
  MaxScore,     \* bound on a score
  MaxCap,       \* bound on the scheduled pool
  MaxBaseline,  \* bound on the baseline
  FloorPoints,  \* floor_points of the protocol version
  Scale         \* steps of the rounding grid per point

ASSUME PoolAssumption ==
  /\ Users \subseteq Nat /\ IsFiniteSet(Users)
  /\ MaxScore \in Nat /\ MaxCap \in Nat /\ MaxBaseline \in Nat \ {0}
  /\ FloorPoints \in Nat

ASSUME ScaleAssumption ==
  Scale \in Nat /\ 2 * Scale > MaxCap * Cardinality(Users)

VARIABLES
  path,      \* "fixed" (TypeScript) or "baseline" (SQL)
  score,     \* the participants' scores
  cap,       \* scheduled points of the epoch
  baseline,  \* baseline compute of the epoch
  pool,      \* points to hand out
  floor,     \* whole points of each share
  bonus,     \* participants given one point of the remainder
  pc

vars == <<path, score, cap, baseline, pool, floor, bonus, pc>>

Network == SumFunction(score)
Points == [u \in Users |-> floor[u] + IF u \in bonus THEN 1 ELSE 0]
Distributed == SumFunction(Points)

Init ==
  /\ path \in {"fixed", "baseline"}
  /\ score \in [Users -> 0 .. MaxScore]
  /\ cap \in 0 .. MaxCap
  /\ baseline \in IF path = "fixed" THEN {1} ELSE 1 .. MaxBaseline
  /\ pool = 0
  /\ floor = [u \in Users |-> 0]
  /\ bonus = {}
  /\ pc = "pool"

-----------------------------------------------------------------------------
(* Quotients.                                                              *)

(* a / b rounded to the grid, in steps. *)
Rounded(a, b) == (2 * Scale * a + b) \div (2 * b)

(* floor(cap * least(network, baseline) / baseline) + floor_points.        *)
EffectivePool ==
  Rounded(cap * Min({Network, baseline}), baseline) \div Scale + FloorPoints

(* A share of the pool, in steps: share * pool over doubles,               *)
(* (effective * pico / network) over numerics.  Nobody shares an empty     *)
(* network.  (Mutants: the pool split evenly; of the scheduled pool.)      *)
EvenShare(u) == Rounded(1, Cardinality(Users)) * pool

ShareOfScheduled(u) ==
  IF Network = 0 THEN 0 ELSE Rounded(cap * score[u], Network)

Share(u) ==
  IF Network = 0 THEN 0
  ELSE IF path = "fixed" THEN Rounded(score[u], Network) * pool
  ELSE Rounded(pool * score[u], Network)

-----------------------------------------------------------------------------
(* Steps.                                                                  *)

(* The pool: the protocol's emission, or its effective part, which must    *)
(* not exceed it.  Then the whole points of every share.                   *)
(* (Mutant: the scheduled pool under either protocol.)                     *)
ChooseScheduled ==
  /\ pc = "pool"
  /\ pool' = cap
  /\ pc' = "floor"
  /\ UNCHANGED <<path, score, cap, baseline, floor, bonus>>

ChoosePool ==
  /\ pc = "pool"
  /\ pool' = IF path = "fixed" THEN cap ELSE EffectivePool
  /\ pc' = IF path = "baseline" /\ EffectivePool > cap THEN "refused" ELSE "floor"
  /\ UNCHANGED <<path, score, cap, baseline, floor, bonus>>

(* (Mutant: shares rounded to the nearest point.)                          *)
RoundShares ==
  /\ pc = "floor"
  /\ floor' = [u \in Users |-> (2 * Share(u) + Scale) \div (2 * Scale)]
  /\ pc' = "bonus"
  /\ UNCHANGED <<path, score, cap, baseline, pool, bonus>>

FloorShares ==
  /\ pc = "floor"
  /\ floor' = [u \in Users |-> Share(u) \div Scale]
  /\ pc' = "bonus"
  /\ UNCHANGED <<path, score, cap, baseline, pool, bonus>>

Remaining ==
  IF path = "fixed" /\ Network = 0 THEN 0
  ELSE pool - SumFunction(floor) - Cardinality(bonus)

Candidates == {u \in Users : score[u] > 0} \ bonus

(* What the floor leaves of a share.  SQL computes it exactly, over the    *)
(* network, from a floor that may be rounded up: it can be negative.       *)
Remainder(u) ==
  IF path = "fixed" THEN Share(u) % Scale
  ELSE pool * score[u] - floor[u] * Network

(* The larger remainder comes first; equal ones by score (TypeScript       *)
(* only), then by user id.  (Mutant: by user id.)                          *)
ById(u, v) == u < v

Before(u, v) ==
  \/ Remainder(u) > Remainder(v)
  \/ /\ Remainder(u) = Remainder(v)
     /\ \/ path = "fixed" /\ score[u] > score[v]
        \/ (path = "baseline" \/ score[u] = score[v]) /\ u < v

(* The loop over the order. *)
GiveOne ==
  /\ pc = "bonus" /\ Remaining > 0
  /\ \E u \in Candidates :
       /\ \A v \in Candidates \ {u} : Before(u, v)
       /\ bonus' = bonus \cup {u}
  /\ UNCHANGED <<path, score, cap, baseline, pool, floor, pc>>

(* The order is used up or nothing remains.  SQL then refuses a sum that   *)
(* is not the pool; TypeScript does not look.                              *)
Finish ==
  /\ pc = "bonus"
  /\ Remaining <= 0 \/ Candidates = {}
  /\ pc' = IF path = "baseline" /\ Distributed # pool THEN "refused" ELSE "done"
  /\ UNCHANGED <<path, score, cap, baseline, pool, floor, bonus>>

Next == ChoosePool \/ FloorShares \/ GiveOne \/ Finish

Spec == Init /\ [][Next]_vars

-----------------------------------------------------------------------------
(* Allocations always sum to exactly the pool: no points are minted or     *)
(* lost to rounding, whichever way each quotient was rounded.              *)
SumsToPool == pc = "done" /\ Network > 0 => Distributed = pool

(* The effective pool never exceeds the scheduled one, and a day below the *)
(* baseline is never paid a whole point more than its part of it.          *)
WithinScheduled ==
  path = "baseline" /\ pc \in {"floor", "bonus", "done"} =>
    /\ pool <= cap
    /\ (pool - FloorPoints - 1) * baseline < cap * Min({Network, baseline})

(* More compute is never paid less: whatever the order of the remainders,  *)
(* a participant with a larger score has at least as many points.          *)
MoreScoreNeverLess ==
  pc = "done" =>
    \A u, v \in Users : score[u] > score[v] => Points[u] >= Points[v]

(* Nobody is more than a point from the exact share, beyond what rounding  *)
(* that share may add.                                                     *)
WithinOnePoint ==
  pc = "done" /\ Network > 0 =>
    \A u \in Users :
      LET off == 2 * Scale * (Points[u] * Network - pool * score[u])
          bound == (2 * Scale + cap) * Network
      IN  -bound <= off /\ off <= bound

(* With nothing promised below the baseline, rounding never makes the SQL  *)
(* path refuse an epoch.                                                   *)
NeverRefused == FloorPoints = 0 => pc # "refused"
=============================================================================
