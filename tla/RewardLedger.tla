----------------------------- MODULE RewardLedger ------------------------------
(***************************************************************************)
(* What settlement promises, without requests, processes or clocks.  An    *)
(* epoch is decided once: who is owed for which units.  Allocations and    *)
(* ledger credits follow from the decision, each written once and never    *)
(* changed, and no unit is in two decisions or under two users.            *)
(***************************************************************************)
CONSTANTS Users, Units, Epochs, Undecided

VARIABLES
  decided,    \* per epoch: the units of each user, or Undecided
  granted,    \* allocation rows
  credited    \* ledger rows

ledgerVars == <<decided, granted, credited>>

Owed == [Users -> SUBSET Units]
None == [u \in Users |-> {}]

Init ==
  /\ decided = [e \in Epochs |-> Undecided]
  /\ granted = [e \in Epochs |-> None]
  /\ credited = [e \in Epochs |-> None]

(* A decision names every unit at most once, and none another epoch names. *)
Fresh(owed) ==
  /\ \A u, v \in Users : u # v => owed[u] \cap owed[v] = {}
  /\ \A e \in Epochs, u, v \in Users :
       decided[e] # Undecided => owed[u] \cap decided[e][v] = {}

(* Rows follow a decision when each is what was decided for its user, and  *)
(* extend earlier rows when none of those changed.                         *)
Follows(rows, owed) == \A u \in Users : rows[u] = {} \/ rows[u] = owed[u]
Extends(rows, old) == \A u \in Users : old[u] = {} \/ rows[u] = old[u]

(* A step on epoch e leaves the rows of every other epoch alone. *)
OnlyIn(e) ==
  \A f \in Epochs \ {e} :
    /\ decided'[f] = decided[f]
    /\ granted'[f] = granted[f]
    /\ credited'[f] = credited[f]

Decide(e) ==
  /\ decided[e] = Undecided
  /\ decided'[e] \in Owed /\ Fresh(decided'[e])
  /\ granted'[e] = granted[e]
  /\ credited'[e] = credited[e]

Grant(e) ==
  /\ decided[e] # Undecided
  /\ decided'[e] = decided[e]
  /\ Follows(granted'[e], decided[e]) /\ Extends(granted'[e], granted[e])
  /\ credited'[e] = credited[e]

Credit(e) ==
  /\ decided[e] # Undecided
  /\ decided'[e] = decided[e]
  /\ granted'[e] = granted[e]
  /\ Follows(credited'[e], granted[e]) /\ Extends(credited'[e], credited[e])

(* All three in one transaction. *)
DecideGrantCredit(e) ==
  /\ decided[e] = Undecided
  /\ decided'[e] \in Owed /\ Fresh(decided'[e])
  /\ granted'[e] = decided'[e]
  /\ Follows(credited'[e], decided'[e]) /\ Extends(credited'[e], credited[e])

Next ==
  \E e \in Epochs :
    /\ OnlyIn(e)
    /\ Decide(e) \/ Grant(e) \/ Credit(e) \/ DecideGrantCredit(e)

Spec == Init /\ [][Next]_ledgerVars
=============================================================================
