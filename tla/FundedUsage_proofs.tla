-------------------------- MODULE FundedUsage_proofs --------------------------
(***************************************************************************)
(* The wallet: an answered movement is credited, and once; a spend that is *)
(* read in pages while rows are written misses nothing that was there; and *)
(* what the chat is recorded to have cost is past what was put in, and     *)
(* past the rails of a day, by no more than one reply of each message      *)
(* under way.                                                              *)
(*                                                                         *)
(* The last two rest on one invariant, SpendInv.  For every limit h that   *)
(* is at least what was put in (or the rail), the chat is below h plus a   *)
(* reply for each request that can write no row any more that counts; a    *)
(* request can while it is past the wallet, or while what was there when   *)
(* it began is below h, and so may still be allowed.                       *)
(***************************************************************************)
EXTENDS FundedUsage, TLAPS, Sums

(* The ledger. *)

LedgerTyped == ledger \in [Entries -> Nat] /\ answered \subseteq Movements

(* No reference is in the ledger twice, and one that was answered is in it. *)
OnceInLedger ==
  /\ \A m \in answered : RowsOf(m.reference) # {}
  /\ \A m \in Entries : ledger[m] <= 1
  /\ \A m, n \in Entries : ledger[m] > 0 /\ ledger[n] > 0 /\ m.reference = n.reference => m = n

(* What OnceInLedger needs to be inductive: that a row is a count. *)
LedgerInv == LedgerTyped /\ OnceInLedger

(* Inserting an entry keeps the reference unique, and leaves it taken. *)
LEMMA InsertKeepsUnique ==
  ASSUME LedgerInv, NEW m \in Entries, InsertEntry(m)
  PROVE  /\ ledger' \in [Entries -> Nat]
         /\ \A n \in Entries : ledger[n] > 0 => ledger'[n] > 0
         /\ \E n \in Entries : n.reference = m.reference /\ ledger'[n] > 0
         /\ \A n \in Entries : ledger'[n] <= 1
         /\ \A n, o \in Entries :
              ledger'[n] > 0 /\ ledger'[o] > 0 /\ n.reference = o.reference => n = o
<1>1. CASE RowsOf(m.reference) # {}
  <2>1. ledger' = ledger BY <1>1 DEF InsertEntry
  <2>2. \E n \in Entries : n.reference = m.reference /\ ledger[n] > 0 BY <1>1 DEF RowsOf
  <2>. QED BY <2>1, <2>2 DEF LedgerInv, LedgerTyped, OnceInLedger
<1>2. CASE RowsOf(m.reference) = {}
  <2>1. ledger' = [ledger EXCEPT ![m] = @ + 1] BY <1>2 DEF InsertEntry
  <2>2. \A n \in Entries : n.reference = m.reference => ledger[n] = 0
    BY <1>2 DEF RowsOf, LedgerInv, LedgerTyped
  <2>3. /\ ledger' \in [Entries -> Nat] /\ ledger'[m] = 1
        /\ \A n \in Entries : n # m => ledger'[n] = ledger[n]
    BY <2>1, <2>2 DEF LedgerInv, LedgerTyped
  <2>. QED BY <2>2, <2>3 DEF LedgerInv, LedgerTyped, OnceInLedger
<1>. QED BY <1>1, <1>2

LEMMA InvStays ==
  ASSUME LedgerInv, [Next]_vars
  PROVE  LedgerInv'
<1>. DEFINE OneRowEach ==
       /\ \A n \in Entries : ledger'[n] <= 1
       /\ \A n, o \in Entries :
            ledger'[n] > 0 /\ ledger'[o] > 0 /\ n.reference = o.reference => n = o
<1>1. Movements \subseteq Entries /\ StartingGrant \in Entries BY DEF Entries
<1>2. ASSUME UNCHANGED ledger, UNCHANGED answered PROVE LedgerInv'
  BY <1>2 DEF LedgerInv, LedgerTyped, OnceInLedger, RowsOf
<1>3. ASSUME NEW m \in Entries, InsertEntry(m),
             answered' \subseteq answered \cup ({m} \cap Movements)
      PROVE  LedgerInv'
  <2>1. /\ ledger' \in [Entries -> Nat]
        /\ \A n \in Entries : ledger[n] > 0 => ledger'[n] > 0
        /\ \E n \in Entries : n.reference = m.reference /\ ledger'[n] > 0
        /\ OneRowEach
    BY <1>3, InsertKeepsUnique
  <2>2. \A a \in answered' : RowsOf(a.reference)' # {}
    <3>1. TAKE a \in answered'
    <3>2. CASE a = m BY <3>2, <2>1 DEF RowsOf
    <3>3. CASE a \in answered
      <4>1. PICK n \in Entries : n.reference = a.reference /\ ledger[n] > 0
        BY <3>3 DEF LedgerInv, OnceInLedger, RowsOf
      <4>. QED BY <4>1, <2>1 DEF RowsOf
    <3>. QED BY <1>3, <3>2, <3>3
  <2>3. answered' \subseteq Movements BY <1>3 DEF LedgerInv, LedgerTyped
  <2>. QED BY <2>1, <2>2, <2>3 DEF LedgerInv, LedgerTyped, OnceInLedger
<1>4. ASSUME NEW c \in Calls, Request(c) PROVE LedgerInv'
  <2>1. CASE EnsureStartingGrant(c)
    BY <2>1, <1>1, <1>3 DEF EnsureStartingGrant
  <2>2. CASE ~EnsureStartingGrant(c)
    <3>1. UNCHANGED ledger /\ UNCHANGED answered
      BY <1>4, <2>2 DEF Request, ReadLedger, ReadPage, Decide, BeginFallback, Reply,
         NothingObserved, RecordObservation, CallFails
    <3>. QED BY <3>1, <1>2
  <2>. QED BY <2>1, <2>2
<1>5. ASSUME NEW m \in Movements, CreditWallet(m) \/ CreditUnanswered(m) PROVE LedgerInv'
  BY <1>5, <1>1, <1>3 DEF CreditWallet, CreditUnanswered
<1>6. CASE NextDay BY <1>6, <1>2 DEF NextDay
<1>7. CASE UNCHANGED vars BY <1>7, <1>2 DEF vars
<1>. QED BY <1>4, <1>5, <1>6, <1>7 DEF Next

(* What is in the ledger under an answered movement's reference is that    *)
(* movement, if no other has its reference, and the grant has another.     *)
LEMMA AnsweredInLedger == LedgerInv => CreditedOnce
<1>. SUFFICES ASSUME LedgerInv, \A m, n \in Movements : m.reference = n.reference => m = n
              PROVE  (\A m \in answered : ledger[m] = 1) /\ (\A m \in Entries : ledger[m] <= 1)
  BY DEF CreditedOnce
<1>1. \A m \in Entries : ledger[m] \in Nat /\ ledger[m] <= 1
  BY DEF LedgerInv, LedgerTyped, OnceInLedger
<1>2. ASSUME NEW m \in answered PROVE ledger[m] = 1
  <2>1. m \in Movements /\ m \in Entries
    BY DEF LedgerInv, LedgerTyped, Entries
  <2>2. PICK n \in Entries : n.reference = m.reference /\ ledger[n] > 0
    BY <1>2 DEF LedgerInv, OnceInLedger, RowsOf
  <2>3. n # StartingGrant
    BY <2>1, <2>2, WalletAssumption DEF StartingGrant
  <2>4. n = m
    BY <2>1, <2>2, <2>3 DEF Entries
  <2>. QED  BY <1>1, <2>1, <2>2, <2>4
<1>. QED  BY <1>1, <1>2

(* A movement whose delivery was answered is in the ledger, and once, for  *)
(* any set of movements with references of their own and any number of     *)
(* requests that write the starting grant at once (store.ts 86-105,        *)
(* 202-219).                                                               *)
THEOREM WalletCreditedOnce == Spec => []CreditedOnce
<1>1. Init => LedgerInv BY DEF Init, LedgerInv, LedgerTyped, OnceInLedger, RowsOf
<1>2. LedgerInv /\ [Next]_vars => LedgerInv' BY InvStays
<1>. QED BY <1>1, <1>2, AnsweredInLedger, PTL DEF Spec

-----------------------------------------------------------------------------
(* The sums of the model, as totals.                                       *)

LEMMA EntriesFinite == IsFiniteSet(Entries)
BY WalletAssumption, FS_AddElement DEF Entries

Cost == [i \in Ids |-> IF i \in Recorded THEN events[i].cost ELSE 0]

Priced == Recorded \subseteq Ids /\ \A i \in Recorded : events[i] \in Event

LEMMA CostType ==
  ASSUME Priced
  PROVE  Cost \in [Ids -> Nat] /\ \A i \in Recorded : events[i].cost \in Nat
<1>1. \A i \in Recorded : events[i].cost \in Nat
  <2>. SUFFICES ASSUME NEW i \in Recorded PROVE events[i].cost \in Nat
    OBVIOUS
  <2>1. events[i].cost \in Costs
    BY DEF Priced, Event
  <2>. QED  BY <2>1, WalletAssumption
<1>. QED  BY <1>1 DEF Cost

(* What a set of events cost. *)
LEMMA CostSumTotal ==
  ASSUME Priced, NEW S \in SUBSET Recorded
  PROVE  CostSum(S) = Total(Cost, S)
<1>. DEFINE Term(x) == events[x].cost
            Step(g, s) == IF s = {} THEN 0 ELSE Term(AnyOf(s)) + g[s \ {AnyOf(s)}]
            Raw(g) == g = [s \in SUBSET S |-> Step(g, s)]
<1>1. CostSum(S) = (CHOOSE g : Raw(g))[S]
  BY Zenon DEF CostSum, MapThenSumSet, MapThenFoldSet, AnyOf
<1>2. \A x \in S : Cost[x] = Term(x) /\ Cost[x] \in Int
  BY CostType DEF Priced, Cost
<1>. HIDE DEF Term
<1>3. \A g : Raw(g) <=> Solves(Cost, S, g)
  <2>1. ASSUME NEW g, NEW s \in SUBSET S, s # {} PROVE Step(g, s) = SumStep(Cost, g, s)
    <3>1. Cost[AnyOf(s)] = Term(AnyOf(s))
      BY <1>2, <2>1, AnyIn
    <3>. QED  BY <2>1, <3>1, Zenon DEF SumStep
  <2>2. \A g : \A s \in SUBSET S : Step(g, s) = SumStep(Cost, g, s)
    BY <2>1 DEF SumStep
  <2>. HIDE DEF Step
  <2>. QED  BY <2>2, Zenon DEF Solves
<1>. HIDE DEF Raw
<1>4. IsFiniteSet(S)
  BY FS_Subset, WalletAssumption, EntriesFinite DEF Priced
<1>5. \E g : Raw(g)
  BY <1>2, <1>3, <1>4, SolutionTotals
<1>6. Raw(CHOOSE g : Raw(g))
  BY <1>5, Zenon
<1>7. \A g : Raw(g) => Total(Cost, S) = g[S]
  BY <1>2, <1>3, <1>4, SolutionTotals
<1>. QED  BY <1>1, <1>6, <1>7, Zenon

Amount == [m \in Entries |-> ledger[m] * m.amount]

LEMMA AmountType ==
  ASSUME LedgerTyped
  PROVE  Amount \in [Entries -> Int]
<1>. SUFFICES ASSUME NEW m \in Entries PROVE ledger[m] * m.amount \in Int
  BY DEF Amount
<1>1. ledger[m] \in Int /\ m.amount \in Int
  BY WalletAssumption DEF Entries, LedgerTyped, StartingGrant
<1>. QED  BY <1>1

(* What a set of entries adds up to. *)
LEMMA SumTotal ==
  ASSUME LedgerTyped, NEW S \in SUBSET Entries
  PROVE  Sum(S) = Total(Amount, S)
<1>. DEFINE Term(x) == (ledger[x] * x.amount)
            Step(g, s) == IF s = {} THEN 0 ELSE Term(AnyOf(s)) + g[s \ {AnyOf(s)}]
            Raw(g) == g = [s \in SUBSET S |-> Step(g, s)]
<1>1. Sum(S) = (CHOOSE g : Raw(g))[S]
  BY Zenon DEF Sum, MapThenSumSet, MapThenFoldSet, AnyOf
<1>2. \A x \in S : Amount[x] = Term(x) /\ Amount[x] \in Int
  BY AmountType DEF Amount
<1>. HIDE DEF Term
<1>3. \A g : Raw(g) <=> Solves(Amount, S, g)
  <2>1. ASSUME NEW g, NEW s \in SUBSET S, s # {} PROVE Step(g, s) = SumStep(Amount, g, s)
    <3>1. Amount[AnyOf(s)] = Term(AnyOf(s))
      BY <1>2, <2>1, AnyIn
    <3>. QED  BY <2>1, <3>1, Zenon DEF SumStep
  <2>2. \A g : \A s \in SUBSET S : Step(g, s) = SumStep(Amount, g, s)
    BY <2>1 DEF SumStep
  <2>. HIDE DEF Step
  <2>. QED  BY <2>2, Zenon DEF Solves
<1>. HIDE DEF Raw
<1>4. IsFiniteSet(S)
  BY FS_Subset, WalletAssumption, EntriesFinite
<1>5. \E g : Raw(g)
  BY <1>2, <1>3, <1>4, SolutionTotals
<1>6. Raw(CHOOSE g : Raw(g))
  BY <1>5, Zenon
<1>7. \A g : Raw(g) => Total(Amount, S) = g[S]
  BY <1>2, <1>3, <1>4, SolutionTotals
<1>. QED  BY <1>1, <1>6, <1>7, Zenon

GivenIn == [m \in Entries |-> IF m.amount > 0 THEN ledger[m] * m.amount ELSE 0]

LEMMA GivenType ==
  ASSUME LedgerTyped
  PROVE  GivenIn \in [Entries -> Nat]
<1>. SUFFICES ASSUME NEW m \in Entries, m.amount > 0 PROVE ledger[m] * m.amount \in Nat
  BY DEF GivenIn
<1>1. ledger[m] \in Nat /\ m.amount \in Int
  BY WalletAssumption DEF Entries, LedgerTyped, StartingGrant
<1>. QED  BY <1>1

(* What was given or paid in. *)
LEMMA GivenTotal ==
  ASSUME LedgerTyped
  PROVE  MapThenSumSet(LAMBDA m : IF m.amount > 0 THEN ledger[m] * m.amount ELSE 0, Movements) = Total(GivenIn, Movements)
<1>. DEFINE Term(x) == (IF x.amount > 0 THEN ledger[x] * x.amount ELSE 0)
            Step(g, s) == IF s = {} THEN 0 ELSE Term(AnyOf(s)) + g[s \ {AnyOf(s)}]
            Raw(g) == g = [s \in SUBSET Movements |-> Step(g, s)]
<1>1. MapThenSumSet(LAMBDA m : IF m.amount > 0 THEN ledger[m] * m.amount ELSE 0, Movements) = (CHOOSE g : Raw(g))[Movements]
  BY Zenon DEF MapThenSumSet, MapThenFoldSet, AnyOf
<1>2. \A x \in Movements : GivenIn[x] = Term(x) /\ GivenIn[x] \in Int
  BY GivenType DEF GivenIn, Entries
<1>. HIDE DEF Term
<1>3. \A g : Raw(g) <=> Solves(GivenIn, Movements, g)
  <2>1. ASSUME NEW g, NEW s \in SUBSET Movements, s # {} PROVE Step(g, s) = SumStep(GivenIn, g, s)
    <3>1. GivenIn[AnyOf(s)] = Term(AnyOf(s))
      BY <1>2, <2>1, AnyIn
    <3>. QED  BY <2>1, <3>1, Zenon DEF SumStep
  <2>2. \A g : \A s \in SUBSET Movements : Step(g, s) = SumStep(GivenIn, g, s)
    BY <2>1 DEF SumStep
  <2>. HIDE DEF Step
  <2>. QED  BY <2>2, Zenon DEF Solves
<1>. HIDE DEF Raw
<1>4. IsFiniteSet(Movements)
  BY FS_Subset, WalletAssumption, EntriesFinite
<1>5. \E g : Raw(g)
  BY <1>2, <1>3, <1>4, SolutionTotals
<1>6. Raw(CHOOSE g : Raw(g))
  BY <1>5, Zenon
<1>7. \A g : Raw(g) => Total(GivenIn, Movements) = g[Movements]
  BY <1>2, <1>3, <1>4, SolutionTotals
<1>. QED  BY <1>1, <1>6, <1>7, Zenon

ReadCost(seen) == [i \in Recorded |-> seen[i] * events[i].cost]

LEMMA ReadCostType ==
  ASSUME Priced, NEW seen \in [Ids -> Nat]
  PROVE  ReadCost(seen) \in [Recorded -> Nat]
<1>. SUFFICES ASSUME NEW i \in Recorded PROVE seen[i] * events[i].cost \in Nat
  BY DEF ReadCost
<1>1. seen[i] \in Nat /\ events[i].cost \in Nat
  BY WalletAssumption DEF Priced, Event
<1>. QED  BY <1>1

(* What the rows that were read cost, each as often as it was read. *)
LEMMA CostOfTotal ==
  ASSUME Priced, NEW seen \in [Ids -> Nat]
  PROVE  CostOf(seen) = Total(ReadCost(seen), Recorded)
<1>. DEFINE Term(x) == (seen[x] * events[x].cost)
            Step(g, s) == IF s = {} THEN 0 ELSE Term(AnyOf(s)) + g[s \ {AnyOf(s)}]
            Raw(g) == g = [s \in SUBSET Recorded |-> Step(g, s)]
<1>1. CostOf(seen) = (CHOOSE g : Raw(g))[Recorded]
  BY Zenon DEF CostOf, MapThenSumSet, MapThenFoldSet, AnyOf
<1>2. \A x \in Recorded : ReadCost(seen)[x] = Term(x) /\ ReadCost(seen)[x] \in Int
  BY ReadCostType DEF ReadCost
<1>. HIDE DEF Term
<1>3. \A g : Raw(g) <=> Solves(ReadCost(seen), Recorded, g)
  <2>1. ASSUME NEW g, NEW s \in SUBSET Recorded, s # {} PROVE Step(g, s) = SumStep(ReadCost(seen), g, s)
    <3>1. ReadCost(seen)[AnyOf(s)] = Term(AnyOf(s))
      BY <1>2, <2>1, AnyIn
    <3>. QED  BY <2>1, <3>1, Zenon DEF SumStep
  <2>2. \A g : \A s \in SUBSET Recorded : Step(g, s) = SumStep(ReadCost(seen), g, s)
    BY <2>1 DEF SumStep
  <2>. HIDE DEF Step
  <2>. QED  BY <2>2, Zenon DEF Solves
<1>. HIDE DEF Raw
<1>4. IsFiniteSet(Recorded)
  BY FS_Subset, WalletAssumption, EntriesFinite DEF Priced
<1>5. \E g : Raw(g)
  BY <1>2, <1>3, <1>4, SolutionTotals
<1>6. Raw(CHOOSE g : Raw(g))
  BY <1>5, Zenon
<1>7. \A g : Raw(g) => Total(ReadCost(seen), Recorded) = g[Recorded]
  BY <1>2, <1>3, <1>4, SolutionTotals
<1>. QED  BY <1>1, <1>6, <1>7, Zenon

(* How many of today's rows were read. *)
LEMMA RequestsTotal ==
  ASSUME NEW seen \in [Ids -> Nat]
  PROVE  MapThenSumSet(LAMBDA i : TodayOf(seen)[i], Ids) = Total(TodayOf(seen), Ids)
<1>. DEFINE Term(x) == TodayOf(seen)[x]
            Step(g, s) == IF s = {} THEN 0 ELSE Term(AnyOf(s)) + g[s \ {AnyOf(s)}]
            Raw(g) == g = [s \in SUBSET Ids |-> Step(g, s)]
<1>1. MapThenSumSet(LAMBDA i : TodayOf(seen)[i], Ids) = (CHOOSE g : Raw(g))[Ids]
  BY Zenon DEF MapThenSumSet, MapThenFoldSet, AnyOf
<1>2. \A x \in Ids : TodayOf(seen)[x] = Term(x) /\ TodayOf(seen)[x] \in Int
  BY DEF TodayOf
<1>. HIDE DEF Term
<1>3. \A g : Raw(g) <=> Solves(TodayOf(seen), Ids, g)
  <2>1. ASSUME NEW g, NEW s \in SUBSET Ids, s # {} PROVE Step(g, s) = SumStep(TodayOf(seen), g, s)
    <3>1. TodayOf(seen)[AnyOf(s)] = Term(AnyOf(s))
      BY <1>2, <2>1, AnyIn
    <3>. QED  BY <2>1, <3>1, Zenon DEF SumStep
  <2>2. \A g : \A s \in SUBSET Ids : Step(g, s) = SumStep(TodayOf(seen), g, s)
    BY <2>1 DEF SumStep
  <2>. HIDE DEF Step
  <2>. QED  BY <2>2, Zenon DEF Solves
<1>. HIDE DEF Raw
<1>4. IsFiniteSet(Ids)
  BY FS_Subset, WalletAssumption, EntriesFinite
<1>5. \E g : Raw(g)
  BY <1>2, <1>3, <1>4, SolutionTotals
<1>6. Raw(CHOOSE g : Raw(g))
  BY <1>5, Zenon
<1>7. \A g : Raw(g) => Total(TodayOf(seen), Ids) = g[Ids]
  BY <1>2, <1>3, <1>4, SolutionTotals
<1>. QED  BY <1>1, <1>6, <1>7, Zenon

-----------------------------------------------------------------------------
(* Types.                                                                  *)

(* A request's memory, on a given day. *)
Fine(s, today) ==
  /\ s \in Call
  /\ s.pc = "record" => s.cost \in Costs /\ s.day <= today
  /\ s.pc = "read" => s.by = "chat"
  /\ s.pc # "read" => s.wallet = NotRead /\ s.spend = NotRead

TypedInv ==
  /\ LedgerInv
  /\ Priced /\ \A i \in Recorded : events[i].day <= day
  /\ day \in Days
  /\ call \in [Calls -> Call] /\ \A c \in Calls : Fine(call[c], day)

LEMMA TypedImplies == TypedInv => TypeOK
BY DEF TypedInv, TypeOK, LedgerInv, LedgerTyped, Priced

LEMMA DaysNat == Days \subseteq Nat /\ 0 \in Days
BY WalletAssumption DEF Days

LEMMA RecordedFinite ==
  ASSUME Priced
  PROVE  \A S \in SUBSET Recorded : IsFiniteSet(S)
BY WalletAssumption, FS_Subset DEF Priced

LEMMA CostSumNat ==
  ASSUME Priced, NEW S \in SUBSET Recorded
  PROVE  CostSum(S) \in Nat
<1>1. IsFiniteSet(S) /\ S \subseteq Ids
  BY RecordedFinite DEF Priced
<1>2. \A i \in S : Cost[i] \in Nat
  BY <1>1, CostType
<1>. QED  BY <1>1, <1>2, CostSumTotal, TotalNat

LEMMA CreditType ==
  ASSUME LedgerTyped
  PROVE  [credit |-> Credited, paid |-> Funded] \in Wallet
<1>1. \A S \in SUBSET Entries : Sum(S) \in Int
  <2>. SUFFICES ASSUME NEW S \in SUBSET Entries PROVE Sum(S) \in Int
    OBVIOUS
  <2>1. IsFiniteSet(S) /\ \A m \in S : Amount[m] \in Int
    BY EntriesFinite, FS_Subset, AmountType
  <2>. QED  BY <2>1, SumTotal, TotalAny
<1>2. Credited \in Int
  BY <1>1, WalletAssumption DEF Credited
<1>3. Funded \in BOOLEAN
  BY DEF Funded
<1>. QED  BY <1>2, <1>3 DEF Wallet

LEMMA TodayType ==
  ASSUME NEW seen \in [Ids -> Nat]
  PROVE  TodayOf(seen) \in [Ids -> Nat]
BY DEF TodayOf

LEMMA SpendType ==
  ASSUME Priced, NEW seen \in [Ids -> Nat]
  PROVE  SpendOf(seen) \in Spend
<1>1. \A s \in [Ids -> Nat] : CostOf(s) \in Nat
  <2>. SUFFICES ASSUME NEW s \in [Ids -> Nat] PROVE CostOf(s) \in Nat
    OBVIOUS
  <2>1. IsFiniteSet(Recorded) /\ \A i \in Recorded : ReadCost(s)[i] \in Nat
    BY RecordedFinite, ReadCostType
  <2>. QED  BY <2>1, CostOfTotal, TotalNat
<1>2. MapThenSumSet(LAMBDA i : TodayOf(seen)[i], Ids) \in Nat
  <2>1. \A i \in Ids : TodayOf(seen)[i] \in Nat
    BY TodayType
  <2>. QED  BY <2>1, RequestsTotal, TotalNat, WalletAssumption
<1>. QED  BY <1>1, <1>2, TodayType DEF SpendOf, Spend

LEMMA IdleFine == ASSUME NEW d \in Days PROVE Fine(Idle, d) /\ Idle.wallet = NotRead
BY WalletAssumption DEF Idle, Call, Fine, Doors, Days

LEMMA InitTyped == Init => TypedInv
<1>. SUFFICES ASSUME Init PROVE TypedInv
  OBVIOUS
<1>1. LedgerInv
  BY DEF Init, LedgerInv, LedgerTyped, OnceInLedger, RowsOf
<1>2. Recorded = {}
  BY DEF Init, Recorded
<1>. QED  BY <1>1, <1>2, IdleFine, DaysNat DEF Init, TypedInv, Priced, Fine

(* A request that goes on, with no event written. *)
LEMMA BecomesFine ==
  ASSUME TypedInv, LedgerInv', NEW c \in Calls, NEW s, Fine(s, day), Become(c, s),
         UNCHANGED <<events, day>>
  PROVE  TypedInv'
<1>1. call' \in [Calls -> Call] /\ \A b \in Calls : call'[b] = IF b = c THEN s ELSE call[b]
  BY DEF TypedInv, Become, Fine
<1>. QED  BY <1>1 DEF TypedInv, Priced, Recorded

LEMMA RequestTyped ==
  ASSUME TypedInv, LedgerInv', NEW c \in Calls, Request(c)
  PROVE  TypedInv'
<1>1. /\ call[c] \in Call /\ Fine(call[c], day) /\ day \in Days /\ day \in Nat
      /\ Fine(Idle, day) /\ Idle \in Call
  BY IdleFine, DaysNat DEF TypedInv, Fine
<1>2. CASE EnsureStartingGrant(c)
  <2>1. CostSum(Recorded) \in Nat
    BY CostSumNat DEF TypedInv
  <2>2. Fine([Idle EXCEPT !.pc = "read", !.before = CostSum(Recorded)], day)
    BY <1>1, <2>1 DEF Fine, Call, Idle
  <2>. QED  BY <1>2, <2>2, BecomesFine DEF EnsureStartingGrant
<1>3. CASE ReadLedger(c)
  <2>. DEFINE w == [credit |-> Credited, paid |-> Funded]
  <2>1. w \in Wallet
    BY CreditType DEF TypedInv, LedgerInv
  <2>. HIDE DEF w
  <2>2. Fine([call[c] EXCEPT !.wallet = w], day)
    BY <1>1, <1>3, <2>1 DEF Fine, Call, ReadLedger, At
  <2>. QED  BY <1>3, <2>2, BecomesFine DEF ReadLedger, w
<1>4. CASE ReadPage(c)
  <2>. DEFINE page == Page(call[c].from)
              seen == [i \in Ids |-> call[c].seen[i] + (IF i \in page THEN 1 ELSE 0)]
              s == IF Cardinality(page) = PageSize
                   THEN [call[c] EXCEPT !.from = @ + PageSize, !.seen = seen]
                   ELSE [call[c] EXCEPT !.from = 0, !.seen = Idle.seen, !.spend = SpendOf(seen)]
  <2>1. seen \in [Ids -> Nat]
    BY <1>1 DEF Call
  <2>. HIDE DEF seen
  <2>2. SpendOf(seen) \in Spend
    BY <2>1, SpendType DEF TypedInv
  <2>3. call[c].from + PageSize \in Nat /\ Idle.seen \in [Ids -> Nat]
    BY <1>1, WalletAssumption DEF Call
  <2>4. Fine(s, day)
    BY <1>1, <1>4, <2>1, <2>2, <2>3 DEF Fine, Call, ReadPage, At
  <2>5. Become(c, s) /\ UNCHANGED <<events, day>>
    BY <1>4 DEF ReadPage, seen
  <2>. HIDE DEF s
  <2>. QED  BY <2>4, <2>5, BecomesFine
<1>5. CASE Decide(c)
  <2>1. Fine([Idle EXCEPT !.pc = "send"], day)
    BY <1>1 DEF Fine, Call, Idle
  <2>2. \E s : Fine(s, day) /\ Become(c, s)
    BY <1>1, <1>5, <2>1 DEF Decide
  <2>. QED  BY <1>5, <2>2, BecomesFine DEF Decide
<1>6. CASE BeginFallback(c)
  <2>1. Fine([Idle EXCEPT !.pc = "send", !.by = "fallback"], day)
    BY <1>1 DEF Fine, Call, Idle, Doors
  <2>. QED  BY <1>6, <2>1, BecomesFine DEF BeginFallback
<1>7. CASE Reply(c)
  <2>1. PICK cost \in Costs :
          Become(c, [call[c] EXCEPT !.pc = "record", !.cost = cost, !.day = day])
    BY <1>7 DEF Reply
  <2>. DEFINE s == [call[c] EXCEPT !.pc = "record", !.cost = cost, !.day = day]
  <2>2. /\ s \in Call /\ s.pc = "record" /\ s.cost = cost /\ s.day = day
        /\ s.wallet = call[c].wallet /\ s.spend = call[c].spend
    BY <1>1 DEF Call
  <2>3. call[c].wallet = NotRead /\ call[c].spend = NotRead
    BY <1>1, <1>7 DEF Fine, Reply, At
  <2>4. Fine(s, day)
    BY <1>1, <2>2, <2>3 DEF Fine
  <2>. HIDE DEF s
  <2>. QED  BY <1>7, <2>1, <2>4, BecomesFine DEF Reply, s
<1>8. CASE NothingObserved(c)
  BY <1>1, <1>8, BecomesFine DEF NothingObserved
<1>9. CASE CallFails(c)
  BY <1>1, <1>9, BecomesFine DEF CallFails
<1>10. CASE RecordObservation(c)
  <2>. DEFINE e == [cost |-> call[c].cost, day |-> call[c].day, by |-> call[c].by]
  <2>1. e \in Event /\ e.day <= day
    BY <1>1, <1>10 DEF RecordObservation, At, Fine, Call, Event
  <2>. HIDE DEF e
  <2>2. PICK i \in Ids \ Recorded :
          events' = [j \in Recorded \cup {i} |-> IF j = i THEN e ELSE events[j]]
    BY <1>10 DEF RecordObservation, e
  <2>3. Priced' /\ \A j \in Recorded' : events'[j].day <= day
    BY <2>1, <2>2 DEF TypedInv, Priced, Recorded
  <2>4. call' = [call EXCEPT ![c] = Idle] /\ day' = day
    BY <1>10 DEF RecordObservation, Become
  <2>. QED  BY <1>1, <2>3, <2>4 DEF TypedInv
<1>. QED  BY <1>2, <1>3, <1>4, <1>5, <1>6, <1>7, <1>8, <1>9, <1>10 DEF Request

LEMMA NextTyped == TypedInv /\ [Next]_vars => TypedInv'
<1>. SUFFICES ASSUME TypedInv, [Next]_vars PROVE TypedInv'
  OBVIOUS
<1>1. LedgerInv'
  BY InvStays DEF TypedInv
<1>2. ASSUME UNCHANGED <<events, call, day>> PROVE TypedInv'
  BY <1>1, <1>2 DEF TypedInv, Priced, Recorded
<1>3. CASE NextDay
  <2>1. day \in Nat /\ day' = day + 1 /\ day' \in Days /\ UNCHANGED <<events, call>>
    BY <1>3, DaysNat, WalletAssumption DEF NextDay, TypedInv, Days
  <2>2. \A c \in Calls : Fine(call[c], day + 1)
    <3>1. \A c \in Calls : call[c].day \in Nat
      BY DaysNat DEF TypedInv, Call
    <3>. QED  BY <2>1, <3>1 DEF TypedInv, Fine
  <2>3. \A i \in Recorded : events[i].day <= day + 1
    <3>1. \A i \in Recorded : events[i].day \in Nat
      BY DaysNat DEF TypedInv, Priced, Event
    <3>. QED  BY <2>1, <3>1 DEF TypedInv
  <2>. QED  BY <1>1, <2>1, <2>2, <2>3 DEF TypedInv, Priced, Recorded
<1>4. CASE \E m \in Movements : CreditWallet(m) \/ CreditUnanswered(m)
  BY <1>2, <1>4 DEF CreditWallet, CreditUnanswered
<1>5. CASE UNCHANGED vars
  BY <1>2, <1>5 DEF vars
<1>. QED  BY <1>1, <1>3, <1>4, <1>5, RequestTyped DEF Next

(* Every variable holds a value of the shape its table or process has,     *)
(* sums included.                                                          *)
THEOREM WalletTyped == Spec => []TypeOK
BY InitTyped, NextTyped, TypedImplies, PTL DEF Spec

-----------------------------------------------------------------------------
(* What an account reads as its credit.                                    *)

LEMMA MovementsApart ==
  /\ StartingGrant \notin Movements /\ IsFiniteSet(Movements)
  /\ StartingGrant \in Entries /\ Movements \subseteq Entries
  /\ StartingGrant.amount = Grant /\ StartingGrant.kind = "grant"
  /\ StartingGrant.reference = StartingReference
BY WalletAssumption DEF StartingGrant, Entries

LEMMA RowsZeroOrOne ==
  ASSUME LedgerInv
  PROVE  \A m \in Entries : ledger[m] = 0 \/ ledger[m] = 1
<1>. SUFFICES ASSUME NEW m \in Entries PROVE ledger[m] = 0 \/ ledger[m] = 1
  OBVIOUS
<1>1. ledger[m] \in Nat /\ ledger[m] <= 1
  BY DEF LedgerInv, LedgerTyped, OnceInLedger
<1>. QED  BY <1>1

LEMMA GivenOrPaidTotal == LedgerTyped => GivenOrPaid = Total(GivenIn, Movements) + Grant
BY GivenTotal, Zenon DEF GivenOrPaid

(* What an account with its grant written reads as its credit is at most   *)
(* what was given or paid.                                                 *)
LEMMA CreditedGiven ==
  ASSUME LedgerInv
  PROVE  /\ GivenOrPaid \in Nat
         /\ RowsOf(StartingReference) # {} => Credited <= GivenOrPaid
<1>1. LedgerTyped
  BY DEF LedgerInv
<1>2. Grant \in Nat
  BY WalletAssumption
<1>3. /\ Total(Amount, Entries) = Amount[StartingGrant] + Total(Amount, Movements)
      /\ Total(Amount, Movements) \in Int
  <2>1. Entries = Movements \cup {StartingGrant}
    BY DEF Entries
  <2>2. \A m \in Movements \cup {StartingGrant} : Amount[m] \in Int
    BY <1>1, <2>1, AmountType
  <2>. QED  BY <2>1, <2>2, MovementsApart, TotalAdd
<1>4. Total(Amount, Movements) <= Total(GivenIn, Movements)
  <2>1. \A m \in Movements : Amount[m] \in Int /\ GivenIn[m] \in Int /\ Amount[m] <= GivenIn[m]
    <3>. SUFFICES ASSUME NEW m \in Movements
                  PROVE  Amount[m] \in Int /\ GivenIn[m] \in Int /\ Amount[m] <= GivenIn[m]
      OBVIOUS
    <3>1. m \in Entries /\ m.amount \in Int /\ (ledger[m] = 0 \/ ledger[m] = 1)
      BY MovementsApart, RowsZeroOrOne, WalletAssumption
    <3>. QED  BY <3>1 DEF Amount, GivenIn
  <2>. QED  BY <2>1, MovementsApart, TotalMonotone
<1>5. Total(GivenIn, Movements) \in Nat
  <2>1. \A m \in Movements : GivenIn[m] \in Nat
    BY <1>1, GivenType, MovementsApart
  <2>. QED  BY <2>1, MovementsApart, TotalNat
<1>6. GivenOrPaid = Total(GivenIn, Movements) + Grant
  BY <1>1, GivenOrPaidTotal
<1>7. Amount[StartingGrant] \in Int /\ Amount[StartingGrant] <= Grant
  <2>1. Amount[StartingGrant] = ledger[StartingGrant] * Grant
    BY MovementsApart DEF Amount
  <2>2. ledger[StartingGrant] = 0 \/ ledger[StartingGrant] = 1
    BY RowsZeroOrOne, MovementsApart
  <2>. QED  BY <1>2, <2>1, <2>2
<1>8. ASSUME RowsOf(StartingReference) # {} PROVE Credited = Total(Amount, Entries)
  <2>1. Sum(Entries) = Total(Amount, Entries)
    BY <1>1, SumTotal
  <2>2. Total(Amount, Entries) \in Int
    BY <1>3, <1>7
  <2>. QED  BY <1>8, <2>1, <2>2 DEF Credited
<1>9. GivenOrPaid \in Nat
  BY <1>2, <1>5, <1>6
<1>. QED  BY <1>2, <1>3, <1>4, <1>5, <1>6, <1>7, <1>8, <1>9

EverPaid == \E m \in Movements : m.kind # "grant" /\ m.amount > 0 /\ ledger[m] > 0
RailCap == IF EverPaid THEN PaidCap ELSE FreeCap

(* An account is read as paying only if a payment reached it. *)
LEMMA FundedPaid == LedgerInv /\ Funded => EverPaid
<1>. SUFFICES ASSUME LedgerInv, ~EverPaid PROVE ~Funded
  OBVIOUS
<1>. DEFINE paid == {m \in Entries : IsPaidMovement(m)}
            zero == [m \in Entries |-> 0]
<1>1. LedgerTyped /\ paid \subseteq Entries /\ IsFiniteSet(paid)
  BY EntriesFinite, FS_Subset DEF LedgerInv
<1>2. \A m \in paid : Amount[m] \in Int /\ zero[m] \in Int /\ Amount[m] <= zero[m]
  <2>. SUFFICES ASSUME NEW m \in paid PROVE Amount[m] \in Int /\ Amount[m] <= 0
    BY <1>1
  <2>1. m \in Movements /\ m.kind # "grant"
    BY MovementsApart DEF Entries, IsPaidMovement
  <2>2. m.amount \in Int /\ (ledger[m] = 0 \/ ledger[m] = 1) /\ m \in Entries
    BY <2>1, MovementsApart, RowsZeroOrOne, WalletAssumption
  <2>3. m.amount <= 0 \/ ledger[m] = 0
    BY <2>1, <2>2 DEF EverPaid
  <2>. QED  BY <2>2, <2>3 DEF Amount
<1>3. Total(Amount, paid) <= Total(zero, paid)
  <2>. HIDE DEF paid, zero
  <2>. QED  BY <1>1, <1>2, TotalMonotone
<1>4. Total(zero, paid) = 0
  <2>1. \A m \in paid : zero[m] \in Int /\ zero[m] = 0
    BY <1>1
  <2>. HIDE DEF zero, paid
  <2>2. {} \in SUBSET paid /\ \A m \in paid \ {} : zero[m] = 0
    BY <2>1
  <2>3. \A m \in paid : zero[m] \in Int
    BY <2>1
  <2>4. Total(zero, paid) = Total(zero, {})
    BY <1>1, <2>2, <2>3, TotalSupport
  <2>. QED  BY <2>4, TotalEmpty
<1>5. Sum(paid) = Total(Amount, paid)
  BY <1>1, SumTotal
<1>6. Total(Amount, paid) \in Int
  <2>1. \A m \in paid : Amount[m] \in Int
    BY <1>2
  <2>. HIDE DEF paid
  <2>. QED  BY <1>1, <2>1, TotalAny
<1>. QED  BY <1>3, <1>4, <1>5, <1>6 DEF Funded

(* Rows are never taken out of the ledger. *)
LEMMA LedgerGrows ==
  ASSUME LedgerInv, [Next]_vars
  PROVE  \A m \in Entries : ledger[m] <= ledger'[m]
<1>1. ledger \in [Entries -> Nat]
  BY DEF LedgerInv, LedgerTyped
<1>2. ASSUME NEW m \in Entries, InsertEntry(m) PROVE \A n \in Entries : ledger[n] <= ledger'[n]
  BY <1>1, <1>2 DEF InsertEntry
<1>3. ASSUME UNCHANGED ledger PROVE \A n \in Entries : ledger[n] <= ledger'[n]
  BY <1>1, <1>3
<1>4. ASSUME NEW c \in Calls, Request(c) PROVE \A n \in Entries : ledger[n] <= ledger'[n]
  <2>1. CASE EnsureStartingGrant(c)
    BY <2>1, <1>2, MovementsApart DEF EnsureStartingGrant
  <2>2. CASE ~EnsureStartingGrant(c)
    <3>1. UNCHANGED ledger
      BY <1>4, <2>2 DEF Request, ReadLedger, ReadPage, Decide, BeginFallback, Reply,
         NothingObserved, RecordObservation, CallFails
    <3>. QED BY <3>1, <1>3
  <2>. QED BY <2>1, <2>2
<1>5. ASSUME NEW m \in Movements, CreditWallet(m) \/ CreditUnanswered(m)
      PROVE  \A n \in Entries : ledger[n] <= ledger'[n]
  BY <1>2, <1>5, MovementsApart DEF CreditWallet, CreditUnanswered
<1>6. CASE NextDay BY <1>3, <1>6 DEF NextDay
<1>7. CASE UNCHANGED vars BY <1>3, <1>7 DEF vars
<1>. QED BY <1>4, <1>5, <1>6, <1>7 DEF Next

(* So what was given only grows, and an account that ever paid has paid. *)
LEMMA GivenGrows ==
  ASSUME LedgerInv, LedgerInv', [Next]_vars
  PROVE  GivenOrPaid <= GivenOrPaid' /\ (EverPaid => EverPaid')
<1>1. \A m \in Entries : ledger[m] <= ledger'[m]
  BY LedgerGrows
<1>2. /\ GivenOrPaid = Total(GivenIn, Movements) + Grant
      /\ GivenOrPaid' = Total(GivenIn', Movements) + Grant
  <2>1. GivenOrPaid = Total(GivenIn, Movements) + Grant
    BY GivenOrPaidTotal DEF LedgerInv
  <2>2. (LedgerTyped => GivenOrPaid = Total(GivenIn, Movements) + Grant)'
    BY GivenOrPaidTotal, PTL
  <2>. QED  BY <2>1, <2>2 DEF LedgerInv
<1>3. \A m \in Movements : GivenIn[m] \in Int /\ GivenIn'[m] \in Int /\ GivenIn[m] <= GivenIn'[m]
  <2>. SUFFICES ASSUME NEW m \in Movements
                PROVE  GivenIn[m] \in Int /\ GivenIn'[m] \in Int /\ GivenIn[m] <= GivenIn'[m]
    OBVIOUS
  <2>1. m \in Entries /\ m.amount \in Int /\ (ledger[m] = 0 \/ ledger[m] = 1)
    BY MovementsApart, RowsZeroOrOne, WalletAssumption
  <2>2. ledger'[m] = 0 \/ ledger'[m] = 1
    <3>1. ledger'[m] \in Nat /\ ledger'[m] <= 1
      BY <2>1 DEF LedgerInv, LedgerTyped, OnceInLedger
    <3>. QED  BY <3>1
  <2>3. ledger[m] <= ledger'[m]
    BY <1>1, <2>1
  <2>. QED  BY <2>1, <2>2, <2>3 DEF GivenIn
<1>4. Total(GivenIn, Movements) <= Total(GivenIn', Movements)
  BY <1>3, MovementsApart, TotalMonotone
<1>5. Total(GivenIn, Movements) \in Int /\ Total(GivenIn', Movements) \in Int
  BY <1>3, MovementsApart, TotalAny
<1>6. EverPaid => EverPaid'
  <2>1. \A m \in Movements : ledger[m] \in Nat /\ ledger'[m] \in Nat /\ ledger[m] <= ledger'[m]
    BY <1>1, MovementsApart DEF LedgerInv, LedgerTyped
  <2>. QED  BY <2>1 DEF EverPaid
<1>. QED  BY <1>2, <1>4, <1>5, <1>6, WalletAssumption

-----------------------------------------------------------------------------
(* Pages.                                                                  *)

(* The place of an id in a set: rows are paged in the order of their ids. *)
Rank(S, i) == Cardinality({j \in S : j <= i})

LEMMA RankType ==
  ASSUME NEW S \in SUBSET Nat, IsFiniteSet(S)
  PROVE  /\ Cardinality(S) \in Nat
         /\ \A i \in S : Rank(S, i) \in 1 .. Cardinality(S)
<1>. SUFFICES ASSUME NEW i \in S PROVE Rank(S, i) \in 1 .. Cardinality(S)
  BY FS_CardinalityType
<1>. DEFINE T == {j \in S : j <= i}
<1>1. IsFiniteSet(T) /\ Cardinality(T) <= Cardinality(S) /\ Cardinality(T) \in Nat /\ Cardinality(S) \in Nat
  BY FS_Subset, FS_CardinalityType
<1>2. i \in T
  OBVIOUS
<1>3. Cardinality(T) # 0
  BY <1>1, <1>2, FS_EmptySet
<1>. QED  BY <1>1, <1>3 DEF Rank

(* Ranks grow with the set, and strictly with the id. *)
LEMMA RankGrows ==
  ASSUME NEW S \in SUBSET Nat, IsFiniteSet(S), NEW R \in SUBSET S, NEW i \in R
  PROVE  Rank(R, i) <= Rank(S, i)
<1>1. {j \in R : j <= i} \in SUBSET {j \in S : j <= i} /\ IsFiniteSet({j \in S : j <= i})
  BY FS_Subset
<1>. QED  BY <1>1, FS_Subset DEF Rank

LEMMA RankOrder ==
  ASSUME NEW S \in SUBSET Nat, IsFiniteSet(S), NEW i \in S, NEW k \in S, i < k
  PROVE  Rank(S, i) < Rank(S, k)
<1>. DEFINE L == {j \in S : j <= i}
            M == {j \in S : j <= k}
<1>1. L \in SUBSET M /\ IsFiniteSet(M)
  <2>1. \A j \in S : j <= i => j <= k
    OBVIOUS
  <2>2. L \subseteq M /\ M \in SUBSET S
    BY <2>1
  <2>. HIDE DEF L, M
  <2>. QED  BY <2>2, FS_Subset
<1>2. k \in M /\ k \notin L
  OBVIOUS
<1>3. Cardinality(L) <= Cardinality(M) /\ Cardinality(L) # Cardinality(M)
  <2>1. L # M
    BY <1>2
  <2>. HIDE DEF L, M
  <2>. QED  BY <1>1, <2>1, FS_Subset
<1>4. Cardinality(L) \in Nat /\ Cardinality(M) \in Nat
  BY <1>1, FS_Subset, FS_CardinalityType
<1>. QED  BY <1>3, <1>4 DEF Rank

(* Every rank up to the size of the set is some id's. *)
LEMMA RankReaches ==
  ASSUME NEW S \in SUBSET Nat, IsFiniteSet(S), NEW n \in 1 .. Cardinality(S)
  PROVE  \E i \in S : Rank(S, i) = n
<1>. DEFINE rank == [i \in S |-> Rank(S, i)]
            Places == 1 .. Cardinality(S)
<1>1. Cardinality(S) \in Nat /\ \A i \in S : Rank(S, i) \in Places
  BY RankType
<1>2. \A i, k \in S : rank[i] = rank[k] => i = k
  <2>. SUFFICES ASSUME NEW i \in S, NEW k \in S, i # k PROVE rank[i] # rank[k]
    OBVIOUS
  <2>1. i < k \/ k < i
    OBVIOUS
  <2>2. Rank(S, i) \in Nat /\ Rank(S, k) \in Nat
    BY <1>1
  <2>. QED  BY <2>1, <2>2, RankOrder
<1>3. rank \in Injection(S, Places)
  BY <1>1, <1>2 DEF Injection, IsInjective
<1>4. IsFiniteSet(Places) /\ Cardinality(Places) = Cardinality(S)
  BY <1>1, FS_Interval
<1>5. rank \in Surjection(S, Places)
  <2>. HIDE DEF rank, Places
  <2>. QED  BY <1>3, <1>4, FS_Injection
<1>. QED  BY <1>5 DEF Surjection

(* A page that is not full is the last: it ends behind every row.          *)
LEMMA LastPage ==
  ASSUME Recorded \in SUBSET Nat, IsFiniteSet(Recorded), NEW from \in Nat,
         Cardinality(Page(from)) # PageSize
  PROVE  \A i \in Recorded : Rank(Recorded, i) <= from + PageSize
<1>. SUFFICES ASSUME NEW k \in Recorded, ~(Rank(Recorded, k) <= from + PageSize)
              PROVE  Cardinality(Page(from)) = PageSize
  OBVIOUS
<1>. DEFINE rank == [i \in Page(from) |-> Rank(Recorded, i)]
            Places == from + 1 .. from + PageSize
<1>1. PageSize \in Nat
  BY WalletAssumption
<1>2. Cardinality(Recorded) \in Nat /\ \A i \in Recorded : Rank(Recorded, i) \in 1 .. Cardinality(Recorded)
  BY RankType
<1>3. Page(from) = {i \in Recorded : Rank(Recorded, i) \in Places}
  BY DEF Page, Rank
<1>4. \A n \in Places : \E i \in Page(from) : rank[i] = n
  <2>. SUFFICES ASSUME NEW n \in Places PROVE \E i \in Page(from) : Rank(Recorded, i) = n
    OBVIOUS
  <2>1. n \in 1 .. Cardinality(Recorded)
    BY <1>1, <1>2
  <2>2. PICK i \in Recorded : Rank(Recorded, i) = n
    BY <2>1, RankReaches
  <2>. QED  BY <1>3, <2>2
<1>5. \A i, j \in Page(from) : rank[i] = rank[j] => i = j
  <2>. SUFFICES ASSUME NEW i \in Page(from), NEW j \in Page(from), i # j PROVE rank[i] # rank[j]
    OBVIOUS
  <2>1. i \in Recorded /\ j \in Recorded
    BY <1>3
  <2>2. i < j \/ j < i
    BY <2>1
  <2>3. Rank(Recorded, i) \in Nat /\ Rank(Recorded, j) \in Nat
    BY <1>2, <2>1
  <2>. QED  BY <2>1, <2>2, <2>3, RankOrder
<1>6. rank \in Injection(Page(from), Places)
  <2>1. rank \in [Page(from) -> Places]
    BY <1>3
  <2>. QED  BY <1>5, <2>1 DEF Injection, IsInjective
<1>7. rank \in Surjection(Page(from), Places)
  <2>1. rank \in [Page(from) -> Places]
    BY <1>3
  <2>. QED  BY <1>4, <2>1 DEF Surjection
<1>8. IsFiniteSet(Places) /\ Cardinality(Places) = PageSize
  BY <1>1, FS_Interval
<1>. HIDE DEF rank, Places
<1>. QED  BY <1>6, <1>7, <1>8, FS_Injection

-----------------------------------------------------------------------------
(* What a spend that is being read has taken in.                           *)

(* The events of S on the days of D. *)
DayIn(ev, S, D) == {i \in S : ev[i].day \in D}

(* What a request that reads has taken in of B, the rows that were there   *)
(* when it began: those its pages have passed, and in the end all of them. *)
Covered(s, B, w, ev, today) ==
  s.pc = "read" =>
    /\ Total(w, B) = s.before
    /\ s.spend = NotRead => \A i \in B : Rank(DOMAIN ev, i) <= s.from => s.seen[i] >= 1
    /\ s.spend # NotRead =>
         /\ s.spend.lifetime >= s.before
         /\ s.spend.today >= Total(w, DayIn(ev, B, {today}))
         /\ s.spend.requests >= Cardinality(DayIn(ev, B, {today}))

(* Rows are written once and stay. *)
LEMMA EventsStay ==
  ASSUME TypedInv, [Next]_vars
  PROVE  /\ Recorded \subseteq Recorded'
         /\ \A i \in Recorded : events'[i] = events[i] /\ Cost'[i] = Cost[i]
<1>1. Recorded \subseteq Ids
  BY DEF TypedInv, Priced
<1>2. ASSUME UNCHANGED events
      PROVE  /\ Recorded \subseteq Recorded'
             /\ \A i \in Recorded : events'[i] = events[i] /\ Cost'[i] = Cost[i]
  BY <1>2 DEF Recorded, Cost
<1>3. ASSUME NEW c \in Calls, RecordObservation(c)
      PROVE  /\ Recorded \subseteq Recorded'
             /\ \A i \in Recorded : events'[i] = events[i] /\ Cost'[i] = Cost[i]
  <2>. DEFINE e == [cost |-> call[c].cost, day |-> call[c].day, by |-> call[c].by]
  <2>2. PICK k \in Ids \ Recorded :
          events' = [j \in Recorded \cup {k} |-> IF j = k THEN e ELSE events[j]]
    BY <1>3 DEF RecordObservation
  <2>. HIDE DEF e
  <2>3. Recorded' = Recorded \cup {k} /\ \A i \in Recorded : events'[i] = events[i]
    BY <2>2 DEF Recorded
  <2>. QED  BY <1>1, <2>3 DEF Cost
<1>4. ASSUME NEW c \in Calls, Request(c), ~RecordObservation(c) PROVE UNCHANGED events
  BY <1>4 DEF Request, EnsureStartingGrant, ReadLedger, ReadPage, Decide, BeginFallback, Reply,
     NothingObserved, CallFails
<1>5. ASSUME ~(\E c \in Calls : Request(c)) PROVE UNCHANGED events
  BY <1>5 DEF Next, CreditWallet, CreditUnanswered, NextDay, vars
<1>. QED  BY <1>2, <1>3, <1>4, <1>5

LEMMA RecordedNat ==
  ASSUME TypedInv
  PROVE  /\ Recorded \subseteq Ids /\ Recorded \in SUBSET Nat /\ IsFiniteSet(Recorded)
         /\ \A i \in Recorded : Cost[i] \in Nat
<1>1. Priced
  BY DEF TypedInv
<1>. QED  BY <1>1, CostType, RecordedFinite, WalletAssumption DEF Priced

(* What was taken in stays so while others write rows, and on a new day,   *)
(* which none of the rows is of.                                           *)
LEMMA CoveredStays ==
  ASSUME NEW ev, NEW fv, DOMAIN ev \subseteq DOMAIN fv, DOMAIN fv \in SUBSET Nat,
         IsFiniteSet(DOMAIN fv),
         NEW w, NEW v, \A i \in DOMAIN ev : fv[i] = ev[i] /\ v[i] = w[i] /\ w[i] \in Nat,
         NEW B \in SUBSET DOMAIN ev, NEW s \in Call, NEW today, NEW later,
         later = today \/ \A i \in DOMAIN ev : ev[i].day # later,
         Covered(s, B, w, ev, today)
  PROVE  Covered(s, B, v, fv, later)
<1>. SUFFICES ASSUME s.pc = "read" PROVE Covered(s, B, v, fv, later)
  BY DEF Covered
<1>1. \A T \in SUBSET B : IsFiniteSet(T) /\ Total(v, T) = Total(w, T)
  <2>. SUFFICES ASSUME NEW T \in SUBSET B PROVE IsFiniteSet(T) /\ Total(v, T) = Total(w, T)
    OBVIOUS
  <2>1. IsFiniteSet(T) /\ \A i \in T : v[i] = w[i] /\ w[i] \in Int
    BY FS_Subset
  <2>. QED  BY <2>1, TotalSame
<1>2. Total(v, B) = s.before
  BY <1>1 DEF Covered
<1>3. ASSUME s.spend = NotRead, NEW i \in B, Rank(DOMAIN fv, i) <= s.from PROVE s.seen[i] >= 1
  <2>1. Rank(DOMAIN ev, i) <= Rank(DOMAIN fv, i)
    BY RankGrows
  <2>2. Rank(DOMAIN ev, i) \in Nat /\ Rank(DOMAIN fv, i) \in Nat
    <3>1. IsFiniteSet(DOMAIN ev) /\ DOMAIN ev \in SUBSET Nat /\ i \in DOMAIN ev /\ i \in DOMAIN fv
      BY FS_Subset
    <3>2. Rank(DOMAIN ev, i) \in 1 .. Cardinality(DOMAIN ev) /\ Rank(DOMAIN fv, i) \in 1 .. Cardinality(DOMAIN fv)
      BY <3>1, RankType
    <3>. QED  BY <3>2
  <2>3. s.from \in Nat
    BY DEF Call
  <2>. QED  BY <1>3, <2>1, <2>2, <2>3 DEF Covered
<1>4. ASSUME s.spend # NotRead
      PROVE  /\ s.spend.lifetime >= s.before
             /\ s.spend.today >= Total(v, DayIn(fv, B, {later}))
             /\ s.spend.requests >= Cardinality(DayIn(fv, B, {later}))
  <2>1. s.spend.today \in Nat /\ s.spend.requests \in Nat
    BY <1>4 DEF Call, Spend
  <2>2. DayIn(fv, B, {later}) \in SUBSET B
    BY DEF DayIn
  <2>3. CASE later = today
    <3>1. DayIn(fv, B, {later}) = DayIn(ev, B, {today})
      BY <2>3 DEF DayIn
    <3>. QED  BY <1>1, <1>4, <2>2, <3>1 DEF Covered
  <2>4. CASE \A i \in DOMAIN ev : ev[i].day # later
    <3>1. DayIn(fv, B, {later}) = {}
      BY <2>4 DEF DayIn
    <3>2. Total(v, {}) = 0 /\ Cardinality({}) = 0
      BY TotalEmpty, FS_EmptySet
    <3>3. s.spend.lifetime >= s.before
      BY <1>4 DEF Covered
    <3>. QED  BY SMTT(30), <2>1, <3>1, <3>2, <3>3
  <2>. QED  BY <2>3, <2>4
<1>. QED  BY <1>2, <1>3, <1>4 DEF Covered

(* The last page: a sum over what was read holds all that was there.       *)
LEMMA LastPageHoldsAll ==
  ASSUME TypedInv, NEW seen \in [Ids -> Nat], NEW B \in SUBSET Recorded,
         \A i \in B : seen[i] >= 1
  PROVE  /\ SpendOf(seen).lifetime >= Total(Cost, B)
         /\ SpendOf(seen).today >= Total(Cost, DayIn(events, B, {day}))
         /\ SpendOf(seen).requests >= Cardinality(DayIn(events, B, {day}))
<1>0. Priced /\ Recorded \subseteq Ids /\ IsFiniteSet(Recorded) /\ \A i \in Recorded : Cost[i] \in Nat
  BY RecordedNat DEF TypedInv
<1>. DEFINE today == TodayOf(seen)
            T == DayIn(events, B, {day})
<1>1. today \in [Ids -> Nat]
  BY TodayType
<1>2. T \in SUBSET Recorded /\ T \in SUBSET Ids /\ \A i \in T : today[i] >= 1
  BY <1>0 DEF DayIn, TodayOf
<1>3. /\ SpendOf(seen).lifetime = Total(ReadCost(seen), Recorded)
      /\ SpendOf(seen).today = Total(ReadCost(today), Recorded)
      /\ SpendOf(seen).requests = Total(today, Ids)
  <2>1. CostOf(seen) = Total(ReadCost(seen), Recorded) /\ CostOf(today) = Total(ReadCost(today), Recorded)
    BY <1>0, <1>1, CostOfTotal
  <2>2. MapThenSumSet(LAMBDA i : TodayOf(seen)[i], Ids) = Total(today, Ids)
    BY RequestsTotal
  <2>. QED  BY <2>1, <2>2, Zenon DEF SpendOf
<1>. HIDE DEF today, T
<1>4. ASSUME NEW s \in [Ids -> Nat], NEW S \in SUBSET Recorded, \A i \in S : s[i] >= 1
      PROVE  Total(Cost, S) <= Total(ReadCost(s), Recorded)
  <2>1. \A i \in Recorded : ReadCost(s)[i] \in Nat
    BY <1>0, ReadCostType
  <2>2. \A i \in S : Cost[i] \in Nat /\ Cost[i] <= ReadCost(s)[i]
    <3>. SUFFICES ASSUME NEW i \in S PROVE Cost[i] <= ReadCost(s)[i]
      BY <1>0
    <3>1. events[i].cost \in Nat /\ Cost[i] = events[i].cost /\ ReadCost(s)[i] = s[i] * events[i].cost
      BY <1>0, CostType DEF Cost, ReadCost
    <3>2. \A a, b \in Nat : a >= 1 => b <= a * b
      OBVIOUS
    <3>3. s[i] \in Nat /\ s[i] >= 1
      BY <1>0, <1>4
    <3>. QED  BY <3>1, <3>2, <3>3
  <2>. QED  BY <1>0, <2>1, <2>2, TotalWithin
<1>5. Total(Cost, B) <= Total(ReadCost(seen), Recorded)
  BY <1>4
<1>6. Total(Cost, T) <= Total(ReadCost(today), Recorded)
  BY <1>1, <1>2, <1>4
<1>7. Cardinality(T) <= Total(today, Ids)
  <2>. DEFINE one == [i \in Ids |-> 1]
  <2>1. IsFiniteSet(Ids) /\ IsFiniteSet(T)
    BY <1>2, WalletAssumption, FS_Subset
  <2>2. (\A i \in Ids : today[i] \in Nat) /\ \A i \in T : one[i] \in Nat /\ one[i] = 1 /\ one[i] <= today[i]
    BY <1>1, <1>2
  <2>. HIDE DEF one
  <2>3. Total(one, T) = Cardinality(T)
    BY <2>1, <2>2, TotalOnes
  <2>4. Total(one, T) <= Total(today, Ids)
    BY <1>2, <2>1, <2>2, TotalWithin
  <2>. QED  BY <2>3, <2>4
<1>8. /\ Total(Cost, B) \in Nat /\ Total(ReadCost(seen), Recorded) \in Nat
      /\ Total(Cost, T) \in Nat /\ Total(ReadCost(today), Recorded) \in Nat
      /\ Cardinality(T) \in Nat /\ Total(today, Ids) \in Nat
  <2>1. IsFiniteSet(Ids) /\ IsFiniteSet(T) /\ IsFiniteSet(B)
    BY <1>0, <1>2, WalletAssumption, FS_Subset
  <2>2. /\ \A i \in B : Cost[i] \in Nat
        /\ \A i \in T : Cost[i] \in Nat
        /\ \A i \in Recorded : ReadCost(seen)[i] \in Nat
        /\ \A i \in Recorded : ReadCost(today)[i] \in Nat
        /\ \A i \in Ids : today[i] \in Nat
    BY <1>0, <1>1, <1>2, ReadCostType
  <2>. QED  BY <1>0, <2>1, <2>2, TotalNat, FS_CardinalityType
<1>. QED  BY <1>3, <1>5, <1>6, <1>7, <1>8 DEF T

LEMMA PageCovers ==
  ASSUME TypedInv, NEW c \in Calls, ReadPage(c), NEW B \in SUBSET Recorded,
         Covered(call[c], B, Cost, events, day)
  PROVE  Covered(call'[c], B, Cost, events, day)
<1>. DEFINE page == Page(call[c].from)
            seen == [i \in Ids |-> call[c].seen[i] + (IF i \in page THEN 1 ELSE 0)]
            s == IF Cardinality(page) = PageSize
                 THEN [call[c] EXCEPT !.from = @ + PageSize, !.seen = seen]
                 ELSE [call[c] EXCEPT !.from = 0, !.seen = Idle.seen, !.spend = SpendOf(seen)]
<1>1. call[c] \in Call /\ call[c].from \in Nat /\ call[c].seen \in [Ids -> Nat] /\ PageSize \in Nat
  BY WalletAssumption DEF TypedInv, Call
<1>2. call[c].pc = "read" /\ call[c].spend = NotRead /\ call'[c] = s
  BY DEF ReadPage, At, Become, TypedInv
<1>3. Recorded \subseteq Ids /\ Recorded \in SUBSET Nat /\ IsFiniteSet(Recorded)
  BY RecordedNat
<1>4. seen \in [Ids -> Nat]
  BY <1>1
<1>5. \A i \in B : Rank(Recorded, i) <= call[c].from => call[c].seen[i] >= 1
  BY <1>2 DEF Covered, Recorded
<1>6. \A i \in B : Rank(Recorded, i) \in Nat /\ Rank(Recorded, i) >= 1
  <2>1. \A i \in Recorded : Rank(Recorded, i) \in 1 .. Cardinality(Recorded)
    BY <1>3, RankType
  <2>. QED  BY <2>1
<1>7. \A i \in B : Rank(Recorded, i) <= call[c].from + PageSize => seen[i] >= 1
  <2>. SUFFICES ASSUME NEW i \in B, Rank(Recorded, i) <= call[c].from + PageSize PROVE seen[i] >= 1
    OBVIOUS
  <2>1. i \in Ids /\ call[c].seen[i] \in Nat
    BY <1>1, <1>3
  <2>2. CASE Rank(Recorded, i) <= call[c].from
    BY <1>5, <2>1, <2>2
  <2>3. CASE ~(Rank(Recorded, i) <= call[c].from)
    <3>1. Rank(Recorded, i) \in call[c].from + 1 .. call[c].from + PageSize
      BY <1>1, <1>6, <2>3
    <3>2. i \in page
      BY <3>1 DEF Page, Rank
    <3>. QED  BY <2>1, <3>2
  <2>. QED  BY <2>2, <2>3
<1>8. Total(Cost, B) = call[c].before
  BY <1>2 DEF Covered
<1>. HIDE DEF seen
<1>9. CASE Cardinality(page) = PageSize
  <2>1. /\ s.spend = NotRead /\ s.from = call[c].from + PageSize /\ s.seen = seen
        /\ s.before = call[c].before
    BY <1>1, <1>2, <1>9 DEF Call
  <2>. HIDE DEF s
  <2>. QED  BY <1>2, <1>7, <1>8, <2>1 DEF Covered, Recorded
<1>10. CASE Cardinality(page) # PageSize
  <2>1. s.spend = SpendOf(seen) /\ s.before = call[c].before /\ s.from = 0
    BY <1>1, <1>10 DEF Call
  <2>2. \A i \in B : seen[i] >= 1
    BY <1>1, <1>3, <1>7, <1>10, LastPage
  <2>3. SpendOf(seen) \in Spend
    BY <1>4, SpendType DEF TypedInv
  <2>4. /\ SpendOf(seen).lifetime >= Total(Cost, B)
        /\ SpendOf(seen).today >= Total(Cost, DayIn(events, B, {day}))
        /\ SpendOf(seen).requests >= Cardinality(DayIn(events, B, {day}))
    BY <1>4, <2>2, LastPageHoldsAll
  <2>. HIDE DEF s
  <2>5. \A i \in B : ~(Rank(Recorded, i) <= s.from)
    BY <1>6, <2>1
  <2>. QED  BY <1>2, <1>8, <2>1, <2>4, <2>5 DEF Covered, Recorded
<1>. QED  BY <1>9, <1>10

(* What the steps of a request leave of it. *)
LEMMA AfterRequest ==
  ASSUME TypedInv, NEW c \in Calls, Request(c)
  PROVE  \/ EnsureStartingGrant(c) /\ call'[c].pc = "read"
         \/ /\ ReadLedger(c) \/ ReadPage(c)
            /\ call[c].pc = "read" /\ call'[c].pc = "read" /\ call'[c].by = call[c].by
         \/ /\ Decide(c) /\ Allowed(call[c].wallet, call[c].spend)
            /\ call[c].pc = "read" /\ call'[c].pc = "send"
         \/ BeginFallback(c) /\ call'[c].pc = "send" /\ call'[c].by = "fallback"
         \/ /\ Reply(c) /\ call[c].pc = "send" /\ call'[c].pc = "record"
            /\ call'[c].by = call[c].by /\ call'[c].day = day
         \/ call'[c].pc = "idle"
<1>1. call[c] \in Call /\ \A s : Become(c, s) => call'[c] = s
  BY DEF TypedInv, Become
<1>2. Idle.pc = "idle"
  BY DEF Idle
<1>3. ASSUME EnsureStartingGrant(c) PROVE call'[c].pc = "read"
  BY <1>1, <1>3 DEF EnsureStartingGrant, Idle
<1>4. ASSUME ReadLedger(c)
      PROVE  call[c].pc = "read" /\ call'[c].pc = "read" /\ call'[c].by = call[c].by
  BY <1>1, <1>4 DEF ReadLedger, At, Call
<1>5. ASSUME ReadPage(c)
      PROVE  call[c].pc = "read" /\ call'[c].pc = "read" /\ call'[c].by = call[c].by
  <2>. DEFINE page == Page(call[c].from)
              seen == [i \in Ids |-> call[c].seen[i] + (IF i \in page THEN 1 ELSE 0)]
              s == IF Cardinality(page) = PageSize
                   THEN [call[c] EXCEPT !.from = @ + PageSize, !.seen = seen]
                   ELSE [call[c] EXCEPT !.from = 0, !.seen = Idle.seen, !.spend = SpendOf(seen)]
  <2>1. call[c].pc = "read" /\ call'[c] = s
    BY <1>1, <1>5 DEF ReadPage, At
  <2>2. s.pc = call[c].pc /\ s.by = call[c].by
    BY <1>1 DEF Call
  <2>. HIDE DEF s
  <2>. QED  BY <2>1, <2>2
<1>6. ASSUME Decide(c)
      PROVE  /\ call[c].pc = "read"
             /\ \/ Allowed(call[c].wallet, call[c].spend) /\ call'[c].pc = "send"
                \/ call'[c].pc = "idle"
  <2>1. [Idle EXCEPT !.pc = "send"].pc = "send"
    BY DEF Idle
  <2>2. CASE Allowed(call[c].wallet, call[c].spend)
    BY <1>1, <1>6, <2>1, <2>2 DEF Decide, At
  <2>3. CASE ~Allowed(call[c].wallet, call[c].spend)
    BY <1>1, <1>2, <1>6, <2>3 DEF Decide, At
  <2>. QED  BY <2>2, <2>3
<1>7. ASSUME BeginFallback(c) PROVE call'[c].pc = "send" /\ call'[c].by = "fallback"
  BY <1>1, <1>7 DEF BeginFallback, Idle
<1>8. ASSUME Reply(c)
      PROVE  /\ call[c].pc = "send" /\ call'[c].pc = "record"
             /\ call'[c].by = call[c].by /\ call'[c].day = day
  <2>1. PICK cost \in Costs : call'[c] = [call[c] EXCEPT !.pc = "record", !.cost = cost, !.day = day]
    BY <1>1, <1>8 DEF Reply
  <2>2. call[c].pc = "send"
    BY <1>8 DEF Reply, At
  <2>. QED  BY <1>1, <2>1, <2>2 DEF Call
<1>9. ASSUME NothingObserved(c) \/ RecordObservation(c) \/ CallFails(c) PROVE call'[c].pc = "idle"
  BY <1>1, <1>2, <1>9 DEF NothingObserved, RecordObservation, CallFails
<1>. QED  BY <1>3, <1>4, <1>5, <1>6, <1>7, <1>8, <1>9 DEF Request

(* A step of a request: one that starts has its rows before it, one that   *)
(* goes on takes in those it passes.                                       *)
LEMMA CoveredNext ==
  ASSUME TypedInv, TypedInv', NEW c \in Calls, Request(c), NEW B \in SUBSET Recorded,
         Covered(call[c], B, Cost, events, day)
  PROVE  Covered(call'[c], IF EnsureStartingGrant(c) THEN Recorded ELSE B, Cost, events, day)
<1>1. call[c] \in Call /\ c \in DOMAIN call /\ Priced
  BY DEF TypedInv
<1>2. CASE EnsureStartingGrant(c)
  <2>1. /\ call'[c].spend = NotRead /\ call'[c].from = 0 /\ call'[c].before = CostSum(Recorded)
    BY <1>1, <1>2 DEF EnsureStartingGrant, Become, Idle
  <2>2. CostSum(Recorded) = Total(Cost, Recorded)
    BY <1>1, CostSumTotal
  <2>3. \A i \in Recorded : ~(Rank(Recorded, i) <= 0)
    <3>1. \A i \in Recorded : Rank(Recorded, i) \in 1 .. Cardinality(Recorded)
      BY RecordedNat, RankType
    <3>. QED  BY <3>1
  <2>. QED  BY <1>2, <2>1, <2>2, <2>3 DEF Covered, Recorded
<1>3. CASE ~EnsureStartingGrant(c) /\ ReadPage(c)
  BY <1>3, PageCovers
<1>4. CASE ~EnsureStartingGrant(c) /\ ReadLedger(c)
  <2>1. /\ call[c].pc = "read" /\ call'[c].before = call[c].before
        /\ call'[c].spend = call[c].spend /\ call'[c].from = call[c].from
        /\ call'[c].seen = call[c].seen
    BY <1>1, <1>4 DEF ReadLedger, At, Become, Call
  <2>. QED  BY <1>4, <2>1 DEF Covered
<1>5. CASE ~EnsureStartingGrant(c) /\ ~ReadPage(c) /\ ~ReadLedger(c)
  <2>1. call'[c].pc # "read"
    BY <1>5, AfterRequest
  <2>. QED  BY <1>5, <2>1 DEF Covered
<1>. QED  BY <1>2, <1>3, <1>4, <1>5

-----------------------------------------------------------------------------
(* The room below a limit.                                                 *)

(* Requests of the chat that may still write a row on a day of D: those    *)
(* past the wallet, and those that may be allowed, as what was there when  *)
(* they began is below the limit h.                                        *)
MayBill(s, B, w, h, D, ev, today) ==
  /\ s.by = "chat"
  /\ \/ s.pc = "record" /\ s.day \in D
     \/ s.pc = "send" /\ \E d \in D : today <= d
     \/ s.pc = "read" /\ Total(w, DayIn(ev, B, D)) < h

Quiet(cl, B, w, h, D, ev, today) == {c \in Calls : ~MayBill(cl[c], B[c], w, h, D, ev, today)}

ChatIn(ev, D) == {i \in DOMAIN ev : ev[i].by = "chat" /\ ev[i].day \in D}

(* The chat is past the limit h by no more than what the requests that can *)
(* write no more rows may have written.                                    *)
Room(w, most, h, D, B, cl, ev, today) ==
  Total(w, ChatIn(ev, D)) < h + most * Cardinality(Quiet(cl, B, w, h, D, ev, today))

LEMMA RoomKept ==
  ASSUME NEW most \in Nat, NEW h \in Int, NEW a \in Int, NEW b \in Int,
         NEW F \in SUBSET Calls, NEW G \in SUBSET Calls, F \subseteq G,
         a < h + most * Cardinality(F),
         b <= a \/ (b <= a + most /\ \E c \in G : c \notin F)
  PROVE  b < h + most * Cardinality(G)
<1>1. IsFiniteSet(F) /\ IsFiniteSet(G) /\ Cardinality(F) \in Nat /\ Cardinality(G) \in Nat
  BY WalletAssumption, FS_Subset, FS_CardinalityType
<1>2. \A m, n \in Nat : m <= n => most * m <= most * n
  OBVIOUS
<1>3. CASE b <= a
  <2>1. Cardinality(F) <= Cardinality(G)
    BY <1>1, FS_Subset
  <2>2. most * Cardinality(F) <= most * Cardinality(G)
    BY <1>1, <1>2, <2>1
  <2>3. most * Cardinality(F) \in Int /\ most * Cardinality(G) \in Int
    BY <1>1
  <2>. QED  BY <1>3, <2>2, <2>3
<1>4. CASE b <= a + most /\ \E c \in G : c \notin F
  <2>1. Cardinality(F) + 1 <= Cardinality(G)
    <3>1. F # G /\ F \in SUBSET G
      BY <1>4
    <3>2. Cardinality(F) <= Cardinality(G) /\ Cardinality(F) # Cardinality(G)
      BY <1>1, <3>1, FS_Subset
    <3>. QED  BY <1>1, <3>2
  <2>2. most * (Cardinality(F) + 1) <= most * Cardinality(G)
    BY <1>1, <1>2, <2>1
  <2>3. most * (Cardinality(F) + 1) = most * Cardinality(F) + most
    <3>1. most * (Cardinality(F) + 1) = most * Cardinality(F) + most * 1
      BY <1>1, Distribute
    <3>. QED  BY <3>1
  <2>4. most * Cardinality(F) \in Int /\ most * Cardinality(G) \in Int
    BY <1>1
  <2>. QED  BY <1>4, <2>2, <2>3, <2>4
<1>. QED  BY <1>3, <1>4

(* Sums over rows that were there do not change. *)
LEMMA SameTotals ==
  ASSUME TypedInv, [Next]_vars, NEW w, NEW v,
         \A i \in Recorded : w[i] \in Nat /\ v[i] = w[i], NEW S \in SUBSET Recorded, NEW D
  PROVE  /\ DayIn(events', S, D) = DayIn(events, S, D)
         /\ Total(v, DayIn(events', S, D)) = Total(w, DayIn(events, S, D))
         /\ Total(w, DayIn(events, S, D)) \in Nat
<1>1. Recorded \subseteq Recorded' /\ \A i \in Recorded : events'[i] = events[i]
  BY EventsStay
<1>2. DayIn(events', S, D) = DayIn(events, S, D) /\ DayIn(events, S, D) \in SUBSET Recorded
  BY <1>1 DEF DayIn
<1>3. IsFiniteSet(DayIn(events, S, D))
  BY <1>2, RecordedNat, FS_Subset
<1>4. /\ \A i \in DayIn(events, S, D) : v[i] = w[i] /\ w[i] \in Int
      /\ \A i \in DayIn(events, S, D) : w[i] \in Nat
  BY <1>2
<1>. QED  BY <1>2, <1>3, <1>4, TotalSame, TotalNat

(* The events of the chat, before a step and after it. *)
LEMMA ChatInNext ==
  ASSUME TypedInv, TypedInv', NEW c \in Calls, Request(c), NEW w, NEW v,
         \A i \in Recorded : w[i] \in Nat /\ v[i] = w[i],
         NEW most \in Nat, \A i \in Recorded' : v[i] \in Nat /\ (i \notin Recorded => v[i] <= most),
         NEW D
  PROVE  /\ Total(w, ChatIn(events, D)) \in Nat /\ Total(v, ChatIn(events', D)) \in Nat
         /\ \/ Total(v, ChatIn(events', D)) = Total(w, ChatIn(events, D))
            \/ /\ RecordObservation(c) /\ call[c].by = "chat" /\ call[c].day \in D
               /\ Total(v, ChatIn(events', D)) <= Total(w, ChatIn(events, D)) + most
<1>. DEFINE X == ChatIn(events, D)
<1>1. [Next]_vars
  BY DEF Next
<1>2. X \in SUBSET Recorded /\ IsFiniteSet(X)
  <2>1. X \in SUBSET Recorded
    BY DEF ChatIn, Recorded
  <2>. HIDE DEF X
  <2>. QED  BY <2>1, RecordedNat, FS_Subset
<1>3. Total(v, X) = Total(w, X) /\ Total(w, X) \in Nat
  <2>. HIDE DEF X
  <2>1. (\A i \in X : v[i] = w[i] /\ w[i] \in Int) /\ \A i \in X : w[i] \in Nat
    BY <1>2
  <2>. QED  BY <1>2, <2>1, TotalSame, TotalNat
<1>4. CASE UNCHANGED events
  <2>1. ChatIn(events', D) = X
    BY <1>4 DEF ChatIn
  <2>. HIDE DEF X
  <2>. QED  BY <1>3, <2>1 DEF X
<1>5. CASE RecordObservation(c)
  <2>. DEFINE e == [cost |-> call[c].cost, day |-> call[c].day, by |-> call[c].by]
  <2>1. PICK k \in Ids \ Recorded :
          events' = [j \in Recorded \cup {k} |-> IF j = k THEN e ELSE events[j]]
    BY <1>5 DEF RecordObservation
  <2>2. e.by = call[c].by /\ e.day = call[c].day
    OBVIOUS
  <2>. HIDE DEF e
  <2>3. /\ Recorded' = Recorded \cup {k} /\ events'[k] = e
        /\ \A i \in Recorded : events'[i] = events[i]
    BY <2>1 DEF Recorded
  <2>4. v[k] \in Nat /\ v[k] <= most
    BY <2>3
  <2>5. CASE call[c].by = "chat" /\ call[c].day \in D
    <3>1. ChatIn(events', D) = X \cup {k}
      BY <2>2, <2>3, <2>5 DEF ChatIn, Recorded
    <3>2. k \notin X
      BY <1>2
    <3>. HIDE DEF X
    <3>3. \A i \in X \cup {k} : v[i] \in Int
      BY <1>2, <2>3
    <3>4. Total(v, X \cup {k}) = v[k] + Total(v, X)
      BY <1>2, <3>2, <3>3, TotalAdd
    <3>. QED  BY <1>3, <1>5, <2>4, <2>5, <3>1, <3>4 DEF X
  <2>6. CASE ~(call[c].by = "chat" /\ call[c].day \in D)
    <3>1. ChatIn(events', D) = X
      BY <2>2, <2>3, <2>6 DEF ChatIn, Recorded
    <3>. HIDE DEF X
    <3>. QED  BY <1>3, <3>1 DEF X
  <2>. QED  BY <2>5, <2>6
<1>6. CASE ~RecordObservation(c)
  <2>1. UNCHANGED events
    BY <1>6 DEF Request, EnsureStartingGrant, ReadLedger, ReadPage, Decide, BeginFallback, Reply,
       NothingObserved, CallFails
  <2>. QED  BY <1>4, <2>1
<1>. QED  BY <1>5, <1>6

(* A step of a request keeps the room: one that starts counts only while   *)
(* what is there is below the limit, one that is allowed was counted, and  *)
(* one that writes its row is counted no more.                             *)
LEMMA RoomNext ==
  ASSUME TypedInv, TypedInv', NEW c \in Calls, Request(c), NEW w, NEW v,
         \A i \in Recorded : w[i] \in Nat /\ v[i] = w[i],
         NEW most \in Nat, \A i \in Recorded' : v[i] \in Nat /\ (i \notin Recorded => v[i] <= most),
         NEW h \in Nat, NEW D \in SUBSET Days, NEW B \in [Calls -> SUBSET Recorded],
         Decide(c) /\ Allowed(call[c].wallet, call[c].spend) /\ (\E d \in D : day <= d)
           => Total(w, DayIn(events, B[c], D)) < h,
         Room(w, most, h, D, B, call, events, day),
         NEW NB, NB = [b \in Calls |-> IF b = c /\ EnsureStartingGrant(c) THEN Recorded ELSE B[b]]
  PROVE  Room(v, most, h, D, NB, call', events', day)
<1>. DEFINE F == Quiet(call, B, w, h, D, events, day)
            G == Quiet(call', NB, v, h, D, events', day)
            a == Total(w, ChatIn(events, D))
            b == Total(v, ChatIn(events', D))
<1>1. [Next]_vars /\ day \in Nat /\ F \in SUBSET Calls /\ G \in SUBSET Calls
  BY DaysNat DEF Next, TypedInv, Quiet
<1>2. a \in Nat /\ b \in Nat
  BY ChatInNext
<1>3. \A o \in Calls : o # c => call'[o] = call[o]
  BY DEF TypedInv, Request, EnsureStartingGrant, ReadLedger, ReadPage, Decide, BeginFallback, Reply,
     NothingObserved, RecordObservation, CallFails, Become
<1>4. \A o \in Calls : Total(v, DayIn(events', B[o], D)) = Total(w, DayIn(events, B[o], D))
  <2>. SUFFICES ASSUME NEW o \in Calls
                PROVE  Total(v, DayIn(events', B[o], D)) = Total(w, DayIn(events, B[o], D))
    OBVIOUS
  <2>1. B[o] \in SUBSET Recorded
    OBVIOUS
  <2>. QED  BY <1>1, <2>1, SameTotals
<1>5. \A o \in Calls : o # c => (o \in F <=> o \in G)
  <2>. SUFFICES ASSUME NEW o \in Calls, o # c PROVE o \in F <=> o \in G
    OBVIOUS
  <2>1. NB[o] = B[o] /\ call'[o] = call[o]
    BY <1>3
  <2>2. MayBill(call'[o], NB[o], v, h, D, events', day) <=> MayBill(call[o], B[o], w, h, D, events, day)
    BY <1>4, <2>1 DEF MayBill
  <2>. QED  BY <2>2 DEF Quiet
<1>6. a < h + most * Cardinality(F)
  BY DEF Room
<1>7. CASE c \in F => c \in G
  <2>1. F \subseteq G
    BY <1>1, <1>5, <1>7
  <2>2. b = a \/ (b <= a + most /\ \E o \in G : o \notin F)
    <3>1. CASE b = a
      BY <3>1
    <3>2. CASE b # a
      <4>1. /\ RecordObservation(c) /\ call[c].by = "chat" /\ call[c].day \in D
            /\ b <= a + most
        BY <3>2, ChatInNext
      <4>2. call[c].pc = "record" /\ call'[c].pc = "idle"
        BY <4>1 DEF RecordObservation, At, Become, Idle, TypedInv
      <4>3. c \notin F /\ c \in G
        BY <4>1, <4>2 DEF Quiet, MayBill
      <4>. QED  BY <4>1, <4>3
    <3>. QED  BY <3>1, <3>2
  <2>3. b < h + most * Cardinality(G)
    <3>. HIDE DEF F, G, a, b
    <3>. QED  BY <1>1, <1>2, <1>6, <2>1, <2>2, RoomKept
  <2>. QED  BY <2>3 DEF Room
<1>8. CASE c \in F /\ c \notin G
  <2>1. /\ ~MayBill(call[c], B[c], w, h, D, events, day)
        /\ MayBill(call'[c], NB[c], v, h, D, events', day)
    BY <1>8 DEF Quiet
  <2>2. call[c].pc = "read" => call[c].by = "chat"
    BY DEF TypedInv, Fine
  <2>3. EnsureStartingGrant(c) /\ call'[c].pc = "read"
    <3>1. CASE /\ ReadLedger(c) \/ ReadPage(c)
               /\ call[c].pc = "read" /\ call'[c].pc = "read" /\ call'[c].by = call[c].by
      <4>1. NB[c] = B[c]
        BY <3>1 DEF EnsureStartingGrant, At
      <4>. QED  BY <1>4, <2>1, <3>1, <4>1 DEF MayBill
    <3>2. CASE Decide(c) /\ Allowed(call[c].wallet, call[c].spend) /\ call[c].pc = "read" /\ call'[c].pc = "send"
      BY <2>1, <2>2, <3>2 DEF MayBill
    <3>3. CASE BeginFallback(c) /\ call'[c].pc = "send" /\ call'[c].by = "fallback"
      BY <2>1, <3>3 DEF MayBill
    <3>4. CASE /\ Reply(c) /\ call[c].pc = "send" /\ call'[c].pc = "record"
               /\ call'[c].by = call[c].by /\ call'[c].day = day
      <4>1. day \in D => \E d \in D : day <= d
        BY <1>1
      <4>. QED  BY <2>1, <3>4, <4>1 DEF MayBill
    <3>5. CASE call'[c].pc = "idle"
      BY <2>1, <3>5 DEF MayBill
    <3>. QED  BY <3>1, <3>2, <3>3, <3>4, <3>5, AfterRequest
  <2>4. UNCHANGED events /\ NB[c] = Recorded
    BY <2>3 DEF EnsureStartingGrant
  <2>5. Total(v, DayIn(events, Recorded, D)) < h
    BY <2>1, <2>3, <2>4 DEF MayBill
  <2>6. b <= Total(v, DayIn(events, Recorded, D)) /\ Total(v, DayIn(events, Recorded, D)) \in Nat
    <3>. DEFINE X == ChatIn(events, D)
                Y == DayIn(events, Recorded, D)
    <3>1. X \in SUBSET Y /\ Y \in SUBSET Recorded
      BY DEF ChatIn, DayIn, Recorded
    <3>2. b = Total(v, X)
      BY <2>4
    <3>. HIDE DEF X, Y, b
    <3>3. IsFiniteSet(Y)
      BY <3>1, RecordedNat, FS_Subset
    <3>4. (\A i \in Y : v[i] \in Nat) /\ \A i \in X : v[i] \in Nat /\ v[i] <= v[i]
      BY <3>1
    <3>5. Total(v, X) <= Total(v, Y) /\ Total(v, Y) \in Nat
      BY <3>1, <3>3, <3>4, TotalWithin, TotalNat
    <3>. QED  BY <3>2, <3>5 DEF Y
  <2>7. most * Cardinality(G) \in Nat
    <3>. HIDE DEF G
    <3>1. Cardinality(G) \in Nat
      BY <1>1, WalletAssumption, FS_Subset, FS_CardinalityType
    <3>. QED  BY <3>1
  <2>8. b < h + most * Cardinality(G)
    <3>. HIDE DEF b, G
    <3>. QED  BY <1>2, <2>5, <2>6, <2>7
  <2>. QED  BY <2>8 DEF Room
<1>. QED  BY <1>7, <1>8

(* A new day lets no more requests bill. *)
LEMMA RoomNextDay ==
  ASSUME TypedInv, NextDay, NEW w, NEW most \in Nat, NEW h \in Nat, NEW D \in SUBSET Days, NEW B,
         \A i \in Recorded : w[i] \in Nat,
         Room(w, most, h, D, B, call, events, day)
  PROVE  Room(w, most, h, D, B, call, events, day')
<1>. DEFINE F == Quiet(call, B, w, h, D, events, day)
            G == Quiet(call, B, w, h, D, events, day')
            a == Total(w, ChatIn(events, D))
<1>1. day \in Nat /\ day' = day + 1 /\ D \subseteq Nat
  BY DaysNat DEF NextDay, TypedInv
<1>2. F \in SUBSET Calls /\ G \in SUBSET Calls /\ F \subseteq G
  <2>1. \A d \in D : day' <= d => day <= d
    BY <1>1
  <2>. QED  BY <2>1 DEF Quiet, MayBill
<1>3. a \in Int
  <2>1. ChatIn(events, D) \in SUBSET Recorded
    BY DEF ChatIn, Recorded
  <2>2. IsFiniteSet(ChatIn(events, D)) /\ \A i \in ChatIn(events, D) : w[i] \in Nat
    BY <2>1, RecordedNat, FS_Subset
  <2>3. Total(w, ChatIn(events, D)) \in Nat
    BY <2>2, TotalNat
  <2>. QED  BY <2>3
<1>4. a < h + most * Cardinality(F)
  BY DEF Room
<1>5. a < h + most * Cardinality(G)
  <2>. HIDE DEF F, G, a
  <2>. QED  BY <1>2, <1>3, <1>4, RoomKept
<1>. QED  BY <1>5 DEF Room

-----------------------------------------------------------------------------
(* The invariant.                                                          *)

LEMMA CostsMax == Max(Costs) \in Nat /\ Max(Costs) > 0 /\ \A cost \in Costs : cost <= Max(Costs)
<1>1. Costs \in SUBSET Nat /\ IsFiniteSet(Costs) /\ \E cost \in Costs : cost > 0
  BY WalletAssumption
<1>2. Max(Costs) \in Costs /\ \A cost \in Costs : cost <= Max(Costs)
  <2>1. Costs # {}
    BY <1>1
  <2>. QED  BY <1>1, <2>1, MaxIs
<1>3. PICK cost \in Costs : cost > 0
  BY <1>1
<1>4. Max(Costs) \in Nat /\ cost \in Nat /\ cost <= Max(Costs)
  BY <1>1, <1>2
<1>. QED  BY <1>2, <1>3, <1>4

One == [i \in Ids |-> 1]

(* A message reads the ledger with its grant written, and a wallet in hand *)
(* is no better than the account.                                          *)
GrantWritten == \A c \in Calls : call[c].pc = "read" => RowsOf(StartingReference) # {}

WalletsRead ==
  /\ GrantWritten
  /\ \A c \in Calls : call[c].wallet # NotRead =>
       call[c].wallet.credit <= GivenOrPaid /\ (call[c].wallet.paid => EverPaid)

Remembered(B) == \A c \in Calls : Covered(call[c], B[c], Cost, events, day)

(* There is room below every limit at or above what was given or paid,     *)
Budget(B) ==
  \A h \in Nat : h >= GivenOrPaid => Room(Cost, Max(Costs), h, Days, B, call, events, day)

(* and of every day below the money rail and the limit of messages.        *)
Rails(B) ==
  \A d \in Days : \A h \in Nat :
    /\ h >= RailCap => Room(Cost, Max(Costs), h, {d}, B, call, events, day)
    /\ h >= RequestLimit => Room(One, 1, h, {d}, B, call, events, day)

SpendInv ==
  /\ TypedInv /\ WalletsRead
  /\ \E B \in [Calls -> SUBSET Recorded] :
       Remembered(B) /\ Budget(B) /\ (FreeCap <= PaidCap => Rails(B))

LEMMA SpendInit == Init => SpendInv
<1>. SUFFICES ASSUME Init PROVE SpendInv
  OBVIOUS
<1>1. TypedInv
  BY InitTyped
<1>2. Recorded = {} /\ call = [c \in Calls |-> Idle] /\ Idle.pc = "idle" /\ Idle.wallet = NotRead
  BY DEF Init, Recorded, Idle
<1>3. WalletsRead
  BY <1>2 DEF WalletsRead, GrantWritten
<1>. DEFINE B == [c \in Calls |-> {}]
<1>4. Remembered(B)
  BY <1>2 DEF Remembered, Covered
<1>5. ASSUME NEW w, NEW most \in Nat, most > 0, NEW h \in Nat, NEW D
      PROVE  Room(w, most, h, D, B, call, events, day)
  <2>1. ChatIn(events, D) = {}
    BY <1>2 DEF ChatIn, Recorded
  <2>2. Quiet(call, B, w, h, D, events, day) = Calls
    BY <1>2 DEF Quiet, MayBill
  <2>3. Cardinality(Calls) \in Nat /\ Cardinality(Calls) # 0
    BY WalletAssumption, FS_CardinalityType, FS_EmptySet
  <2>4. \A a, b \in Nat : a > 0 /\ b # 0 => 0 < a * b /\ a * b \in Nat
    OBVIOUS
  <2>5. 0 < most * Cardinality(Calls) /\ most * Cardinality(Calls) \in Nat
    BY <1>5, <2>3, <2>4
  <2>. QED  BY <1>5, <2>1, <2>2, <2>5, TotalEmpty DEF Room
<1>6. Budget(B) /\ Rails(B)
  BY SMTT(30), <1>5, CostsMax DEF Budget, Rails
<1>7. B \in [Calls -> SUBSET Recorded]
  OBVIOUS
<1>. HIDE DEF B
<1>. QED  BY <1>1, <1>3, <1>4, <1>6, <1>7 DEF SpendInv

LEMMA GrantWrittenNext ==
  ASSUME TypedInv, GrantWritten, [Next]_vars
  PROVE  GrantWritten'
<1>1. \A m \in Entries : ledger[m] \in Nat /\ ledger[m] <= ledger'[m]
  BY LedgerGrows DEF TypedInv, LedgerInv, LedgerTyped
<1>2. ASSUME RowsOf(StartingReference) # {} PROVE RowsOf(StartingReference)' # {}
  <2>1. PICK m \in Entries : m.reference = StartingReference /\ ledger[m] > 0
    BY <1>2 DEF RowsOf
  <2>2. ledger'[m] \in Nat
    BY NextTyped DEF TypedInv, LedgerInv, LedgerTyped
  <2>. QED  BY <1>1, <2>1, <2>2 DEF RowsOf
<1>3. ASSUME NEW c \in Calls, Request(c), NEW o \in Calls, call'[o].pc = "read"
      PROVE  RowsOf(StartingReference)' # {}
  <2>1. CASE EnsureStartingGrant(c)
    <3>1. InsertEntry(StartingGrant)
      BY <2>1 DEF EnsureStartingGrant
    <3>2. \E n \in Entries : n.reference = StartingGrant.reference /\ ledger'[n] > 0
      BY <3>1, InsertKeepsUnique, MovementsApart DEF TypedInv
    <3>. QED  BY <3>2, MovementsApart DEF RowsOf
  <2>2. CASE ~EnsureStartingGrant(c)
    <3>1. call[o].pc = "read"
      <4>1. CASE o = c
        BY <1>3, <2>2, <4>1, AfterRequest
      <4>2. CASE o # c
        BY <1>3, <4>2 DEF TypedInv, Request, EnsureStartingGrant, ReadLedger, ReadPage, Decide,
           BeginFallback, Reply, NothingObserved, RecordObservation, CallFails, Become
      <4>. QED  BY <4>1, <4>2
    <3>. QED  BY <1>2, <3>1 DEF GrantWritten
  <2>. QED  BY <2>1, <2>2
<1>4. CASE UNCHANGED call
  BY <1>2, <1>4 DEF GrantWritten
<1>5. CASE \E c \in Calls : Request(c)
  BY <1>3, <1>5 DEF GrantWritten
<1>6. CASE ~(\E c \in Calls : Request(c))
  <2>1. UNCHANGED call
    BY <1>6 DEF Next, CreditWallet, CreditUnanswered, NextDay, vars
  <2>. QED  BY <1>4, <2>1
<1>. QED  BY <1>5, <1>6

LEMMA WalletsReadNext ==
  ASSUME TypedInv, TypedInv', WalletsRead, [Next]_vars
  PROVE  WalletsRead'
<1>8. GrantWritten /\ GrantWritten'
  BY GrantWrittenNext DEF WalletsRead
<1>1. GivenOrPaid <= GivenOrPaid' /\ (EverPaid => EverPaid')
  BY GivenGrows DEF TypedInv
<1>2. /\ RowsOf(StartingReference) # {} => Credited <= GivenOrPaid
      /\ Funded => EverPaid
      /\ GivenOrPaid \in Nat /\ GivenOrPaid' \in Nat
  <2>1. /\ RowsOf(StartingReference) # {} => Credited <= GivenOrPaid
        /\ GivenOrPaid \in Nat /\ (Funded => EverPaid)
    BY CreditedGiven, FundedPaid DEF TypedInv
  <2>2. (LedgerInv => GivenOrPaid \in Nat)'
    BY CreditedGiven, PTL
  <2>. QED  BY <2>1, <2>2 DEF TypedInv
<1>3. [credit |-> Credited, paid |-> Funded] \in Wallet /\ \A c \in Calls : call[c] \in Call
  BY CreditType DEF TypedInv, LedgerInv
<1>4. ASSUME NEW c \in Calls, call'[c].wallet # NotRead, call'[c].wallet = call[c].wallet
      PROVE  call'[c].wallet.credit <= GivenOrPaid' /\ (call'[c].wallet.paid => EverPaid')
  <2>1. call[c].wallet.credit \in Int
    BY <1>3, <1>4 DEF Call, Wallet
  <2>2. call[c].wallet.credit <= GivenOrPaid /\ (call[c].wallet.paid => EverPaid)
    BY <1>4 DEF WalletsRead
  <2>. QED  BY <1>1, <1>2, <1>4, <2>1, <2>2
<1>5. CASE UNCHANGED call
  BY <1>4, <1>5, <1>8 DEF WalletsRead
<1>6. ASSUME NEW c \in Calls, Request(c) PROVE WalletsRead'
  <2>. SUFFICES ASSUME NEW o \in Calls, call'[o].wallet # NotRead
                PROVE  call'[o].wallet.credit <= GivenOrPaid' /\ (call'[o].wallet.paid => EverPaid')
    BY <1>8 DEF WalletsRead
  <2>1. CASE o # c
    <3>1. call'[o] = call[o]
      BY <1>6, <2>1 DEF TypedInv, Request, EnsureStartingGrant, ReadLedger, ReadPage, Decide,
         BeginFallback, Reply, NothingObserved, RecordObservation, CallFails, Become
    <3>. QED  BY <1>4, <3>1
  <2>2. CASE o = c
    <3>1. call'[c].pc = "read"
      BY <2>2 DEF TypedInv, Fine
    <3>2. \A s : Become(c, s) => call'[c] = s
      BY DEF TypedInv, Become
    <3>3. CASE EnsureStartingGrant(c)
      <4>1. call'[c].wallet = NotRead
        BY <3>2, <3>3 DEF EnsureStartingGrant, Idle
      <4>. QED  BY <2>2, <4>1
    <3>4. CASE ReadLedger(c)
      <4>. DEFINE w == [credit |-> Credited, paid |-> Funded]
      <4>1. call'[c] = [call[c] EXCEPT !.wallet = w]
        BY <3>2, <3>4 DEF ReadLedger
      <4>2. w.credit = Credited /\ w.paid = Funded
        OBVIOUS
      <4>. HIDE DEF w
      <4>3. call'[c].wallet = w
        BY <1>3, <4>1 DEF Call
      <4>4. Credited \in Int
        BY <1>3 DEF Wallet
      <4>5. RowsOf(StartingReference) # {}
        BY <1>8, <3>4 DEF GrantWritten, ReadLedger, At
      <4>. QED  BY <1>1, <1>2, <2>2, <4>2, <4>3, <4>4, <4>5
    <3>5. CASE ReadPage(c)
      <4>. DEFINE page == Page(call[c].from)
                  seen == [i \in Ids |-> call[c].seen[i] + (IF i \in page THEN 1 ELSE 0)]
                  s == IF Cardinality(page) = PageSize
                       THEN [call[c] EXCEPT !.from = @ + PageSize, !.seen = seen]
                       ELSE [call[c] EXCEPT !.from = 0, !.seen = Idle.seen, !.spend = SpendOf(seen)]
      <4>1. call'[c] = s
        BY <3>2, <3>5 DEF ReadPage
      <4>2. s.wallet = call[c].wallet
        BY <1>3 DEF Call
      <4>. HIDE DEF s
      <4>3. call'[c].wallet = call[c].wallet
        BY <4>1, <4>2
      <4>. QED  BY <1>4, <2>2, <4>3
    <3>. QED  BY <1>6, <3>1, <3>3, <3>4, <3>5, AfterRequest
  <2>. QED  BY <2>1, <2>2
<1>7. CASE ~(\E c \in Calls : Request(c))
  <2>1. UNCHANGED call
    BY <1>7 DEF Next, CreditWallet, CreditUnanswered, NextDay, vars
  <2>. QED  BY <1>5, <2>1
<1>. QED  BY <1>6, <1>7

(* What a message is allowed on is below every limit. *)
LEMMA AllowedBelow ==
  ASSUME TypedInv, WalletsRead, NEW c \in Calls, Decide(c),
         Allowed(call[c].wallet, call[c].spend),
         NEW B \in SUBSET Recorded, Covered(call[c], B, Cost, events, day)
  PROVE  /\ Total(Cost, DayIn(events, B, Days)) < GivenOrPaid
         /\ \A d \in Days : day <= d =>
              /\ Total(One, DayIn(events, B, {d})) < RequestLimit
              /\ FreeCap <= PaidCap => Total(Cost, DayIn(events, B, {d})) < RailCap
<1>. DEFINE wallet == call[c].wallet
            spend == call[c].spend
            T(d) == DayIn(events, B, {d})
<1>1. wallet \in Wallet /\ spend \in Spend /\ call[c].pc = "read" /\ spend # NotRead /\ wallet # NotRead
  BY DEF TypedInv, Call, Decide, At
<1>2. wallet.credit \in Int /\ spend.lifetime \in Nat /\ spend.today \in Nat /\ spend.requests \in Nat
  BY <1>1 DEF Wallet, Spend
<1>3. /\ Total(Cost, B) = call[c].before /\ spend.lifetime >= call[c].before
      /\ spend.today >= Total(Cost, T(day)) /\ spend.requests >= Cardinality(T(day))
  BY <1>1 DEF Covered
<1>4. /\ wallet.credit - spend.lifetime > 0
      /\ spend.today < DailyCap(wallet) /\ spend.requests < RequestLimit
  BY DEF Allowed
<1>5. wallet.credit <= GivenOrPaid /\ (wallet.paid => EverPaid) /\ GivenOrPaid \in Nat
  BY <1>1, CreditedGiven DEF WalletsRead, TypedInv
<1>6. FreeCap \in Nat /\ PaidCap \in Nat /\ RequestLimit \in Nat
  BY WalletAssumption
<1>7. FreeCap <= PaidCap => DailyCap(wallet) <= RailCap
  BY <1>5, <1>6 DEF DailyCap, RailCap
<1>8. DailyCap(wallet) \in Nat /\ RailCap \in Nat
  BY <1>6 DEF DailyCap, RailCap
<1>. HIDE DEF wallet, spend
<1>9. DayIn(events, B, Days) = B
  BY DEF DayIn, TypedInv, Priced, Event
<1>10. /\ \A S \in SUBSET B : IsFiniteSet(S) /\ Total(Cost, S) \in Nat
       /\ \A S \in SUBSET B : Total(One, S) = Cardinality(S)
  <2>. SUFFICES ASSUME NEW S \in SUBSET B
                PROVE  /\ IsFiniteSet(S) /\ Total(Cost, S) \in Nat
                       /\ Total(One, S) = Cardinality(S)
    OBVIOUS
  <2>1. S \in SUBSET Recorded /\ S \in SUBSET Ids
    BY RecordedNat
  <2>2. IsFiniteSet(S) /\ \A i \in S : Cost[i] \in Nat
    BY <2>1, RecordedNat, FS_Subset
  <2>3. \A i \in S : One[i] = 1
    BY <2>1 DEF One
  <2>. QED  BY <2>2, <2>3, TotalNat, TotalOnes
<1>11. Total(Cost, DayIn(events, B, Days)) < GivenOrPaid
  BY <1>2, <1>3, <1>4, <1>5, <1>9, <1>10
<1>12. ASSUME NEW d \in Days, day <= d
       PROVE  /\ Total(One, T(d)) < RequestLimit
              /\ FreeCap <= PaidCap => Total(Cost, T(d)) < RailCap
  <2>1. T(d) \in SUBSET B /\ T(day) \in SUBSET B
    BY DEF DayIn
  <2>2. Cardinality(T(d)) \in Nat /\ Cardinality(T(day)) \in Nat
    BY <1>10, <2>1, FS_CardinalityType
  <2>3. CASE d = day
    BY <1>2, <1>3, <1>4, <1>6, <1>7, <1>8, <1>10, <2>1, <2>2, <2>3
  <2>4. CASE d # day
    <3>1. d \in Nat /\ day \in Nat /\ d > day
      BY <1>12, <2>4, DaysNat DEF TypedInv
    <3>2. \A i \in B : events[i].day \in Nat /\ events[i].day <= day
      BY DaysNat DEF TypedInv, Priced, Event
    <3>3. T(d) = {}
      BY <3>1, <3>2 DEF DayIn
    <3>4. Total(Cost, T(d)) = 0 /\ Total(One, T(d)) = 0
      BY <3>3, TotalEmpty
    <3>. QED  BY <1>2, <1>4, <1>6, <1>7, <1>8, <3>4
  <2>. QED  BY <2>3, <2>4
<1>. QED  BY <1>11, <1>12

LEMMA CostsBelowMax ==
  ASSUME TypedInv
  PROVE  \A i \in Recorded : Cost[i] \in Nat /\ Cost[i] <= Max(Costs) /\ One[i] = 1
<1>. SUFFICES ASSUME NEW i \in Recorded
              PROVE  Cost[i] \in Nat /\ Cost[i] <= Max(Costs) /\ One[i] = 1
  OBVIOUS
<1>1. i \in Ids /\ events[i].cost \in Costs
  BY DEF TypedInv, Priced, Event
<1>2. Cost[i] \in Costs
  BY <1>1 DEF Cost
<1>. QED  BY <1>1, <1>2, CostsMax, WalletAssumption DEF One

LEMMA RequestKeepsSpend ==
  ASSUME SpendInv, TypedInv', WalletsRead', NEW c \in Calls, Request(c)
  PROVE  SpendInv'
<1>1. TypedInv /\ WalletsRead /\ [Next]_vars
  BY DEF SpendInv, Next
<1>2. PICK B \in [Calls -> SUBSET Recorded] :
        Remembered(B) /\ Budget(B) /\ (FreeCap <= PaidCap => Rails(B))
  BY DEF SpendInv
<1>14. PICK NB : NB = [b \in Calls |-> IF b = c /\ EnsureStartingGrant(c) THEN Recorded ELSE B[b]]
  OBVIOUS
<1>3. /\ Recorded \subseteq Recorded'
      /\ \A i \in Recorded : events'[i] = events[i] /\ Cost'[i] = Cost[i] /\ Cost[i] \in Nat
  BY <1>1, EventsStay, CostsBelowMax
<1>4. \A i \in Recorded' : Cost'[i] \in Nat /\ Cost'[i] <= Max(Costs) /\ One[i] = 1
  <2>1. (TypedInv => \A i \in Recorded : Cost[i] \in Nat /\ Cost[i] <= Max(Costs) /\ One[i] = 1)'
    BY CostsBelowMax, PTL
  <2>. QED  BY <2>1
<1>5. day' = day /\ GivenOrPaid \in Nat /\ GivenOrPaid' \in Nat
      /\ GivenOrPaid <= GivenOrPaid' /\ (EverPaid => EverPaid')
  <2>1. day' = day
    BY DEF Request, EnsureStartingGrant, ReadLedger, ReadPage, Decide, BeginFallback, Reply,
       NothingObserved, RecordObservation, CallFails
  <2>2. (LedgerInv => GivenOrPaid \in Nat)'
    BY CreditedGiven, PTL
  <2>. QED  BY <1>1, <2>1, <2>2, GivenGrows, CreditedGiven DEF TypedInv
<1>6. RailCap \in Nat /\ RailCap' \in Nat /\ (FreeCap <= PaidCap => RailCap <= RailCap') /\ RequestLimit \in Nat
  BY <1>5, WalletAssumption DEF RailCap
<1>7. PICK w : w = Cost
  OBVIOUS
<1>8. PICK v : v = Cost'
  OBVIOUS
<1>9. PICK one : one = One
  OBVIOUS
<1>10. NB \in [Calls -> SUBSET Recorded'] /\ \A o \in Calls : B[o] \in SUBSET Recorded
  BY <1>3, <1>14
<1>11. Remembered(NB)'
  <2>. SUFFICES ASSUME NEW o \in Calls PROVE Covered(call'[o], NB[o], v, events', day)
    BY <1>5, <1>8 DEF Remembered
  <2>1. Covered(call[o], B[o], w, events, day) /\ call[o] \in Call /\ call'[o] \in Call
    BY <1>1, <1>2, <1>7 DEF Remembered, TypedInv
  <2>2. /\ DOMAIN events \subseteq DOMAIN events' /\ DOMAIN events' \in SUBSET Nat
        /\ IsFiniteSet(DOMAIN events')
        /\ \A i \in DOMAIN events : events'[i] = events[i] /\ v[i] = w[i] /\ w[i] \in Nat
    <3>1. Recorded' \subseteq Ids
      BY DEF TypedInv, Priced
    <3>2. Recorded' \in SUBSET Nat /\ IsFiniteSet(Recorded')
      BY <3>1, WalletAssumption, FS_Subset
    <3>. QED  BY <1>3, <1>7, <1>8, <3>2 DEF Recorded
  <2>3. CASE o # c
    <3>1. call'[o] = call[o]
      BY <1>1, <2>3 DEF TypedInv, Request, EnsureStartingGrant, ReadLedger, ReadPage, Decide,
         BeginFallback, Reply, NothingObserved, RecordObservation, CallFails, Become
    <3>2. NB[o] = B[o] /\ B[o] \in SUBSET DOMAIN events
      BY <1>10, <1>14, <2>3 DEF Recorded
    <3>. QED  BY <2>1, <2>2, <3>1, <3>2, CoveredStays
  <2>4. CASE o = c
    <3>1. Covered(call'[c], NB[c], w, events, day)
      <4>1. Covered(call'[c], IF EnsureStartingGrant(c) THEN Recorded ELSE B[c], Cost, events, day)
        <5>1. Covered(call[c], B[c], Cost, events, day) /\ B[c] \in SUBSET Recorded
          BY <1>7, <1>10, <2>1, <2>4
        <5>. QED  BY <1>1, <5>1, CoveredNext
      <4>2. NB[c] = IF EnsureStartingGrant(c) THEN Recorded ELSE B[c]
        BY <1>14
      <4>. QED  BY <1>7, <4>1, <4>2
    <3>2. NB[c] \in SUBSET DOMAIN events
      BY <1>10, <1>14 DEF Recorded
    <3>. QED  BY <2>1, <2>2, <2>4, <3>1, <3>2, CoveredStays
  <2>. QED  BY <2>3, <2>4
<1>12. Decide(c) /\ Allowed(call[c].wallet, call[c].spend) =>
         /\ Total(w, DayIn(events, B[c], Days)) < GivenOrPaid
         /\ \A d \in Days : day <= d =>
              /\ Total(one, DayIn(events, B[c], {d})) < RequestLimit
              /\ FreeCap <= PaidCap => Total(w, DayIn(events, B[c], {d})) < RailCap
  BY <1>1, <1>2, <1>7, <1>9, <1>10, AllowedBelow DEF Remembered
<1>13. /\ \A i \in Recorded : w[i] \in Nat /\ v[i] = w[i] /\ one[i] \in Nat /\ one[i] = one[i]
       /\ \A i \in Recorded' : v[i] \in Nat /\ (i \notin Recorded => v[i] <= Max(Costs))
       /\ \A i \in Recorded' : one[i] \in Nat /\ (i \notin Recorded => one[i] <= 1)
       /\ Max(Costs) \in Nat
       /\ \A S \in SUBSET Recorded : \A D : Total(w, DayIn(events, S, D)) \in Nat /\ Total(one, DayIn(events, S, D)) \in Nat
  <2>1. /\ \A i \in Recorded : w[i] \in Nat /\ v[i] = w[i] /\ one[i] \in Nat /\ one[i] = one[i]
        /\ \A i \in Recorded' : v[i] \in Nat /\ (i \notin Recorded => v[i] <= Max(Costs))
        /\ \A i \in Recorded' : one[i] \in Nat /\ (i \notin Recorded => one[i] <= 1)
    BY <1>3, <1>4, <1>7, <1>8, <1>9
  <2>. QED  BY <1>1, <2>1, CostsMax, SameTotals
<1>15. Budget(NB)'
  <2>. SUFFICES ASSUME NEW h \in Nat, h >= GivenOrPaid'
                PROVE  Room(v, Max(Costs), h, Days, NB, call', events', day)
    BY <1>5, <1>8 DEF Budget
  <2>1. h >= GivenOrPaid
    BY <1>5
  <2>2. Room(w, Max(Costs), h, Days, B, call, events, day)
    BY <1>2, <1>7, <2>1 DEF Budget
  <2>3. Decide(c) /\ Allowed(call[c].wallet, call[c].spend) /\ (\E d \in Days : day <= d)
          => Total(w, DayIn(events, B[c], Days)) < h
    BY <1>5, <1>10, <1>12, <1>13, <2>1
  <2>4. Days \in SUBSET Days
    OBVIOUS
  <2>. QED  BY <1>1, <1>13, <1>14, <2>2, <2>3, <2>4, RoomNext
<1>16. ASSUME FreeCap <= PaidCap PROVE Rails(NB)'
  <2>. SUFFICES ASSUME NEW d \in Days, NEW h \in Nat
                PROVE  /\ h >= RailCap' => Room(v, Max(Costs), h, {d}, NB, call', events', day)
                       /\ h >= RequestLimit => Room(one, 1, h, {d}, NB, call', events', day)
    BY <1>5, <1>8, <1>9 DEF Rails
  <2>1. {d} \in SUBSET Days
    OBVIOUS
  <2>2. ASSUME h >= RailCap' PROVE Room(v, Max(Costs), h, {d}, NB, call', events', day)
    <3>1. h >= RailCap
      BY <1>6, <1>16, <2>2
    <3>2. Room(w, Max(Costs), h, {d}, B, call, events, day)
      BY <1>2, <1>7, <1>16, <3>1 DEF Rails
    <3>3. Decide(c) /\ Allowed(call[c].wallet, call[c].spend) /\ (\E e \in {d} : day <= e)
            => Total(w, DayIn(events, B[c], {d})) < h
      BY <1>6, <1>10, <1>12, <1>13, <1>16, <3>1
    <3>. QED  BY <1>1, <1>13, <1>14, <2>1, <3>2, <3>3, RoomNext
  <2>3. ASSUME h >= RequestLimit PROVE Room(one, 1, h, {d}, NB, call', events', day)
    <3>1. Room(one, 1, h, {d}, B, call, events, day)
      BY <1>2, <1>9, <1>16, <2>3 DEF Rails
    <3>2. Decide(c) /\ Allowed(call[c].wallet, call[c].spend) /\ (\E e \in {d} : day <= e)
            => Total(one, DayIn(events, B[c], {d})) < h
      BY <1>6, <1>10, <1>12, <1>13, <2>3
    <3>. QED  BY <1>1, <1>13, <1>14, <2>1, <3>1, <3>2, RoomNext
  <2>. QED  BY <2>2, <2>3
<1>. QED  BY <1>10, <1>11, <1>15, <1>16 DEF SpendInv

(* A new day, and what is done to the ledger alone. *)
LEMMA NewDayKeepsSpend ==
  ASSUME SpendInv, TypedInv', WalletsRead', NextDay
  PROVE  SpendInv'
<1>1. TypedInv /\ [Next]_vars /\ UNCHANGED <<ledger, events, call, answered>>
  BY DEF SpendInv, Next, NextDay
<1>2. PICK B \in [Calls -> SUBSET Recorded] :
        Remembered(B) /\ Budget(B) /\ (FreeCap <= PaidCap => Rails(B))
  BY DEF SpendInv
<1>3. Cost' = Cost /\ Recorded' = Recorded /\ RailCap' = RailCap
      /\ \A h \in Nat : h >= GivenOrPaid' => h >= GivenOrPaid
  <2>1. (LedgerInv => GivenOrPaid \in Nat)'
    BY CreditedGiven, PTL
  <2>2. GivenOrPaid \in Nat /\ GivenOrPaid' \in Nat /\ GivenOrPaid <= GivenOrPaid'
    BY <1>1, <2>1, GivenGrows, CreditedGiven DEF TypedInv
  <2>. QED  BY <1>1, <2>2 DEF Cost, Recorded, RailCap, EverPaid
<1>4. Recorded \in SUBSET Nat /\ IsFiniteSet(Recorded) /\ \A i \in Recorded : Cost[i] \in Nat /\ One[i] \in Nat
  BY <1>1, RecordedNat, CostsBelowMax
<1>5. PICK w : w = Cost
  OBVIOUS
<1>6. PICK one : one = One
  OBVIOUS
<1>7. Remembered(B)'
  <2>. SUFFICES ASSUME NEW c \in Calls PROVE Covered(call[c], B[c], w, events, day')
    BY <1>1, <1>3, <1>5 DEF Remembered
  <2>1. Covered(call[c], B[c], w, events, day) /\ call[c] \in Call
    BY <1>1, <1>2, <1>5 DEF Remembered, TypedInv
  <2>2. \A i \in DOMAIN events : events[i].day # day'
    <3>1. \A i \in Recorded : events[i].day \in Nat /\ events[i].day <= day
      BY <1>1, DaysNat DEF TypedInv, Priced, Event
    <3>2. day \in Nat /\ day' = day + 1
      BY <1>1, DaysNat DEF NextDay, TypedInv
    <3>. QED  BY <3>1, <3>2 DEF Recorded
  <2>3. /\ DOMAIN events \subseteq DOMAIN events /\ DOMAIN events \in SUBSET Nat
        /\ IsFiniteSet(DOMAIN events) /\ B[c] \in SUBSET DOMAIN events
        /\ \A i \in DOMAIN events : events[i] = events[i] /\ w[i] = w[i] /\ w[i] \in Nat
    BY <1>4, <1>5 DEF Recorded
  <2>. QED  BY <2>1, <2>2, <2>3, CoveredStays
<1>8. /\ \A i \in Recorded : w[i] \in Nat
      /\ \A i \in Recorded : one[i] \in Nat
      /\ Max(Costs) \in Nat
  BY <1>4, <1>5, <1>6, CostsMax
<1>9. Budget(B)'
  <2>. SUFFICES ASSUME NEW h \in Nat, h >= GivenOrPaid'
                PROVE  Room(w, Max(Costs), h, Days, B, call, events, day')
    BY <1>1, <1>3, <1>5 DEF Budget
  <2>1. Room(w, Max(Costs), h, Days, B, call, events, day) /\ Days \in SUBSET Days
    BY <1>2, <1>3, <1>5 DEF Budget
  <2>. QED  BY <1>1, <1>8, <2>1, RoomNextDay
<1>10. ASSUME FreeCap <= PaidCap PROVE Rails(B)'
  <2>. SUFFICES ASSUME NEW d \in Days, NEW h \in Nat
                PROVE  /\ h >= RailCap => Room(w, Max(Costs), h, {d}, B, call, events, day')
                       /\ h >= RequestLimit => Room(one, 1, h, {d}, B, call, events, day')
    BY <1>1, <1>3, <1>5, <1>6 DEF Rails
  <2>1. {d} \in SUBSET Days
    OBVIOUS
  <2>2. ASSUME h >= RailCap PROVE Room(w, Max(Costs), h, {d}, B, call, events, day')
    <3>1. Room(w, Max(Costs), h, {d}, B, call, events, day)
      BY <1>2, <1>5, <1>10, <2>2 DEF Rails
    <3>. QED  BY <1>1, <1>8, <2>1, <3>1, RoomNextDay
  <2>3. ASSUME h >= RequestLimit PROVE Room(one, 1, h, {d}, B, call, events, day')
    <3>1. Room(one, 1, h, {d}, B, call, events, day)
      BY <1>2, <1>6, <1>10, <2>3 DEF Rails
    <3>. QED  BY <1>1, <1>8, <2>1, <3>1, RoomNextDay
  <2>. QED  BY <2>2, <2>3
<1>. QED  BY <1>2, <1>3, <1>7, <1>9, <1>10 DEF SpendInv

LEMMA LedgerKeepsSpend ==
  ASSUME SpendInv, TypedInv', WalletsRead', [Next]_vars, UNCHANGED <<events, call, day>>
  PROVE  SpendInv'
<1>1. TypedInv
  BY DEF SpendInv
<1>2. PICK B \in [Calls -> SUBSET Recorded] :
        Remembered(B) /\ Budget(B) /\ (FreeCap <= PaidCap => Rails(B))
  BY DEF SpendInv
<1>3. Cost' = Cost /\ Recorded' = Recorded
  BY DEF Cost, Recorded
<1>4. /\ GivenOrPaid \in Nat /\ GivenOrPaid' \in Nat
      /\ GivenOrPaid <= GivenOrPaid' /\ (EverPaid => EverPaid')
  <2>1. (LedgerInv => GivenOrPaid \in Nat)'
    BY CreditedGiven, PTL
  <2>. QED  BY <1>1, <2>1, GivenGrows, CreditedGiven DEF TypedInv
<1>5. RailCap \in Nat /\ RailCap' \in Nat /\ (FreeCap <= PaidCap => RailCap <= RailCap')
  BY <1>4, WalletAssumption DEF RailCap
<1>6. Remembered(B)'
  BY <1>2, <1>3 DEF Remembered
<1>7. \A h \in Nat : h >= GivenOrPaid' => h >= GivenOrPaid
  BY <1>4
<1>8. Budget(B)'
  BY <1>2, <1>3, <1>7 DEF Budget
<1>9. ASSUME FreeCap <= PaidCap PROVE Rails(B)'
  <2>1. \A h \in Nat : h >= RailCap' => h >= RailCap
    BY <1>5, <1>9
  <2>. QED  BY <1>2, <1>3, <1>9, <2>1 DEF Rails
<1>. QED  BY <1>2, <1>3, <1>6, <1>8, <1>9 DEF SpendInv

LEMMA SpendNext == SpendInv /\ [Next]_vars => SpendInv'
<1>. SUFFICES ASSUME SpendInv, [Next]_vars PROVE SpendInv'
  OBVIOUS
<1>1. TypedInv /\ WalletsRead
  BY DEF SpendInv
<1>2. TypedInv'
  BY <1>1, NextTyped
<1>3. WalletsRead'
  BY <1>1, <1>2, WalletsReadNext
<1>4. CASE \E c \in Calls : Request(c)
  BY <1>2, <1>3, <1>4, RequestKeepsSpend
<1>5. CASE NextDay
  BY <1>2, <1>3, <1>5, NewDayKeepsSpend
<1>6. CASE (\E m \in Movements : CreditWallet(m) \/ CreditUnanswered(m)) \/ UNCHANGED vars
  <2>1. UNCHANGED <<events, call, day>>
    BY <1>6 DEF CreditWallet, CreditUnanswered, vars
  <2>. QED  BY <1>2, <1>3, <2>1, LedgerKeepsSpend
<1>. QED  BY <1>4, <1>5, <1>6 DEF Next

LEMMA SpendHolds == Spec => []SpendInv
BY SpendInit, SpendNext, PTL DEF Spec

(* With every request writing its last row there is no more than this.     *)
LEMMA RoomBounds ==
  ASSUME TypedInv, NEW w, NEW most \in Nat, NEW h \in Nat, NEW D, NEW B,
         \A i \in Recorded : w[i] \in Nat,
         Room(w, most, h, D, B, call, events, day)
  PROVE  Total(w, ChatIn(events, D)) < h + most * Cardinality(Calls)
<1>. DEFINE F == Quiet(call, B, w, h, D, events, day)
            a == Total(w, ChatIn(events, D))
<1>1. F \in SUBSET Calls /\ Calls \in SUBSET Calls /\ F \subseteq Calls
  BY DEF Quiet
<1>2. a < h + most * Cardinality(F)
  BY DEF Room
<1>3. a \in Int
  <2>1. ChatIn(events, D) \in SUBSET Recorded
    BY DEF ChatIn, Recorded
  <2>2. IsFiniteSet(ChatIn(events, D)) /\ \A i \in ChatIn(events, D) : w[i] \in Nat
    BY <2>1, RecordedNat, FS_Subset
  <2>3. Total(w, ChatIn(events, D)) \in Nat
    BY <2>2, TotalNat
  <2>. QED  BY <2>3
<1>. HIDE DEF F, a
<1>4. a < h + most * Cardinality(Calls)
  BY <1>1, <1>2, <1>3, RoomKept
<1>. QED  BY <1>4 DEF a

(* A spend that was read page by page, while other requests wrote rows     *)
(* between its pages, holds at least what was recorded before it began:    *)
(* for any page size and any number of rows (store.ts 107-145).            *)
THEOREM SpendReadWhole == Spec => []SpendNeverUnderstated
<1>1. SpendInv => SpendNeverUnderstated
  <2>. SUFFICES ASSUME SpendInv, NEW c \in Calls, call[c].spend # NotRead
                PROVE  call[c].spend.lifetime >= call[c].before
    BY DEF SpendNeverUnderstated
  <2>1. PICK B \in [Calls -> SUBSET Recorded] : Remembered(B)
    BY DEF SpendInv
  <2>2. call[c].pc = "read"
    BY DEF SpendInv, TypedInv, Fine
  <2>. QED  BY <2>1, <2>2 DEF Remembered, Covered
<1>. QED  BY <1>1, SpendHolds, PTL

(* What chat is recorded to have cost is past what was put in by less than *)
(* one reply of each message under way, however many there are             *)
(* (balance.ts 155-180).                                                   *)
THEOREM ChatWithinCredit == Spec => []OverdraftBounded
<1>1. SpendInv => OverdraftBounded
  <2>. SUFFICES ASSUME SpendInv PROVE OverdraftBounded
    OBVIOUS
  <2>1. PICK B \in [Calls -> SUBSET Recorded] : Budget(B)
    BY DEF SpendInv
  <2>2. TypedInv /\ GivenOrPaid \in Nat /\ Max(Costs) \in Nat
    BY CreditedGiven, CostsMax DEF SpendInv, TypedInv
  <2>3. Room(Cost, Max(Costs), GivenOrPaid, Days, B, call, events, day)
    BY <2>1, <2>2 DEF Budget
  <2>4. \A i \in Recorded : Cost[i] \in Nat
    BY <2>2, CostsBelowMax
  <2>5. Total(Cost, ChatIn(events, Days)) < GivenOrPaid + Max(Costs) * Cardinality(Calls)
    BY <2>2, <2>3, <2>4, RoomBounds
  <2>6. ChatIn(events, Days) = ByChat /\ ByChat \in SUBSET Recorded
    BY <2>2 DEF ChatIn, ByChat, Recorded, TypedInv, Priced, Event
  <2>7. CostSum(ByChat) = Total(Cost, ByChat)
    BY <2>2, <2>6, CostSumTotal DEF TypedInv
  <2>8. Max(Costs) * Cardinality(Calls) = Cardinality(Calls) * Max(Costs)
    BY <2>2, WalletAssumption, FS_CardinalityType
  <2>. QED  BY <2>5, <2>6, <2>7, <2>8 DEF OverdraftBounded
<1>. QED  BY <1>1, SpendHolds, PTL

(* And of a day it costs no more than the money rail, and is no more       *)
(* messages than the limit, but by those under way: if, as in the code's   *)
(* defaults, an account that never paid has the lower rail (balance.ts     *)
(* 36-46, 133-160).                                                        *)
THEOREM ChatWithinRails ==
  ASSUME FreeCap <= PaidCap
  PROVE  Spec => []DailyRailsHold
<1>1. SpendInv => DailyRailsHold
  <2>. SUFFICES ASSUME SpendInv, NEW d \in Days
                PROVE  /\ CostSum({i \in ByChat : events[i].day = d})
                             < RailCap + Cardinality(Calls) * Max(Costs)
                       /\ Cardinality({i \in ByChat : events[i].day = d})
                             < RequestLimit + Cardinality(Calls)
    BY DEF DailyRailsHold, RailCap, EverPaid
  <2>1. PICK B \in [Calls -> SUBSET Recorded] : Rails(B)
    BY DEF SpendInv
  <2>2. TypedInv /\ RailCap \in Nat /\ RequestLimit \in Nat /\ Max(Costs) \in Nat /\ 1 \in Nat
    BY CostsMax, WalletAssumption DEF SpendInv, RailCap
  <2>3. /\ Room(Cost, Max(Costs), RailCap, {d}, B, call, events, day)
        /\ Room(One, 1, RequestLimit, {d}, B, call, events, day)
    BY <2>1, <2>2 DEF Rails
  <2>4. (\A i \in Recorded : Cost[i] \in Nat) /\ (\A i \in Recorded : One[i] \in Nat)
    BY <2>2, CostsBelowMax
  <2>5. /\ Total(Cost, ChatIn(events, {d})) < RailCap + Max(Costs) * Cardinality(Calls)
        /\ Total(One, ChatIn(events, {d})) < RequestLimit + 1 * Cardinality(Calls)
    BY <2>2, <2>3, <2>4, RoomBounds
  <2>6. PICK T : T = ChatIn(events, {d})
    OBVIOUS
  <2>7. T = {i \in ByChat : events[i].day = d} /\ T \in SUBSET Recorded
    BY <2>6 DEF ChatIn, ByChat, Recorded
  <2>8. CostSum(T) = Total(Cost, T)
    BY <2>2, <2>7, CostSumTotal DEF TypedInv
  <2>9. Total(One, T) = Cardinality(T)
    <3>1. IsFiniteSet(T) /\ \A i \in T : One[i] = 1
      BY <2>2, <2>7, RecordedNat, CostsBelowMax, FS_Subset
    <3>. QED  BY <3>1, TotalOnes
  <2>10. Cardinality(Calls) \in Nat
    BY WalletAssumption, FS_CardinalityType
  <2>11. Max(Costs) * Cardinality(Calls) = Cardinality(Calls) * Max(Costs)
         /\ 1 * Cardinality(Calls) = Cardinality(Calls)
    BY <2>2, <2>10
  <2>. QED  BY <2>5, <2>6, <2>7, <2>8, <2>9, <2>11
<1>. QED  BY <1>1, SpendHolds, PTL
==============================================================================
