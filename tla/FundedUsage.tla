------------------------------ MODULE FundedUsage ------------------------------
(***************************************************************************)
(* The wallet of one account and the requests that draw on it: chat        *)
(* replies on USAGE's own key, and the miner's fallback to the same key.   *)
(* Credit is a ledger of movements; spend is summed from the usage events, *)
(* which are written after the reply.  One request to the database a step. *)
(***************************************************************************)
EXTENDS Integers, FiniteSets, FiniteSetsExt

CONSTANTS
  Calls,         \* requests under way at once, their recording included
  Movements,     \* what payments and operators deliver to the wallet
  Grant,         \* the configured starting grant
  VirtualGrant,  \* what the code counts for an account the grant was not written for
  Ids,           \* the ids usage events draw, in their order: a bound
  PageSize,
  Costs,         \* what a reply may cost; 0 also if its provider states no cost
  FreeCap, PaidCap, RequestLimit,
  MaxDay,        \* bound on the days
  NotRead

StartingReference == "starting-credit-v1"
StartingGrant == [kind |-> "grant", amount |-> Grant, reference |-> StartingReference]
Entries == Movements \cup {StartingGrant}

ASSUME WalletAssumption ==
  /\ IsFiniteSet(Calls) /\ Calls # {} /\ Ids \subseteq Nat
  /\ IsFiniteSet(Movements) /\ IsFiniteSet(Ids)
  /\ {Grant, VirtualGrant, FreeCap, PaidCap, RequestLimit, MaxDay} \subseteq Nat
  /\ PageSize \in Nat \ {0}
  /\ Costs \subseteq Nat /\ IsFiniteSet(Costs) /\ \E cost \in Costs : cost > 0
  /\ \A m \in Movements :
       /\ m.amount \in Int \ {0}
       /\ m.kind \in {"grant", "topup", "refund", "adjustment"}
       /\ m.kind \in {"grant", "topup"} => m.amount > 0
       /\ m.kind = "refund" => m.amount < 0
       /\ m.reference # StartingReference

VARIABLES
  ledger,        \* usage_wallet_entries: the rows of each entry
  events,        \* usage_events on the funded gateways, by id
  call,          \* the local state of each request
  day,
  answered       \* history: the movements whose delivery was answered with ok

vars == <<ledger, events, call, day, answered>>

Doors == {"chat", "fallback"}
Days == 0..MaxDay
Event == [cost : Costs, day : Days, by : Doors]
Wallet == [credit : Int, paid : BOOLEAN]
Spend == [lifetime : Nat, today : Nat, requests : Nat]

Call ==
  [ pc     : {"idle", "read", "send", "record"},
    by     : Doors,
    wallet : Wallet \cup {NotRead},     \* the ledger as it was read
    from   : Nat,                       \* offset of the next page of events
    seen   : [Ids -> Nat],              \* how often each row was read
    spend  : Spend \cup {NotRead},
    before : Nat,                       \* history: what was spent before the read
    cost   : Costs \cup {0}, day : Days ]  \* of the reply

Idle ==
  [pc |-> "idle", by |-> "chat", wallet |-> NotRead, from |-> 0, seen |-> [i \in Ids |-> 0],
   spend |-> NotRead, before |-> 0, cost |-> 0, day |-> 0]

Init ==
  /\ ledger = [m \in Entries |-> 0]
  /\ events = << >>
  /\ call = [c \in Calls |-> Idle]
  /\ day = 0 /\ answered = {}

At(c, pc) == call[c].pc = pc
Become(c, state) == call' = [call EXCEPT ![c] = state]
Recorded == DOMAIN events
CostSum(ids) == MapThenSumSet(LAMBDA i : events[i].cost, ids)

-----------------------------------------------------------------------------
(* The ledger.                                                             *)

RowsOf(reference) == {m \in Entries : m.reference = reference /\ ledger[m] > 0}

(* (Mutant: the reference is not unique.)                                  *)
InsertAnyway(m) == ledger' = [ledger EXCEPT ![m] = @ + 1]

(* The unique index on user and reference: a duplicate changes nothing. *)
InsertEntry(m) ==
  IF RowsOf(m.reference) # {}
  THEN UNCHANGED ledger
  ELSE ledger' = [ledger EXCEPT ![m] = @ + 1]

(* creditWallet answers ok to what it inserted and to a duplicate; a       *)
(* payment's delivery is repeated until it was answered, and after.        *)
CreditWallet(m) ==
  /\ InsertEntry(m)
  /\ answered' = answered \cup {m}
  /\ UNCHANGED <<events, call, day>>

CreditUnanswered(m) ==
  /\ InsertEntry(m)
  /\ UNCHANGED <<events, call, day, answered>>

-----------------------------------------------------------------------------
(* walletBalance: what was paid in, what was given, what it cost.          *)

IsPaidMovement(m) == m.kind # "grant"
Sum(entries) == MapThenSumSet(LAMBDA m : ledger[m] * m.amount, entries)

(* A ledger without the grant is read as if it held one, of the size that  *)
(* is in the code and not of the configured one.                           *)
Credited == Sum(Entries) + (IF RowsOf(StartingReference) = {} THEN VirtualGrant ELSE 0)
Funded == Sum({m \in Entries : IsPaidMovement(m)}) > 0

Page(from) ==
  {i \in Recorded :
     Cardinality({j \in Recorded : j <= i}) \in from + 1 .. from + PageSize}

CostOf(seen) == MapThenSumSet(LAMBDA i : seen[i] * events[i].cost, Recorded)
TodayOf(seen) == [i \in Ids |-> IF i \in Recorded /\ events[i].day = day THEN seen[i] ELSE 0]
SpendOf(seen) ==
  [ lifetime |-> CostOf(seen),
    today    |-> CostOf(TodayOf(seen)),
    requests |-> MapThenSumSet(LAMBDA i : TodayOf(seen)[i], Ids) ]

DailyCap(wallet) == IF wallet.paid THEN PaidCap ELSE FreeCap

(* (Mutant: an exhausted balance is still allowed one message.)            *)
AllowedAtZero(wallet, spend) ==
  /\ wallet.credit - spend.lifetime >= 0
  /\ spend.today < DailyCap(wallet)
  /\ spend.requests < RequestLimit

(* (Mutant: the daily rails are not asked.)                                *)
AllowedByBalance(wallet, spend) == wallet.credit - spend.lifetime > 0

Allowed(wallet, spend) ==
  /\ wallet.credit - spend.lifetime > 0
  /\ spend.today < DailyCap(wallet)
  /\ spend.requests < RequestLimit

-----------------------------------------------------------------------------
(* A chat message on the shared route.                                     *)

(* The grant is written on first use; an entry of nothing is refused, and  *)
(* the message with it.                                                    *)
EnsureStartingGrant(c) ==
  /\ At(c, "idle")
  /\ Grant > 0
  /\ InsertEntry(StartingGrant)
  /\ Become(c, [Idle EXCEPT !.pc = "read", !.before = CostSum(Recorded)])
  /\ UNCHANGED <<events, day, answered>>

(* The ledger and the pages of events are read side by side. *)
ReadLedger(c) ==
  /\ At(c, "read") /\ call[c].wallet = NotRead
  /\ Become(c, [call[c] EXCEPT !.wallet = [credit |-> Credited, paid |-> Funded]])
  /\ UNCHANGED <<ledger, events, day, answered>>

(* (Mutant: what the first response held is taken for all of it.)          *)
ReadFirstPage(c) ==
  /\ At(c, "read") /\ call[c].spend = NotRead
  /\ Become(c, [call[c] EXCEPT
       !.spend = SpendOf([i \in Ids |-> IF i \in Page(0) THEN 1 ELSE 0])])
  /\ UNCHANGED <<ledger, events, day, answered>>

(* Pages are offsets into the rows in the order of their random ids: a row *)
(* written between two pages may push a row that was read into the next.   *)
ReadPage(c) ==
  LET page == Page(call[c].from)
      seen == [i \in Ids |-> call[c].seen[i] + (IF i \in page THEN 1 ELSE 0)] IN
  /\ At(c, "read") /\ call[c].spend = NotRead
  /\ Become(c,
       IF Cardinality(page) = PageSize
       THEN [call[c] EXCEPT !.from = @ + PageSize, !.seen = seen]
       ELSE [call[c] EXCEPT !.from = 0, !.seen = Idle.seen, !.spend = SpendOf(seen)])
  /\ UNCHANGED <<ledger, events, day, answered>>

Decide(c) ==
  /\ At(c, "read") /\ call[c].wallet # NotRead /\ call[c].spend # NotRead
  /\ Become(c, IF Allowed(call[c].wallet, call[c].spend)
               THEN [Idle EXCEPT !.pc = "send"] ELSE Idle)
  /\ UNCHANGED <<ledger, events, day, answered>>

-----------------------------------------------------------------------------
(* The gateway, for the chat and for the miner's fallback, which asks the  *)
(* wallet nothing.                                                         *)

BeginFallback(c) ==
  /\ At(c, "idle")
  /\ Become(c, [Idle EXCEPT !.pc = "send", !.by = "fallback"])
  /\ UNCHANGED <<ledger, events, day, answered>>

(* (Mutant: the day of a reply is off by one.)                             *)
ReplyTomorrow(c) ==
  /\ At(c, "send")
  /\ \E cost \in Costs :
       Become(c, [call[c] EXCEPT !.pc = "record", !.cost = cost, !.day = day + 1])
  /\ UNCHANGED <<ledger, events, day, answered>>

(* The reply is through: its observation is dated, and recorded later. *)
Reply(c) ==
  /\ At(c, "send")
  /\ \E cost \in Costs : Become(c, [call[c] EXCEPT !.pc = "record", !.cost = cost, !.day = day])
  /\ UNCHANGED <<ledger, events, day, answered>>

(* The provider was not reached, refused, or stated no usage; or the       *)
(* client left before the end of the stream: nothing is observed.          *)
NothingObserved(c) ==
  /\ At(c, "send")
  /\ Become(c, Idle)
  /\ UNCHANGED <<ledger, events, day, answered>>

RecordObservation(c) ==
  /\ At(c, "record")
  /\ \E i \in Ids \ Recorded :
       events' = [j \in Recorded \cup {i} |->
         IF j = i THEN [cost |-> call[c].cost, day |-> call[c].day, by |-> call[c].by] ELSE events[j]]
  /\ Become(c, Idle)
  /\ UNCHANGED <<ledger, day, answered>>

(* A read or a write that fails ends the request; a failed read is no zero, *)
(* and an observation that cannot be written is dropped.                    *)
CallFails(c) ==
  /\ call[c].pc \in {"read", "record"}
  /\ Become(c, Idle)
  /\ UNCHANGED <<ledger, events, day, answered>>

-----------------------------------------------------------------------------
Request(c) ==
  \/ EnsureStartingGrant(c) \/ ReadLedger(c) \/ ReadPage(c) \/ Decide(c)
  \/ BeginFallback(c) \/ Reply(c) \/ NothingObserved(c) \/ RecordObservation(c)
  \/ CallFails(c)

NextDay ==
  /\ day < MaxDay /\ day' = day + 1
  /\ UNCHANGED <<ledger, events, call, answered>>

Next ==
  \/ \E c \in Calls : Request(c)
  \/ \E m \in Movements : CreditWallet(m) \/ CreditUnanswered(m)
  \/ NextDay

Spec == Init /\ [][Next]_vars

-----------------------------------------------------------------------------
(* Every variable holds a value of the shape its table or process has. *)
TypeOK ==
  /\ ledger \in [Entries -> Nat]
  /\ Recorded \subseteq Ids /\ \A i \in Recorded : events[i] \in Event
  /\ call \in [Calls -> Call]
  /\ day \in Days
  /\ answered \subseteq Movements

(* A movement whose delivery was answered is in the ledger, with its own   *)
(* amount and once, and no movement nor the starting grant twice: however  *)
(* often a delivery is repeated, answered or not, and however many         *)
(* messages write the grant at once (store.ts 86-105, 202-219; 0024        *)
(* 54-56).  It asks that no two movements share a reference; the second of *)
(* two that do is answered and not written (RefundTakesMoneyOut).          *)
CreditedOnce ==
  (\A m, n \in Movements : m.reference = n.reference => m = n) =>
    /\ \A m \in answered : ledger[m] = 1
    /\ \A m \in Entries : ledger[m] <= 1

(* A spend read page by page, while other requests write rows between its  *)
(* pages, holds at least what was recorded before it began                 *)
(* (store.ts 107-145).                                                     *)
SpendNeverUnderstated ==
  \A c \in Calls : call[c].spend # NotRead =>
    call[c].spend.lifetime >= call[c].before

ByChat == {i \in Recorded : events[i].by = "chat"}
GivenOrPaid ==
  MapThenSumSet(LAMBDA m : IF m.amount > 0 THEN ledger[m] * m.amount ELSE 0, Movements) + Grant

(* What chat is recorded to have cost is past what was put in by less than *)
(* one reply of each message under way: a message is allowed on a balance  *)
(* that is out of date when its own reply, and those of the others, are    *)
(* recorded, and the next one is refused (balance.ts 155-180).  The        *)
(* fallback's cost is bounded by nothing, and a reply whose observation is *)
(* dropped costs without being counted; see OverdrawnByOneReply.           *)
OverdraftBounded ==
  CostSum(ByChat) < GivenOrPaid + Cardinality(Calls) * Max(Costs)

(* The same of a day: the money rail, the one of paid money once there is  *)
(* any, and the number of messages (balance.ts 133-160, spend.ts 20-31).   *)
DailyRailsHold ==
  LET everPaid == \E m \in Movements : m.kind # "grant" /\ m.amount > 0 /\ ledger[m] > 0
      cap == IF everPaid THEN PaidCap ELSE FreeCap
  IN \A d \in Days :
       LET today == {i \in ByChat : events[i].day = d}
       IN /\ CostSum(today) < cap + Cardinality(Calls) * Max(Costs)
          /\ Cardinality(today) < RequestLimit + Cardinality(Calls)

-----------------------------------------------------------------------------
(* How far past zero the last reply carried them ... Bounded by one reply, *)
(* is said of overdrawnMicros (balance.ts 60-66), which counts every       *)
(* request that was recorded, and what is in the ledger.                   *)
OverdrawnByOneReply ==
  CostSum(Recorded) < GivenOrPaid + Max(Costs)

(* "takes the money back out when a top-up is refunded"                    *)
(* (balance.test.ts 52, with the reference of the top-up).                 *)
RefundTakesMoneyOut ==
  \A m \in answered : m.kind = "refund" => ledger[m] = 1
=============================================================================
