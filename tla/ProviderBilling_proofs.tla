-------------------------- MODULE ProviderBilling_proofs ------------------------
(***************************************************************************)
(* Provider billing, for any number of users, GitHub accounts, exchanges,  *)
(* syncs and periods: the shape of its tables, the lease, what a row is    *)
(* bound to, what a stored row of evidence stands on, the pair GitHub      *)
(* rotated to, the tokens a sync has in hand and the plan it carries out.  *)
(***************************************************************************)
EXTENDS ProviderBilling, FiniteSetTheorems, SequenceTheorems, TLAPS

-----------------------------------------------------------------------------
(* The constants and the values that processes start from. *)

(* What a sync plans to ask for are periods, a month before all. *)
LEMMA PlansTyped ==
  /\ AnyPeriod \in Periods
  /\ \A mode \in Modes, k \in SyncDays :
       LET asked == planSyncRequests(mode, k)
       IN Head(asked) \in Periods /\ Tail(asked) \in Seq(Periods)
<1>1. /\ Len(Calendar) \in Nat /\ DOMAIN Calendar = 1..Len(Calendar)
      /\ \A k \in 1..Len(Calendar) : Calendar[k] \in (Nat \ {0}) \X (Nat \ {0})
  BY CalendarAssumption
<1>2. \A k \in 1..Len(Calendar) : Calendar[k] \in Periods /\ Month(Calendar[k]) \in Periods
  BY <1>1 DEF Periods, Days
<1>3. SyncDays \subseteq 1..Len(Calendar) /\ 1 \in 1..Len(Calendar)
  BY <1>1, CalendarAssumption
<1>4. ASSUME NEW mode \in Modes, NEW k \in SyncDays
      PROVE  LET asked == planSyncRequests(mode, k)
             IN Head(asked) \in Periods /\ Tail(asked) \in Seq(Periods)
  <2>. DEFINE today == Calendar[k]
              lookback == CASE mode = "connect" -> today[2] - 1
                            [] mode = "scheduled" -> 2
                            [] mode = "manual" -> 1
              first == IF lookback < k THEN k - lookback ELSE 1
              earlier == \/ mode = "scheduled" /\ today[2] <= 3
                         \/ Month(Calendar[first]) # Month(today)
              before == IF earlier THEN <<MonthBefore(today)>> ELSE <<>>
              recent == SubSeq(Calendar, first, k)
              asked == <<Month(today)>> \o before \o recent
  <2>1. k \in 1..Len(Calendar) /\ Month(today) \in Periods /\ MonthBefore(today) \in Periods
    BY <1>2, <1>3 DEF Periods
  <2>2. lookback \in Nat BY <1>1, <2>1 DEF Modes
  <2>. HIDE DEF lookback
  <2>3. first \in 1..k BY <2>1, <2>2
  <2>. HIDE DEF first, earlier, today
  <2>4. \A i \in first..k : Calendar[i] \in Periods BY <1>1, <1>2, <2>1, <2>3
  <2>5. recent \in Seq(Periods) BY <2>1, <2>3, <2>4, SubSeqProperties
  <2>6. before \in Seq(Periods) /\ <<Month(today)>> \in Seq(Periods) /\ Len(<<Month(today)>>) = 1
    BY <2>1
  <2>. HIDE DEF before, recent
  <2>7. /\ <<Month(today)>> \o before \in Seq(Periods)
        /\ Len(<<Month(today)>> \o before) = 1 + Len(before)
    BY <2>6, ConcatProperties
  <2>8. asked \in Seq(Periods) /\ Len(asked) = 1 + Len(before) + Len(recent)
    BY <2>5, <2>7, ConcatProperties
  <2>9. asked # <<>> BY <2>5, <2>6, <2>8
  <2>. HIDE DEF asked
  <2>10. Head(asked) \in Periods /\ Tail(asked) \in Seq(Periods)
    BY <2>8, <2>9, HeadTailProperties
  <2>. QED BY <2>10 DEF asked, before, recent, earlier, first, lookback, today, planSyncRequests
<1>. QED BY <1>2, <1>3, <1>4 DEF AnyPeriod

LEMMA IdleTyped ==
  /\ NoAnswer \in Answer /\ NoPlan \in Plan /\ NoRow \in UsageRow
  /\ IdleSync \in Sync
  /\ IdleCallback \in Callback /\ IdleDisconnect \in Disconnect
<1>1. NoAnswer \in Answer /\ NoPlan \in Plan BY DEF NoAnswer, Answer, NoPlan, Plan
<1>2. NoRow \in UsageRow BY <1>1 DEF NoRow, UsageRow
<1>3. IdleSync \in Sync BY <1>1, PlansTyped DEF IdleSync, Sync, Failures
<1>. QED BY <1>1, <1>2, <1>3 DEF IdleCallback, Callback, IdleDisconnect, Disconnect

(* A process that is not idle works for a user, and has what it reads. *)
AtWork ==
  {"refresh", "persist", "identify", "fetch", "keep", "plan", "insert", "apply"}

Working ==
  /\ \A s \in Syncs :
       /\ sync[s].pc # "idle" => sync[s].user \in Users
       /\ sync[s].pc \in AtWork => sync[s].secret \in Connects
  /\ \A c \in Connects : connect[c].pc \notin {"idle", "done"} => connect[c].user \in Users
  /\ \A x \in Disconnects :
       /\ disconnect[x].pc \notin {"idle", "done"} => disconnect[x].user \in Users
       /\ disconnect[x].pc \in {"read", "revoke"} => disconnect[x].old \in Connects

Typed == TypeOK /\ Working

-----------------------------------------------------------------------------
(* The tables. *)

LEMMA RevokeGrantTyped ==
  ASSUME BillingTablesTypeOK, NEW c, NEW pair, RevokeGrant(c, pair)
  PROVE  /\ grants' \in [Connects -> Grant]
         /\ \A g \in Connects : grants'[g].principal = grants[g].principal
<1>1. \A g \in Connects :
        /\ [grants[g] EXCEPT !.live = FALSE] \in Grant
        /\ [grants[g] EXCEPT !.live = FALSE].principal = grants[g].principal
  BY DEF BillingTablesTypeOK, Grant
<1>. QED BY <1>1 DEF RevokeGrant, BillingTablesTypeOK

LEMMA RevokedAtGithubTyped ==
  ASSUME BillingTablesTypeOK, NEW p \in Principals, RevokedAtGithub(p)
  PROVE  /\ grants' \in [Connects -> Grant] /\ UNCHANGED <<secrets, accounts>>
         /\ \A g \in Connects : grants'[g].principal = grants[g].principal
<1>1. \A g \in Connects :
        /\ [grants[g] EXCEPT !.live = FALSE] \in Grant
        /\ [grants[g] EXCEPT !.live = FALSE].principal = grants[g].principal
  BY DEF BillingTablesTypeOK, Grant
<1>. QED BY <1>1 DEF RevokedAtGithub, BillingTablesTypeOK

(* Of a row these change neither whether it exists, nor whose account it   *)
(* is, nor its lease.                                                      *)
SameBinding(u) ==
  /\ accounts'[u].exists = accounts[u].exists
  /\ accounts'[u].principal = accounts[u].principal
  /\ accounts'[u].lease = accounts[u].lease

LEMMA DeleteBundleTyped ==
  ASSUME BillingTablesTypeOK, NEW c, DeleteBundle(c)
  PROVE  /\ secrets' \in [Connects -> Bundle] /\ accounts' \in [Users -> AccountRow]
         /\ \A u \in Users : SameBinding(u)
<1>1. ASSUME NEW u \in Users
      PROVE  accounts'[u] \in AccountRow /\ SameBinding(u)
  <2>1. accounts[u] \in AccountRow BY DEF BillingTablesTypeOK
  <2>2. accounts'[u] = accounts[u] \/ accounts'[u] = [accounts[u] EXCEPT !.secret = NoSecret]
    BY DEF DeleteBundle
  <2>. QED BY <2>1, <2>2 DEF AccountRow, SameBinding
<1>2. accounts' \in [Users -> AccountRow] BY <1>1 DEF DeleteBundle
<1>3. secrets' \in [Connects -> Bundle]
  <2>1. \A d \in Connects : secrets[d] \in Bundle BY DEF BillingTablesTypeOK
  <2>2. \A d \in Connects : [secrets[d] EXCEPT !.stored = FALSE] \in Bundle
    BY <2>1 DEF Bundle
  <2>3. \A d \in Connects : secrets'[d] = secrets[d] \/ secrets'[d] = [secrets[d] EXCEPT !.stored = FALSE]
    BY DEF DeleteBundle, BillingTablesTypeOK
  <2>. QED BY <2>1, <2>2, <2>3 DEF DeleteBundle, BillingTablesTypeOK
<1>. QED BY <1>1, <1>2, <1>3

LEMMA StoreBundleTyped ==
  ASSUME BillingTablesTypeOK, NEW c, NEW pair \in Nat, StoreBundle(c, pair)
  PROVE  secrets' \in [Connects -> Bundle]
<1>1. [stored |-> TRUE, pair |-> pair] \in Bundle BY DEF Bundle
<1>. QED BY <1>1 DEF StoreBundle, BillingTablesTypeOK

LEMMA ConnectedTyped ==
  ASSUME BillingTablesTypeOK, NEW u \in Users, NEW c \in Connects, Connected(u, c)
  PROVE  /\ accounts' \in [Users -> AccountRow]
         /\ \A v \in Users \ {u} : accounts'[v] = accounts[v]
         /\ accounts'[u].exists /\ accounts'[u].principal = grants[c].principal
         /\ accounts'[u].lease = accounts[u].lease
<1>1. accounts[u] \in AccountRow /\ grants[c].principal \in Principals
  BY DEF BillingTablesTypeOK, Grant
<1>. DEFINE row == [accounts[u] EXCEPT !.exists = TRUE, !.principal = grants[c].principal,
                                       !.status = "connected", !.secret = c]
<1>2. /\ row \in AccountRow /\ row.exists /\ row.principal = grants[c].principal
      /\ row.lease = accounts[u].lease
  BY <1>1 DEF AccountRow
<1>3. accounts' = [accounts EXCEPT ![u] = row]
  BY <1>1 DEF Connected, BillingTablesTypeOK, AccountRow
<1>. HIDE DEF row
<1>. QED BY <1>2, <1>3 DEF BillingTablesTypeOK

-----------------------------------------------------------------------------
(* The callbacks. *)

LEMMA CallbackToTyped ==
  ASSUME ConnectTypeOK, NEW c \in Connects,
         NEW pc \in {"identify", "owner", "existing", "store", "write",
                     "supersede", "undo", "release", "done"},
         CallbackTo(c, pc)
  PROVE  /\ connect' \in [Connects -> Callback]
         /\ \A d \in Connects \ {c} : connect'[d] = connect[d]
         /\ connect'[c].pc = pc
         /\ pc # "done" => /\ connect'[c].user = connect[c].user
                           /\ connect'[c].known = connect[c].known
<1>1. connect \in [Connects -> Callback] /\ connect[c] \in Callback BY DEF ConnectTypeOK
<1>2. CASE pc = "done"
  <2>1. connect' = [connect EXCEPT ![c] = [IdleCallback EXCEPT !.pc = "done"]]
    BY <1>2 DEF CallbackTo
  <2>2. /\ [IdleCallback EXCEPT !.pc = "done"] \in Callback
        /\ [IdleCallback EXCEPT !.pc = "done"].pc = "done"
    BY IdleTyped DEF Callback
  <2>. QED BY <1>1, <1>2, <2>1, <2>2
<1>3. CASE pc # "done"
  <2>1. connect' = [connect EXCEPT ![c] = [connect[c] EXCEPT !.pc = pc]]
    BY <1>3 DEF CallbackTo
  <2>2. /\ [connect[c] EXCEPT !.pc = pc] \in Callback
        /\ [connect[c] EXCEPT !.pc = pc].pc = pc
        /\ [connect[c] EXCEPT !.pc = pc].user = connect[c].user
        /\ [connect[c] EXCEPT !.pc = pc].known = connect[c].known
    BY <1>1 DEF Callback
  <2>. QED BY <1>1, <2>1, <2>2
<1>. QED BY <1>2, <1>3

(* What every step of a callback keeps. *)
KeepsCallbacks(c) ==
  /\ BillingTablesTypeOK'
  /\ connect' \in [Connects -> Callback]
  /\ \A d \in Connects \ {c} : connect'[d] = connect[d]
  /\ connect'[c].pc # "idle"
  /\ connect'[c].pc # "done" => connect'[c].user \in Users

LEMMA ExchangeTyped ==
  ASSUME Typed, NEW c \in Connects, Exchange(c)
  PROVE  KeepsCallbacks(c) /\ connect'[c].pc = "identify"
<1>1. PICK u \in Users, p \in Principals :
        /\ grants' = [grants EXCEPT ![c] = [principal |-> p, live |-> TRUE, pair |-> 0]]
        /\ connect' = [connect EXCEPT ![c].user = u, ![c].pc = "identify"]
  BY DEF Exchange
<1>2. connect[c] \in Callback BY DEF Typed, TypeOK, ConnectTypeOK
<1>. DEFINE new == [connect[c] EXCEPT !.user = u, !.pc = "identify"]
<1>3. new \in Callback /\ new.user = u /\ new.pc = "identify" BY <1>2 DEF Callback
<1>4. connect' = [connect EXCEPT ![c] = new]
  BY <1>1, <1>2 DEF Typed, TypeOK, ConnectTypeOK, Callback
<1>5. [principal |-> p, live |-> TRUE, pair |-> 0] \in Grant BY DEF Grant
<1>6. BillingTablesTypeOK'
  BY <1>1, <1>5 DEF Exchange, Typed, TypeOK, BillingTablesTypeOK
<1>. HIDE DEF new
<1>. QED BY <1>3, <1>4, <1>6 DEF KeepsCallbacks, Typed, TypeOK, ConnectTypeOK

LEMMA FindExistingTyped ==
  ASSUME Typed, NEW c \in Connects, FindExisting(c)
  PROVE  /\ KeepsCallbacks(c) /\ connect'[c].user = connect[c].user
         /\ connect'[c].pc \in {"release", "store"}
         /\ connect'[c].pc = "store" /\ connect'[c].known =>
              /\ accounts[connect[c].user].exists
              /\ accounts[connect[c].user].principal = grants[c].principal
<1>. DEFINE row == accounts[connect[c].user]
            pc == IF row.exists /\ row.principal # grants[c].principal
                  THEN "release" ELSE "store"
            new == [connect[c] EXCEPT !.known = row.exists, !.old = row.secret, !.pc = pc]
<1>1. connect[c] \in Callback /\ connect[c].user \in Users
  BY DEF FindExisting, CallbackAt, Typed, TypeOK, ConnectTypeOK, Working
<1>2. row \in AccountRow BY <1>1 DEF Typed, TypeOK, BillingTablesTypeOK
<1>3. row.exists \in BOOLEAN /\ row.secret \in Connects \cup {NoSecret}
  BY <1>2 DEF AccountRow
<1>4. /\ new \in Callback /\ new.user = connect[c].user /\ new.pc = pc
      /\ new.known = row.exists
  BY <1>1, <1>3 DEF Callback
<1>5. connect' = [connect EXCEPT ![c] = new]
  BY <1>1 DEF FindExisting, Typed, TypeOK, ConnectTypeOK, Callback
<1>6. BillingTablesTypeOK' BY DEF FindExisting, tables, Typed, TypeOK, BillingTablesTypeOK
<1>. HIDE DEF new
<1>7. connect'[c] = new /\ connect' \in [Connects -> Callback]
      /\ \A d \in Connects \ {c} : connect'[d] = connect[d]
  BY <1>4, <1>5 DEF Typed, TypeOK, ConnectTypeOK
<1>. QED BY <1>1, <1>3, <1>4, <1>6, <1>7 DEF KeepsCallbacks

(* The steps that change but where a callback is. *)
LEMMA CallbackKeeps ==
  ASSUME Typed, NEW c \in Connects,
         CallbackStep(c) \/ CallbackTrouble(c)
  PROVE  KeepsCallbacks(c)
<1>1. /\ ConnectTypeOK /\ BillingTablesTypeOK
      /\ connect[c].pc \notin {"idle", "done"} => connect[c].user \in Users
  BY DEF Typed, TypeOK, Working
<1>2. ASSUME NEW pc \in {"identify", "owner", "existing", "store", "write",
                         "supersede", "undo", "release", "done"},
             CallbackTo(c, pc), connect[c].pc \notin {"idle", "done"},
             BillingTablesTypeOK'
      PROVE  KeepsCallbacks(c)
  <2>1. /\ connect' \in [Connects -> Callback]
        /\ \A d \in Connects \ {c} : connect'[d] = connect[d]
        /\ connect'[c].pc = pc
        /\ pc # "done" => connect'[c].user = connect[c].user
    BY <1>1, <1>2, CallbackToTyped
  <2>. QED BY <1>1, <1>2, <2>1 DEF KeepsCallbacks
<1>3. UNCHANGED tables => BillingTablesTypeOK'
  BY <1>1 DEF tables, BillingTablesTypeOK
<1>4. CASE ConfirmIdentity(c) BY <1>2, <1>3, <1>4 DEF ConfirmIdentity, CallbackAt
<1>5. CASE FindOwner(c) BY <1>2, <1>3, <1>5 DEF FindOwner, CallbackAt
<1>6. CASE Store(c)
  <2>1. BillingTablesTypeOK'
    BY <1>1, <1>6, StoreBundleTyped DEF Store, BillingTablesTypeOK
  <2>. QED BY <1>2, <1>6, <2>1 DEF Store, CallbackAt
<1>7. CASE Reconnect(c)
  <2>1. BillingTablesTypeOK'
    BY <1>1, <1>7, ConnectedTyped DEF Reconnect, CallbackAt, BillingTablesTypeOK
  <2>. QED BY <1>2, <1>7, <2>1 DEF Reconnect, CallbackAt
<1>8. CASE Insert(c)
  <2>1. UNCHANGED accounts \/ Connected(connect[c].user, c) BY <1>8 DEF Insert
  <2>2. BillingTablesTypeOK'
    BY <1>1, <1>8, <2>1, ConnectedTyped DEF Insert, CallbackAt, BillingTablesTypeOK
  <2>. QED BY <1>2, <1>8, <2>2 DEF Insert, CallbackAt
<1>9. CASE Supersede(c)
  <2>1. BillingTablesTypeOK'
    BY <1>1, <1>9, DeleteBundleTyped DEF Supersede, BillingTablesTypeOK
  <2>. QED BY <1>2, <1>9, <2>1 DEF Supersede, CallbackAt
<1>10. CASE Undo(c)
  <2>1. BillingTablesTypeOK'
    BY <1>1, <1>10, DeleteBundleTyped DEF Undo, BillingTablesTypeOK
  <2>. QED BY <1>2, <1>10, <2>1 DEF Undo, CallbackAt
<1>11. CASE Release(c)
  <2>1. BillingTablesTypeOK'
    BY <1>1, <1>11, RevokeGrantTyped DEF Release, BillingTablesTypeOK
  <2>. QED BY <1>2, <1>11, <2>1 DEF Release, CallbackAt
<1>12. CASE CallbackTrouble(c)
  <2>1. CASE CallbackFails(c) \/ CallbackDies(c)
    <3>1. PICK pc \in {"release", "undo", "done"} : CallbackTo(c, pc)
      BY <2>1 DEF CallbackFails, CallbackDies
    <3>. QED BY <1>2, <1>3, <1>12, <2>1, <3>1 DEF CallbackTrouble, CallbackFails, CallbackDies
  <2>2. CASE WriteUnanswered(c)
    <3>1. BillingTablesTypeOK'
      BY <1>1, <2>2, ConnectedTyped DEF WriteUnanswered, CallbackAt, BillingTablesTypeOK
    <3>. QED BY <1>2, <2>2, <3>1 DEF WriteUnanswered, CallbackAt
  <2>. QED BY <1>12, <2>1, <2>2 DEF CallbackTrouble
<1>. QED
  BY <1>4, <1>5, <1>6, <1>7, <1>8, <1>9, <1>10, <1>11, <1>12,
     ExchangeTyped, FindExistingTyped DEF CallbackStep

-----------------------------------------------------------------------------
(* The disconnects. *)

KeepsDisconnects(x) ==
  /\ BillingTablesTypeOK'
  /\ disconnect' \in [Disconnects -> Disconnect]
  /\ \A y \in Disconnects \ {x} : disconnect'[y] = disconnect[y]
  /\ disconnect'[x].pc \notin {"idle", "done"} => disconnect'[x].user \in Users
  /\ disconnect'[x].pc \in {"read", "revoke"} => disconnect'[x].old \in Connects

LEMMA DisconnectKeeps ==
  ASSUME Typed, NEW x \in Disconnects,
         DisconnectStep(x) \/ DisconnectTrouble(x)
  PROVE  KeepsDisconnects(x)
<1>1. /\ BillingTablesTypeOK /\ disconnect[x] \in Disconnect
      /\ disconnect \in [Disconnects -> Disconnect]
      /\ disconnect[x].pc \notin {"idle", "done"} => disconnect[x].user \in Users
      /\ disconnect[x].pc \in {"read", "revoke"} => disconnect[x].old \in Connects
  BY DEF Typed, TypeOK, Working, ConnectTypeOK
<1>2. ASSUME NEW new \in Disconnect, disconnect' = [disconnect EXCEPT ![x] = new],
             new.pc \notin {"idle", "done"} => new.user \in Users,
             new.pc \in {"read", "revoke"} => new.old \in Connects,
             BillingTablesTypeOK'
      PROVE  KeepsDisconnects(x)
  BY <1>1, <1>2 DEF KeepsDisconnects
<1>3. UNCHANGED tables => BillingTablesTypeOK'
  BY <1>1 DEF tables, BillingTablesTypeOK
<1>4. DisconnectOver \in Disconnect /\ DisconnectOver.pc = "done"
  BY IdleTyped DEF IdleDisconnect, DisconnectOver, Disconnect
<1>5. CASE ReadAccountToDrop(x)
  <2>1. PICK u \in Users :
          disconnect' = [disconnect EXCEPT ![x] =
            [pc |-> IF accounts[u].secret = NoSecret THEN "mark" ELSE "read",
             user |-> u, old |-> accounts[u].secret, pair |-> 0]]
    BY <1>5 DEF ReadAccountToDrop
  <2>. DEFINE new == [pc |-> IF accounts[u].secret = NoSecret THEN "mark" ELSE "read",
                      user |-> u, old |-> accounts[u].secret, pair |-> 0]
  <2>2. accounts[u].secret \in Connects \cup {NoSecret}
    BY <1>1 DEF BillingTablesTypeOK, AccountRow
  <2>3. new \in Disconnect BY <2>2 DEF Disconnect
  <2>4. new.user \in Users /\ (new.pc \in {"read", "revoke"} => new.old \in Connects)
    BY <2>2
  <2>. HIDE DEF new
  <2>5. disconnect' = [disconnect EXCEPT ![x] = new] BY <2>1 DEF new
  <2>. QED BY <1>2, <1>3, <1>5, <2>3, <2>4, <2>5 DEF ReadAccountToDrop
<1>6. CASE ReadBundleToDrop(x)
  <2>. DEFINE bundle == secrets[disconnect[x].old]
              new == [disconnect[x] EXCEPT
                        !.pair = IF bundle.stored THEN bundle.pair ELSE 0,
                        !.pc = IF bundle.stored THEN "revoke" ELSE "mark"]
  <2>1. disconnect[x].old \in Connects /\ disconnect[x].user \in Users
    BY <1>1, <1>6 DEF ReadBundleToDrop, DisconnectAt
  <2>2. bundle \in Bundle BY <1>1, <2>1 DEF BillingTablesTypeOK
  <2>3. /\ new \in Disconnect /\ new.user = disconnect[x].user
        /\ new.old = disconnect[x].old
    BY <1>1, <2>2 DEF Bundle, Disconnect
  <2>4. disconnect' = [disconnect EXCEPT ![x] = new]
    BY <1>1, <1>6 DEF ReadBundleToDrop, Disconnect
  <2>. HIDE DEF new
  <2>. QED BY <1>2, <1>3, <1>6, <2>1, <2>3, <2>4 DEF ReadBundleToDrop
<1>7. CASE RevokeAtGithub(x) \/ DropUnread(x)
  <2>. DEFINE new == [disconnect[x] EXCEPT !.pc = "mark"]
  <2>1. /\ new \in Disconnect /\ new.user = disconnect[x].user /\ new.pc = "mark"
    BY <1>1 DEF Disconnect
  <2>2. disconnect' = [disconnect EXCEPT ![x] = new] /\ disconnect[x].pc \notin {"idle", "done"}
    BY <1>1, <1>7 DEF RevokeAtGithub, DropUnread, DisconnectAt, Disconnect
  <2>3. BillingTablesTypeOK'
    BY <1>1, <1>3, <1>7, RevokeGrantTyped DEF RevokeAtGithub, DropUnread, BillingTablesTypeOK
  <2>. HIDE DEF new
  <2>. QED BY <1>1, <1>2, <2>1, <2>2, <2>3
<1>8. CASE MarkRevoked(x)
  <2>. DEFINE new == IF disconnect[x].old = NoSecret THEN DisconnectOver
                     ELSE [disconnect[x] EXCEPT !.pc = "destroy"]
  <2>1. disconnect[x].user \in Users BY <1>1, <1>8 DEF MarkRevoked, DisconnectAt
  <2>2. /\ new \in Disconnect /\ new.pc \in {"done", "destroy"}
        /\ new.pc # "done" => new.user = disconnect[x].user
    BY <1>1, <1>4 DEF Disconnect
  <2>3. BillingTablesTypeOK'
    <3>1. accounts[disconnect[x].user] \in AccountRow BY <1>1, <2>1 DEF BillingTablesTypeOK
    <3>2. [accounts[disconnect[x].user] EXCEPT !.status = "revoked", !.secret = NoSecret]
            \in AccountRow
      BY <3>1 DEF AccountRow
    <3>3. accounts' = [accounts EXCEPT ![disconnect[x].user] =
            [accounts[disconnect[x].user] EXCEPT !.status = "revoked", !.secret = NoSecret]]
      BY <1>1, <1>8, <2>1 DEF MarkRevoked, BillingTablesTypeOK, AccountRow
    <3>. QED BY ZenonT(60), <1>1, <1>8, <3>2, <3>3 DEF MarkRevoked, BillingTablesTypeOK
  <2>4. disconnect' = [disconnect EXCEPT ![x] = new]
    BY <1>8 DEF MarkRevoked
  <2>. HIDE DEF new
  <2>. QED BY <1>2, <2>1, <2>2, <2>3, <2>4
<1>9. CASE DestroyBundle(x)
  <2>1. BillingTablesTypeOK'
    BY <1>1, <1>9, DeleteBundleTyped DEF DestroyBundle, BillingTablesTypeOK
  <2>. QED BY <1>2, <1>4, <1>9, <2>1 DEF DestroyBundle
<1>10. CASE DropAborted(x) BY <1>2, <1>3, <1>4, <1>10 DEF DropAborted
<1>. QED
  BY <1>5, <1>6, <1>7, <1>8, <1>9, <1>10 DEF DisconnectStep, DisconnectTrouble

-----------------------------------------------------------------------------
(* The syncs: the local states they come to ... *)

LEMMA LocalStates ==
  ASSUME NEW local \in Sync
  PROVE  /\ \A pc \in {"open", "refresh", "persist", "identify", "fetch", "keep", "plan",
                        "insert", "apply"} :
              [local EXCEPT !.pc = pc] \in Sync
         /\ \A verdict \in {"connected", "degraded", "needs_reauth"} :
              /\ Concludes(local, verdict) \in Sync
              /\ Concludes(local, verdict).user = local.user
              /\ Concludes(local, verdict).secret = local.secret
              /\ Concludes(local, verdict).pc = "finish"
BY ZenonT(60), IdleTyped DEF Sync, Concludes

LEMMA PeriodsOfALocalState ==
  ASSUME NEW local \in Sync
  PROVE  /\ NextPeriod(local) \in Sync /\ NextPeriod(local).user = local.user
         /\ NextPeriod(local).secret = local.secret
         /\ NextPeriod(local).pc \in {"fetch", "finish"}
         /\ Ends(local) \in Sync /\ Ends(local).user = local.user /\ Ends(local).pc = "finish"
<1>1. local.later \in Seq(Periods) BY DEF Sync
<1>2. /\ Ends(local) \in Sync /\ Ends(local).user = local.user /\ Ends(local).pc = "finish"
      /\ Ends(local).secret = local.secret
  BY LocalStates DEF Ends
<1>3. CASE local.later = <<>> BY <1>2, <1>3 DEF NextPeriod
<1>4. CASE local.later # <<>>
  <2>. DEFINE next == Head(local.later)
              rest == Tail(local.later)
              new == [local EXCEPT !.period = next, !.later = rest, !.pc = "fetch",
                                   !.answer = NoAnswer, !.plan = NoPlan]
  <2>1. next \in Periods /\ rest \in Seq(Periods) BY <1>1, <1>4, HeadTailProperties
  <2>2. NextPeriod(local) = new BY <1>4 DEF NextPeriod
  <2>. HIDE DEF next, rest
  <2>3. new \in Sync /\ new.user = local.user /\ new.pc = "fetch" /\ new.secret = local.secret
    BY <2>1, IdleTyped DEF Sync
  <2>. QED BY <1>2, <2>2, <2>3
<1>. QED BY <1>3, <1>4

(* ... and what a step of a sync keeps, whichever it is. *)
KeepsSyncs(s) ==
  /\ BillingTablesTypeOK' /\ SyncTypeOK'
  /\ \A t \in Syncs \ {s} : sync'[t] = sync[t]
  /\ sync'[s].pc # "idle" => sync'[s].user \in Users
  /\ sync'[s].pc \in AtWork => sync'[s].secret \in Connects
  /\ sync'[s].pc \notin {"idle", "lease"} =>
       /\ sync'[s].user = sync[s].user
       /\ sync[s].pc \notin {"idle", "lease"} \/ AcquireLease(s)

LEMMA SyncTypes ==
  ASSUME Typed, NEW s \in Syncs
  PROVE  /\ BillingTablesTypeOK /\ SyncTypeOK /\ sync[s] \in Sync
         /\ sync[s].pc # "idle" => sync[s].user \in Users
         /\ sync[s].pc \in AtWork => sync[s].secret \in Connects
         /\ \A u \in Users : accounts[u] \in AccountRow
BY DEF Typed, TypeOK, Working, SyncTypeOK, BillingTablesTypeOK

LEMMA Untouched ==
  ASSUME Typed
  PROVE  /\ UNCHANGED tables => BillingTablesTypeOK'
         /\ UNCHANGED <<usage, evidence>> =>
              /\ usage' \in [Principals -> [Periods -> Answer]]
              /\ snapshots' \subseteq Users \X Periods \X Answer
              /\ rows' \in [Users -> [Periods -> [Items -> UsageRow]]]
BY DEF tables, evidence, Typed, TypeOK, BillingTablesTypeOK, SyncTypeOK

LEMMA SyncBecomes ==
  ASSUME Typed, NEW s \in Syncs, NEW new \in Sync, Becomes(s, new),
         BillingTablesTypeOK',
         usage' \in [Principals -> [Periods -> Answer]],
         snapshots' \subseteq Users \X Periods \X Answer,
         rows' \in [Users -> [Periods -> [Items -> UsageRow]]],
         new.pc # "idle" => new.user \in Users,
         new.pc \in AtWork => new.secret \in Connects,
         new.pc \notin {"idle", "lease"} =>
           /\ new.user = sync[s].user
           /\ sync[s].pc \notin {"idle", "lease"} \/ AcquireLease(s)
  PROVE  KeepsSyncs(s) /\ sync'[s] = new
BY SyncTypes DEF Becomes, KeepsSyncs, SyncTypeOK

(* Steps that touch only the sync itself. *)
LEMMA SyncAlone ==
  ASSUME Typed, NEW s \in Syncs, NEW new \in Sync, Becomes(s, new),
         UNCHANGED <<tables, usage, evidence>>,
         new.pc \in AtWork => new.secret \in Connects,
         new.pc = "idle" \/ (new.user = sync[s].user /\ sync[s].pc \notin {"idle", "lease"})
  PROVE  KeepsSyncs(s) /\ sync'[s] = new
BY SyncTypes, Untouched, SyncBecomes

LEMMA LetsGoTyped ==
  ASSUME NEW local \in Sync
  PROVE  /\ [IdleSync EXCEPT !.pc = "release", !.user = local.user] \in Sync
         /\ [IdleSync EXCEPT !.pc = "release", !.user = local.user].user = local.user
         /\ [IdleSync EXCEPT !.pc = "release", !.user = local.user].pc = "release"
BY IdleTyped DEF Sync

LEMMA StatusTyped ==
  ASSUME Typed, NEW u \in Users,
         NEW verdict \in {"connected", "degraded", "needs_reauth"},
         accounts' = [accounts EXCEPT ![u].status = verdict], UNCHANGED <<grants, secrets>>
  PROVE  BillingTablesTypeOK' /\ \A v \in Users : SameBinding(v)
<1>1. accounts \in [Users -> AccountRow] /\ accounts[u] \in AccountRow
  BY DEF Typed, TypeOK, BillingTablesTypeOK
<1>. DEFINE row == [accounts[u] EXCEPT !.status = verdict]
<1>2. /\ row \in AccountRow /\ row.exists = accounts[u].exists /\ row.lease = accounts[u].lease
      /\ row.principal = accounts[u].principal
  BY <1>1 DEF AccountRow
<1>3. accounts' = [accounts EXCEPT ![u] = row] BY <1>1
<1>. HIDE DEF row
<1>. QED BY <1>1, <1>2, <1>3 DEF Typed, TypeOK, BillingTablesTypeOK, SameBinding

LEMMA LeaseTyped ==
  ASSUME Typed, NEW u \in Users, NEW held \in BOOLEAN,
         accounts' = [accounts EXCEPT ![u].lease = held], UNCHANGED <<grants, secrets>>
  PROVE  /\ BillingTablesTypeOK' /\ accounts'[u].lease = held
         /\ \A v \in Users \ {u} : accounts'[v] = accounts[v]
         /\ \A v \in Users : /\ accounts'[v].exists = accounts[v].exists
                             /\ accounts'[v].principal = accounts[v].principal
<1>1. accounts \in [Users -> AccountRow] /\ accounts[u] \in AccountRow
  BY DEF Typed, TypeOK, BillingTablesTypeOK
<1>. DEFINE row == [accounts[u] EXCEPT !.lease = held]
<1>2. /\ row \in AccountRow /\ row.exists = accounts[u].exists /\ row.lease = held
      /\ row.principal = accounts[u].principal
  BY <1>1 DEF AccountRow
<1>3. accounts' = [accounts EXCEPT ![u] = row] BY <1>1
<1>. HIDE DEF row
<1>. QED BY <1>1, <1>2, <1>3 DEF Typed, TypeOK, BillingTablesTypeOK

LEMMA RotatedTyped ==
  ASSUME Typed, NEW c \in Connects,
         grants' = [grants EXCEPT ![c].pair = @ + 1], UNCHANGED <<secrets, accounts>>
  PROVE  BillingTablesTypeOK' /\ \A g \in Connects : grants'[g].principal = grants[g].principal
<1>1. grants \in [Connects -> Grant] /\ grants[c] \in Grant
  BY DEF Typed, TypeOK, BillingTablesTypeOK
<1>. DEFINE grant == [grants[c] EXCEPT !.pair = grants[c].pair + 1]
<1>2. grant \in Grant /\ grant.principal = grants[c].principal BY <1>1 DEF Grant
<1>3. grants' = [grants EXCEPT ![c] = grant] BY <1>1 DEF Grant
<1>. HIDE DEF grant
<1>. QED BY <1>1, <1>2, <1>3 DEF Typed, TypeOK, BillingTablesTypeOK

-----------------------------------------------------------------------------
(* The steps of a sync up to the evidence. *)

LEMMA ReadAccountKeeps ==
  ASSUME Typed, NEW s \in Syncs, NEW u \in Users, ReadAccount(s, u)
  PROVE  KeepsSyncs(s) /\ sync'[s].pc = "lease"
<1>. DEFINE new == [IdleSync EXCEPT !.pc = "lease", !.user = u, !.secret = accounts[u].secret]
<1>1. accounts[u].secret \in Connects \cup {NoSecret} BY SyncTypes DEF AccountRow
<1>2. new \in Sync /\ new.pc = "lease" /\ new.user = u BY <1>1, IdleTyped DEF Sync
<1>3. Becomes(s, new) /\ UNCHANGED <<tables, usage, evidence>> BY DEF ReadAccount
<1>. HIDE DEF new
<1>. QED BY <1>2, <1>3, Untouched, SyncBecomes DEF AtWork

LEMMA AcquireLeaseKeeps ==
  ASSUME Typed, NEW s \in Syncs, AcquireLease(s)
  PROVE  /\ KeepsSyncs(s)
         /\ \/ sync'[s].pc = "idle" /\ UNCHANGED accounts
            \/ /\ ~accounts[sync[s].user].lease /\ sync'[s].pc = "open"
               /\ accounts' = [accounts EXCEPT ![sync[s].user].lease = TRUE]
<1>1. sync[s] \in Sync /\ sync[s].pc = "lease" /\ sync[s].user \in Users
  BY SyncTypes DEF AcquireLease, SyncAt
<1>2. UNCHANGED <<grants, secrets, usage, evidence>> BY DEF AcquireLease
<1>3. CASE accounts[sync[s].user].lease
  <2>1. Becomes(s, IdleSync) /\ UNCHANGED accounts BY <1>3 DEF AcquireLease
  <2>. QED BY <2>1, <1>2, IdleTyped, Untouched, SyncBecomes DEF tables, IdleSync, AtWork
<1>4. CASE ~accounts[sync[s].user].lease
  <2>. DEFINE new == [sync[s] EXCEPT !.pc = "open"]
  <2>1. /\ Becomes(s, new)
        /\ accounts' = [accounts EXCEPT ![sync[s].user].lease = TRUE]
    BY <1>4 DEF AcquireLease, GoesTo
  <2>2. new \in Sync /\ new.pc = "open" /\ new.user = sync[s].user BY <1>1 DEF Sync
  <2>3. BillingTablesTypeOK' BY <1>1, <1>2, <2>1, LeaseTyped
  <2>. HIDE DEF new
  <2>4. KeepsSyncs(s) /\ sync'[s] = new
    BY <1>1, <1>2, <2>1, <2>2, <2>3, Untouched, SyncBecomes DEF AtWork
  <2>. QED BY <1>4, <2>1, <2>2, <2>4
<1>. QED BY <1>3, <1>4

LEMMA GivesUpKeeps ==
  ASSUME Typed, NEW s \in Syncs, sync[s].pc \notin {"idle", "lease"},
         NEW verdict \in {"connected", "degraded", "needs_reauth"}, GivesUp(s, verdict),
         BillingTablesTypeOK', UNCHANGED <<usage, evidence>>
  PROVE  KeepsSyncs(s) /\ sync'[s].pc = "finish"
<1>1. sync[s] \in Sync /\ sync[s].user \in Users BY SyncTypes
<1>. DEFINE new == Concludes(sync[s], verdict)
<1>2. new \in Sync /\ new.user = sync[s].user /\ new.pc = "finish" BY <1>1, LocalStates
<1>3. Becomes(s, new) BY DEF GivesUp
<1>. HIDE DEF new
<1>. QED BY <1>1, <1>2, <1>3, Untouched, SyncBecomes DEF AtWork

LEMMA LetsGoKeeps ==
  ASSUME Typed, NEW s \in Syncs, sync[s].pc \notin {"idle", "lease"}, LetsGo(s),
         BillingTablesTypeOK', UNCHANGED <<usage, evidence>>
  PROVE  KeepsSyncs(s) /\ sync'[s].pc = "release"
BY ZenonT(60), SyncTypes, LetsGoTyped, Untouched, SyncBecomes DEF LetsGo, AtWork

LEMMA OpenBundleKeeps ==
  ASSUME Typed, NEW s \in Syncs, OpenBundle(s)
  PROVE  KeepsSyncs(s) /\ sync'[s].pc \in {"finish", "identify", "refresh"}
<1>1. /\ sync[s] \in Sync /\ sync[s].pc = "open" /\ sync[s].user \in Users
      /\ UNCHANGED <<tables, usage, evidence>>
  BY SyncTypes DEF OpenBundle, SyncAt
<1>2. CASE GivesUp(s, "needs_reauth") \/ GivesUp(s, "degraded")
  BY <1>1, <1>2, Untouched, GivesUpKeeps
<1>3. CASE sync[s].secret # NoSecret /\ \E pc \in {"identify", "refresh"} :
             Becomes(s, [sync[s] EXCEPT !.pair = secrets[sync[s].secret].pair, !.pc = pc])
  <2>1. PICK pc \in {"identify", "refresh"} :
          Becomes(s, [sync[s] EXCEPT !.pair = secrets[sync[s].secret].pair, !.pc = pc])
    BY <1>3
  <2>. DEFINE new == [sync[s] EXCEPT !.pair = secrets[sync[s].secret].pair, !.pc = pc]
  <2>2. sync[s].secret \in Connects BY <1>1, <1>3 DEF Sync
  <2>3. secrets[sync[s].secret].pair \in Nat
    BY <2>2, SyncTypes DEF BillingTablesTypeOK, Bundle
  <2>4. new \in Sync /\ new.pc = pc /\ new.user = sync[s].user /\ new.secret = sync[s].secret
    BY <1>1, <2>3 DEF Sync
  <2>5. Becomes(s, new) BY <2>1
  <2>. HIDE DEF new
  <2>. QED BY <1>1, <2>2, <2>4, <2>5, SyncAlone
<1>. QED BY <1>2, <1>3 DEF OpenBundle

LEMMA RefreshKeeps ==
  ASSUME Typed, NEW s \in Syncs, Refresh(s)
  PROVE  KeepsSyncs(s) /\ sync'[s].pc \in {"finish", "persist"}
<1>1. /\ sync[s] \in Sync /\ sync[s].pc = "refresh" /\ sync[s].user \in Users
      /\ UNCHANGED <<secrets, accounts, usage, evidence>>
  BY SyncTypes DEF Refresh, SyncAt
<1>0. sync[s].secret \in Connects BY <1>1, SyncTypes DEF AtWork
<1>2. CASE GivesUp(s, "needs_reauth") /\ UNCHANGED grants
  BY <1>1, <1>2, Untouched, GivesUpKeeps DEF tables
<1>3. CASE /\ grants' = [grants EXCEPT ![sync[s].secret].pair = @ + 1]
           /\ Becomes(s, [sync[s] EXCEPT !.pair = @ + 1, !.pc = "persist"])
  <2>. DEFINE new == [sync[s] EXCEPT !.pair = sync[s].pair + 1, !.pc = "persist"]
  <2>1. /\ new \in Sync /\ new.pc = "persist" /\ new.user = sync[s].user
        /\ new.secret = sync[s].secret
    <3>1. sync[s].pair + 1 \in Nat BY <1>1 DEF Sync
    <3>. QED BY <1>1, <3>1 DEF Sync
  <2>2. Becomes(s, new) BY <1>1, <1>3 DEF Sync
  <2>3. BillingTablesTypeOK' BY <1>0, <1>1, <1>3, RotatedTyped
  <2>. HIDE DEF new
  <2>. QED BY <1>0, <1>1, <2>1, <2>2, <2>3, Untouched, SyncBecomes
<1>. QED BY <1>2, <1>3 DEF Refresh

LEMMA PersistKeeps ==
  ASSUME Typed, NEW s \in Syncs, Persist(s)
  PROVE  KeepsSyncs(s) /\ sync'[s].pc = "identify"
<1>1. /\ sync[s] \in Sync /\ sync[s].pc = "persist" /\ sync[s].user \in Users
      /\ UNCHANGED <<grants, accounts, usage, evidence>>
  BY SyncTypes DEF Persist, SyncAt
<1>. DEFINE new == [sync[s] EXCEPT !.refreshed = TRUE, !.pc = "identify"]
<1>0. sync[s].secret \in Connects BY <1>1, SyncTypes DEF AtWork
<1>2. /\ new \in Sync /\ new.pc = "identify" /\ new.user = sync[s].user
      /\ new.secret = sync[s].secret
  BY <1>1 DEF Sync
<1>3. Becomes(s, new) BY DEF Persist
<1>4. sync[s].pair \in Nat BY <1>1 DEF Sync
<1>5. UNCHANGED secrets \/ StoreBundle(sync[s].secret, sync[s].pair) BY DEF Persist
<1>6. secrets' \in [Connects -> Bundle]
  BY <1>4, <1>5, SyncTypes, StoreBundleTyped DEF BillingTablesTypeOK
<1>7. BillingTablesTypeOK' BY <1>1, <1>6, SyncTypes DEF BillingTablesTypeOK
<1>. HIDE DEF new
<1>. QED BY <1>0, <1>1, <1>2, <1>3, <1>7, Untouched, SyncBecomes

LEMMA CheckIdentityKeeps ==
  ASSUME Typed, NEW s \in Syncs, CheckIdentity(s)
  PROVE  KeepsSyncs(s) /\ sync'[s].pc \in {"finish", "fetch", "refresh"}
<1>1. /\ sync[s] \in Sync /\ sync[s].pc = "identify" /\ sync[s].user \in Users
      /\ UNCHANGED <<tables, usage, evidence>>
  BY SyncTypes DEF CheckIdentity, SyncAt
<1>0. sync[s].secret \in Connects BY <1>1, SyncTypes DEF AtWork
<1>2. CASE GivesUp(s, "needs_reauth") BY <1>1, <1>2, Untouched, GivesUpKeeps
<1>3. CASE GoesTo(s, "refresh")
  <2>. DEFINE new == [sync[s] EXCEPT !.pc = "refresh"]
  <2>1. /\ new \in Sync /\ new.pc = "refresh" /\ new.user = sync[s].user
        /\ new.secret = sync[s].secret
    BY <1>1 DEF Sync
  <2>2. Becomes(s, new) BY <1>3 DEF GoesTo
  <2>. HIDE DEF new
  <2>. QED BY <1>0, <1>1, <2>1, <2>2, SyncAlone
<1>4. ASSUME NEW mode \in Modes, NEW k \in SyncDays,
             LET asked == planSyncRequests(mode, k)
             IN Becomes(s, [sync[s] EXCEPT !.period = Head(asked), !.later = Tail(asked),
                                           !.pc = "fetch"])
      PROVE  KeepsSyncs(s) /\ sync'[s].pc = "fetch"
  <2>. DEFINE now == Head(planSyncRequests(mode, k))
              rest == Tail(planSyncRequests(mode, k))
              new == [sync[s] EXCEPT !.period = now, !.later = rest, !.pc = "fetch"]
  <2>1. now \in Periods /\ rest \in Seq(Periods) BY PlansTyped
  <2>2. Becomes(s, new) BY <1>4
  <2>. HIDE DEF now, rest
  <2>3. /\ new \in Sync /\ new.pc = "fetch" /\ new.user = sync[s].user
        /\ new.secret = sync[s].secret
    BY <1>1, <2>1 DEF Sync
  <2>. HIDE DEF new
  <2>. QED BY <1>0, <1>1, <2>2, <2>3, SyncAlone
<1>. QED BY <1>2, <1>3, <1>4 DEF CheckIdentity

-----------------------------------------------------------------------------
(* The evidence. *)

LEMMA PeriodTyped ==
  ASSUME NEW s \in Syncs, sync[s] \in Sync
  PROVE  Period(s) \in Periods
BY DEF Period, Sync

LEMMA FetchUsageKeeps ==
  ASSUME Typed, NEW s \in Syncs, FetchUsage(s)
  PROVE  KeepsSyncs(s) /\ sync'[s].pc \in {"finish", "fetch", "keep"}
<1>1. /\ sync[s] \in Sync /\ sync[s].pc = "fetch" /\ sync[s].user \in Users
      /\ UNCHANGED <<tables, usage, evidence>>
  BY SyncTypes DEF FetchUsage, SyncAt
<1>0. sync[s].secret \in Connects BY <1>1, SyncTypes DEF AtWork
<1>2. CASE GivesUp(s, "needs_reauth") BY <1>1, <1>2, Untouched, GivesUpKeeps
<1>3. CASE Becomes(s, NextPeriod(sync[s]))
  BY <1>0, <1>1, <1>3, PeriodsOfALocalState, SyncAlone
<1>4. CASE Becomes(s, [sync[s] EXCEPT !.pc = "keep",
                            !.answer = usage[grants[sync[s].secret].principal][Period(s)]])
  <2>. DEFINE new == [sync[s] EXCEPT !.pc = "keep",
                        !.answer = usage[grants[sync[s].secret].principal][Period(s)]]
  <2>1. grants[sync[s].secret].principal \in Principals
    BY <1>0, SyncTypes DEF BillingTablesTypeOK, Grant
  <2>2. usage[grants[sync[s].secret].principal][Period(s)] \in Answer
    BY <1>1, <2>1, PeriodTyped, SyncTypes DEF SyncTypeOK
  <2>3. /\ new \in Sync /\ new.pc = "keep" /\ new.user = sync[s].user
        /\ new.secret = sync[s].secret
    BY <1>1, <2>2 DEF Sync
  <2>4. Becomes(s, new) BY <1>4
  <2>. HIDE DEF new
  <2>. QED BY <1>0, <1>1, <2>3, <2>4, SyncAlone
<1>. QED BY <1>2, <1>3, <1>4 DEF FetchUsage

LEMMA KeepSnapshotKeeps ==
  ASSUME Typed, NEW s \in Syncs, KeepSnapshot(s)
  PROVE  /\ KeepsSyncs(s)
         /\ sync'[s].pc = "plan" /\ sync'[s].user = sync[s].user
         /\ sync'[s].period = sync[s].period /\ sync'[s].answer = sync[s].answer
<1>1. /\ sync[s] \in Sync /\ sync[s].pc = "keep" /\ sync[s].user \in Users
      /\ UNCHANGED <<tables, usage, rows>>
  BY SyncTypes DEF KeepSnapshot, SyncAt
<1>2. sync[s].secret \in Connects BY <1>1, SyncTypes DEF AtWork
<1>. DEFINE new == [sync[s] EXCEPT !.pc = "plan"]
<1>3. /\ new \in Sync /\ new.pc = "plan" /\ new.user = sync[s].user
      /\ new.secret = sync[s].secret /\ new.period = sync[s].period /\ new.answer = sync[s].answer
  BY <1>1 DEF Sync
<1>4. Becomes(s, new) BY DEF KeepSnapshot, GoesTo
<1>5. <<sync[s].user, Period(s), sync[s].answer>> \in Users \X Periods \X Answer
  BY <1>1, PeriodTyped DEF Sync
<1>6. snapshots' \subseteq Users \X Periods \X Answer
  BY <1>5, SyncTypes DEF KeepSnapshot, SyncTypeOK
<1>. HIDE DEF new
<1>7. /\ usage' \in [Principals -> [Periods -> Answer]]
      /\ rows' \in [Users -> [Periods -> [Items -> UsageRow]]]
      /\ BillingTablesTypeOK'
  BY <1>1, SyncTypes, Untouched DEF SyncTypeOK
<1>8. KeepsSyncs(s) /\ sync'[s] = new
  BY <1>1, <1>2, <1>3, <1>4, <1>6, <1>7, SyncBecomes
<1>. QED BY <1>3, <1>8

LEMMA PlanRowsKeeps ==
  ASSUME Typed, NEW s \in Syncs, PlanRows(s)
  PROVE  /\ KeepsSyncs(s)
         /\ sync'[s].pc = "insert" /\ sync'[s].user = sync[s].user
         /\ sync'[s].period = sync[s].period /\ sync'[s].answer = sync[s].answer
         /\ sync'[s].plan = PlanUpsert(rows[sync[s].user][Period(s)], sync[s].answer)
<1>1. /\ sync[s] \in Sync /\ sync[s].pc = "plan" /\ sync[s].user \in Users
      /\ UNCHANGED <<tables, usage, evidence>>
  BY SyncTypes DEF PlanRows, SyncAt
<1>2. sync[s].secret \in Connects BY <1>1, SyncTypes DEF AtWork
<1>. DEFINE plan == PlanUpsert(rows[sync[s].user][Period(s)], sync[s].answer)
            billed == IF IsDay(Period(s)) \/ Listed(sync[s].answer) = {}
                      THEN sync[s].billed ELSE sync[s].billed \cup {Period(s)}
            new == [sync[s] EXCEPT !.pc = "insert", !.plan = plan, !.billed = billed]
<1>3. plan \in Plan BY DEF PlanUpsert, Plan, Listed
<1>4. billed \in SUBSET Periods
  <2>1. sync[s].billed \in SUBSET Periods BY <1>1 DEF Sync
  <2>2. Period(s) \in Periods BY <1>1, PeriodTyped
  <2>. QED BY <2>1, <2>2
<1>5. /\ new \in Sync /\ new.pc = "insert" /\ new.user = sync[s].user
      /\ new.secret = sync[s].secret /\ new.period = sync[s].period /\ new.answer = sync[s].answer
      /\ new.plan = plan
  BY <1>1, <1>3, <1>4 DEF Sync
<1>6. Becomes(s, new) BY <1>1 DEF PlanRows, Sync
<1>. HIDE DEF new, plan, billed
<1>7. KeepsSyncs(s) /\ sync'[s] = new BY <1>1, <1>2, <1>5, <1>6, SyncAlone
<1>. QED BY <1>5, <1>7 DEF plan

(* What a sync writes into the rows of its period. *)
LEMMA WritesTyped ==
  ASSUME Typed, NEW s \in Syncs, sync[s].user \in Users,
         NEW updated \in [Items -> UsageRow], Writes(s, updated)
  PROVE  /\ rows' \in [Users -> [Periods -> [Items -> UsageRow]]]
         /\ rows'[sync[s].user][Period(s)] = updated
         /\ \A u \in Users, t \in Periods :
              <<u, t>> # <<sync[s].user, Period(s)>> => rows'[u][t] = rows[u][t]
<1>1. /\ rows \in [Users -> [Periods -> [Items -> UsageRow]]] /\ Period(s) \in Periods
      /\ rows[sync[s].user] \in [Periods -> [Items -> UsageRow]]
  BY SyncTypes, PeriodTyped DEF SyncTypeOK
<1>2. rows' = [rows EXCEPT ![sync[s].user] = [rows[sync[s].user] EXCEPT ![Period(s)] = updated]]
  BY <1>1 DEF Writes
<1>3. [rows[sync[s].user] EXCEPT ![Period(s)] = updated] \in [Periods -> [Items -> UsageRow]]
  BY <1>1
<1>. QED BY <1>1, <1>2, <1>3

LEMMA RowsTyped ==
  ASSUME NEW old \in [Items -> UsageRow], NEW answer \in Answer, NEW plan \in Plan,
         NEW i \in Items
  PROVE  /\ InsertRows(old, plan, answer) \in [Items -> UsageRow]
         /\ UpdateRow(old, i, answer) \in [Items -> UsageRow]
         /\ WithdrawRow(old, i, answer) \in [Items -> UsageRow]
<1>1. \A j \in Items : old[j] \in UsageRow /\ answer[j] \in Values \cup {"unlisted"}
  BY DEF Answer
<1>2. InsertRows(old, plan, answer) \in [Items -> UsageRow]
  <2>1. \A j \in Items : [exists |-> TRUE, value |-> answer[j], withdrawn |-> FALSE,
                           snapshot |-> answer] \in UsageRow
    BY <1>1 DEF UsageRow
  <2>. QED BY <1>1, <2>1 DEF InsertRows
<1>3. [old[i] EXCEPT !.value = answer[i], !.withdrawn = FALSE, !.snapshot = answer] \in UsageRow
  BY <1>1 DEF UsageRow
<1>4. [old[i] EXCEPT !.withdrawn = TRUE, !.snapshot = answer] \in UsageRow
  BY <1>1 DEF UsageRow
<1>5. /\ UpdateRow(old, i, answer) =
           [old EXCEPT ![i] = [old[i] EXCEPT !.value = answer[i], !.withdrawn = FALSE,
                                            !.snapshot = answer]]
      /\ WithdrawRow(old, i, answer) =
           [old EXCEPT ![i] = [old[i] EXCEPT !.withdrawn = TRUE, !.snapshot = answer]]
  BY <1>1 DEF UpdateRow, WithdrawRow, UsageRow
<1>. QED BY <1>2, <1>3, <1>4, <1>5

LEMMA InsertPlannedKeeps ==
  ASSUME Typed, NEW s \in Syncs, InsertPlanned(s)
  PROVE  /\ KeepsSyncs(s)
         /\ \/ sync'[s].pc = "release" /\ UNCHANGED rows
            \/ /\ sync'[s].pc = "apply" /\ sync'[s].user = sync[s].user
               /\ sync'[s].period = sync[s].period /\ sync'[s].answer = sync[s].answer
               /\ sync'[s].plan = sync[s].plan
               /\ Writes(s, InsertRows(Stored(s), sync[s].plan, sync[s].answer))
<1>1. /\ sync[s] \in Sync /\ sync[s].pc = "insert" /\ sync[s].user \in Users
      /\ UNCHANGED <<tables, usage, snapshots>>
  BY SyncTypes DEF InsertPlanned, SyncAt
<1>2. sync[s].secret \in Connects BY <1>1, SyncTypes DEF AtWork
<1>3. CASE LetsGo(s) /\ UNCHANGED rows
  <2>1. UNCHANGED evidence BY <1>1, <1>3 DEF evidence
  <2>. QED BY <1>1, <1>3, <2>1, Untouched, LetsGoKeeps
<1>4. CASE GoesTo(s, "apply") /\ Writes(s, InsertRows(Stored(s), sync[s].plan, sync[s].answer))
  <2>. DEFINE new == [sync[s] EXCEPT !.pc = "apply"]
  <2>1. /\ new \in Sync /\ new.pc = "apply" /\ new.user = sync[s].user
        /\ new.secret = sync[s].secret /\ new.period = sync[s].period /\ new.answer = sync[s].answer
        /\ new.plan = sync[s].plan
    BY <1>1 DEF Sync
  <2>2. Becomes(s, new) BY <1>4 DEF GoesTo
  <2>3. /\ Stored(s) \in [Items -> UsageRow]
        /\ sync[s].plan \in Plan /\ sync[s].answer \in Answer
    BY <1>1, PeriodTyped, SyncTypes DEF Stored, SyncTypeOK, Sync
  <2>4. InsertRows(Stored(s), sync[s].plan, sync[s].answer) \in [Items -> UsageRow]
    BY <2>3, RowsTyped DEF InsertRows
  <2>5. rows' \in [Users -> [Periods -> [Items -> UsageRow]]] BY <1>1, <1>4, <2>4, WritesTyped
  <2>6. /\ usage' \in [Principals -> [Periods -> Answer]]
        /\ snapshots' \subseteq Users \X Periods \X Answer
        /\ BillingTablesTypeOK'
    BY <1>1, SyncTypes, Untouched DEF SyncTypeOK
  <2>. HIDE DEF new
  <2>7. KeepsSyncs(s) /\ sync'[s] = new
    BY <1>1, <1>2, <2>1, <2>2, <2>5, <2>6, SyncBecomes
  <2>. QED BY <1>4, <2>1, <2>7
<1>. QED BY <1>3, <1>4 DEF InsertPlanned

(* One update, or one withdrawal, of the plan. *)
AppliesOne(s, i) ==
  \/ /\ i \in sync[s].plan.updates
     /\ Writes(s, UpdateRow(Stored(s), i, sync[s].answer))
     /\ sync' = [sync EXCEPT ![s].plan.updates = @ \ {i}]
  \/ /\ i \in sync[s].plan.withdrawals
     /\ Writes(s, WithdrawRow(Stored(s), i, sync[s].answer))
     /\ sync' = [sync EXCEPT ![s].plan.withdrawals = @ \ {i}]

LEMMA AppliesOneKeeps ==
  ASSUME Typed, NEW s \in Syncs, UpdatePlanned(s) \/ WithdrawPlanned(s)
  PROVE  /\ KeepsSyncs(s)
         /\ sync'[s].pc = "apply" /\ sync'[s].user = sync[s].user
         /\ sync'[s].period = sync[s].period /\ sync'[s].answer = sync[s].answer
         /\ sync'[s].plan.inserts = sync[s].plan.inserts
         /\ sync'[s].plan.updates \subseteq sync[s].plan.updates
         /\ sync'[s].plan.withdrawals \subseteq sync[s].plan.withdrawals
         /\ \E i \in Items : AppliesOne(s, i)
<1>1. /\ sync[s] \in Sync /\ sync[s].pc = "apply" /\ sync[s].user \in Users
      /\ UNCHANGED <<tables, usage, snapshots>>
  BY SyncTypes DEF UpdatePlanned, WithdrawPlanned, SyncAt
<1>2. sync[s].secret \in Connects BY <1>1, SyncTypes DEF AtWork
<1>3. /\ Stored(s) \in [Items -> UsageRow]
      /\ sync[s].plan \in Plan /\ sync[s].answer \in Answer
  BY <1>1, PeriodTyped, SyncTypes DEF Stored, SyncTypeOK, Sync
<1>4. PICK i : AppliesOne(s, i)
  BY DEF UpdatePlanned, WithdrawPlanned, AppliesOne
<1>5. i \in Items BY <1>3, <1>4 DEF AppliesOne, Plan
<1>6. PICK plan \in Plan :
        /\ plan.inserts = sync[s].plan.inserts
        /\ plan.updates \subseteq sync[s].plan.updates
        /\ plan.withdrawals \subseteq sync[s].plan.withdrawals
        /\ sync' = [sync EXCEPT ![s] = [sync[s] EXCEPT !.plan = plan]]
  <2>1. CASE sync' = [sync EXCEPT ![s].plan.updates = @ \ {i}]
    <3>. DEFINE plan == [sync[s].plan EXCEPT !.updates = sync[s].plan.updates \ {i}]
    <3>1. /\ plan \in Plan /\ plan.inserts = sync[s].plan.inserts
          /\ plan.updates = sync[s].plan.updates \ {i}
          /\ plan.withdrawals = sync[s].plan.withdrawals
      BY <1>3 DEF Plan
    <3>2. sync' = [sync EXCEPT ![s] = [sync[s] EXCEPT !.plan = plan]]
      BY <1>1, <1>3, <2>1, SyncTypes DEF SyncTypeOK, Sync, Plan
    <3>. HIDE DEF plan
    <3>. QED BY <3>1, <3>2
  <2>2. CASE sync' = [sync EXCEPT ![s].plan.withdrawals = @ \ {i}]
    <3>. DEFINE plan == [sync[s].plan EXCEPT !.withdrawals = sync[s].plan.withdrawals \ {i}]
    <3>1. /\ plan \in Plan /\ plan.inserts = sync[s].plan.inserts
          /\ plan.withdrawals = sync[s].plan.withdrawals \ {i}
          /\ plan.updates = sync[s].plan.updates
      BY <1>3 DEF Plan
    <3>2. sync' = [sync EXCEPT ![s] = [sync[s] EXCEPT !.plan = plan]]
      BY <1>1, <1>3, <2>2, SyncTypes DEF SyncTypeOK, Sync, Plan
    <3>. HIDE DEF plan
    <3>. QED BY <3>1, <3>2
  <2>. QED BY <1>4, <2>1, <2>2 DEF AppliesOne
<1>. DEFINE new == [sync[s] EXCEPT !.plan = plan]
<1>7. /\ new \in Sync /\ new.pc = "apply" /\ new.user = sync[s].user
      /\ new.secret = sync[s].secret /\ new.period = sync[s].period /\ new.answer = sync[s].answer
      /\ new.plan = plan
  BY <1>1, <1>6 DEF Sync
<1>8. rows' \in [Users -> [Periods -> [Items -> UsageRow]]]
  <2>1. PICK updated \in [Items -> UsageRow] : Writes(s, updated)
    BY <1>3, <1>4, <1>5, RowsTyped DEF AppliesOne
  <2>. QED BY <1>1, <2>1, WritesTyped
<1>9. /\ usage' \in [Principals -> [Periods -> Answer]]
      /\ snapshots' \subseteq Users \X Periods \X Answer
      /\ BillingTablesTypeOK'
  BY <1>1, SyncTypes, Untouched DEF SyncTypeOK
<1>10. Becomes(s, new) BY <1>6 DEF Becomes
<1>. HIDE DEF new
<1>11. KeepsSyncs(s) /\ sync'[s] = new
  BY <1>1, <1>2, <1>7, <1>8, <1>9, <1>10, SyncBecomes
<1>. QED BY <1>4, <1>5, <1>6, <1>7, <1>11

LEMMA PeriodDoneKeeps ==
  ASSUME Typed, NEW s \in Syncs, PeriodDone(s)
  PROVE  KeepsSyncs(s) /\ sync'[s].pc \in {"finish", "fetch"}
<1>1. /\ sync[s] \in Sync /\ sync[s].pc = "apply"
      /\ UNCHANGED <<tables, usage, evidence>> /\ Becomes(s, NextPeriod(sync[s]))
  BY SyncTypes DEF PeriodDone, SyncAt
<1>2. sync[s].secret \in Connects BY <1>1, SyncTypes DEF AtWork
<1>. QED BY <1>1, <1>2, PeriodsOfALocalState, SyncAlone

LEMMA FinishKeeps ==
  ASSUME Typed, NEW s \in Syncs, Finish(s)
  PROVE  KeepsSyncs(s) /\ sync'[s].pc = "release" /\ \A u \in Users : SameBinding(u)
<1>1. /\ sync[s] \in Sync /\ sync[s].pc = "finish" /\ sync[s].user \in Users
      /\ sync[s].verdict \in {"connected", "degraded", "needs_reauth"}
      /\ UNCHANGED <<grants, secrets, usage, evidence>>
  BY SyncTypes DEF Finish, SyncAt, Sync
<1>2. BillingTablesTypeOK' /\ \A u \in Users : SameBinding(u)
  BY <1>1, StatusTyped DEF Finish
<1>3. KeepsSyncs(s) /\ sync'[s].pc = "release"
  BY <1>1, <1>2, LetsGoKeeps DEF Finish
<1>. QED BY <1>2, <1>3

LEMMA ReleaseLeaseKeeps ==
  ASSUME Typed, NEW s \in Syncs, ReleaseLease(s)
  PROVE  KeepsSyncs(s) /\ sync'[s].pc = "idle"
<1>1. /\ sync[s] \in Sync /\ sync[s].pc = "release" /\ sync[s].user \in Users
      /\ UNCHANGED <<grants, secrets, usage, evidence>> /\ Becomes(s, IdleSync)
  BY SyncTypes DEF ReleaseLease, SyncAt
<1>2. BillingTablesTypeOK' BY <1>1, LeaseTyped DEF ReleaseLease
<1>3. IdleSync \in Sync /\ IdleSync.pc = "idle" BY IdleTyped DEF IdleSync
<1>. QED BY <1>1, <1>2, <1>3, Untouched, SyncBecomes DEF AtWork

(* What goes wrong. *)
LEMMA SyncTroubleKeeps ==
  ASSUME Typed, NEW s \in Syncs, SyncTrouble(s)
  PROVE  KeepsSyncs(s) /\ sync'[s].pc \in {"finish", "fetch", "release", "idle"}
<1>1. sync[s] \in Sync /\ (sync[s].pc # "idle" => sync[s].user \in Users) BY SyncTypes
<1>2. CASE CallFails(s)
  <2>1. /\ sync[s].pc \notin {"idle", "lease"} /\ UNCHANGED <<tables, usage, evidence>>
        /\ GivesUp(s, "degraded") \/ GivesUp(s, "needs_reauth")
    BY <1>2 DEF CallFails, SyncAt
  <2>. QED BY <1>1, <2>1, Untouched, GivesUpKeeps
<1>3. CASE RefreshUnanswered(s)
  <2>1. /\ sync[s].pc = "refresh" /\ UNCHANGED <<secrets, accounts, usage, evidence>>
        /\ GivesUp(s, "degraded")
        /\ grants' = [grants EXCEPT ![sync[s].secret].pair = @ + 1]
    BY <1>3 DEF RefreshUnanswered, SyncAt
  <2>2. sync[s].secret \in Connects BY <2>1, SyncTypes DEF AtWork
  <2>3. BillingTablesTypeOK' BY <2>1, <2>2, RotatedTyped
  <2>. QED BY <2>1, <2>3, GivesUpKeeps
<1>4. CASE SyncAborted(s)
  <2>1. UNCHANGED <<tables, usage, evidence>> BY <1>4 DEF SyncAborted
  <2>2. CASE LetsGo(s) /\ sync[s].pc \notin {"idle", "lease"}
    BY <2>1, <2>2, Untouched, LetsGoKeeps
  <2>3. CASE Becomes(s, IdleSync)
    <3>1. IdleSync \in Sync /\ IdleSync.pc = "idle" BY IdleTyped DEF IdleSync
    <3>. QED BY <2>1, <2>3, <3>1, SyncAlone DEF AtWork
  <2>. QED BY <1>4, <2>2, <2>3 DEF SyncAborted, SyncAt
<1>5. ASSUME NEW failure \in Failures \ {"none"}, Refused(s, failure),
             sync[s].pc \in AtWork, UNCHANGED <<tables, usage, evidence>>
      PROVE  KeepsSyncs(s) /\ sync'[s].pc \in {"finish", "fetch"}
  <2>. DEFINE noted == [sync[s] EXCEPT !.failure = failure]
  <2>1. Becomes(s, Ends(noted)) \/ Becomes(s, NextPeriod(noted)) BY <1>5 DEF Refused
  <2>2. sync[s].secret \in Connects /\ sync[s].pc \notin {"idle", "lease"}
    BY <1>5, SyncTypes DEF AtWork
  <2>3. /\ noted \in Sync /\ noted.user = sync[s].user /\ noted.secret = sync[s].secret
    BY <1>1 DEF Sync
  <2>. HIDE DEF noted
  <2>4. /\ NextPeriod(noted) \in Sync /\ NextPeriod(noted).user = sync[s].user
        /\ NextPeriod(noted).secret \in Connects
        /\ NextPeriod(noted).pc \in {"fetch", "finish"}
        /\ Ends(noted) \in Sync /\ Ends(noted).user = sync[s].user
        /\ Ends(noted).pc = "finish"
    BY <2>2, <2>3, PeriodsOfALocalState
  <2>5. CASE Becomes(s, Ends(noted))
    <3>1. Ends(noted).pc \notin AtWork BY <2>4 DEF AtWork
    <3>. QED BY <1>5, <2>2, <2>4, <2>5, <3>1, SyncAlone
  <2>6. CASE Becomes(s, NextPeriod(noted)) BY <1>5, <2>2, <2>4, <2>6, SyncAlone
  <2>. QED BY <2>1, <2>5, <2>6
<1>6. ASSUME NEW failure \in Failures \ {"none"}, FetchRefused(s, failure)
      PROVE  KeepsSyncs(s) /\ sync'[s].pc \in {"finish", "fetch"}
  BY <1>5, <1>6 DEF FetchRefused, SyncAt, AtWork
<1>7. CASE AnswerGarbled(s)
  BY <1>5, <1>7 DEF AnswerGarbled, SyncAt, AtWork, Failures
<1>8. CASE RefreshRefused(s)
  <2>. DEFINE new == [Concludes(sync[s], "needs_reauth") EXCEPT !.refused = TRUE]
  <2>1. /\ sync[s].pc = "refresh" /\ UNCHANGED <<tables, usage, evidence>> /\ Becomes(s, new)
    BY <1>8 DEF RefreshRefused, SyncAt
  <2>2. /\ Concludes(sync[s], "needs_reauth") \in Sync
        /\ Concludes(sync[s], "needs_reauth").user = sync[s].user
        /\ Concludes(sync[s], "needs_reauth").pc = "finish"
    BY <1>1, LocalStates
  <2>3. new \in Sync /\ new.user = sync[s].user /\ new.pc = "finish" BY <2>2 DEF Sync
  <2>. HIDE DEF new
  <2>. QED BY <1>1, <2>1, <2>3, SyncAlone DEF AtWork
<1>. QED BY <1>2, <1>3, <1>4, <1>6, <1>7, <1>8 DEF SyncTrouble

LEMMA SyncKeeps ==
  ASSUME Typed, NEW s \in Syncs,
         SyncStep(s) \/ SyncTrouble(s) \/ \E u \in Users : ReadAccount(s, u)
  PROVE  KeepsSyncs(s)
BY ReadAccountKeeps, AcquireLeaseKeeps, OpenBundleKeeps, RefreshKeeps, PersistKeeps,
   CheckIdentityKeeps, FetchUsageKeeps, KeepSnapshotKeeps, PlanRowsKeeps, InsertPlannedKeeps,
   AppliesOneKeeps, PeriodDoneKeeps, FinishKeeps, ReleaseLeaseKeeps, SyncTroubleKeeps
   DEF SyncStep

-----------------------------------------------------------------------------
(* Type correctness. *)

LEMMA StepTyped ==
  ASSUME Typed, [Next]_vars
  PROVE  Typed'
<1>1. /\ MaxFailures \in Nat /\ MaxMoves \in Nat
      /\ failures \in 0..MaxFailures /\ moves \in 0..MaxMoves
      /\ overruns \in [Users -> Nat]
  BY BoundsAssumption DEF Typed, TypeOK
<1>2. CASE Connecting
  <2>1. PICK c \in Connects : CallbackStep(c) \/ CallbackTrouble(c)
    BY <1>2 DEF Connecting
  <2>2. KeepsCallbacks(c) BY <2>1, CallbackKeeps
  <2>3. failures' \in 0..MaxFailures BY <1>1, <1>2 DEF Connecting, Failing
  <2>4. UNCHANGED <<disconnect, sync, usage, snapshots, rows, moves, overruns>>
    BY <1>2 DEF Connecting, syncState
  <2>5. SyncTypeOK' BY <2>4 DEF Typed, TypeOK, SyncTypeOK
  <2>6. ConnectTypeOK' BY <2>2, <2>4 DEF Typed, TypeOK, ConnectTypeOK, KeepsCallbacks
  <2>7. Working' BY <2>2, <2>4 DEF Typed, Working, KeepsCallbacks
  <2>. QED BY <1>1, <2>2, <2>3, <2>4, <2>5, <2>6, <2>7 DEF Typed, TypeOK, KeepsCallbacks
<1>3. CASE Disconnecting
  <2>1. PICK x \in Disconnects : DisconnectStep(x) \/ DisconnectTrouble(x)
    BY <1>3 DEF Disconnecting
  <2>2. KeepsDisconnects(x) BY <2>1, DisconnectKeeps
  <2>3. failures' \in 0..MaxFailures BY <1>1, <1>3 DEF Disconnecting, Failing
  <2>4. UNCHANGED <<connect, sync, usage, snapshots, rows, moves, overruns>>
    BY <1>3 DEF Disconnecting, syncState
  <2>5. SyncTypeOK' BY <2>4 DEF Typed, TypeOK, SyncTypeOK
  <2>6. ConnectTypeOK' BY <2>2, <2>4 DEF Typed, TypeOK, ConnectTypeOK, KeepsDisconnects
  <2>7. Working' BY <2>2, <2>4 DEF Typed, Working, KeepsDisconnects
  <2>. QED BY <1>1, <2>2, <2>3, <2>4, <2>5, <2>6, <2>7 DEF Typed, TypeOK, KeepsDisconnects
<1>4. CASE Syncing
  <2>1. UNCHANGED <<connect, disconnect, moves>> BY <1>4 DEF Syncing
  <2>2. failures' \in 0..MaxFailures /\ overruns' \in [Users -> Nat]
    BY <1>1, <1>4 DEF Syncing, Failing, Overruns
  <2>3. ConnectTypeOK' BY <2>1 DEF Typed, TypeOK, ConnectTypeOK
  <2>4. ASSUME NEW s \in Syncs,
               SyncStep(s) \/ SyncTrouble(s) \/ \E u \in Users : ReadAccount(s, u)
        PROVE  Typed'
    <3>1. KeepsSyncs(s) BY <2>4, SyncKeeps
    <3>2. Working' BY <2>1, <3>1 DEF Typed, Working, KeepsSyncs
    <3>. QED BY <1>1, <2>1, <2>2, <2>3, <3>1, <3>2 DEF Typed, TypeOK, KeepsSyncs
  <2>5. ASSUME NEW u \in Users, LeaseExpires(u) PROVE Typed'
    <3>1. /\ UNCHANGED <<grants, secrets, sync, usage, evidence>>
          /\ accounts' = [accounts EXCEPT ![u].lease = FALSE]
      BY <2>5 DEF LeaseExpires
    <3>2. BillingTablesTypeOK' BY <3>1, LeaseTyped
    <3>3. SyncTypeOK' BY <3>1, Untouched, SyncTypes DEF Typed, TypeOK, SyncTypeOK
    <3>4. Working' BY <2>1, <3>1 DEF Typed, Working
    <3>. QED BY <1>1, <2>1, <2>2, <2>3, <3>2, <3>3, <3>4 DEF Typed, TypeOK
  <2>. QED BY <1>4, <2>4, <2>5 DEF Syncing
<1>5. CASE Github
  <2>1. UNCHANGED <<connect, disconnect, failures, overruns>> /\ moves' \in 0..MaxMoves
    BY <1>1, <1>5 DEF Github
  <2>2. ConnectTypeOK' BY <2>1 DEF Typed, TypeOK, ConnectTypeOK
  <2>3. PICK p \in Principals : UsageMoves(p) \/ (RevokedAtGithub(p) /\ UNCHANGED syncState)
    BY <1>5 DEF Github
  <2>4. CASE UsageMoves(p)
    <3>1. UNCHANGED <<tables, sync, evidence>> BY <2>4 DEF UsageMoves
    <3>2. PICK t \in Periods, answer \in Answer : usage' = [usage EXCEPT ![p][t] = answer]
      BY <2>4 DEF UsageMoves
    <3>3. usage' \in [Principals -> [Periods -> Answer]]
      BY <3>2 DEF Typed, TypeOK, SyncTypeOK
    <3>4. SyncTypeOK' BY <3>1, <3>3 DEF evidence, Typed, TypeOK, SyncTypeOK
    <3>5. BillingTablesTypeOK' BY <3>1, Untouched
    <3>6. Working' BY <2>1, <3>1 DEF Typed, Working
    <3>. QED BY <1>1, <2>1, <2>2, <3>4, <3>5, <3>6 DEF Typed, TypeOK
  <2>5. CASE RevokedAtGithub(p) /\ UNCHANGED syncState
    <3>1. BillingTablesTypeOK'
      BY <2>5, RevokedAtGithubTyped DEF Typed, TypeOK, BillingTablesTypeOK
    <3>2. SyncTypeOK' BY <2>5 DEF syncState, Typed, TypeOK, SyncTypeOK
    <3>3. Working' BY <2>1, <2>5 DEF syncState, Typed, Working
    <3>. QED BY <1>1, <2>1, <2>2, <3>1, <3>2, <3>3 DEF Typed, TypeOK
  <2>. QED BY <2>3, <2>4, <2>5
<1>6. CASE UNCHANGED vars
  BY <1>6 DEF vars, Typed, TypeOK, Working, BillingTablesTypeOK, ConnectTypeOK, SyncTypeOK
<1>. QED BY <1>2, <1>3, <1>4, <1>5, <1>6 DEF Next

LEMMA InitTyped == Init => Typed
<1>. SUFFICES ASSUME Init PROVE Typed OBVIOUS
<1>1. BillingTablesTypeOK
  <2>1. AnyPrincipal \in Principals BY BillingAssumption DEF AnyPrincipal
  <2>2. [principal |-> AnyPrincipal, live |-> FALSE, pair |-> 0] \in Grant BY <2>1 DEF Grant
  <2>3. [stored |-> FALSE, pair |-> 0] \in Bundle BY DEF Bundle
  <2>4. [exists |-> FALSE, principal |-> AnyPrincipal, status |-> "revoked",
         secret |-> NoSecret, lease |-> FALSE] \in AccountRow
    BY <2>1 DEF AccountRow
  <2>. QED BY <2>2, <2>3, <2>4 DEF Init, BillingTablesInit, BillingTablesTypeOK
<1>2. ConnectTypeOK BY IdleTyped DEF Init, ConnectInit, ConnectTypeOK
<1>3. SyncTypeOK BY IdleTyped, FirstBillAssumption DEF Init, SyncInit, SyncTypeOK
<1>4. Working
  BY IdleTyped DEF Init, ConnectInit, SyncInit, IdleSync, IdleCallback, IdleDisconnect,
     Working, AtWork
<1>5. /\ failures \in 0..MaxFailures /\ moves \in 0..MaxMoves
      /\ overruns \in [Users -> Nat]
  BY BoundsAssumption DEF Init
<1>. QED BY <1>1, <1>2, <1>3, <1>4, <1>5 DEF Typed, TypeOK

LEMMA AlwaysTyped == Spec => []Typed
<1>1. Typed /\ [Next]_vars => Typed' BY StepTyped
<1>. QED BY InitTyped, <1>1, PTL DEF Spec

(* Every table and every local state keeps its shape. *)
THEOREM BillingTypeOK == Spec => []TypeOK
<1>1. Typed => TypeOK BY DEF Typed
<1>. QED BY <1>1, AlwaysTyped, PTL

-----------------------------------------------------------------------------
(* The lease: how many syncs an account can have at work.                  *)
LeaseInv ==
  /\ \A u \in Users : IsFiniteSet(SyncsOf(u)) /\ (overruns[u] # 0 => failures # 0)
  /\ OneSyncPerAccount

OverrunsLeft == \A u \in Users : overruns'[u] = 0 => overruns[u] = 0

LEMMA OverrunsGrow ==
  ASSUME Typed, [Next]_vars
  PROVE  /\ OverrunsLeft
         /\ failures' = failures \/ Failing
         /\ UNCHANGED overruns \/ \E u \in Users : LeaseExpires(u)
<1>1. failures' = failures \/ Failing
  BY DEF Next, Connecting, Disconnecting, Syncing, Overruns, Github, vars
<1>2. UNCHANGED overruns \/ \E u \in Users : LeaseExpires(u) /\ Overruns(u)
  BY DEF Next, Connecting, Disconnecting, Syncing, Github, vars
<1>3. ASSUME NEW u \in Users, Overruns(u) PROVE OverrunsLeft
  BY <1>3 DEF Overruns, OverrunsLeft, Typed, TypeOK
<1>. QED BY <1>1, <1>2, <1>3 DEF OverrunsLeft

(* Where none ran out, a sync at work has the lease, and is the only one.  *)
LEMMA Exclusive ==
  ASSUME Typed, LeaseInv, NEW u \in Users, overruns[u] = 0,
         NEW s \in Syncs, NEW t \in Syncs, Holds(s, u), Holds(t, u)
  PROVE  s = t
<1>. SUFFICES ASSUME s # t PROVE FALSE OBVIOUS
<1>1. IsFiniteSet(SyncsOf(u)) BY DEF LeaseInv
<1>2. Cardinality(SyncsOf(u)) \in Nat BY <1>1, FS_CardinalityType
<1>3. Cardinality(SyncsOf(u)) <= 1 BY <1>2 DEF LeaseInv, OneSyncPerAccount
<1>4. {s, t} \subseteq SyncsOf(u) BY DEF SyncsOf
<1>5. Cardinality({s, t}) <= Cardinality(SyncsOf(u)) BY <1>1, <1>4, FS_Subset
<1>6. Cardinality({s, t}) = 2
  <2>1. IsFiniteSet({s}) /\ Cardinality({s}) = 1 BY FS_Singleton
  <2>2. Cardinality({s} \cup {t}) = Cardinality({s}) + 1 BY <2>1, FS_AddElement
  <2>3. {s, t} = {s} \cup {t} OBVIOUS
  <2>. QED BY <2>1, <2>2, <2>3
<1>. QED BY <1>2, <1>3, <1>5, <1>6

LEMMA NothingFailed ==
  ASSUME LeaseInv, failures = 0
  PROVE  \A u \in Users : overruns[u] = 0
BY DEF LeaseInv

(* A sync at work goes on for the same user. *)
LEMMA UnderLease ==
  ASSUME Typed, [Next]_vars, NEW s \in Syncs, sync'[s].pc \notin {"idle", "lease"},
         overruns'[sync'[s].user] = 0
  PROVE  /\ sync'[s].user = sync[s].user /\ sync[s].user \in Users
         /\ overruns[sync[s].user] = 0
<1>1. UNCHANGED sync \/ \E t \in Syncs : KeepsSyncs(t)
  <2>1. ASSUME NEW t \in Syncs,
               SyncStep(t) \/ SyncTrouble(t) \/ \E u \in Users : ReadAccount(t, u)
        PROVE  KeepsSyncs(t)
    BY <2>1, SyncKeeps
  <2>. QED
    BY <2>1 DEF Next, Connecting, Disconnecting, Syncing, LeaseExpires, Github, UsageMoves,
       syncState, vars
<1>2. sync'[s].user = sync[s].user /\ sync[s].user \in Users
  BY <1>1, SyncTypes DEF KeepsSyncs
<1>. QED BY <1>2, OverrunsGrow DEF OverrunsLeft

(* What a step that neither takes nor gives back a lease does about it. *)
LeavesLeases ==
  /\ \A u \in Users : accounts'[u].lease = accounts[u].lease
  /\ \A s \in Syncs, u \in Users : Holds(s, u)' => Holds(s, u)

(* A step after which no more syncs work on an account, and none of them   *)
(* without its lease, if they did not before.                              *)
LEMMA FewerAtWork ==
  ASSUME Typed, LeaseInv, UNCHANGED overruns, NEW u \in Users,
         accounts[u].lease => accounts'[u].lease,
         \A s \in Syncs : Holds(s, u)' => Holds(s, u)
  PROVE  /\ IsFiniteSet(SyncsOf(u)')
         /\ Cardinality(SyncsOf(u)') <= overruns'[u] + (IF accounts'[u].lease THEN 1 ELSE 0)
<1>1. IsFiniteSet(SyncsOf(u)) /\ SyncsOf(u)' \subseteq SyncsOf(u) BY DEF LeaseInv, SyncsOf
<1>2. /\ IsFiniteSet(SyncsOf(u)') /\ Cardinality(SyncsOf(u)') <= Cardinality(SyncsOf(u))
      /\ Cardinality(SyncsOf(u)') \in Nat /\ Cardinality(SyncsOf(u)) \in Nat
  BY <1>1, FS_Subset, FS_CardinalityType
<1>3. Cardinality(SyncsOf(u)) <= overruns[u] + (IF accounts[u].lease THEN 1 ELSE 0)
  BY DEF LeaseInv, OneSyncPerAccount
<1>4. overruns[u] \in Nat BY DEF Typed, TypeOK
<1>. HIDE DEF SyncsOf
<1>. QED BY <1>2, <1>3, <1>4

LEMMA LeasesLeft ==
  ASSUME Typed, LeaseInv, LeavesLeases, UNCHANGED overruns, failures' = failures \/ Failing
  PROVE  LeaseInv'
<1>1. failures \in Nat BY BoundsAssumption DEF Typed, TypeOK
<1>2. failures # 0 => failures' # 0 BY <1>1 DEF Failing
<1>3. \A u \in Users :
        /\ IsFiniteSet(SyncsOf(u)')
        /\ Cardinality(SyncsOf(u)') <= overruns'[u] + (IF accounts'[u].lease THEN 1 ELSE 0)
  BY FewerAtWork DEF LeavesLeases
<1>. QED BY <1>2, <1>3 DEF LeaseInv, OneSyncPerAccount

LEMMA SyncLeavesLeases ==
  ASSUME Typed, NEW s \in Syncs, KeepsSyncs(s), ~AcquireLease(s),
         \A u \in Users : accounts'[u].lease = accounts[u].lease
  PROVE  LeavesLeases
<1>1. \A u \in Users : Holds(s, u)' => Holds(s, u) BY DEF KeepsSyncs, Holds
<1>2. \A t \in Syncs \ {s}, u \in Users : Holds(t, u)' <=> Holds(t, u) BY DEF KeepsSyncs, Holds
<1>. QED BY <1>1, <1>2 DEF LeavesLeases

LEMMA CallbacksLeaveLeases ==
  ASSUME Typed, NEW c \in Connects, CallbackStep(c) \/ CallbackTrouble(c)
  PROVE  \A u \in Users : accounts'[u].lease = accounts[u].lease
<1>1. BillingTablesTypeOK BY DEF Typed, TypeOK
<1>2. \/ UNCHANGED accounts
      \/ \E d : DeleteBundle(d)
      \/ Connected(connect[c].user, c) /\ connect[c].pc = "write"
  BY DEF CallbackStep, CallbackTrouble, Exchange, ConfirmIdentity, FindOwner, FindExisting, Store,
     Reconnect, Insert, Supersede, Undo, Release, CallbackFails, WriteUnanswered, CallbackDies,
     CallbackAt, tables
<1>3. ASSUME NEW d, DeleteBundle(d) PROVE \A u \in Users : accounts'[u].lease = accounts[u].lease
  BY <1>1, <1>3, DeleteBundleTyped DEF SameBinding
<1>4. CASE Connected(connect[c].user, c) /\ connect[c].pc = "write"
  <2>1. connect[c].user \in Users BY <1>4 DEF Typed, Working
  <2>. QED BY <1>1, <1>4, <2>1, ConnectedTyped
<1>. QED BY <1>2, <1>3, <1>4

LEMMA DisconnectsKeepRows ==
  ASSUME Typed, NEW x \in Disconnects, DisconnectStep(x) \/ DisconnectTrouble(x)
  PROVE  \A u \in Users : SameBinding(u)
<1>1. BillingTablesTypeOK BY DEF Typed, TypeOK
<1>2. \/ UNCHANGED accounts
      \/ \E d : DeleteBundle(d)
      \/ accounts' = [accounts EXCEPT ![disconnect[x].user].status = "revoked",
                                     ![disconnect[x].user].secret = NoSecret]
  BY DEF DisconnectStep, DisconnectTrouble, ReadAccountToDrop, ReadBundleToDrop, RevokeAtGithub,
     MarkRevoked, DestroyBundle, DropUnread, DropAborted, tables
<1>3. UNCHANGED accounts => \A u \in Users : SameBinding(u) BY DEF SameBinding
<1>4. ASSUME NEW d, DeleteBundle(d) PROVE \A u \in Users : SameBinding(u)
  BY <1>1, <1>4, DeleteBundleTyped
<1>5. CASE accounts' = [accounts EXCEPT ![disconnect[x].user].status = "revoked",
                                        ![disconnect[x].user].secret = NoSecret]
  <2>1. \A u \in Users : accounts[u] \in AccountRow BY <1>1 DEF BillingTablesTypeOK
  <2>. QED BY <1>1, <1>5, <2>1 DEF SameBinding, AccountRow, BillingTablesTypeOK
<1>. QED BY <1>2, <1>3, <1>4, <1>5

(* A sync that is neither taking nor giving back the lease. *)
LEMMA SyncsKeepRows ==
  ASSUME Typed, NEW s \in Syncs, ~AcquireLease(s), ~ReleaseLease(s),
         SyncStep(s) \/ SyncTrouble(s) \/ \E u \in Users : ReadAccount(s, u)
  PROVE  \A u \in Users : SameBinding(u)
<1>1. CASE Finish(s) BY <1>1, FinishKeeps
<1>2. CASE ~Finish(s)
  <2>1. UNCHANGED accounts
    BY <1>2 DEF SyncStep, SyncTrouble, ReadAccount, OpenBundle, Refresh, Persist, CheckIdentity,
       FetchUsage, KeepSnapshot, PlanRows, InsertPlanned, UpdatePlanned, WithdrawPlanned,
       PeriodDone, CallFails, RefreshUnanswered, SyncAborted, FetchRefused, AnswerGarbled,
       RefreshRefused, tables
  <2>. QED BY <2>1 DEF SameBinding
<1>. QED BY <1>1, <1>2

(* One more sync at work has the lease of its account.                     *)
LEMMA OneMoreAtWork ==
  ASSUME Typed, LeaseInv, UNCHANGED overruns, NEW u \in Users, NEW s \in Syncs,
         ~accounts[u].lease, accounts'[u].lease,
         \A t \in Syncs \ {s} : Holds(t, u)' <=> Holds(t, u)
  PROVE  /\ IsFiniteSet(SyncsOf(u)')
         /\ Cardinality(SyncsOf(u)') <= overruns'[u] + (IF accounts'[u].lease THEN 1 ELSE 0)
<1>1. /\ IsFiniteSet(SyncsOf(u)) /\ Cardinality(SyncsOf(u)) <= overruns[u]
      /\ Cardinality(SyncsOf(u)) \in Nat /\ overruns[u] \in Nat
  <2>1. IsFiniteSet(SyncsOf(u)) /\ Cardinality(SyncsOf(u)) \in Nat
    BY FS_CardinalityType DEF LeaseInv
  <2>. QED BY <2>1 DEF LeaseInv, OneSyncPerAccount, Typed, TypeOK
<1>2. SyncsOf(u)' \subseteq SyncsOf(u) \cup {s} BY DEF SyncsOf
<1>3. /\ IsFiniteSet(SyncsOf(u) \cup {s})
      /\ Cardinality(SyncsOf(u) \cup {s}) <= Cardinality(SyncsOf(u)) + 1
      /\ Cardinality(SyncsOf(u) \cup {s}) \in Nat
  <2>1. /\ IsFiniteSet(SyncsOf(u) \cup {s})
        /\ Cardinality(SyncsOf(u) \cup {s})
             = IF s \in SyncsOf(u) THEN Cardinality(SyncsOf(u)) ELSE Cardinality(SyncsOf(u)) + 1
    BY <1>1, FS_AddElement
  <2>. QED BY <1>1, <2>1
<1>4. /\ IsFiniteSet(SyncsOf(u)')
      /\ Cardinality(SyncsOf(u)') <= Cardinality(SyncsOf(u) \cup {s})
      /\ Cardinality(SyncsOf(u)') \in Nat
  BY <1>2, <1>3, FS_Subset, FS_CardinalityType
<1>. HIDE DEF SyncsOf
<1>. QED BY <1>1, <1>3, <1>4

(* One that ends gives the lease back, whoever's it is by then.            *)
LEMMA OneLessAtWork ==
  ASSUME Typed, LeaseInv, UNCHANGED overruns, NEW u \in Users, NEW s \in Syncs,
         Holds(s, u), ~Holds(s, u)', ~accounts'[u].lease,
         \A t \in Syncs \ {s} : Holds(t, u)' <=> Holds(t, u)
  PROVE  /\ IsFiniteSet(SyncsOf(u)')
         /\ Cardinality(SyncsOf(u)') <= overruns'[u] + (IF accounts'[u].lease THEN 1 ELSE 0)
<1>1. /\ IsFiniteSet(SyncsOf(u)) /\ Cardinality(SyncsOf(u)) <= overruns[u] + 1
      /\ Cardinality(SyncsOf(u)) \in Nat /\ overruns[u] \in Nat
  <2>1. IsFiniteSet(SyncsOf(u)) /\ Cardinality(SyncsOf(u)) \in Nat
    BY FS_CardinalityType DEF LeaseInv
  <2>2. Cardinality(SyncsOf(u)) <= overruns[u] + (IF accounts[u].lease THEN 1 ELSE 0)
    BY DEF LeaseInv, OneSyncPerAccount
  <2>3. overruns[u] \in Nat BY DEF Typed, TypeOK
  <2>. QED BY <2>1, <2>2, <2>3
<1>2. SyncsOf(u)' = SyncsOf(u) \ {s} /\ s \in SyncsOf(u) BY DEF SyncsOf
<1>3. /\ IsFiniteSet(SyncsOf(u) \ {s})
      /\ Cardinality(SyncsOf(u) \ {s}) = Cardinality(SyncsOf(u)) - 1
  BY <1>1, <1>2, FS_RemoveElement
<1>4. IsFiniteSet(SyncsOf(u)') /\ Cardinality(SyncsOf(u)') = Cardinality(SyncsOf(u)) - 1
  BY <1>2, <1>3
<1>. HIDE DEF SyncsOf
<1>. QED BY <1>1, <1>4

LEMMA LeaseStays ==
  ASSUME Typed, LeaseInv, [Next]_vars
  PROVE  LeaseInv'
<1>0. failures \in Nat /\ (failures' = failures \/ Failing)
  BY OverrunsGrow, BoundsAssumption DEF Typed, TypeOK
<1>1. ASSUME UNCHANGED <<sync, overruns>>, \A u \in Users : accounts'[u].lease = accounts[u].lease
      PROVE  LeaseInv'
  <2>1. LeavesLeases BY <1>1 DEF LeavesLeases, Holds
  <2>. QED BY <1>0, <1>1, <2>1, LeasesLeft
<1>2. CASE Connecting
  <2>1. PICK c \in Connects : CallbackStep(c) \/ CallbackTrouble(c) BY <1>2 DEF Connecting
  <2>. QED BY <1>1, <1>2, <2>1, CallbacksLeaveLeases DEF Connecting, syncState
<1>3. CASE Disconnecting
  <2>1. PICK x \in Disconnects : DisconnectStep(x) \/ DisconnectTrouble(x)
    BY <1>3 DEF Disconnecting
  <2>. QED BY <1>1, <1>3, <2>1, DisconnectsKeepRows DEF Disconnecting, syncState, SameBinding
<1>4. ASSUME NEW s \in Syncs, UNCHANGED overruns,
             SyncStep(s) \/ SyncTrouble(s) \/ \E u \in Users : ReadAccount(s, u)
      PROVE  LeaseInv'
  <2>1. KeepsSyncs(s) BY <1>4, SyncKeeps
  <2>0. \A t \in Syncs \ {s}, u \in Users : Holds(t, u)' <=> Holds(t, u)
    BY <2>1 DEF KeepsSyncs, Holds
  <2>2. CASE AcquireLease(s)
    <3>1. CASE sync'[s].pc = "idle" /\ UNCHANGED accounts
      <4>1. \A u \in Users : ~Holds(s, u)' BY <3>1 DEF Holds
      <4>2. LeavesLeases BY <2>0, <3>1, <4>1 DEF LeavesLeases
      <4>. QED BY <1>0, <1>4, <4>2, LeasesLeft
    <3>2. CASE /\ ~accounts[sync[s].user].lease
               /\ accounts' = [accounts EXCEPT ![sync[s].user].lease = TRUE]
      <4>1. sync[s].user \in Users /\ UNCHANGED <<grants, secrets>>
        BY <2>2, SyncTypes DEF AcquireLease, SyncAt
      <4>2. /\ accounts'[sync[s].user].lease
            /\ \A v \in Users \ {sync[s].user} : accounts'[v] = accounts[v]
        BY <3>2, <4>1, LeaseTyped
      <4>3. \A u \in Users : Holds(s, u)' => u = sync[s].user BY <2>1 DEF KeepsSyncs, Holds
      <4>4. ASSUME NEW u \in Users
            PROVE  /\ IsFiniteSet(SyncsOf(u)')
                   /\ Cardinality(SyncsOf(u)')
                        <= overruns'[u] + (IF accounts'[u].lease THEN 1 ELSE 0)
        <5>1. CASE u = sync[s].user BY <1>4, <2>0, <3>2, <4>1, <4>2, <5>1, OneMoreAtWork
        <5>2. CASE u # sync[s].user BY <1>4, <2>0, <4>2, <4>3, <5>2, FewerAtWork
        <5>. QED BY <5>1, <5>2
      <4>. QED BY <1>0, <1>4, <4>4 DEF LeaseInv, OneSyncPerAccount, Failing
    <3>. QED BY <2>2, <3>1, <3>2, AcquireLeaseKeeps
  <2>3. CASE ReleaseLease(s)
    <3>1. /\ sync[s].pc = "release" /\ sync[s].user \in Users /\ UNCHANGED <<grants, secrets>>
          /\ accounts' = [accounts EXCEPT ![sync[s].user].lease = FALSE]
      BY <2>3, SyncTypes DEF ReleaseLease, SyncAt
    <3>2. /\ ~accounts'[sync[s].user].lease
          /\ \A v \in Users \ {sync[s].user} : accounts'[v] = accounts[v]
      BY <3>1, LeaseTyped
    <3>3. \A u \in Users : ~Holds(s, u)' BY <2>3, ReleaseLeaseKeeps DEF Holds
    <3>4. Holds(s, sync[s].user) BY <3>1 DEF Holds
    <3>5. ASSUME NEW u \in Users
          PROVE  /\ IsFiniteSet(SyncsOf(u)')
                 /\ Cardinality(SyncsOf(u)')
                      <= overruns'[u] + (IF accounts'[u].lease THEN 1 ELSE 0)
      <4>1. CASE u = sync[s].user BY <1>4, <2>0, <3>2, <3>3, <3>4, <4>1, OneLessAtWork
      <4>2. CASE u # sync[s].user BY <1>4, <2>0, <3>2, <3>3, <4>2, FewerAtWork
      <4>. QED BY <4>1, <4>2
    <3>. QED BY <1>0, <1>4, <3>5 DEF LeaseInv, OneSyncPerAccount, Failing
  <2>4. CASE ~AcquireLease(s) /\ ~ReleaseLease(s)
    <3>1. \A u \in Users : accounts'[u].lease = accounts[u].lease
      BY <1>4, <2>4, SyncsKeepRows DEF SameBinding
    <3>. QED BY <1>0, <1>4, <2>1, <2>4, <3>1, SyncLeavesLeases, LeasesLeft
  <2>. QED BY <2>2, <2>3, <2>4
<1>5. ASSUME NEW u \in Users, LeaseExpires(u), Overruns(u) PROVE LeaseInv'
  <2>1. /\ UNCHANGED <<grants, secrets, sync>> /\ accounts[u].lease
        /\ accounts' = [accounts EXCEPT ![u].lease = FALSE]
    BY <1>5 DEF LeaseExpires
  <2>2. ~accounts'[u].lease /\ \A v \in Users \ {u} : accounts'[v] = accounts[v]
    BY <2>1, LeaseTyped
  <2>3. \A v \in Users : SyncsOf(v)' = SyncsOf(v) BY <2>1 DEF SyncsOf, Holds
  <2>4. \A v \in Users :
          /\ IsFiniteSet(SyncsOf(v)) /\ Cardinality(SyncsOf(v)) \in Nat
          /\ Cardinality(SyncsOf(v)) <= overruns[v] + (IF accounts[v].lease THEN 1 ELSE 0)
          /\ overruns[v] \in Nat
    BY FS_CardinalityType DEF LeaseInv, OneSyncPerAccount, Typed, TypeOK
  <2>5. CASE \E s \in Syncs : Holds(s, u)
    <3>1. /\ overruns' = [overruns EXCEPT ![u] = @ + 1] /\ failures' = failures + 1
      BY <1>5, <2>5 DEF Overruns, Failing
    <3>2. /\ overruns'[u] = overruns[u] + 1
          /\ \A v \in Users \ {u} : overruns'[v] = overruns[v]
      BY <3>1 DEF Typed, TypeOK
    <3>3. ASSUME NEW v \in Users
          PROVE  /\ IsFiniteSet(SyncsOf(v)')
                 /\ Cardinality(SyncsOf(v)')
                      <= overruns'[v] + (IF accounts'[v].lease THEN 1 ELSE 0)
      <4>. HIDE DEF SyncsOf
      <4>1. CASE v = u BY <2>1, <2>2, <2>3, <2>4, <3>2, <4>1
      <4>2. CASE v # u BY <2>2, <2>3, <2>4, <3>2, <4>2
      <4>. QED BY <4>1, <4>2
    <3>. QED BY <1>0, <3>1, <3>3 DEF LeaseInv, OneSyncPerAccount
  <2>6. CASE ~ \E s \in Syncs : Holds(s, u)
    <3>1. UNCHANGED <<failures, overruns>> BY <1>5, <2>6 DEF Overruns
    <3>2. Cardinality(SyncsOf(u)) = 0
      <4>1. SyncsOf(u) = {} BY <2>6 DEF SyncsOf
      <4>. QED BY <4>1, FS_EmptySet
    <3>3. ASSUME NEW v \in Users
          PROVE  /\ IsFiniteSet(SyncsOf(v)')
                 /\ Cardinality(SyncsOf(v)')
                      <= overruns'[v] + (IF accounts'[v].lease THEN 1 ELSE 0)
      <4>. HIDE DEF SyncsOf
      <4>1. CASE v = u BY <2>2, <2>3, <2>4, <3>1, <3>2, <4>1
      <4>2. CASE v # u BY <2>2, <2>3, <2>4, <3>1, <4>2
      <4>. QED BY <4>1, <4>2
    <3>. QED BY <3>1, <3>3 DEF LeaseInv, OneSyncPerAccount
  <2>. QED BY <2>5, <2>6
<1>6. CASE Syncing BY <1>4, <1>5, <1>6 DEF Syncing
<1>7. CASE Github
  <2>1. UNCHANGED <<sync, accounts, overruns>>
    BY <1>7 DEF Github, UsageMoves, RevokedAtGithub, syncState, tables
  <2>. QED BY <1>1, <2>1
<1>8. CASE UNCHANGED vars BY <1>1, <1>8 DEF vars
<1>. QED BY <1>2, <1>3, <1>6, <1>7, <1>8 DEF Next

LEMMA AlwaysLeased == Spec => []LeaseInv
<1>1. Init => LeaseInv
  <2>. SUFFICES ASSUME Init PROVE LeaseInv OBVIOUS
  <2>1. \A u \in Users : SyncsOf(u) = {} /\ overruns[u] = 0
    BY DEF Init, SyncInit, IdleSync, Holds, SyncsOf
  <2>2. \A u \in Users : IsFiniteSet(SyncsOf(u)) /\ Cardinality(SyncsOf(u)) = 0
    BY <2>1, FS_EmptySet
  <2>. QED BY <2>1, <2>2 DEF LeaseInv, OneSyncPerAccount
<1>2. Typed /\ LeaseInv /\ [Next]_vars => LeaseInv' BY LeaseStays
<1>. QED BY <1>1, <1>2, AlwaysTyped, PTL DEF Spec

(* However many syncs run, whoever started them and wherever they die, the *)
(* syncs at work on an account are at most one, and one more each time its *)
(* lease ran out under one of them (sync.ts 191-199).                      *)
THEOREM LeaseIsExclusive == Spec => []OneSyncPerAccount
<1>1. LeaseInv => OneSyncPerAccount BY DEF LeaseInv
<1>. QED BY <1>1, AlwaysLeased, PTL

-----------------------------------------------------------------------------
(* The binding: two rows are never one GitHub account's, and a callback    *)
(* that found its user's row found it bound to the account it connects.    *)
BindInv ==
  /\ \A u, v \in Users :
       accounts[u].exists /\ accounts[v].exists /\ accounts[u].principal = accounts[v].principal
         => u = v
  /\ \A c \in Connects :
       connect[c].pc \in {"store", "write"} /\ connect[c].known =>
         /\ accounts[connect[c].user].exists
         /\ accounts[connect[c].user].principal = grants[c].principal

StaysBound ==
  \A u \in Users :
    /\ accounts[u].exists =>
         accounts'[u].exists /\ accounts'[u].principal = accounts[u].principal
    /\ accounts'[u].exists => ~BoundToAnother(u, accounts'[u].principal)

SameRows ==
  \A u \in Users : /\ accounts'[u].exists = accounts[u].exists
                   /\ accounts'[u].principal = accounts[u].principal
SamePrincipals == \A g \in Connects : grants'[g].principal = grants[g].principal

LEMMA RowsLeft == ASSUME BindInv, SameRows PROVE StaysBound
BY DEF BindInv, SameRows, StaysBound, BoundToAnother

LEMMA BindingsLeft ==
  ASSUME Typed, BindInv, SameRows, SamePrincipals,
         NEW c \in Connects, \A d \in Connects \ {c} : connect'[d] = connect[d],
         \/ connect'[c].pc \notin {"store", "write"}
         \/ /\ connect[c].pc \in {"store", "write"}
            /\ connect'[c].known = connect[c].known /\ connect'[c].user = connect[c].user
  PROVE  BindInv'
BY DEF Typed, Working, BindInv, SameRows, SamePrincipals

LEMMA BindingsUntouched ==
  ASSUME Typed, BindInv, SameRows, SamePrincipals, UNCHANGED connect
  PROVE  BindInv'
BY DEF Typed, Working, BindInv, SameRows, SamePrincipals

LEMMA WritesBind ==
  ASSUME Typed, BindInv, NEW c \in Connects, Connected(connect[c].user, c),
         connect[c].pc = "write", UNCHANGED grants,
         \/ connect[c].known
         \/ ~(accounts[connect[c].user].exists \/ BoundToAnother(connect[c].user, grants[c].principal)),
         NEW pc \in {"done", "supersede", "undo"}, CallbackTo(c, pc)
  PROVE  BindInv' /\ StaysBound
<1>. DEFINE u == connect[c].user
<1>1. u \in Users /\ BillingTablesTypeOK /\ ConnectTypeOK
  BY DEF Typed, TypeOK, Working
<1>2. /\ \A v \in Users \ {u} : accounts'[v] = accounts[v]
      /\ accounts'[u].exists /\ accounts'[u].principal = grants[c].principal
  BY <1>1, ConnectedTyped
<1>3. /\ \A d \in Connects \ {c} : connect'[d] = connect[d]
      /\ connect'[c].pc \notin {"store", "write"}
  BY <1>1, CallbackToTyped
<1>4. accounts[u].exists => accounts[u].principal = grants[c].principal
  BY DEF BindInv
<1>5. ~BoundToAnother(u, grants[c].principal)
  BY <1>1 DEF BindInv, BoundToAnother
<1>6. StaysBound
  <2>1. ASSUME NEW v \in Users, v # u
        PROVE  accounts'[v].exists => ~BoundToAnother(v, accounts'[v].principal)
    BY <1>2, <2>1 DEF BindInv, BoundToAnother
  <2>. QED BY <1>2, <1>4, <1>5, <2>1 DEF StaysBound
<1>7. \A v, w \in Users :
        accounts'[v].exists /\ accounts'[w].exists /\ accounts'[v].principal = accounts'[w].principal
          => v = w
  BY <1>1, <1>2, <1>5 DEF BindInv, BoundToAnother
<1>8. ASSUME NEW d \in Connects, connect'[d].pc \in {"store", "write"}, connect'[d].known
      PROVE  /\ accounts'[connect'[d].user].exists
             /\ accounts'[connect'[d].user].principal = grants'[d].principal
  <2>1. d # c /\ connect'[d] = connect[d] BY <1>3, <1>8
  <2>2. connect[d].user \in Users BY <1>8, <2>1 DEF Typed, Working
  <2>3. /\ accounts[connect[d].user].exists
        /\ accounts[connect[d].user].principal = grants[d].principal
    BY <1>8, <2>1 DEF BindInv
  <2>. QED BY <1>2, <1>4, <2>1, <2>2, <2>3
<1>. QED BY <1>6, <1>7, <1>8 DEF BindInv

LEMMA CallbacksBind ==
  ASSUME Typed, BindInv, NEW c \in Connects, CallbackStep(c) \/ CallbackTrouble(c)
  PROVE  BindInv' /\ StaysBound
<1>1. KeepsCallbacks(c) /\ BillingTablesTypeOK /\ ConnectTypeOK
  BY CallbackKeeps DEF Typed, TypeOK
<1>2. \A d \in Connects \ {c} : connect'[d] = connect[d] BY <1>1 DEF KeepsCallbacks
<1>3. UNCHANGED accounts => SameRows BY DEF SameRows
<1>4. UNCHANGED grants => SamePrincipals BY DEF SamePrincipals
<1>5. CASE Exchange(c)
  <2>1. connect'[c].pc = "identify" /\ connect[c].pc = "idle"
    BY <1>5, ExchangeTyped DEF Exchange, CallbackAt
  <2>2. \A d \in Connects \ {c} : grants'[d] = grants[d]
    BY <1>1, <1>5 DEF Exchange, BillingTablesTypeOK
  <2>3. UNCHANGED accounts BY <1>5 DEF Exchange
  <2>. QED BY <1>2, <1>3, <2>1, <2>2, <2>3, RowsLeft DEF BindInv
<1>6. CASE FindExisting(c)
  <2>1. /\ connect'[c].user = connect[c].user
        /\ connect'[c].pc = "store" /\ connect'[c].known =>
              /\ accounts[connect[c].user].exists
              /\ accounts[connect[c].user].principal = grants[c].principal
        /\ connect'[c].pc \in {"release", "store"}
    BY <1>6, FindExistingTyped
  <2>2. UNCHANGED <<grants, accounts>> BY <1>6 DEF FindExisting, tables
  <2>. QED BY <1>2, <1>3, <2>1, <2>2, RowsLeft DEF BindInv
<1>7. CASE \/ ConfirmIdentity(c) \/ FindOwner(c) \/ Supersede(c) \/ Undo(c) \/ Release(c)
           \/ CallbackFails(c) \/ CallbackDies(c)
  <2>1. PICK pc \in {"owner", "existing", "undo", "release", "done"} : CallbackTo(c, pc)
    BY <1>7 DEF ConfirmIdentity, FindOwner, Supersede, Undo, Release, CallbackFails, CallbackDies
  <2>2. connect'[c].pc \notin {"store", "write"} BY <1>1, <2>1, CallbackToTyped
  <2>3. \/ UNCHANGED tables
        \/ UNCHANGED grants /\ \E d : DeleteBundle(d)
        \/ UNCHANGED accounts /\ RevokeGrant(c, 0)
    BY <1>7 DEF ConfirmIdentity, FindOwner, Supersede, Undo, Release, CallbackFails, CallbackDies
  <2>4. SameRows BY <1>1, <1>3, <2>3, DeleteBundleTyped DEF tables, SameRows, SameBinding
  <2>5. SamePrincipals BY <1>1, <1>4, <2>3, RevokeGrantTyped DEF tables, SamePrincipals
  <2>. QED BY <1>2, <2>2, <2>4, <2>5, RowsLeft, BindingsLeft
<1>8. CASE Store(c)
  <2>1. CallbackTo(c, "write") /\ connect[c].pc = "store" /\ UNCHANGED <<grants, accounts>>
    BY <1>8 DEF Store, CallbackAt
  <2>2. /\ connect'[c].pc = "write" /\ connect'[c].known = connect[c].known
        /\ connect'[c].user = connect[c].user
    BY <1>1, <2>1, CallbackToTyped
  <2>. QED BY <1>2, <1>3, <1>4, <2>1, <2>2, RowsLeft, BindingsLeft
<1>9. CASE Reconnect(c) \/ Insert(c) \/ WriteUnanswered(c)
  <2>1. /\ connect[c].pc = "write" /\ UNCHANGED grants
        /\ CallbackTo(c, "done") \/ CallbackTo(c, "supersede") \/ CallbackTo(c, "undo")
        /\ \/ UNCHANGED accounts
           \/ /\ Connected(connect[c].user, c)
              /\ \/ connect[c].known
                 \/ ~(\/ accounts[connect[c].user].exists
                     \/ BoundToAnother(connect[c].user, grants[c].principal))
    BY <1>9 DEF Reconnect, Insert, WriteUnanswered, CallbackAt
  <2>2. PICK pc \in {"done", "supersede", "undo"} : CallbackTo(c, pc) BY <2>1
  <2>3. CASE UNCHANGED accounts
    <3>1. connect'[c].pc \notin {"store", "write"} BY <1>1, <2>2, CallbackToTyped
    <3>. QED BY <1>2, <1>3, <1>4, <2>1, <2>3, <3>1, RowsLeft, BindingsLeft
  <2>4. CASE Connected(connect[c].user, c) /\ ~UNCHANGED accounts
    BY <2>1, <2>2, <2>4, WritesBind
  <2>. QED BY <2>1, <2>3, <2>4
<1>. QED BY <1>5, <1>6, <1>7, <1>8, <1>9 DEF CallbackStep, CallbackTrouble

LEMMA BindingStays ==
  ASSUME Typed, BindInv, [Next]_vars
  PROVE  BindInv' /\ StaysBound
<1>1. ASSUME SameRows, SamePrincipals, UNCHANGED connect PROVE BindInv' /\ StaysBound
  BY <1>1, RowsLeft, BindingsUntouched
<1>2. BillingTablesTypeOK BY DEF Typed, TypeOK
<1>3. CASE Connecting
  <2>1. PICK c \in Connects : CallbackStep(c) \/ CallbackTrouble(c) BY <1>3 DEF Connecting
  <2>. QED BY <2>1, CallbacksBind
<1>4. CASE Disconnecting
  <2>1. PICK x \in Disconnects : DisconnectStep(x) \/ DisconnectTrouble(x)
    BY <1>4 DEF Disconnecting
  <2>2. SameRows BY <2>1, DisconnectsKeepRows DEF SameRows, SameBinding
  <2>3. UNCHANGED grants \/ RevokeGrant(disconnect[x].old, disconnect[x].pair)
    BY <2>1 DEF DisconnectStep, DisconnectTrouble, ReadAccountToDrop, ReadBundleToDrop,
       RevokeAtGithub, MarkRevoked, DestroyBundle, DropUnread, DropAborted, tables
  <2>4. SamePrincipals BY <1>2, <2>3, RevokeGrantTyped DEF SamePrincipals
  <2>. QED BY <1>1, <1>4, <2>2, <2>4 DEF Disconnecting
<1>5. CASE Syncing
  <2>1. UNCHANGED connect BY <1>5 DEF Syncing
  <2>2. ASSUME NEW s \in Syncs,
               SyncStep(s) \/ SyncTrouble(s) \/ \E u \in Users : ReadAccount(s, u)
        PROVE  SameRows /\ SamePrincipals
    <3>1. SameRows
      <4>1. CASE AcquireLease(s)
        <5>1. sync[s].user \in Users BY <4>1, SyncTypes DEF AcquireLease, SyncAt
        <5>2. UNCHANGED <<grants, secrets>> BY <4>1 DEF AcquireLease
        <5>. QED BY <4>1, <5>1, <5>2, AcquireLeaseKeeps, LeaseTyped DEF SameRows
      <4>2. CASE ReleaseLease(s)
        <5>1. /\ sync[s].user \in Users /\ UNCHANGED <<grants, secrets>>
              /\ accounts' = [accounts EXCEPT ![sync[s].user].lease = FALSE]
          BY <4>2, SyncTypes DEF ReleaseLease, SyncAt
        <5>. QED BY <5>1, LeaseTyped DEF SameRows
      <4>3. CASE ~AcquireLease(s) /\ ~ReleaseLease(s)
        BY <2>2, <4>3, SyncsKeepRows DEF SameRows, SameBinding
      <4>. QED BY <4>1, <4>2, <4>3
    <3>2. SamePrincipals
      <4>1. \/ UNCHANGED grants
            \/ /\ sync[s].pc = "refresh" /\ UNCHANGED <<secrets, accounts>>
               /\ grants' = [grants EXCEPT ![sync[s].secret].pair = @ + 1]
        BY <2>2 DEF SyncStep, SyncTrouble, ReadAccount, AcquireLease, OpenBundle, Refresh, Persist,
           CheckIdentity, FetchUsage, KeepSnapshot, PlanRows, InsertPlanned, UpdatePlanned,
           WithdrawPlanned, PeriodDone, Finish, ReleaseLease, CallFails, RefreshUnanswered,
           SyncAborted, FetchRefused, AnswerGarbled, RefreshRefused,
       tables, SyncAt
      <4>2. sync[s].pc = "refresh" => sync[s].secret \in Connects BY SyncTypes DEF AtWork
      <4>. QED BY <4>1, <4>2, RotatedTyped DEF SamePrincipals
    <3>. QED BY <3>1, <3>2
  <2>3. ASSUME NEW u \in Users, LeaseExpires(u) PROVE SameRows /\ SamePrincipals
    BY <2>3, LeaseTyped DEF LeaseExpires, SameRows, SamePrincipals
  <2>. QED BY <1>1, <1>5, <2>1, <2>2, <2>3 DEF Syncing
<1>6. CASE Github
  <2>1. UNCHANGED connect BY <1>6 DEF Github
  <2>2. PICK p \in Principals : UsageMoves(p) \/ RevokedAtGithub(p) BY <1>6 DEF Github
  <2>3. UNCHANGED accounts /\ SamePrincipals
    BY <1>2, <2>2, RevokedAtGithubTyped DEF UsageMoves, tables, SamePrincipals
  <2>. QED BY <1>1, <2>1, <2>3 DEF SameRows
<1>7. CASE UNCHANGED vars BY <1>1, <1>7 DEF vars, SameRows, SamePrincipals
<1>. QED BY <1>3, <1>4, <1>5, <1>6, <1>7 DEF Next

(* A user's row never moves to another GitHub account, and no GitHub       *)
(* account is two users', for any callbacks, disconnects and syncs at once *)
(* (connect.ts 113-122, 138-179).                                          *)
THEOREM AccountsBoundForLife == Spec => BoundForLife
<1>1. Init => BindInv
  BY DEF Init, BillingTablesInit, ConnectInit, IdleCallback, BindInv
<1>2. Typed /\ BindInv /\ [Next]_vars => BindInv' BY BindingStays
<1>3. Typed /\ BindInv /\ [Next]_vars => [StaysBound]_vars BY BindingStays
<1>4. BoundForLife <=> [][StaysBound]_vars BY DEF BoundForLife, StaysBound
<1>. QED BY <1>1, <1>2, <1>3, <1>4, AlwaysTyped, PTL DEF Spec

-----------------------------------------------------------------------------
(* The evidence: a sync that writes rows has kept the answer it writes,    *)
(* and writes what that answer says.                                       *)
KeptAnswer(s) ==
  /\ sync[s].pc \in {"plan", "insert", "apply"} =>
       <<sync[s].user, Period(s), sync[s].answer>> \in snapshots
  /\ sync[s].pc \in {"insert", "apply"} =>
       /\ sync[s].plan.inserts \subseteq Listed(sync[s].answer)
       /\ sync[s].plan.updates \subseteq Listed(sync[s].answer)
       /\ sync[s].plan.withdrawals \cap Listed(sync[s].answer) = {}

EvidenceInv == EvidenceTraceable /\ \A s \in Syncs : KeptAnswer(s)

Stands(u, t, row, i) ==
  row.exists =>
    /\ <<u, t, row.snapshot>> \in snapshots
    /\ row.snapshot[i] = IF row.withdrawn THEN "unlisted" ELSE row.value

LEMMA TraceableMeansStands ==
  EvidenceTraceable <=>
    \A u \in Users, t \in Periods, i \in Items : Stands(u, t, rows[u][t][i], i)
BY DEF EvidenceTraceable, Stands

(* The rows of one period of one user are replaced by rows that stand.     *)
LEMMA WritesStand ==
  ASSUME Typed, EvidenceInv, UNCHANGED snapshots, NEW s \in Syncs, sync[s].user \in Users,
         NEW updated \in [Items -> UsageRow], Writes(s, updated),
         \A i \in Items : Stands(sync[s].user, Period(s), updated[i], i)
  PROVE  EvidenceTraceable'
<1>1. /\ rows'[sync[s].user][Period(s)] = updated
      /\ \A u \in Users, t \in Periods :
           <<u, t>> # <<sync[s].user, Period(s)>> => rows'[u][t] = rows[u][t]
  BY WritesTyped
<1>2. ASSUME NEW u \in Users, NEW t \in Periods, NEW i \in Items
      PROVE  Stands(u, t, rows'[u][t][i], i)
  <2>1. CASE <<u, t>> = <<sync[s].user, Period(s)>> BY <1>1, <2>1
  <2>2. CASE <<u, t>> # <<sync[s].user, Period(s)>>
    BY <1>1, <2>2, TraceableMeansStands DEF EvidenceInv
  <2>. QED BY <2>1, <2>2
<1>. QED BY <1>2 DEF EvidenceTraceable, Stands

LEMMA InsertedStand ==
  ASSUME Typed, EvidenceInv, NEW s \in Syncs, sync[s].pc = "insert", sync[s].user \in Users,
         NEW i \in Items
  PROVE  Stands(sync[s].user, Period(s), InsertRows(Stored(s), sync[s].plan, sync[s].answer)[i], i)
<1>1. /\ <<sync[s].user, Period(s), sync[s].answer>> \in snapshots
      /\ sync[s].plan.inserts \subseteq Listed(sync[s].answer)
  BY DEF EvidenceInv, KeptAnswer
<1>2. Period(s) \in Periods BY SyncTypes, PeriodTyped
<1>3. Stands(sync[s].user, Period(s), Stored(s)[i], i)
  BY <1>2, TraceableMeansStands DEF EvidenceInv, Stored
<1>. QED BY <1>1, <1>3 DEF InsertRows, Stands, Listed

LEMMA AppliedStand ==
  ASSUME Typed, EvidenceInv, NEW s \in Syncs, sync[s].pc = "apply", sync[s].user \in Users,
         NEW i \in Items, NEW j \in Items
  PROVE  /\ i \in sync[s].plan.updates =>
              Stands(sync[s].user, Period(s), UpdateRow(Stored(s), i, sync[s].answer)[j], j)
         /\ i \in sync[s].plan.withdrawals =>
              Stands(sync[s].user, Period(s), WithdrawRow(Stored(s), i, sync[s].answer)[j], j)
<1>1. /\ <<sync[s].user, Period(s), sync[s].answer>> \in snapshots
      /\ sync[s].plan.updates \subseteq Listed(sync[s].answer)
      /\ sync[s].plan.withdrawals \cap Listed(sync[s].answer) = {}
  BY DEF EvidenceInv, KeptAnswer
<1>2. /\ sync[s] \in Sync /\ Period(s) \in Periods /\ Stored(s) \in [Items -> UsageRow]
  BY SyncTypes, PeriodTyped DEF Stored, SyncTypeOK
<1>3. \A k \in Items : Stands(sync[s].user, Period(s), Stored(s)[k], k)
  BY <1>2, TraceableMeansStands DEF EvidenceInv, Stored
<1>. DEFINE answer == sync[s].answer
<1>4. UpdateRow(Stored(s), i, answer)[j] =
        IF j = i THEN [Stored(s)[i] EXCEPT !.value = answer[i], !.withdrawn = FALSE,
                                          !.snapshot = answer]
        ELSE Stored(s)[j]
  BY <1>2 DEF UpdateRow, UsageRow
<1>5. WithdrawRow(Stored(s), i, answer)[j] =
        IF j = i THEN [Stored(s)[i] EXCEPT !.withdrawn = TRUE, !.snapshot = answer]
        ELSE Stored(s)[j]
  BY <1>2 DEF WithdrawRow, UsageRow
<1>6. Stored(s)[i] \in UsageRow BY <1>2
<1>7. ASSUME i \in sync[s].plan.updates
      PROVE  Stands(sync[s].user, Period(s), UpdateRow(Stored(s), i, answer)[j], j)
  BY <1>1, <1>3, <1>4, <1>6, <1>7 DEF Stands, UsageRow, Listed
<1>8. ASSUME i \in sync[s].plan.withdrawals
      PROVE  Stands(sync[s].user, Period(s), WithdrawRow(Stored(s), i, answer)[j], j)
  <2>1. answer[i] = "unlisted" BY <1>1, <1>8 DEF Listed
  <2>. QED BY <1>1, <1>3, <1>5, <1>6, <2>1 DEF Stands, UsageRow
<1>. QED BY <1>7, <1>8

LEMMA PlansFit ==
  ASSUME NEW old, NEW answer
  PROVE  /\ PlanUpsert(old, answer).inserts \subseteq Listed(answer)
         /\ PlanUpsert(old, answer).updates \subseteq Listed(answer)
         /\ PlanUpsert(old, answer).withdrawals \cap Listed(answer) = {}
<1>. DEFINE listed == Listed(answer)
<1>1. PlanUpsert(old, answer).inserts = {i \in listed : ~old[i].exists} BY DEF PlanUpsert
<1>2. PlanUpsert(old, answer).updates =
        {i \in listed : old[i].exists /\ (old[i].withdrawn \/ old[i].value # answer[i])}
  BY DEF PlanUpsert
<1>3. PlanUpsert(old, answer).withdrawals =
        {i \in Items \ listed : old[i].exists /\ ~old[i].withdrawn}
  BY DEF PlanUpsert
<1>. HIDE DEF listed
<1>4. /\ PlanUpsert(old, answer).inserts \subseteq listed
      /\ PlanUpsert(old, answer).updates \subseteq listed
      /\ PlanUpsert(old, answer).withdrawals \cap listed = {}
  BY <1>1, <1>2, <1>3
<1>. QED BY <1>4 DEF listed

LEMMA SyncsKeepEvidence ==
  ASSUME Typed, EvidenceInv, NEW s \in Syncs,
         SyncStep(s) \/ SyncTrouble(s) \/ \E u \in Users : ReadAccount(s, u)
  PROVE  EvidenceInv'
<1>1. KeepsSyncs(s) BY SyncKeeps
<1>2. ASSUME EvidenceTraceable', KeptAnswer(s)', snapshots \subseteq snapshots'
      PROVE  EvidenceInv'
  <2>1. ASSUME NEW t \in Syncs \ {s} PROVE KeptAnswer(t)'
    <3>1. sync'[t] = sync[t] BY <1>1 DEF KeepsSyncs
    <3>2. Period(t)' = Period(t) BY <3>1 DEF Period
    <3>. QED BY <1>2, <3>1, <3>2 DEF EvidenceInv, KeptAnswer
  <2>. QED BY <1>2, <2>1 DEF EvidenceInv
<1>3. ASSUME UNCHANGED <<snapshots, rows>>, sync'[s].pc \notin {"plan", "insert", "apply"}
      PROVE  EvidenceInv'
  BY <1>2, <1>3 DEF EvidenceInv, EvidenceTraceable, KeptAnswer
<1>4. CASE KeepSnapshot(s)
  <2>1. /\ snapshots' = snapshots \cup {<<sync[s].user, Period(s), sync[s].answer>>}
        /\ UNCHANGED rows
    BY <1>4 DEF KeepSnapshot
  <2>2. /\ sync'[s].pc = "plan" /\ sync'[s].user = sync[s].user
        /\ sync'[s].period = sync[s].period /\ sync'[s].answer = sync[s].answer
    BY <1>4, KeepSnapshotKeeps
  <2>3. Period(s)' = Period(s) BY <2>2 DEF Period
  <2>4. KeptAnswer(s)' BY <2>1, <2>2, <2>3 DEF KeptAnswer
  <2>5. EvidenceTraceable' BY <2>1 DEF EvidenceInv, EvidenceTraceable
  <2>. QED BY <1>2, <2>1, <2>4, <2>5
<1>5. CASE PlanRows(s)
  <2>1. UNCHANGED <<snapshots, rows>> BY <1>5 DEF PlanRows, evidence
  <2>2. /\ sync[s].pc = "plan"
        /\ sync'[s].pc = "insert" /\ sync'[s].user = sync[s].user
        /\ sync'[s].period = sync[s].period /\ sync'[s].answer = sync[s].answer
        /\ sync'[s].plan = PlanUpsert(rows[sync[s].user][Period(s)], sync[s].answer)
    BY <1>5, PlanRowsKeeps DEF PlanRows, SyncAt
  <2>3. Period(s)' = Period(s) BY <2>2 DEF Period
  <2>4. /\ sync'[s].plan.inserts \subseteq Listed(sync[s].answer)
        /\ sync'[s].plan.updates \subseteq Listed(sync[s].answer)
        /\ sync'[s].plan.withdrawals \cap Listed(sync[s].answer) = {}
    BY <2>2, PlansFit
  <2>5. KeptAnswer(s)' BY <2>1, <2>2, <2>3, <2>4 DEF EvidenceInv, KeptAnswer
  <2>6. EvidenceTraceable' BY <2>1 DEF EvidenceInv, EvidenceTraceable
  <2>. QED BY <1>2, <2>1, <2>5, <2>6
<1>6. CASE InsertPlanned(s)
  <2>1. /\ sync[s].pc = "insert" /\ sync[s].user \in Users /\ sync[s] \in Sync
        /\ UNCHANGED snapshots
    BY <1>6, SyncTypes DEF InsertPlanned, SyncAt
  <2>2. CASE sync'[s].pc = "release" /\ UNCHANGED rows BY <1>3, <2>1, <2>2
  <2>3. CASE /\ sync'[s].pc = "apply" /\ sync'[s].user = sync[s].user
             /\ sync'[s].period = sync[s].period /\ sync'[s].answer = sync[s].answer
             /\ sync'[s].plan = sync[s].plan
             /\ Writes(s, InsertRows(Stored(s), sync[s].plan, sync[s].answer))
    <3>1. Period(s)' = Period(s) BY <2>3 DEF Period
    <3>2. KeptAnswer(s)' BY <2>1, <2>3, <3>1 DEF EvidenceInv, KeptAnswer
    <3>3. /\ Stored(s) \in [Items -> UsageRow]
          /\ sync[s].plan \in Plan /\ sync[s].answer \in Answer
      BY <2>1, PeriodTyped, SyncTypes DEF Stored, SyncTypeOK, Sync
    <3>4. InsertRows(Stored(s), sync[s].plan, sync[s].answer) \in [Items -> UsageRow]
      BY <3>3, RowsTyped DEF InsertRows
    <3>5. EvidenceTraceable' BY <2>1, <2>3, <3>4, InsertedStand, WritesStand
    <3>. QED BY <1>2, <2>1, <3>2, <3>5
  <2>. QED BY <1>6, <2>2, <2>3, InsertPlannedKeeps
<1>7. CASE UpdatePlanned(s) \/ WithdrawPlanned(s)
  <2>1. /\ sync[s].pc = "apply" /\ sync[s].user \in Users /\ sync[s] \in Sync
        /\ UNCHANGED snapshots
    BY <1>7, SyncTypes DEF UpdatePlanned, WithdrawPlanned, SyncAt
  <2>2. /\ sync'[s].pc = "apply" /\ sync'[s].user = sync[s].user
        /\ sync'[s].period = sync[s].period /\ sync'[s].answer = sync[s].answer
        /\ sync'[s].plan.inserts = sync[s].plan.inserts
        /\ sync'[s].plan.updates \subseteq sync[s].plan.updates
        /\ sync'[s].plan.withdrawals \subseteq sync[s].plan.withdrawals
    BY <1>7, AppliesOneKeeps
  <2>3. PICK i \in Items : AppliesOne(s, i) BY <1>7, AppliesOneKeeps
  <2>4. Period(s)' = Period(s) BY <2>2 DEF Period
  <2>5. KeptAnswer(s)' BY <2>1, <2>2, <2>4 DEF EvidenceInv, KeptAnswer
  <2>6. /\ Stored(s) \in [Items -> UsageRow]
        /\ sync[s].plan \in Plan /\ sync[s].answer \in Answer
    BY <2>1, PeriodTyped, SyncTypes DEF Stored, SyncTypeOK, Sync
  <2>7. /\ UpdateRow(Stored(s), i, sync[s].answer) \in [Items -> UsageRow]
        /\ WithdrawRow(Stored(s), i, sync[s].answer) \in [Items -> UsageRow]
    BY <2>6, RowsTyped
  <2>8. EvidenceTraceable'
    <3>1. CASE /\ i \in sync[s].plan.updates
               /\ Writes(s, UpdateRow(Stored(s), i, sync[s].answer))
      <4>1. \A j \in Items :
              Stands(sync[s].user, Period(s), UpdateRow(Stored(s), i, sync[s].answer)[j], j)
        BY <2>1, <3>1, AppliedStand
      <4>. QED BY <2>1, <2>7, <3>1, <4>1, WritesStand
    <3>2. CASE /\ i \in sync[s].plan.withdrawals
               /\ Writes(s, WithdrawRow(Stored(s), i, sync[s].answer))
      <4>1. \A j \in Items :
              Stands(sync[s].user, Period(s), WithdrawRow(Stored(s), i, sync[s].answer)[j], j)
        BY <2>1, <3>2, AppliedStand
      <4>. QED BY <2>1, <2>7, <3>2, <4>1, WritesStand
    <3>. QED BY <2>3, <3>1, <3>2 DEF AppliesOne
  <2>. QED BY <1>2, <2>1, <2>5, <2>8
<1>8. CASE ~(\/ KeepSnapshot(s) \/ PlanRows(s) \/ InsertPlanned(s)
             \/ UpdatePlanned(s) \/ WithdrawPlanned(s))
  <2>1. UNCHANGED <<snapshots, rows>>
    BY <1>8 DEF SyncStep, SyncTrouble, ReadAccount, AcquireLease, OpenBundle, Refresh, Persist,
       CheckIdentity, FetchUsage, PeriodDone, Finish, ReleaseLease, CallFails,
       RefreshUnanswered, SyncAborted, FetchRefused, AnswerGarbled,
       RefreshRefused, evidence
  <2>2. sync'[s].pc \notin {"plan", "insert", "apply"}
    BY ZenonT(60), <1>8, ReadAccountKeeps, AcquireLeaseKeeps, OpenBundleKeeps, RefreshKeeps, PersistKeeps,
       CheckIdentityKeeps, FetchUsageKeeps, PeriodDoneKeeps, FinishKeeps, ReleaseLeaseKeeps,
       SyncTroubleKeeps DEF SyncStep
  <2>. QED BY <1>3, <2>1, <2>2
<1>. QED BY <1>4, <1>5, <1>6, <1>7, <1>8

LEMMA EvidenceStays ==
  ASSUME Typed, EvidenceInv, [Next]_vars
  PROVE  EvidenceInv'
<1>1. ASSUME UNCHANGED <<sync, snapshots, rows>> PROVE EvidenceInv'
  BY <1>1 DEF EvidenceInv, EvidenceTraceable, KeptAnswer, Period
<1>2. CASE Connecting BY <1>1, <1>2 DEF Connecting, syncState
<1>3. CASE Disconnecting BY <1>1, <1>3 DEF Disconnecting, syncState
<1>4. CASE Syncing BY <1>1, <1>4, SyncsKeepEvidence DEF Syncing, LeaseExpires, evidence
<1>5. CASE Github BY <1>1, <1>5 DEF Github, UsageMoves, evidence, syncState
<1>6. CASE UNCHANGED vars BY <1>1, <1>6 DEF vars
<1>. QED BY <1>2, <1>3, <1>4, <1>5, <1>6 DEF Next

(* Whatever dies between two writes, and however many syncs write at once, *)
(* a stored row is what a kept answer of GitHub lists, or withdrawn by one *)
(* that does not (sync.ts 311-345, normalize.ts 155-180).                  *)
THEOREM EvidenceIsTraceable == Spec => []EvidenceTraceable
<1>1. Init => EvidenceInv
  <2>. SUFFICES ASSUME Init PROVE EvidenceInv OBVIOUS
  <2>1. EvidenceTraceable BY DEF Init, SyncInit, NoRow, EvidenceTraceable
  <2>2. \A s \in Syncs : KeptAnswer(s) BY DEF Init, SyncInit, IdleSync, KeptAnswer
  <2>. QED BY <2>1, <2>2 DEF EvidenceInv
<1>2. Typed /\ EvidenceInv /\ [Next]_vars => EvidenceInv' BY EvidenceStays
<1>3. EvidenceInv => EvidenceTraceable BY DEF EvidenceInv
<1>. QED BY <1>1, <1>2, <1>3, AlwaysTyped, PTL DEF Spec
-----------------------------------------------------------------------------
(* The pair GitHub rotated to.  A secret is named by the row of one user   *)
(* and the syncs of that user's account; where they take the lease in      *)
(* turn, a pair that one of them refreshed is the current one until it is  *)
(* stored.                                                                 *)
NamedBy(u, c) ==
  accounts[u].secret = c \/ \E s \in Syncs : sync[s].user = u /\ sync[s].secret = c

Opening == {"idle", "identify", "owner", "existing", "store", "write"}
Persisting(s, c) == SyncAt(s, "persist") /\ sync[s].secret = c

OneOwner == \A c \in Connects, u, v \in Users : NamedBy(u, c) /\ NamedBy(v, c) => u = v

NewChainsUnused ==
  \A c \in Connects : connect[c].pc \in Opening =>
    /\ grants[c].pair = 0 /\ (secrets[c].stored => secrets[c].pair = 0)
    /\ \A u \in Users : ~NamedBy(u, c)

PairInHand ==
  \A s \in Syncs, c \in Connects :
    Persisting(s, c) /\ overruns[sync[s].user] = 0 => sync[s].pair = grants[c].pair

PairsCurrent ==
  failures = 0 =>
    \A c \in Connects : grants[c].live /\ secrets[c].stored =>
      Accepted(c, secrets[c].pair) \/ \E s \in Syncs : Persisting(s, c)

PairInv == OneOwner /\ NewChainsUnused /\ PairInHand /\ PairsCurrent

(* What a step does that takes part in none of this. *)
NamesLeft == \A c \in Connects, u \in Users : NamedBy(u, c)' => NamedBy(u, c)
CallbacksLeft == \A c \in Connects : connect'[c].pc \in Opening => connect[c].pc \in Opening
ChainsLeft ==
  \A c \in Connects : /\ grants'[c].pair = grants[c].pair
                      /\ grants'[c].live => grants[c].live
BundlesLeft ==
  \A c \in Connects : /\ secrets'[c].pair = secrets[c].pair
                      /\ secrets'[c].stored => secrets[c].stored
PersistsLeft ==
  /\ \A s \in Syncs, c \in Connects :
       Persisting(s, c)' /\ overruns'[sync'[s].user] = 0 =>
         /\ Persisting(s, c) /\ overruns[sync[s].user] = 0
         /\ sync'[s].pair = sync[s].pair
  /\ failures' = 0 => /\ failures = 0
                      /\ \A s \in Syncs, c \in Connects : Persisting(s, c) => Persisting(s, c)'

LEMMA PairsLeft ==
  ASSUME PairInv, NamesLeft, CallbacksLeft, ChainsLeft, BundlesLeft, PersistsLeft
  PROVE  PairInv'
<1>1. OneOwner' BY DEF PairInv, OneOwner, NamesLeft
<1>2. NewChainsUnused'
  BY DEF PairInv, NewChainsUnused, NamesLeft, CallbacksLeft, ChainsLeft, BundlesLeft
<1>3. PairInHand' BY DEF PairInv, PairInHand, PersistsLeft, ChainsLeft
<1>4. PairsCurrent'
  <2>. SUFFICES ASSUME failures' = 0, NEW c \in Connects, grants'[c].live, secrets'[c].stored
                PROVE  Accepted(c, secrets[c].pair)' \/ \E s \in Syncs : Persisting(s, c)'
    BY DEF PairsCurrent
  <2>1. grants[c].live /\ secrets[c].stored BY DEF ChainsLeft, BundlesLeft
  <2>2. Accepted(c, secrets[c].pair) \/ \E s \in Syncs : Persisting(s, c)
    BY <2>1 DEF PairInv, PairsCurrent, PersistsLeft
  <2>3. CASE Accepted(c, secrets[c].pair) BY <2>3 DEF Accepted, ChainsLeft, BundlesLeft
  <2>4. CASE \E s \in Syncs : Persisting(s, c) BY <2>4 DEF PersistsLeft
  <2>. QED BY <2>2, <2>3, <2>4
<1>. QED BY <1>1, <1>2, <1>3, <1>4 DEF PairInv

LEMMA RowsNameLess ==
  ASSUME UNCHANGED sync,
         \A u \in Users : accounts'[u].secret \in {accounts[u].secret, NoSecret}
  PROVE  NamesLeft
BY BillingAssumption DEF NamesLeft, NamedBy

LEMMA SyncsIdlePersistsLeft ==
  ASSUME Typed, UNCHANGED sync, OverrunsLeft, failures' = failures \/ Failing
  PROVE  PersistsLeft
<1>1. failures \in Nat BY BoundsAssumption DEF Typed, TypeOK
<1>2. failures' = 0 => failures = 0 BY <1>1 DEF Failing
<1>3. ASSUME NEW s \in Syncs, NEW c \in Connects, Persisting(s, c)
      PROVE  sync[s].user \in Users
  BY <1>3, SyncTypes DEF Persisting, SyncAt
<1>. QED BY <1>2, <1>3 DEF PersistsLeft, Persisting, SyncAt, OverrunsLeft

LEMMA GrantsFall ==
  ASSUME Typed
  PROVE  /\ UNCHANGED grants => ChainsLeft
         /\ \A c, pair : RevokeGrant(c, pair) => ChainsLeft
         /\ \A p : RevokedAtGithub(p) => ChainsLeft
<1>1. \A g \in Connects :
        /\ [grants[g] EXCEPT !.live = FALSE].pair = grants[g].pair
        /\ ~[grants[g] EXCEPT !.live = FALSE].live
  BY DEF Typed, TypeOK, BillingTablesTypeOK, Grant
<1>2. UNCHANGED grants => ChainsLeft BY DEF ChainsLeft
<1>3. ASSUME NEW c, NEW pair, RevokeGrant(c, pair) PROVE ChainsLeft
  BY <1>1, <1>3 DEF RevokeGrant, ChainsLeft
<1>4. ASSUME NEW p, RevokedAtGithub(p) PROVE ChainsLeft
  BY <1>1, <1>4 DEF RevokedAtGithub, ChainsLeft
<1>. QED BY <1>2, <1>3, <1>4

LEMMA DeletedBundles ==
  ASSUME Typed, NEW c, DeleteBundle(c)
  PROVE  /\ BundlesLeft
         /\ \A u \in Users : accounts'[u].secret \in {accounts[u].secret, NoSecret}
<1>1. BillingTablesTypeOK BY DEF Typed, TypeOK
<1>2. BundlesLeft BY <1>1 DEF DeleteBundle, BundlesLeft, BillingTablesTypeOK, Bundle
<1>3. ASSUME NEW u \in Users PROVE accounts'[u].secret \in {accounts[u].secret, NoSecret}
  <2>1. accounts[u] \in AccountRow BY <1>1 DEF BillingTablesTypeOK
  <2>. QED BY <2>1 DEF DeleteBundle, AccountRow
<1>. QED BY <1>2, <1>3

LEMMA ExchangePairs ==
  ASSUME Typed, PairInv, PersistsLeft, NEW c \in Connects, Exchange(c), UNCHANGED sync
  PROVE  PairInv'
<1>1. /\ connect[c].pc = "idle" /\ UNCHANGED <<secrets, accounts>>
      /\ \A d \in Connects \ {c} : connect'[d] = connect[d]
  BY ExchangeTyped DEF Exchange, CallbackAt, KeepsCallbacks
<1>2. /\ grants'[c].live /\ grants'[c].pair = 0
      /\ \A d \in Connects \ {c} : grants'[d] = grants[d]
  BY DEF Exchange, Typed, TypeOK, BillingTablesTypeOK
<1>3. /\ grants[c].pair = 0 /\ (secrets[c].stored => secrets[c].pair = 0)
      /\ \A u \in Users : ~NamedBy(u, c)
  BY <1>1 DEF PairInv, NewChainsUnused, Opening
<1>4. \A d \in Connects, u \in Users : NamedBy(u, d)' <=> NamedBy(u, d) BY <1>1 DEF NamedBy
<1>5. OneOwner' BY <1>4 DEF PairInv, OneOwner
<1>6. NewChainsUnused' BY <1>1, <1>2, <1>3, <1>4 DEF PairInv, NewChainsUnused
<1>7. PairInHand'
  <2>1. \A d \in Connects : grants'[d].pair = grants[d].pair BY <1>2, <1>3
  <2>. QED BY <2>1 DEF PairInv, PairInHand, PersistsLeft
<1>8. PairsCurrent'
  BY <1>1, <1>2, <1>3 DEF PairInv, PairsCurrent, PersistsLeft, Persisting, SyncAt, Accepted
<1>. QED BY <1>5, <1>6, <1>7, <1>8 DEF PairInv

LEMMA StorePairs ==
  ASSUME Typed, PairInv, PersistsLeft, NEW c \in Connects, Store(c), UNCHANGED sync
  PROVE  PairInv'
<1>1. /\ connect[c].pc = "store" /\ UNCHANGED <<grants, accounts>> /\ CallbackTo(c, "write")
      /\ secrets' = [secrets EXCEPT ![c] = [stored |-> TRUE, pair |-> 0]]
  BY DEF Store, CallbackAt, StoreBundle
<1>2. /\ secrets'[c].stored /\ secrets'[c].pair = 0
      /\ \A d \in Connects \ {c} : secrets'[d] = secrets[d]
  BY <1>1 DEF Typed, TypeOK, BillingTablesTypeOK
<1>3. \A d \in Connects \ {c} : connect'[d] = connect[d]
  BY <1>1, CallbackToTyped DEF Typed, TypeOK
<1>4. grants[c].pair = 0 /\ \A u \in Users : ~NamedBy(u, c)
  BY <1>1 DEF PairInv, NewChainsUnused, Opening
<1>5. \A d \in Connects, u \in Users : NamedBy(u, d)' <=> NamedBy(u, d) BY <1>1 DEF NamedBy
<1>6. OneOwner' BY <1>5 DEF PairInv, OneOwner
<1>7. NewChainsUnused' BY <1>1, <1>2, <1>3, <1>4, <1>5 DEF PairInv, NewChainsUnused
<1>8. PairInHand' BY <1>1 DEF PairInv, PairInHand, PersistsLeft
<1>9. PairsCurrent'
  BY <1>1, <1>2, <1>4 DEF PairInv, PairsCurrent, PersistsLeft, Persisting, SyncAt, Accepted
<1>. QED BY <1>6, <1>7, <1>8, <1>9 DEF PairInv

(* The row of a callback's user names its secret, which no one named.      *)
LEMMA ConnectedPairs ==
  ASSUME Typed, PairInv, PersistsLeft, NEW c \in Connects, connect[c].pc = "write",
         Connected(connect[c].user, c), UNCHANGED <<grants, secrets, sync>>,
         connect'[c].pc \notin Opening,
         \A d \in Connects \ {c} : connect'[d] = connect[d]
  PROVE  PairInv'
<1>1. connect[c].user \in Users BY DEF Typed, Working
<1>. DEFINE u == connect[c].user
<1>2. /\ accounts'[u].secret = c
      /\ \A v \in Users \ {u} : accounts'[v] = accounts[v]
  <2>1. accounts \in [Users -> AccountRow] /\ u \in Users
    BY <1>1 DEF Typed, TypeOK, BillingTablesTypeOK
  <2>2. accounts' = [accounts EXCEPT ![u] = [accounts[u] EXCEPT !.exists = TRUE,
                       !.principal = grants[c].principal, !.status = "connected", !.secret = c]]
    BY DEF Connected
  <2>. HIDE DEF u
  <2>. QED  BY <2>1, <2>2 DEF AccountRow
<1>3. \A v \in Users : ~NamedBy(v, c) BY DEF PairInv, NewChainsUnused, Opening
<1>4. \A v \in Users, d \in Connects : NamedBy(v, d)' => NamedBy(v, d) \/ (v = u /\ d = c)
  BY <1>1, <1>2 DEF NamedBy
<1>. HIDE DEF u
<1>5. OneOwner' BY <1>3, <1>4 DEF PairInv, OneOwner
<1>6. NewChainsUnused' BY <1>4 DEF PairInv, NewChainsUnused
<1>7. PairInHand' BY DEF PairInv, PairInHand, PersistsLeft
<1>8. PairsCurrent'
  BY DEF PairInv, PairsCurrent, PersistsLeft, Persisting, SyncAt, Accepted
<1>. QED BY <1>5, <1>6, <1>7, <1>8 DEF PairInv

LEMMA CallbacksKeepPairs ==
  ASSUME Typed, PairInv, Connecting
  PROVE  PairInv'
<1>1. PICK c \in Connects : CallbackStep(c) \/ CallbackTrouble(c) BY DEF Connecting
<1>2. UNCHANGED sync /\ PersistsLeft
  BY OverrunsGrow, SyncsIdlePersistsLeft DEF Connecting, syncState, Next
<1>3. \A d \in Connects \ {c} : connect'[d] = connect[d] BY <1>1, CallbackKeeps DEF KeepsCallbacks
<1>4. ConnectTypeOK BY DEF Typed, TypeOK
<1>5. ASSUME NEW pc \in {"owner", "existing", "store", "supersede", "undo", "release", "done"},
             CallbackTo(c, pc)
      PROVE  connect'[c].pc = pc
  BY <1>4, <1>5, CallbackToTyped
<1>6. CASE Exchange(c) BY <1>2, <1>6, ExchangePairs
<1>7. CASE Store(c) BY <1>2, <1>7, StorePairs
<1>8. CASE Connected(connect[c].user, c) /\ (Reconnect(c) \/ Insert(c) \/ WriteUnanswered(c))
  <2>1. connect[c].pc = "write" /\ UNCHANGED <<grants, secrets>>
    BY <1>8 DEF Reconnect, Insert, WriteUnanswered, CallbackAt
  <2>2. \E pc \in {"supersede", "undo", "done"} : CallbackTo(c, pc)
    BY <1>8 DEF Reconnect, Insert, WriteUnanswered
  <2>3. connect'[c].pc \notin Opening BY <1>5, <2>2 DEF Opening
  <2>. QED BY <1>2, <1>3, <1>8, <2>1, <2>3, ConnectedPairs
<1>9. CASE ~(\/ Exchange(c) \/ Store(c)
             \/ Connected(connect[c].user, c) /\ (Reconnect(c) \/ Insert(c) \/ WriteUnanswered(c)))
  <2>1. \/ UNCHANGED <<secrets, accounts>>
        \/ UNCHANGED grants /\ \E d : DeleteBundle(d)
    BY <1>1, <1>9 DEF CallbackStep, CallbackTrouble, ConfirmIdentity, FindOwner, FindExisting,
       Reconnect, Insert, Supersede, Undo, Release, CallbackFails, WriteUnanswered,
       CallbackDies, tables
  <2>2. UNCHANGED grants \/ RevokeGrant(c, 0)
    BY <1>1, <1>9 DEF CallbackStep, CallbackTrouble, ConfirmIdentity, FindOwner, FindExisting,
       Reconnect, Insert, Supersede, Undo, Release, CallbackFails, WriteUnanswered,
       CallbackDies, tables
  <2>3. ChainsLeft BY <2>2, GrantsFall
  <2>4. BundlesLeft /\ NamesLeft
    <3>1. CASE UNCHANGED <<secrets, accounts>> BY <1>2, <3>1, RowsNameLess DEF BundlesLeft
    <3>2. CASE \E d : DeleteBundle(d) BY <1>2, <3>2, DeletedBundles, RowsNameLess
    <3>. QED BY <2>1, <3>1, <3>2
  <2>5. connect'[c].pc \in Opening => connect[c].pc \in Opening
    <3>1. CASE FindExisting(c) BY <3>1 DEF FindExisting, CallbackAt, Opening
    <3>2. CASE ConfirmIdentity(c) \/ FindOwner(c)
      BY <3>2 DEF ConfirmIdentity, FindOwner, CallbackAt, Opening
    <3>3. CASE ~(FindExisting(c) \/ ConfirmIdentity(c) \/ FindOwner(c))
      <4>1. \E pc \in {"supersede", "undo", "release", "done"} : CallbackTo(c, pc)
        BY <1>1, <1>9, <3>3 DEF CallbackStep, CallbackTrouble, Reconnect, Insert, Supersede, Undo,
           Release, CallbackFails, WriteUnanswered, CallbackDies
      <4>. QED BY <1>5, <4>1 DEF Opening
    <3>. QED BY <3>1, <3>2, <3>3
  <2>6. CallbacksLeft BY <1>3, <2>5 DEF CallbacksLeft
  <2>. QED BY <1>2, <2>3, <2>4, <2>6, PairsLeft
<1>. QED BY <1>6, <1>7, <1>8, <1>9

LEMMA DisconnectsKeepPairs ==
  ASSUME Typed, PairInv, Disconnecting
  PROVE  PairInv'
<1>1. PICK x \in Disconnects : DisconnectStep(x) \/ DisconnectTrouble(x) BY DEF Disconnecting
<1>2. UNCHANGED <<connect, sync>> /\ PersistsLeft
  BY OverrunsGrow, SyncsIdlePersistsLeft DEF Disconnecting, syncState, Next
<1>3. CallbacksLeft BY <1>2 DEF CallbacksLeft
<1>4. UNCHANGED grants \/ \E d, pair : RevokeGrant(d, pair)
  BY <1>1 DEF DisconnectStep, DisconnectTrouble, ReadAccountToDrop, ReadBundleToDrop,
     RevokeAtGithub, MarkRevoked, DestroyBundle, DropUnread, DropAborted, tables
<1>5. ChainsLeft BY <1>4, GrantsFall
<1>6. \/ UNCHANGED <<secrets, accounts>>
      \/ \E d : DeleteBundle(d)
      \/ /\ UNCHANGED secrets
         /\ accounts' = [accounts EXCEPT ![disconnect[x].user].status = "revoked",
                                         ![disconnect[x].user].secret = NoSecret]
  BY <1>1 DEF DisconnectStep, DisconnectTrouble, ReadAccountToDrop, ReadBundleToDrop,
     RevokeAtGithub, MarkRevoked, DestroyBundle, DropUnread, DropAborted, tables
<1>7. BundlesLeft /\ NamesLeft
  <2>1. CASE UNCHANGED <<secrets, accounts>> BY <1>2, <2>1, RowsNameLess DEF BundlesLeft
  <2>2. CASE \E d : DeleteBundle(d) BY <1>2, <2>2, DeletedBundles, RowsNameLess
  <2>3. CASE /\ UNCHANGED secrets
             /\ accounts' = [accounts EXCEPT ![disconnect[x].user].status = "revoked",
                                             ![disconnect[x].user].secret = NoSecret]
    <3>1. \A u \in Users : accounts'[u].secret \in {accounts[u].secret, NoSecret}
      BY <2>3 DEF Typed, TypeOK, BillingTablesTypeOK, AccountRow
    <3>. QED BY <1>2, <2>3, <3>1, RowsNameLess DEF BundlesLeft
  <2>. QED BY <1>6, <2>1, <2>2, <2>3
<1>. QED BY <1>2, <1>3, <1>5, <1>7, PairsLeft

(* A sync works with the secret its copy of the row named, or with none.   *)
CarriesSecret(s) ==
  \/ sync'[s].secret = NoSecret
  \/ sync'[s].secret = sync[s].secret /\ sync'[s].user = sync[s].user

LEMMA SyncCarries ==
  ASSUME Typed, NEW s \in Syncs, SyncStep(s) \/ SyncTrouble(s)
  PROVE  CarriesSecret(s)
<1>1. sync[s] \in Sync /\ sync \in [Syncs -> Sync] BY SyncTypes DEF SyncTypeOK
<1>2. ASSUME NEW new, Becomes(s, new),
             new.secret = NoSecret \/ (new.secret = sync[s].secret /\ new.user = sync[s].user)
      PROVE  CarriesSecret(s)
  BY <1>1, <1>2 DEF Becomes, CarriesSecret
<1>3. ASSUME NEW pc, GoesTo(s, pc) PROVE CarriesSecret(s)
  <2>. DEFINE new == [sync[s] EXCEPT !.pc = pc]
  <2>1. new.secret = sync[s].secret /\ new.user = sync[s].user BY <1>1 DEF Sync
  <2>. QED BY <1>2, <1>3, <2>1 DEF GoesTo
<1>4. Becomes(s, IdleSync) => CarriesSecret(s) BY <1>2 DEF IdleSync
<1>5. LetsGo(s) => CarriesSecret(s) BY <1>2 DEF LetsGo, IdleSync
<1>6. \A verdict : GivesUp(s, verdict) => CarriesSecret(s)
  BY <1>2 DEF GivesUp, Concludes, IdleSync
<1>7. ASSUME NEW local \in Sync, local.user = sync[s].user, local.secret = sync[s].secret,
             Becomes(s, NextPeriod(local)) \/ Becomes(s, Ends(local))
      PROVE  CarriesSecret(s)
  <2>1. Ends(local).secret = local.secret BY LocalStates DEF Ends
  <2>. QED BY <1>2, <1>7, <2>1, PeriodsOfALocalState
<1>8. CASE AcquireLease(s) BY <1>3, <1>4, <1>8 DEF AcquireLease
<1>9. CASE OpenBundle(s)
  <2>1. ASSUME NEW pair, NEW pc, Becomes(s, [sync[s] EXCEPT !.pair = pair, !.pc = pc])
        PROVE  CarriesSecret(s)
    BY <1>1, <1>2, <2>1 DEF Sync
  <2>. QED BY <1>6, <1>9, <2>1 DEF OpenBundle
<1>10. CASE Refresh(s)
  <2>. DEFINE new == [sync[s] EXCEPT !.pair = sync[s].pair + 1, !.pc = "persist"]
  <2>1. new.secret = sync[s].secret /\ new.user = sync[s].user BY <1>1 DEF Sync
  <2>2. Becomes(s, new) => CarriesSecret(s) BY <1>2, <2>1
  <2>3. Becomes(s, new) \/ GivesUp(s, "needs_reauth") BY <1>1, <1>10 DEF Refresh, Sync
  <2>. QED BY <1>6, <2>2, <2>3
<1>11. CASE Persist(s)
  <2>. DEFINE new == [sync[s] EXCEPT !.refreshed = TRUE, !.pc = "identify"]
  <2>1. new.secret = sync[s].secret /\ new.user = sync[s].user BY <1>1 DEF Sync
  <2>. QED BY <1>2, <1>11, <2>1 DEF Persist
<1>12. CASE CheckIdentity(s)
  <2>1. ASSUME NEW now, NEW rest,
               Becomes(s, [sync[s] EXCEPT !.period = now, !.later = rest, !.pc = "fetch"])
        PROVE  CarriesSecret(s)
    BY <1>1, <1>2, <2>1 DEF Sync
  <2>. QED BY <1>3, <1>6, <1>12, <2>1 DEF CheckIdentity
<1>13. CASE FetchUsage(s)
  <2>1. ASSUME NEW answer, Becomes(s, [sync[s] EXCEPT !.pc = "keep", !.answer = answer])
        PROVE  CarriesSecret(s)
    BY <1>1, <1>2, <2>1 DEF Sync
  <2>. QED BY <1>1, <1>6, <1>7, <1>13, <2>1 DEF FetchUsage
<1>14. CASE PlanRows(s)
  <2>. DEFINE new(plan, billed) ==
         [sync[s] EXCEPT !.pc = "insert", !.plan = plan, !.billed = billed]
  <2>1. PICK plan, billed : Becomes(s, new(plan, billed)) BY <1>1, <1>14 DEF PlanRows, Sync
  <2>2. new(plan, billed).secret = sync[s].secret /\ new(plan, billed).user = sync[s].user
    BY <1>1 DEF Sync
  <2>. QED BY <1>2, <2>1, <2>2
<1>15. CASE KeepSnapshot(s) \/ InsertPlanned(s)
  BY <1>3, <1>5, <1>15 DEF KeepSnapshot, InsertPlanned
<1>16. CASE UpdatePlanned(s) \/ WithdrawPlanned(s)
  BY <1>1, <1>16 DEF UpdatePlanned, WithdrawPlanned, CarriesSecret, Sync
<1>17. CASE PeriodDone(s) BY <1>1, <1>7, <1>17 DEF PeriodDone
<1>18. CASE Finish(s) \/ ReleaseLease(s) BY <1>4, <1>5, <1>18 DEF Finish, ReleaseLease
<1>19. CASE CallFails(s) \/ RefreshUnanswered(s) \/ SyncAborted(s)
  BY <1>4, <1>5, <1>6, <1>19 DEF CallFails, RefreshUnanswered, SyncAborted
<1>20. ASSUME NEW failure \in Failures, Refused(s, failure) PROVE CarriesSecret(s)
  <2>. DEFINE noted == [sync[s] EXCEPT !.failure = failure]
  <2>1. /\ noted \in Sync /\ noted.user = sync[s].user /\ noted.secret = sync[s].secret
    BY <1>1, <1>20 DEF Sync
  <2>2. Becomes(s, Ends(noted)) \/ Becomes(s, NextPeriod(noted)) BY <1>20 DEF Refused
  <2>. HIDE DEF noted
  <2>. QED BY <1>7, <2>1, <2>2
<1>21. ASSUME AnswerGarbled(s) \/ \E failure \in Failures \ {"none"} : FetchRefused(s, failure)
       PROVE  CarriesSecret(s)
  BY <1>20, <1>21 DEF AnswerGarbled, FetchRefused, Failures
<1>22. CASE RefreshRefused(s)
  <2>. DEFINE over == Concludes(sync[s], "needs_reauth")
              new == [over EXCEPT !.refused = TRUE]
  <2>1. over \in Sync /\ over.user = sync[s].user /\ over.secret = sync[s].secret
    BY <1>1, LocalStates
  <2>. HIDE DEF over
  <2>2. new.user = sync[s].user /\ new.secret = sync[s].secret BY <2>1 DEF Sync
  <2>3. Becomes(s, new) BY <1>22 DEF RefreshRefused, over
  <2>. HIDE DEF new
  <2>. QED BY <1>2, <2>2, <2>3
<1>. QED
  BY <1>8, <1>9, <1>10, <1>11, <1>12, <1>13, <1>14, <1>15, <1>16, <1>17, <1>18, <1>19, <1>21,
     <1>22 DEF SyncStep, SyncTrouble

LEMMA SyncsNameLess ==
  ASSUME Typed, NEW s \in Syncs, KeepsSyncs(s), CarriesSecret(s),
         \A u \in Users : accounts'[u].secret = accounts[u].secret
  PROVE  NamesLeft
<1>. SUFFICES ASSUME NEW c \in Connects, NEW u \in Users, NamedBy(u, c)'
              PROVE  NamedBy(u, c)
  BY DEF NamesLeft
<1>1. CASE accounts'[u].secret = c BY <1>1 DEF NamedBy
<1>2. ASSUME NEW t \in Syncs, sync'[t].user = u, sync'[t].secret = c PROVE NamedBy(u, c)
  <2>1. CASE t = s BY <1>2, <2>1, BillingAssumption DEF CarriesSecret, NamedBy
  <2>2. CASE t # s BY <1>2, <2>2 DEF KeepsSyncs, NamedBy
  <2>. QED BY <2>1, <2>2
<1>. QED BY <1>1, <1>2 DEF NamedBy

(* While a sync refreshes, no other has a pair of its chain in hand, where *)
(* no lease ran out under one.                                             *)
LEMMA OneRefreshes ==
  ASSUME Typed, LeaseInv, PairInv, NEW s \in Syncs, sync[s].pc \in {"refresh", "persist"}
  PROVE  /\ sync[s].secret \in Connects /\ sync[s].user \in Users
         /\ connect[sync[s].secret].pc \notin Opening
         /\ \A t \in Syncs \ {s} :
              Persisting(t, sync[s].secret) => overruns[sync[t].user] # 0
<1>1. sync[s].secret \in Connects /\ sync[s].user \in Users BY SyncTypes DEF AtWork
<1>2. NamedBy(sync[s].user, sync[s].secret) BY <1>1 DEF NamedBy
<1>3. ASSUME NEW t \in Syncs, Persisting(t, sync[s].secret), overruns[sync[t].user] = 0
      PROVE  t = s
  <2>1. sync[t].user \in Users BY <1>3, SyncTypes DEF Persisting, SyncAt
  <2>2. NamedBy(sync[t].user, sync[s].secret) BY <1>3 DEF Persisting, NamedBy
  <2>3. sync[t].user = sync[s].user BY <1>1, <1>2, <2>1, <2>2 DEF PairInv, OneOwner
  <2>4. Holds(s, sync[s].user) /\ Holds(t, sync[s].user)
    BY <1>3, <2>3 DEF Holds, Persisting, SyncAt
  <2>. QED BY <1>1, <1>3, <2>3, <2>4, Exclusive
<1>. QED BY <1>1, <1>2, <1>3 DEF PairInv, NewChainsUnused

(* GitHub rotates the pair of a chain; either the sync has the new one in  *)
(* hand or something failed.                                               *)
LEMMA RotationPairs ==
  ASSUME Typed, LeaseInv, PairInv, NEW s \in Syncs, sync[s].pc = "refresh",
         KeepsSyncs(s), CarriesSecret(s), UNCHANGED <<secrets, accounts, connect, overruns>>,
         grants' = [grants EXCEPT ![sync[s].secret].pair = @ + 1],
         \/ sync'[s].pc = "finish" /\ failures' # 0
         \/ /\ sync'[s].pc = "persist" /\ sync'[s].secret = sync[s].secret
            /\ sync'[s].pair = grants[sync[s].secret].pair + 1
            /\ UNCHANGED failures
  PROVE  PairInv'
<1>. DEFINE c == sync[s].secret
<1>1. /\ c \in Connects /\ connect[c].pc \notin Opening
      /\ \A t \in Syncs \ {s} : Persisting(t, c) => overruns[sync[t].user] # 0
  BY OneRefreshes
<1>2. /\ grants'[c].pair = grants[c].pair + 1
      /\ \A d \in Connects \ {c} : grants'[d] = grants[d]
  BY <1>1, SyncTypes DEF BillingTablesTypeOK, Grant
<1>3. NamesLeft BY SyncsNameLess
<1>4. \A t \in Syncs \ {s}, d \in Connects : Persisting(t, d)' <=> Persisting(t, d)
  BY DEF KeepsSyncs, Persisting, SyncAt
<1>5. \A d \in Connects : ~Persisting(s, d) BY DEF Persisting, SyncAt
<1>6. \A d \in Connects : Persisting(s, d)' => d = c BY DEF Persisting, SyncAt
<1>7. OneOwner' BY <1>3 DEF PairInv, OneOwner, NamesLeft
<1>8. NewChainsUnused' BY <1>1, <1>2, <1>3 DEF PairInv, NewChainsUnused, NamesLeft
<1>9. PairInHand'
  <2>. SUFFICES ASSUME NEW t \in Syncs, NEW d \in Connects, Persisting(t, d)',
                       overruns'[sync'[t].user] = 0
                PROVE  sync'[t].pair = grants'[d].pair
    BY DEF PairInHand
  <2>1. CASE t = s BY <1>2, <1>6, <2>1 DEF Persisting, SyncAt
  <2>2. CASE t # s BY <1>1, <1>2, <1>4, <2>2 DEF PairInv, PairInHand, KeepsSyncs
  <2>. QED BY <2>1, <2>2
<1>10. PairsCurrent'
  <2>. SUFFICES ASSUME failures' = 0, NEW d \in Connects, grants'[d].live, secrets'[d].stored
                PROVE  Accepted(d, secrets[d].pair)' \/ \E t \in Syncs : Persisting(t, d)'
    BY DEF PairsCurrent
  <2>1. CASE d = c
    <3>1. Persisting(s, d)' BY <2>1 DEF Persisting, SyncAt
    <3>. QED BY <3>1
  <2>2. CASE d # c
    <3>1. \/ Accepted(d, secrets[d].pair)
          \/ \E t \in Syncs : Persisting(t, d)
      BY <1>2, <2>2 DEF PairInv, PairsCurrent
    <3>. QED BY <1>2, <1>4, <1>5, <2>2, <3>1 DEF Accepted
  <2>. QED BY <2>1, <2>2
<1>. QED BY <1>7, <1>8, <1>9, <1>10 DEF PairInv

LEMMA PersistPairs ==
  ASSUME Typed, LeaseInv, PairInv, NEW s \in Syncs, Persist(s),
         UNCHANGED <<connect, failures, overruns>>
  PROVE  PairInv'
<1>. DEFINE c == sync[s].secret
<1>1. /\ sync[s].pc = "persist" /\ UNCHANGED <<grants, accounts>>
      /\ KeepsSyncs(s) /\ CarriesSecret(s) /\ sync'[s].pc = "identify"
  BY PersistKeeps, SyncCarries DEF Persist, SyncAt, SyncStep
<1>2. c \in Connects /\ sync[s].user \in Users /\ connect[c].pc \notin Opening
  BY <1>1, OneRefreshes
<1>3. failures = 0 => sync[s].pair = grants[c].pair
  BY <1>1, <1>2, NothingFailed DEF PairInv, PairInHand, Persisting, SyncAt
<1>4. /\ failures = 0 /\ secrets'[c].stored => secrets'[c].pair = grants[c].pair
      /\ \A d \in Connects \ {c} : secrets'[d] = secrets[d]
  BY <1>2, <1>3, SyncTypes DEF Persist, StoreBundle, BillingTablesTypeOK
<1>5. NamesLeft BY <1>1, SyncsNameLess
<1>6. \A t \in Syncs \ {s}, d \in Connects : Persisting(t, d)' <=> Persisting(t, d)
  BY <1>1 DEF KeepsSyncs, Persisting, SyncAt
<1>7. \A d \in Connects : /\ ~Persisting(s, d)'
                          /\ Persisting(s, d) => d = c
  BY <1>1 DEF Persisting, SyncAt
<1>8. OneOwner' BY <1>5 DEF PairInv, OneOwner, NamesLeft
<1>9. NewChainsUnused' BY <1>1, <1>2, <1>4, <1>5 DEF PairInv, NewChainsUnused, NamesLeft
<1>10. PairInHand'
  BY <1>1, <1>6, <1>7 DEF PairInv, PairInHand, KeepsSyncs
<1>11. PairsCurrent'
  <2>. SUFFICES ASSUME failures' = 0, NEW d \in Connects, grants'[d].live, secrets'[d].stored
                PROVE  Accepted(d, secrets[d].pair)' \/ \E t \in Syncs : Persisting(t, d)'
    BY DEF PairsCurrent
  <2>1. CASE d = c BY <1>1, <1>4, <2>1 DEF Accepted
  <2>2. CASE d # c
    <3>1. \/ Accepted(d, secrets[d].pair)
          \/ \E t \in Syncs : Persisting(t, d)
      BY <1>1, <1>4, <2>2 DEF PairInv, PairsCurrent
    <3>. QED BY <1>1, <1>4, <1>6, <1>7, <2>2, <3>1 DEF Accepted
  <2>. QED BY <2>1, <2>2
<1>. QED BY <1>8, <1>9, <1>10, <1>11 DEF PairInv

(* The other steps of a sync change no token; one that gives up a pair it  *)
(* could not store has failed.                                             *)
LEMMA OtherSyncStepsKeepPairs ==
  ASSUME Typed, PairInv, NEW s \in Syncs, UNCHANGED <<connect, grants, secrets, overruns>>,
         \A u \in Users : accounts'[u].secret = accounts[u].secret,
         KeepsSyncs(s), NamesLeft, sync'[s].pc # "persist",
         failures' = 0 => failures = 0 /\ sync[s].pc # "persist"
  PROVE  PairInv'
<1>1. CallbacksLeft /\ ChainsLeft /\ BundlesLeft BY DEF CallbacksLeft, ChainsLeft, BundlesLeft
<1>2. PersistsLeft BY DEF PersistsLeft, KeepsSyncs, Persisting, SyncAt
<1>. QED BY <1>1, <1>2, PairsLeft

LEMMA SyncsKeepPairs ==
  ASSUME Typed, LeaseInv, PairInv, Syncing
  PROVE  PairInv'
<1>1. UNCHANGED connect /\ failures \in Nat
  BY BoundsAssumption DEF Syncing, Typed, TypeOK
<1>2. ASSUME NEW s \in Syncs, SyncStep(s), UNCHANGED <<failures, overruns>> PROVE PairInv'
  <2>1. KeepsSyncs(s) /\ CarriesSecret(s) BY <1>2, SyncKeeps, SyncCarries
  <2>2. CASE Refresh(s) /\ ~UNCHANGED grants
    <3>1. /\ sync[s].pc = "refresh" /\ UNCHANGED <<secrets, accounts>>
          /\ Accepted(sync[s].secret, sync[s].pair)
          /\ grants' = [grants EXCEPT ![sync[s].secret].pair = @ + 1]
          /\ Becomes(s, [sync[s] EXCEPT !.pair = @ + 1, !.pc = "persist"])
      BY <2>2 DEF Refresh, SyncAt
    <3>2. /\ sync'[s].pc = "persist" /\ sync'[s].pair = sync[s].pair + 1
          /\ sync'[s].secret = sync[s].secret
      BY <3>1, SyncTypes DEF Becomes, Sync, SyncTypeOK
    <3>3. sync'[s].pair = grants[sync[s].secret].pair + 1 BY <3>1, <3>2 DEF Accepted
    <3>. QED BY <1>1, <1>2, <2>1, <3>1, <3>2, <3>3, RotationPairs
  <2>3. CASE Persist(s) BY <1>1, <1>2, <2>3, PersistPairs
  <2>4. CASE ~Persist(s) /\ (Refresh(s) => UNCHANGED grants)
    <3>1. sync[s].pc # "persist" /\ UNCHANGED <<grants, secrets>>
      BY <1>2, <2>4 DEF SyncStep, AcquireLease, OpenBundle, Refresh, CheckIdentity,
         FetchUsage, KeepSnapshot, PlanRows, InsertPlanned, UpdatePlanned, WithdrawPlanned,
         PeriodDone, Finish, ReleaseLease, tables, SyncAt
    <3>2. \A u \in Users : accounts'[u].secret = accounts[u].secret
      <4>1. \/ UNCHANGED accounts
            \/ \E held : accounts' = [accounts EXCEPT ![sync[s].user].lease = held]
            \/ \E status : accounts' = [accounts EXCEPT ![sync[s].user].status = status]
        BY <1>2, <2>4 DEF SyncStep, AcquireLease, OpenBundle, Refresh, CheckIdentity,
           FetchUsage, KeepSnapshot, PlanRows, InsertPlanned, UpdatePlanned, WithdrawPlanned,
           PeriodDone, Finish, ReleaseLease, tables
      <4>2. ASSUME NEW held, accounts' = [accounts EXCEPT ![sync[s].user].lease = held],
                   NEW u \in Users
            PROVE  accounts'[u].secret = accounts[u].secret
        BY <4>2, SyncTypes DEF BillingTablesTypeOK, AccountRow
      <4>3. ASSUME NEW status, accounts' = [accounts EXCEPT ![sync[s].user].status = status],
                   NEW u \in Users
            PROVE  accounts'[u].secret = accounts[u].secret
        BY <4>3, SyncTypes DEF BillingTablesTypeOK, AccountRow
      <4>. QED BY <4>1, <4>2, <4>3
    <3>3. sync'[s].pc # "persist"
      <4>1. CASE Refresh(s)
        <5>1. grants'[sync[s].secret].pair = grants[sync[s].secret].pair BY <2>4, <4>1
        <5>2. sync[s].secret \in Connects /\ sync[s].pc = "refresh"
          BY <4>1, SyncTypes DEF Refresh, SyncAt, AtWork
        <5>3. grants[sync[s].secret] \in Grant BY <5>2, SyncTypes DEF BillingTablesTypeOK
        <5>4. grants' # [grants EXCEPT ![sync[s].secret].pair = @ + 1]
          BY <5>1, <5>2, <5>3, SyncTypes DEF BillingTablesTypeOK, Grant
        <5>5. GivesUp(s, "needs_reauth") BY <4>1, <5>4 DEF Refresh
        <5>. QED BY <5>5, SyncTypes, LocalStates DEF GivesUp, Becomes, SyncTypeOK
      <4>2. CASE ~Refresh(s)
        BY <1>2, <2>4, <4>2, AcquireLeaseKeeps, OpenBundleKeeps, CheckIdentityKeeps,
           FetchUsageKeeps, KeepSnapshotKeeps, PlanRowsKeeps, InsertPlannedKeeps,
           AppliesOneKeeps, PeriodDoneKeeps, FinishKeeps, ReleaseLeaseKeeps DEF SyncStep
      <4>. QED BY <4>1, <4>2
    <3>4. NamesLeft BY <2>1, <3>2, SyncsNameLess
    <3>. QED BY <1>1, <1>2, <2>1, <3>1, <3>2, <3>3, <3>4, OtherSyncStepsKeepPairs
  <2>. QED BY <2>2, <2>3, <2>4
<1>3. ASSUME NEW s \in Syncs, SyncTrouble(s), Failing, UNCHANGED overruns PROVE PairInv'
  <2>1. /\ KeepsSyncs(s) /\ CarriesSecret(s) /\ UNCHANGED <<secrets, accounts>>
        /\ sync'[s].pc \in {"finish", "fetch", "release", "idle"}
    BY <1>3, SyncTroubleKeeps, SyncCarries DEF SyncTrouble, CallFails, RefreshUnanswered,
       SyncAborted, FetchRefused, AnswerGarbled, RefreshRefused,
       tables
  <2>2. failures' # 0 BY <1>1, <1>3 DEF Failing
  <2>3. CASE RefreshUnanswered(s)
    <3>1. /\ sync[s].pc = "refresh"
          /\ grants' = [grants EXCEPT ![sync[s].secret].pair = @ + 1]
      BY <2>3 DEF RefreshUnanswered, SyncAt
    <3>2. sync'[s].pc = "finish"
      BY <2>3, SyncTypes, LocalStates DEF RefreshUnanswered, GivesUp, Becomes, SyncTypeOK
    <3>. QED BY <1>1, <1>3, <2>1, <2>2, <3>1, <3>2, RotationPairs
  <2>4. CASE ~RefreshUnanswered(s)
    <3>1. UNCHANGED grants
      BY <1>3, <2>4 DEF SyncTrouble, CallFails, SyncAborted, FetchRefused, AnswerGarbled, RefreshRefused,
       tables
    <3>2. NamesLeft BY <2>1, SyncsNameLess
    <3>. QED BY <1>1, <1>3, <2>1, <2>2, <3>1, <3>2, OtherSyncStepsKeepPairs
  <2>. QED BY <2>3, <2>4
<1>4. ASSUME NEW s \in Syncs, NEW u \in Users, ReadAccount(s, u),
             UNCHANGED <<failures, overruns>>
      PROVE  PairInv'
  <2>1. /\ KeepsSyncs(s) /\ sync'[s].pc = "lease" /\ sync[s].pc = "idle"
        /\ UNCHANGED tables
    BY <1>4, ReadAccountKeeps DEF ReadAccount, SyncAt
  <2>2. sync'[s].user = u /\ sync'[s].secret = accounts[u].secret
    BY <1>4, SyncTypes DEF ReadAccount, Becomes, SyncTypeOK, IdleSync
  <2>3. NamesLeft BY <2>1, <2>2 DEF NamesLeft, NamedBy, KeepsSyncs, tables
  <2>. QED BY <1>1, <1>4, <2>1, <2>3, OtherSyncStepsKeepPairs DEF tables
<1>5. ASSUME NEW u \in Users, LeaseExpires(u), Overruns(u) PROVE PairInv'
  <2>1. UNCHANGED <<grants, secrets, sync>> BY <1>5 DEF LeaseExpires
  <2>2. \A v \in Users : accounts'[v].secret = accounts[v].secret
    BY <1>5, SyncTypes DEF LeaseExpires, Typed, TypeOK, BillingTablesTypeOK, AccountRow
  <2>3. NamesLeft BY <2>1, <2>2, RowsNameLess
  <2>4. CallbacksLeft /\ ChainsLeft /\ BundlesLeft
    BY <1>1, <2>1 DEF CallbacksLeft, ChainsLeft, BundlesLeft
  <2>5. OverrunsLeft /\ (failures' = failures \/ Failing) BY OverrunsGrow DEF Next
  <2>. QED BY <2>1, <2>3, <2>4, <2>5, SyncsIdlePersistsLeft, PairsLeft
<1>. QED BY <1>2, <1>3, <1>4, <1>5 DEF Syncing

LEMMA PairsStay ==
  ASSUME Typed, LeaseInv, PairInv, [Next]_vars
  PROVE  PairInv'
<1>1. ASSUME UNCHANGED <<secrets, accounts, connect, sync, failures>>, ChainsLeft
      PROVE  PairInv'
  <2>1. NamesLeft BY <1>1, RowsNameLess
  <2>2. CallbacksLeft /\ BundlesLeft BY <1>1 DEF CallbacksLeft, BundlesLeft
  <2>. QED BY <1>1, <2>1, <2>2, OverrunsGrow, SyncsIdlePersistsLeft, PairsLeft
<1>2. CASE Connecting BY <1>2, CallbacksKeepPairs
<1>3. CASE Disconnecting BY <1>3, DisconnectsKeepPairs
<1>4. CASE Syncing BY <1>4, SyncsKeepPairs
<1>5. CASE Github
  <2>1. UNCHANGED <<secrets, accounts, connect, sync, failures>>
    BY <1>5 DEF Github, UsageMoves, RevokedAtGithub, syncState, tables
  <2>2. UNCHANGED grants \/ \E p : RevokedAtGithub(p)
    BY <1>5 DEF Github, UsageMoves, tables
  <2>. QED BY <1>1, <2>1, <2>2, GrantsFall
<1>6. CASE UNCHANGED vars BY <1>1, <1>6, GrantsFall DEF vars
<1>. QED BY <1>2, <1>3, <1>4, <1>5, <1>6 DEF Next

LEMMA AlwaysPaired == Spec => []PairInv
<1>1. Init => PairInv
  <2>. SUFFICES ASSUME Init PROVE PairInv OBVIOUS
  <2>1. \A c \in Connects, u \in Users : ~NamedBy(u, c)
    BY BillingAssumption DEF Init, BillingTablesInit, SyncInit, IdleSync, NamedBy
  <2>2. \A s \in Syncs, c \in Connects : ~Persisting(s, c)
    BY DEF Init, SyncInit, IdleSync, Persisting, SyncAt
  <2>3. \A c \in Connects : grants[c].pair = 0 /\ ~grants[c].live /\ secrets[c].pair = 0
    BY DEF Init, BillingTablesInit
  <2>. QED
    BY <2>1, <2>2, <2>3 DEF PairInv, OneOwner, NewChainsUnused, PairInHand, PairsCurrent
<1>2. Typed /\ LeaseInv /\ PairInv /\ [Next]_vars => PairInv' BY PairsStay
<1>. QED BY <1>1, <1>2, AlwaysTyped, AlwaysLeased, PTL DEF Spec

(* Whoever connects, disconnects and syncs at once, only a failure loses   *)
(* the pair GitHub rotated to (sync.ts 240-256).                           *)
THEOREM RotatedPairIsKept == Spec => []RotatedPairKept
<1>1. PairInv => RotatedPairKept
  BY DEF PairInv, PairsCurrent, RotatedPairKept, Persisting
<1>. QED BY <1>1, AlwaysPaired, PTL

-----------------------------------------------------------------------------
(* The tokens in hand.  What a sync works with is what is stored, and a    *)
(* sync that is to log the user out tried what is stored.                  *)
WithTokens == {"refresh", "identify", "fetch", "keep", "plan", "insert", "apply"}

TokensHeld(s) ==
  LET c == sync[s].secret IN
  c \in Connects /\ secrets[c].stored =>
    /\ sync[s].pc \in WithTokens => secrets[c].pair = sync[s].pair
    /\ sync[s].pc = "persist" => secrets[c].pair # sync[s].pair
    /\ sync[s].pc = "finish" /\ sync[s].verdict = "needs_reauth" /\ ~sync[s].refused =>
         ~Accepted(c, secrets[c].pair)

TokenInv == \A s \in Syncs : overruns[sync[s].user] = 0 => TokensHeld(s)

(* What a step of another process does to the chain of a sync. *)
Undisturbed(c) ==
  /\ grants'[c].pair = grants[c].pair /\ (grants'[c].live => grants[c].live)
  /\ secrets'[c].pair = secrets[c].pair /\ (secrets'[c].stored => secrets[c].stored)

LEMMA TokensLeft ==
  ASSUME NEW s \in Syncs, TokensHeld(s), sync'[s] = sync[s],
         sync[s].secret \in Connects => Undisturbed(sync[s].secret)
  PROVE  TokensHeld(s)'
BY DEF TokensHeld, Undisturbed, Accepted

(* The chain of a callback that is opening is no sync's. *)
LEMMA CallbacksDisturbNone ==
  ASSUME Typed, PairInv, Connecting, NEW s \in Syncs, sync[s].pc # "idle",
         sync[s].secret \in Connects
  PROVE  Undisturbed(sync[s].secret)
<1>1. PICK c \in Connects : CallbackStep(c) \/ CallbackTrouble(c) BY DEF Connecting
<1>2. CASE Exchange(c) \/ Store(c)
  <2>1. sync[s].user \in Users BY SyncTypes
  <2>2. NamedBy(sync[s].user, sync[s].secret) BY <2>1 DEF NamedBy
  <2>3. connect[c].pc \in Opening BY <1>2 DEF Exchange, Store, CallbackAt, Opening
  <2>4. c # sync[s].secret BY <2>1, <2>2, <2>3 DEF PairInv, NewChainsUnused
  <2>5. /\ grants'[sync[s].secret] = grants[sync[s].secret]
        /\ secrets'[sync[s].secret] = secrets[sync[s].secret]
    BY <1>2, <2>4, SyncTypes DEF Exchange, Store, StoreBundle, BillingTablesTypeOK
  <2>. QED BY <2>5 DEF Undisturbed
<1>3. CASE ~(Exchange(c) \/ Store(c))
  <2>1. UNCHANGED grants \/ RevokeGrant(c, 0)
    BY <1>1, <1>3 DEF CallbackStep, CallbackTrouble, ConfirmIdentity, FindOwner, FindExisting,
       Reconnect, Insert, Supersede, Undo, Release, CallbackFails, WriteUnanswered,
       CallbackDies, tables
  <2>2. UNCHANGED secrets \/ \E d : DeleteBundle(d)
    BY <1>1, <1>3 DEF CallbackStep, CallbackTrouble, ConfirmIdentity, FindOwner, FindExisting,
       Reconnect, Insert, Supersede, Undo, Release, CallbackFails, WriteUnanswered,
       CallbackDies, tables
  <2>3. UNCHANGED secrets => BundlesLeft BY DEF BundlesLeft
  <2>. QED BY <2>1, <2>2, <2>3, GrantsFall, DeletedBundles DEF ChainsLeft, BundlesLeft, Undisturbed
<1>. QED BY <1>2, <1>3

LEMMA DisconnectsDisturbNone ==
  ASSUME Typed, Disconnecting, NEW c \in Connects
  PROVE  Undisturbed(c)
<1>1. PICK x \in Disconnects : DisconnectStep(x) \/ DisconnectTrouble(x) BY DEF Disconnecting
<1>2. UNCHANGED grants \/ \E d, pair : RevokeGrant(d, pair)
  BY <1>1 DEF DisconnectStep, DisconnectTrouble, ReadAccountToDrop, ReadBundleToDrop,
     RevokeAtGithub, MarkRevoked, DestroyBundle, DropUnread, DropAborted, tables
<1>3. UNCHANGED secrets \/ \E d : DeleteBundle(d)
  BY <1>1 DEF DisconnectStep, DisconnectTrouble, ReadAccountToDrop, ReadBundleToDrop,
     RevokeAtGithub, MarkRevoked, DestroyBundle, DropUnread, DropAborted, tables
<1>4. UNCHANGED secrets => BundlesLeft BY DEF BundlesLeft
<1>. QED BY <1>2, <1>3, <1>4, GrantsFall, DeletedBundles DEF ChainsLeft, BundlesLeft, Undisturbed

(* A sync that took the lease shares its chain with no other that did.     *)
LEMMA OthersDisturbNone ==
  ASSUME Typed, LeaseInv, PairInv, NEW t \in Syncs, SyncStep(t) \/ SyncTrouble(t),
         NEW s \in Syncs \ {t}, sync[s].pc \notin {"idle", "lease"},
         sync[s].secret \in Connects, overruns[sync[s].user] = 0
  PROVE  Undisturbed(sync[s].secret)
<1>. DEFINE c == sync[s].secret
<1>1. CASE sync[t].pc \in {"refresh", "persist"}
  <2>1. sync[t].secret \in Connects BY <1>1, OneRefreshes
  <2>2. sync[t].secret # c
    <3>. SUFFICES ASSUME sync[t].secret = c PROVE FALSE OBVIOUS
    <3>1. sync[t].user \in Users /\ sync[s].user \in Users BY <1>1, SyncTypes
    <3>2. NamedBy(sync[t].user, c) /\ NamedBy(sync[s].user, c) BY DEF NamedBy
    <3>3. sync[t].user = sync[s].user BY <3>1, <3>2 DEF PairInv, OneOwner
    <3>4. Holds(t, sync[s].user) /\ Holds(s, sync[s].user) BY <1>1, <3>3 DEF Holds
    <3>. QED BY <3>1, <3>4, Exclusive
  <2>3. \/ UNCHANGED grants
        \/ grants' = [grants EXCEPT ![sync[t].secret].pair = @ + 1]
    BY DEF SyncStep, SyncTrouble, AcquireLease, OpenBundle, Refresh, Persist,
       CheckIdentity, FetchUsage, KeepSnapshot, PlanRows, InsertPlanned, UpdatePlanned,
       WithdrawPlanned, PeriodDone, Finish, ReleaseLease, CallFails, RefreshUnanswered,
       SyncAborted, FetchRefused, AnswerGarbled, RefreshRefused,
       tables
  <2>4. UNCHANGED secrets \/ StoreBundle(sync[t].secret, sync[t].pair)
    BY DEF SyncStep, SyncTrouble, AcquireLease, OpenBundle, Refresh, Persist,
       CheckIdentity, FetchUsage, KeepSnapshot, PlanRows, InsertPlanned, UpdatePlanned,
       WithdrawPlanned, PeriodDone, Finish, ReleaseLease, CallFails, RefreshUnanswered,
       SyncAborted, FetchRefused, AnswerGarbled, RefreshRefused,
       tables
  <2>5. grants'[c] = grants[c] /\ secrets'[c] = secrets[c]
    BY <2>1, <2>2, <2>3, <2>4, SyncTypes DEF StoreBundle, BillingTablesTypeOK
  <2>. QED BY <2>5 DEF Undisturbed
<1>2. CASE sync[t].pc \notin {"refresh", "persist"}
  <2>1. UNCHANGED <<grants, secrets>>
    BY <1>2 DEF SyncStep, SyncTrouble, AcquireLease, OpenBundle, Refresh, Persist,
       CheckIdentity, FetchUsage, KeepSnapshot, PlanRows, InsertPlanned, UpdatePlanned,
       WithdrawPlanned, PeriodDone, Finish, ReleaseLease, CallFails, RefreshUnanswered,
       SyncAborted, FetchRefused, AnswerGarbled, RefreshRefused,
       tables, SyncAt
  <2>. QED BY <2>1 DEF Undisturbed
<1>. QED BY <1>1, <1>2

LEMMA OwnTokens ==
  ASSUME Typed, PairInv, NEW s \in Syncs, TokensHeld(s), overruns[sync[s].user] = 0,
         SyncStep(s) \/ SyncTrouble(s)
  PROVE  TokensHeld(s)'
<1>. DEFINE c == sync[s].secret
<1>1. /\ sync[s] \in Sync /\ sync \in [Syncs -> Sync]
      /\ sync[s].pc \in AtWork => c \in Connects
  BY SyncTypes DEF SyncTypeOK
<1>2. ASSUME NEW new, Becomes(s, new) PROVE sync'[s] = new BY <1>1, <1>2 DEF Becomes
(* It has no tokens in hand, or goes on with the same. *)
<1>3. sync'[s].pc \in {"idle", "open", "release"} => TokensHeld(s)' BY DEF TokensHeld, WithTokens
<1>4. ASSUME NEW new \in Sync, Becomes(s, new), new.secret = c, new.pair = sync[s].pair,
             new.pc \in WithTokens, sync[s].pc \in WithTokens, UNCHANGED secrets
      PROVE  TokensHeld(s)'
  BY <1>2, <1>4 DEF TokensHeld, WithTokens
<1>5. ASSUME NEW pc \in WithTokens, GoesTo(s, pc), sync[s].pc \in WithTokens, UNCHANGED secrets
      PROVE  TokensHeld(s)'
  <2>. DEFINE new == [sync[s] EXCEPT !.pc = pc]
  <2>1. new \in Sync /\ new.secret = c /\ new.pair = sync[s].pair /\ new.pc = pc
    BY <1>1, <1>5 DEF Sync, WithTokens
  <2>2. Becomes(s, new) BY <1>5 DEF GoesTo
  <2>. HIDE DEF new
  <2>. QED BY <1>4, <1>5, <2>1, <2>2
(* It concludes: it logs the user out only over what it tried. *)
<1>6. ASSUME NEW local, NEW verdict \in {"connected", "degraded"},
             Becomes(s, Concludes(local, verdict))
      PROVE  TokensHeld(s)'
  <2>1. sync'[s] = Concludes(local, verdict) BY <1>2, <1>6
  <2>2. sync'[s].pc = "finish" /\ sync'[s].verdict # "needs_reauth"
    BY <2>1 DEF Concludes, IdleSync
  <2>. QED BY <2>2 DEF TokensHeld, WithTokens
<1>7. ASSUME GivesUp(s, "needs_reauth"), UNCHANGED <<grants, secrets>>,
             c \in Connects /\ secrets[c].stored => ~Accepted(c, secrets[c].pair)
      PROVE  TokensHeld(s)'
  <2>1. sync'[s] = Concludes(sync[s], "needs_reauth") BY <1>2, <1>7 DEF GivesUp
  <2>2. sync'[s].secret = c /\ sync'[s].pc = "finish" BY <2>1 DEF Concludes, IdleSync
  <2>. QED BY <1>7, <2>2 DEF TokensHeld, WithTokens, Accepted
<1>8. ASSUME NEW local \in Sync, local.secret = c, local.pair = sync[s].pair,
             Becomes(s, NextPeriod(local)) \/ Becomes(s, Ends(local)),
             sync[s].pc \in WithTokens, UNCHANGED secrets
      PROVE  TokensHeld(s)'
  <2>1. Becomes(s, Ends(local)) => TokensHeld(s)' BY <1>6 DEF Ends
  <2>2. CASE Becomes(s, NextPeriod(local)) /\ local.later # <<>>
    <3>1. /\ NextPeriod(local) \in Sync /\ NextPeriod(local).secret = c
          /\ NextPeriod(local).pc \in {"fetch", "finish"}
      BY <1>8, PeriodsOfALocalState
    <3>2. NextPeriod(local).pair = sync[s].pair /\ NextPeriod(local).pc = "fetch"
      BY <1>8, <2>2 DEF NextPeriod, Sync
    <3>3. "fetch" \in WithTokens BY DEF WithTokens
    <3>. QED BY <1>4, <1>8, <2>2, <3>1, <3>2, <3>3
  <2>3. CASE Becomes(s, NextPeriod(local)) /\ local.later = <<>>
    BY <2>1, <2>3 DEF NextPeriod
  <2>. QED BY <1>8, <2>1, <2>2, <2>3
<1>9. CASE AcquireLease(s) BY <1>3, <1>9, AcquireLeaseKeeps
<1>10. CASE OpenBundle(s)
  <2>1. UNCHANGED <<grants, secrets>> BY <1>10 DEF OpenBundle, tables
  <2>2. CASE c = NoSecret /\ GivesUp(s, "needs_reauth") BY <1>7, <2>1, <2>2, BillingAssumption
  <2>3. CASE GivesUp(s, "degraded") BY <1>6, <2>3 DEF GivesUp
  <2>4. ASSUME NEW pc \in {"identify", "refresh"},
               Becomes(s, [sync[s] EXCEPT !.pair = secrets[c].pair, !.pc = pc])
        PROVE  TokensHeld(s)'
    <3>. DEFINE new == [sync[s] EXCEPT !.pair = secrets[c].pair, !.pc = pc]
    <3>1. new.secret = c /\ new.pair = secrets[c].pair /\ new.pc = pc BY <1>1 DEF Sync
    <3>2. sync'[s] = new BY <1>2, <2>4
    <3>. HIDE DEF new
    <3>. QED BY <2>1, <3>1, <3>2 DEF TokensHeld, WithTokens
  <2>. QED BY <1>10, <2>2, <2>3, <2>4 DEF OpenBundle
<1>11. CASE Refresh(s)
  <2>1. sync[s].pc = "refresh" /\ c \in Connects /\ UNCHANGED secrets
    BY <1>1, <1>11 DEF Refresh, SyncAt, AtWork
  <2>2. secrets[c].stored => secrets[c].pair = sync[s].pair
    BY <2>1 DEF TokensHeld, WithTokens
  <2>3. CASE Accepted(c, sync[s].pair)
    <3>. DEFINE new == [sync[s] EXCEPT !.pair = sync[s].pair + 1, !.pc = "persist"]
    <3>1. new.secret = c /\ new.pair = sync[s].pair + 1 /\ new.pc = "persist"
      BY <1>1 DEF Sync
    <3>2. Becomes(s, new) BY <1>1, <1>11, <2>3 DEF Refresh, Sync
    <3>3. sync'[s] = new BY <1>2, <3>2
    <3>4. sync[s].pair # sync[s].pair + 1 BY <1>1 DEF Sync
    <3>. HIDE DEF new
    <3>. QED BY <2>1, <2>2, <3>1, <3>3, <3>4 DEF TokensHeld, WithTokens
  <2>4. CASE ~Accepted(c, sync[s].pair)
    <3>1. GivesUp(s, "needs_reauth") /\ UNCHANGED grants BY <1>11, <2>4 DEF Refresh
    <3>. QED BY <1>7, <2>1, <2>2, <2>4, <3>1
  <2>. QED BY <2>3, <2>4
<1>12. CASE Persist(s)
  <2>. DEFINE new == [sync[s] EXCEPT !.refreshed = TRUE, !.pc = "identify"]
  <2>1. new.secret = c /\ new.pair = sync[s].pair /\ new.pc = "identify" BY <1>1 DEF Sync
  <2>2. sync'[s] = new BY <1>2, <1>12 DEF Persist
  <2>3. c \in Connects BY <1>1, <1>12 DEF Persist, SyncAt, AtWork
  <2>4. secrets'[c].stored => secrets'[c].pair = sync[s].pair
    BY <1>12, <2>3, SyncTypes DEF Persist, StoreBundle, BillingTablesTypeOK
  <2>. HIDE DEF new
  <2>. QED BY <2>1, <2>2, <2>4 DEF TokensHeld, WithTokens
<1>13. CASE CheckIdentity(s)
  <2>1. sync[s].pc = "identify" /\ UNCHANGED <<grants, secrets>>
    BY <1>13 DEF CheckIdentity, SyncAt, tables
  <2>2. {"identify", "fetch", "refresh"} \subseteq WithTokens BY DEF WithTokens
  <2>3. c \in Connects /\ secrets[c].stored => secrets[c].pair = sync[s].pair
    BY <2>1 DEF TokensHeld, WithTokens
  <2>4. CASE GoesTo(s, "refresh") BY <1>5, <2>1, <2>2, <2>4
  <2>5. CASE ~Accepted(c, sync[s].pair) /\ GivesUp(s, "needs_reauth")
    BY <1>7, <2>1, <2>3, <2>5
  <2>6. ASSUME NEW mode \in Modes, NEW k \in SyncDays,
               LET asked == planSyncRequests(mode, k)
               IN Becomes(s, [sync[s] EXCEPT !.period = Head(asked), !.later = Tail(asked),
                                             !.pc = "fetch"])
        PROVE  TokensHeld(s)'
    <3>. DEFINE now == Head(planSyncRequests(mode, k))
                rest == Tail(planSyncRequests(mode, k))
                new == [sync[s] EXCEPT !.period = now, !.later = rest, !.pc = "fetch"]
    <3>1. now \in Periods /\ rest \in Seq(Periods) BY PlansTyped
    <3>2. Becomes(s, new) BY <2>6
    <3>. HIDE DEF now, rest
    <3>3. /\ new \in Sync /\ new.secret = c /\ new.pair = sync[s].pair /\ new.pc = "fetch"
      BY <1>1, <3>1 DEF Sync
    <3>. HIDE DEF new
    <3>. QED BY <1>4, <2>1, <2>2, <3>2, <3>3
  <2>. QED BY <1>13, <2>4, <2>5, <2>6 DEF CheckIdentity
<1>14. CASE FetchUsage(s)
  <2>1. sync[s].pc = "fetch" /\ UNCHANGED <<grants, secrets>>
    BY <1>14 DEF FetchUsage, SyncAt, tables
  <2>2. "fetch" \in WithTokens BY DEF WithTokens
  <2>3. c \in Connects /\ secrets[c].stored => secrets[c].pair = sync[s].pair
    BY <2>1 DEF TokensHeld, WithTokens
  <2>4. CASE Becomes(s, NextPeriod(sync[s])) BY <1>1, <1>8, <2>1, <2>2, <2>4
  <2>5. ASSUME NEW answer, Becomes(s, [sync[s] EXCEPT !.pc = "keep", !.answer = answer])
        PROVE  TokensHeld(s)'
    <3>. DEFINE new == [sync[s] EXCEPT !.pc = "keep", !.answer = answer]
    <3>1. new.secret = c /\ new.pair = sync[s].pair /\ new.pc = "keep" BY <1>1 DEF Sync
    <3>2. sync'[s] = new BY <1>2, <2>5
    <3>. HIDE DEF new
    <3>. QED BY <2>1, <2>3, <3>1, <3>2 DEF TokensHeld, WithTokens
  <2>6. CASE ~Accepted(c, sync[s].pair) /\ GivesUp(s, "needs_reauth")
    BY <1>7, <2>1, <2>3, <2>6
  <2>. QED BY <1>14, <2>4, <2>5, <2>6 DEF FetchUsage
<1>15. CASE PlanRows(s)
  <2>1. sync[s].pc = "plan" /\ UNCHANGED secrets BY <1>15 DEF PlanRows, SyncAt, tables
  <2>. DEFINE new(plan, billed) ==
         [sync[s] EXCEPT !.pc = "insert", !.plan = plan, !.billed = billed]
  <2>2. PICK plan, billed : Becomes(s, new(plan, billed)) BY <1>1, <1>15 DEF PlanRows, Sync
  <2>3. /\ new(plan, billed).secret = c /\ new(plan, billed).pair = sync[s].pair
        /\ new(plan, billed).pc = "insert"
    BY <1>1 DEF Sync
  <2>4. sync'[s] = new(plan, billed) BY <1>2, <2>2
  <2>. HIDE DEF new
  <2>. QED BY <2>1, <2>3, <2>4 DEF TokensHeld, WithTokens
<1>16. CASE KeepSnapshot(s) \/ InsertPlanned(s)
  <2>1. sync[s].pc \in WithTokens /\ UNCHANGED secrets
    BY <1>16 DEF KeepSnapshot, InsertPlanned, SyncAt, tables, WithTokens
  <2>2. {"plan", "apply"} \subseteq WithTokens BY DEF WithTokens
  <2>3. LetsGo(s) => TokensHeld(s)' BY <1>2, <1>3 DEF LetsGo, IdleSync
  <2>. QED BY <1>5, <1>16, <2>1, <2>2, <2>3 DEF KeepSnapshot, InsertPlanned
<1>17. CASE UpdatePlanned(s) \/ WithdrawPlanned(s)
  <2>1. sync[s].pc = "apply" /\ UNCHANGED secrets
    BY <1>17 DEF UpdatePlanned, WithdrawPlanned, SyncAt, tables
  <2>2. sync'[s].secret = c /\ sync'[s].pair = sync[s].pair /\ sync'[s].pc = "apply"
    BY <1>1, <1>17, <2>1 DEF UpdatePlanned, WithdrawPlanned, Sync
  <2>. QED BY <2>1, <2>2 DEF TokensHeld, WithTokens
<1>18. CASE PeriodDone(s)
  <2>1. sync[s].pc \in WithTokens /\ UNCHANGED secrets
    BY <1>18 DEF PeriodDone, SyncAt, tables, WithTokens
  <2>. QED BY <1>1, <1>8, <1>18, <2>1 DEF PeriodDone
<1>19. CASE Finish(s) \/ ReleaseLease(s)
  BY <1>3, <1>19, FinishKeeps, ReleaseLeaseKeeps
<1>20. CASE CallFails(s)
  <2>1. UNCHANGED <<grants, secrets>> BY <1>20 DEF CallFails, tables
  <2>2. CASE GivesUp(s, "degraded") BY <1>6, <2>2 DEF GivesUp
  <2>3. CASE sync[s].pc = "persist" /\ GivesUp(s, "needs_reauth")
    <3>1. c \in Connects BY <1>1, <2>3 DEF AtWork
    <3>2. sync[s].pair = grants[c].pair
      BY <2>3, <3>1 DEF PairInv, PairInHand, Persisting, SyncAt
    <3>3. secrets[c].stored => secrets[c].pair # sync[s].pair BY <2>3, <3>1 DEF TokensHeld
    <3>. QED BY <1>7, <2>1, <2>3, <3>2, <3>3 DEF Accepted
  <2>. QED BY <1>20, <2>2, <2>3 DEF CallFails, SyncAt
<1>21. CASE RefreshUnanswered(s) BY <1>6, <1>21 DEF RefreshUnanswered, GivesUp
<1>22. CASE SyncAborted(s)
  <2>1. CASE LetsGo(s) BY <1>2, <1>3, <2>1 DEF LetsGo, IdleSync
  <2>2. CASE Becomes(s, IdleSync) BY <1>2, <1>3, <2>2 DEF IdleSync
  <2>. QED BY <1>22, <2>1, <2>2 DEF SyncAborted
<1>23. ASSUME NEW failure \in Failures, Refused(s, failure), sync[s].pc \in WithTokens,
              UNCHANGED secrets
       PROVE  TokensHeld(s)'
  <2>. DEFINE noted == [sync[s] EXCEPT !.failure = failure]
  <2>1. noted \in Sync /\ noted.pair = sync[s].pair /\ noted.secret = c
    BY <1>1, <1>23 DEF Sync
  <2>2. Becomes(s, Ends(noted)) \/ Becomes(s, NextPeriod(noted)) BY <1>23 DEF Refused
  <2>. HIDE DEF noted
  <2>. QED BY <1>8, <1>23, <2>1, <2>2
<1>24. ASSUME AnswerGarbled(s) \/ \E failure \in Failures \ {"none"} : FetchRefused(s, failure)
       PROVE  TokensHeld(s)'
  BY <1>23, <1>24 DEF AnswerGarbled, FetchRefused, Failures, SyncAt, WithTokens, tables
<1>25. CASE RefreshRefused(s)
  <2>. DEFINE over == Concludes(sync[s], "needs_reauth")
              new == [over EXCEPT !.refused = TRUE]
  <2>1. over \in Sync /\ over.pc = "finish" BY <1>1, LocalStates
  <2>. HIDE DEF over
  <2>2. new.refused /\ new.pc = "finish" BY <2>1 DEF Sync
  <2>3. sync'[s] = new BY <1>2, <1>25 DEF RefreshRefused, over
  <2>. HIDE DEF new
  <2>. QED BY <2>2, <2>3 DEF TokensHeld, WithTokens
<1>. QED
  BY <1>9, <1>10, <1>11, <1>12, <1>13, <1>14, <1>15, <1>16, <1>17, <1>18, <1>19, <1>20, <1>21,
     <1>22, <1>24, <1>25 DEF SyncStep, SyncTrouble

LEMMA TokensStay ==
  ASSUME Typed, LeaseInv, PairInv, TokenInv, [Next]_vars
  PROVE  TokenInv'
<1>. SUFFICES ASSUME NEW s \in Syncs, overruns'[sync'[s].user] = 0 PROVE TokensHeld(s)'
  BY DEF TokenInv
<1>. SUFFICES ASSUME sync'[s].pc \notin {"idle", "lease"} PROVE TokensHeld(s)'
  BY DEF TokensHeld, WithTokens
<1>0. sync[s].user \in Users /\ overruns[sync[s].user] = 0 BY UnderLease
<1>1. TokensHeld(s) BY <1>0 DEF TokenInv
<1>2. ASSUME UNCHANGED sync, sync[s].secret \in Connects => Undisturbed(sync[s].secret)
      PROVE  TokensHeld(s)'
  BY <1>1, <1>2, TokensLeft
<1>3. ASSUME UNCHANGED <<sync, secrets>>, ChainsLeft PROVE TokensHeld(s)'
  BY <1>2, <1>3 DEF ChainsLeft, Undisturbed
<1>4. CASE Connecting BY <1>2, <1>4, CallbacksDisturbNone DEF Connecting, syncState
<1>5. CASE Disconnecting BY <1>2, <1>5, DisconnectsDisturbNone DEF Disconnecting, syncState
<1>6. ASSUME NEW t \in Syncs, SyncStep(t) \/ SyncTrouble(t) PROVE TokensHeld(s)'
  <2>1. CASE t = s BY <1>0, <1>1, <1>6, <2>1, OwnTokens
  <2>2. CASE t # s
    <3>1. sync'[s] = sync[s] BY <1>6, <2>2, SyncKeeps DEF KeepsSyncs
    <3>. QED BY <1>0, <1>1, <1>6, <2>2, <3>1, OthersDisturbNone, TokensLeft
  <2>. QED BY <2>1, <2>2
<1>7. ASSUME NEW t \in Syncs, NEW u \in Users, ReadAccount(t, u) PROVE TokensHeld(s)'
  <2>1. CASE t = s BY <1>7, <2>1, ReadAccountKeeps DEF TokensHeld, WithTokens
  <2>2. CASE t # s
    <3>1. sync'[s] = sync[s] /\ UNCHANGED <<grants, secrets>>
      BY <1>7, <2>2, SyncKeeps DEF KeepsSyncs, ReadAccount, tables
    <3>. QED BY <1>1, <3>1, TokensLeft DEF Undisturbed
  <2>. QED BY <2>1, <2>2
<1>8. ASSUME NEW u \in Users, LeaseExpires(u) PROVE TokensHeld(s)'
  BY <1>3, <1>8, GrantsFall DEF LeaseExpires
<1>9. CASE Syncing BY <1>6, <1>7, <1>8, <1>9 DEF Syncing
<1>10. CASE Github
  <2>1. UNCHANGED <<secrets, sync>>
    BY <1>10 DEF Github, UsageMoves, RevokedAtGithub, syncState, tables
  <2>2. UNCHANGED grants \/ \E p : RevokedAtGithub(p)
    BY <1>10 DEF Github, UsageMoves, tables
  <2>. QED BY <1>3, <2>1, <2>2, GrantsFall
<1>11. CASE UNCHANGED vars BY <1>3, <1>11, GrantsFall DEF vars
<1>. QED BY <1>4, <1>5, <1>9, <1>10, <1>11 DEF Next

(* Where no lease ran out and GitHub answered with tokens or refused dead  *)
(* ones, tokens that work never log their user out, whoever refreshes,     *)
(* connects and disconnects in between (sync.ts 227-266, 283-289).         *)
THEOREM OnlyDeadTokensLogOut == Spec => LogsOutOnlyDeadTokens
<1>. DEFINE Allowed ==
       \A s \in Syncs :
         LET u == sync[s].user IN
         /\ Finish(s) /\ sync[s].verdict = "needs_reauth"
         /\ accounts[u].secret = sync[s].secret /\ ~sync[s].refused /\ overruns[u] = 0
         => ~Usable(u)
<1>1. Init => TokenInv
  BY DEF Init, SyncInit, IdleSync, TokenInv, TokensHeld, WithTokens
<1>2. Typed /\ LeaseInv /\ PairInv /\ TokenInv /\ [Next]_vars => TokenInv' BY TokensStay
<1>3. Typed /\ TokenInv => Allowed
  <2>. SUFFICES ASSUME Typed, TokenInv, NEW s \in Syncs, Finish(s),
                       sync[s].verdict = "needs_reauth", Usable(sync[s].user),
                       accounts[sync[s].user].secret = sync[s].secret, ~sync[s].refused,
                       overruns[sync[s].user] = 0
                PROVE  FALSE
    OBVIOUS
  <2>1. sync[s].pc = "finish" /\ sync[s] \in Sync BY SyncTypes DEF Finish, SyncAt
  <2>2. sync[s].secret \in Connects BY <2>1 DEF Usable, Sync
  <2>. QED BY <2>1, <2>2 DEF TokenInv, TokensHeld, Usable
<1>4. Typed /\ TokenInv /\ [Next]_vars => [Allowed]_vars BY <1>3
<1>5. LogsOutOnlyDeadTokens <=> [][Allowed]_vars BY DEF LogsOutOnlyDeadTokens
<1>. HIDE DEF Allowed
<1>. QED BY <1>1, <1>2, <1>4, <1>5, AlwaysTyped, AlwaysLeased, AlwaysPaired, PTL DEF Spec

-----------------------------------------------------------------------------
(* The plan.  Where no lease ran out only the sync that holds it writes an *)
(* account's rows, so the plan it made fits them until it is carried out.  *)
AgreesAt(row, value) ==
  IF value = "unlisted" THEN row.exists => row.withdrawn
  ELSE row.exists /\ ~row.withdrawn /\ row.value = value

PlanFits(s) ==
  /\ sync[s].pc = "insert" => sync[s].plan = PlanUpsert(Stored(s), sync[s].answer)
  /\ sync[s].pc = "apply" =>
       \A i \in Items :
         /\ i \in sync[s].plan.updates => i \in Listed(sync[s].answer) /\ Stored(s)[i].exists
         /\ i \in sync[s].plan.withdrawals => i \notin Listed(sync[s].answer)
         /\ i \notin sync[s].plan.updates \cup sync[s].plan.withdrawals =>
              AgreesAt(Stored(s)[i], sync[s].answer[i])

PlanInv == \A s \in Syncs : overruns[sync[s].user] = 0 => PlanFits(s)

LEMMA PlanLeft ==
  ASSUME NEW s \in Syncs, PlanFits(s), sync'[s] = sync[s],
         rows'[sync[s].user] = rows[sync[s].user]
  PROVE  PlanFits(s)'
<1>1. Period(s)' = Period(s) BY DEF Period
<1>2. Stored(s)' = Stored(s) BY <1>1 DEF Stored
<1>. QED BY <1>2 DEF PlanFits

LEMMA InsertedFits ==
  ASSUME Typed, NEW s \in Syncs, PlanFits(s), InsertPlanned(s)
  PROVE  PlanFits(s)'
<1>1. /\ sync[s].pc = "insert" /\ sync[s].user \in Users /\ sync[s] \in Sync
      /\ sync[s].answer \in Answer /\ sync[s].plan \in Plan
      /\ Stored(s) \in [Items -> UsageRow]
  BY SyncTypes, PeriodTyped DEF InsertPlanned, SyncAt, SyncTypeOK, Stored, Sync
<1>. DEFINE answer == sync[s].answer
            plan == sync[s].plan
            old == Stored(s)
            new == InsertRows(old, plan, answer)
<1>2. plan = PlanUpsert(old, answer) BY <1>1 DEF PlanFits
<1>3. /\ plan.inserts = {i \in Listed(answer) : ~old[i].exists}
      /\ plan.updates = {i \in Listed(answer) :
                           old[i].exists /\ (old[i].withdrawn \/ old[i].value # answer[i])}
      /\ plan.withdrawals = {i \in Items \ Listed(answer) : old[i].exists /\ ~old[i].withdrawn}
  BY <1>2 DEF PlanUpsert
<1>4. CASE sync'[s].pc = "release" BY <1>4 DEF PlanFits
<1>5. CASE /\ sync'[s].pc = "apply" /\ sync'[s].user = sync[s].user
           /\ sync'[s].period = sync[s].period /\ sync'[s].answer = answer
           /\ sync'[s].plan = plan /\ Writes(s, new)
  <2>1. new \in [Items -> UsageRow] BY <1>1, RowsTyped DEF InsertRows
  <2>2. Stored(s)' = new
    <3>1. Period(s)' = Period(s) BY <1>5 DEF Period
    <3>2. rows'[sync[s].user][Period(s)] = new BY <1>1, <1>5, <2>1, WritesTyped
    <3>. QED BY <1>5, <3>1, <3>2 DEF Stored
  <2>3. \A i \in Items :
          new[i] = IF i \in plan.inserts
                   THEN [exists |-> TRUE, value |-> answer[i], withdrawn |-> FALSE,
                         snapshot |-> answer]
                   ELSE old[i]
    BY DEF InsertRows
  <2>4. ASSUME NEW i \in Items
        PROVE  /\ i \in plan.updates => i \in Listed(answer) /\ new[i].exists
               /\ i \in plan.withdrawals => i \notin Listed(answer)
               /\ i \notin plan.updates \cup plan.withdrawals => AgreesAt(new[i], answer[i])
    <3>. HIDE DEF new, plan, old, answer
    <3>1. CASE i \in plan.inserts
      <4>0. new[i] = [exists |-> TRUE, value |-> answer[i], withdrawn |-> FALSE,
                      snapshot |-> answer]
        BY <2>3, <3>1
      <4>1. /\ new[i].exists /\ ~new[i].withdrawn /\ new[i].value = answer[i]
        BY <4>0
      <4>2. i \in Listed(answer) /\ answer[i] # "unlisted" BY <1>3, <3>1 DEF Listed
      <4>. QED BY <1>3, <4>1, <4>2 DEF AgreesAt
    <3>2. CASE i \notin plan.inserts
      <4>1. new[i] = old[i] /\ old[i] \in UsageRow BY <1>1, <2>3, <3>2 DEF old
      <4>2. i \in Listed(answer) <=> answer[i] # "unlisted" BY DEF Listed
      <4>. QED BY <1>3, <3>2, <4>1, <4>2 DEF AgreesAt, UsageRow
    <3>. QED BY <3>1, <3>2
  <2>. HIDE DEF new
  <2>. QED BY <1>5, <2>2, <2>4 DEF PlanFits
<1>. QED BY <1>4, <1>5, InsertPlannedKeeps

LEMMA AppliedFits ==
  ASSUME Typed, NEW s \in Syncs, PlanFits(s), UpdatePlanned(s) \/ WithdrawPlanned(s)
  PROVE  PlanFits(s)'
<1>1. /\ sync[s].pc = "apply" /\ sync[s].user \in Users /\ sync[s] \in Sync
      /\ sync[s].answer \in Answer /\ sync[s].plan \in Plan
      /\ Stored(s) \in [Items -> UsageRow]
  BY SyncTypes, PeriodTyped DEF UpdatePlanned, WithdrawPlanned, SyncAt, SyncTypeOK, Stored, Sync
<1>2. /\ sync'[s].pc = "apply" /\ sync'[s].user = sync[s].user
      /\ sync'[s].period = sync[s].period /\ sync'[s].answer = sync[s].answer
  BY AppliesOneKeeps
<1>3. PICK i \in Items : AppliesOne(s, i) BY AppliesOneKeeps
<1>. DEFINE answer == sync[s].answer
            plan == sync[s].plan
            old == Stored(s)
<1>4. Period(s)' = Period(s) BY <1>2 DEF Period
<1>5. \A new \in [Items -> UsageRow] : Writes(s, new) => Stored(s)' = new
  BY <1>1, <1>2, <1>4, WritesTyped DEF Stored
<1>6. /\ UpdateRow(old, i, answer) \in [Items -> UsageRow]
      /\ WithdrawRow(old, i, answer) \in [Items -> UsageRow]
  BY <1>1, RowsTyped
<1>7. CASE /\ i \in plan.updates /\ Writes(s, UpdateRow(old, i, answer))
           /\ sync' = [sync EXCEPT ![s].plan.updates = @ \ {i}]
  <2>. DEFINE new == UpdateRow(old, i, answer)
  <2>1. /\ sync'[s].plan.updates = plan.updates \ {i}
        /\ sync'[s].plan.withdrawals = plan.withdrawals
    BY <1>1, <1>7, SyncTypes DEF SyncTypeOK, Sync, Plan
  <2>2. Stored(s)' = new BY <1>5, <1>6, <1>7
  <2>3. \A j \in Items \ {i} : new[j] = old[j] BY <1>1 DEF UpdateRow
  <2>4. /\ new[i].exists = old[i].exists /\ ~new[i].withdrawn /\ new[i].value = answer[i]
    BY <1>1 DEF UpdateRow, UsageRow
  <2>5. i \in Listed(answer) /\ old[i].exists BY <1>1, <1>7 DEF PlanFits
  <2>6. AgreesAt(new[i], answer[i]) BY <2>4, <2>5 DEF AgreesAt, Listed
  <2>. HIDE DEF new
  <2>. QED BY <1>1, <1>2, <2>1, <2>2, <2>3, <2>4, <2>5, <2>6 DEF PlanFits
<1>8. CASE /\ i \in plan.withdrawals /\ Writes(s, WithdrawRow(old, i, answer))
           /\ sync' = [sync EXCEPT ![s].plan.withdrawals = @ \ {i}]
  <2>. DEFINE new == WithdrawRow(old, i, answer)
  <2>1. /\ sync'[s].plan.withdrawals = plan.withdrawals \ {i}
        /\ sync'[s].plan.updates = plan.updates
    BY <1>1, <1>8, SyncTypes DEF SyncTypeOK, Sync, Plan
  <2>2. Stored(s)' = new BY <1>5, <1>6, <1>8
  <2>3. \A j \in Items \ {i} : new[j] = old[j] BY <1>1 DEF WithdrawRow
  <2>4. new[i].exists = old[i].exists /\ new[i].withdrawn
    BY <1>1 DEF WithdrawRow, UsageRow
  <2>5. i \notin Listed(answer) BY <1>1, <1>8 DEF PlanFits
  <2>6. AgreesAt(new[i], answer[i]) BY <2>4, <2>5 DEF AgreesAt, Listed
  <2>. HIDE DEF new
  <2>. QED BY <1>1, <1>2, <2>1, <2>2, <2>3, <2>4, <2>5, <2>6 DEF PlanFits
<1>. QED BY <1>3, <1>7, <1>8 DEF AppliesOne

LEMMA OwnPlan ==
  ASSUME Typed, NEW s \in Syncs, PlanFits(s),
         SyncStep(s) \/ SyncTrouble(s) \/ \E u \in Users : ReadAccount(s, u)
  PROVE  PlanFits(s)'
<1>1. CASE PlanRows(s)
  <2>1. UNCHANGED rows BY <1>1 DEF PlanRows, evidence
  <2>2. /\ sync'[s].pc = "insert" /\ sync'[s].user = sync[s].user
        /\ sync'[s].period = sync[s].period /\ sync'[s].answer = sync[s].answer
        /\ sync'[s].plan = PlanUpsert(Stored(s), sync[s].answer)
    BY <1>1, PlanRowsKeeps DEF Stored
  <2>3. Period(s)' = Period(s) BY <2>2 DEF Period
  <2>4. Stored(s)' = Stored(s) BY <2>1, <2>2, <2>3 DEF Stored
  <2>. QED BY <2>2, <2>4 DEF PlanFits
<1>2. CASE InsertPlanned(s) BY <1>2, InsertedFits
<1>3. CASE UpdatePlanned(s) \/ WithdrawPlanned(s) BY <1>3, AppliedFits
<1>4. CASE ~(PlanRows(s) \/ InsertPlanned(s) \/ UpdatePlanned(s) \/ WithdrawPlanned(s))
  <2>1. sync'[s].pc \notin {"insert", "apply"}
    BY ZenonT(60), <1>4, ReadAccountKeeps, AcquireLeaseKeeps, OpenBundleKeeps, RefreshKeeps, PersistKeeps,
       CheckIdentityKeeps, FetchUsageKeeps, KeepSnapshotKeeps, PeriodDoneKeeps, FinishKeeps,
       ReleaseLeaseKeeps, SyncTroubleKeeps DEF SyncStep
  <2>. QED BY <2>1 DEF PlanFits
<1>. QED BY <1>1, <1>2, <1>3, <1>4

LEMMA PlansStay ==
  ASSUME Typed, LeaseInv, PlanInv, [Next]_vars
  PROVE  PlanInv'
<1>. SUFFICES ASSUME NEW s \in Syncs, overruns'[sync'[s].user] = 0 PROVE PlanFits(s)'
  BY DEF PlanInv
<1>. SUFFICES ASSUME sync'[s].pc \notin {"idle", "lease"} PROVE PlanFits(s)'
  BY DEF PlanFits
<1>0. sync[s].user \in Users /\ overruns[sync[s].user] = 0 /\ PlanFits(s)
  BY UnderLease DEF PlanInv
<1>1. ASSUME UNCHANGED <<sync, rows>> PROVE PlanFits(s)' BY <1>0, <1>1, PlanLeft
<1>2. CASE Connecting BY <1>1, <1>2 DEF Connecting, syncState
<1>3. CASE Disconnecting BY <1>1, <1>3 DEF Disconnecting, syncState
<1>4. ASSUME NEW t \in Syncs,
             SyncStep(t) \/ SyncTrouble(t) \/ \E u \in Users : ReadAccount(t, u)
      PROVE  PlanFits(s)'
  <2>1. CASE t = s BY <1>0, <1>4, <2>1, OwnPlan
  <2>2. CASE t # s
    <3>1. sync'[s] = sync[s] BY <1>4, <2>2, SyncKeeps DEF KeepsSyncs
    <3>2. CASE sync[s].pc \notin {"insert", "apply"} BY <3>1, <3>2 DEF PlanFits
    <3>3. CASE sync[s].pc \in {"insert", "apply"} /\ UNCHANGED rows
      BY <1>0, <3>1, <3>3, PlanLeft
    <3>4. CASE sync[s].pc \in {"insert", "apply"} /\ ~UNCHANGED rows
      <4>1. sync[t].pc \in {"insert", "apply"} /\ sync[t].user \in Users
        <5>1. InsertPlanned(t) \/ UpdatePlanned(t) \/ WithdrawPlanned(t)
          BY <1>4, <3>4 DEF SyncStep, SyncTrouble, ReadAccount, AcquireLease, OpenBundle,
             Refresh, Persist, CheckIdentity, FetchUsage, KeepSnapshot, PlanRows, PeriodDone,
             Finish, ReleaseLease, CallFails, RefreshUnanswered, SyncAborted, FetchRefused,
             AnswerGarbled, RefreshRefused, evidence
        <5>. QED BY <5>1, SyncTypes DEF InsertPlanned, UpdatePlanned, WithdrawPlanned, SyncAt
      <4>2. sync[s].user \in Users /\ sync[s].user # sync[t].user
        <5>1. sync[s].user = sync[t].user =>
                Holds(s, sync[s].user) /\ Holds(t, sync[s].user)
          BY <3>4, <4>1 DEF Holds
        <5>. QED BY <1>0, <2>2, <5>1, Exclusive
      <4>3. PICK updated : Writes(t, updated)
        BY <1>4, <3>4 DEF SyncStep, SyncTrouble, ReadAccount, AcquireLease, OpenBundle,
           Refresh, Persist, CheckIdentity, FetchUsage, KeepSnapshot, PlanRows, PeriodDone,
           Finish, ReleaseLease, CallFails, RefreshUnanswered, SyncAborted, FetchRefused,
           AnswerGarbled, RefreshRefused, evidence, InsertPlanned, UpdatePlanned, WithdrawPlanned
      <4>4. rows'[sync[s].user] = rows[sync[s].user]
        BY <4>1, <4>2, <4>3, SyncTypes DEF Writes, SyncTypeOK
      <4>. QED BY <1>0, <3>1, <4>4, PlanLeft
    <3>. QED BY <3>2, <3>3, <3>4
  <2>. QED BY <2>1, <2>2
<1>5. CASE Syncing BY <1>1, <1>4, <1>5 DEF Syncing, LeaseExpires, evidence
<1>6. CASE Github BY <1>1, <1>6 DEF Github, UsageMoves, evidence, syncState
<1>7. CASE UNCHANGED vars BY <1>1, <1>7 DEF vars
<1>. QED BY <1>2, <1>3, <1>5, <1>6, <1>7 DEF Next

(* Whatever an earlier sync left half written, the rows of a period that   *)
(* is done say what GitHub answered, where no lease ran out under a sync   *)
(* (normalize.ts 155-180).                                                 *)
THEOREM DonePeriodsAgree == Spec => []PeriodBroughtUpToDate
<1>1. Init => PlanInv BY DEF Init, SyncInit, IdleSync, PlanInv, PlanFits
<1>2. Typed /\ LeaseInv /\ PlanInv /\ [Next]_vars => PlanInv' BY PlansStay
<1>3. Typed /\ PlanInv => PeriodBroughtUpToDate
  <2>. SUFFICES ASSUME Typed, PlanInv, NEW s \in Syncs, SyncAt(s, "apply"),
                       overruns[sync[s].user] = 0, sync[s].plan.updates = {}, sync[s].plan.withdrawals = {}
                PROVE  Agrees(Stored(s), sync[s].answer)
    BY DEF PeriodBroughtUpToDate
  <2>1. \A i \in Items : AgreesAt(Stored(s)[i], sync[s].answer[i])
    BY DEF PlanInv, PlanFits, SyncAt
  <2>. QED BY <2>1 DEF Agrees, AgreesAt, Listed
<1>. QED BY <1>1, <1>2, <1>3, AlwaysTyped, AlwaysLeased, PTL DEF Spec
=============================================================================
