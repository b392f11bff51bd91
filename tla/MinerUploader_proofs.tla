------------------------- MODULE MinerUploader_proofs --------------------------
(***************************************************************************)
(* The miner's delivery, with one session at a time: nothing is lost       *)
(* silently, and ObservationDelivery is implemented.                       *)
(***************************************************************************)
EXTENDS MinerUploader, Sums, SequenceTheorems

-----------------------------------------------------------------------------
(* Lists and what they hold.                                               *)

LEMMA Holds ==
  ASSUME NEW A, NEW list \in Seq(A)
  PROVE  /\ ToSet(list) = {list[i] : i \in 1..Len(list)}
         /\ ToSet(list) \subseteq A /\ Len(list) \in Nat
         /\ list = << >> <=> ToSet(list) = {}
<1>1. DOMAIN list = 1..Len(list) /\ Len(list) \in Nat /\ list \in [1..Len(list) -> A]
  BY LenProperties
<1>2. ASSUME list # << >> PROVE ToSet(list) # {}
  <2>1. Len(list) \in Nat \ {0}
    BY <1>2, EmptySeq
  <2>2. list[1] \in ToSet(list)
    BY <1>1, <2>1 DEF ToSet
  <2>. QED  BY <2>2
<1>3. ASSUME list = << >> PROVE ToSet(list) = {}
  <2>1. Len(list) = 0
    BY <1>3, EmptySeq
  <2>. QED  BY <1>1, <2>1 DEF ToSet
<1>. QED  BY <1>1, <1>2, <1>3 DEF ToSet

LEMMA HoldsNone == ToSet(<< >>) = {}
<1>1. << >> \in Seq({})
  BY EmptySeq
<1>. QED  BY <1>1, Holds

LEMMA AppendHolds ==
  ASSUME NEW A, NEW list \in Seq(A), NEW x \in A
  PROVE  Append(list, x) \in Seq(A) /\ ToSet(Append(list, x)) = ToSet(list) \cup {x}
<1>. DEFINE n == Len(list)
            longer == Append(list, x)
<1>1. /\ longer \in Seq(A) /\ Len(longer) = n + 1 /\ n \in Nat
      /\ \A i \in 1..n : longer[i] = list[i]
      /\ longer[n + 1] = x
  <2>1. longer \in Seq(A) /\ Len(longer) = n + 1 /\ n \in Nat
    OBVIOUS
  <2>2. \A i \in 1..n : longer[i] = list[i]
    OBVIOUS
  <2>3. longer[n + 1] = x
    OBVIOUS
  <2>. QED  BY <2>1, <2>2, <2>3
<1>. HIDE DEF longer
<1>2. ToSet(longer) = {longer[i] : i \in 1..(n + 1)} /\ ToSet(list) = {list[i] : i \in 1..n}
  <2>1. ToSet(longer) = {longer[i] : i \in 1..Len(longer)} /\ ToSet(list) = {list[i] : i \in 1..n}
    BY <1>1, Holds, Zenon
  <2>. HIDE DEF n
  <2>. QED  BY <1>1, <2>1
<1>. HIDE DEF n
<1>3. 1..(n + 1) = 1..n \cup {n + 1}
  BY <1>1
<1>4. {longer[i] : i \in 1..(n + 1)} = {longer[i] : i \in 1..n} \cup {longer[n + 1]}
  BY <1>3
<1>5. {longer[i] : i \in 1..n} = {list[i] : i \in 1..n}
  BY <1>1
<1>. QED  BY <1>1, <1>2, <1>4, <1>5 DEF longer

LEMMA ConcatHolds ==
  ASSUME NEW A, NEW list \in Seq(A), NEW more \in Seq(A)
  PROVE  list \o more \in Seq(A) /\ ToSet(list \o more) = ToSet(list) \cup ToSet(more)
<1>. DEFINE n == Len(list)
            m == Len(more)
            both == list \o more
<1>1. /\ both \in Seq(A) /\ Len(both) = n + m /\ n \in Nat /\ m \in Nat
      /\ \A i \in 1..(n + m) : both[i] = IF i <= n THEN list[i] ELSE more[i - n]
  <2>1. both \in Seq(A) /\ Len(both) = n + m /\ n \in Nat /\ m \in Nat
    OBVIOUS
  <2>2. \A i \in 1..(n + m) : both[i] = IF i <= n THEN list[i] ELSE more[i - n]
    OBVIOUS
  <2>. QED  BY <2>1, <2>2
<1>. HIDE DEF both
<1>2. /\ ToSet(both) = {both[i] : i \in 1..(n + m)}
      /\ ToSet(list) = {list[i] : i \in 1..n} /\ ToSet(more) = {more[i] : i \in 1..m}
  <2>1. /\ ToSet(both) = {both[i] : i \in 1..Len(both)}
        /\ ToSet(list) = {list[i] : i \in 1..n} /\ ToSet(more) = {more[i] : i \in 1..m}
    BY <1>1, Holds, Zenon
  <2>. HIDE DEF n, m
  <2>. QED  BY <1>1, <2>1
<1>. HIDE DEF n, m
<1>3. ASSUME NEW i \in 1..(n + m) PROVE both[i] \in ToSet(list) \cup ToSet(more)
  <2>1. CASE i <= n
    <3>1. i \in 1..n
      BY <1>1, <2>1
    <3>. QED  BY <1>1, <1>2, <2>1, <3>1
  <2>2. CASE ~(i <= n)
    <3>1. i - n \in 1..m
      BY <1>1, <2>2
    <3>. QED  BY <1>1, <1>2, <2>2, <3>1
  <2>. QED  BY <2>1, <2>2
<1>4. ASSUME NEW i \in 1..n PROVE list[i] \in ToSet(both)
  <2>1. i \in 1..(n + m) /\ i <= n
    BY <1>1
  <2>. QED  BY <1>1, <1>2, <2>1
<1>5. ASSUME NEW i \in 1..m PROVE more[i] \in ToSet(both)
  <2>1. n + i \in 1..(n + m) /\ ~(n + i <= n) /\ (n + i) - n = i
    BY <1>1
  <2>. QED  BY <1>1, <1>2, <2>1
<1>6. ToSet(both) = ToSet(list) \cup ToSet(more)
  BY <1>2, <1>3, <1>4, <1>5
<1>. QED  BY <1>1, <1>6 DEF both

LEMMA TailHolds ==
  ASSUME NEW A, NEW list \in Seq(A), list # << >>
  PROVE  /\ Head(list) \in A /\ Tail(list) \in Seq(A)
         /\ ToSet(list) = {Head(list)} \cup ToSet(Tail(list))
<1>. DEFINE n == Len(list)
            rest == Tail(list)
<1>1. /\ Head(list) \in A /\ rest \in Seq(A) /\ Len(rest) = n - 1 /\ n \in Nat \ {0}
      /\ \A i \in 1..(n - 1) : rest[i] = list[i + 1]
  <2>1. n \in Nat \ {0}
    BY EmptySeq
  <2>2. /\ Head(list) \in A /\ rest \in Seq(A) /\ Len(rest) = n - 1
        /\ \A i \in 1..Len(rest) : rest[i] = list[i + 1]
    <3>1. Head(list) \in A /\ rest \in Seq(A)
      OBVIOUS
    <3>2. Len(rest) = n - 1
      OBVIOUS
    <3>3. \A i \in 1..Len(rest) : rest[i] = list[i + 1]
      OBVIOUS
    <3>. QED  BY <3>1, <3>2, <3>3
  <2>. HIDE DEF n, rest
  <2>. QED  BY <2>1, <2>2
<1>2. ToSet(rest) = {rest[i] : i \in 1..(n - 1)} /\ ToSet(list) = {list[i] : i \in 1..n}
  <2>. HIDE DEF rest
  <2>1. ToSet(rest) = {rest[i] : i \in 1..Len(rest)} /\ ToSet(list) = {list[i] : i \in 1..n}
    BY <1>1, Holds, Zenon
  <2>. HIDE DEF n
  <2>. QED  BY <1>1, <2>1
<1>3. Head(list) = list[1]
  OBVIOUS
<1>. HIDE DEF n, rest
<1>4. ASSUME NEW i \in 1..n PROVE list[i] \in {list[1]} \cup ToSet(rest)
  <2>1. CASE i # 1
    <3>1. i - 1 \in 1..(n - 1) /\ (i - 1) + 1 = i
      BY <1>1, <2>1
    <3>. QED  BY <1>1, <1>2, <3>1
  <2>. QED  BY <2>1
<1>5. ASSUME NEW i \in 1..(n - 1) PROVE rest[i] \in ToSet(list)
  <2>1. i + 1 \in 1..n
    BY <1>1
  <2>. QED  BY <1>1, <1>2, <2>1
<1>6. list[1] \in ToSet(list)
  <2>1. 1 \in 1..n
    BY <1>1
  <2>. QED  BY <1>2, <2>1
<1>. QED  BY <1>1, <1>2, <1>3, <1>4, <1>5, <1>6 DEF rest

(* A part of a list holds part of it. *)
LEMMA PartHolds ==
  ASSUME NEW A, NEW list \in Seq(A), NEW m \in Nat \ {0}, NEW n \in Nat, n <= Len(list)
  PROVE  SubSeq(list, m, n) \in Seq(A) /\ ToSet(SubSeq(list, m, n)) \subseteq ToSet(list)
<1>. DEFINE part == SubSeq(list, m, n)
<1>1. Len(list) \in Nat /\ \A i \in 1..Len(list) : list[i] \in A
  BY LenProperties
<1>2. \A i \in m..n : i \in 1..Len(list)
  BY <1>1
<1>3. /\ part \in Seq(A)
      /\ Len(part) = IF m <= n THEN n - m + 1 ELSE 0
      /\ \A i \in 1..(n - m + 1) : part[i] = list[m + i - 1]
  <2>1. \A i \in m..n : list[i] \in A
    BY <1>1, <1>2
  <2>2. m \in Int /\ n \in Int
    OBVIOUS
  <2>. QED  BY <2>1, <2>2, SubSeqProperties
<1>4. /\ ToSet(part) = {part[i] : i \in 1..Len(part)}
      /\ ToSet(list) = {list[i] : i \in 1..Len(list)}
  BY <1>3, Holds
<1>5. ASSUME NEW i \in 1..Len(part) PROVE part[i] \in ToSet(list)
  <2>1. i \in 1..(n - m + 1) /\ m + i - 1 \in m..n
    BY <1>3
  <2>. QED  BY <1>2, <1>3, <1>4, <2>1
<1>. QED  BY <1>3, <1>4, <1>5

LEMMA NewestHolds ==
  ASSUME NEW A, NEW list \in Seq(A)
  PROVE  Newest(list) \in Seq(A) /\ ToSet(Newest(list)) \subseteq ToSet(list)
<1>. DEFINE m == IF Len(list) > MaxBuffer THEN Len(list) - MaxBuffer + 1 ELSE 1
<1>1. Len(list) \in Nat /\ m \in Nat \ {0} /\ Len(list) <= Len(list)
  BY LenProperties, UploaderAssumption
<1>. HIDE DEF m
<1>2. Newest(list) = SubSeq(list, m, Len(list))
  BY DEF Newest, m
<1>. QED  BY <1>1, <1>2, PartHolds

(* The fold that filters a list leaves its other items.                    *)
LEMMA WithoutHolds ==
  ASSUME NEW A, NEW list \in Seq(A), NEW out
  PROVE  /\ Without(list, out) \in Seq(A)
         /\ ToSet(Without(list, out)) = ToSet(list) \ out
<1>. DEFINE S == DOMAIN list
            n == Len(list)
            Kept(i, rest) == IF list[i] \in out THEN rest ELSE Append(rest, list[i])
            Raw(g) == g = [s \in SUBSET S |->
                             IF s = {} THEN << >> ELSE Kept(Max(s), g[s \ {Max(s)}])]
<1>1. Without(list, out) = (CHOOSE g : Raw(g))[S]
  BY Zenon DEF Without, FoldLeft, MapThenFoldSet
<1>2. n \in Nat /\ S = 1..n /\ IsFiniteSet(S) /\ \A i \in S : list[i] \in A
  BY LenProperties, FS_Interval
<1>3. \A i \in S : \A rest \in Seq(A) : Kept(i, rest) \in Seq(A)
  BY <1>2, AppendProperties
<1>4. \E g : Raw(g)
  <2>. PICK pick : pick = [s \in SUBSET S |-> Max(s)]
    OBVIOUS
  <2>. PICK op : op = [i \in S |-> [rest \in Seq(A) |-> Kept(i, rest)]]
    OBVIOUS
  <2>1. \A s \in SUBSET S : s # {} => Max(s) \in s
    <3>. SUFFICES ASSUME NEW s \in SUBSET S, s # {} PROVE Max(s) \in s
      OBVIOUS
    <3>1. s \in SUBSET Nat /\ IsFiniteSet(s)
      BY <1>2, FS_Subset
    <3>. QED  BY <3>1, MaxIs
  <2>2. Picks(pick, S)
    BY <2>1 DEF Picks
  <2>3. \A i \in S : \A rest \in Seq(A) : op[i][rest] = Kept(i, rest)
    OBVIOUS
  <2>4. Closed(op, S, Seq(A))
    BY <1>3, <2>3 DEF Closed
  <2>5. << >> \in Seq(A)
    BY EmptySeq
  <2>6. PICK h : h \in [SUBSET S -> Seq(A)] /\ Folds(h, pick, op, << >>, S)
    BY <1>2, <2>2, <2>4, <2>5, FoldExists, Zenon
  <2>. HIDE DEF Kept
  <2>7. ASSUME NEW s \in SUBSET S
        PROVE  h[s] = IF s = {} THEN << >> ELSE Kept(Max(s), h[s \ {Max(s)}])
    <3>1. h[s] = FoldStep(pick, op, << >>, h, s)
      BY <2>6 DEF Folds
    <3>2. CASE s # {}
      <4>1. Max(s) \in S /\ s \ {Max(s)} \in SUBSET S /\ pick[s] = Max(s)
        BY <2>1, <3>2
      <4>2. h[s \ {Max(s)}] \in Seq(A)
        BY <2>6, <4>1
      <4>. QED  BY <2>3, <3>1, <3>2, <4>1, <4>2 DEF FoldStep
    <3>. QED  BY <3>1, <3>2 DEF FoldStep
  <2>8. Raw(h)
    BY <2>6, <2>7
  <2>. QED  BY <2>8
<1>5. PICK g : Raw(g) /\ Without(list, out) = g[S]
  <2>. HIDE DEF Raw
  <2>. QED  BY <1>1, <1>4, Zenon
<1>. DEFINE Right(k) == g[1..k] \in Seq(A) /\ ToSet(g[1..k]) = {list[i] : i \in 1..k} \ out
            P == {k \in Nat : k <= n => Right(k)}
<1>6. 0 \in P
  <2>1. 1..0 = {} /\ {} \in SUBSET S /\ << >> \in Seq(A)
    BY EmptySeq
  <2>2. g[1..0] = << >>
    BY <1>5, <2>1
  <2>. QED  BY <2>1, <2>2, HoldsNone
<1>7. ASSUME NEW k \in P PROVE k + 1 \in P
  <2>. SUFFICES ASSUME k + 1 <= n PROVE Right(k + 1)
    OBVIOUS
  <2>1. k \in Nat /\ k <= n /\ Right(k)
    BY <1>2
  <2>. DEFINE s == 1..(k + 1)
  <2>2. s \in SUBSET S /\ s # {} /\ s \ {k + 1} = 1..k /\ k + 1 \in S
    <3>. HIDE DEF n, S
    <3>1. k + 1 \in s /\ k + 1 \in 1..n /\ \A i \in s : i \in 1..n
      BY <1>2, <2>1
    <3>2. s \ {k + 1} = 1..k
      BY <2>1
    <3>. QED  BY <1>2, <3>1, <3>2
  <2>3. Max(s) = k + 1
    <3>0. s \in SUBSET Nat /\ k + 1 \in s
      BY <2>1
    <3>1. IsFiniteSet(s)
      <4>. HIDE DEF s, n, S
      <4>. QED  BY <1>2, <2>2, FS_Subset
    <3>2. Max(s) \in s /\ \A x \in s : x <= Max(s)
      BY <2>2, <3>0, <3>1, MaxIs
    <3>. QED  BY <2>1, <3>2
  <2>4. g[s] = Kept(k + 1, g[1..k])
    <3>. HIDE DEF s, Kept
    <3>. QED  BY <1>5, <2>2, <2>3
  <2>5. {list[i] : i \in s} = {list[i] : i \in 1..k} \cup {list[k + 1]}
    <3>1. s = 1..k \cup {k + 1}
      BY <2>1
    <3>. HIDE DEF s
    <3>. QED  BY <3>1
  <2>6. list[k + 1] \in A
    BY <1>2, <2>2
  <2>. HIDE DEF s
  <2>7. CASE list[k + 1] \in out
    BY <2>1, <2>4, <2>5, <2>7 DEF s
  <2>8. CASE list[k + 1] \notin out
    <3>1. /\ g[s] = Append(g[1..k], list[k + 1]) /\ g[s] \in Seq(A)
          /\ ToSet(g[s]) = ToSet(g[1..k]) \cup {list[k + 1]}
      BY <2>1, <2>4, <2>6, <2>8, AppendHolds
    <3>. QED  BY <2>1, <2>5, <2>8, <3>1 DEF s
  <2>. QED  BY <2>7, <2>8
<1>8. n \in P
  <2>. HIDE DEF P
  <2>1. P \in SUBSET Nat
    BY DEF P
  <2>2. P = Nat
    BY <1>6, <1>7, <2>1, NatInductionSet
  <2>. QED  BY <1>2, <2>2
<1>9. Right(n)
  BY <1>2, <1>8
<1>10. ToSet(list) = {list[i] : i \in 1..n}
  BY Holds
<1>. QED  BY <1>2, <1>5, <1>9, <1>10
-----------------------------------------------------------------------------
(* The invariant.                                                          *)

OneSession == \A s, t \in Sessions : s = t

(* What a session has, and what it may lose: the file it read is still the *)
(* file, as no one else writes it, and what it is to remove was stored or  *)
(* refused.                                                                *)
Sound(st, buf, stored, gone) ==
  /\ st.pc = "off" => st = Off
  /\ st.pc = "idle" => st.batch = << >>
  /\ st.flushing => st.queue = << >> /\ ~st.running
  /\ st.pc \in {"keep", "remove"} => st.file = buf
  /\ st.pc \in {"acknowledge", "remove"} =>
       \A o \in ToSet(st.batch) : stored[o] > 0 \/ o \in gone

UploaderInv ==
  /\ buffer \in Seq(Observations) /\ session \in [Sessions -> Session]
  /\ rows \in [Observations -> {0, 1}] /\ seen \subseteq Observations
  /\ \A s \in Sessions : Sound(session[s], buffer, rows, excused)
  /\ InHand \subseteq seen /\ \A o \in Observations : rows[o] = 1 => o \in seen
  /\ NothingLostSilently

Hand(st, buf) == ToSet(buf) \cup ToSet(st.queue) \cup ToSet(st.batch)

LEMMA HandsAre ==
  ASSUME OneSession, NEW s \in Sessions
  PROVE  InHand = Hand(session[s], buffer) /\ InHand' = Hand(session'[s], buffer')
<1>1. \A t \in Sessions : t = s
  BY DEF OneSession
<1>2. UNION {OfSession(t) : t \in Sessions} = OfSession(s)
  BY <1>1
<1>3. UNION {OfSession(t)' : t \in Sessions} = OfSession(s)'
  BY <1>1
<1>. QED  BY <1>2, <1>3 DEF InHand, Hand, OfSession

LEMMA OffType == Off \in Session /\ Hand(Off, << >>) = {}
<1>1. << >> \in Seq(Observations)
  BY EmptySeq
<1>. QED  BY <1>1, HoldsNone DEF Off, Session, Hand

(* A step of a session that stores nothing keeps the invariant when what   *)
(* leaves the file and the session's hands is stored, too old or excused.  *)
LEMMA SessionStep ==
  ASSUME OneSession, UploaderInv, NEW s \in Sessions,
         NEW st \in Session, session' = [session EXCEPT ![s] = st],
         buffer' \in Seq(Observations), UNCHANGED <<rows, seen, old>>, excused \subseteq excused',
         Sound(st, buffer', rows, excused'),
         Hand(st, buffer') \subseteq Hand(session[s], buffer),
         \A o \in Hand(session[s], buffer) \ Hand(st, buffer') :
           rows[o] > 0 \/ o \in old \cup excused'
  PROVE  UploaderInv' /\ InHand' \subseteq InHand
<1>1. session' \in [Sessions -> Session] /\ session'[s] = st /\ \A t \in Sessions : t = s
  BY DEF UploaderInv, OneSession
<1>2. InHand = Hand(session[s], buffer) /\ InHand' = Hand(st, buffer')
  BY <1>1, HandsAre
<1>3. \A t \in Sessions : Sound(session[t], buffer, rows, excused)'
  BY <1>1
<1>4. NothingLostSilently'
  <2>. SUFFICES ASSUME NEW o \in seen PROVE rows[o] > 0 \/ o \in InHand' \cup old \cup excused'
    BY DEF NothingLostSilently
  <2>1. rows[o] > 0 \/ o \in InHand \cup old \cup excused
    BY DEF UploaderInv, NothingLostSilently
  <2>. QED  BY <1>2, <2>1
<1>. QED  BY <1>1, <1>2, <1>3, <1>4 DEF UploaderInv

-----------------------------------------------------------------------------
(* The steps that store nothing.                                           *)

LEMMA SessionType ==
  ASSUME UploaderInv, NEW s \in Sessions
  PROVE  /\ session[s] \in Session /\ Sound(session[s], buffer, rows, excused)
         /\ session[s].queue \in Seq(Observations) /\ session[s].batch \in Seq(Observations)
         /\ session[s].file \in Seq(Observations) /\ buffer \in Seq(Observations)
         /\ session = [session EXCEPT ![s] = session[s]]
BY DEF UploaderInv, Session

LEMMA StartKeeps ==
  ASSUME OneSession, UploaderInv, NEW s \in Sessions, Start(s)
  PROVE  UploaderInv' /\ InHand' \subseteq InHand
<1>. DEFINE st == [Off EXCEPT !.pc = "idle", !.running = TRUE]
<1>1. /\ session[s] = Off /\ session' = [session EXCEPT ![s] = st]
      /\ UNCHANGED <<buffer, rows, seen, old, excused>>
  BY SessionType DEF Start, At, Become, Sound, environment
<1>2. /\ st \in Session /\ st.queue = Off.queue /\ st.batch = Off.batch /\ st.pc = "idle"
      /\ st.batch = << >> /\ ~st.flushing
  BY OffType DEF Off, Session
<1>. HIDE DEF st
<1>3. Hand(st, buffer') = Hand(session[s], buffer)
  BY <1>1, <1>2 DEF Hand
<1>4. Sound(st, buffer', rows, excused')
  BY <1>2 DEF Sound
<1>. QED  BY <1>1, <1>2, <1>3, <1>4, SessionType, SessionStep

(* A change of a flag. *)
LEMMA FlagStep ==
  ASSUME OneSession, UploaderInv, NEW s \in Sessions, session[s].pc # "off",
         NEW running \in BOOLEAN, NEW backoff \in BOOLEAN, running => session[s].running,
         session' = [session EXCEPT ![s] = [session[s] EXCEPT !.running = running,
                                                             !.backoff = backoff]],
         UNCHANGED <<buffer, rows, seen, old, excused>>
  PROVE  UploaderInv' /\ InHand' \subseteq InHand
<1>. DEFINE st == [session[s] EXCEPT !.running = running, !.backoff = backoff]
<1>1. /\ st \in Session /\ st.pc = session[s].pc /\ st.queue = session[s].queue
      /\ st.batch = session[s].batch /\ st.file = session[s].file
      /\ st.flushing = session[s].flushing /\ st.running = running
  BY SessionType DEF Session
<1>2. session' = [session EXCEPT ![s] = st]
  OBVIOUS
<1>. HIDE DEF st
<1>3. Hand(st, buffer') = Hand(session[s], buffer)
  BY <1>1 DEF Hand
<1>4. Sound(st, buffer', rows, excused')
  BY <1>1, SessionType DEF Sound
<1>. QED  BY <1>1, <1>2, <1>3, <1>4, SessionType, SessionStep

LEMMA FlagKeeps ==
  ASSUME OneSession, UploaderInv, NEW s \in Sessions, ToolExits(s) \/ PauseEnds(s)
  PROVE  UploaderInv' /\ InHand' \subseteq InHand
<1>1. session[s].running \in BOOLEAN /\ session[s].backoff \in BOOLEAN
  BY SessionType DEF Session
<1>2. session[s].pc # "off" /\ UNCHANGED <<buffer, rows, seen, old, excused>>
  BY SessionType DEF ToolExits, PauseEnds, Sound, Off, environment
<1>3. CASE ToolExits(s)
  <2>1. session' = [session EXCEPT ![s] = [session[s] EXCEPT !.running = FALSE,
                                             !.backoff = session[s].backoff]]
    BY <1>3, SessionType DEF ToolExits, Become, Session
  <2>. QED  BY <1>1, <1>2, <2>1, FlagStep
<1>4. CASE PauseEnds(s)
  <2>1. session' = [session EXCEPT ![s] = [session[s] EXCEPT !.running = session[s].running,
                                             !.backoff = FALSE]]
    BY <1>4, SessionType DEF PauseEnds, Become, Session
  <2>. QED  BY <1>1, <1>2, <2>1, FlagStep
<1>. QED  BY <1>3, <1>4

(* An attempt with some batch: nothing leaves the session's hands. *)
LEMMA AttemptKeeps ==
  ASSUME OneSession, UploaderInv, NEW s \in Sessions, session[s].pc = "idle",
         NEW batch \in Seq(Observations), NEW state \in Session,
         state.pc = "idle", state.file = session[s].file,
         state.flushing => state.queue = << >> /\ ~state.running,
         ToSet(batch) \cup ToSet(state.queue) \subseteq
           ToSet(buffer) \cup ToSet(session[s].queue),
         ToSet(session[s].queue) \subseteq ToSet(buffer) \cup ToSet(batch) \cup ToSet(state.queue),
         Attempt(s, batch, state), UNCHANGED <<buffer, rows, seen, old, excused>>
  PROVE  UploaderInv' /\ InHand' \subseteq InHand
<1>. DEFINE st == [state EXCEPT !.batch = batch,
                                !.pc = IF state.backoff THEN "enqueue" ELSE "send"]
<1>1. session' = [session EXCEPT ![s] = st]
  BY DEF Attempt, Become
<1>2. /\ st \in Session /\ st.pc \in {"enqueue", "send"} /\ st.batch = batch
      /\ st.queue = state.queue /\ st.flushing = state.flushing /\ st.running = state.running
  BY DEF Session
<1>. HIDE DEF st
<1>3. session[s].batch = << >>
  BY SessionType DEF Sound
<1>4. Hand(st, buffer') = Hand(session[s], buffer)
  BY <1>2, <1>3, HoldsNone DEF Hand
<1>5. Sound(st, buffer', rows, excused')
  BY <1>2 DEF Sound
<1>. QED  BY <1>1, <1>2, <1>4, <1>5, SessionType, SessionStep

LEMMA FreshHolds ==
  ASSUME NEW list \in Seq(Observations)
  PROVE  Fresh(list) \in Seq(Observations) /\ ToSet(Fresh(list)) = ToSet(list) \ old
BY WithoutHolds DEF Fresh

LEMMA PushKeeps ==
  ASSUME OneSession, UploaderInv, NEW s \in Sessions, Push(s)
  PROVE  UploaderInv' /\ InHand' \subseteq InHand
<1>. DEFINE waiting == Fresh(buffer)
            new == Head(session[s].queue)
            batch == IF new \in ToSet(waiting) THEN waiting ELSE Append(waiting, new)
            state == [session[s] EXCEPT !.queue = Tail(@)]
<1>1. /\ session[s].pc = "idle" /\ session[s].queue # << >> /\ Attempt(s, batch, state)
      /\ UNCHANGED <<buffer, rows, seen, old, excused>>
  BY DEF Push, At, environment
<1>2. /\ new \in Observations /\ Tail(session[s].queue) \in Seq(Observations)
      /\ ToSet(session[s].queue) = {new} \cup ToSet(Tail(session[s].queue))
  BY <1>1, SessionType, TailHolds
<1>3. waiting \in Seq(Observations) /\ ToSet(waiting) \subseteq ToSet(buffer)
  BY SessionType, FreshHolds
<1>. HIDE DEF waiting, new
<1>4. batch \in Seq(Observations) /\ ToSet(batch) = ToSet(waiting) \cup {new}
  BY <1>2, <1>3, AppendHolds
<1>5. /\ state \in Session /\ state.pc = "idle" /\ state.file = session[s].file
      /\ state.queue = Tail(session[s].queue) /\ ~state.flushing
  BY <1>1, <1>2, SessionType DEF Session, Sound
<1>. HIDE DEF batch, state
<1>6. /\ ToSet(batch) \cup ToSet(state.queue) \subseteq ToSet(buffer) \cup ToSet(session[s].queue)
      /\ ToSet(session[s].queue) \subseteq ToSet(buffer) \cup ToSet(batch) \cup ToSet(state.queue)
  BY <1>2, <1>3, <1>4, <1>5
<1>. QED  BY <1>1, <1>4, <1>5, <1>6, AttemptKeeps

LEMMA FlushKeeps ==
  ASSUME OneSession, UploaderInv, NEW s \in Sessions, Flush(s)
  PROVE  UploaderInv' /\ InHand' \subseteq InHand
<1>1. /\ session[s].pc = "idle" /\ session[s].queue = << >> /\ ~session[s].running
      /\ session[s].batch = << >>
      /\ UNCHANGED <<buffer, rows, seen, old, excused>>
  BY SessionType DEF Flush, At, environment, Sound
<1>2. CASE Fresh(buffer) = << >>
  <2>1. session' = [session EXCEPT ![s] = Off]
    BY <1>2 DEF Flush, Become
  <2>2. Hand(Off, buffer') = Hand(session[s], buffer)
    BY <1>1 DEF Hand, Off
  <2>3. Sound(Off, buffer', rows, excused')
    BY DEF Sound, Off
  <2>. QED  BY <1>1, <2>1, <2>2, <2>3, OffType, SessionType, SessionStep
<1>3. CASE Fresh(buffer) # << >>
  <2>. DEFINE state == [session[s] EXCEPT !.flushing = TRUE]
  <2>1. Attempt(s, Fresh(buffer), state)
    BY <1>3 DEF Flush
  <2>2. /\ state \in Session /\ state.pc = "idle" /\ state.file = session[s].file
        /\ state.queue = << >> /\ ~state.running
    BY <1>1, SessionType DEF Session
  <2>3. Fresh(buffer) \in Seq(Observations) /\ ToSet(Fresh(buffer)) \subseteq ToSet(buffer)
    BY SessionType, FreshHolds
  <2>. HIDE DEF state
  <2>4. /\ ToSet(Fresh(buffer)) \cup ToSet(state.queue) \subseteq
             ToSet(buffer) \cup ToSet(session[s].queue)
        /\ ToSet(session[s].queue) \subseteq
             ToSet(buffer) \cup ToSet(Fresh(buffer)) \cup ToSet(state.queue)
    BY <1>1, <2>2, <2>3
  <2>. QED  BY <1>1, <2>1, <2>2, <2>3, <2>4, AttemptKeeps
<1>. QED  BY <1>2, <1>3

(* A step on to the read or the write of the file, or back from an upload  *)
(* that failed.                                                            *)
LEMMA OnwardStep ==
  ASSUME OneSession, UploaderInv, NEW s \in Sessions,
         NEW pc \in {"enqueue", "keep", "remove"}, NEW file \in Seq(Observations),
         NEW backoff \in BOOLEAN,
         pc \in {"keep", "remove"} => file = buffer,
         pc = "remove" => session[s].pc = "acknowledge",
         session' = [session EXCEPT ![s] = [session[s] EXCEPT !.pc = pc, !.file = file,
                                                             !.backoff = backoff]],
         UNCHANGED <<buffer, rows, seen, old, excused>>
  PROVE  UploaderInv' /\ InHand' \subseteq InHand
<1>. DEFINE st == [session[s] EXCEPT !.pc = pc, !.file = file, !.backoff = backoff]
<1>1. /\ st \in Session /\ st.pc = pc /\ st.file = file /\ st.queue = session[s].queue
      /\ st.batch = session[s].batch /\ st.flushing = session[s].flushing
      /\ st.running = session[s].running
  BY SessionType DEF Session
<1>2. session' = [session EXCEPT ![s] = st]
  OBVIOUS
<1>. HIDE DEF st
<1>3. Hand(st, buffer') = Hand(session[s], buffer)
  BY <1>1 DEF Hand
<1>4. Sound(st, buffer', rows, excused')
  BY <1>1, SessionType DEF Sound
<1>. QED  BY <1>1, <1>2, <1>3, <1>4, SessionType, SessionStep

LEMMA OnwardKeeps ==
  ASSUME OneSession, UploaderInv, NEW s \in Sessions,
         \/ Refused(s) \/ Enqueue(s) \/ Acknowledge(s)
         \/ Unanswered(s) /\ UNCHANGED rows
  PROVE  UploaderInv' /\ InHand' \subseteq InHand
<1>1. /\ UNCHANGED <<buffer, rows, seen, old, excused>>
      /\ session[s].backoff \in BOOLEAN /\ TRUE \in BOOLEAN
  BY SessionType DEF Refused, Enqueue, Acknowledge, Unanswered, environment, Session
<1>2. CASE Refused(s) \/ Unanswered(s)
  <2>1. session' = [session EXCEPT ![s] = [session[s] EXCEPT !.pc = "enqueue",
                       !.file = session[s].file, !.backoff = TRUE]]
    BY <1>2, SessionType DEF Refused, Unanswered, Failed, Become, Session
  <2>. QED  BY <1>1, <2>1, SessionType, OnwardStep
<1>3. CASE Enqueue(s)
  <2>1. session' = [session EXCEPT ![s] = [session[s] EXCEPT !.pc = "keep",
                       !.file = buffer, !.backoff = session[s].backoff]]
    BY <1>3, SessionType DEF Enqueue, Become, Session
  <2>. QED  BY <1>1, <2>1, SessionType, OnwardStep
<1>4. CASE Acknowledge(s)
  <2>1. session' = [session EXCEPT ![s] = [session[s] EXCEPT !.pc = "remove",
                       !.file = buffer, !.backoff = session[s].backoff]]
    BY <1>4, SessionType DEF Acknowledge, Become, Session
  <2>2. session[s].pc = "acknowledge"
    BY <1>4 DEF Acknowledge, At
  <2>. QED  BY <1>1, <2>1, <2>2, SessionType, OnwardStep
<1>. QED  BY <1>2, <1>3, <1>4

(* What a session is left with when an attempt is over.                    *)
LEMMA AttemptedLeaves ==
  ASSUME UploaderInv, NEW s \in Sessions
  PROVE  /\ Attempted(s) \in Session
         /\ Attempted(s).queue = session[s].queue /\ Attempted(s).batch = << >>
         /\ \A buf, gone : Sound(Attempted(s), buf, rows, gone)
<1>. DEFINE st == [session[s] EXCEPT !.pc = "idle", !.batch = << >>, !.file = << >>]
<1>1. CASE session[s].flushing
  <2>1. session[s].queue = << >> /\ Attempted(s) = Off
    BY <1>1, SessionType DEF Sound, Attempted
  <2>. QED  BY <2>1, OffType DEF Off, Sound
<1>2. CASE ~session[s].flushing
  <2>1. << >> \in Seq(Observations) /\ Attempted(s) = st
    BY <1>2, EmptySeq DEF Attempted
  <2>2. /\ st \in Session /\ st.pc = "idle" /\ st.queue = session[s].queue
        /\ st.batch = << >> /\ ~st.flushing
    BY <1>2, <2>1, SessionType DEF Session
  <2>. HIDE DEF st
  <2>. QED  BY <2>1, <2>2 DEF Sound
<1>. QED  BY <1>1, <1>2

(* The batch goes behind the file; what is neither in the new file nor too *)
(* old was cut.                                                            *)
LEMMA KeepKeeps ==
  ASSUME OneSession, UploaderInv, NEW s \in Sessions, Keep(s)
  PROVE  UploaderInv' /\ InHand' \subseteq InHand
<1>. DEFINE both == session[s].file \o session[s].batch
            merged == Fresh(both)
            st == Attempted(s)
<1>1. /\ session[s].file = buffer /\ session' = [session EXCEPT ![s] = st]
      /\ buffer' = Newest(merged)
      /\ excused' = excused \cup (ToSet(merged) \ ToSet(Newest(merged)))
      /\ UNCHANGED <<rows, seen, old>>
  BY SessionType DEF Keep, At, Become, Sound
<1>2. both \in Seq(Observations) /\ ToSet(both) = ToSet(buffer) \cup ToSet(session[s].batch)
  BY <1>1, SessionType, ConcatHolds
<1>. HIDE DEF both
<1>3. merged \in Seq(Observations) /\ ToSet(merged) = ToSet(both) \ old
  BY <1>2, FreshHolds
<1>. HIDE DEF merged
<1>4. Newest(merged) \in Seq(Observations) /\ ToSet(Newest(merged)) \subseteq ToSet(merged)
  BY <1>3, NewestHolds
<1>5. /\ st \in Session /\ Sound(st, buffer', rows, excused')
      /\ st.queue = session[s].queue /\ st.batch = << >>
  BY AttemptedLeaves
<1>. HIDE DEF st
<1>6. Hand(st, buffer') \subseteq Hand(session[s], buffer)
  BY <1>1, <1>2, <1>3, <1>4, <1>5, HoldsNone DEF Hand
<1>7. \A o \in Hand(session[s], buffer) \ Hand(st, buffer') : o \in old \cup excused'
  BY <1>1, <1>2, <1>3, <1>4, <1>5 DEF Hand
<1>8. buffer' \in Seq(Observations) /\ excused \subseteq excused'
  BY <1>1, <1>4
<1>. QED  BY <1>1, <1>5, <1>6, <1>7, <1>8, SessionStep

(* What is removed from the file was stored or refused.                    *)
LEMMA WriteRestKeeps ==
  ASSUME OneSession, UploaderInv, NEW s \in Sessions, WriteRest(s)
  PROVE  UploaderInv' /\ InHand' \subseteq InHand
<1>. DEFINE st == Attempted(s)
            done == ToSet(session[s].batch)
<1>1. /\ session[s].file = buffer /\ session' = [session EXCEPT ![s] = st]
      /\ \A o \in done : rows[o] > 0 \/ o \in excused
      /\ buffer' = Without(session[s].file, done)
      /\ UNCHANGED <<rows, seen, old, excused>>
  BY SessionType DEF WriteRest, At, Become, Sound, environment
<1>2. buffer' \in Seq(Observations) /\ ToSet(buffer') = ToSet(buffer) \ done
  BY <1>1, SessionType, WithoutHolds
<1>3. /\ st \in Session /\ Sound(st, buffer', rows, excused')
      /\ st.queue = session[s].queue /\ st.batch = << >>
  BY AttemptedLeaves
<1>. HIDE DEF st
<1>4. Hand(st, buffer') \subseteq Hand(session[s], buffer)
  BY <1>2, <1>3, HoldsNone DEF Hand
<1>5. \A o \in Hand(session[s], buffer) \ Hand(st, buffer') : rows[o] > 0 \/ o \in excused'
  BY <1>1, <1>2, <1>3 DEF Hand
<1>. QED  BY <1>1, <1>2, <1>3, <1>4, <1>5, SessionStep

LEMMA DeathKeeps ==
  ASSUME OneSession, UploaderInv, NEW s \in Sessions, Dies(s)
  PROVE  UploaderInv' /\ InHand' \subseteq InHand
<1>1. /\ session' = [session EXCEPT ![s] = Off] /\ UNCHANGED <<rows, seen, old>>
      /\ buffer' = buffer \/ buffer' = << >>
      /\ excused' = excused \cup ((OfSession(s) \cup ToSet(buffer)) \ ToSet(buffer'))
  BY DEF Dies, Become
<1>2. Off.queue = << >> /\ Off.batch = << >> /\ Off \in Session
  BY OffType DEF Off
<1>5. buffer' \in Seq(Observations) /\ ToSet(buffer') \subseteq ToSet(buffer)
  BY <1>1, HoldsNone, SessionType, EmptySeq
<1>3. /\ Hand(Off, buffer') \subseteq Hand(session[s], buffer)
      /\ \A o \in Hand(session[s], buffer) \ Hand(Off, buffer') : o \in excused'
  BY <1>1, <1>2, <1>5, HoldsNone DEF Hand, OfSession
<1>4. Sound(Off, buffer', rows, excused')
  BY DEF Sound, Off
<1>. QED  BY <1>1, <1>2, <1>3, <1>4, <1>5, SessionType, SessionStep

(* The world around the sessions. *)
LEMMA WorldKeeps ==
  ASSUME UploaderInv, Outage \/ Recovery \/ \E o \in Observations : Age(o)
  PROVE  UploaderInv' /\ InHand' \subseteq InHand
<1>1. UNCHANGED <<buffer, session, rows, seen, excused>> /\ old \subseteq old'
  BY DEF Outage, Recovery, Age
<1>2. InHand' = InHand
  BY <1>1 DEF InHand, OfSession
<1>3. NothingLostSilently'
  BY <1>1, <1>2 DEF UploaderInv, NothingLostSilently
<1>. QED  BY <1>1, <1>2, <1>3 DEF UploaderInv

-----------------------------------------------------------------------------
(* The steps that store or observe.                                        *)

Storing(items) ==
  /\ items \subseteq InHand /\ Store(items)
  /\ InHand' = InHand /\ seen' = seen

(* An upload that reached the server, all of it or a first part. *)
LEMMA StoreStep ==
  ASSUME OneSession, UploaderInv, NEW s \in Sessions, session[s].pc = "send",
         NEW items \in SUBSET ToSet(session[s].batch), Store(items),
         NEW pc \in {"acknowledge", "enqueue"}, NEW backoff \in BOOLEAN,
         session' = [session EXCEPT ![s] = [session[s] EXCEPT !.pc = pc, !.backoff = backoff]],
         UNCHANGED <<buffer, seen, old>>, excused \subseteq excused',
         pc = "acknowledge" => ToSet(session[s].batch) \subseteq items \cup excused'
  PROVE  UploaderInv' /\ Storing(items)
<1>. DEFINE st == [session[s] EXCEPT !.pc = pc, !.backoff = backoff]
<1>1. /\ st \in Session /\ st.pc = pc /\ st.queue = session[s].queue
      /\ st.batch = session[s].batch /\ st.flushing = session[s].flushing
      /\ st.running = session[s].running
  BY SessionType DEF Session
<1>2. session' = [session EXCEPT ![s] = st]
  OBVIOUS
<1>. HIDE DEF st
<1>3. session' \in [Sessions -> Session] /\ session'[s] = st /\ \A t \in Sessions : t = s
  BY <1>1, <1>2 DEF UploaderInv, OneSession
<1>4. InHand' = InHand /\ ToSet(session[s].batch) \subseteq InHand
  <2>1. InHand = Hand(session[s], buffer) /\ InHand' = Hand(st, buffer)
    BY <1>3, HandsAre
  <2>. QED  BY <1>1, <2>1 DEF Hand
<1>5. rows' \in [Observations -> {0, 1}]
  BY DEF Store, UploaderInv
<1>6. \A o \in Observations : /\ rows[o] = 1 => rows'[o] = 1
                              /\ rows'[o] = 1 <=> rows[o] = 1 \/ o \in items
  BY DEF Store, UploaderInv
<1>7. InHand \subseteq seen /\ seen \subseteq Observations
  BY DEF UploaderInv
<1>8. Sound(st, buffer', rows', excused')
  <2>1. \A o \in items : rows'[o] > 0
    BY <1>4, <1>6, <1>7
  <2>. QED  BY <1>1, <2>1, SessionType DEF Sound
<1>9. \A o \in Observations : rows'[o] = 1 => o \in seen'
  BY <1>4, <1>6, <1>7 DEF UploaderInv
<1>10. NothingLostSilently'
  <2>. SUFFICES ASSUME NEW o \in seen PROVE rows'[o] > 0 \/ o \in InHand' \cup old \cup excused'
    BY DEF NothingLostSilently
  <2>1. rows[o] > 0 \/ o \in InHand \cup old \cup excused
    BY DEF UploaderInv, NothingLostSilently
  <2>2. rows[o] \in {0, 1} /\ o \in Observations
    BY <1>7 DEF UploaderInv
  <2>. QED  BY <1>4, <1>6, <2>1, <2>2
<1>11. \A t \in Sessions : Sound(session[t], buffer, rows, excused)'
  BY <1>3, <1>8
<1>. QED  BY <1>3, <1>4, <1>5, <1>7, <1>9, <1>10, <1>11 DEF UploaderInv, Storing

LEMMA AnsweredKeeps ==
  ASSUME OneSession, UploaderInv, NEW s \in Sessions, Answered(s)
  PROVE  UploaderInv' /\ \E items : Storing(items)
<1>1. PICK refused \in SUBSET ToSet(session[s].batch) :
        /\ Store(ToSet(session[s].batch) \ refused)
        /\ excused' = excused \cup refused
  BY DEF Answered
<1>2. /\ session[s].pc = "send" /\ UNCHANGED <<buffer, seen, old>>
      /\ session' = [session EXCEPT ![s] = [session[s] EXCEPT !.pc = "acknowledge",
                                                             !.backoff = FALSE]]
  BY DEF Answered, At, Become
<1>. DEFINE items == ToSet(session[s].batch) \ refused
<1>3. /\ items \in SUBSET ToSet(session[s].batch)
      /\ ToSet(session[s].batch) \subseteq items \cup excused'
  BY <1>1
<1>. HIDE DEF items
<1>4. Store(items)
  BY <1>1 DEF items
<1>. QED  BY <1>1, <1>2, <1>3, <1>4, StoreStep

LEMMA UnansweredKeeps ==
  ASSUME OneSession, UploaderInv, NEW s \in Sessions, Unanswered(s), ~UNCHANGED rows
  PROVE  UploaderInv' /\ \E items : Storing(items)
<1>1. PICK n \in 1..Len(session[s].batch) : Store(ToSet(SubSeq(session[s].batch, 1, n)))
  BY DEF Unanswered
<1>2. /\ session[s].pc = "send" /\ UNCHANGED <<buffer, seen, old, excused>>
      /\ session' = [session EXCEPT ![s] = [session[s] EXCEPT !.pc = "enqueue",
                                                             !.backoff = TRUE]]
  BY DEF Unanswered, At, Failed, Become
<1>3. ToSet(SubSeq(session[s].batch, 1, n)) \subseteq ToSet(session[s].batch)
  <2>1. session[s].batch \in Seq(Observations) /\ Len(session[s].batch) \in Nat
    BY SessionType, LenProperties
  <2>2. n \in Nat /\ n <= Len(session[s].batch) /\ 1 \in Nat \ {0}
    BY <2>1
  <2>. QED  BY <2>1, <2>2, PartHolds
<1>. DEFINE items == ToSet(SubSeq(session[s].batch, 1, n))
<1>. HIDE DEF items
<1>4. Store(items) /\ items \in SUBSET ToSet(session[s].batch)
  BY <1>1, <1>3 DEF items
<1>. QED  BY <1>2, <1>4, StoreStep

Observing(o) ==
  /\ o \notin seen /\ seen' = seen \cup {o} /\ InHand' = InHand \cup {o}
  /\ UNCHANGED rows

LEMMA ObserveKeeps ==
  ASSUME OneSession, UploaderInv, NEW s \in Sessions, Observe(s)
  PROVE  UploaderInv' /\ \E o \in Observations : Observing(o)
<1>1. PICK o \in Observations \ seen :
        /\ seen' = seen \cup {o}
        /\ session' = [session EXCEPT ![s] =
                         [session[s] EXCEPT !.queue = Append(@, o)]]
  BY DEF Observe, Become
<1>. DEFINE st == [session[s] EXCEPT !.queue = Append(@, o)]
<1>2. session[s].running /\ UNCHANGED <<buffer, rows, old, excused>>
  BY DEF Observe
<1>3. /\ Append(session[s].queue, o) \in Seq(Observations)
      /\ ToSet(Append(session[s].queue, o)) = ToSet(session[s].queue) \cup {o}
  BY SessionType, AppendHolds
<1>4. /\ st \in Session /\ st.pc = session[s].pc /\ st.queue = Append(session[s].queue, o)
      /\ st.batch = session[s].batch /\ st.flushing = session[s].flushing
      /\ st.file = session[s].file
  BY <1>3, SessionType DEF Session
<1>5. session' = [session EXCEPT ![s] = st]
  BY <1>1
<1>. HIDE DEF st
<1>6. session' \in [Sessions -> Session] /\ session'[s] = st /\ \A t \in Sessions : t = s
  BY <1>4, <1>5 DEF UploaderInv, OneSession
<1>7. InHand' = InHand \cup {o}
  <2>1. InHand = Hand(session[s], buffer) /\ InHand' = Hand(st, buffer)
    BY <1>2, <1>6, HandsAre
  <2>. QED  BY <1>3, <1>4, <2>1 DEF Hand
<1>8. Sound(st, buffer', rows', excused')
  <2>1. session[s].pc # "off" /\ ~session[s].flushing
    BY <1>2, SessionType DEF Sound, Off
  <2>. QED  BY <1>2, <1>4, <2>1, SessionType DEF Sound
<1>9. NothingLostSilently'
  BY <1>1, <1>2, <1>7 DEF UploaderInv, NothingLostSilently
<1>10. Observing(o)
  BY <1>1, <1>2, <1>7 DEF Observing
<1>11. \A t \in Sessions : Sound(session[t], buffer, rows, excused)'
  BY <1>6, <1>8
<1>. QED  BY <1>1, <1>2, <1>6, <1>7, <1>9, <1>10, <1>11 DEF UploaderInv

(* Every step keeps the invariant, and lets go, stores, or observes.       *)
Leaving == UNCHANGED <<rows, seen>> /\ InHand' \subseteq InHand

LEMMA UploaderStep ==
  ASSUME OneSession, UploaderInv, [Next]_vars
  PROVE  UploaderInv' /\ \/ Leaving
                         \/ \E items : Storing(items)
                         \/ \E o \in Observations : Observing(o)
<1>1. CASE UNCHANGED vars
  <2>1. UNCHANGED InHand
    BY <1>1 DEF vars, InHand, OfSession
  <2>2. NothingLostSilently'
    BY <1>1, <2>1 DEF vars, UploaderInv, NothingLostSilently
  <2>. QED  BY <1>1, <2>1, <2>2 DEF vars, UploaderInv, Leaving
<1>2. CASE Outage \/ Recovery \/ \E o \in Observations : Age(o)
  <2>1. UNCHANGED <<rows, seen>>
    BY <1>2 DEF Outage, Recovery, Age
  <2>. QED  BY <1>2, <2>1, WorldKeeps DEF Leaving
<1>3. ASSUME NEW s \in Sessions, Start(s) \/ ToolExits(s) \/ PauseEnds(s) \/ Dies(s)
      PROVE  UploaderInv' /\ Leaving
  <2>1. UNCHANGED <<rows, seen>>
    BY <1>3 DEF Start, ToolExits, PauseEnds, Dies, environment
  <2>. QED  BY <1>3, <2>1, StartKeeps, FlagKeeps, DeathKeeps DEF Leaving
<1>4. ASSUME NEW s \in Sessions, Push(s) \/ Flush(s) \/ Keep(s) \/ WriteRest(s)
      PROVE  UploaderInv' /\ Leaving
  <2>1. UNCHANGED <<rows, seen>>
    BY <1>4 DEF Push, Flush, Keep, WriteRest, environment
  <2>. QED  BY <1>4, <2>1, PushKeeps, FlushKeeps, KeepKeeps, WriteRestKeeps DEF Leaving
<1>5. ASSUME NEW s \in Sessions, \/ Refused(s) \/ Enqueue(s) \/ Acknowledge(s)
                                 \/ Unanswered(s) /\ UNCHANGED rows
      PROVE  UploaderInv' /\ Leaving
  <2>1. UNCHANGED <<rows, seen>>
    BY <1>5 DEF Refused, Enqueue, Acknowledge, Unanswered, environment
  <2>. QED  BY <1>5, <2>1, OnwardKeeps DEF Leaving
<1>6. ASSUME NEW s \in Sessions, Answered(s) \/ (Unanswered(s) /\ ~UNCHANGED rows)
      PROVE  UploaderInv' /\ \E items : Storing(items)
  BY <1>6, AnsweredKeeps, UnansweredKeeps
<1>7. ASSUME NEW s \in Sessions, Observe(s)
      PROVE  UploaderInv' /\ \E o \in Observations : Observing(o)
  BY <1>7, ObserveKeeps
<1>. QED  BY <1>1, <1>2, <1>3, <1>4, <1>5, <1>6, <1>7, Zenon DEF Next, Work

LEMMA UploaderInit ==
  ASSUME Init
  PROVE  UploaderInv /\ InHand = {}
<1>1. << >> \in Seq(Observations) /\ Off \in Session /\ Off.queue = << >> /\ Off.batch = << >>
  BY EmptySeq, OffType DEF Off
<1>2. InHand = {}
  BY <1>1, HoldsNone DEF Init, InHand, OfSession
<1>3. \A s \in Sessions : Sound(session[s], buffer, rows, excused)
  BY DEF Init, Sound, Off
<1>4. NothingLostSilently
  BY DEF Init, NothingLostSilently
<1>. QED  BY <1>1, <1>2, <1>3, <1>4 DEF Init, UploaderInv

LEMMA UploaderAlways ==
  ASSUME OneSession
  PROVE  Spec => []UploaderInv
<1>1. Init => UploaderInv
  BY UploaderInit
<1>2. UploaderInv /\ [Next]_vars => UploaderInv'
  BY UploaderStep
<1>. QED  BY <1>1, <1>2, PTL DEF Spec

(* With one session at a time, what was observed is stored, in the buffer  *)
(* file or in the session's hands, unless it is too old, was cut for size, *)
(* refused, or lost in the death of its process, in hand or in a file half *)
(* written (buffer.ts 6-24, 39-66, uploader.ts 75-131).                    *)
THEOREM NothingLost ==
  ASSUME OneSession
  PROVE  Spec => []NothingLostSilently
<1>1. UploaderInv => NothingLostSilently
  BY DEF UploaderInv
<1>. QED  BY <1>1, UploaderAlways, PTL

-----------------------------------------------------------------------------
(* The promise.                                                            *)

LEMMA StatusIs ==
  ASSUME UploaderInv
  PROVE  /\ Status = [o \in Observations |-> Status[o]]
         /\ \A o \in Observations :
              Status[o] = IF rows[o] = 1 THEN "delivered"
                          ELSE IF o \in InHand THEN "held"
                          ELSE IF o \in seen THEN "dropped" ELSE "unseen"
<1>1. \A o \in Observations : rows[o] \in {0, 1}
  BY DEF UploaderInv
<1>. QED  BY <1>1 DEF Status

(* The status after a step is read the same way. *)
LEMMA StatusNext ==
  ASSUME UploaderInv'
  PROVE  /\ Status' = [o \in Observations |-> Status'[o]]
         /\ \A o \in Observations :
              Status'[o] = IF rows'[o] = 1 THEN "delivered"
                           ELSE IF o \in InHand' THEN "held"
                           ELSE IF o \in seen' THEN "dropped" ELSE "unseen"
<1>1. \A o \in Observations : rows'[o] \in {0, 1}
  BY DEF UploaderInv
<1>. QED  BY <1>1 DEF Status

LEMMA Moves ==
  ASSUME UploaderInv, UploaderInv', NEW moved \in SUBSET Observations, NEW from, NEW to,
         \A o \in moved : Status[o] = from /\ Status'[o] = to,
         \A o \in Observations \ moved : Status'[o] = Status[o]
  PROVE  Delivery!Move(moved, from, to)
<1>1. Status' = [o \in Observations |-> IF o \in moved THEN to ELSE Status[o]]
  <2>1. \A o \in Observations : Status'[o] = IF o \in moved THEN to ELSE Status[o]
    OBVIOUS
  <2>. QED  BY <2>1, StatusNext
<1>. QED  BY <1>1 DEF Delivery!Move

LEMMA DeliveryStep ==
  ASSUME OneSession, UploaderInv, [Next]_vars
  PROVE  Delivery!Next
<1>1. /\ UploaderInv'
      /\ InHand \subseteq seen /\ seen \subseteq Observations
      /\ \A o \in Observations : rows[o] \in {0, 1} /\ (rows[o] = 1 => o \in seen)
  BY UploaderStep DEF UploaderInv
<1>2. CASE Leaving
  <2>. DEFINE moved == {o \in InHand \ InHand' : rows[o] = 0}
  <2>1. moved \in SUBSET Observations
    BY <1>1
  <2>2. \A o \in moved : Status[o] = "held" /\ Status'[o] = "dropped"
    BY <1>1, <1>2, StatusIs, StatusNext DEF Leaving
  <2>3. \A o \in Observations \ moved : Status'[o] = Status[o]
    BY <1>1, <1>2, StatusIs, StatusNext DEF Leaving
  <2>. HIDE DEF moved
  <2>4. Delivery!Move(moved, "held", "dropped")
    BY <1>1, <2>1, <2>2, <2>3, Moves
  <2>. QED  BY <2>1, <2>4 DEF Delivery!Next, Delivery!Drop
<1>3. ASSUME NEW items, Storing(items) PROVE Delivery!Next
  <2>. DEFINE moved == {o \in items : rows[o] = 0}
  <2>1. moved \in SUBSET Observations
    BY <1>1, <1>3 DEF Storing
  <2>2. \A o \in Observations : rows'[o] = 1 <=> rows[o] = 1 \/ o \in items
    BY <1>1, <1>3 DEF Storing, Store
  <2>3. \A o \in moved : Status[o] = "held" /\ Status'[o] = "delivered"
    BY <1>1, <1>3, <2>1, <2>2, StatusIs, StatusNext DEF Storing
  <2>4. \A o \in Observations \ moved : Status'[o] = Status[o]
    BY <1>1, <1>3, <2>2, StatusIs, StatusNext DEF Storing
  <2>. HIDE DEF moved
  <2>5. Delivery!Move(moved, "held", "delivered")
    BY <1>1, <2>1, <2>3, <2>4, Moves
  <2>. QED  BY <2>1, <2>5 DEF Delivery!Next, Delivery!Deliver
<1>4. ASSUME NEW o \in Observations, Observing(o) PROVE Delivery!Next
  <2>1. rows[o] = 0
    BY <1>1, <1>4 DEF Observing
  <2>2. \A p \in {o} : Status[p] = "unseen" /\ Status'[p] = "held"
    BY <1>1, <1>4, <2>1, StatusIs, StatusNext DEF Observing
  <2>3. \A p \in Observations \ {o} : Status'[p] = Status[p]
    BY <1>1, <1>4, StatusIs, StatusNext DEF Observing
  <2>4. Delivery!Move({o}, "unseen", "held")
    BY <1>1, <2>2, <2>3, Moves
  <2>. QED  BY <2>4 DEF Delivery!Next, Delivery!Observe
<1>. QED  BY <1>2, <1>3, <1>4, UploaderStep

(* With one session at a time, an observation is delivered once or         *)
(* dropped, and what was dropped does not come back: the uploader          *)
(* implements ObservationDelivery (uploader.ts 75-131, buffer.ts 62-86,    *)
(* telemetry-ingest.ts 167-174).                                           *)
THEOREM DeliveredOnce ==
  ASSUME OneSession
  PROVE  Spec => DeliveredOnceOrDropped
<1>1. Init => Delivery!Init
  <2>. SUFFICES ASSUME Init PROVE Delivery!Init
    OBVIOUS
  <2>1. \A o \in Observations : rows[o] = 0 /\ o \notin InHand /\ o \notin seen
    BY UploaderInit DEF Init
  <2>2. Status = [o \in Observations |-> "unseen"]
    BY <2>1, UploaderInit, StatusIs
  <2>. QED  BY <2>2 DEF Delivery!Init
<1>2. UploaderInv /\ [Next]_vars => [Delivery!Next]_Status
  BY DeliveryStep
<1>. QED  BY <1>1, <1>2, UploaderAlways, PTL DEF Spec, DeliveredOnceOrDropped, Delivery!Spec
===============================================================================
