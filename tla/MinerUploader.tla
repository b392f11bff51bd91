----------------------------- MODULE MinerUploader -----------------------------
(***************************************************************************)
(* The miner's delivery of local observations: metered tool sessions push  *)
(* what they see to USAGE, together with what an earlier attempt left in   *)
(* the buffer file; what cannot be uploaded is buffered.  The file is read *)
(* and written whole, the upload may reach the server and lose its answer, *)
(* and a session's process may die.                                        *)
(***************************************************************************)
EXTENDS Naturals, SequencesExt

CONSTANTS
  Observations,
  Sessions,       \* sessions that may run at once; all share the buffer file
  MaxBuffer,      \* BUFFER_LIMITS.maxObservations
  BatchLimit,     \* TELEMETRY_LIMITS.maxObservationsPerBatch
  MaxFaults       \* bound on the outages of USAGE and the deaths of sessions

ASSUME UploaderAssumption ==
  /\ MaxBuffer \in Nat \ {0} /\ BatchLimit \in Nat \ {0}
  /\ MaxFaults \in Nat

VARIABLES
  buffer,         \* the buffer file, oldest first
  session,        \* the local state of each session
  rows,           \* local_usage_observations: the rows of each local_event_id
  reachable,
  faults,
  seen,           \* the observations made
  old,            \* those past maxAgeMs
  excused         \* history: cut for size, refused by the server, lost in a death

vars == <<buffer, session, rows, reachable, faults, seen, old, excused>>

Session ==
  [ pc       : {"off", "idle", "send", "enqueue", "keep", "acknowledge", "remove"},
    running  : BOOLEAN,            \* the tool is
    flushing : BOOLEAN,            \* the last attempt, after the tool's exit
    backoff  : BOOLEAN,
    queue    : Seq(Observations),  \* exports whose push waits for its turn
    batch    : Seq(Observations),
    file     : Seq(Observations) ] \* the buffer as it was read

Off ==
  [pc |-> "off", running |-> FALSE, flushing |-> FALSE, backoff |-> FALSE,
   queue |-> << >>, batch |-> << >>, file |-> << >>]

Init ==
  /\ buffer = << >>
  /\ session = [s \in Sessions |-> Off]
  /\ rows = [o \in Observations |-> 0]
  /\ reachable = TRUE /\ faults = 0
  /\ seen = {} /\ old = {} /\ excused = {}

At(s, pc) == session[s].pc = pc
Become(s, state) == session' = [session EXCEPT ![s] = state]
OfSession(s) == ToSet(session[s].queue) \cup ToSet(session[s].batch)
(* The list's other items, in order. *)
Without(list, out) ==
  FoldLeft(LAMBDA rest, o : IF o \in out THEN rest ELSE Append(rest, o), << >>, list)
Fresh(list) == Without(list, old)
(* At most maxObservations; the oldest are dropped. *)
Newest(list) ==
  SubSeq(list, IF Len(list) > MaxBuffer THEN Len(list) - MaxBuffer + 1 ELSE 1, Len(list))

environment == <<rows, reachable, faults, seen, old, excused>>

-----------------------------------------------------------------------------
(* A session.                                                              *)

Start(s) ==
  /\ At(s, "off")
  /\ Become(s, [Off EXCEPT !.pc = "idle", !.running = TRUE])
  /\ UNCHANGED <<buffer, environment>>

Observe(s) ==
  /\ session[s].running
  /\ \E o \in Observations \ seen :
       /\ seen' = seen \cup {o}
       /\ Become(s, [session[s] EXCEPT !.queue = Append(@, o)])
  /\ UNCHANGED <<buffer, rows, reachable, faults, old, excused>>

ToolExits(s) ==
  /\ session[s].running
  /\ Become(s, [session[s] EXCEPT !.running = FALSE])
  /\ UNCHANGED <<buffer, environment>>

(* An attempt in the pause after a failure only buffers. *)
Attempt(s, batch, state) ==
  Become(s, [state EXCEPT !.batch = batch,
                          !.pc = IF state.backoff THEN "enqueue" ELSE "send"])

(* Pushes take turns: what waits goes first, and again what was added to   *)
(* it while it waited.                                                     *)
Push(s) ==
  /\ At(s, "idle") /\ session[s].queue # << >>
  /\ LET waiting == Fresh(buffer)
         new == Head(session[s].queue) IN
     Attempt(s, IF new \in ToSet(waiting) THEN waiting ELSE Append(waiting, new),
             [session[s] EXCEPT !.queue = Tail(@)])
  /\ UNCHANGED <<buffer, environment>>

(* What the tool still exports while end() flushes is not modelled: its    *)
(* push works on the file beside the flush, as a second session would.     *)
Flush(s) ==
  /\ At(s, "idle") /\ ~session[s].running /\ session[s].queue = << >>
  /\ ~session[s].flushing
  /\ IF Fresh(buffer) = << >>
     THEN Become(s, Off)
     ELSE Attempt(s, Fresh(buffer), [session[s] EXCEPT !.flushing = TRUE])
  /\ UNCHANGED <<buffer, environment>>

Attempted(s) ==
  IF session[s].flushing THEN Off
  ELSE [session[s] EXCEPT !.pc = "idle", !.batch = << >>, !.file = << >>]

-----------------------------------------------------------------------------
(* The server's side of an upload: a batch over its limit is refused       *)
(* whole; of another each item is stored, found to be stored, or refused.  *)

(* (Mutant: the key of device and event is not unique.)                    *)
StoreAgain(items) ==
  rows' = [o \in Observations |-> IF o \in items THEN rows[o] + 1 ELSE rows[o]]

Store(items) ==
  rows' = [o \in Observations |-> IF o \in items /\ rows[o] = 0 THEN 1 ELSE rows[o]]

Answered(s) ==
  /\ At(s, "send") /\ reachable /\ Len(session[s].batch) <= BatchLimit
  /\ \E refused \in SUBSET ToSet(session[s].batch) :
       /\ Store(ToSet(session[s].batch) \ refused)
       /\ excused' = excused \cup refused
  /\ Become(s, [session[s] EXCEPT !.pc = "acknowledge", !.backoff = FALSE])
  /\ UNCHANGED <<buffer, reachable, faults, seen, old>>

Failed(s) == Become(s, [session[s] EXCEPT !.pc = "enqueue", !.backoff = TRUE])

Refused(s) ==
  /\ At(s, "send") /\ reachable /\ Len(session[s].batch) > BatchLimit
  /\ Failed(s)
  /\ UNCHANGED <<buffer, environment>>

(* USAGE is not reached, or its answer does not arrive: what it had stored *)
(* by then stays.                                                          *)
Unanswered(s) ==
  /\ At(s, "send") /\ ~reachable
  /\ \/ UNCHANGED rows
     \/ /\ Len(session[s].batch) <= BatchLimit
        /\ \E n \in 1..Len(session[s].batch) : Store(ToSet(SubSeq(session[s].batch, 1, n)))
  /\ Failed(s)
  /\ UNCHANGED <<buffer, reachable, faults, seen, old, excused>>

-----------------------------------------------------------------------------
(* The buffer file.                                                        *)

(* (Mutant: what meets the pause is not buffered.)                         *)
ForgetInPause(s) ==
  /\ At(s, "enqueue")
  /\ Become(s, IF session[s].backoff THEN Attempted(s)
               ELSE [session[s] EXCEPT !.pc = "keep", !.file = buffer])
  /\ UNCHANGED <<buffer, environment>>

(* enqueue reads the file, ... *)
Enqueue(s) ==
  /\ At(s, "enqueue")
  /\ Become(s, [session[s] EXCEPT !.pc = "keep", !.file = buffer])
  /\ UNCHANGED <<buffer, environment>>

(* ... and writes it with the whole batch behind, the newest only.         *)
Keep(s) ==
  LET merged == Fresh(session[s].file \o session[s].batch) IN
  /\ At(s, "keep")
  /\ buffer' = Newest(merged)
  /\ excused' = excused \cup (ToSet(merged) \ ToSet(Newest(merged)))
  /\ Become(s, Attempted(s))
  /\ UNCHANGED <<rows, reachable, faults, seen, old>>

Acknowledge(s) ==
  /\ At(s, "acknowledge")
  /\ Become(s, [session[s] EXCEPT !.pc = "remove", !.file = buffer])
  /\ UNCHANGED <<buffer, environment>>

WriteRest(s) ==
  /\ At(s, "remove")
  /\ buffer' = Without(session[s].file, ToSet(session[s].batch))
  /\ Become(s, Attempted(s))
  /\ UNCHANGED environment

-----------------------------------------------------------------------------
(* The rest of the world.                                                  *)

PauseEnds(s) ==
  /\ session[s].backoff /\ session[s].pc = "idle"
  /\ Become(s, [session[s] EXCEPT !.backoff = FALSE])
  /\ UNCHANGED <<buffer, environment>>

(* The file is written in place: a death in the middle leaves one that is  *)
(* read as empty.                                                          *)
Dies(s) ==
  /\ ~At(s, "off") /\ faults < MaxFaults
  /\ faults' = faults + 1
  /\ buffer' \in {buffer} \cup (IF At(s, "keep") \/ At(s, "remove") THEN {<< >>} ELSE {})
  /\ excused' = excused \cup ((OfSession(s) \cup ToSet(buffer)) \ ToSet(buffer'))
  /\ Become(s, Off)
  /\ UNCHANGED <<rows, reachable, seen, old>>

Outage ==
  /\ reachable /\ faults < MaxFaults
  /\ reachable' = FALSE /\ faults' = faults + 1
  /\ UNCHANGED <<buffer, session, rows, seen, old, excused>>

Recovery ==
  /\ ~reachable /\ reachable' = TRUE
  /\ UNCHANGED <<buffer, session, rows, faults, seen, old, excused>>

Age(o) ==
  /\ o \in seen \ old
  /\ old' = old \cup {o}
  /\ UNCHANGED <<buffer, session, rows, reachable, faults, seen, excused>>

Work(s) ==
  \/ Push(s) \/ Flush(s) \/ Answered(s) \/ Refused(s) \/ Unanswered(s)
  \/ Enqueue(s) \/ Keep(s) \/ Acknowledge(s) \/ WriteRest(s)

Next ==
  \/ \E s \in Sessions : \/ Start(s) \/ Observe(s) \/ ToolExits(s) \/ Work(s)
                         \/ PauseEnds(s) \/ Dies(s)
  \/ Outage \/ Recovery
  \/ \E o \in Observations : Age(o)

Spec == Init /\ [][Next]_vars

(* A session's work goes on, pauses end, the tool is used again and again, *)
(* and USAGE comes back.                                                   *)
FairSpec ==
  /\ Spec /\ WF_vars(Recovery)
  /\ \A s \in Sessions :
       /\ WF_vars(Work(s)) /\ SF_vars(PauseEnds(s))
       /\ WF_vars(Start(s)) /\ WF_vars(ToolExits(s))

-----------------------------------------------------------------------------
InHand == ToSet(buffer) \cup UNION {OfSession(s) : s \in Sessions}

(* What one session at a time observed is stored, in the buffer or in its  *)
(* hands, unless it is too old, was cut for size, refused, or lost in the  *)
(* death of its process, in hand or in a file half written (buffer.ts      *)
(* 6-24, 39-66, uploader.ts 75-131).                                       *)
NothingLostSilently ==
  \A o \in seen : rows[o] > 0 \/ o \in InHand \cup old \cup excused

Status ==
  [o \in Observations |->
     IF rows[o] > 1 THEN "twice"
     ELSE IF rows[o] = 1 THEN "delivered"
     ELSE IF o \in InHand THEN "held"
     ELSE IF o \in seen THEN "dropped" ELSE "unseen"]

Delivery == INSTANCE ObservationDelivery WITH status <- Status

(* Through lost answers, repeated uploads and deaths an observation is     *)
(* delivered once or dropped, and what was dropped does not come back      *)
(* (uploader.ts 75-131, buffer.ts 62-86, telemetry-ingest.ts 167-174).     *)
DeliveredOnceOrDropped == Delivery!Spec

-----------------------------------------------------------------------------
(* "It fills when USAGE is unreachable, so a flaky connection does not     *)
(* silently lose a day of usage" (buffer.ts 9-10): what is buffered gets   *)
(* delivered once USAGE is reachable again, before it is too old.          *)
BufferDrains ==
  \A o \in Observations :
    o \in ToSet(buffer) ~> (rows[o] > 0 \/ o \in old \cup excused)
=============================================================================
