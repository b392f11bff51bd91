---------------------------- MODULE TelemetryIngest ----------------------------
(***************************************************************************)
(* ingestLocalObservations: a paired device reports what it saw of         *)
(* requests the server may already hold a trusted event for.  An           *)
(* observation that disagrees with the trusted event holds its reward, the *)
(* one economic effect a device can have.  The look-up, the insert of the  *)
(* observation and the hold are three requests; a retried upload stops at  *)
(* the insert, whose unique key says the observation is already there.     *)
(***************************************************************************)
EXTENDS UsageTables

CONSTANTS
  Uploads,      \* concurrent upload requests
  Reported,     \* the records devices report an observation of
  Disagreeing   \* those whose observation disagrees with the trusted event

ASSUME TelemetryAssumption ==
  /\ Disagreeing \subseteq Reported
  /\ Reported \subseteq Records
  /\ Records # {}

VARIABLES
  observations, \* records with a local_usage_observations row
  upload        \* the local state of each upload: the item it is at

UploadState ==
  [ pc : {"idle", "store", "hold"}, item : Records, conflict : BOOLEAN ]

(* Between items nothing of the last one matters. *)
IsIdle(p) == upload[p].pc = "idle"
Done(p) == upload' = [upload EXCEPT ![p].pc = "idle", ![p].conflict = FALSE]

TelemetryTypeOK ==
  /\ observations \subseteq Records
  /\ upload \in [Uploads -> UploadState]

TelemetryInit ==
  /\ observations = {}
  /\ upload = [p \in Uploads |->
       [pc |-> "idle", item |-> CHOOSE r \in Records : TRUE,
        conflict |-> FALSE]]

(* The candidate is the owner's own trusted event for that request, if it  *)
(* has been ingested; what the two say is compared here.                   *)
Correlate(p) ==
  /\ IsIdle(p)
  /\ \E r \in Reported :
       upload' = [upload EXCEPT ![p] =
         [pc |-> "store", item |-> r,
          conflict |-> Stored(r) /\ r \in Disagreeing]]
  /\ UNCHANGED <<events, observations>>

(* Unique on (device, local_event_id): a second upload is a duplicate and  *)
(* goes no further.                                                        *)
StoreObservation(p) ==
  /\ upload[p].pc = "store"
  /\ observations' = observations \cup {upload[p].item}
  /\ IF upload[p].item \notin observations /\ upload[p].conflict
     THEN upload' = [upload EXCEPT ![p].pc = "hold"]
     ELSE Done(p)
  /\ UNCHANGED events

(* The hold.  The trigger refuses it on a settled row, and the error is    *)
(* not looked at.                                                          *)
HoldReward(p) ==
  LET r == upload[p].item IN
  /\ upload[p].pc = "hold"
  /\ events' = IF EventWritable(r)
               THEN [events EXCEPT ![r].dedupe = "conflict", ![r].hold = TRUE]
               ELSE events
  /\ Done(p)
  /\ UNCHANGED observations

CrashUpload(p) ==
  /\ ~IsIdle(p)
  /\ Done(p)
  /\ UNCHANGED <<events, observations>>

UploadStep(p) == Correlate(p) \/ StoreObservation(p) \/ HoldReward(p)
=============================================================================
