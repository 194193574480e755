------------------------------- MODULE IndexerDlq -------------------------------
(***************************************************************************)
(* ssi-indexer's hot path and its dead letter queue.  A consumer handles   *)
(* the messages of its Kafka partition one by one: it calls the pipeline,  *)
(* retries transient failures, commits the offset on success and otherwise *)
(* stores the message in the DLQ (MongoDB) before it commits; when the DLQ *)
(* cannot be written it pauses.  Workers - the scheduler task and the      *)
(* drains that operators start - claim rows under a lease, call the same   *)
(* pipeline and record the outcome.  Consumer and workers share a process; *)
(* the offset, the graph and the rows survive it.                          *)
(***************************************************************************)
EXTENDS Integers

CONSTANTS
  LastOffset,    \* the partition holds the messages 1..LastOffset
  Malformed,     \* JSON, but no fact or event: their handlers return at once
  Undecodable,   \* not JSON
  Worker,        \* drains in progress at once
  Null,
  RealtimeMax,   \* kafka_retry_max_attempts
  MaxAttempts,   \* dlq_scheduler_max_attempts
  MaxFault,      \* bound: crashes, outages and failed commits
  MaxOps,        \* bound: interventions of operators
  Resettable     \* the statuses operators reset rows from (by ids: any)

Offset == 1..LastOffset
FailureClass == {"transient", "permanent", "poison"}
DlqStatus == {"pending", "processing", "processed", "exhausted", "poison"}

(* locked: the lease runs; due: next_attempt_at has come. *)
DlqRow == [status : DlqStatus, attempts : Nat, locked : BOOLEAN, due : BOOLEAN]

(* The document a worker claimed, as it was then. *)
Claimed == [offset : Offset, attempts : Nat]

ASSUME ConstantsAssumption ==
  /\ LastOffset \in Nat
  /\ Malformed \subseteq Offset /\ Undecodable \subseteq Offset
  /\ RealtimeMax \in Nat \ {0} /\ MaxAttempts \in Nat \ {0}
  /\ MaxFault \in Nat /\ MaxOps \in Nat
  /\ Null \notin DlqRow

ConsumerPhase == {"handling", "applied", "failed", "quarantined", "paused"}
WorkerPhase == {"idle", "replaying", "replayed", "replayFailed"}

VARIABLES
  committed,  \* Kafka: the consumer group's offset
  indexed,    \* messages whose pipeline call completed (graph and vectors)
  rows,       \* the DLQ: the row of each offset, or Null
  dlqUp,      \* the DLQ's MongoDB answers
  cpc,        \* the consumer: its phase ...
  attempt,    \* ... its realtime attempt ...
  class,      \* ... and the class of the failure at hand
  wpc, wdoc,  \* the workers: phase and claimed document
  faults, ops \* how many faults and interventions happened

consumer == <<cpc, attempt, class>>
workers == <<wpc, wdoc>>
bounds == <<faults, ops>>
vars == <<committed, indexed, rows, dlqUp, consumer, workers, bounds>>

Init ==
  /\ committed = 0 /\ indexed = {} /\ dlqUp = TRUE
  /\ rows = [o \in Offset |-> Null]
  /\ cpc = "handling" /\ attempt = 1 /\ class = "transient"
  /\ wpc = [w \in Worker |-> "idle"] /\ wdoc = [w \in Worker |-> Null]
  /\ faults = 0 /\ ops = 0

-----------------------------------------------------------------------------
(* The consumer: process_kafka_message on the message after the offset.    *)

Current == committed + 1

(* A value that is not JSON raises outside process_kafka_message and ends  *)
(* the consumer's task; a restart meets it again.                          *)
AtWork == Current \in Offset \ Undecodable

Fault == faults < MaxFault /\ faults' = faults + 1 /\ UNCHANGED ops

(* Both the consumer and the replay call this: a message that is no fact   *)
(* is logged and left out.                                                 *)
Pipeline(o) == indexed' = indexed \cup ({o} \ Malformed)

Handle ==
  /\ AtWork /\ cpc = "handling" /\ cpc' = "applied"
  /\ Pipeline(Current)
  /\ UNCHANGED <<committed, rows, dlqUp, attempt, class, workers, bounds>>

(* Faulty variant: one attempt too many. *)
Failed_OneTooMany(c) ==
  IF c = "transient" /\ attempt <= RealtimeMax
  THEN cpc' = "handling" /\ attempt' = attempt + 1 /\ UNCHANGED class
  ELSE cpc' = "failed" /\ class' = c /\ UNCHANGED attempt

(* Transient failures are retried in place; any other, and the last one,   *)
(* goes to the DLQ.                                                        *)
Failed(c) ==
  IF c = "transient" /\ attempt < RealtimeMax
  THEN cpc' = "handling" /\ attempt' = attempt + 1 /\ UNCHANGED class
  ELSE cpc' = "failed" /\ class' = c /\ UNCHANGED attempt

HandleFails ==
  /\ AtWork /\ cpc = "handling" /\ Current \notin Malformed
  /\ \E c \in FailureClass : Failed(c)
  /\ UNCHANGED <<committed, indexed, rows, dlqUp, workers, bounds>>

Advance == committed' = committed + 1 /\ cpc' = "handling" /\ attempt' = 1 /\ UNCHANGED class

CommitApplied ==
  /\ cpc = "applied" /\ Advance
  /\ UNCHANGED <<indexed, rows, dlqUp, workers, bounds>>

(* The commit is in the same try block as the pipeline call: the message   *)
(* is retried or quarantined although it is indexed.                       *)
CommitAppliedFails ==
  /\ cpc = "applied" /\ Fault
  /\ \E c \in {"transient", "permanent"} : Failed(c)
  /\ UNCHANGED <<committed, indexed, rows, dlqUp, workers>>

NewRow ==
  [status |-> IF class = "poison" THEN "poison" ELSE "pending",
   attempts |-> 0, locked |-> FALSE, due |-> TRUE]

(* Idempotent on the Kafka coordinates: a row that exists is kept as it is. *)
InsertFailure == rows' = [rows EXCEPT ![Current] = IF @ = Null THEN NewRow ELSE @]

Quarantine ==
  /\ AtWork /\ cpc = "failed" /\ dlqUp
  /\ InsertFailure /\ cpc' = "quarantined"
  /\ UNCHANGED <<committed, indexed, dlqUp, attempt, class, workers, bounds>>

(* Faulty variant: the failure is logged and the consumer goes on. *)
QuarantineFails_Continues ==
  /\ AtWork /\ cpc = "failed" /\ ~dlqUp /\ cpc' = "quarantined"
  /\ UNCHANGED <<committed, indexed, rows, dlqUp, attempt, class, workers, bounds>>

(* The insert may have been made although nobody answered. *)
QuarantineFails ==
  /\ AtWork /\ cpc = "failed" /\ ~dlqUp /\ cpc' = "paused"
  /\ InsertFailure \/ UNCHANGED rows
  /\ UNCHANGED <<committed, indexed, dlqUp, attempt, class, workers, bounds>>

CommitQuarantined ==
  /\ cpc = "quarantined" /\ Advance
  /\ UNCHANGED <<indexed, rows, dlqUp, workers, bounds>>

CommitQuarantinedFails ==
  /\ cpc = "quarantined" /\ Fault /\ cpc' = "paused"
  /\ UNCHANGED <<committed, indexed, rows, dlqUp, attempt, class, workers>>

(* Faulty variant: a paused consumer waits for an operator. *)
Resume_OpsOnly ==
  /\ cpc = "paused" /\ cpc' = "handling" /\ attempt' = 1
  /\ ops < MaxOps /\ ops' = ops + 1
  /\ UNCHANGED <<committed, indexed, rows, dlqUp, class, workers, faults>>

(* The pause ends when the DLQ answers a ping or an operator says so; the  *)
(* message is handled from the start.                                      *)
Resume ==
  /\ cpc = "paused" /\ cpc' = "handling" /\ attempt' = 1
  /\ \/ dlqUp /\ UNCHANGED ops
     \/ ~dlqUp /\ ops < MaxOps /\ ops' = ops + 1
  /\ UNCHANGED <<committed, indexed, rows, dlqUp, class, workers, faults>>

-----------------------------------------------------------------------------
(* The workers: drain_once. *)

(* Faulty variant: a row whose worker died is not claimed again. *)
Claim_PendingOnly(w, o) ==
  /\ dlqUp /\ wpc[w] = "idle" /\ rows[o] # Null
  /\ rows[o].status = "pending" /\ rows[o].due /\ ~rows[o].locked
  /\ rows' = [rows EXCEPT ![o].status = "processing", ![o].attempts = @ + 1, ![o].locked = TRUE]
  /\ wpc' = [wpc EXCEPT ![w] = "replaying"]
  /\ wdoc' = [wdoc EXCEPT ![w] = [offset |-> o, attempts |-> rows[o].attempts + 1]]
  /\ UNCHANGED <<committed, indexed, dlqUp, consumer, bounds>>

(* claim_next: one atomic update of a due row nobody holds a lease on. *)
Claim(w, o) ==
  /\ dlqUp /\ wpc[w] = "idle" /\ rows[o] # Null
  /\ rows[o].status \in {"pending", "processing"} /\ rows[o].due /\ ~rows[o].locked
  /\ rows' = [rows EXCEPT ![o].status = "processing", ![o].attempts = @ + 1, ![o].locked = TRUE]
  /\ wpc' = [wpc EXCEPT ![w] = "replaying"]
  /\ wdoc' = [wdoc EXCEPT ![w] = [offset |-> o, attempts |-> rows[o].attempts + 1]]
  /\ UNCHANGED <<committed, indexed, dlqUp, consumer, bounds>>

Replay(w) ==
  /\ wpc[w] = "replaying"
  /\ wpc' = [wpc EXCEPT ![w] = "replayed"]
  /\ Pipeline(wdoc[w].offset)
  /\ UNCHANGED <<committed, rows, dlqUp, consumer, wdoc, bounds>>

ReplayFails(w) ==
  /\ wpc[w] = "replaying"
  /\ wpc' = [wpc EXCEPT ![w] = "replayFailed"]
  /\ UNCHANGED <<committed, indexed, rows, dlqUp, consumer, wdoc, bounds>>

Release(w) == wpc' = [wpc EXCEPT ![w] = "idle"] /\ wdoc' = [wdoc EXCEPT ![w] = Null]

(* Outcomes are written by _id: whoever holds the lease by now, whatever   *)
(* the status has become.                                                  *)
MarkProcessed(w) ==
  /\ wpc[w] = "replayed" /\ dlqUp /\ Release(w)
  /\ rows' = [rows EXCEPT ![wdoc[w].offset].status = "processed",
                          ![wdoc[w].offset].locked = FALSE]
  /\ UNCHANGED <<committed, indexed, dlqUp, consumer, bounds>>

(* An error while marking is handled like an error of the replay. *)
MarkProcessedFails(w) ==
  /\ wpc[w] = "replayed" /\ ~dlqUp
  /\ wpc' = [wpc EXCEPT ![w] = "replayFailed"]
  /\ UNCHANGED <<committed, indexed, rows, dlqUp, consumer, wdoc, bounds>>

(* The attempts are those of the claimed copy. *)
MarkRetryOrExhausted(w) ==
  /\ wpc[w] = "replayFailed" /\ dlqUp /\ Release(w)
  /\ LET o == wdoc[w].offset IN
     rows' = [rows EXCEPT
       ![o].status = IF wdoc[w].attempts >= MaxAttempts THEN "exhausted" ELSE "pending",
       ![o].due = wdoc[w].attempts >= MaxAttempts, ![o].locked = FALSE]
  /\ UNCHANGED <<committed, indexed, dlqUp, consumer, bounds>>

(* The row stays `processing` until its lease runs out. *)
MarkFails(w) ==
  /\ wpc[w] = "replayFailed" /\ ~dlqUp /\ Release(w)
  /\ UNCHANGED <<committed, indexed, rows, dlqUp, consumer, bounds>>

-----------------------------------------------------------------------------
(* Time, operators and faults. *)

(* The lease runs out, even if its worker is still at work. *)
LeaseExpires(o) ==
  /\ rows[o] # Null /\ rows[o].locked
  /\ rows' = [rows EXCEPT ![o].locked = FALSE]
  /\ UNCHANGED <<committed, indexed, dlqUp, consumer, workers, bounds>>

BecomesDue(o) ==
  /\ rows[o] # Null /\ ~rows[o].due
  /\ rows' = [rows EXCEPT ![o].due = TRUE]
  /\ UNCHANGED <<committed, indexed, dlqUp, consumer, workers, bounds>>

Operate == dlqUp /\ ops < MaxOps /\ ops' = ops + 1 /\ UNCHANGED faults

(* prepare_retry_now on the selected rows; the drain that follows is a     *)
(* worker like any other.                                                  *)
RetryNow ==
  /\ Operate
  /\ \E ids \in SUBSET Offset :
       rows' = [o \in Offset |->
         IF o \notin ids \/ rows[o] = Null THEN rows[o]
         ELSE IF rows[o].status \in {"pending", "processing"}
         THEN [rows[o] EXCEPT !.status = "pending", !.due = TRUE, !.locked = FALSE]
         ELSE IF rows[o].status = "exhausted"
         THEN [status |-> "pending", attempts |-> 0, locked |-> FALSE, due |-> TRUE]
         ELSE rows[o]]
  /\ UNCHANGED <<committed, indexed, dlqUp, consumer, workers>>

(* reset_entries: by ids it takes rows in any status. *)
Reset ==
  /\ Operate
  /\ \E ids \in SUBSET Offset :
       rows' = [o \in Offset |->
         IF o \in ids /\ rows[o] # Null /\ rows[o].status \in Resettable
         THEN [status |-> "pending", attempts |-> 0, locked |-> FALSE, due |-> TRUE]
         ELSE rows[o]]
  /\ UNCHANGED <<committed, indexed, dlqUp, consumer, workers>>

Outage ==
  /\ dlqUp /\ Fault /\ dlqUp' = FALSE
  /\ UNCHANGED <<committed, indexed, rows, consumer, workers>>

Recover ==
  /\ ~dlqUp /\ dlqUp' = TRUE
  /\ UNCHANGED <<committed, indexed, rows, consumer, workers, bounds>>

(* The indexer dies and starts again from the committed offset; the pause  *)
(* flag was in memory.                                                     *)
Crash ==
  /\ Fault
  /\ cpc' = "handling" /\ attempt' = 1 /\ UNCHANGED class
  /\ wpc' = [w \in Worker |-> "idle"] /\ wdoc' = [w \in Worker |-> Null]
  /\ UNCHANGED <<committed, indexed, rows, dlqUp>>

-----------------------------------------------------------------------------
ConsumerStep ==
  \/ Handle \/ HandleFails \/ CommitApplied \/ Quarantine \/ QuarantineFails
  \/ CommitQuarantined \/ Resume

Drain(w) == \E o \in Offset : Claim(w, o)

WorkerStep(w) ==
  \/ Replay(w) \/ ReplayFails(w) \/ MarkProcessed(w) \/ MarkProcessedFails(w)
  \/ MarkRetryOrExhausted(w) \/ MarkFails(w)

Next ==
  \/ ConsumerStep
  \/ \E w \in Worker : Drain(w) \/ WorkerStep(w)
  \/ \E o \in Offset : LeaseExpires(o) \/ BecomesDue(o)
  \/ RetryNow \/ Reset \/ Recover
  \/ CommitAppliedFails \/ CommitQuarantinedFails \/ Outage \/ Crash

Spec == Init /\ [][Next]_vars

(* The consumer loop, the scheduler's task, the clock and the recovery of  *)
(* MongoDB go on; faults are finitely many.  The scheduler drains until no *)
(* row is claimable, so no claimable row is passed over for ever.          *)
FairSpec ==
  /\ Spec
  /\ WF_vars(ConsumerStep) /\ WF_vars(Recover)
  /\ \A w \in Worker : WF_vars(WorkerStep(w))
  /\ \A o \in Offset : WF_vars(LeaseExpires(o)) /\ WF_vars(BecomesDue(o))
  /\ \A o \in Offset : SF_vars(\E w \in Worker : Claim(w, o))

-----------------------------------------------------------------------------
(* Properties. *)

TypeOK ==
  /\ committed \in 0..LastOffset
  /\ indexed \subseteq Offset
  /\ rows \in [Offset -> DlqRow \cup {Null}]
  /\ dlqUp \in BOOLEAN
  /\ cpc \in ConsumerPhase /\ attempt \in 1..RealtimeMax /\ class \in FailureClass
  /\ wpc \in [Worker -> WorkerPhase]
  /\ wdoc \in [Worker -> Claimed \cup {Null}]
  /\ \A w \in Worker : wpc[w] # "idle" => wdoc[w] \in Claimed
  /\ faults \in 0..MaxFault /\ ops \in 0..MaxOps

(* A fact or event the offset has passed is in the graph or waits,         *)
(* unprocessed, in the DLQ - whatever crashes, times out or is replayed    *)
(* twice (process_kafka_message: DLQ before commit).                       *)
NoSilentLoss ==
  \A o \in (1..committed) \ Malformed :
    o \in indexed \/ (rows[o] # Null /\ rows[o].status # "processed")

(* A quarantined message does not stay pending or leased for ever: it is   *)
(* processed or its attempts are used up (DlqScheduler with leases).       *)
QueueDrains ==
  \A o \in Offset :
    (rows[o] # Null /\ rows[o].status \in {"pending", "processing"})
      ~> (rows[o] # Null /\ rows[o].status \in {"processed", "exhausted"})

(* Neither a failing message nor an outage of the DLQ stops the consumer   *)
(* for good (the pause loop of process_kafka_message).  "Poison-ish        *)
(* messages ... do not block the partition" (README of the DLQ).           *)
ConsumerFinishes == <>(committed = LastOffset)

(* What consumer and workers know while they work.                         *)
NothingForgotten ==
  /\ cpc \in {"applied", "failed", "quarantined"} => AtWork
  /\ cpc = "applied" => Current \in indexed \cup Malformed
  /\ cpc = "quarantined" => rows[Current] # Null
  /\ \A o \in Offset : rows[o] # Null /\ rows[o].status = "processed" => o \in indexed \cup Malformed
  /\ \A w \in Worker : wpc[w] # "idle" => rows[wdoc[w].offset] # Null
  /\ \A w \in Worker : wpc[w] = "replayed" => wdoc[w].offset \in indexed \cup Malformed

IInv == TypeOK /\ NothingForgotten /\ NoSilentLoss
=============================================================================
