--------------------------- MODULE IndexerDlqProofs ---------------------------
(* No message is lost silently, for any number of messages, workers, faults *)
(* and interventions, and whatever the retry budgets are.                   *)
EXTENDS IndexerDlq, TLAPS

RowsTyped == rows \in [Offset -> DlqRow \cup {Null}]

(* What every step does to the DLQ: no row goes away, and a row that says  *)
(* `processed` is one whose message is indexed.                            *)
RowsKept ==
  \A o \in Offset :
    /\ rows[o] # Null => rows'[o] # Null
    /\ rows'[o] # Null /\ rows'[o].status = "processed" => o \in indexed' \cup Malformed

(* A step that leaves the DLQ alone and only adds to what is indexed.      *)
LEMMA RowsUntouched ==
  ASSUME NothingForgotten, rows' = rows, indexed \subseteq indexed'
  PROVE  RowsKept
BY DEF NothingForgotten, RowsKept

(* Writing one row that exists.                                            *)
LEMMA OneRowWritten ==
  ASSUME IInv, NEW o \in Offset, NEW r \in DlqRow,
         rows' = [rows EXCEPT ![o] = r], indexed' = indexed,
         r.status = "processed" => o \in indexed \cup Malformed
  PROVE  RowsTyped' /\ RowsKept
<1>1. RowsTyped'
  BY DEF IInv, TypeOK, RowsTyped
<1>2. rows'[o] = r /\ r # Null
  BY ConstantsAssumption DEF IInv, TypeOK
<1>3. \A p \in Offset \ {o} : rows'[p] = rows[p]
  BY DEF IInv, TypeOK
<1> QED
  BY <1>1, <1>2, <1>3 DEF IInv, NothingForgotten, RowsKept

(* insert_failure *)
LEMMA InsertKeepsRows ==
  ASSUME IInv, AtWork, InsertFailure, indexed' = indexed
  PROVE  RowsTyped' /\ RowsKept /\ rows'[Current] # Null
<1>1. NewRow \in DlqRow /\ NewRow.status # "processed" /\ Current \in Offset
  BY DEF NewRow, DlqRow, DlqStatus, AtWork
<1>2. CASE rows[Current] = Null
  <2>1. rows' = [rows EXCEPT ![Current] = NewRow]
    BY <1>2 DEF InsertFailure
  <2>2. rows'[Current] # Null
    BY <2>1, <1>1, ConstantsAssumption DEF IInv, TypeOK
  <2> QED
    BY <2>1, <2>2, <1>1, OneRowWritten
<1>3. CASE rows[Current] # Null
  <2>1. rows' = rows
    BY <1>3, <1>1 DEF InsertFailure, IInv, TypeOK
  <2> QED
    BY <2>1, <1>3, RowsUntouched DEF IInv, TypeOK, RowsTyped
<1> QED
  BY <1>2, <1>3

(* The two updates of operators.                                           *)
LEMMA RetryNowKeepsRows ==
  ASSUME IInv, RetryNow
  PROVE  RowsTyped' /\ RowsKept
<1>1. PICK ids \in SUBSET Offset :
       rows' = [o \in Offset |->
         IF o \notin ids \/ rows[o] = Null THEN rows[o]
         ELSE IF rows[o].status \in {"pending", "processing"}
         THEN [rows[o] EXCEPT !.status = "pending", !.due = TRUE, !.locked = FALSE]
         ELSE IF rows[o].status = "exhausted"
         THEN [status |-> "pending", attempts |-> 0, locked |-> FALSE, due |-> TRUE]
         ELSE rows[o]]
  BY DEF RetryNow
<1>2. ASSUME NEW o \in Offset
      PROVE  \/ rows'[o] = rows[o]
             \/ rows[o] # Null /\ rows'[o] \in DlqRow /\ rows'[o].status = "pending"
  BY <1>1, <1>2 DEF IInv, TypeOK, DlqRow, DlqStatus
<1>3. RowsTyped'
  BY <1>1, <1>2 DEF RowsTyped, IInv, TypeOK
<1> QED
  BY <1>2, <1>3, ConstantsAssumption DEF RetryNow, RowsKept, IInv, NothingForgotten

LEMMA ResetKeepsRows ==
  ASSUME IInv, Reset
  PROVE  RowsTyped' /\ RowsKept
<1> DEFINE fresh == [status |-> "pending", attempts |-> 0, locked |-> FALSE, due |-> TRUE]
<1>1. PICK ids \in SUBSET Offset :
       rows' = [o \in Offset |->
         IF o \in ids /\ rows[o] # Null /\ rows[o].status \in Resettable
         THEN fresh ELSE rows[o]]
  BY DEF Reset
<1>2. fresh \in DlqRow /\ fresh.status = "pending"
  BY DEF DlqRow, DlqStatus
<1> HIDE DEF fresh
<1>3. \A o \in Offset : rows'[o] = rows[o] \/ (rows[o] # Null /\ rows'[o] = fresh)
  BY <1>1
<1>4. RowsTyped'
  BY <1>1, <1>2 DEF RowsTyped, IInv, TypeOK
<1> QED
  BY <1>2, <1>3, <1>4, ConstantsAssumption DEF Reset, RowsKept, IInv, NothingForgotten

(* Claiming, marking and the passing of time write one existing row.       *)
LEMMA ClaimKeepsRows ==
  ASSUME IInv, NEW w \in Worker, NEW o \in Offset, Claim(w, o)
  PROVE  RowsTyped' /\ RowsKept
<1> DEFINE r == [rows[o] EXCEPT !.status = "processing", !.attempts = @ + 1, !.locked = TRUE]
<1>1. r \in DlqRow /\ r.status # "processed"
  BY DEF Claim, IInv, TypeOK, DlqRow, DlqStatus
<1>2. rows' = [rows EXCEPT ![o] = r]
  BY DEF Claim, IInv, TypeOK
<1> QED
  BY <1>1, <1>2, OneRowWritten DEF Claim

LEMMA MarkProcessedKeepsRows ==
  ASSUME IInv, NEW w \in Worker, MarkProcessed(w)
  PROVE  RowsTyped' /\ RowsKept
<1> DEFINE o == wdoc[w].offset
           r == [rows[o] EXCEPT !.status = "processed", !.locked = FALSE]
<1>1. o \in Offset /\ o \in indexed \cup Malformed /\ rows[o] # Null
  BY DEF MarkProcessed, IInv, TypeOK, NothingForgotten, Claimed
<1>2. r \in DlqRow
  BY <1>1 DEF IInv, TypeOK, DlqRow, DlqStatus
<1>3. rows' = [rows EXCEPT ![o] = r]
  BY <1>1 DEF MarkProcessed, IInv, TypeOK
<1>4. indexed' = indexed
  BY DEF MarkProcessed
<1> HIDE DEF o, r
<1> QED
  BY <1>1, <1>2, <1>3, <1>4, OneRowWritten

LEMMA MarkRetryKeepsRows ==
  ASSUME IInv, NEW w \in Worker, MarkRetryOrExhausted(w)
  PROVE  RowsTyped' /\ RowsKept
<1> DEFINE o == wdoc[w].offset
           spent == wdoc[w].attempts >= MaxAttempts
           r == [rows[o] EXCEPT
                   !.status = IF spent THEN "exhausted" ELSE "pending",
                   !.due = spent, !.locked = FALSE]
<1>1. o \in Offset /\ rows[o] # Null
  BY DEF MarkRetryOrExhausted, IInv, TypeOK, NothingForgotten, Claimed
<1>2. rows' = [rows EXCEPT ![o] = r]
  BY <1>1 DEF MarkRetryOrExhausted, IInv, TypeOK
<1>3. r \in DlqRow /\ r.status # "processed"
  <2>1. spent \in BOOLEAN
    OBVIOUS
  <2> HIDE DEF spent
  <2> QED
    BY <1>1, <2>1 DEF IInv, TypeOK, DlqRow, DlqStatus
<1>4. indexed' = indexed
  BY DEF MarkRetryOrExhausted
<1> HIDE DEF o, r
<1> QED
  BY <1>1, <1>2, <1>3, <1>4, OneRowWritten

LEMMA TimeKeepsRows ==
  ASSUME IInv, NEW o \in Offset, LeaseExpires(o) \/ BecomesDue(o)
  PROVE  RowsTyped' /\ RowsKept
<1>1. ASSUME NEW r \in DlqRow, rows' = [rows EXCEPT ![o] = r], r.status = rows[o].status
      PROVE  RowsTyped' /\ RowsKept
  BY <1>1, OneRowWritten DEF LeaseExpires, BecomesDue, IInv, NothingForgotten
<1>2. CASE LeaseExpires(o)
  <2> DEFINE r == [rows[o] EXCEPT !.locked = FALSE]
  <2>1. r \in DlqRow /\ r.status = rows[o].status
    BY <1>2 DEF LeaseExpires, IInv, TypeOK, DlqRow
  <2>2. rows' = [rows EXCEPT ![o] = r]
    BY <1>2 DEF LeaseExpires, IInv, TypeOK
  <2> HIDE DEF r
  <2> QED
    BY <2>1, <2>2, <1>1
<1>3. CASE BecomesDue(o)
  <2> DEFINE r == [rows[o] EXCEPT !.due = TRUE]
  <2>1. r \in DlqRow /\ r.status = rows[o].status
    BY <1>3 DEF BecomesDue, IInv, TypeOK, DlqRow
  <2>2. rows' = [rows EXCEPT ![o] = r]
    BY <1>3 DEF BecomesDue, IInv, TypeOK
  <2> HIDE DEF r
  <2> QED
    BY <2>1, <2>2, <1>1
<1> QED
  BY <1>2, <1>3

LEMMA StepKeepsRows ==
  ASSUME IInv, Next
  PROVE  RowsTyped' /\ RowsKept /\ indexed \subseteq indexed'
<1>1. indexed \subseteq indexed'
  BY DEF Next, ConsumerStep, Drain, WorkerStep, Handle, HandleFails, CommitApplied, Quarantine,
         QuarantineFails, CommitQuarantined, Resume, Claim, Replay, ReplayFails, MarkProcessed,
         MarkProcessedFails, MarkRetryOrExhausted, MarkFails, LeaseExpires, BecomesDue, RetryNow,
         Reset, Recover, CommitAppliedFails, CommitQuarantinedFails, Outage, Crash, Pipeline
<1>2. CASE rows' = rows
  BY <1>1, <1>2, RowsUntouched DEF IInv, TypeOK, RowsTyped
<1>3. CASE rows' # rows
  <2>1. CASE Quarantine \/ QuarantineFails
    BY <2>1, <1>3, InsertKeepsRows DEF Quarantine, QuarantineFails
  <2>2. CASE RetryNow \/ Reset
    BY <2>2, RetryNowKeepsRows, ResetKeepsRows DEF RetryNow, Reset
  <2>3. ASSUME NEW w \in Worker, NEW o \in Offset, Claim(w, o)
        PROVE  RowsTyped' /\ RowsKept
    BY <2>3, ClaimKeepsRows
  <2>4. ASSUME NEW w \in Worker, MarkProcessed(w) \/ MarkRetryOrExhausted(w)
        PROVE  RowsTyped' /\ RowsKept
    BY <2>4, MarkProcessedKeepsRows, MarkRetryKeepsRows
  <2>5. ASSUME NEW o \in Offset, LeaseExpires(o) \/ BecomesDue(o)
        PROVE  RowsTyped' /\ RowsKept
    BY <2>5, TimeKeepsRows
  <2>6. \/ Quarantine \/ QuarantineFails \/ RetryNow \/ Reset
        \/ \E w \in Worker, o \in Offset : Claim(w, o)
        \/ \E w \in Worker : MarkProcessed(w) \/ MarkRetryOrExhausted(w)
        \/ \E o \in Offset : LeaseExpires(o) \/ BecomesDue(o)
    BY <1>3 DEF Next, ConsumerStep, Drain, WorkerStep, Handle, HandleFails, CommitApplied,
         CommitQuarantined, Resume, Replay, ReplayFails, MarkProcessedFails, MarkFails,
         Recover, CommitAppliedFails, CommitQuarantinedFails, Outage, Crash
  <2> QED
    BY <1>1, <2>1, <2>2, <2>3, <2>4, <2>5, <2>6
<1> QED
  BY <1>2, <1>3

-----------------------------------------------------------------------------
(* Consumer and workers. *)

ConsumerOK ==
  /\ committed \in 0..LastOffset
  /\ cpc \in ConsumerPhase /\ attempt \in 1..RealtimeMax /\ class \in FailureClass
  /\ cpc \in {"applied", "failed", "quarantined"} => AtWork
  /\ cpc = "applied" => Current \in indexed \cup Malformed
  /\ cpc = "quarantined" => rows[Current] # Null

(* What the offset passes is accounted for. *)
PassedKnown ==
  \A o \in (1..committed') \ (1..committed) :
    o \in indexed \cup Malformed \/ rows[o] # Null

WorkersOK ==
  /\ wpc \in [Worker -> WorkerPhase]
  /\ wdoc \in [Worker -> Claimed \cup {Null}]
  /\ \A w \in Worker : wpc[w] # "idle" => wdoc[w] \in Claimed /\ rows[wdoc[w].offset] # Null
  /\ \A w \in Worker : wpc[w] = "replayed" => wdoc[w].offset \in indexed \cup Malformed

OthersOK ==
  /\ indexed \subseteq Offset /\ dlqUp \in BOOLEAN
  /\ faults \in 0..MaxFault /\ ops \in 0..MaxOps

(* A step of somebody else leaves the consumer as it was. *)
LEMMA ConsumerUntouched ==
  ASSUME IInv, RowsKept, indexed \subseteq indexed', UNCHANGED <<committed, consumer>>
  PROVE  ConsumerOK' /\ PassedKnown
BY DEF IInv, TypeOK, NothingForgotten, RowsKept, ConsumerOK, PassedKnown, consumer,
       AtWork, Current, Offset

LEMMA FailedType ==
  ASSUME IInv, NEW c \in FailureClass, Failed(c)
  PROVE  /\ cpc' \in {"handling", "failed"}
         /\ attempt' \in 1..RealtimeMax /\ class' \in FailureClass
BY ConstantsAssumption DEF IInv, TypeOK, Failed

LEMMA ConsumerStepOK ==
  ASSUME IInv, Next, RowsKept, indexed \subseteq indexed'
  PROVE  ConsumerOK' /\ PassedKnown
<1> USE DEF ConsumerOK, PassedKnown, IInv, TypeOK, NothingForgotten, AtWork, Current, Offset,
            ConsumerPhase
<1>1. CASE Handle
  BY <1>1 DEF Handle, Pipeline
<1>2. CASE HandleFails
  BY <1>2, FailedType DEF HandleFails
<1>3. CASE CommitApplied
  BY <1>3, ConstantsAssumption DEF CommitApplied, Advance
<1>4. CASE CommitAppliedFails
  BY <1>4, FailedType DEF CommitAppliedFails, FailureClass
<1>5. CASE Quarantine
  BY <1>5, InsertKeepsRows DEF Quarantine
<1>6. CASE QuarantineFails
  BY <1>6 DEF QuarantineFails
<1>7. CASE CommitQuarantined
  BY <1>7, ConstantsAssumption DEF CommitQuarantined, Advance
<1>8. CASE CommitQuarantinedFails
  BY <1>8 DEF CommitQuarantinedFails
<1>9. CASE Resume
  BY <1>9, ConstantsAssumption DEF Resume
<1>10. CASE Crash
  BY <1>10, ConstantsAssumption DEF Crash
<1>11. CASE UNCHANGED <<committed, consumer>>
  BY <1>11, ConsumerUntouched
<1> QED
  BY <1>1, <1>2, <1>3, <1>4, <1>5, <1>6, <1>7, <1>8, <1>9, <1>10, <1>11
     DEF Next, ConsumerStep, Drain, WorkerStep, Claim, Replay, ReplayFails, MarkProcessed,
         MarkProcessedFails, MarkRetryOrExhausted, MarkFails, LeaseExpires, BecomesDue, RetryNow,
         Reset, Recover, Outage, consumer

LEMMA WorkersUntouched ==
  ASSUME IInv, RowsKept, indexed \subseteq indexed', UNCHANGED workers
  PROVE  WorkersOK'
BY DEF IInv, TypeOK, NothingForgotten, RowsKept, WorkersOK, workers, Claimed

LEMMA ReleaseOK ==
  ASSUME IInv, RowsKept, indexed \subseteq indexed', NEW w \in Worker, Release(w)
  PROVE  WorkersOK'
BY DEF IInv, TypeOK, NothingForgotten, RowsKept, WorkersOK, Release, Claimed, WorkerPhase

(* A worker that goes on with the document it has. *)
LEMMA WorkerGoesOn ==
  ASSUME IInv, RowsKept, indexed \subseteq indexed', NEW w \in Worker, wpc[w] # "idle",
         NEW phase \in WorkerPhase, wpc' = [wpc EXCEPT ![w] = phase], wdoc' = wdoc,
         phase = "replayed" => wdoc[w].offset \in indexed' \cup Malformed
  PROVE  WorkersOK'
BY DEF IInv, TypeOK, NothingForgotten, RowsKept, WorkersOK, Claimed

LEMMA WorkerStepOK ==
  ASSUME IInv, Next, RowsKept, indexed \subseteq indexed'
  PROVE  WorkersOK'
<1>1. ASSUME NEW w \in Worker, NEW o \in Offset, Claim(w, o)
      PROVE  WorkersOK'
  <2> DEFINE doc == [offset |-> o, attempts |-> rows[o].attempts + 1]
  <2>1. doc \in Claimed
    BY <1>1 DEF Claim, Claimed, IInv, TypeOK, DlqRow
  <2>2. doc.offset = o /\ rows'[o] # Null
    BY <1>1 DEF Claim, RowsKept
  <2>3. wdoc' = [wdoc EXCEPT ![w] = doc] /\ wpc' = [wpc EXCEPT ![w] = "replaying"]
    BY <1>1 DEF Claim
  <2> HIDE DEF doc
  <2> QED
    BY <2>1, <2>2, <2>3 DEF IInv, TypeOK, NothingForgotten, RowsKept, WorkersOK, Claimed, WorkerPhase
<1>2. ASSUME NEW w \in Worker, Replay(w) \/ ReplayFails(w) \/ MarkProcessedFails(w)
      PROVE  WorkersOK'
  BY <1>2, WorkerGoesOn
     DEF Replay, ReplayFails, MarkProcessedFails, Pipeline, WorkerPhase, workers
<1>3. ASSUME NEW w \in Worker, MarkProcessed(w) \/ MarkRetryOrExhausted(w) \/ MarkFails(w)
      PROVE  WorkersOK'
  BY <1>3, ReleaseOK DEF MarkProcessed, MarkRetryOrExhausted, MarkFails
<1>4. CASE Crash
  BY <1>4 DEF Crash, WorkersOK, WorkerPhase
<1>5. CASE UNCHANGED workers
  BY <1>5, WorkersUntouched
<1> QED
  BY <1>1, <1>2, <1>3, <1>4, <1>5
     DEF Next, ConsumerStep, Drain, WorkerStep, Handle, HandleFails, CommitApplied, Quarantine,
         QuarantineFails, CommitQuarantined, Resume, LeaseExpires, BecomesDue, RetryNow,
         Reset, Recover, CommitAppliedFails, CommitQuarantinedFails, Outage

LEMMA OthersStepOK ==
  ASSUME IInv, Next
  PROVE  OthersOK'
<1> USE DEF OthersOK, IInv, TypeOK, Fault, Operate, bounds
<1>1. CASE ConsumerStep
  BY <1>1, ConstantsAssumption
     DEF ConsumerStep, Handle, HandleFails, CommitApplied, Quarantine, QuarantineFails,
         CommitQuarantined, Resume, Pipeline, AtWork
<1>2. ASSUME NEW w \in Worker, Drain(w) \/ WorkerStep(w)
      PROVE  OthersOK'
  BY <1>2 DEF Drain, WorkerStep, Claim, Replay, ReplayFails, MarkProcessed,
         MarkProcessedFails, MarkRetryOrExhausted, MarkFails, Pipeline, Claimed
<1>3. ASSUME NEW o \in Offset, LeaseExpires(o) \/ BecomesDue(o)
      PROVE  OthersOK'
  BY <1>3 DEF LeaseExpires, BecomesDue
<1>4. ASSUME Operate, UNCHANGED <<indexed, dlqUp>>
      PROVE  OthersOK'
  BY <1>4, ConstantsAssumption
<1>5. ASSUME Fault, UNCHANGED indexed, dlqUp' \in BOOLEAN
      PROVE  OthersOK'
  BY <1>5, ConstantsAssumption
<1>6. CASE RetryNow \/ Reset
  BY <1>4, <1>6 DEF RetryNow, Reset
<1>7. CASE Recover
  BY <1>7 DEF Recover
<1>8. CASE CommitAppliedFails \/ CommitQuarantinedFails \/ Outage \/ Crash
  BY <1>5, <1>8 DEF CommitAppliedFails, CommitQuarantinedFails, Outage, Crash
<1> QED
  BY <1>1, <1>2, <1>3, <1>6, <1>7, <1>8 DEF Next

-----------------------------------------------------------------------------
LEMMA InitInvariant == Init => IInv
BY ConstantsAssumption
   DEF Init, IInv, TypeOK, NothingForgotten, NoSilentLoss, ConsumerPhase, WorkerPhase,
       FailureClass

LEMMA StepInvariant == IInv /\ [Next]_vars => IInv'
<1>1. CASE IInv /\ UNCHANGED vars
  BY <1>1 DEF vars, consumer, workers, bounds, IInv, TypeOK, NothingForgotten, NoSilentLoss,
              AtWork, Current
<1>2. CASE IInv /\ Next
  <2>1. RowsTyped' /\ RowsKept /\ indexed \subseteq indexed'
    BY <1>2, StepKeepsRows
  <2>2. ConsumerOK' /\ PassedKnown
    BY <1>2, <2>1, ConsumerStepOK
  <2>3. WorkersOK'
    BY <1>2, <2>1, WorkerStepOK
  <2>4. OthersOK'
    BY <1>2, OthersStepOK
  <2>5. TypeOK'
    BY <2>1, <2>2, <2>3, <2>4 DEF RowsTyped, ConsumerOK, WorkersOK, OthersOK, TypeOK
  <2>6. NothingForgotten'
    BY <2>1, <2>2, <2>3 DEF RowsKept, ConsumerOK, WorkersOK, NothingForgotten
  <2>7. NoSilentLoss'
    <3>1. ASSUME NEW o \in (1..committed') \ Malformed
          PROVE  o \in indexed' \/ (rows'[o] # Null /\ rows'[o].status # "processed")
      <4>1. o \in Offset
        BY <3>1, <2>2, ConstantsAssumption DEF ConsumerOK, Offset
      <4>2. o \in indexed \/ rows[o] # Null
        BY <3>1, <2>2, <1>2 DEF PassedKnown, IInv, NoSilentLoss
      <4> QED
        BY <3>1, <4>1, <4>2, <2>1 DEF RowsKept
    <3> QED
      BY <3>1 DEF NoSilentLoss
  <2> QED
    BY <2>5, <2>6, <2>7 DEF IInv
<1> QED
  BY <1>1, <1>2

LEMMA Invariant == Spec => []IInv
<1>1. Init => IInv
  BY InitInvariant
<1>2. IInv /\ [Next]_vars => IInv'
  BY StepInvariant
<1> QED
  BY <1>1, <1>2, PTL DEF Spec

(* Every value the indexer keeps stays within its type: the consumer's     *)
(* attempts within kafka_retry_max_attempts, and a worker that is not idle *)
(* holds a claimed document (process_kafka_message, drain_once).           *)
THEOREM TypeCorrect == Spec => []TypeOK
<1>1. IInv => TypeOK
  BY DEF IInv
<1> QED
  BY <1>1, Invariant, PTL

(* A fact or event that Kafka's offset has passed is indexed or waits in   *)
(* the DLQ, through crashes, outages, failed commits, leases that run out  *)
(* and operators' resets (process_kafka_message and the DLQ).              *)
THEOREM NothingIsLostSilently == Spec => []NoSilentLoss
<1>1. IInv => NoSilentLoss
  BY DEF IInv
<1> QED
  BY <1>1, Invariant, PTL
=============================================================================
