----------------------------- MODULE GraphAnswers -----------------------------
(***************************************************************************)
(* The reports cypher_builder asks of the graph ssi-indexer writes.  They  *)
(* look for "the" version of an entity in three ways: along CURRENT, at    *)
(* the highest version that has a status, and in what the root node        *)
(* remembers of its CURRENT version.  The same question asked twice may    *)
(* take different ways, so they had better agree.                          *)
(* Filters by amount, date or line of business are left out; a filter by   *)
(* status selects among the rows a report returns.                         *)
(***************************************************************************)
EXTENDS GraphIndex, FiniteSetsExt

(* The messages of topic t about e, all of them and those applied. *)
Sent(t, e) == {log[t][k] : k \in {j \in 1..Len(log[t]) : log[t][j].id = e}}
Seen(t, e) == {log[t][k] : k \in {j \in Applied(t) : log[t][j].id = e}}

PaymentStatus ==
  [CREATE |-> "DRAFT", UPDATE |-> "DRAFT", SUBMIT |-> "SUBMITTED",
   APPROVE |-> "APPROVED", REJECT |-> "REJECTED", CANCEL |-> "CANCELLED"]

-----------------------------------------------------------------------------
(* Instructions. *)

StatusAt(i, v) == [id |-> i, status |-> node[i][v].status]

(* instruction_inventory, instruction_detail: along CURRENT. *)
Inventory == {StatusAt(i, current[i]) : i \in {j \in Instruction : current[j] # 0}}

Versions(i) == {v \in Version : node[i][v] # Null}

(* instruction counts: the highest version with a status.  Facts and       *)
(* events both bring one.                                                  *)
Latest_Lowest(i) == Min(Versions(i))

Latest(i) == Max(Versions(i))

Counted == {StatusAt(i, Latest(i)) : i \in {j \in Instruction : Versions(j) # {}}}

(* HAS_PAYMENT stands behind the filter that moves CURRENT, so a payment   *)
(* has it from its first open row on.                                      *)
Payments(i) ==
  {p \in Payment : current[p] # 0 /\ \E f \in Seen("payments", p) : f.inst = i}

(* The root node of an instruction, which a payment may create as well,    *)
(* and the status it remembers: that of the fact that moved CURRENT.       *)
Roots == {i \in Instruction : Versions(i) # {} \/ Payments(i) # {}}

Remembered(i) ==
  {f.status : f \in {g \in Seen("instructions", i) : g.ver = current[i]}}

(* instruction_payment_counts *)
PaymentCounts ==
  {[id |-> i, status |-> Remembered(i), count |-> Cardinality(Payments(i))] : i \in Roots}

(* instructions_without_payments *)
WithoutPayments == {i \in Roots : Payments(i) = {}}

(* max_payments_per_instruction, but for the choice among equals.          *)
MostPayments ==
  {i \in Roots : Payments(i) # {} /\
     \A j \in Roots : Cardinality(Payments(j)) <= Cardinality(Payments(i))}

-----------------------------------------------------------------------------
(* Payments. *)

(* The version nodes: facts have a status, events bring none and leave the *)
(* one a fact has brought.                                                 *)
PaymentVersions(p) ==
  LET facts == Seen("payments", p) IN
    {[ver |-> f.ver, status |-> PaymentStatus[f.action]] : f \in facts}
    \cup {[ver |-> e.ver, status |-> Null] :
            e \in {d \in Seen("payment_security_events", p) :
                     \A f \in facts : f.ver # d.ver}}

(* Faulty variant: versions that have no status yet take part. *)
LatestStatus_Any(p) ==
  {[id |-> p, status |-> n.status] :
     n \in {m \in PaymentVersions(p) : \A o \in PaymentVersions(p) : o.ver <= m.ver}}

(* At the highest version that has a status, if there is one. *)
LatestStatus(p) ==
  LET known == {n \in PaymentVersions(p) : n.status # Null} IN
    {[id |-> p, status |-> n.status] :
       n \in {m \in known : \A o \in known : o.ver <= m.ver}}

(* payment_list, payment_count and their like; payments_for_instruction.   *)
PaymentList == UNION {LatestStatus(p) : p \in Payment}
PaymentsFor(i) == UNION {LatestStatus(p) : p \in Payments(i)}

(* payment_detail, and the rows of max_payments_per_instruction: CURRENT.  *)
PaymentDetail(p) ==
  {[id |-> p, status |-> n.status] : n \in {m \in PaymentVersions(p) : m.ver = current[p]}}

-----------------------------------------------------------------------------
(* What the collections hold: the newest row of each id. *)

Newest(t, e) == {f \in Sent(t, e) : \A g \in Sent(t, e) : g.ver <= f.ver}

StoredInstructions ==
  UNION {{[id |-> i, status |-> f.status] : f \in Newest("instructions", i)} :
           i \in Instruction}
StoredPayments(i) ==
  UNION {{[id |-> p, status |-> PaymentStatus[f.action]] :
            f \in {g \in Newest("payments", p) : g.inst = i}} : p \in Payment}

(* Events filed under the newest row of an instruction quote its status.   *)
EventsTruthful ==
  \A i \in Instruction : \A f \in Newest("instructions", i) :
    \A e \in FiledUnder(i, f.ver) : e.status = f.status

-----------------------------------------------------------------------------
(* Properties. *)

(* Whatever was late, repeated, parked or replayed on the way: once        *)
(* everything is delivered the three ways to an instruction's status give  *)
(* the same answer, that of its newest row, unless an event filed under    *)
(* that row says otherwise (upsert merges the event's status).             *)
InstructionAnswersAgree ==
  Quiet /\ EventsTruthful =>
    /\ Inventory = StoredInstructions /\ Counted = StoredInstructions
    /\ {[id |-> a.id, status |-> a.status] : a \in PaymentCounts}
         = {[id |-> s.id, status |-> {s.status}] : s \in StoredInstructions}

(* The same for payments, with or without their instruction: every list    *)
(* and count has exactly the stored payments at their newest status.  A    *)
(* payment that was refused on creation is in the graph and in no answer.  *)
PaymentAnswersAgree ==
  Quiet =>
    /\ PaymentList = UNION {StoredPayments(i) : i \in Instruction}
    /\ \A i \in Instruction :
         /\ PaymentsFor(i) = StoredPayments(i)
         /\ PaymentsFor(i) = UNION {PaymentDetail(p) : p \in Payments(i)}
         /\ i \in MostPayments => \A j \in Instruction :
              Cardinality(StoredPayments(j)) <= Cardinality(PaymentsFor(i))
    /\ WithoutPayments =
         {i \in Instruction : Sent("instructions", i) # {} /\ StoredPayments(i) = {}}
=============================================================================
