------------------------------ MODULE PaymentSaga ------------------------------
(***************************************************************************)
(* payment-service and the part of instruction-service it drives.  A       *)
(* payment request reads the payment, then the backing instruction over    *)
(* HTTP, decides, and appends a version of the payment; submitting a       *)
(* SINGLE_USE payment first marks the instruction USED by a second HTTP    *)
(* call, and rejecting or cancelling it releases the instruction           *)
(* afterwards, best effort.  There is no transaction across the two        *)
(* services: other requests run between any two steps, either call may be  *)
(* carried out after its caller stopped waiting, the process may die.      *)
(*                                                                         *)
(* How a version and its event are committed is InstructionService's       *)
(* subject (both services have the same repository); here an append is one *)
(* step on whatever version is current by then.                            *)
(***************************************************************************)
EXTENDS Integers, Sequences, FiniteSets

CONSTANTS
  Payment, Instruction,
  Handler,     \* payment requests in flight at once
  Null,
  Overlaps,    \* whether requests for one document may overlap: the choices
  Faults,      \* timeouts, crashes and failed writes happen
  MaxRequest,  \* bound: requests the clients send, by whether they may overlap
  MaxVersion   \* bound: versions of an instruction made by its owners, likewise

ASSUME ConstantsAssumption ==
  /\ Null \notin Payment
  /\ Overlaps \subseteq BOOLEAN /\ Faults \in BOOLEAN
  /\ MaxRequest \in [BOOLEAN -> Nat] /\ MaxVersion \in [BOOLEAN -> Nat]

Kind == {"STANDING", "SINGLE_USE"}
InstructionStatus ==
  {"DRAFT", "SUBMITTED", "APPROVED", "SUSPENDED", "USED", "REJECTED", "CANCELLED"}
PaymentStatus == {"DRAFT", "SUBMITTED", "APPROVED", "REJECTED", "CANCELLED"}
Operation == {"CREATE", "UPDATE", "SUBMIT", "APPROVE", "REJECT", "CANCEL"}

(* One version of an instruction; call and ref say what made it. *)
InstructionVersion ==
  [status : InstructionStatus, kind : Kind, usedBy : Payment \cup {Null},
   call : {"owner", "use", "release"}, ref : Payment \cup {Null}]

(* One version of a payment.  kind and iver are the instruction's type and *)
(* version as the payment last noted them; submitted says that             *)
(* submitted_at is set, system that the service itself cancelled.          *)
PaymentVersion ==
  [inst : Instruction, kind : Kind, status : PaymentStatus, iver : Nat,
   submitted : BOOLEAN, system : BOOLEAN]

(* read is the instruction version a USE or RELEASE_USE works from; waits  *)
(* says that the payment request still waits for the answer of the call.   *)
Context == [op : Operation, p : Payment, body : PaymentVersion, read : Nat, waits : BOOLEAN]

Phase == {"idle", "loaded", "checking", "using", "useRead", "used", "ready",
          "releasing", "releaseRead"}

VARIABLES
  overlap,   \* whether requests for one document may overlap in this run
  instrs,    \* instruction-service: the versions of each instruction
  lapsed,    \* the instructions whose dates are no longer valid
  payments,  \* payment-service: the versions of each payment
  pc, ctx,   \* the requests
  requests   \* requests sent so far

vars == <<overlap, instrs, lapsed, payments, pc, ctx, requests>>

Newest(s) == s[Len(s)]

Init ==
  /\ overlap \in Overlaps
  /\ instrs \in [Instruction ->
       {<<[status |-> s, kind |-> k, usedBy |-> Null, call |-> "owner", ref |-> Null]>> :
          s \in {"DRAFT", "APPROVED"}, k \in Kind}]
  /\ lapsed = {}
  /\ payments = [p \in Payment |-> <<>>]
  /\ pc = [h \in Handler |-> "idle"]
  /\ ctx = [h \in Handler |-> Null]
  /\ requests = 0

Inst(h) == ctx[h].body.inst
Goto(h, to) == pc' = [pc EXCEPT ![h] = to]
Hold(h, b) == ctx' = [ctx EXCEPT ![h].body = b]
End(h) == Goto(h, "idle") /\ ctx' = [ctx EXCEPT ![h] = Null]

-----------------------------------------------------------------------------
(* Requests. *)

Working(h) == pc[h] # "idle" /\ ctx[h].waits

Begin(h, op, p, b, to) ==
  /\ pc[h] = "idle" /\ requests < MaxRequest[overlap]
  /\ overlap \/ \A g \in Handler : Working(g) => ctx[g].p # p
  /\ requests' = requests + 1
  /\ Goto(h, to)
  /\ ctx' = [ctx EXCEPT ![h] = [op |-> op, p |-> p, body |-> b, read |-> 0, waits |-> TRUE]]
  /\ UNCHANGED <<overlap, instrs, lapsed, payments>>

Draftable(i) ==
  Newest(instrs[i]).status \in {"DRAFT", "SUBMITTED", "APPROVED"} /\ i \notin lapsed

(* Reads the instruction first; the payment id is new. *)
Create(h, p) ==
  /\ payments[p] = <<>> /\ \A g \in Handler : pc[g] # "idle" => ctx[g].p # p
  /\ \E i \in Instruction :
       /\ Draftable(i)
       /\ Begin(h, "CREATE", p,
                [inst |-> i, kind |-> Newest(instrs[i]).kind, status |-> "DRAFT",
                 iver |-> Len(instrs[i]), submitted |-> FALSE, system |-> FALSE],
                "ready")

(* The other operations take a copy of a payment in one of the statuses.   *)
Load(h, op, p, from) ==
  /\ payments[p] # <<>> /\ Newest(payments[p]).status \in from
  /\ Begin(h, op, p, Newest(payments[p]), "loaded")

Update(h, p) == Load(h, "UPDATE", p, {"DRAFT"})
Submit(h, p) == Load(h, "SUBMIT", p, {"DRAFT"})
Approve(h, p) == Load(h, "APPROVE", p, {"SUBMITTED"})
Reject(h, p) == Load(h, "REJECT", p, {"SUBMITTED"})

(* Faulty variant: a rejected payment can be cancelled as well. *)
Cancel_Rejected(h, p) == Load(h, "CANCEL", p, {"DRAFT", "SUBMITTED", "REJECTED"})

Cancel(h, p) == Load(h, "CANCEL", p, {"DRAFT", "SUBMITTED"})

-----------------------------------------------------------------------------
(* The instruction is fetched; what the answer allows depends on the       *)
(* operation.                                                              *)

Fetching(h, op) ==
  /\ pc[h] = "loaded" /\ ctx[h].op = op
  /\ UNCHANGED <<overlap, instrs, lapsed, payments, requests>>

Refreshed(b) == [b EXCEPT !.iver = Len(instrs[b.inst])]
Submitted(b) == [b EXCEPT !.status = "SUBMITTED", !.submitted = TRUE]

FetchForUpdate(h) ==
  /\ Fetching(h, "UPDATE") /\ Draftable(Inst(h))
  /\ Hold(h, Refreshed(ctx[h].body)) /\ Goto(h, "ready")

(* The type that decides is the one the payment noted when it was created. *)
FetchForSubmit(h) ==
  /\ Fetching(h, "SUBMIT")
  /\ Newest(instrs[Inst(h)]).status = "APPROVED" /\ Inst(h) \notin lapsed
  /\ \/ /\ ctx[h].body.kind = "SINGLE_USE"
        /\ Hold(h, Refreshed(ctx[h].body)) /\ Goto(h, "checking")
     \/ /\ ctx[h].body.kind = "STANDING"
        /\ Hold(h, Submitted(Refreshed(ctx[h].body))) /\ Goto(h, "ready")

(* Faulty variant: the type is not compared. *)
ValidForApproval_AnyKind(b) ==
  LET v == Newest(instrs[b.inst]) IN
  /\ b.iver = Len(instrs[b.inst]) /\ b.inst \notin lapsed
  /\ v.status = "APPROVED" \/ (v.status = "USED" /\ b.kind = "SINGLE_USE" /\ v.kind = "SINGLE_USE")

ValidForApproval(b) ==
  LET v == Newest(instrs[b.inst]) IN
  /\ b.iver = Len(instrs[b.inst])
  /\ v.status = "APPROVED" \/ (v.status = "USED" /\ b.kind = "SINGLE_USE" /\ v.kind = "SINGLE_USE")
  /\ b.inst \notin lapsed /\ v.kind = b.kind

(* A payment whose instruction changed, lapsed or is not usable any more   *)
(* is cancelled by the service instead, whoever asked.                     *)
FetchForApprove(h) ==
  /\ Fetching(h, "APPROVE") /\ Goto(h, "ready")
  /\ \/ ValidForApproval(ctx[h].body) /\ Hold(h, [ctx[h].body EXCEPT !.status = "APPROVED"])
     \/ /\ ~ValidForApproval(ctx[h].body)
        /\ Hold(h, [ctx[h].body EXCEPT !.status = "CANCELLED", !.system = TRUE])

FetchForReject(h) ==
  /\ Fetching(h, "REJECT") /\ Goto(h, "ready")
  /\ Hold(h, [ctx[h].body EXCEPT !.status = "REJECTED"])

FetchForCancel(h) ==
  /\ Fetching(h, "CANCEL") /\ Goto(h, "ready")
  /\ Hold(h, [ctx[h].body EXCEPT !.status = "CANCELLED"])

(* A failed check, a refusal by the policy, an instruction-service that    *)
(* does not answer: an error, nothing changed.  Only the service's own     *)
(* cancellation and a submission whose instruction is USED are past that.  *)
GiveUp(h) ==
  /\ \/ pc[h] \in {"loaded", "checking"}
     \/ /\ pc[h] = "ready" /\ ~ctx[h].body.system
        /\ ~(ctx[h].op = "SUBMIT" /\ ctx[h].body.kind = "SINGLE_USE")
  /\ End(h)
  /\ UNCHANGED <<overlap, instrs, lapsed, payments, requests>>

-----------------------------------------------------------------------------
(* SINGLE_USE: mark the instruction before the payment is submitted. *)

Active(i) ==
  {p \in Payment : /\ payments[p] # <<>>
                   /\ Newest(payments[p]).inst = i
                   /\ Newest(payments[p]).status \in {"DRAFT", "SUBMITTED"}}

(* Faulty variant: the instruction is not marked. *)
CheckExclusive_NoUse(h) ==
  /\ pc[h] = "checking" /\ Cardinality(Active(Inst(h))) <= 1
  /\ Goto(h, "used")
  /\ UNCHANGED <<overlap, instrs, lapsed, payments, ctx, requests>>

(* At most one payment of the instruction may be pending; then USE is      *)
(* called.                                                                 *)
CheckExclusive(h) ==
  /\ pc[h] = "checking" /\ Cardinality(Active(Inst(h))) <= 1
  /\ Goto(h, "using")
  /\ UNCHANGED <<overlap, instrs, lapsed, payments, ctx, requests>>

(* instruction-service reads its copy; without overlapping requests nobody *)
(* is between reading and writing the same instruction.                    *)
Alone(i) == \A g \in Handler : pc[g] \in {"useRead", "releaseRead"} => Inst(g) # i

ReadCopy(h, to) ==
  /\ overlap \/ Alone(Inst(h))
  /\ Goto(h, to)
  /\ ctx' = [ctx EXCEPT ![h].read = Len(instrs[Inst(h)])]
  /\ UNCHANGED <<overlap, instrs, lapsed, payments, requests>>

(* Faulty variant: the status is not checked. *)
ReadForUse_AnyStatus(h) == pc[h] = "using" /\ ReadCopy(h, "useRead")

ReadForUse(h) ==
  /\ pc[h] = "using" /\ Newest(instrs[Inst(h)]).status = "APPROVED"
  /\ ReadCopy(h, "useRead")

(* A version is added; it is computed from the copy that was read.         *)
AddVersion(i, v) == instrs' = [instrs EXCEPT ![i] = Append(@, v)]

Used(v, p) ==
  IF v.kind = "SINGLE_USE"
  THEN [v EXCEPT !.status = "USED", !.usedBy = p, !.call = "use", !.ref = p]
  ELSE [v EXCEPT !.call = "use", !.ref = p]

AnswerTo(h, to) == IF ctx[h].waits THEN Goto(h, to) /\ UNCHANGED ctx ELSE End(h)

Use(h) ==
  /\ pc[h] = "useRead"
  /\ AddVersion(Inst(h), Used(instrs[Inst(h)][ctx[h].read], ctx[h].p))
  /\ AnswerTo(h, "used")
  /\ UNCHANGED <<overlap, lapsed, payments, requests>>

(* Not APPROVED any more, refused by the policy, a write conflict: the     *)
(* submission fails.                                                       *)
UseRefused(h) ==
  /\ pc[h] \in {"using", "useRead"}
  /\ End(h)
  /\ UNCHANGED <<overlap, instrs, lapsed, payments, requests>>

(* The instruction is fetched again for its new version number. *)
FetchAfterUse(h) ==
  /\ pc[h] = "used"
  /\ Hold(h, Submitted(Refreshed(ctx[h].body))) /\ Goto(h, "ready")
  /\ UNCHANGED <<overlap, instrs, lapsed, payments, requests>>

-----------------------------------------------------------------------------
(* Saving, and releasing the instruction of a payment that was withdrawn.  *)

(* The release of the service's own cancellation carries no user token and *)
(* fails before it is sent.                                                *)
Releases(b) ==
  /\ b.kind = "SINGLE_USE" /\ b.submitted /\ ~b.system
  /\ b.status \in {"REJECTED", "CANCELLED"}

(* Faulty variant: the release is called before the version is stored. *)
Save_AfterRelease(h) ==
  /\ pc[h] = "ready"
  /\ IF Releases(ctx[h].body)
     THEN Goto(h, "releasing") /\ UNCHANGED <<ctx, payments>>
     ELSE End(h) /\ payments' = [payments EXCEPT ![ctx[h].p] = Append(@, ctx[h].body)]
  /\ UNCHANGED <<overlap, instrs, lapsed, requests>>

(* Faulty variant: nothing is released. *)
Save_NoRelease(h) ==
  /\ pc[h] = "ready" /\ End(h)
  /\ payments' = [payments EXCEPT ![ctx[h].p] = Append(@, ctx[h].body)]
  /\ UNCHANGED <<overlap, instrs, lapsed, requests>>

Save(h) ==
  /\ pc[h] = "ready"
  /\ payments' = [payments EXCEPT ![ctx[h].p] = Append(@, ctx[h].body)]
  /\ IF Releases(ctx[h].body) THEN Goto(h, "releasing") /\ UNCHANGED ctx ELSE End(h)
  /\ UNCHANGED <<overlap, instrs, lapsed, requests>>

(* A failed refetch, a write conflict or an event number that is not       *)
(* answered: nothing undoes a USE that was made.                           *)
SaveFails(h) ==
  /\ pc[h] \in {"used", "ready"}
  /\ Faults \/ (pc[h] = "ready" /\ overlap)
  /\ End(h)
  /\ UNCHANGED <<overlap, instrs, lapsed, payments, requests>>

HeldBy(v, p) == v.status = "USED" /\ v.kind = "SINGLE_USE" /\ v.usedBy = p

ReadForRelease(h) ==
  /\ pc[h] = "releasing" /\ HeldBy(Newest(instrs[Inst(h)]), ctx[h].p)
  /\ ReadCopy(h, "releaseRead")

Release(h) ==
  /\ pc[h] = "releaseRead"
  /\ AddVersion(Inst(h), [instrs[Inst(h)][ctx[h].read] EXCEPT
                            !.status = "APPROVED", !.usedBy = Null,
                            !.call = "release", !.ref = ctx[h].p])
  /\ End(h)
  /\ UNCHANGED <<overlap, lapsed, payments, requests>>

(* The error is logged and swallowed: the payment stays withdrawn.         *)
ReleaseFails(h) ==
  /\ pc[h] \in {"releasing", "releaseRead"}
  /\ Faults \/ (pc[h] = "releasing" /\ ~HeldBy(Newest(instrs[Inst(h)]), ctx[h].p))
  /\ End(h)
  /\ UNCHANGED <<overlap, instrs, lapsed, payments, requests>>

-----------------------------------------------------------------------------
(* Faults and the other users of the instruction. *)

Calls == {"using", "useRead", "releasing", "releaseRead"}

(* Faulty variant: the call loses its context. *)
Timeout_DropsContext(h) ==
  /\ Faults /\ pc[h] \in Calls /\ ctx[h].waits
  /\ ctx' = [ctx EXCEPT ![h] = Null]
  /\ UNCHANGED <<overlap, instrs, lapsed, payments, pc, requests>>

(* The call times out after 10 s at the caller; it may still be executed.  *)
Timeout(h) ==
  /\ Faults /\ pc[h] \in Calls /\ ctx[h].waits
  /\ ctx' = [ctx EXCEPT ![h].waits = FALSE]
  /\ UNCHANGED <<overlap, instrs, lapsed, payments, pc, requests>>

(* payment-service dies; the calls it made are at instruction-service.     *)
Crash ==
  /\ Faults /\ \E h \in Handler : Working(h)
  /\ pc' = [h \in Handler |-> IF pc[h] \in Calls THEN pc[h] ELSE "idle"]
  /\ ctx' = [h \in Handler |-> IF pc[h] \in Calls THEN [ctx[h] EXCEPT !.waits = FALSE] ELSE Null]
  /\ UNCHANGED <<overlap, instrs, lapsed, payments, requests>>

OwnerMoves ==
  {<<"DRAFT", "SUBMITTED">>, <<"SUBMITTED", "APPROVED">>, <<"DRAFT", "CANCELLED">>,
   <<"SUBMITTED", "REJECTED">>, <<"APPROVED", "SUSPENDED">>, <<"SUSPENDED", "APPROVED">>}

(* The owners' operations.  InstructionService!LegalLineage: a version is  *)
(* a lifecycle step from an earlier version, the newest if nothing         *)
(* overlaps.                                                               *)
OwnerEdits(i) ==
  /\ Len(instrs[i]) < MaxVersion[overlap]
  /\ \E n \in 1..Len(instrs[i]) :
       LET v == [instrs[i][n] EXCEPT !.call = "owner", !.ref = Null] IN
       /\ overlap \/ (n = Len(instrs[i]) /\ Alone(i))
       /\ \/ \E m \in OwnerMoves : v.status = m[1] /\ AddVersion(i, [v EXCEPT !.status = m[2]])
          \/ v.status = "DRAFT" /\ \E k \in Kind \ {v.kind} : AddVersion(i, [v EXCEPT !.kind = k])
  /\ UNCHANGED <<overlap, lapsed, payments, pc, ctx, requests>>

(* The end date passes. *)
Lapse(i) ==
  /\ i \notin lapsed /\ lapsed' = lapsed \cup {i}
  /\ UNCHANGED <<overlap, instrs, payments, pc, ctx, requests>>

-----------------------------------------------------------------------------
Request(h) ==
  \E p \in Payment :
    Create(h, p) \/ Update(h, p) \/ Submit(h, p) \/ Approve(h, p) \/ Reject(h, p) \/ Cancel(h, p)

Progress(h) ==
  \/ FetchForUpdate(h) \/ FetchForSubmit(h) \/ FetchForApprove(h) \/ FetchForReject(h)
  \/ FetchForCancel(h) \/ GiveUp(h) \/ CheckExclusive(h) \/ ReadForUse(h) \/ Use(h)
  \/ UseRefused(h) \/ FetchAfterUse(h) \/ Save(h) \/ ReadForRelease(h) \/ Release(h)
  \/ ReleaseFails(h)

Next ==
  \/ \E h \in Handler : Request(h) \/ Progress(h) \/ SaveFails(h) \/ Timeout(h)
  \/ \E i \in Instruction : OwnerEdits(i) \/ Lapse(i)
  \/ Crash

Spec == Init /\ [][Next]_vars

(* A handler that can go on does; clients, owners, clocks and faults are   *)
(* under no obligation.                                                    *)
FairSpec == Spec /\ \A h \in Handler : WF_vars(Progress(h))

-----------------------------------------------------------------------------
(* Properties. *)

TypeOK ==
  /\ instrs \in [Instruction -> Seq(InstructionVersion)]
  /\ lapsed \subseteq Instruction
  /\ payments \in [Payment -> Seq(PaymentVersion)]
  /\ pc \in [Handler -> Phase]
  /\ ctx \in [Handler -> Context \cup {Null}]
  /\ \A h \in Handler : pc[h] # "idle" => ctx[h] \in Context
  /\ requests \in 0..MaxRequest[overlap]

Versions(s) == {s[k] : k \in 1..Len(s)}

(* A SINGLE_USE payment is submitted only on an instruction that was       *)
(* marked for this very payment, whatever overlaps and fails (submit).     *)
SubmittedBacked ==
  \A p \in Payment : \A b \in Versions(payments[p]) :
    b.status = "SUBMITTED" /\ b.kind = "SINGLE_USE" =>
      \E n \in 1..Len(instrs[b.inst]) :
        /\ n <= b.iver
        /\ instrs[b.inst][n].call = "use" /\ instrs[b.inst][n].ref = p

(* An instruction is released only for a payment that was submitted and    *)
(* already stored as withdrawn (_try_release_single_use_instruction).      *)
ReleasedAfterWithdrawal ==
  \A i \in Instruction : \A n \in 1..Len(instrs[i]) :
    instrs[i][n].call = "release" =>
      \E b \in Versions(payments[instrs[i][n].ref]) : Releases(b) /\ b.inst = i

(* While the requests for one document do not overlap, a payment that is   *)
(* rejected, cancelled or approved stays so - also when calls are carried  *)
(* out late and the process dies in between.                               *)
TerminalIsFinal ==
  ~overlap => \A p \in Payment : \A k \in 1..Len(payments[p]) :
    payments[p][k].status \in {"APPROVED", "REJECTED", "CANCELLED"} => k = Len(payments[p])

(* ... and a SINGLE_USE instruction backs at most one payment that is      *)
(* submitted or approved, although the check in submit and the USE call    *)
(* are not one step.                                                       *)
SingleUse ==
  ~overlap => \A p, q \in Payment :
    (/\ p # q /\ payments[p] # <<>> /\ payments[q] # <<>>
     /\ Newest(payments[p]).kind = "SINGLE_USE" /\ Newest(payments[q]).kind = "SINGLE_USE"
     /\ Newest(payments[p]).inst = Newest(payments[q]).inst)
    => \/ Newest(payments[p]).status \notin {"SUBMITTED", "APPROVED"}
       \/ Newest(payments[q]).status \notin {"SUBMITTED", "APPROVED"}

(* ... and a payment is approved on the very version of the instruction it *)
(* was submitted on: its own use, or the same approved standing version    *)
(* (_check_instruction_validity_for_approval).                             *)
ApprovedOnOwnTerms ==
  ~overlap => \A p \in Payment : \A k \in 1..Len(payments[p]) :
    LET b == payments[p][k] IN
    b.status = "APPROVED" =>
      /\ b.iver <= Len(instrs[b.inst])
      /\ LET v == instrs[b.inst][b.iver] IN
           IF b.kind = "SINGLE_USE" THEN HeldBy(v, p)
           ELSE v.status = "APPROVED" /\ v.kind = "STANDING"
      /\ k > 1 /\ payments[p][k-1].status = "SUBMITTED" /\ payments[p][k-1].iver = b.iver

(* Without faults and overlaps, the instruction of a payment that somebody *)
(* rejected or cancelled is released.                                      *)
WithdrawalReleases ==
  \A p \in Payment :
    (payments[p] # <<>> /\ Releases(Newest(payments[p])))
      ~> \A i \in Instruction : ~HeldBy(Newest(instrs[i]), p)

-----------------------------------------------------------------------------
(* The inductive invariant.  First what holds whatever overlaps: what a    *)
(* request, at a phase with a context, knows of the versions s of its      *)
(* instruction and r of its payment.                                       *)

(* The statuses an operation starts from, and those it saves.              *)
From(op) ==
  CASE op \in {"UPDATE", "SUBMIT"} -> {"DRAFT"}
    [] op \in {"APPROVE", "REJECT"} -> {"SUBMITTED"}
    [] OTHER -> {"DRAFT", "SUBMITTED"}

Saves(op) ==
  CASE op \in {"CREATE", "UPDATE"} -> {"DRAFT"}
    [] op = "SUBMIT" -> {"SUBMITTED"}
    [] op = "APPROVE" -> {"APPROVED", "CANCELLED"}
    [] op = "REJECT" -> {"REJECTED"}
    [] OTHER -> {"CANCELLED"}

(* A use for payment p is among the first n of the versions s.             *)
UsedWithin(s, p, n) == \E k \in 1..n : s[k].call = "use" /\ s[k].ref = p

(* b notes a version of its instruction; once submitted, one after the use.*)
Noted(b, p, s) ==
  /\ b.iver \in 1..Len(s)
  /\ b.status = "SUBMITTED" /\ b.kind = "SINGLE_USE" => UsedWithin(s, p, b.iver)

Withdrawn(r, i) == \E k \in 1..Len(r) : Releases(r[k]) /\ r[k].inst = i

VersionsKnown ==
  /\ overlap \in Overlaps
  /\ \A i \in Instruction : instrs[i] # <<>>
  /\ \A p \in Payment : \A k \in 1..Len(payments[p]) :
       Noted(payments[p][k], p, instrs[payments[p][k].inst])
  /\ \A i \in Instruction : \A n \in 1..Len(instrs[i]) : instrs[i][n].call = "release" =>
       instrs[i][n].ref \in Payment /\ Withdrawn(payments[instrs[i][n].ref], i)

(* Which operation is where, with what in hand.                            *)
Placed(at, c) ==
  /\ ~c.waits => at \in Calls
  /\ at \in {"checking", "using", "useRead", "used"} => c.op = "SUBMIT" /\ c.body.kind = "SINGLE_USE"
  /\ c.op = "CREATE" => at = "ready"
  /\ at = "ready" => c.body.status \in Saves(c.op)
  /\ at \in {"loaded", "checking", "using", "useRead", "used"} => c.body.status \in From(c.op)

Informed(at, c, s, r) ==
  /\ Noted(c.body, c.p, s)
  /\ at \in {"useRead", "releaseRead"} => c.read \in 1..Len(s)
  /\ at = "used" => UsedWithin(s, c.p, Len(s))
  /\ at \in {"releasing", "releaseRead"} => Releases(c.body) /\ Withdrawn(r, c.body.inst)

RequestsSound ==
  \A h \in Handler : pc[h] # "idle" =>
    Placed(pc[h], ctx[h]) /\ Informed(pc[h], ctx[h], instrs[Inst(h)], payments[ctx[h].p])

GrowInv == TypeOK /\ VersionsKnown /\ RequestsSound

(* What holds besides while requests for one document do not overlap: of a *)
(* request, with I all the instructions and P all the payments.            *)

Works(at, c) == at # "idle" /\ c.waits
Before(at, c) == Works(at, c) /\ at \notin {"releasing", "releaseRead"}
Reads(at) == at \in {"useRead", "releaseRead"}

(* A single-use submission past its check, and past its use; an approval   *)
(* about to be saved.                                                      *)
Submitting(c) == c.op = "SUBMIT" /\ c.body.kind = "SINGLE_USE"
Passed(at, c) == Works(at, c) /\ Submitting(c) /\ at \in {"using", "useRead", "used", "ready"}
Marked(at, c) == at \in {"used", "ready"} /\ Submitting(c)
Approving(at, c) == at = "ready" /\ c.op = "APPROVE" /\ c.body.status = "APPROVED"

(* The payment depends on a use of its instruction.                        *)
Dependent(r, statuses) ==
  r # <<>> /\ Newest(r).kind = "SINGLE_USE" /\ Newest(r).status \in statuses

(* The newest version is that use, unless the instruction is not           *)
(* SINGLE_USE any more.                                                    *)
KeptFor(s, p) ==
  Newest(s).status # "DRAFT" /\ (Newest(s).kind = "SINGLE_USE" => HeldBy(Newest(s), p))

(* A request works from the newest version of its payment.                 *)
Based(c, r) ==
  IF c.op = "CREATE" THEN r = <<>>
  ELSE /\ r # <<>> /\ Newest(r).status \in From(c.op)
       /\ Newest(r).inst = c.body.inst /\ Newest(r).kind = c.body.kind
       /\ c.op = "APPROVE" => Newest(r).iver = c.body.iver

(* A call works from the newest version of its instruction.                *)
Fresh(at, c, s) ==
  /\ c.read = Len(s)
  /\ IF at = "useRead" THEN Newest(s).status = "APPROVED" ELSE HeldBy(Newest(s), c.p)

(* What an approval rests on.                                              *)
Terms(b, p, s) ==
  LET v == s[b.iver] IN
  IF b.kind = "SINGLE_USE" THEN HeldBy(v, p) ELSE v.status = "APPROVED" /\ v.kind = "STANDING"

Solo(at, c, I, P) ==
  LET s == I[c.body.inst] IN
  /\ Before(at, c) => Based(c, P[c.p])
  /\ Reads(at) => Fresh(at, c, s)
  /\ Marked(at, c) => KeptFor(s, c.p)
  /\ Approving(at, c) =>
       Terms(c.body, c.p, s) /\ (c.body.kind = "SINGLE_USE" => Newest(s).kind = "SINGLE_USE")
  /\ Passed(at, c) => \A q \in Payment \ {c.p} :
       Dependent(P[q], {"SUBMITTED"}) => Newest(P[q]).inst # c.body.inst

(* Two requests do not work on one payment, nor two calls on one           *)
(* instruction; and one of an instruction's payments is past the check.    *)
Apart(at, c, by, d) ==
  /\ Works(at, c) /\ Works(by, d) => c.p # d.p
  /\ (Reads(at) /\ Reads(by)) \/ (Passed(at, c) /\ Passed(by, d)) => c.body.inst # d.body.inst

SoloRequests ==
  /\ \A h \in Handler : pc[h] # "idle" => Solo(pc[h], ctx[h], instrs, payments)
  /\ \A g, h \in Handler : g # h /\ pc[g] # "idle" /\ pc[h] # "idle" =>
       Apart(pc[g], ctx[g], pc[h], ctx[h])

SoloPayments ==
  /\ IsFiniteSet({p \in Payment : payments[p] # <<>>})
  /\ \A p \in Payment : Dependent(payments[p], {"SUBMITTED", "APPROVED"}) =>
       KeptFor(instrs[Newest(payments[p]).inst], p)
  /\ \A p \in Payment : Dependent(payments[p], {"APPROVED"}) =>
       Newest(instrs[Newest(payments[p]).inst]).kind = "SINGLE_USE"
  /\ \A p, q \in Payment :
       p # q /\ Dependent(payments[p], {"SUBMITTED"}) /\ Dependent(payments[q], {"SUBMITTED"})
       => Newest(payments[p]).inst # Newest(payments[q]).inst
  /\ TerminalIsFinal /\ ApprovedOnOwnTerms

SoloInv == ~overlap => SoloRequests /\ SoloPayments

-----------------------------------------------------------------------------
(* A promise of the documentation that the code does not keep. *)

AllIdle == \A h \in Handler : pc[h] = "idle"

(* "Reject, cancel, or system-cancel on approve triggers instruction       *)
(* RELEASE_USE" (README of payment-service).                               *)
CancelReleases ==
  AllIdle => \A i \in Instruction, p \in Payment :
    HeldBy(Newest(instrs[i]), p) => Newest(payments[p]).status # "CANCELLED"
=============================================================================
