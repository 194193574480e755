------------------------------ MODULE DemoHarness ------------------------------
(* The demo harness: an administrator's console that lists documents, picks    *)
(* from a cached directory somebody who should be able to act on each, logs in *)
(* as that user and calls the services.  It judges who may act by its own copy *)
(* of the rules; the services ask the policy (LifecyclePolicy) about the live  *)
(* profile.  Other clients act, and profiles change, between any two calls.    *)
(*   insts  instructions, as LifecyclePolicy has them, with a version ver      *)
(*   pays   payments [status, amount, lob, by, of, iver, submitted]: of is the *)
(*          instruction, iver its version as the payment noted it              *)
EXTENDS Authorization

CONSTANTS
  Stores,     \* what the services may hold when the harness is first used
  Admin,      \* the profile of the administrator, who is no User
  DefaultSubmitter, \* submits instructions if nobody may create any ("mo-100")
  BatchSize,  \* documents per batch
  MaxBatches, \* bound: batches and fixtures
  MaxMoves,   \* bound: calls of other clients
  MaxDocs     \* bound: instructions, and payments, but for those of a fixture

ASSUME HarnessAssumption ==
  /\ {BatchSize, MaxBatches, MaxMoves, MaxDocs} \subseteq Nat
  /\ BatchSize # 0
  /\ DefaultSubmitter \in User

VARIABLES
  insts, pays,  \* what the services hold
  batch,        \* the batch at work, see Batch
  fixture,      \* the skill fixture, see Fixture
  used, moves   \* the bounds' counters

hvars == <<insts, pays, batch, fixture, used, moves>>

(************************ The services, for a client ************************)
(* What the services have accepted: the rules of a creation keep to the profit *)
(* centres and to three years, and a payment has the LOB of its instruction.   *)
Stored(is, ps) ==
  /\ is \in Seq(Range(is)) /\ ps \in Seq(Range(ps))
  /\ \A k \in DOMAIN is :
       /\ DOMAIN is[k] = {"status", "type", "lob", "account", "by", "title", "supervisor",
                          "suspended", "long", "ended", "ver"}
       /\ is[k].lob \in ProfitCenters /\ ~is[k].long
  /\ \A k \in DOMAIN ps :
       /\ DOMAIN ps[k] = {"status", "amount", "lob", "by", "of", "iver", "submitted"}
       /\ ps[k].of \in DOMAIN is /\ ps[k].lob = is[ps[k].of].lob /\ ps[k].amount \in Nat

ASSUME StoresAssumption == \A s \in Stores : Stored(s.insts, s.pays)

Live(u) == Subject(u, zitadel[u], {})
PaymentDoc(p) ==
  [status |-> p.status, amount |-> p.amount, lob |-> p.lob, by |-> p.by,
   backing |-> insts[p.of].status, type |-> insts[p.of].type, ended |-> insts[p.of].ended]

StatusAfter == [SUBMIT |-> "SUBMITTED", APPROVE |-> "APPROVED", REJECT |-> "REJECTED",
          CANCEL |-> "CANCELLED", SUSPEND |-> "SUSPENDED", REACTIVATE |-> "APPROVED"]
Answer(ok, is, ps) == [ok |-> ok, insts |-> is, pays |-> ps]
Refusal == Answer(FALSE, insts, pays)

Moved(i, status) == [i EXCEPT !.status = status, !.ver = @ + 1]
CallInstructionService(a, s, k) ==
  IF InstructionAllow(a, s, insts[k])
  THEN Answer(TRUE,
         [insts EXCEPT ![k] = [Moved(@, StatusAfter[a]) EXCEPT
            !.suspended = IF a = "SUSPEND" THEN s.user ELSE Absent]], pays)
  ELSE Refusal

(* The payment-service reads the instruction as the user, cancels a payment    *)
(* whose instruction changed instead of approving it, and answers with the     *)
(* cancelled payment and no error; it marks a SINGLE_USE instruction on        *)
(* submission and releases it on a withdrawal.                                 *)
Valid(p) == p.iver = insts[p.of].ver /\ ~insts[p.of].ended
            /\ PaymentFact("backing_valid", "APPROVE", Admin, PaymentDoc(p))
Alone(k) == \A j \in DOMAIN pays : j # k /\ pays[j].of = pays[k].of
                                     => pays[j].status \notin {"DRAFT", "SUBMITTED"}
Marks(a, p) == a = "SUBMIT" /\ insts[p.of].type = "SINGLE_USE"
CallPaymentService(a, s, k) ==
  LET p == pays[k]
      i == insts[p.of]
      d == PaymentDoc(p)
      to(status) == [pays EXCEPT ![k].status = status]
      marked == [insts EXCEPT ![p.of] = Moved(@, "USED")]
      freed == IF p.submitted /\ i.type = "SINGLE_USE" /\ i.status = "USED"
               THEN [insts EXCEPT ![p.of] = Moved(@, "APPROVED")] ELSE insts
      open == IF a \in {"APPROVE", "REJECT"} THEN {"SUBMITTED"}
              ELSE IF a = "CANCEL" THEN {"DRAFT", "SUBMITTED"} ELSE {"DRAFT"}
  IN CASE p.status \notin open \/ ~InstructionAllow("VIEW", s, i) -> Refusal
       [] OTHER ->
            IF a = "APPROVE" /\ ~Valid(p) THEN Answer(TRUE, insts, to("CANCELLED"))
            ELSE IF \/ ~PaymentAllow(a, s, d)
                    \/ Marks(a, p) /\ ~Alone(k)
                    \/ Marks(a, p) /\ ~InstructionAllow("USE",
                                         [s EXCEPT !.delegates = ServiceRoles["payment"]], i)
            THEN Refusal
            ELSE CASE a = "SUBMIT" ->
                        LET is == IF Marks(a, p) THEN marked ELSE insts
                        IN Answer(TRUE, is, [pays EXCEPT ![k] =
                             [@ EXCEPT !.status = "SUBMITTED", !.submitted = TRUE,
                                       !.iver = is[p.of].ver]])
                   [] a = "APPROVE" -> Answer(TRUE, insts, to("APPROVED"))
                   [] a \in {"REJECT", "CANCEL"} -> Answer(TRUE, freed, to(StatusAfter[a]))

(********************** Who the harness thinks may act **********************)
(* The harness keeps the approval matrix and the rules of the approvals a      *)
(* second time; seen is its copy of the directory.                             *)
HarnessMatrix(creator) ==
  CASE creator = "Analyst" -> {"Associate", "Vice President", "Managing Director", "Partner"}
    [] creator = "Associate" -> {"Vice President", "Managing Director", "Partner"}
    [] creator = "Vice President" -> {"Managing Director", "Partner"}
    [] creator = "Managing Director" -> {"Partner"}
    [] OTHER -> {}

Clear(seen, u, creator) == u # creator /\ seen[u].supervisor # creator

(* Faulty variant: the creator's supervisor is not left out.                   *)
InstructionApprovers_Supervisor(seen, lob, by, title, supervisor) ==
  {u \in User : /\ "INSTRUCTION_APPROVER" \in seen[u].roles /\ seen[u].lob = lob
                /\ seen[u].title \in HarnessMatrix(title) /\ Clear(seen, u, by)}

InstructionApprovers(seen, lob, by, title, supervisor) ==
  {u \in User : /\ "INSTRUCTION_APPROVER" \in seen[u].roles /\ seen[u].lob = lob
                /\ seen[u].title \in HarnessMatrix(title) /\ Clear(seen, u, by)
                /\ u # supervisor}
ApproversOf(seen, i) == InstructionApprovers(seen, i.lob, i.by, i.title, i.supervisor)

InstructionCreators(seen) == {u \in User : "INSTRUCTION_CREATOR" \in seen[u].roles}
InstructionSubmitters(seen) ==
  IF InstructionCreators(seen) = {} THEN {DefaultSubmitter} ELSE InstructionCreators(seen)
HarnessLobs == {"FICC", "FX", "DESK_RATES"}
SeedPairs(seen) ==
  {x \in InstructionCreators(seen) \X HarnessLobs :
     InstructionApprovers(seen, x[2], x[1], seen[x[1]].title, seen[x[1]].supervisor) # {}}

Limits(p) == {ClubLimit[c] : c \in p.groups \cap Clubs}
WithinLimit(p, amount) == \E l \in Limits(p) : amount <= l
MiddleOffice(seen, role) ==
  {u \in User : role \in seen[u].roles /\ "MIDDLE_OFFICE" \in seen[u].groups}
PaymentRejectors(seen, p) == {u \in MiddleOffice(seen, "FUNDING_APPROVER") : p.lob \in seen[u].covers}
PaymentApprovers(seen, p) ==
  {u \in PaymentRejectors(seen, p) : WithinLimit(seen[u], p.amount) /\ Clear(seen, u, p.by)}
PaymentSubmitters(seen, lob) ==
  {u \in User : "PAYMENT_CREATOR" \in seen[u].roles /\ seen[u].lob = lob}

(* An update takes the administrator's amount (0: none is given), or else a    *)
(* higher one within the limit of the creator, or within the largest of the    *)
(* clubs' if the creator has none: a tier, all of which the smallest club      *)
(* covers, or a quarter more, which reaches the next club's amounts at most.   *)
(* Amounts differ by the clubs that cover them, so a higher one may be of the  *)
(* same club; the update is skipped if the amount stays.                       *)
WithinCap(seen, p, amount) ==
  IF Limits(seen[p.by]) = {} THEN amount <= AbsoluteLimit ELSE WithinLimit(seen[p.by], amount)
Overrides == 0 .. AbsoluteLimit + 1
NewAmounts(seen, p, override) ==
  IF override > 0 THEN {override}
  ELSE {a \in 1 .. AbsoluteLimit : a \in {p.amount, p.amount + 1} /\ WithinCap(seen, p, a)}
Stays(seen, p, override) ==
  IF override > 0 THEN p.amount = override ELSE ~WithinCap(seen, p, p.amount + 1)

(******************************** Batches ***********************************)
(* kind     the console's action                                               *)
(* listed   the documents to work on, as they were listed                      *)
(* left     those still to come, seen the harness's copy of the directory      *)
(* all      everything that was listed                                         *)
(* submitter  submits instructions, where the batch does                       *)
(* refused  ghost: what was refused, and to whom it was                        *)
(* calm     ghost: nobody else has acted since, and the copy is up to date     *)
Batch == [pc |-> "idle"]
InstructionBatch ==
  [submit_instructions |-> {"DRAFT"}, approve_instructions |-> {"DRAFT", "SUBMITTED"},
   reject_instructions |-> {"SUBMITTED"}, suspend_instructions |-> {"APPROVED"},
   reactivate_instructions |-> {"SUSPENDED"}]
PaymentBatch ==
  [submit_payments |-> {"DRAFT"}, update_payments |-> {"DRAFT"},
   approve_payments |-> {"SUBMITTED"}, reject_payments |-> {"SUBMITTED"}]

(* Faulty variant: the documents nobody can approve are not put last.          *)
First_Unsorted(kind, seen, all) == {s \in SUBSET DOMAIN all : TRUE}

(* The documents a batch may take first: the approvals put those for which     *)
(* there is an approver before those for which there is none.                  *)
Approvable(kind, seen, d) ==
  IF kind = "approve_instructions" THEN ApproversOf(seen, d) # {} ELSE PaymentApprovers(seen, d) # {}
First(kind, seen, all) ==
  {s \in SUBSET DOMAIN all :
     kind \in {"approve_instructions", "approve_payments"} =>
       \A j \in s, k \in DOMAIN all \ s :
         Approvable(kind, seen, all[k]) => Approvable(kind, seen, all[j])}

(* Rests of the system, while the harness is at work: see HarnessNext.         *)
Ready == batch.pc = "idle" /\ fixture.pc \in {"none", "ready", "failed", "torn"}
Engage == used < MaxBatches /\ used' = used + 1
Copies == {zitadel, [u \in User |-> Profiles[u][1]]}
Select(docs, statuses) == [k \in {j \in DOMAIN docs : docs[j].status \in statuses} |-> docs[k]]

List(kind, all) ==
  \E seen \in Copies :
    \E s \in {x \in First(kind, seen, all) :
                 IF x = DOMAIN all THEN Cardinality(x) <= BatchSize ELSE Cardinality(x) = BatchSize} :
      \E submitter \in InstructionSubmitters(seen) :
        batch' = [pc |-> "working", kind |-> kind, all |-> all, left |-> s, seen |-> seen,
                  submitter |-> submitter, calm |-> seen = zitadel, refused |-> {},
                  succeeded |-> 0, failed |-> 0, skipped |-> 0, item |-> 0, actor |-> Absent]

StartBatch(kind) ==
  /\ Ready /\ Engage
  /\ IF kind \in DOMAIN InstructionBatch THEN List(kind, Select(insts, InstructionBatch[kind]))
     ELSE List(kind, Select(pays, PaymentBatch[kind]))
  /\ UNCHANGED <<insts, pays, fixture, moves>>

Tally(b, k, u, ok) ==
  IF ok THEN [b EXCEPT !.pc = "working", !.left = @ \ {k}, !.succeeded = @ + 1]
  ELSE [b EXCEPT !.pc = "working", !.left = @ \ {k}, !.failed = @ + 1,
                 !.refused = @ \cup {[doc |-> k, user |-> u]}]

(* Nobody to act as: an approval or rejection counts as skipped and failed, a  *)
(* submission as failed.                                                       *)
Skip(b, k) ==
  [b EXCEPT !.left = @ \ {k}, !.failed = @ + 1,
            !.skipped = IF b.kind = "submit_payments" THEN @ ELSE @ + 1]

Stir(r) == IF "calm" \in DOMAIN r THEN [r EXCEPT !.calm = FALSE] ELSE r
Call(a) == insts' = a.insts /\ pays' = a.pays

(* One document of a batch: nobody to act as, or a call as one of who.         *)
Take(kind, k) == batch.pc = "working" /\ batch.kind = kind /\ k \in batch.left
Finish(k, u, a) == Call(a) /\ batch' = Tally(batch, k, u, a.ok)
Attempt(k, who, Service(_)) ==
  \/ who = {} /\ batch' = Skip(batch, k) /\ UNCHANGED <<insts, pays>>
  \/ \E u \in who : Finish(k, u, Service(u))

SubmitItem(k) ==
  /\ Take("submit_instructions", k)
  /\ Finish(k, batch.submitter, CallInstructionService("SUBMIT", Live(batch.submitter), k))
  /\ UNCHANGED <<fixture, used, moves>>

RejectItem(k) ==
  /\ Take("reject_instructions", k)
  /\ LET service(u) == CallInstructionService("REJECT", Live(u), k)
     IN Attempt(k, ApproversOf(batch.seen, batch.all[k]), service)
  /\ UNCHANGED <<fixture, used, moves>>

(* A draft that is to be approved is first submitted by the batch's submitter. *)
ApproveItem(k) ==
  /\ Take("approve_instructions", k)
  /\ LET d == batch.all[k]
         who == ApproversOf(batch.seen, d)
         service(u) == CallInstructionService("APPROVE", Live(u), k)
         submit == CallInstructionService("SUBMIT", Live(batch.submitter), k)
     IN IF who = {} \/ d.status = "SUBMITTED" THEN Attempt(k, who, service)
        ELSE IF ~submit.ok THEN Finish(k, batch.submitter, submit)
        ELSE \E u \in who : Call(submit) /\ batch' = [batch EXCEPT !.pc = "second", !.item = k, !.actor = u]
  /\ UNCHANGED <<fixture, used, moves>>

(* Suspensions and reactivations are called as the administrator.              *)
SuspendItem(k) ==
  /\ Take("suspend_instructions", k)
  /\ Finish(k, "admin", CallInstructionService("SUSPEND", Subject("admin", Admin, {}), k))
  /\ UNCHANGED <<fixture, used, moves>>
ReactivateItem(k) ==
  /\ Take("reactivate_instructions", k)
  /\ LET a == CallInstructionService("REACTIVATE", Subject("admin", Admin, {}), k)
     IN Finish(k, "admin", a) /\ fixture' = IF a.ok THEN Stir(fixture) ELSE fixture
  /\ UNCHANGED <<used, moves>>

ApproveSubmitted ==
  /\ batch.pc = "second"
  /\ LET a == CallInstructionService("APPROVE", Live(batch.actor), batch.item)
     IN Call(a) /\ batch' = Tally(batch, batch.item, batch.actor, a.ok)
  /\ UNCHANGED <<fixture, used, moves>>

SubmitPaymentItem(k) ==
  /\ Take("submit_payments", k)
  /\ LET service(u) == CallPaymentService("SUBMIT", Live(u), k)
     IN Attempt(k, PaymentSubmitters(batch.seen, batch.all[k].lob), service)
  /\ UNCHANGED <<fixture, used, moves>>
ApprovePaymentItem(k) ==
  /\ Take("approve_payments", k)
  /\ LET service(u) == CallPaymentService("APPROVE", Live(u), k)
     IN Attempt(k, PaymentApprovers(batch.seen, batch.all[k]), service)
  /\ UNCHANGED <<fixture, used, moves>>
RejectPaymentItem(k) ==
  /\ Take("reject_payments", k)
  /\ LET service(u) == CallPaymentService("REJECT", Live(u), k)
     IN Attempt(k, PaymentRejectors(batch.seen, batch.all[k]), service)
  /\ UNCHANGED <<fixture, used, moves>>

UpdateItem(k) ==
  /\ Take("update_payments", k)
  /\ \E override \in Overrides :
       \/ /\ Stays(batch.seen, batch.all[k], override)
          /\ batch' = [batch EXCEPT !.left = @ \ {k}, !.skipped = @ + 1]
          /\ UNCHANGED pays
       \/ \E amount \in NewAmounts(batch.seen, batch.all[k], override) :
            LET p == pays[k]
                new == [p EXCEPT !.amount = amount, !.iver = insts[p.of].ver]
                ok == /\ InstructionAllow("VIEW", Live(p.by), insts[p.of])
                      /\ PaymentAllow("UPDATE", Live(p.by), PaymentDoc(new))
            IN /\ batch' = Tally(batch, k, p.by, ok)
               /\ pays' = IF ok THEN [pays EXCEPT ![k] = new] ELSE pays
  /\ UNCHANGED <<insts, fixture, used, moves>>

EndBatch ==
  /\ batch.pc = "working" /\ batch.left = {}
  /\ batch' = [batch EXCEPT !.pc = "done"]
  /\ UNCHANGED <<insts, pays, fixture, used, moves>>
CloseBatch ==
  /\ batch.pc = "done" /\ batch' = Batch
  /\ UNCHANGED <<insts, pays, fixture, used, moves>>

(* Creations, one document per batch: the only row of an instruction plan is a *)
(* standing one if it can be FICC, and planning fails if nobody's instruction  *)
(* could be approved.                                                          *)
NewInstruction(u, lob, type) ==
  [status |-> "DRAFT", type |-> type, lob |-> lob, account |-> lob, by |-> u,
   title |-> zitadel[u].title, supervisor |-> zitadel[u].supervisor, suspended |-> Absent,
   long |-> FALSE, ended |-> FALSE, ver |-> 1]
CreateInstructionCall(u, lob, type) ==
  LET i == NewInstruction(u, lob, type)
  IN IF InstructionAllow("CREATE", Live(u), i) THEN Answer(TRUE, Append(insts, i), pays) ELSE Refusal

NewPayment(u, k, amount) ==
  [status |-> "DRAFT", amount |-> amount, lob |-> insts[k].lob, by |-> u, of |-> k,
   iver |-> insts[k].ver, submitted |-> FALSE]
CreatePaymentCall(u, k, amount) ==
  LET p == NewPayment(u, k, amount)
  IN IF InstructionAllow("VIEW", Live(u), insts[k]) /\ PaymentAllow("CREATE", Live(u), PaymentDoc(p))
     THEN Answer(TRUE, insts, Append(pays, p)) ELSE Refusal

Report(kind, seen, refused, succeeded, failed) ==
  batch' = [pc |-> "done", kind |-> kind, all |-> <<>>, seen |-> seen, calm |-> seen = zitadel,
            refused |-> refused, succeeded |-> succeeded, failed |-> failed, skipped |-> 0]
Created(kind, seen, k, u, ok) ==
  IF ok THEN Report(kind, seen, {}, 1, 0)
  ELSE Report(kind, seen, {[doc |-> k, user |-> u]}, 0, 1)

CreateInstructions ==
  /\ Ready /\ Engage /\ Len(insts) < MaxDocs
  /\ \E seen \in Copies : \E x \in SeedPairs(seen), type \in {"STANDING", "SINGLE_USE"} :
       /\ (\E y \in SeedPairs(seen) : y[2] = "FICC") => x[2] = "FICC" /\ type = "STANDING"
       /\ LET a == CreateInstructionCall(x[1], x[2], type)
          IN Call(a) /\ Created("create_instructions", seen, 0, x[1], a.ok)
  /\ UNCHANGED <<fixture, moves>>

(* A payment goes against a standing approved instruction, if there is one,    *)
(* that its creator covers, for an amount of a tier.  There may be nothing to  *)
(* pay against, nobody to pay, or nothing that the creator covers.             *)
CreatePayments ==
  /\ Ready /\ Engage /\ Len(pays) < MaxDocs
  /\ \E seen \in Copies :
       LET approved == {k \in DOMAIN insts : insts[k].status = "APPROVED"}
           standing == {k \in approved : insts[k].type = "STANDING"}
           pool == IF standing # {} THEN standing ELSE approved
           payers == MiddleOffice(seen, "PAYMENT_CREATOR")
           matching(u) == {k \in pool : insts[k].lob \in seen[u].covers}
       IN \/ /\ pool = {} \/ payers = {}
             /\ Report("create_payments", seen, {}, 0, 0) /\ UNCHANGED <<insts, pays>>
          \/ /\ pool # {} /\ \E u \in payers : matching(u) = {}
             /\ Report("create_payments", seen, {}, 0, 1) /\ UNCHANGED <<insts, pays>>
          \/ \E u \in payers : \E k \in matching(u) :
               LET a == CreatePaymentCall(u, k, 1)
               IN Call(a) /\ Created("create_payments", seen, k, u, a.ok)
  /\ UNCHANGED <<fixture, moves>>

(***************************** Skill fixtures *******************************)
(* pc         the next call of setup or of teardown                            *)
(* inst       the instruction setup made (0: none), passed says it is approved *)
(* made       the payments setup made, known those teardown is told of         *)
(* unsent     ghost: those of them whose submission was refused                *)
(* payer, suspender   whom setup acted as, and teardown will                   *)
(* calm       ghost: since teardown began nobody else has acted, nothing was   *)
(*            reactivated, and profiles are what setup saw                     *)
Fixture == [pc |-> "none"]
Needs == {"instruction", "draft", "submitted", "suspended", "used_single_use", "seed"}
FixtureType(need) == IF need = "used_single_use" THEN "SINGLE_USE" ELSE "STANDING"

Suspenders(seen) ==
  {u \in User : /\ "INSTRUCTION_APPROVER" \in seen[u].roles /\ seen[u].lob = "FICC"
                /\ seen[u].title = "Managing Director"}
FixturePayers(seen) == {u \in MiddleOffice(seen, "PAYMENT_CREATOR") : "FICC" \in seen[u].covers}
OrNone(us) == IF us = {} THEN {Absent} ELSE us

(* setup_skill_fixture creates a FICC instruction; seed_skill_fixtures is the  *)
(* need "seed": a draft, then a second payment that is submitted.              *)
SetUp(need) ==
  /\ Ready /\ Engage /\ fixture.pc = "none"
  /\ \E seen \in Copies : \E x \in {y \in SeedPairs(seen) : y[2] = "FICC"} :
       LET a == CreateInstructionCall(x[1], "FICC", FixtureType(need))
       IN \E payer \in OrNone(FixturePayers(seen)), suspender \in OrNone(Suspenders(seen)) :
            /\ Call(a)
            /\ fixture' = [pc |-> IF a.ok THEN "submit" ELSE "failed", need |-> need,
                           seen |-> seen, by |-> x[1], inst |-> Len(a.insts), passed |-> FALSE,
                           made |-> {}, known |-> {}, unsent |-> {}, payer |-> payer,
                           suspender |-> suspender, calm |-> FALSE]
  /\ UNCHANGED <<batch, moves>>

Go(a, to) == Call(a) /\ fixture' = [fixture EXCEPT !.pc = IF a.ok THEN to ELSE "failed"]

SubmitFixture ==
  /\ fixture.pc = "submit"
  /\ Go(CallInstructionService("SUBMIT", Live(fixture.by), fixture.inst), "approve")
  /\ UNCHANGED <<batch, used, moves>>

ApproveFixture ==
  /\ fixture.pc = "approve"
  /\ LET f == fixture
         creator == f.seen[f.by]
     IN \E u \in InstructionApprovers(f.seen, "FICC", f.by, creator.title, creator.supervisor) :
          LET a == CallInstructionService("APPROVE", Live(u), f.inst)
          IN /\ Call(a)
             /\ fixture' = [f EXCEPT !.passed = a.ok,
                  !.pc = CASE ~a.ok -> "failed"
                           [] f.need = "instruction" -> "ready"
                           [] f.need = "suspended" -> "suspend"
                           [] OTHER -> "pay"]
  /\ UNCHANGED <<batch, used, moves>>

SuspendFixture ==
  /\ fixture.pc = "suspend"
  /\ IF fixture.suspender = Absent
     THEN fixture' = [fixture EXCEPT !.pc = "failed"] /\ UNCHANGED <<insts, pays>>
     ELSE Go(CallInstructionService("SUSPEND", Live(fixture.suspender), fixture.inst), "ready")
  /\ UNCHANGED <<batch, used, moves>>

(* The draft's id is told at once if the draft is what was needed.             *)
PayFixture ==
  /\ fixture.pc \in {"pay", "pay2"}
  /\ IF fixture.payer = Absent
     THEN fixture' = [fixture EXCEPT !.pc = "failed"] /\ UNCHANGED <<insts, pays>>
     ELSE LET a == CreatePaymentCall(fixture.payer, fixture.inst, 1)
              first == fixture.pc = "pay"
              told == first /\ fixture.need \in {"draft", "seed"}
          IN /\ Call(a)
             /\ fixture' = IF a.ok
                  THEN [fixture EXCEPT !.made = @ \cup {Len(a.pays)},
                          !.known = IF told THEN @ \cup {Len(a.pays)} ELSE @,
                          !.pc = CASE fixture.need = "draft" -> "ready"
                                   [] fixture.need = "seed" /\ first -> "pay2"
                                   [] OTHER -> "send"]
                  ELSE [fixture EXCEPT !.pc = "failed"]
  /\ UNCHANGED <<batch, used, moves>>

(* Faulty variant: only a payment that was submitted is told.                  *)
Told_Submitted(need, ok) == ok

(* Whether teardown is told of the payment that was to be submitted: the       *)
(* setup also tells when the submission fails, the seeding uses another key.   *)
Told(need, ok) == ok \/ need # "seed"

(* Without a submitter in the directory the setup raises: nothing it made is   *)
(* known to anybody any more.                                                  *)
SendFixture ==
  /\ fixture.pc = "send"
  /\ LET k == Len(pays)
         us == PaymentSubmitters(fixture.seen, "FICC")
     IN \/ us = {} /\ fixture' = Fixture /\ UNCHANGED <<insts, pays>>
        \/ \E u \in us :
             LET a == CallPaymentService("SUBMIT", Live(u), k)
             IN /\ Call(a)
                /\ fixture' = [fixture EXCEPT !.pc = IF a.ok THEN "ready" ELSE "failed",
                                 !.known = IF Told(fixture.need, a.ok) THEN @ \cup {k} ELSE @,
                                 !.unsent = IF a.ok THEN @ ELSE {k}]
  /\ UNCHANGED <<batch, used, moves>>

(* teardown_skill_fixture; a call that is refused counts as not necessary.     *)
TearDown ==
  /\ batch.pc = "idle" /\ fixture.pc \in {"ready", "failed"}
  /\ fixture' = [fixture EXCEPT !.pc = "cancel", !.calm = fixture.seen = zitadel]
  /\ UNCHANGED <<insts, pays, batch, used, moves>>

CancelFixture(k) ==
  /\ fixture.pc = "cancel" /\ k \in fixture.known
  /\ Call(CallPaymentService("CANCEL", Live(fixture.payer), k))
  /\ fixture' = [fixture EXCEPT !.known = @ \ {k}]
  /\ UNCHANGED <<batch, used, moves>>

(* Only the id of a standing instruction is told.                              *)
DropInstruction ==
  /\ fixture.pc = "cancel" /\ fixture.known = {}
  /\ fixture' = [fixture EXCEPT !.pc = "torn"]
  /\ IF fixture.passed /\ FixtureType(fixture.need) = "STANDING" /\ fixture.suspender # Absent
     THEN Call(CallInstructionService("SUSPEND", Live(fixture.suspender), fixture.inst))
     ELSE UNCHANGED <<insts, pays>>
  /\ UNCHANGED <<batch, used, moves>>

(****************************** Composition *********************************)
(* The console is opened while the services of Authorization are at rest; from *)
(* then on only the directory moves there.                                     *)
AtRest == call.pc = "idle" /\ listing.pc = "idle" /\ StartOfTime /\ Quiet /\ loaded = PolicyFiles
OpenConsole ==
  /\ batch.pc = "closed" /\ AtRest /\ batch' = Batch
  /\ \E s \in Stores : insts' = s.insts /\ pays' = s.pays
  /\ UNCHANGED <<fixture, used, moves>>

(* Bound: when it is opened again, the services hold something else.           *)
CloseConsole ==
  /\ Ready /\ batch' = [pc |-> "closed"] /\ fixture' = Fixture
  /\ insts' = <<>> /\ pays' = <<>> /\ used' = 0 /\ moves' = 0

Working == batch.pc \in {"working", "second"} \/ fixture.pc \notin {"none", "ready", "failed", "torn"}
Disturb == batch' = Stir(batch) /\ fixture' = Stir(fixture)

OtherClient ==
  /\ Working /\ moves < MaxMoves /\ moves' = moves + 1 /\ Disturb
  /\ \E u \in User :
       \/ \E k \in DOMAIN insts, a \in DOMAIN StatusAfter :
            LET r == CallInstructionService(a, Live(u), k) IN r.ok /\ Call(r)
       \/ \E k \in DOMAIN pays, a \in {"SUBMIT", "APPROVE", "REJECT", "CANCEL"} :
            LET r == CallPaymentService(a, Live(u), k) IN r.ok /\ Call(r)
  /\ UNCHANGED used

DirectoryMoves ==
  /\ Working /\ \E u \in User : ChangeProfile(u)
  /\ Disturb /\ UNCHANGED <<insts, pays, used, moves>>

BatchKinds == DOMAIN InstructionBatch \cup DOMAIN PaymentBatch
HarnessStep ==
  \/ \E kind \in BatchKinds : StartBatch(kind)
  \/ \E k \in DOMAIN insts :
       SubmitItem(k) \/ ApproveItem(k) \/ RejectItem(k) \/ SuspendItem(k) \/ ReactivateItem(k)
  \/ \E k \in DOMAIN pays :
       \/ SubmitPaymentItem(k) \/ UpdateItem(k) \/ ApprovePaymentItem(k) \/ RejectPaymentItem(k)
       \/ CancelFixture(k)
  \/ \E need \in Needs : SetUp(need)
  \/ ApproveSubmitted \/ EndBatch \/ CloseBatch \/ CreateInstructions \/ CreatePayments
  \/ SubmitFixture \/ ApproveFixture \/ SuspendFixture \/ PayFixture \/ SendFixture
  \/ TearDown \/ DropInstruction \/ OpenConsole \/ CloseConsole \/ OtherClient

HarnessInit ==
  /\ Init /\ insts = <<>> /\ pays = <<>> /\ used = 0 /\ moves = 0
  /\ batch = [pc |-> "closed"] /\ fixture = Fixture

HarnessNext ==
  \/ batch.pc = "closed" /\ Next /\ UNCHANGED hvars
  \/ batch.pc # "closed" /\ DirectoryMoves
  \/ HarnessStep /\ UNCHANGED vars

HarnessSpec ==
  HarnessInit /\ [][HarnessNext]_<<vars, hvars>> /\ WF_vars(ScriptStep /\ StoreStep)

(******************************* Properties *********************************)
(* Whom the harness picks by its own rules, the policy lets act: while nobody  *)
(* interferes and its copy of the directory is current, nobody picked to       *)
(* approve or reject is refused.  What is submitted or created may be refused, *)
(* for what the harness does not look at: the creator's group, a submitter for *)
(* want of any creator, the state of the instruction, a limit that is missing, *)
(* a desk that a submitter may not see.                                        *)
Excused(b, k, u) ==
  LET outsider == ~IsMiddleOffice(b.seen[u]) \/ InstructionCreators(b.seen) = {}
  IN CASE b.kind \in {"create_instructions", "submit_instructions"} -> outsider
       [] b.kind = "approve_instructions" -> u = b.submitter /\ outsider
       [] b.kind = "create_payments" -> insts[k].ended \/ Limits(b.seen[u]) = {}
       [] b.kind = "submit_payments" ->
            \/ insts[pays[k].of].status # "APPROVED" \/ insts[pays[k].of].ended \/ ~Alone(k)
            \/ IsMiddleOffice(b.seen[u]) /\ pays[k].lob \notin b.seen[u].covers
       [] b.kind \in {"reject_instructions", "approve_payments", "reject_payments"} -> FALSE
       [] OTHER -> TRUE
PicksAccepted ==
  batch.pc = "done" /\ batch.calm => \A x \in batch.refused : Excused(batch, x.doc, x.user)

(* A batch of approvals that did nothing had nothing to do: documents nobody   *)
(* can approve do not keep those behind them from ever getting a turn.         *)
ApprovalsProgress ==
  /\ batch.pc = "done" /\ batch.kind \in {"approve_instructions", "approve_payments"}
  /\ batch.succeeded = 0 /\ batch.refused = {}
  => \A k \in DOMAIN batch.all : ~Approvable(batch.kind, batch.seen, batch.all[k])

(* After an undisturbed teardown nothing the setup made can move money any     *)
(* more, wherever the setup failed, if it answered: its payments are closed,   *)
(* except one whose submission was refused to the seeding, and its standing    *)
(* instruction backs none unless the teardown reported that there is nobody to *)
(* suspend it.                                                                 *)
TornDown ==
  fixture.pc = "torn" /\ fixture.calm =>
    /\ \A k \in fixture.made : pays[k].status \in {"DRAFT", "SUBMITTED"} =>
                                fixture.need = "seed" /\ k \in fixture.unsent
    /\ fixture.passed /\ FixtureType(fixture.need) = "STANDING" /\ fixture.suspender # Absent
         => insts[fixture.inst].status # "APPROVED"
=============================================================================
