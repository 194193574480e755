--------------------------- MODULE DemoHarnessProofs ---------------------------
(* The properties of the demo harness, whatever the services hold at first and *)
(* whatever other clients and the directory do meanwhile.  The argument:       *)
(*   1. a run of the harness is a run of Authorization, so that all that is    *)
(*      proved of a decision holds of what is decided for the harness;         *)
(*   2. what one call of a service does, and that the services only go         *)
(*      forward (Forward): what is closed is never opened again;               *)
(*   3. whom the harness picks by its own copy of the rules, the policy lets   *)
(*      act, rule by rule, without a state;                                    *)
(*   4. Promising: a batch of approvals at work has done something, or has     *)
(*      something left that can be approved, if there was any;                 *)
(*   5. HarnessInv: the console is busy with one thing at a time, what the     *)
(*      services hold is well-formed, and a fixture is Tidy, every payment it  *)
(*      made accounted for;                                                    *)
(*   6. Undisturbed: while nobody interferes, what a batch has still to do is  *)
(*      as it was listed, and every refusal so far had its excuse.             *)
EXTENDS DemoHarness, AuthorizationProofs

(* Whatever the harness and the services' other clients do, the directory, the *)
(* policies and the requests move by steps of Authorization only.              *)
THEOREM HarnessImplementsAuthorization == HarnessSpec => Spec
<1>1. HarnessInit => Init
  BY DEF HarnessInit
<1>2. [HarnessNext]_<<vars, hvars>> => [Next]_vars
  BY DEF HarnessNext, DirectoryMoves, Next
<1> QED
  BY <1>1, <1>2, PTL DEF HarnessSpec, Spec

-----------------------------------------------------------------------------
(* The services' answers *)

(* What is held is a sequence, and one call changes or appends one document.   *)
LEMMA AppendIs ==
  ASSUME NEW s, s \in Seq(Range(s)), NEW e
  PROVE  LET t == Append(s, e)
         IN /\ t \in Seq(Range(t)) /\ DOMAIN t = DOMAIN s \cup {Len(t)}
            /\ Len(t) \notin DOMAIN s /\ t[Len(t)] = e /\ \A k \in DOMAIN s : t[k] = s[k]
<1> DEFINE t == Append(s, e)
<1>1. Len(s) \in Nat /\ DOMAIN s = 1 .. Len(s)
  OBVIOUS
<1>2. s \in Seq(Range(s) \cup {e})
  BY DEF Range
<1>3. /\ Len(t) = Len(s) + 1 /\ DOMAIN t = 1 .. (Len(s) + 1) /\ t[Len(s) + 1] = e
      /\ \A k \in DOMAIN s : t[k] = s[k]
  BY <1>1, <1>2
<1>4. t \in Seq(Range(t))
  <2>1. t \in Seq(Range(s) \cup {e})
    BY <1>2
  <2>2. \A k \in 1 .. Len(t) : t[k] \in Range(t)
    BY <1>1, <1>3 DEF Range
  <2> QED
    BY <1>1, <1>3, <2>1, <2>2
<1> QED
  BY <1>1, <1>3, <1>4

LEMMA ExceptIs ==
  ASSUME NEW s, s \in Seq(Range(s)), NEW k \in DOMAIN s, NEW e
  PROVE  LET t == [s EXCEPT ![k] = e]
         IN /\ t \in Seq(Range(t)) /\ DOMAIN t = DOMAIN s /\ Len(t) = Len(s)
            /\ t[k] = e /\ \A j \in DOMAIN s : j # k => t[j] = s[j]
<1> DEFINE t == [s EXCEPT ![k] = e]
<1>1. Len(s) \in Nat /\ DOMAIN s = 1 .. Len(s)
  OBVIOUS
<1>2. DOMAIN t = 1 .. Len(s) /\ t[k] = e /\ \A j \in DOMAIN s : j # k => t[j] = s[j]
  BY <1>1
<1>3. t = [j \in 1 .. Len(s) |-> t[j]]
  BY <1>1
<1>4. \A j \in 1 .. Len(s) : t[j] \in Range(t)
  BY <1>2 DEF Range
<1>5. t \in [1 .. Len(s) -> Range(t)]
  BY <1>3, <1>4 DEF Range
<1>6. ASSUME NEW S, NEW f \in [1 .. Len(s) -> S] PROVE f \in Seq(S) /\ Len(f) = Len(s)
  BY <1>1
<1>7. t \in Seq(Range(t)) /\ Len(t) = Len(s)
  BY <1>5, <1>6
<1> QED
  BY <1>1, <1>2, <1>7

(* What no call changes of a document, and what no call takes back.            *)
Open == {"DRAFT", "SUBMITTED"}
SameInstruction(i, j) ==
  /\ DOMAIN j = DOMAIN i /\ j.type = i.type /\ j.lob = i.lob /\ j.by = i.by
  /\ j.title = i.title /\ j.supervisor = i.supervisor /\ j.long = i.long /\ j.ended = i.ended
SamePayment(p, q) == DOMAIN q = DOMAIN p /\ q.of = p.of /\ q.lob = p.lob /\ q.by = p.by
Forward(is, ps) ==
  /\ Stored(is, ps) /\ DOMAIN insts \subseteq DOMAIN is /\ DOMAIN pays \subseteq DOMAIN ps
  /\ \A k \in DOMAIN insts : /\ SameInstruction(insts[k], is[k])
                             /\ insts[k].status \notin Open => is[k].status \notin Open
  /\ \A k \in DOMAIN pays : /\ SamePayment(pays[k], ps[k])
                            /\ pays[k].status \notin Open => ps[k].status \notin Open
(* A standing instruction is approved again by a reactivation only.            *)
Reapproves(is) ==
  \E k \in DOMAIN insts : /\ insts[k].type = "STANDING" /\ is[k].status = "APPROVED"
                          /\ insts[k].status \notin Open \cup {"APPROVED"}

LEMMA NothingIsForward ==
  Stored(insts, pays) => Forward(insts, pays) /\ ~Reapproves(insts)
BY DEF Forward, Reapproves, SameInstruction, SamePayment

(* An instruction moves, a payment changes its status, or one is created.      *)
LEMMA ChangedInstruction ==
  ASSUME Stored(insts, pays), NEW k \in DOMAIN insts, NEW i, SameInstruction(insts[k], i),
         insts[k].status \notin Open => i.status \notin Open
  PROVE  /\ Forward([insts EXCEPT ![k] = i], pays)
         /\ \/ insts[k].type # "STANDING" \/ i.status # "APPROVED"
            \/ insts[k].status \in Open \cup {"APPROVED"}
            => ~Reapproves([insts EXCEPT ![k] = i])
<1> DEFINE is == [insts EXCEPT ![k] = i]
<1>1. /\ is \in Seq(Range(is)) /\ DOMAIN is = DOMAIN insts
      /\ is[k] = i /\ \A j \in DOMAIN insts : j # k => is[j] = insts[j]
  BY ExceptIs DEF Stored
<1> HIDE DEF is
<1>2. \A j \in DOMAIN insts : /\ SameInstruction(insts[j], is[j])
                              /\ insts[j].status \notin Open => is[j].status \notin Open
  BY <1>1 DEF SameInstruction
<1>3. Stored(is, pays)
  <2>1. \A j \in DOMAIN is : /\ DOMAIN is[j] = DOMAIN insts[j] /\ is[j].lob = insts[j].lob
                             /\ is[j].long = insts[j].long
    BY <1>1, <1>2 DEF SameInstruction
  <2> QED
    BY <1>1, <2>1 DEF Stored
<1>4. Forward(is, pays)
  BY <1>1, <1>2, <1>3 DEF Forward, SamePayment
<1>5. \/ insts[k].type # "STANDING" \/ i.status # "APPROVED"
      \/ insts[k].status \in Open \cup {"APPROVED"}
      => ~Reapproves(is)
  BY <1>1 DEF Reapproves
<1> QED
  BY <1>4, <1>5 DEF is

LEMMA ChangedPayment ==
  ASSUME Stored(insts, pays), NEW is, Forward(is, pays), NEW k \in DOMAIN pays, NEW p,
         SamePayment(pays[k], p), p.amount \in Nat,
         pays[k].status \notin Open => p.status \notin Open
  PROVE  Forward(is, [pays EXCEPT ![k] = p])
<1> DEFINE ps == [pays EXCEPT ![k] = p]
<1>1. /\ ps \in Seq(Range(ps)) /\ DOMAIN ps = DOMAIN pays
      /\ ps[k] = p /\ \A j \in DOMAIN pays : j # k => ps[j] = pays[j]
  BY ExceptIs DEF Stored
<1> HIDE DEF ps
<1>2. \A j \in DOMAIN pays : /\ SamePayment(pays[j], ps[j]) /\ ps[j].amount \in Nat
                             /\ pays[j].status \notin Open => ps[j].status \notin Open
  BY <1>1 DEF SamePayment, Stored
<1>3. Stored(is, ps)
  <2>1. Stored(is, pays)
    BY DEF Forward
  <2>2. \A j \in DOMAIN ps : /\ DOMAIN ps[j] = DOMAIN pays[j] /\ ps[j].lob = pays[j].lob
                             /\ ps[j].of = pays[j].of /\ ps[j].amount \in Nat
    BY <1>1, <1>2 DEF SamePayment
  <2> QED
    BY <1>1, <2>1, <2>2 DEF Stored
<1>4. Forward(is, ps)
  BY <1>1, <1>2, <1>3 DEF Forward
<1> QED
  BY <1>4 DEF ps

LEMMA StatusAfterIs ==
  /\ DOMAIN StatusAfter = {"SUBMIT", "APPROVE", "REJECT", "CANCEL", "SUSPEND", "REACTIVATE"}
  /\ StatusAfter["SUBMIT"] = "SUBMITTED" /\ StatusAfter["APPROVE"] = "APPROVED"
  /\ StatusAfter["REJECT"] = "REJECTED" /\ StatusAfter["CANCEL"] = "CANCELLED"
  /\ StatusAfter["SUSPEND"] = "SUSPENDED" /\ StatusAfter["REACTIVATE"] = "APPROVED"
BY DEF StatusAfter

LEMMA TransitionAllowed ==
  ASSUME NEW a \in DOMAIN StatusAfter, NEW s, NEW i, InstructionAllow(a, s, i)
  PROVE  ValidTransition(a, i.status)
<1>1. "valid_transition" \in InstructionRules[a]
  BY InstructionRulesAre, StatusAfterIs
<1>2. InstructionFact("valid_transition", a, s, i) = ValidTransition(a, i.status)
  BY DEF InstructionFact
<1> QED
  BY <1>1, <1>2 DEF InstructionAllow

(* The instruction-service changes the status of the one instruction.          *)
LEMMA InstructionCallIs ==
  ASSUME Stored(insts, pays), NEW a \in DOMAIN StatusAfter, NEW s, NEW k \in DOMAIN insts,
         NEW r, r = CallInstructionService(a, s, k)
  PROVE  /\ (r.ok <=> InstructionAllow(a, s, insts[k])) /\ r.pays = pays
         /\ ~r.ok => r.insts = insts
         /\ r.ok => r.insts[k].status = StatusAfter[a]
         /\ DOMAIN r.insts = DOMAIN insts
         /\ \A j \in DOMAIN insts : j # k => r.insts[j] = insts[j]
         /\ Forward(r.insts, r.pays)
         /\ a # "REACTIVATE" => ~Reapproves(r.insts)
<1> DEFINE i == [Moved(insts[k], StatusAfter[a]) EXCEPT
               !.suspended = IF a = "SUSPEND" THEN s.user ELSE Absent]
<1>1. CASE ~InstructionAllow(a, s, insts[k])
  <2>1. r = Refusal
    BY <1>1 DEF CallInstructionService
  <2>2. ~r.ok /\ r.insts = insts /\ r.pays = pays
    BY <2>1 DEF Refusal, Answer
  <2> QED
    BY <1>1, <2>2, NothingIsForward
<1>2. CASE InstructionAllow(a, s, insts[k])
  <2>1. r = Answer(TRUE, [insts EXCEPT ![k] = i], pays)
    BY <1>2 DEF CallInstructionService
  <2>2. r.ok /\ r.insts = [insts EXCEPT ![k] = i] /\ r.pays = pays
    BY <2>1 DEF Answer
  <2>3. DOMAIN insts[k] = {"status", "type", "lob", "account", "by", "title", "supervisor",
                           "suspended", "long", "ended", "ver"}
    BY DEF Stored
  <2>4. SameInstruction(insts[k], i) /\ i.status = StatusAfter[a]
    BY <2>3 DEF SameInstruction, Moved
  <2>5. ValidTransition(a, insts[k].status)
    BY <1>2, TransitionAllowed
  <2> HIDE DEF i
  <2>6. /\ insts[k].status \notin Open => i.status \notin Open
        /\ a # "REACTIVATE" =>
             \/ i.status # "APPROVED" \/ insts[k].status \in Open \cup {"APPROVED"}
    BY <2>4, <2>5, StatusAfterIs DEF ValidTransition, Open
  <2>7. Forward(r.insts, r.pays) /\ (a # "REACTIVATE" => ~Reapproves(r.insts))
    BY <2>2, <2>4, <2>6, ChangedInstruction
  <2>8. /\ DOMAIN r.insts = DOMAIN insts /\ r.insts[k] = i
        /\ \A j \in DOMAIN insts : j # k => r.insts[j] = insts[j]
    BY <2>2, ExceptIs DEF Stored
  <2> QED
    BY <1>2, <2>2, <2>4, <2>7, <2>8
<1> QED
  BY <1>1, <1>2

(* The payment-service refuses, cancels what it was to approve, or moves the   *)
(* one payment; a submission marks a SINGLE_USE instruction, a withdrawal      *)
(* frees it.                                                                   *)
PaymentCalls == {"SUBMIT", "APPROVE", "REJECT", "CANCEL"}
Marked(k) == [insts EXCEPT ![pays[k].of] = Moved(@, "USED")]
Freed(k) == [insts EXCEPT ![pays[k].of] = Moved(@, "APPROVED")]
Sent(p, is) == [p EXCEPT !.status = "SUBMITTED", !.submitted = TRUE, !.iver = is[p.of].ver]
Submitted(is, k) == [pays EXCEPT ![k] = Sent(@, is)]
With(p, status) == [p EXCEPT !.status = status]
To(k, status) == [pays EXCEPT ![k] = With(@, status)]
LEMMA PaymentCallIs ==
  ASSUME NEW a \in PaymentCalls, NEW s, NEW k \in DOMAIN pays,
         NEW r, r = CallPaymentService(a, s, k)
  PROVE  \/ r = Refusal
         \/ /\ a = "APPROVE" /\ pays[k].status = "SUBMITTED"
            /\ \/ ~Valid(pays[k]) /\ r = Answer(TRUE, insts, To(k, "CANCELLED"))
               \/ r = Answer(TRUE, insts, To(k, "APPROVED"))
         \/ /\ a = "SUBMIT" /\ pays[k].status = "DRAFT"
            /\ \/ r = Answer(TRUE, insts, Submitted(insts, k))
               \/ /\ insts[pays[k].of].type = "SINGLE_USE" /\ insts[pays[k].of].status = "APPROVED"
                  /\ r = Answer(TRUE, Marked(k), Submitted(Marked(k), k))
         \/ /\ a \in {"REJECT", "CANCEL"} /\ pays[k].status \in Open
            /\ \/ r = Answer(TRUE, insts, To(k, StatusAfter[a]))
               \/ /\ insts[pays[k].of].type = "SINGLE_USE" /\ insts[pays[k].of].status = "USED"
                  /\ r = Answer(TRUE, Freed(k), To(k, StatusAfter[a]))
<1> DEFINE p == pays[k]
           i == insts[p.of]
           d == PaymentDoc(p)
           open == IF a \in {"APPROVE", "REJECT"} THEN {"SUBMITTED"}
                   ELSE IF a = "CANCEL" THEN {"DRAFT", "SUBMITTED"} ELSE {"DRAFT"}
           refused == \/ ~PaymentAllow(a, s, d)
                      \/ Marks(a, p) /\ ~Alone(k)
                      \/ Marks(a, p) /\ ~InstructionAllow("USE",
                                           [s EXCEPT !.delegates = ServiceRoles["payment"]], i)
<1>1. CASE p.status \notin open \/ ~InstructionAllow("VIEW", s, i)
  BY <1>1 DEF CallPaymentService, To, With
<1>2. CASE p.status \in open /\ InstructionAllow("VIEW", s, i)
  <2>1. CASE a = "APPROVE" /\ ~Valid(p)
    BY <1>2, <2>1 DEF CallPaymentService, To, With
  <2>2. CASE ~(a = "APPROVE" /\ ~Valid(p)) /\ refused
    BY <1>2, <2>2 DEF CallPaymentService, To, With
  <2>3. CASE ~(a = "APPROVE" /\ ~Valid(p)) /\ ~refused
    <3>1. CASE a = "SUBMIT"
      <4>1. Marks(a, p) => i.status = "APPROVED" /\ i.type = "SINGLE_USE"
        <5>1. Marks(a, p) => InstructionAllow("USE",
                                [s EXCEPT !.delegates = ServiceRoles["payment"]], i)
          BY <2>3
        <5>2. InstructionFact("is_approved", "USE",
                 [s EXCEPT !.delegates = ServiceRoles["payment"]], i) = (i.status = "APPROVED")
          BY DEF InstructionFact
        <5> QED
          BY <5>1, <5>2, InstructionRulesAre DEF InstructionAllow, Marks
      <4>2. r = LET is == IF Marks(a, p) THEN Marked(k) ELSE insts
                IN Answer(TRUE, is, Submitted(is, k))
        BY <1>2, <2>3, <3>1 DEF CallPaymentService, Marked, Submitted, Sent
      <4> QED
        BY <1>2, <3>1, <4>1, <4>2
    <3>2. CASE a = "APPROVE"
      BY <1>2, <2>3, <3>2 DEF CallPaymentService, To, With
    <3>3. CASE a \in {"REJECT", "CANCEL"}
      BY <1>2, <2>3, <3>3 DEF CallPaymentService, Freed, Open, To, With
    <3> QED
      BY <3>1, <3>2, <3>3 DEF PaymentCalls
  <2> QED
    BY <2>1, <2>2, <2>3
<1> QED
  BY <1>1, <1>2

MovedPayment(r, a, k, p) ==
  /\ r.pays = [pays EXCEPT ![k] = p] /\ SamePayment(pays[k], p) /\ p.amount = pays[k].amount
  /\ pays[k].status \in Open /\ r.ok
  /\ p.status = StatusAfter[a] \/ (a = "APPROVE" /\ p.status = "CANCELLED")
LEMMA PaymentCallMoves ==
  ASSUME Stored(insts, pays), NEW a \in PaymentCalls, NEW s, NEW k \in DOMAIN pays,
         NEW r, r = CallPaymentService(a, s, k)
  PROVE  /\ Forward(r.insts, r.pays) /\ ~Reapproves(r.insts)
         /\ DOMAIN r.pays = DOMAIN pays /\ Len(r.pays) = Len(pays)
         /\ \A j \in DOMAIN pays : j # k => r.pays[j] = pays[j]
         /\ r.ok => \/ r.pays[k].status = StatusAfter[a]
                    \/ a = "APPROVE" /\ r.pays[k].status = "CANCELLED"
         /\ ~r.ok => r.insts = insts /\ r.pays = pays
         /\ a = "SUBMIT" => \A j \in DOMAIN insts :
                              insts[j].status # "APPROVED" => r.insts[j].status # "APPROVED"
<1>1. /\ pays[k].of \in DOMAIN insts
      /\ DOMAIN pays[k] = {"status", "amount", "lob", "by", "of", "iver", "submitted"}
      /\ pays[k].amount \in Nat
      /\ DOMAIN insts[pays[k].of] = {"status", "type", "lob", "account", "by", "title", "supervisor",
                                     "suspended", "long", "ended", "ver"}
  BY DEF Stored
<1>2. /\ ~r.ok => r.insts = insts /\ r.pays = pays
      /\ r.insts = insts
         \/ /\ r.insts = Marked(k) /\ insts[pays[k].of].type = "SINGLE_USE"
            /\ insts[pays[k].of].status = "APPROVED"
         \/ /\ a # "SUBMIT" /\ r.insts = Freed(k) /\ insts[pays[k].of].type = "SINGLE_USE"
            /\ insts[pays[k].of].status = "USED"
  BY PaymentCallIs DEF Answer, Refusal
<1>3. \/ ~r.ok /\ r.pays = pays
      \/ \E p : MovedPayment(r, a, k, p)
  <2>1. CASE r = Refusal
    BY <2>1 DEF Answer, Refusal
  <2>2. \A status : /\ SamePayment(pays[k], With(pays[k], status)) /\ With(pays[k], status).status = status
                    /\ With(pays[k], status).amount = pays[k].amount
    BY <1>1 DEF SamePayment, With
  <2>3. \A is : /\ SamePayment(pays[k], Sent(pays[k], is)) /\ Sent(pays[k], is).status = "SUBMITTED"
                /\ Sent(pays[k], is).amount = pays[k].amount
    BY <1>1 DEF SamePayment, Sent
  <2>4. CASE \E status : /\ r.pays = To(k, status) /\ pays[k].status \in Open /\ r.ok
                         /\ status = StatusAfter[a] \/ (a = "APPROVE" /\ status = "CANCELLED")
    <3>1. PICK status : /\ r.pays = To(k, status) /\ pays[k].status \in Open /\ r.ok
                        /\ status = StatusAfter[a] \/ (a = "APPROVE" /\ status = "CANCELLED")
      BY <2>4
    <3>2. MovedPayment(r, a, k, With(pays[k], status))
      BY <2>2, <3>1 DEF To, MovedPayment
    <3> QED
      BY <3>2
  <2>5. CASE \E is : /\ r.pays = Submitted(is, k) /\ pays[k].status \in Open /\ r.ok
                     /\ StatusAfter[a] = "SUBMITTED"
    <3>1. PICK is : r.pays = Submitted(is, k) /\ pays[k].status \in Open /\ r.ok
      BY <2>5
    <3>2. MovedPayment(r, a, k, Sent(pays[k], is))
      BY <2>3, <2>5, <3>1 DEF Submitted, MovedPayment
    <3> QED
      BY <3>2
  <2>6. \/ r = Refusal
        \/ /\ a = "APPROVE" /\ pays[k].status = "SUBMITTED" /\ r.ok
           /\ r.pays = To(k, "CANCELLED") \/ r.pays = To(k, "APPROVED")
        \/ /\ a = "SUBMIT" /\ pays[k].status = "DRAFT" /\ r.ok
           /\ r.pays = Submitted(insts, k) \/ r.pays = Submitted(Marked(k), k)
        \/ /\ a \in {"REJECT", "CANCEL"} /\ pays[k].status \in Open /\ r.ok
           /\ r.pays = To(k, StatusAfter[a])
    BY PaymentCallIs DEF Answer
  <2> QED
    BY <2>1, <2>4, <2>5, <2>6, StatusAfterIs DEF Open
<1>4. /\ SameInstruction(insts[pays[k].of], Moved(insts[pays[k].of], "USED"))
      /\ SameInstruction(insts[pays[k].of], Moved(insts[pays[k].of], "APPROVED"))
      /\ Moved(insts[pays[k].of], "USED").status = "USED"
      /\ Moved(insts[pays[k].of], "APPROVED").status = "APPROVED"
  BY <1>1 DEF SameInstruction, Moved
<1>5. Forward(r.insts, pays) /\ ~Reapproves(r.insts)
  <2>1. CASE r.insts = insts
    BY <2>1, NothingIsForward
  <2>2. CASE r.insts = Marked(k) /\ insts[pays[k].of].type = "SINGLE_USE"
    BY <1>1, <1>4, <2>2, ChangedInstruction DEF Marked, Open
  <2>3. CASE r.insts = Freed(k) /\ insts[pays[k].of].type = "SINGLE_USE"
    BY <1>1, <1>4, <2>3, ChangedInstruction DEF Freed, Open
  <2> QED
    BY <1>2, <2>1, <2>2, <2>3
<1>8. /\ ~r.ok => r.insts = insts /\ r.pays = pays
      /\ a = "SUBMIT" => \A j \in DOMAIN insts :
                           insts[j].status # "APPROVED" => r.insts[j].status # "APPROVED"
  <2>1. CASE r.insts = insts
    BY <1>2, <2>1
  <2>2. CASE a = "SUBMIT" /\ r.insts = Marked(k)
    <3>1. /\ r.insts[pays[k].of] = Moved(insts[pays[k].of], "USED")
          /\ \A j \in DOMAIN insts : j # pays[k].of => r.insts[j] = insts[j]
      BY <1>1, <2>2 DEF Marked
    <3> QED
      BY <1>2, <1>4, <3>1
  <2> QED
    BY <1>2, <2>1, <2>2
<1>6. CASE ~r.ok /\ r.pays = pays
  BY <1>2, <1>5, <1>6, <1>8
<1>7. CASE \E p : MovedPayment(r, a, k, p)
  <2>1. PICK p : MovedPayment(r, a, k, p)
    BY <1>7
  <2>2. Forward(r.insts, r.pays)
    BY <1>1, <1>5, <2>1, ChangedPayment DEF MovedPayment
  <2>3. /\ DOMAIN r.pays = DOMAIN pays /\ Len(r.pays) = Len(pays) /\ r.pays[k] = p
        /\ \A j \in DOMAIN pays : j # k => r.pays[j] = pays[j]
    BY <2>1, ExceptIs DEF Stored, MovedPayment
  <2> QED
    BY <1>5, <1>8, <2>1, <2>2, <2>3 DEF MovedPayment
<1> QED
  BY <1>3, <1>6, <1>7

LEMMA ChangedAmount ==
  ASSUME Stored(insts, pays), NEW k \in DOMAIN pays, NEW amount \in Nat, NEW ver
  PROVE  Forward(insts, [pays EXCEPT ![k] = [pays[k] EXCEPT !.amount = amount, !.iver = ver]])
<1> DEFINE p == [pays[k] EXCEPT !.amount = amount, !.iver = ver]
<1>1. DOMAIN pays[k] = {"status", "amount", "lob", "by", "of", "iver", "submitted"}
  BY DEF Stored
<1>2. SamePayment(pays[k], p) /\ p.amount = amount /\ p.status = pays[k].status
  BY <1>1 DEF SamePayment
<1> HIDE DEF p
<1>3. Forward(insts, [pays EXCEPT ![k] = p])
  BY <1>2, NothingIsForward, ChangedPayment
<1> QED
  BY <1>3 DEF p

LEMMA AppendedInstruction ==
  ASSUME Stored(insts, pays), NEW i, i.lob \in ProfitCenters, ~i.long,
         DOMAIN i = {"status", "type", "lob", "account", "by", "title", "supervisor",
                     "suspended", "long", "ended", "ver"}
  PROVE  Forward(Append(insts, i), pays) /\ ~Reapproves(Append(insts, i))
<1> DEFINE is == Append(insts, i)
<1>1. /\ is \in Seq(Range(is)) /\ DOMAIN is = DOMAIN insts \cup {Len(is)}
      /\ Len(is) \notin DOMAIN insts /\ is[Len(is)] = i /\ \A k \in DOMAIN insts : is[k] = insts[k]
  BY AppendIs DEF Stored
<1> HIDE DEF is
<1>2. Stored(is, pays)
  BY <1>1 DEF Stored
<1>3. Forward(is, pays)
  BY <1>1, <1>2 DEF Forward, SameInstruction, SamePayment
<1>4. ~Reapproves(is)
  BY <1>1 DEF Reapproves
<1> QED
  BY <1>3, <1>4 DEF is

LEMMA AppendedPayment ==
  ASSUME Stored(insts, pays), NEW p, p.of \in DOMAIN insts, p.lob = insts[p.of].lob,
         p.amount \in Nat,
         DOMAIN p = {"status", "amount", "lob", "by", "of", "iver", "submitted"}
  PROVE  Forward(insts, Append(pays, p))
<1> DEFINE ps == Append(pays, p)
<1>1. /\ ps \in Seq(Range(ps)) /\ DOMAIN ps = DOMAIN pays \cup {Len(ps)}
      /\ Len(ps) \notin DOMAIN pays /\ ps[Len(ps)] = p /\ \A k \in DOMAIN pays : ps[k] = pays[k]
  BY AppendIs DEF Stored
<1> HIDE DEF ps
<1>2. Stored(insts, ps)
  BY <1>1 DEF Stored
<1>3. Forward(insts, ps)
  BY <1>1, <1>2 DEF Forward, SameInstruction, SamePayment
<1> QED
  BY <1>3 DEF ps

(* The instruction that was made last. *)
Latest(is, lob, type) ==
  Len(is) \in DOMAIN is /\ is[Len(is)].lob = lob /\ is[Len(is)].type = type

LEMMA CreateInstructionIs ==
  ASSUME Stored(insts, pays), NEW u, NEW lob \in ProfitCenters, NEW type,
         NEW r, r = CreateInstructionCall(u, lob, type)
  PROVE  /\ r.ok <=> InstructionAllow("CREATE", Live(u), NewInstruction(u, lob, type))
         /\ r.pays = pays /\ Forward(r.insts, r.pays) /\ ~Reapproves(r.insts)
         /\ ~r.ok => r.insts = insts
         /\ r.ok => Latest(r.insts, lob, type)
<1> DEFINE i == NewInstruction(u, lob, type)
<1>1. CASE ~InstructionAllow("CREATE", Live(u), i)
  BY <1>1, NothingIsForward DEF CreateInstructionCall, Refusal, Answer
<1>2. CASE InstructionAllow("CREATE", Live(u), i)
  <2>1. r.ok /\ r.insts = Append(insts, i) /\ r.pays = pays
    BY <1>2 DEF CreateInstructionCall, Answer
  <2>2. /\ i.lob = lob /\ i.type = type /\ ~i.long
        /\ DOMAIN i = {"status", "type", "lob", "account", "by", "title", "supervisor",
                       "suspended", "long", "ended", "ver"}
    BY DEF NewInstruction
  <2> HIDE DEF i
  <2>3. Forward(r.insts, r.pays) /\ ~Reapproves(r.insts)
    BY <2>1, <2>2, AppendedInstruction
  <2>4. Len(r.insts) \in DOMAIN r.insts /\ r.insts[Len(r.insts)] = i
    BY <2>1, AppendIs DEF Stored
  <2> QED
    BY <1>2, <2>1, <2>2, <2>3, <2>4 DEF i, Latest
<1> QED
  BY <1>1, <1>2

LEMMA CreatePaymentIs ==
  ASSUME Stored(insts, pays), NEW u, NEW k \in DOMAIN insts, NEW amount \in Nat,
         NEW r, r = CreatePaymentCall(u, k, amount)
  PROVE  /\ r.ok <=> /\ InstructionAllow("VIEW", Live(u), insts[k])
                     /\ PaymentAllow("CREATE", Live(u), PaymentDoc(NewPayment(u, k, amount)))
         /\ r.insts = insts /\ Forward(r.insts, r.pays)
         /\ ~r.ok => r.pays = pays
         /\ r.ok => /\ DOMAIN r.pays = DOMAIN pays \cup {Len(r.pays)}
                    /\ r.pays[Len(r.pays)].lob = insts[k].lob
<1> DEFINE p == NewPayment(u, k, amount)
           ok == /\ InstructionAllow("VIEW", Live(u), insts[k])
                 /\ PaymentAllow("CREATE", Live(u), PaymentDoc(p))
<1>1. CASE ~ok
  BY <1>1, NothingIsForward DEF CreatePaymentCall, Refusal, Answer
<1>2. CASE ok
  <2>1. r.ok /\ r.pays = Append(pays, p) /\ r.insts = insts
    BY <1>2 DEF CreatePaymentCall, Answer
  <2>2. /\ p.of = k /\ p.lob = insts[k].lob /\ p.amount = amount
        /\ DOMAIN p = {"status", "amount", "lob", "by", "of", "iver", "submitted"}
    BY DEF NewPayment
  <2>3. ok
    BY <1>2
  <2> HIDE DEF p, ok
  <2>4. Forward(r.insts, r.pays)
    BY <2>1, <2>2, AppendedPayment
  <2>5. DOMAIN r.pays = DOMAIN pays \cup {Len(r.pays)} /\ r.pays[Len(r.pays)] = p
    BY <2>1, AppendIs DEF Stored
  <2> QED
    BY <2>1, <2>2, <2>3, <2>4, <2>5 DEF ok, p
<1> QED
  BY <1>1, <1>2

-----------------------------------------------------------------------------
(* Whom the harness picks, the policy lets act *)

LEMMA InstructionFactsHold ==
  ASSUME NEW a, NEW s, NEW i
  PROVE  /\ CatalogRoleOk(InstructionCatalog, a, s) => InstructionFact("catalog_role_ok", a, s, i)
         /\ CatalogGroupOk(InstructionCatalog, a, s) => InstructionFact("catalog_group_ok", a, s, i)
         /\ s.title \in EligibleTitles => InstructionFact("creator_eligible", a, s, i)
         /\ i.account = i.lob => InstructionFact("account_lob_matches", a, s, i)
         /\ i.lob \in ProfitCenters => InstructionFact("valid_profit_center", a, s, i)
         /\ i.status = "DRAFT" => InstructionFact("is_draft", a, s, i)
         /\ i.type \in {"STANDING", "SINGLE_USE"} => InstructionFact("known_type", a, s, i)
         /\ ~i.long => InstructionFact("within_three_years", a, s, i)
         /\ ValidTransition(a, i.status) => InstructionFact("valid_transition", a, s, i)
         /\ s.lob = i.lob => InstructionFact("same_lob", a, s, i)
         /\ s.user # i.by => InstructionFact("creator_is_not_approver", a, s, i)
         /\ s.user # i.supervisor => InstructionFact("not_supervisor_of_creator", a, s, i)
         /\ s.supervisor # i.by => InstructionFact("not_subordinate_of_creator", a, s, i)
         /\ s.title \in MayApprove(i.title) => InstructionFact("approver_is_allowed", a, s, i)
         /\ s.title = "Managing Director" => InstructionFact("managing_director", a, s, i)
         /\ "INSTRUCTION_MARKER" \in s.delegates => InstructionFact("marker_delegated", a, s, i)
         /\ HasViewerAccess(s) => InstructionFact("viewer_access", a, s, i)
         /\ CanViewData(s, i) => InstructionFact("can_view", a, s, i)
         /\ ~i.ended => InstructionFact("not_expired", a, s, i)
         /\ i.status = "APPROVED" => InstructionFact("is_approved", a, s, i)
BY DEF InstructionFact

LEMMA MatricesAgree == \A title : HarnessMatrix(title) = MayApprove(title)
BY DEF HarnessMatrix, MayApprove

LEMMA EligibleHaveApprovers ==
  ASSUME NEW title, HarnessMatrix(title) # {}
  PROVE  title \in EligibleTitles
BY DEF HarnessMatrix, EligibleTitles

LEMMA ViewAllowed ==
  ASSUME NEW s, NEW i, i.lob \in ProfitCenters, HasViewerAccess(s), CanViewData(s, i)
  PROVE  InstructionAllow("VIEW", s, i)
<1>1. /\ InstructionFact("viewer_access", "VIEW", s, i)
      /\ InstructionFact("can_view", "VIEW", s, i)
      /\ InstructionFact("valid_profit_center", "VIEW", s, i)
  BY InstructionFactsHold
<1> QED
  BY <1>1, InstructionRulesAre DEF InstructionAllow

LEMMA UseAllowed ==
  ASSUME NEW s, NEW i, i.lob \in ProfitCenters, HasViewerAccess(s), CanViewData(s, i),
         "INSTRUCTION_MARKER" \in s.delegates, i.status = "APPROVED", ~i.ended
  PROVE  InstructionAllow("USE", s, i)
<1>1. /\ InstructionFact("marker_delegated", "USE", s, i)
      /\ InstructionFact("viewer_access", "USE", s, i)
      /\ InstructionFact("can_view", "USE", s, i)
      /\ InstructionFact("valid_profit_center", "USE", s, i)
      /\ InstructionFact("not_expired", "USE", s, i)
      /\ InstructionFact("is_approved", "USE", s, i)
  BY InstructionFactsHold
<1> QED
  BY <1>1, InstructionRulesAre DEF InstructionAllow

LEMMA CreateAllowed ==
  ASSUME NEW s, NEW i, HasRole(s, "INSTRUCTION_CREATOR"), IsMiddleOffice(s),
         s.title \in EligibleTitles, i.account = i.lob, i.lob \in ProfitCenters, i.status = "DRAFT",
         i.type \in {"STANDING", "SINGLE_USE"}, ~i.long
  PROVE  InstructionAllow("CREATE", s, i)
<1>1. CatalogRoleOk(InstructionCatalog, "CREATE", s) /\ CatalogGroupOk(InstructionCatalog, "CREATE", s)
  BY CreatorGate DEF InstructionCreatorActions
<1>2. /\ InstructionFact("catalog_role_ok", "CREATE", s, i)
      /\ InstructionFact("catalog_group_ok", "CREATE", s, i)
      /\ InstructionFact("creator_eligible", "CREATE", s, i)
      /\ InstructionFact("account_lob_matches", "CREATE", s, i)
      /\ InstructionFact("valid_profit_center", "CREATE", s, i)
      /\ InstructionFact("is_draft", "CREATE", s, i)
      /\ InstructionFact("within_three_years", "CREATE", s, i)
      /\ InstructionFact("known_type", "CREATE", s, i)
  BY <1>1, InstructionFactsHold
<1> QED
  BY <1>2, InstructionRulesAre DEF InstructionAllow

LEMMA SubmitAllowed ==
  ASSUME NEW s, NEW i, HasRole(s, "INSTRUCTION_CREATOR"), IsMiddleOffice(s), i.status = "DRAFT"
  PROVE  InstructionAllow("SUBMIT", s, i)
<1>1. CatalogRoleOk(InstructionCatalog, "SUBMIT", s) /\ CatalogGroupOk(InstructionCatalog, "SUBMIT", s)
  BY CreatorGate DEF InstructionCreatorActions
<1>2. ValidTransition("SUBMIT", i.status)
  BY DEF ValidTransition
<1>3. /\ InstructionFact("catalog_role_ok", "SUBMIT", s, i)
      /\ InstructionFact("catalog_group_ok", "SUBMIT", s, i)
      /\ InstructionFact("valid_transition", "SUBMIT", s, i)
  BY <1>1, <1>2, InstructionFactsHold
<1> QED
  BY <1>3, InstructionRulesAre DEF InstructionAllow

LEMMA DeskGate ==
  ASSUME NEW a \in {"APPROVE", "REJECT", "SUSPEND"}, NEW s, HasRole(s, "INSTRUCTION_APPROVER")
  PROVE  CatalogRoleOk(InstructionCatalog, a, s) /\ CatalogGroupOk(InstructionCatalog, a, s)
BY ApproverGate DEF InstructionApproverActions

LEMMA ApproveAllowed ==
  ASSUME NEW s, NEW i, HasRole(s, "INSTRUCTION_APPROVER"), s.lob = i.lob, i.lob \in ProfitCenters,
         i.status = "SUBMITTED", s.user # i.by, s.user # i.supervisor, s.supervisor # i.by,
         s.title \in MayApprove(i.title), ~i.long
  PROVE  InstructionAllow("APPROVE", s, i)
<1>1. ValidTransition("APPROVE", i.status)
  BY DEF ValidTransition
<1>2. CatalogRoleOk(InstructionCatalog, "APPROVE", s) /\ CatalogGroupOk(InstructionCatalog, "APPROVE", s)
  BY DeskGate
<1>3. /\ InstructionFact("catalog_role_ok", "APPROVE", s, i)
      /\ InstructionFact("catalog_group_ok", "APPROVE", s, i)
      /\ InstructionFact("same_lob", "APPROVE", s, i)
      /\ InstructionFact("valid_profit_center", "APPROVE", s, i)
      /\ InstructionFact("valid_transition", "APPROVE", s, i)
      /\ InstructionFact("creator_is_not_approver", "APPROVE", s, i)
      /\ InstructionFact("not_supervisor_of_creator", "APPROVE", s, i)
      /\ InstructionFact("not_subordinate_of_creator", "APPROVE", s, i)
      /\ InstructionFact("approver_is_allowed", "APPROVE", s, i)
      /\ InstructionFact("within_three_years", "APPROVE", s, i)
  BY <1>1, <1>2, InstructionFactsHold
<1> QED
  BY <1>3, InstructionRulesAre DEF InstructionAllow

LEMMA RejectAllowed ==
  ASSUME NEW s, NEW i, HasRole(s, "INSTRUCTION_APPROVER"), s.lob = i.lob, i.lob \in ProfitCenters,
         i.status = "SUBMITTED"
  PROVE  InstructionAllow("REJECT", s, i)
<1>1. ValidTransition("REJECT", i.status)
  BY DEF ValidTransition
<1>2. CatalogRoleOk(InstructionCatalog, "REJECT", s) /\ CatalogGroupOk(InstructionCatalog, "REJECT", s)
  BY DeskGate
<1>3. /\ InstructionFact("catalog_role_ok", "REJECT", s, i)
      /\ InstructionFact("catalog_group_ok", "REJECT", s, i)
      /\ InstructionFact("same_lob", "REJECT", s, i)
      /\ InstructionFact("valid_profit_center", "REJECT", s, i)
      /\ InstructionFact("valid_transition", "REJECT", s, i)
  BY <1>1, <1>2, InstructionFactsHold
<1> QED
  BY <1>3, InstructionRulesAre DEF InstructionAllow

LEMMA SuspendAllowed ==
  ASSUME NEW s, NEW i, HasRole(s, "INSTRUCTION_APPROVER"), s.lob = i.lob, i.lob \in ProfitCenters,
         i.status = "APPROVED", s.title = "Managing Director"
  PROVE  InstructionAllow("SUSPEND", s, i)
<1>1. ValidTransition("SUSPEND", i.status)
  BY DEF ValidTransition
<1>2. CatalogRoleOk(InstructionCatalog, "SUSPEND", s) /\ CatalogGroupOk(InstructionCatalog, "SUSPEND", s)
  BY DeskGate
<1>3. /\ InstructionFact("catalog_role_ok", "SUSPEND", s, i)
      /\ InstructionFact("catalog_group_ok", "SUSPEND", s, i)
      /\ InstructionFact("same_lob", "SUSPEND", s, i)
      /\ InstructionFact("valid_profit_center", "SUSPEND", s, i)
      /\ InstructionFact("valid_transition", "SUSPEND", s, i)
      /\ InstructionFact("managing_director", "SUSPEND", s, i)
  BY <1>1, <1>2, InstructionFactsHold
<1> QED
  BY <1>3, InstructionRulesAre DEF InstructionAllow

(* Payments: the role, and but for a submission the middle office.             *)
LEMMA PaymentGate ==
  ASSUME NEW a \in PaymentActions, NEW s,
         HasRole(s, IF a \in FundingActions THEN "FUNDING_APPROVER" ELSE "PAYMENT_CREATOR"),
         a = "SUBMIT" \/ IsMiddleOffice(s)
  PROVE  CatalogRoleOk(PaymentCatalog, a, s) /\ CatalogGroupOk(PaymentCatalog, a, s)
<1>1. a \in DOMAIN PaymentCatalog
  BY DEF PaymentCatalog
<1>2. /\ PaymentCatalog[a].role = IF a \in FundingActions THEN "FUNDING_APPROVER" ELSE "PAYMENT_CREATOR"
      /\ a # "SUBMIT" => PaymentCatalog[a].groups = {"MIDDLE_OFFICE"}
      /\ a = "SUBMIT" => PaymentCatalog[a].groups = {}
  BY DEF PaymentCatalog, PaymentActions, PaymentCreatorActions, FundingActions
<1> QED
  BY <1>1, <1>2 DEF CatalogRoleOk, CatalogGroupOk, IsMiddleOffice, InGroup

LEMMA PaymentFactsHold ==
  ASSUME NEW a, NEW s, NEW d
  PROVE  /\ CatalogRoleOk(PaymentCatalog, a, s) => PaymentFact("catalog_role_ok", a, s, d)
         /\ CatalogGroupOk(PaymentCatalog, a, s) => PaymentFact("catalog_group_ok", a, s, d)
         /\ CoversLob(s, d.lob) => PaymentFact("covers_lob", a, s, d)
         /\ s.lob = d.lob => PaymentFact("same_lob", a, s, d)
         /\ d.backing = "APPROVED" => /\ PaymentFact("usable_for_draft", a, s, d)
                                      /\ PaymentFact("instruction_approved", a, s, d)
         /\ ~d.ended => PaymentFact("not_expired", a, s, d)
         /\ d.amount > 0 => PaymentFact("positive_amount", a, s, d)
         /\ WithinAmountLimit(s, d.amount) => PaymentFact("within_amount_limit", a, s, d)
         /\ d.status \in {"DRAFT", "SUBMITTED"} => PaymentFact("is_open", a, s, d)
         /\ s.user # d.by => PaymentFact("creator_is_not_approver", a, s, d)
         /\ s.supervisor # d.by => PaymentFact("not_subordinate_of_creator", a, s, d)
BY DEF PaymentFact

LEMMA PaymentRulesAre ==
  LET gated == {"catalog_role_ok", "catalog_group_ok"}
  IN /\ PaymentRules["CREATE"] = gated \cup {"covers_lob", "usable_for_draft", "not_expired",
                                             "positive_amount", "within_amount_limit"}
     /\ PaymentRules["SUBMIT"] = gated \cup {"same_lob", "instruction_approved", "not_expired"}
     /\ PaymentRules["APPROVE"] = gated \cup {"covers_lob", "backing_valid", "not_expired",
                        "within_amount_limit", "creator_is_not_approver", "not_subordinate_of_creator"}
     /\ PaymentRules["REJECT"] = gated \cup {"covers_lob"}
     /\ PaymentRules["CANCEL"] = gated \cup {"covers_lob", "is_open"}
BY DEF PaymentRules, PaymentActions, PaymentCreatorActions, FundingActions

(* A limit within the club's is within the absolute one.                       *)
LEMMA WithinLimitIs ==
  ASSUME NEW s, NEW p, p.groups = s.groups, NEW amount \in Nat, WithinLimit(p, amount)
  PROVE  WithinAmountLimit(s, amount)
<1>1. PICK c \in p.groups \cap Clubs : amount <= ClubLimit[c]
  BY DEF WithinLimit, Limits
<1>2. ClubLimit[c] \in {1, 2, 3}
  BY DEF ClubLimit, Clubs
<1> QED
  BY <1>1, <1>2 DEF WithinAmountLimit, SubjectLimitCovers, AbsoluteLimit

LEMMA CreatePaymentAllowed ==
  ASSUME NEW s, NEW d, HasRole(s, "PAYMENT_CREATOR"), CoversLob(s, d.lob),
         d.backing = "APPROVED", ~d.ended, d.amount > 0, WithinAmountLimit(s, d.amount)
  PROVE  PaymentAllow("CREATE", s, d)
<1>1. CatalogRoleOk(PaymentCatalog, "CREATE", s) /\ CatalogGroupOk(PaymentCatalog, "CREATE", s)
  BY PaymentGate DEF CoversLob, PaymentActions, PaymentCreatorActions, FundingActions
<1>2. /\ PaymentFact("catalog_role_ok", "CREATE", s, d)
      /\ PaymentFact("catalog_group_ok", "CREATE", s, d)
      /\ PaymentFact("covers_lob", "CREATE", s, d)
      /\ PaymentFact("usable_for_draft", "CREATE", s, d)
      /\ PaymentFact("not_expired", "CREATE", s, d)
      /\ PaymentFact("positive_amount", "CREATE", s, d)
      /\ PaymentFact("within_amount_limit", "CREATE", s, d)
  BY <1>1, PaymentFactsHold
<1> QED
  BY <1>2, PaymentRulesAre DEF PaymentAllow

LEMMA SubmitPaymentAllowed ==
  ASSUME NEW s, NEW d, HasRole(s, "PAYMENT_CREATOR"), s.lob = d.lob, d.backing = "APPROVED", ~d.ended
  PROVE  PaymentAllow("SUBMIT", s, d)
<1>1. CatalogRoleOk(PaymentCatalog, "SUBMIT", s) /\ CatalogGroupOk(PaymentCatalog, "SUBMIT", s)
  BY PaymentGate DEF PaymentActions, PaymentCreatorActions, FundingActions
<1>2. /\ PaymentFact("catalog_role_ok", "SUBMIT", s, d)
      /\ PaymentFact("catalog_group_ok", "SUBMIT", s, d)
      /\ PaymentFact("same_lob", "SUBMIT", s, d)
      /\ PaymentFact("instruction_approved", "SUBMIT", s, d)
      /\ PaymentFact("not_expired", "SUBMIT", s, d)
  BY <1>1, PaymentFactsHold
<1> QED
  BY <1>2, PaymentRulesAre DEF PaymentAllow

LEMMA ApprovePaymentAllowed ==
  ASSUME NEW s, NEW d, HasRole(s, "FUNDING_APPROVER"), CoversLob(s, d.lob), ~d.ended,
         PaymentFact("backing_valid", "APPROVE", s, d), WithinAmountLimit(s, d.amount),
         s.user # d.by, s.supervisor # d.by
  PROVE  PaymentAllow("APPROVE", s, d)
<1>1. CatalogRoleOk(PaymentCatalog, "APPROVE", s) /\ CatalogGroupOk(PaymentCatalog, "APPROVE", s)
  BY PaymentGate DEF CoversLob, PaymentActions, PaymentCreatorActions, FundingActions
<1>2. /\ PaymentFact("catalog_role_ok", "APPROVE", s, d)
      /\ PaymentFact("catalog_group_ok", "APPROVE", s, d)
      /\ PaymentFact("covers_lob", "APPROVE", s, d)
      /\ PaymentFact("not_expired", "APPROVE", s, d)
      /\ PaymentFact("within_amount_limit", "APPROVE", s, d)
      /\ PaymentFact("creator_is_not_approver", "APPROVE", s, d)
      /\ PaymentFact("not_subordinate_of_creator", "APPROVE", s, d)
  BY <1>1, PaymentFactsHold
<1> QED
  BY <1>2, PaymentRulesAre DEF PaymentAllow

LEMMA RejectPaymentAllowed ==
  ASSUME NEW s, NEW d, HasRole(s, "FUNDING_APPROVER"), CoversLob(s, d.lob)
  PROVE  PaymentAllow("REJECT", s, d)
<1>1. CatalogRoleOk(PaymentCatalog, "REJECT", s) /\ CatalogGroupOk(PaymentCatalog, "REJECT", s)
  BY PaymentGate DEF CoversLob, PaymentActions, PaymentCreatorActions, FundingActions
<1>2. /\ PaymentFact("catalog_role_ok", "REJECT", s, d)
      /\ PaymentFact("catalog_group_ok", "REJECT", s, d)
      /\ PaymentFact("covers_lob", "REJECT", s, d)
  BY <1>1, PaymentFactsHold
<1> QED
  BY <1>2, PaymentRulesAre DEF PaymentAllow

LEMMA CancelPaymentAllowed ==
  ASSUME NEW s, NEW d, HasRole(s, "PAYMENT_CREATOR"), CoversLob(s, d.lob), d.status \in Open
  PROVE  PaymentAllow("CANCEL", s, d)
<1>1. CatalogRoleOk(PaymentCatalog, "CANCEL", s) /\ CatalogGroupOk(PaymentCatalog, "CANCEL", s)
  BY PaymentGate DEF CoversLob, PaymentActions, PaymentCreatorActions, FundingActions
<1>2. /\ PaymentFact("catalog_role_ok", "CANCEL", s, d)
      /\ PaymentFact("catalog_group_ok", "CANCEL", s, d)
      /\ PaymentFact("covers_lob", "CANCEL", s, d)
      /\ PaymentFact("is_open", "CANCEL", s, d)
  BY <1>1, PaymentFactsHold DEF Open
<1> QED
  BY <1>2, PaymentRulesAre DEF PaymentAllow

LEMMA LiveIs ==
  ASSUME NEW u
  PROVE  /\ Live(u).user = u /\ Live(u).title = zitadel[u].title /\ Live(u).lob = zitadel[u].lob
         /\ Live(u).roles = zitadel[u].roles /\ Live(u).groups = zitadel[u].groups
         /\ Live(u).covers = zitadel[u].covers /\ Live(u).supervisor = zitadel[u].supervisor
BY DEF Live, Subject

(* Instructions: approvers may approve and reject, members of the middle       *)
(* office submit and create, and the suspender suspends.                       *)
LEMMA ApproversMayApprove ==
  ASSUME Stored(insts, pays), NEW k \in DOMAIN insts, NEW d, SameInstruction(d, insts[k]),
         insts[k].status = "SUBMITTED", NEW u \in ApproversOf(zitadel, d)
  PROVE  /\ InstructionAllow("APPROVE", Live(u), insts[k])
         /\ InstructionAllow("REJECT", Live(u), insts[k])
<1> DEFINE i == insts[k]
<1>1. /\ "INSTRUCTION_APPROVER" \in zitadel[u].roles /\ zitadel[u].lob = i.lob
      /\ zitadel[u].title \in MayApprove(i.title) /\ u # i.by /\ zitadel[u].supervisor # i.by
      /\ u # i.supervisor
  BY MatricesAgree DEF ApproversOf, InstructionApprovers, Clear, SameInstruction
<1>2. i.lob \in ProfitCenters /\ ~i.long
  BY DEF Stored
<1>3. HasRole(Live(u), "INSTRUCTION_APPROVER") /\ Live(u).lob = i.lob
  BY <1>1, LiveIs DEF HasRole
<1> QED
  BY <1>1, <1>2, <1>3, LiveIs, ApproveAllowed, RejectAllowed

LEMMA CreatorsMaySubmit ==
  ASSUME NEW u \in InstructionCreators(zitadel), IsMiddleOffice(zitadel[u]), NEW i,
         i.status = "DRAFT"
  PROVE  InstructionAllow("SUBMIT", Live(u), i)
<1>1. HasRole(Live(u), "INSTRUCTION_CREATOR") /\ IsMiddleOffice(Live(u))
  BY LiveIs DEF InstructionCreators, HasRole, IsMiddleOffice, InGroup
<1> QED
  BY <1>1, SubmitAllowed

LEMMA SeedPairsMayCreate ==
  ASSUME NEW x \in SeedPairs(zitadel), IsMiddleOffice(zitadel[x[1]]),
         NEW type \in {"STANDING", "SINGLE_USE"}
  PROVE  InstructionAllow("CREATE", Live(x[1]), NewInstruction(x[1], x[2], type))
<1> DEFINE i == NewInstruction(x[1], x[2], type)
<1>1. /\ x[1] \in InstructionCreators(zitadel) /\ x[2] \in HarnessLobs
      /\ InstructionApprovers(zitadel, x[2], x[1], zitadel[x[1]].title, zitadel[x[1]].supervisor) # {}
  BY DEF SeedPairs
<1>2. zitadel[x[1]].title \in EligibleTitles
  BY <1>1, EligibleHaveApprovers DEF InstructionApprovers
<1>3. HasRole(Live(x[1]), "INSTRUCTION_CREATOR") /\ IsMiddleOffice(Live(x[1]))
  BY <1>1, LiveIs DEF InstructionCreators, HasRole, IsMiddleOffice, InGroup
<1>4. /\ i.account = i.lob /\ i.lob \in ProfitCenters /\ i.status = "DRAFT" /\ i.type = type
      /\ ~i.long
  BY <1>1 DEF NewInstruction, HarnessLobs, ProfitCenters
<1> HIDE DEF i
<1> QED
  BY <1>2, <1>3, <1>4, LiveIs, CreateAllowed DEF i

LEMMA SuspendersSuspend ==
  ASSUME Stored(insts, pays), NEW k \in DOMAIN insts, insts[k].lob = "FICC",
         NEW u \in Suspenders(zitadel), NEW r, r = CallInstructionService("SUSPEND", Live(u), k)
  PROVE  r.insts[k].status # "APPROVED"
<1>1. r.ok <=> InstructionAllow("SUSPEND", Live(u), insts[k])
  BY InstructionCallIs, StatusAfterIs
<1>2. /\ HasRole(Live(u), "INSTRUCTION_APPROVER") /\ Live(u).lob = insts[k].lob
      /\ Live(u).title = "Managing Director" /\ insts[k].lob \in ProfitCenters
  BY LiveIs DEF Suspenders, HasRole, ProfitCenters
<1>3. insts[k].status = "APPROVED" => r.ok
  BY <1>1, <1>2, SuspendAllowed
<1>4. /\ r.ok => r.insts[k].status = "SUSPENDED"
      /\ ~r.ok => r.insts = insts
  BY InstructionCallIs, StatusAfterIs
<1> QED
  BY <1>3, <1>4

(* Payments: whoever may view the instruction and whom the rule lets act is    *)
(* not refused.                                                                *)
LEMMA PaymentDocIs ==
  ASSUME NEW p
  PROVE  /\ PaymentDoc(p).status = p.status /\ PaymentDoc(p).amount = p.amount
         /\ PaymentDoc(p).lob = p.lob /\ PaymentDoc(p).by = p.by
         /\ PaymentDoc(p).backing = insts[p.of].status /\ PaymentDoc(p).type = insts[p.of].type
         /\ PaymentDoc(p).ended = insts[p.of].ended
BY DEF PaymentDoc

LEMMA CoveringMayView ==
  ASSUME NEW s, NEW i, i.lob \in ProfitCenters, CoversLob(s, i.lob),
         HasRole(s, "PAYMENT_CREATOR") \/ HasRole(s, "FUNDING_APPROVER")
  PROVE  InstructionAllow("VIEW", s, i)
BY ViewAllowed DEF HasViewerAccess, CanViewData

LEMMA PayersMayCreate ==
  ASSUME Stored(insts, pays), NEW k \in DOMAIN insts, insts[k].status = "APPROVED", ~insts[k].ended,
         NEW u \in MiddleOffice(zitadel, "PAYMENT_CREATOR"), insts[k].lob \in zitadel[u].covers,
         Limits(zitadel[u]) # {}, NEW r, r = CreatePaymentCall(u, k, 1)
  PROVE  r.ok
<1> DEFINE amount == 1
           d == PaymentDoc(NewPayment(u, k, amount))
<1>1. amount \in Nat /\ amount > 0 /\ WithinLimit(zitadel[u], amount)
  BY DEF WithinLimit, Limits, ClubLimit, Clubs
<1>2. HasRole(Live(u), "PAYMENT_CREATOR") /\ CoversLob(Live(u), insts[k].lob)
  BY LiveIs DEF MiddleOffice, HasRole, CoversLob, IsMiddleOffice, InGroup
<1>3. insts[k].lob \in ProfitCenters
  BY DEF Stored
<1>4. /\ d.lob = insts[k].lob /\ d.amount = amount /\ d.backing = insts[k].status
      /\ d.ended = insts[k].ended
  BY PaymentDocIs DEF NewPayment
<1>5. WithinAmountLimit(Live(u), amount)
  BY <1>1, LiveIs, WithinLimitIs
<1> HIDE DEF d
<1>6. PaymentAllow("CREATE", Live(u), d)
  BY <1>1, <1>2, <1>4, <1>5, CreatePaymentAllowed
<1>7. InstructionAllow("VIEW", Live(u), insts[k])
  BY <1>2, <1>3, CoveringMayView
<1> QED
  BY <1>1, <1>6, <1>7, CreatePaymentIs DEF d

(* The instruction of a payment, and the rule the payment is subject to.       *)
LEMMA BackingIs ==
  ASSUME Stored(insts, pays), NEW k \in DOMAIN pays
  PROVE  /\ pays[k].of \in DOMAIN insts /\ insts[pays[k].of].lob = pays[k].lob
         /\ insts[pays[k].of].lob \in ProfitCenters /\ pays[k].amount \in Nat
BY DEF Stored

LEMMA SubmittersMaySubmit ==
  ASSUME Stored(insts, pays), NEW k \in DOMAIN pays, pays[k].status = "DRAFT",
         NEW u \in PaymentSubmitters(zitadel, pays[k].lob),
         IsMiddleOffice(zitadel[u]) => pays[k].lob \in zitadel[u].covers,
         insts[pays[k].of].status = "APPROVED", ~insts[pays[k].of].ended, Alone(k),
         NEW r, r = CallPaymentService("SUBMIT", Live(u), k)
  PROVE  r.ok
<1> DEFINE s == Live(u)
           i == insts[pays[k].of]
           d == PaymentDoc(pays[k])
           m == [s EXCEPT !.delegates = ServiceRoles["payment"]]
<1>1. HasRole(s, "PAYMENT_CREATOR") /\ s.lob = i.lob /\ s.lob = pays[k].lob
  BY BackingIs, LiveIs DEF PaymentSubmitters, HasRole
<1>2. HasViewerAccess(s)
  BY <1>1 DEF HasViewerAccess
<1>3. CanViewData(s, i)
  BY <1>1, LiveIs, BackingIs DEF CanViewData, CoversLob, IsMiddleOffice, InGroup
<1>4. InstructionAllow("VIEW", s, i)
  BY <1>2, <1>3, BackingIs, ViewAllowed
<1>5. PaymentAllow("SUBMIT", s, d)
  BY <1>1, PaymentDocIs, SubmitPaymentAllowed
<1>6. /\ m.user = s.user /\ m.lob = s.lob /\ m.roles = s.roles /\ m.groups = s.groups
      /\ m.covers = s.covers /\ m.delegates = {"INSTRUCTION_MARKER"}
  BY DEF Live, Subject, ServiceRoles
<1>7. HasViewerAccess(m) /\ CanViewData(m, i)
  BY <1>2, <1>3, <1>6
     DEF HasViewerAccess, CanViewData, HasRole, InGroup, IsCompliance, CoversLob, IsMiddleOffice
<1>8. InstructionAllow("USE", m, i)
  BY <1>6, <1>7, BackingIs, UseAllowed
<1> HIDE DEF s, i, d, m
<1>9. \E is, ps : r = Answer(TRUE, is, ps)
  BY <1>4, <1>5, <1>8 DEF CallPaymentService, s, i, d, m
<1> QED
  BY <1>9 DEF Answer

LEMMA RejectorsMayReject ==
  ASSUME Stored(insts, pays), NEW k \in DOMAIN pays, pays[k].status = "SUBMITTED",
         NEW u \in PaymentRejectors(zitadel, pays[k]),
         NEW r, r = CallPaymentService("REJECT", Live(u), k)
  PROVE  r.ok
<1>1. HasRole(Live(u), "FUNDING_APPROVER") /\ CoversLob(Live(u), pays[k].lob)
  BY LiveIs DEF PaymentRejectors, MiddleOffice, HasRole, CoversLob, IsMiddleOffice, InGroup
<1>2. InstructionAllow("VIEW", Live(u), insts[pays[k].of])
  BY <1>1, BackingIs, CoveringMayView
<1>3. PaymentAllow("REJECT", Live(u), PaymentDoc(pays[k]))
  BY <1>1, PaymentDocIs, RejectPaymentAllowed
<1>4. \E is, ps : r = Answer(TRUE, is, ps)
  BY <1>2, <1>3 DEF CallPaymentService, Marks
<1> QED
  BY <1>4 DEF Answer

LEMMA ApproversMayPay ==
  ASSUME Stored(insts, pays), NEW k \in DOMAIN pays, pays[k].status = "SUBMITTED",
         NEW u \in PaymentApprovers(zitadel, pays[k]),
         NEW r, r = CallPaymentService("APPROVE", Live(u), k)
  PROVE  r.ok
<1>1. /\ HasRole(Live(u), "FUNDING_APPROVER") /\ CoversLob(Live(u), pays[k].lob)
      /\ WithinLimit(zitadel[u], pays[k].amount) /\ Clear(zitadel, u, pays[k].by)
  BY LiveIs DEF PaymentApprovers, PaymentRejectors, MiddleOffice, HasRole, CoversLob, IsMiddleOffice,
                InGroup
<1>2. InstructionAllow("VIEW", Live(u), insts[pays[k].of])
  BY <1>1, BackingIs, CoveringMayView
<1>3. CASE ~Valid(pays[k])
  <2>1. r = Answer(TRUE, insts, To(k, "CANCELLED"))
    BY <1>2, <1>3 DEF CallPaymentService, To, With
  <2> QED
    BY <2>1 DEF Answer
<1>4. CASE Valid(pays[k])
  <2>1. ~insts[pays[k].of].ended /\ PaymentFact("backing_valid", "APPROVE", Live(u), PaymentDoc(pays[k]))
    BY <1>4 DEF Valid, PaymentFact
  <2>2. WithinAmountLimit(Live(u), pays[k].amount)
    BY <1>1, BackingIs, LiveIs, WithinLimitIs
  <2>3. Live(u).user # pays[k].by /\ Live(u).supervisor # pays[k].by
    BY <1>1, LiveIs DEF Clear
  <2>4. PaymentAllow("APPROVE", Live(u), PaymentDoc(pays[k]))
    BY <1>1, <2>1, <2>2, <2>3, PaymentDocIs, ApprovePaymentAllowed
  <2>5. \E is, ps : r = Answer(TRUE, is, ps)
    BY <1>2, <1>4, <2>4 DEF CallPaymentService, Marks
  <2> QED
    BY <2>5 DEF Answer
<1> QED
  BY <1>3, <1>4

LEMMA PayersCancel ==
  ASSUME Stored(insts, pays), NEW k \in DOMAIN pays, pays[k].lob = "FICC",
         NEW u \in FixturePayers(zitadel), NEW r, r = CallPaymentService("CANCEL", Live(u), k)
  PROVE  r.pays[k].status \notin Open
<1>1. HasRole(Live(u), "PAYMENT_CREATOR") /\ CoversLob(Live(u), pays[k].lob)
  BY LiveIs DEF FixturePayers, MiddleOffice, HasRole, CoversLob, IsMiddleOffice, InGroup
<1>2. CASE pays[k].status \notin Open
  BY <1>2, PaymentCallMoves DEF PaymentCalls, Forward
<1>3. CASE pays[k].status \in Open
  <2>1. InstructionAllow("VIEW", Live(u), insts[pays[k].of])
    BY <1>1, BackingIs, CoveringMayView
  <2>2. PaymentAllow("CANCEL", Live(u), PaymentDoc(pays[k]))
    BY <1>1, <1>3, PaymentDocIs, CancelPaymentAllowed
  <2>3. \E is, ps : r = Answer(TRUE, is, ps)
    BY <1>3, <2>1, <2>2 DEF CallPaymentService, Marks, Open
  <2>4. r.ok
    BY <2>3 DEF Answer
  <2> QED
    BY <2>4, PaymentCallMoves, StatusAfterIs DEF PaymentCalls, Open
<1> QED
  BY <1>2, <1>3

-----------------------------------------------------------------------------
(* Batches of approvals *)

Approvals == {"approve_instructions", "approve_payments"}
BatchFields(b) ==
  b = [pc |-> b.pc, kind |-> b.kind, all |-> b.all, left |-> b.left, seen |-> b.seen,
       submitter |-> b.submitter, calm |-> b.calm, refused |-> b.refused,
       succeeded |-> b.succeeded, failed |-> b.failed, skipped |-> b.skipped,
       item |-> b.item, actor |-> b.actor]

(* As long as an approval has neither succeeded nor been refused, a document   *)
(* that somebody can approve is still to come, if there was one at all.        *)
Hopeful(b) ==
  b.kind \in Approvals =>
    \A k \in DOMAIN b.all : Approvable(b.kind, b.seen, b.all[k]) =>
      \/ b.pc = "second" \/ b.succeeded > 0 \/ b.refused # {}
      \/ \E j \in b.left : Approvable(b.kind, b.seen, b.all[j])
Promising(b) ==
  \/ b \in {[pc |-> "idle"], [pc |-> "closed"]}
  \/ /\ b.pc = "done" /\ b.kind \in {"create_instructions", "create_payments"}
     /\ b = [pc |-> b.pc, kind |-> b.kind, all |-> b.all, seen |-> b.seen, calm |-> b.calm,
             refused |-> b.refused, succeeded |-> b.succeeded, failed |-> b.failed,
             skipped |-> b.skipped]
  \/ /\ BatchFields(b) /\ b.pc \in {"working", "second", "done"} /\ b.succeeded \in Nat
     /\ b.pc = "done" => b.left = {}
     /\ Hopeful(b)

(* A batch of one document or more takes one that can be approved if any can.  *)
LEMMA ListIsPromising ==
  ASSUME NEW kind, NEW all, List(kind, all)
  PROVE  Promising(batch')
<1>1. PICK seen \in Copies :
        \E s \in {x \in First(kind, seen, all) :
                 IF x = DOMAIN all THEN Cardinality(x) <= BatchSize ELSE Cardinality(x) = BatchSize} :
          \E submitter \in InstructionSubmitters(seen) :
            batch' = [pc |-> "working", kind |-> kind, all |-> all, left |-> s, seen |-> seen,
                      submitter |-> submitter, calm |-> seen = zitadel, refused |-> {},
                      succeeded |-> 0, failed |-> 0, skipped |-> 0, item |-> 0, actor |-> Absent]
  BY DEF List
<1>2. PICK s \in First(kind, seen, all) :
        /\ s # DOMAIN all => Cardinality(s) = BatchSize
        /\ \E submitter \in InstructionSubmitters(seen) :
             batch' = [pc |-> "working", kind |-> kind, all |-> all, left |-> s, seen |-> seen,
                       submitter |-> submitter, calm |-> seen = zitadel, refused |-> {},
                       succeeded |-> 0, failed |-> 0, skipped |-> 0, item |-> 0, actor |-> Absent]
  BY <1>1
<1>3. /\ BatchFields(batch') /\ batch'.pc = "working" /\ batch'.succeeded = 0
      /\ batch'.kind = kind /\ batch'.all = all /\ batch'.seen = seen /\ batch'.left = s
  BY <1>2 DEF BatchFields
<1>4. ASSUME kind \in Approvals, NEW k \in DOMAIN all, Approvable(kind, seen, all[k])
      PROVE  \E j \in s : Approvable(kind, seen, all[j])
  <2>1. CASE k \in s
    BY <1>4, <2>1
  <2>2. CASE k \notin s
    <3>1. Cardinality(s) # 0
      BY <1>2, <2>2, HarnessAssumption
    <3>2. s # {}
      BY <3>1, FS_EmptySet
    <3>3. PICK j \in s : TRUE
      BY <3>2
    <3>4. Approvable(kind, seen, all[j])
      BY <1>4, <2>2, <3>3 DEF First, Approvals
    <3> QED
      BY <3>3, <3>4
  <2> QED
    BY <2>1, <2>2
<1>5. Hopeful(batch')
  BY <1>3, <1>4 DEF Hopeful
<1> QED
  BY <1>3, <1>5 DEF Promising

(* Only a document nobody can approve is skipped; a call is tallied.           *)
LEMMA ItemIsPromising ==
  ASSUME Promising(batch), batch.pc \in {"working", "second"}, NEW k,
         \/ \E u, ok : batch' = Tally(batch, k, u, ok)
         \/ /\ batch.pc = "working"
            /\ batch.kind \in Approvals => ~Approvable(batch.kind, batch.seen, batch.all[k])
            /\ batch' = Skip(batch, k)
  PROVE  Promising(batch')
<1>1. BatchFields(batch) /\ batch.succeeded \in Nat /\ Hopeful(batch)
  BY DEF Promising
<1>2. ASSUME NEW u, NEW ok, batch' = Tally(batch, k, u, ok) PROVE Promising(batch')
  <2>1. /\ BatchFields(batch') /\ batch'.pc = "working" /\ batch'.succeeded \in Nat
        /\ batch'.succeeded > 0 \/ batch'.refused # {}
    <3>1. CASE ok
      <4>1. batch' = [batch EXCEPT !.pc = "working", !.left = @ \ {k}, !.succeeded = @ + 1]
        BY <1>2, <3>1 DEF Tally
      <4>2. BatchFields(batch') /\ batch'.pc = "working" /\ batch'.succeeded = batch.succeeded + 1
        BY <1>1, <4>1 DEF BatchFields
      <4> QED
        BY <1>1, <4>2
    <3>2. CASE ~ok
      <4>1. batch' = [batch EXCEPT !.pc = "working", !.left = @ \ {k}, !.failed = @ + 1,
                                   !.refused = @ \cup {[doc |-> k, user |-> u]}]
        BY <1>2, <3>2 DEF Tally
      <4> QED
        BY <1>1, <4>1 DEF BatchFields
    <3> QED
      BY <3>1, <3>2
  <2> QED
    BY <2>1 DEF Promising, Hopeful
<1>3. ASSUME batch.pc = "working", batch' = Skip(batch, k),
             batch.kind \in Approvals => ~Approvable(batch.kind, batch.seen, batch.all[k])
      PROVE  Promising(batch')
  <2>1. /\ BatchFields(batch') /\ batch'.pc = "working" /\ batch'.succeeded = batch.succeeded
        /\ batch'.kind = batch.kind /\ batch'.all = batch.all /\ batch'.seen = batch.seen
        /\ batch'.left = batch.left \ {k} /\ batch'.refused = batch.refused
    BY <1>1, <1>3 DEF BatchFields, Skip
  <2>2. Hopeful(batch')
    BY <1>1, <1>3, <2>1 DEF Hopeful
  <2> QED
    BY <1>1, <2>1, <2>2 DEF Promising
<1> QED
  BY <1>2, <1>3

(* Others take the calm away and nothing else. *)
LEMMA StirredIsPromising ==
  ASSUME Promising(batch), batch' = Stir(batch)
  PROVE  Promising(batch')
<1>1. CASE "calm" \notin DOMAIN batch
  <2>1. batch' = batch
    BY <1>1 DEF Stir
  <2> QED
    BY <2>1
<1>2. CASE "calm" \in DOMAIN batch
  <2>1. batch' = [batch EXCEPT !.calm = FALSE]
    BY <1>2 DEF Stir
  <2>2. batch \notin {[pc |-> "idle"], [pc |-> "closed"]}
    BY <1>2
  <2>3. CASE BatchFields(batch) /\ batch.pc \in {"working", "second", "done"}
             /\ batch.succeeded \in Nat /\ (batch.pc = "done" => batch.left = {}) /\ Hopeful(batch)
    <3>1. /\ BatchFields(batch') /\ batch'.pc = batch.pc /\ batch'.succeeded = batch.succeeded
          /\ batch'.kind = batch.kind /\ batch'.all = batch.all /\ batch'.seen = batch.seen
          /\ batch'.left = batch.left /\ batch'.refused = batch.refused
      BY <2>1, <2>3 DEF BatchFields
    <3>2. Hopeful(batch')
      BY <2>3, <3>1 DEF Hopeful
    <3> QED
      BY <2>3, <3>1, <3>2 DEF Promising
  <2>4. CASE batch.pc = "done" /\ batch.kind \in {"create_instructions", "create_payments"}
             /\ batch = [pc |-> batch.pc, kind |-> batch.kind, all |-> batch.all,
                         seen |-> batch.seen, calm |-> batch.calm, refused |-> batch.refused,
                         succeeded |-> batch.succeeded, failed |-> batch.failed,
                         skipped |-> batch.skipped]
    BY <2>1, <2>4 DEF Promising
  <2> QED
    BY <2>2, <2>3, <2>4 DEF Promising
<1> QED
  BY <1>1, <1>2

LEMMA PromisingKept ==
  ASSUME Promising(batch), [HarnessNext]_<<vars, hvars>>
  PROVE  Promising(batch')
<1>1. CASE UNCHANGED <<vars, hvars>>
  BY <1>1 DEF hvars
<1>2. CASE batch.pc = "closed" /\ Next /\ UNCHANGED hvars
  BY <1>2 DEF hvars
<1>3. CASE DirectoryMoves \/ OtherClient
  BY <1>3, StirredIsPromising DEF DirectoryMoves, OtherClient, Disturb
<1>4. ASSUME NEW kind \in BatchKinds, StartBatch(kind) PROVE Promising(batch')
  BY <1>4, ListIsPromising DEF StartBatch
<1>5. ASSUME NEW k, SubmitItem(k) \/ SuspendItem(k) \/ ReactivateItem(k)
      PROVE  Promising(batch')
  BY <1>5, ItemIsPromising DEF SubmitItem, SuspendItem, ReactivateItem, Take, Finish
<1>6. ASSUME NEW k, ApproveItem(k) PROVE Promising(batch')
  <2> DEFINE who == ApproversOf(batch.seen, batch.all[k])
  <2>1. batch.pc = "working" /\ batch.kind = "approve_instructions"
    BY <1>6 DEF ApproveItem, Take
  <2>2. \/ who = {} /\ batch' = Skip(batch, k)
        \/ \E u, ok : batch' = Tally(batch, k, u, ok)
        \/ \E u : batch' = [batch EXCEPT !.pc = "second", !.item = k, !.actor = u]
    BY <1>6 DEF ApproveItem, Attempt, Finish
  <2>3. CASE \E u : batch' = [batch EXCEPT !.pc = "second", !.item = k, !.actor = u]
    <3>1. PICK u : batch' = [batch EXCEPT !.pc = "second", !.item = k, !.actor = u]
      BY <2>3
    <3>2. BatchFields(batch) /\ batch.succeeded \in Nat
      BY <2>1 DEF Promising
    <3>3. BatchFields(batch') /\ batch'.pc = "second" /\ batch'.succeeded = batch.succeeded
      BY <3>1, <3>2 DEF BatchFields
    <3> QED
      BY <3>2, <3>3 DEF Promising, Hopeful
  <2> QED
    BY <2>1, <2>2, <2>3, ItemIsPromising DEF Approvable
<1>7. ASSUME ApproveSubmitted PROVE Promising(batch')
  BY <1>7, ItemIsPromising DEF ApproveSubmitted
<1>8. ASSUME NEW k, RejectItem(k) PROVE Promising(batch')
  <2>1. /\ batch.pc = "working" /\ batch.kind \notin Approvals
        /\ batch' = Skip(batch, k) \/ \E u, ok : batch' = Tally(batch, k, u, ok)
    BY <1>8 DEF RejectItem, Take, Attempt, Finish, Approvals
  <2> QED
    BY <2>1, ItemIsPromising
<1>9. ASSUME NEW k, SubmitPaymentItem(k) PROVE Promising(batch')
  <2>1. /\ batch.pc = "working" /\ batch.kind \notin Approvals
        /\ batch' = Skip(batch, k) \/ \E u, ok : batch' = Tally(batch, k, u, ok)
    BY <1>9 DEF SubmitPaymentItem, Take, Attempt, Finish, Approvals
  <2> QED
    BY <2>1, ItemIsPromising
<1>10. ASSUME NEW k, RejectPaymentItem(k) PROVE Promising(batch')
  <2>1. /\ batch.pc = "working" /\ batch.kind \notin Approvals
        /\ batch' = Skip(batch, k) \/ \E u, ok : batch' = Tally(batch, k, u, ok)
    BY <1>10 DEF RejectPaymentItem, Take, Attempt, Finish, Approvals
  <2> QED
    BY <2>1, ItemIsPromising
<1>11. ASSUME NEW k, ApprovePaymentItem(k) PROVE Promising(batch')
  <2>1. /\ batch.pc = "working" /\ batch.kind = "approve_payments"
        /\ \/ PaymentApprovers(batch.seen, batch.all[k]) = {} /\ batch' = Skip(batch, k)
           \/ \E u, ok : batch' = Tally(batch, k, u, ok)
    BY <1>11 DEF ApprovePaymentItem, Take, Attempt, Finish
  <2> QED
    BY <2>1, ItemIsPromising DEF Approvable
<1>12. ASSUME NEW k, UpdateItem(k) PROVE Promising(batch')
  <2>1. /\ batch.pc = "working" /\ batch.kind = "update_payments"
        /\ \/ batch' = [batch EXCEPT !.left = @ \ {k}, !.skipped = @ + 1]
           \/ \E u, ok : batch' = Tally(batch, k, u, ok)
    BY <1>12 DEF UpdateItem, Take
  <2>2. CASE batch' = [batch EXCEPT !.left = @ \ {k}, !.skipped = @ + 1]
    <3>1. BatchFields(batch) /\ batch.succeeded \in Nat
      BY <2>1 DEF Promising
    <3>2. /\ BatchFields(batch') /\ batch'.pc = "working" /\ batch'.succeeded = batch.succeeded
          /\ batch'.kind = "update_payments"
      BY <2>1, <2>2, <3>1 DEF BatchFields
    <3> QED
      BY <3>1, <3>2 DEF Promising, Hopeful, Approvals
  <2> QED
    BY <2>1, <2>2, ItemIsPromising
<1>13. CASE EndBatch
  <2>1. BatchFields(batch) /\ batch.succeeded \in Nat /\ Hopeful(batch)
    BY <1>13 DEF EndBatch, Promising
  <2>2. /\ BatchFields(batch') /\ batch'.pc = "done" /\ batch'.succeeded = batch.succeeded
        /\ batch'.kind = batch.kind /\ batch'.all = batch.all /\ batch'.seen = batch.seen
        /\ batch'.left = batch.left /\ batch'.refused = batch.refused /\ batch.left = {}
    BY <1>13, <2>1 DEF EndBatch, BatchFields
  <2>3. Hopeful(batch')
    BY <1>13, <2>1, <2>2 DEF EndBatch, Hopeful
  <2> QED
    BY <2>1, <2>2, <2>3 DEF Promising
<1>14. CASE CloseBatch \/ OpenConsole \/ CloseConsole
  BY <1>14 DEF CloseBatch, OpenConsole, CloseConsole, Batch, Promising
<1>15. CASE CreateInstructions \/ CreatePayments
  <2>1. PICK seen, refused, succeeded, failed :
          \E kind \in {"create_instructions", "create_payments"} :
            Report(kind, seen, refused, succeeded, failed)
    BY <1>15 DEF CreateInstructions, CreatePayments, Created
  <2> QED
    BY <2>1 DEF Report, Promising
<1>16. CASE \/ \E k \in DOMAIN pays : CancelFixture(k)
            \/ \E need \in Needs : SetUp(need)
            \/ SubmitFixture \/ ApproveFixture \/ SuspendFixture \/ PayFixture \/ SendFixture
            \/ TearDown \/ DropInstruction
  BY <1>16 DEF CancelFixture, SetUp, SubmitFixture, ApproveFixture, SuspendFixture, PayFixture,
               SendFixture, TearDown, DropInstruction
<1> QED
  BY <1>1, <1>2, <1>3, <1>4, <1>5, <1>6, <1>7, <1>8, <1>9, <1>10, <1>11, <1>12, <1>13, <1>14,
     <1>15, <1>16 DEF HarnessNext, HarnessStep

(* A batch of approvals that did nothing found nobody who could approve any of *)
(* what was listed, whoever else acted meanwhile.                              *)
THEOREM ApprovalsMakeProgress == HarnessSpec => []ApprovalsProgress
<1>1. HarnessInit => Promising(batch)
  BY DEF HarnessInit, Promising
<1>2. Promising(batch) /\ [HarnessNext]_<<vars, hvars>> => Promising(batch)'
  BY PromisingKept
<1>3. Promising(batch) => ApprovalsProgress
  BY DEF Promising, Hopeful, ApprovalsProgress, Approvals
<1> QED
  BY <1>1, <1>2, <1>3, PTL DEF HarnessSpec

-----------------------------------------------------------------------------
(* What the services hold, while batches, fixtures and others work on it *)

(* A batch is at work, or a fixture, and never both.                           *)
AtWork(f) == f.pc \notin {"none", "ready", "failed", "torn"}
Turns ==
  /\ AtWork(fixture) => batch.pc = "idle"
  /\ batch.pc = "closed" => fixture = Fixture
  /\ batch.pc = "second" => batch.item \in DOMAIN insts
Held == Stored(insts, pays) /\ Turns

FixtureFields(f) ==
  f = [pc |-> f.pc, need |-> f.need, seen |-> f.seen, by |-> f.by, inst |-> f.inst,
       passed |-> f.passed, made |-> f.made, known |-> f.known, unsent |-> f.unsent,
       payer |-> f.payer, suspender |-> f.suspender, calm |-> f.calm]
FixtureSteps == {"submit", "approve", "suspend", "pay", "pay2", "send", "ready", "failed",
                 "cancel", "torn"}

(* The instruction and the payments of a fixture are its own: FICC, and the    *)
(* instruction past its approval once the setup has seen it approved.          *)
Own(f) ==
  /\ f.made \subseteq DOMAIN pays /\ f.known \subseteq f.made
  /\ \A k \in f.made : pays[k].lob = "FICC"
  /\ f.pc \in {"submit", "approve", "suspend", "pay", "pay2", "send"} \/ f.passed =>
       /\ f.inst \in DOMAIN insts /\ insts[f.inst].lob = "FICC"
       /\ insts[f.inst].type = FixtureType(f.need)
  /\ f.passed => insts[f.inst].status \notin Open
  /\ f.pc = "send" => Len(pays) \in f.made

(* Whom the setup acted as can undo what it did.                               *)
Undoable(f) ==
  /\ f.payer # Absent => f.payer \in FixturePayers(f.seen)
  /\ f.made # {} => f.payer # Absent
  /\ f.suspender # Absent => f.suspender \in Suspenders(f.seen)
  /\ f.pc = "cancel" /\ f.calm => f.seen = zitadel

(* Every payment of the setup is known, or about to be, or is closed, or is    *)
(* the one the seeding could not submit; a torn down standing instruction is   *)
(* not approved.                                                               *)
Closed(k) == pays[k].status \notin Open
Lost(f) == IF f.need = "seed" THEN f.unsent ELSE {}
Accounted(f) ==
  /\ f.pc \in {"submit", "approve", "suspend", "pay"} => f.made = {}
  /\ f.pc = "pay2" => f.need = "seed" /\ f.made \subseteq f.known
  /\ f.pc = "send" => f.made \subseteq f.known \cup {Len(pays)}
  /\ f.pc \in {"ready", "failed"} => f.made \subseteq f.known \cup Lost(f)
  /\ f.pc = "cancel" /\ f.calm => \A k \in f.made : k \in f.known \cup Lost(f) \/ Closed(k)
  /\ f.pc = "torn" /\ f.calm => \A k \in f.made : k \in Lost(f) \/ Closed(k)
Retired(f) ==
  f.pc = "torn" /\ f.calm /\ f.passed /\ FixtureType(f.need) = "STANDING" /\ f.suspender # Absent
    => insts[f.inst].status # "APPROVED"
Tidy(f) ==
  /\ FixtureFields(f) /\ f.need \in Needs /\ f.pc \in FixtureSteps
  /\ Own(f) /\ Undoable(f) /\ Retired(f) /\ Accounted(f)

(* One call of the instruction-service, or of the payment-service.             *)
LEMMA InstructionStep ==
  ASSUME Stored(insts, pays), NEW a \in DOMAIN StatusAfter, NEW s, NEW k \in DOMAIN insts,
         Call(CallInstructionService(a, s, k))
  PROVE  /\ Forward(insts', pays') /\ (a # "REACTIVATE" => ~Reapproves(insts'))
         /\ pays' = pays /\ (~CallInstructionService(a, s, k).ok => insts' = insts)
         /\ CallInstructionService(a, s, k).ok => insts'[k].status = StatusAfter[a]
<1> DEFINE r == CallInstructionService(a, s, k)
<1>1. /\ Forward(r.insts, r.pays) /\ (a # "REACTIVATE" => ~Reapproves(r.insts))
      /\ r.pays = pays /\ (~r.ok => r.insts = insts)
      /\ r.ok => r.insts[k].status = StatusAfter[a]
  BY InstructionCallIs
<1>2. insts' = r.insts /\ pays' = r.pays
  BY DEF Call
<1> QED
  BY <1>1, <1>2

LEMMA PaymentStep ==
  ASSUME Stored(insts, pays), NEW a \in PaymentCalls, NEW s, NEW k \in DOMAIN pays,
         Call(CallPaymentService(a, s, k))
  PROVE  Forward(insts', pays') /\ ~Reapproves(insts') /\ Len(pays') = Len(pays)
<1> DEFINE r == CallPaymentService(a, s, k)
<1>1. Forward(r.insts, r.pays) /\ ~Reapproves(r.insts) /\ Len(r.pays) = Len(pays)
  BY PaymentCallMoves
<1>2. insts' = r.insts /\ pays' = r.pays
  BY DEF Call
<1> QED
  BY <1>1, <1>2

(* The services go forward with every step while the console is open, and a    *)
(* standing instruction is approved again only where the fixture is told.      *)
Quietly == ~Reapproves(insts') \/ fixture' = Stir(fixture)
LEMMA InstructionItemsMove ==
  ASSUME Held, NEW k \in DOMAIN insts,
         SubmitItem(k) \/ ApproveItem(k) \/ RejectItem(k) \/ SuspendItem(k) \/ ReactivateItem(k)
  PROVE  Forward(insts', pays') /\ Quietly
<1>1. Stored(insts, pays)
  BY DEF Held
<1>2. CASE SubmitItem(k)
  BY <1>1, <1>2, InstructionStep, StatusAfterIs DEF SubmitItem, Finish, Quietly
<1>3. CASE ApproveItem(k)
  <2>1. \/ UNCHANGED <<insts, pays>>
        \/ \E s : \E a \in {"SUBMIT", "APPROVE"} : Call(CallInstructionService(a, s, k))
    BY <1>3 DEF ApproveItem, Attempt, Finish
  <2>2. CASE UNCHANGED <<insts, pays>>
    BY <1>1, <2>2, NothingIsForward DEF Quietly
  <2>3. CASE \E s : \E a \in {"SUBMIT", "APPROVE"} : Call(CallInstructionService(a, s, k))
    BY <1>1, <2>3, InstructionStep, StatusAfterIs DEF Quietly
  <2> QED
    BY <2>1, <2>2, <2>3
<1>4. CASE RejectItem(k)
  <2>1. UNCHANGED <<insts, pays>> \/ \E s : Call(CallInstructionService("REJECT", s, k))
    BY <1>4 DEF RejectItem, Attempt, Finish
  <2> QED
    BY <1>1, <2>1, NothingIsForward, InstructionStep, StatusAfterIs DEF Quietly
<1>5. CASE SuspendItem(k)
  BY <1>1, <1>5, InstructionStep, StatusAfterIs DEF SuspendItem, Finish, Quietly
<1>6. CASE ReactivateItem(k)
  <2> DEFINE r == CallInstructionService("REACTIVATE", Subject("admin", Admin, {}), k)
  <2>1. Call(r) /\ fixture' = IF r.ok THEN Stir(fixture) ELSE fixture
    BY <1>6 DEF ReactivateItem, Finish
  <2>2. Forward(insts', pays') /\ (~r.ok => insts' = insts)
    BY <1>1, <2>1, InstructionStep, StatusAfterIs
  <2> HIDE DEF r
  <2>3. CASE r.ok
    BY <2>1, <2>2, <2>3 DEF Quietly
  <2>4. CASE ~r.ok
    BY <1>1, <2>2, <2>4, NothingIsForward DEF Quietly
  <2> QED
    BY <2>3, <2>4
<1> QED
  BY <1>2, <1>3, <1>4, <1>5, <1>6

LEMMA PaymentItemsMove ==
  ASSUME Held, NEW k \in DOMAIN pays,
         SubmitPaymentItem(k) \/ UpdateItem(k) \/ ApprovePaymentItem(k) \/ RejectPaymentItem(k)
  PROVE  Forward(insts', pays') /\ Quietly
<1>1. Stored(insts, pays)
  BY DEF Held
<1>2. \/ UNCHANGED <<insts, pays>>
      \/ \E s : \E a \in PaymentCalls : Call(CallPaymentService(a, s, k))
      \/ UpdateItem(k)
  BY DEF SubmitPaymentItem, ApprovePaymentItem, RejectPaymentItem, Attempt, Finish, PaymentCalls
<1>3. CASE UNCHANGED <<insts, pays>>
  BY <1>1, <1>3, NothingIsForward DEF Quietly
<1>4. CASE \E s : \E a \in PaymentCalls : Call(CallPaymentService(a, s, k))
  BY <1>1, <1>4, PaymentStep DEF Quietly
<1>5. CASE UpdateItem(k)
  <2>1. \/ UNCHANGED pays
        \/ \E override \in Overrides : \E amount \in NewAmounts(batch.seen, batch.all[k], override) :
             pays' = [pays EXCEPT ![k] = [pays[k] EXCEPT !.amount = amount,
                                                         !.iver = insts[pays[k].of].ver]]
    BY <1>5 DEF UpdateItem
  <2>2. insts' = insts
    BY <1>5 DEF UpdateItem
  <2>3. CASE UNCHANGED pays
    BY <1>1, <2>2, <2>3, NothingIsForward DEF Quietly
  <2>4. ASSUME NEW override \in Overrides, NEW amount \in NewAmounts(batch.seen, batch.all[k], override),
               pays' = [pays EXCEPT ![k] = [pays[k] EXCEPT !.amount = amount,
                                                           !.iver = insts[pays[k].of].ver]]
        PROVE  Forward(insts', pays') /\ Quietly
    <3>1. amount \in Nat
      BY DEF NewAmounts, Overrides, AbsoluteLimit
    <3>2. Forward(insts, [pays EXCEPT ![k] = [pays[k] EXCEPT !.amount = amount,
                                                             !.iver = insts[pays[k].of].ver]])
      BY <1>1, <3>1, ChangedAmount
    <3> QED
      BY <1>1, <2>2, <2>4, <3>2, NothingIsForward DEF Quietly
  <2> QED
    BY <2>1, <2>3, <2>4
<1> QED
  BY <1>2, <1>3, <1>4, <1>5

LEMMA InstructionCreation ==
  ASSUME Stored(insts, pays), NEW u, NEW lob \in ProfitCenters, NEW type,
         Call(CreateInstructionCall(u, lob, type))
  PROVE  /\ Forward(insts', pays') /\ ~Reapproves(insts') /\ pays' = pays
         /\ CreateInstructionCall(u, lob, type).ok => Latest(insts', lob, type)
<1>1. PICK r : r = CreateInstructionCall(u, lob, type)
  OBVIOUS
<1>2. /\ Forward(r.insts, r.pays) /\ ~Reapproves(r.insts) /\ r.pays = pays
      /\ r.ok => Latest(r.insts, lob, type)
  BY <1>1, CreateInstructionIs
<1>3. insts' = r.insts /\ pays' = r.pays
  BY <1>1 DEF Call
<1> QED
  BY <1>1, <1>2, <1>3

LEMMA PaymentCreation ==
  ASSUME Stored(insts, pays), NEW u, NEW k \in DOMAIN insts, NEW amount \in Nat,
         Call(CreatePaymentCall(u, k, amount))
  PROVE  /\ Forward(insts', pays') /\ ~Reapproves(insts') /\ insts' = insts
         /\ ~CreatePaymentCall(u, k, amount).ok => pays' = pays
         /\ CreatePaymentCall(u, k, amount).ok =>
              /\ DOMAIN pays' = DOMAIN pays \cup {Len(pays')}
              /\ pays'[Len(pays')].lob = insts[k].lob
<1> DEFINE r == CreatePaymentCall(u, k, amount)
<1>1. /\ Forward(r.insts, r.pays) /\ r.insts = insts /\ (~r.ok => r.pays = pays)
      /\ r.ok => /\ DOMAIN r.pays = DOMAIN pays \cup {Len(r.pays)}
                 /\ r.pays[Len(r.pays)].lob = insts[k].lob
  BY CreatePaymentIs
<1>2. insts' = r.insts /\ pays' = r.pays
  BY DEF Call
<1> QED
  BY <1>1, <1>2, NothingIsForward

LEMMA CreationsMove ==
  ASSUME Held, CreateInstructions \/ CreatePayments
  PROVE  Forward(insts', pays') /\ Quietly
<1>1. Stored(insts, pays)
  BY DEF Held
<1>2. CASE CreateInstructions
  <2>1. PICK seen \in Copies : \E x \in SeedPairs(seen), type \in {"STANDING", "SINGLE_USE"} :
          Call(CreateInstructionCall(x[1], x[2], type))
    BY <1>2 DEF CreateInstructions
  <2>2. PICK x \in SeedPairs(seen), type \in {"STANDING", "SINGLE_USE"} :
          Call(CreateInstructionCall(x[1], x[2], type))
    BY <2>1
  <2>3. x[2] \in ProfitCenters
    BY DEF SeedPairs, HarnessLobs, ProfitCenters
  <2> QED
    BY <1>1, <2>2, <2>3, InstructionCreation DEF Quietly
<1>3. CASE CreatePayments
  <2>1. \/ UNCHANGED <<insts, pays>>
        \/ \E u : \E k \in DOMAIN insts : Call(CreatePaymentCall(u, k, 1))
    BY <1>3 DEF CreatePayments
  <2>2. CASE UNCHANGED <<insts, pays>>
    BY <1>1, <2>2, NothingIsForward DEF Quietly
  <2>3. CASE \E u : \E k \in DOMAIN insts : Call(CreatePaymentCall(u, k, 1))
    BY <1>1, <2>3, PaymentCreation DEF Quietly
  <2> QED
    BY <2>1, <2>2, <2>3
<1> QED
  BY <1>2, <1>3

LEMMA FixturesMove ==
  ASSUME Held, fixture = Fixture \/ Tidy(fixture),
         \/ \E need \in Needs : SetUp(need)
         \/ SubmitFixture \/ ApproveFixture \/ SuspendFixture \/ PayFixture \/ SendFixture
         \/ \E k \in DOMAIN pays : CancelFixture(k)
         \/ TearDown \/ DropInstruction
  PROVE  Forward(insts', pays') /\ ~Reapproves(insts')
<1>1. Stored(insts, pays)
  BY DEF Held
<1>2. CASE UNCHANGED <<insts, pays>>
  BY <1>1, <1>2, NothingIsForward
<1>3. CASE \E need \in Needs : SetUp(need)
  <2>1. PICK need \in Needs : SetUp(need)
    BY <1>3
  <2>2. \E seen \in Copies : \E x \in {y \in SeedPairs(seen) : y[2] = "FICC"} :
          Call(CreateInstructionCall(x[1], "FICC", FixtureType(need)))
    BY <2>1 DEF SetUp
  <2> QED
    BY <1>1, <2>2, InstructionCreation DEF ProfitCenters
<1>4. CASE SubmitFixture \/ ApproveFixture \/ SuspendFixture \/ DropInstruction
  <2>1. \/ UNCHANGED <<insts, pays>>
        \/ \E s : \E a \in {"SUBMIT", "APPROVE", "SUSPEND"} :
             Call(CallInstructionService(a, s, fixture.inst))
    BY <1>4 DEF SubmitFixture, ApproveFixture, SuspendFixture, DropInstruction, Go
  <2>2. UNCHANGED <<insts, pays>> \/ fixture.inst \in DOMAIN insts
    <3>1. fixture # Fixture
      <4>1. fixture.pc \in {"submit", "approve", "suspend", "cancel"}
        BY <1>4 DEF SubmitFixture, ApproveFixture, SuspendFixture, DropInstruction
      <4> QED
        BY <4>1 DEF Fixture
    <3>2. \/ UNCHANGED <<insts, pays>>
          \/ fixture.pc \in {"submit", "approve", "suspend"} \/ fixture.passed
      <4>1. CASE DropInstruction
        BY <4>1 DEF DropInstruction
      <4>2. CASE SubmitFixture \/ ApproveFixture \/ SuspendFixture
        <5>1. fixture.pc \in {"submit", "approve", "suspend"}
          BY <4>2 DEF SubmitFixture, ApproveFixture, SuspendFixture
        <5> QED
          BY <5>1
      <4> QED
        BY <1>4, <4>1, <4>2
    <3> QED
      BY <3>1, <3>2 DEF Tidy, Own
  <2> QED
    BY <1>1, <1>2, <2>1, <2>2, InstructionStep, StatusAfterIs
<1>5. CASE PayFixture
  <2>1. UNCHANGED <<insts, pays>> \/ \E u : Call(CreatePaymentCall(u, fixture.inst, 1))
    BY <1>5 DEF PayFixture
  <2>2. fixture.inst \in DOMAIN insts
    BY <1>5 DEF PayFixture, Tidy, Own, Fixture
  <2>3. CASE \E u : Call(CreatePaymentCall(u, fixture.inst, 1))
    BY <1>1, <2>2, <2>3, PaymentCreation
  <2> QED
    BY <1>2, <2>1, <2>3
<1>6. CASE SendFixture
  <2>1. UNCHANGED <<insts, pays>> \/ \E u : Call(CallPaymentService("SUBMIT", Live(u), Len(pays)))
    BY <1>6 DEF SendFixture
  <2>2. Len(pays) \in DOMAIN pays
    <3>1. fixture.pc = "send"
      BY <1>6 DEF SendFixture
    <3> QED
      BY <3>1 DEF Tidy, Own, Fixture
  <2> QED
    BY <1>1, <1>2, <2>1, <2>2, PaymentStep DEF PaymentCalls
<1>7. CASE \E k \in DOMAIN pays : CancelFixture(k)
  BY <1>1, <1>7, PaymentStep DEF CancelFixture, PaymentCalls
<1>8. CASE TearDown
  BY <1>2, <1>8 DEF TearDown
<1> QED
  BY <1>3, <1>4, <1>5, <1>6, <1>7, <1>8

LEMMA OthersMove ==
  ASSUME Held, OtherClient \/ DirectoryMoves
  PROVE  /\ Forward(insts', pays') /\ Len(pays') = Len(pays)
         /\ batch' = Stir(batch) /\ fixture' = Stir(fixture)
<1>1. Stored(insts, pays)
  BY DEF Held
<1>2. CASE DirectoryMoves
  BY <1>1, <1>2, NothingIsForward DEF DirectoryMoves, Disturb
<1>3. CASE OtherClient
  <2>1. batch' = Stir(batch) /\ fixture' = Stir(fixture)
    BY <1>3 DEF OtherClient, Disturb
  <2>2. \/ \E s : \E k \in DOMAIN insts, a \in DOMAIN StatusAfter : Call(CallInstructionService(a, s, k))
        \/ \E s : \E k \in DOMAIN pays, a \in PaymentCalls : Call(CallPaymentService(a, s, k))
    BY <1>3 DEF OtherClient, PaymentCalls
  <2> QED
    BY <1>1, <2>1, <2>2, InstructionStep, PaymentStep
<1> QED
  BY <1>2, <1>3

(* A step of the harness while the console stays open.                         *)
LEMMA ServicesMove ==
  ASSUME Held, fixture = Fixture \/ Tidy(fixture), [HarnessNext]_<<vars, hvars>>
  PROVE  \/ OpenConsole \/ CloseConsole
         \/ Forward(insts', pays') /\ Quietly
<1>1. Stored(insts, pays)
  BY DEF Held
<1>2. CASE UNCHANGED <<insts, pays>>
  BY <1>1, <1>2, NothingIsForward DEF Quietly
<1>3. CASE DirectoryMoves \/ OtherClient
  BY <1>3, OthersMove DEF Quietly
<1>4. CASE \E kind \in BatchKinds : StartBatch(kind)
  BY <1>2, <1>4 DEF StartBatch
<1>5. CASE \E k \in DOMAIN insts :
             SubmitItem(k) \/ ApproveItem(k) \/ RejectItem(k) \/ SuspendItem(k) \/ ReactivateItem(k)
  BY <1>5, InstructionItemsMove
<1>6. CASE \E k \in DOMAIN pays :
             SubmitPaymentItem(k) \/ UpdateItem(k) \/ ApprovePaymentItem(k) \/ RejectPaymentItem(k)
  BY <1>6, PaymentItemsMove
<1>7. CASE ApproveSubmitted
  BY <1>1, <1>7, InstructionStep, StatusAfterIs DEF ApproveSubmitted, Held, Turns, Quietly
<1>8. CASE EndBatch \/ CloseBatch
  BY <1>2, <1>8 DEF EndBatch, CloseBatch
<1>9. CASE CreateInstructions \/ CreatePayments
  BY <1>9, CreationsMove
<1>10. CASE \/ \E need \in Needs : SetUp(need)
            \/ SubmitFixture \/ ApproveFixture \/ SuspendFixture \/ PayFixture \/ SendFixture
            \/ \E k \in DOMAIN pays : CancelFixture(k)
            \/ TearDown \/ DropInstruction
  BY <1>10, FixturesMove DEF Quietly
<1>11. CASE UNCHANGED hvars
  BY <1>2, <1>11 DEF hvars
<1> QED
  BY <1>3, <1>4, <1>5, <1>6, <1>7, <1>8, <1>9, <1>10, <1>11 DEF HarnessNext, HarnessStep

(* Others take the calm away, and nothing else.                                *)
LEMMA StirredFixture ==
  ASSUME fixture = Fixture \/ Tidy(fixture)
  PROVE  /\ Stir(fixture).pc = fixture.pc
         /\ fixture = Fixture => Stir(fixture) = Fixture
         /\ Tidy(fixture) => Stir(fixture) = [fixture EXCEPT !.calm = FALSE]
<1>1. CASE fixture = Fixture
  <2>1. "calm" \notin DOMAIN fixture
    BY <1>1 DEF Fixture
  <2>2. ~FixtureFields(fixture)
    BY <1>1 DEF Fixture, FixtureFields
  <2> QED
    BY <1>1, <2>1, <2>2 DEF Stir, Tidy
<1>2. CASE Tidy(fixture)
  <2>1. FixtureFields(fixture)
    BY <1>2 DEF Tidy
  <2>2. "calm" \in DOMAIN fixture /\ "pc" \in DOMAIN fixture
    BY <2>1 DEF FixtureFields
  <2>3. Stir(fixture) = [fixture EXCEPT !.calm = FALSE]
    BY <2>2 DEF Stir
  <2>4. fixture # Fixture
    BY <2>2 DEF Fixture
  <2> QED
    BY <2>2, <2>3, <2>4
<1> QED
  BY <1>1, <1>2

LEMMA StirredBatch ==
  ASSUME Promising(batch)
  PROVE  Stir(batch).pc = batch.pc /\ (batch.pc = "second" => Stir(batch).item = batch.item)
<1>1. CASE "calm" \notin DOMAIN batch
  BY <1>1 DEF Stir
<1>2. CASE "calm" \in DOMAIN batch
  <2>1. Stir(batch) = [batch EXCEPT !.calm = FALSE]
    BY <1>2 DEF Stir
  <2>2. batch \notin {[pc |-> "idle"], [pc |-> "closed"]}
    BY <1>2
  <2>3. "pc" \in DOMAIN batch /\ (batch.pc = "second" => "item" \in DOMAIN batch)
    BY <2>2 DEF Promising, BatchFields
  <2> QED
    BY <2>1, <2>3
<1> QED
  BY <1>1, <1>2

LEMMA WorkingFields ==
  ASSUME Promising(batch), batch.pc \in {"working", "second"}
  PROVE  BatchFields(batch) /\ Hopeful(batch)
BY DEF Promising

LEMMA BatchTurns ==
  ASSUME Turns, Promising(batch), NEW k,
         \/ \E u, ok : batch' = Tally(batch, k, u, ok)
         \/ batch' = Skip(batch, k)
         \/ batch' = [batch EXCEPT !.left = @ \ {k}, !.skipped = @ + 1]
         \/ k \in DOMAIN insts' /\ \E u : batch' = [batch EXCEPT !.pc = "second", !.item = k, !.actor = u],
         batch.pc = "second" => \E u, ok : batch' = Tally(batch, k, u, ok),
         batch.pc \in {"working", "second"}, fixture = Fixture \/ Tidy(fixture),
         fixture' \in {fixture, Stir(fixture)}
  PROVE  Turns'
<1>1. BatchFields(batch)
  BY WorkingFields
<1>2. \/ batch'.pc = "working"
      \/ batch'.pc = "second" /\ batch'.item \in DOMAIN insts'
  <2>1. ASSUME NEW u, NEW ok, batch' = Tally(batch, k, u, ok) PROVE batch'.pc = "working"
    <3>1. CASE ok
      BY <1>1, <2>1, <3>1 DEF Tally, BatchFields
    <3>2. CASE ~ok
      BY <1>1, <2>1, <3>2 DEF Tally, BatchFields
    <3> QED
      BY <3>1, <3>2
  <2>2. ASSUME batch' = Skip(batch, k), batch.pc = "working" PROVE batch'.pc = "working"
    BY <1>1, <2>2 DEF Skip, BatchFields
  <2>3. ASSUME batch' = [batch EXCEPT !.left = @ \ {k}, !.skipped = @ + 1], batch.pc = "working"
        PROVE  batch'.pc = "working"
    BY <1>1, <2>3 DEF BatchFields
  <2>4. ASSUME NEW u, batch' = [batch EXCEPT !.pc = "second", !.item = k, !.actor = u]
        PROVE  batch'.pc = "second" /\ batch'.item = k
    BY <1>1, <2>4 DEF BatchFields
  <2> QED
    BY <2>1, <2>2, <2>3, <2>4
<1>3. fixture'.pc = fixture.pc /\ ~AtWork(fixture)
  BY StirredFixture DEF Turns
<1> QED
  BY <1>2, <1>3 DEF Turns, AtWork

LEMMA HeldKept ==
  ASSUME Held, Promising(batch), fixture = Fixture \/ Tidy(fixture), [HarnessNext]_<<vars, hvars>>
  PROVE  Held'
<1>1. Stored(insts, pays) /\ Turns
  BY DEF Held
<1>2. CASE OpenConsole
  <2>1. Stored(insts', pays')
    BY <1>2, StoresAssumption DEF OpenConsole
  <2>2. Turns'
    <3>1. batch'.pc = "idle" /\ fixture' = fixture /\ fixture = Fixture
      BY <1>1, <1>2 DEF OpenConsole, Turns, Batch
    <3> QED
      BY <3>1 DEF Turns
  <2> QED
    BY <2>1, <2>2 DEF Held
<1>3. CASE CloseConsole
  <2>1. insts' = <<>> /\ pays' = <<>> /\ batch'.pc = "closed" /\ fixture' = Fixture
    BY <1>3 DEF CloseConsole
  <2>2. Stored(<<>>, <<>>)
    BY DEF Stored
  <2> QED
    BY <2>1, <2>2 DEF Held, Turns, AtWork, Fixture
<1>4. CASE Forward(insts', pays') /\ Quietly
  <2>1. Stored(insts', pays') /\ DOMAIN insts \subseteq DOMAIN insts'
    BY <1>4 DEF Forward
  <2>2. CASE UNCHANGED <<vars, hvars>> \/ (batch.pc = "closed" /\ Next /\ UNCHANGED hvars)
    BY <1>1, <2>1, <2>2 DEF hvars, Turns, Held
  <2>3. CASE DirectoryMoves \/ OtherClient
    <3>1. batch' = Stir(batch) /\ fixture' = Stir(fixture)
      BY <2>3 DEF DirectoryMoves, OtherClient, Disturb
    <3>2. batch'.pc = batch.pc /\ fixture'.pc = fixture.pc /\ (fixture = Fixture => fixture' = Fixture)
          /\ (batch.pc = "second" => batch'.item = batch.item)
      BY <3>1, StirredFixture, StirredBatch
    <3> QED
      BY <1>1, <2>1, <3>2 DEF Held, Turns, AtWork
  <2>4. CASE \E kind \in BatchKinds : StartBatch(kind)
    <3>1. batch'.pc = "working" /\ ~AtWork(fixture) /\ fixture' = fixture
      BY <2>4 DEF StartBatch, List, Ready, AtWork
    <3> QED
      BY <2>1, <3>1 DEF Held, Turns, AtWork
  <2>5. CASE \E k \in DOMAIN insts :
               SubmitItem(k) \/ ApproveItem(k) \/ RejectItem(k) \/ SuspendItem(k) \/ ReactivateItem(k)
    <3>1. PICK k \in DOMAIN insts :
               SubmitItem(k) \/ ApproveItem(k) \/ RejectItem(k) \/ SuspendItem(k) \/ ReactivateItem(k)
      BY <2>5
    <3>2. batch.pc = "working" /\ fixture' \in {fixture, Stir(fixture)}
      BY <3>1 DEF SubmitItem, ApproveItem, RejectItem, SuspendItem, ReactivateItem, Take
    <3>3. \/ \E u, ok : batch' = Tally(batch, k, u, ok)
          \/ batch' = Skip(batch, k)
          \/ \E u : batch' = [batch EXCEPT !.pc = "second", !.item = k, !.actor = u]
      BY <3>1 DEF SubmitItem, ApproveItem, RejectItem, SuspendItem, ReactivateItem, Attempt, Finish
    <3> QED
      BY <1>1, <2>1, <3>1, <3>2, <3>3, BatchTurns DEF Held
  <2>6. CASE \E k \in DOMAIN pays :
               SubmitPaymentItem(k) \/ UpdateItem(k) \/ ApprovePaymentItem(k) \/ RejectPaymentItem(k)
    <3>1. PICK k \in DOMAIN pays :
               SubmitPaymentItem(k) \/ UpdateItem(k) \/ ApprovePaymentItem(k) \/ RejectPaymentItem(k)
      BY <2>6
    <3>2. batch.pc = "working" /\ fixture' = fixture
      BY <3>1 DEF SubmitPaymentItem, UpdateItem, ApprovePaymentItem, RejectPaymentItem, Take
    <3>3. \/ \E u, ok : batch' = Tally(batch, k, u, ok)
          \/ batch' = Skip(batch, k)
          \/ batch' = [batch EXCEPT !.left = @ \ {k}, !.skipped = @ + 1]
      BY <3>1 DEF SubmitPaymentItem, UpdateItem, ApprovePaymentItem, RejectPaymentItem, Attempt, Finish
    <3> QED
      BY <1>1, <2>1, <3>2, <3>3, BatchTurns DEF Held
  <2>7. CASE ApproveSubmitted
    BY <1>1, <2>1, <2>7, BatchTurns DEF ApproveSubmitted, Held
  <2>8. CASE EndBatch \/ CloseBatch
    <3>1. batch'.pc \in {"done", "idle"} /\ fixture' = fixture /\ batch.pc \in {"working", "done"}
      BY <2>8 DEF EndBatch, CloseBatch, Batch, Promising, BatchFields
    <3> QED
      BY <1>1, <2>1, <3>1 DEF Held, Turns
  <2>9. CASE CreateInstructions \/ CreatePayments
    <3>1. ~AtWork(fixture) /\ fixture' = fixture
      BY <2>9 DEF CreateInstructions, CreatePayments, Ready, AtWork
    <3>2. \E kind, seen, refused, succeeded, failed : Report(kind, seen, refused, succeeded, failed)
      BY <2>9 DEF CreateInstructions, CreatePayments, Created
    <3>3. batch'.pc = "done"
      BY <3>2 DEF Report
    <3> QED
      BY <2>1, <3>1, <3>3 DEF Held, Turns, AtWork
  <2>10. CASE \/ \E need \in Needs : SetUp(need)
              \/ SubmitFixture \/ ApproveFixture \/ SuspendFixture \/ PayFixture \/ SendFixture
              \/ \E k \in DOMAIN pays : CancelFixture(k)
              \/ TearDown \/ DropInstruction
    <3>1. batch' = batch
      BY <2>10 DEF SetUp, SubmitFixture, ApproveFixture, SuspendFixture, PayFixture, SendFixture,
                   CancelFixture, TearDown, DropInstruction
    <3>2. batch.pc = "idle"
      <4>1. AtWork(fixture) \/ batch.pc = "idle"
        BY <2>10 DEF SetUp, SubmitFixture, ApproveFixture, SuspendFixture, PayFixture, SendFixture,
                     CancelFixture, TearDown, DropInstruction, AtWork, Ready
      <4> QED
        BY <1>1, <4>1 DEF Turns
    <3> QED
      BY <2>1, <3>1, <3>2 DEF Held, Turns
  <2> QED
    BY <1>2, <1>3, <2>2, <2>3, <2>4, <2>5, <2>6, <2>7, <2>8, <2>9, <2>10 DEF HarnessNext, HarnessStep, Held
<1> QED
  BY <1>2, <1>3, <1>4, ServicesMove

-----------------------------------------------------------------------------
(* Fixtures *)

(* What is a fixture's own remains its own.                                    *)
FixturePast(f) == f.pc \in {"submit", "approve", "suspend", "pay", "pay2", "send"} \/ f.passed
LEMMA OwnStays ==
  ASSUME Own(fixture), Stored(insts, pays), Forward(insts', pays')
  PROVE  /\ fixture.made \subseteq DOMAIN pays' /\ fixture.known \subseteq fixture.made
         /\ \A k \in fixture.made : pays'[k].lob = "FICC" /\ (Closed(k) => Closed(k)')
         /\ FixturePast(fixture) =>
              /\ fixture.inst \in DOMAIN insts /\ fixture.inst \in DOMAIN insts'
              /\ insts'[fixture.inst].lob = "FICC"
              /\ insts'[fixture.inst].type = FixtureType(fixture.need)
         /\ fixture.passed => insts'[fixture.inst].status \notin Open
<1>1. /\ fixture.made \subseteq DOMAIN pays /\ fixture.known \subseteq fixture.made
      /\ \A k \in fixture.made : pays[k].lob = "FICC"
      /\ FixturePast(fixture) => /\ fixture.inst \in DOMAIN insts /\ insts[fixture.inst].lob = "FICC"
                                 /\ insts[fixture.inst].type = FixtureType(fixture.need)
      /\ fixture.passed => insts[fixture.inst].status \notin Open
  BY DEF Own, FixturePast
<1>2. /\ DOMAIN insts \subseteq DOMAIN insts' /\ DOMAIN pays \subseteq DOMAIN pays'
      /\ \A k \in DOMAIN insts : /\ SameInstruction(insts[k], insts'[k])
                                 /\ insts[k].status \notin Open => insts'[k].status \notin Open
      /\ \A k \in DOMAIN pays : /\ SamePayment(pays[k], pays'[k])
                                /\ pays[k].status \notin Open => pays'[k].status \notin Open
  BY DEF Forward
<1>3. \A k \in fixture.made : pays'[k].lob = "FICC" /\ (Closed(k) => Closed(k)')
  BY <1>1, <1>2 DEF SamePayment, Closed
<1>4. FixturePast(fixture) => /\ insts'[fixture.inst].lob = "FICC"
                              /\ insts'[fixture.inst].type = FixtureType(fixture.need)
  BY <1>1, <1>2 DEF SameInstruction
<1>5. fixture.passed => FixturePast(fixture)
  BY DEF FixturePast
<1> QED
  BY <1>1, <1>2, <1>3, <1>4, <1>5

(* Nothing a batch or another client does brings back what was put away.       *)
LEMMA TidyAside ==
  ASSUME Held, Tidy(fixture), Forward(insts', pays'),
         \/ fixture' = fixture /\ ~Reapproves(insts') /\ zitadel' = zitadel
         \/ fixture' = Stir(fixture),
         fixture.pc = "send" => Len(pays') = Len(pays)
  PROVE  Tidy(fixture)'
<1>1. /\ FixtureFields(fixture) /\ fixture.need \in Needs /\ fixture.pc \in FixtureSteps
      /\ Own(fixture) /\ Undoable(fixture) /\ Retired(fixture) /\ Accounted(fixture)
  BY DEF Tidy
<1>2. /\ fixture.made \subseteq DOMAIN pays' /\ fixture.known \subseteq fixture.made
      /\ \A k \in fixture.made : pays'[k].lob = "FICC" /\ (Closed(k) => Closed(k)')
      /\ FixturePast(fixture) =>
              /\ fixture.inst \in DOMAIN insts /\ fixture.inst \in DOMAIN insts'
              /\ insts'[fixture.inst].lob = "FICC"
              /\ insts'[fixture.inst].type = FixtureType(fixture.need)
      /\ fixture.passed => insts'[fixture.inst].status \notin Open
  BY <1>1, OwnStays DEF Held
<1>3. /\ FixtureFields(fixture') /\ fixture'.need = fixture.need /\ fixture'.pc = fixture.pc
      /\ fixture'.made = fixture.made /\ fixture'.known = fixture.known
      /\ fixture'.inst = fixture.inst /\ fixture'.passed = fixture.passed
      /\ fixture'.payer = fixture.payer /\ fixture'.suspender = fixture.suspender
      /\ fixture'.seen = fixture.seen /\ fixture'.unsent = fixture.unsent
      /\ fixture'.calm => fixture' = fixture /\ fixture.calm /\ ~Reapproves(insts') /\ zitadel' = zitadel
  <2>1. CASE fixture' = fixture /\ ~Reapproves(insts') /\ zitadel' = zitadel
    BY <1>1, <2>1
  <2>2. CASE fixture' = Stir(fixture)
    <3>1. fixture' = [fixture EXCEPT !.calm = FALSE]
      BY <2>2, StirredFixture
    <3> QED
      BY <1>1, <3>1 DEF FixtureFields
  <2> QED
    BY <2>1, <2>2
<1>4. Own(fixture)'
  <2>1. fixture.pc = "send" => Len(pays') \in fixture.made
    BY <1>1 DEF Own
  <2> QED
    BY <1>2, <1>3, <2>1 DEF Own, FixturePast
<1>5. Undoable(fixture)'
  BY <1>1, <1>3 DEF Undoable
<1>6. Retired(fixture)'
  <2>1. ASSUME fixture.pc = "torn", fixture'.calm, fixture.passed,
               FixtureType(fixture.need) = "STANDING", fixture.suspender # Absent
        PROVE  insts'[fixture.inst].status # "APPROVED"
    <3>1. insts[fixture.inst].status # "APPROVED"
      BY <1>1, <1>3, <2>1 DEF Retired
    <3>2. fixture.inst \in DOMAIN insts /\ insts[fixture.inst].type = "STANDING"
          /\ insts[fixture.inst].status \notin Open
      BY <1>1, <2>1 DEF Own
    <3> QED
      BY <1>3, <2>1, <3>1, <3>2 DEF Reapproves
  <2> QED
    BY <1>3, <2>1 DEF Retired
<1>7. Accounted(fixture)'
  <2>1. Lost(fixture') = Lost(fixture)
    BY <1>3 DEF Lost
  <2>2. /\ fixture.pc \in {"submit", "approve", "suspend", "pay"} => fixture.made = {}
        /\ fixture.pc = "pay2" => fixture.need = "seed" /\ fixture.made \subseteq fixture.known
        /\ fixture.pc = "send" => fixture.made \subseteq fixture.known \cup {Len(pays')}
        /\ fixture.pc \in {"ready", "failed"} => fixture.made \subseteq fixture.known \cup Lost(fixture)
    BY <1>1 DEF Accounted
  <2>3. fixture'.calm =>
           /\ fixture.pc = "cancel" =>
                \A k \in fixture.made : k \in fixture.known \cup Lost(fixture) \/ Closed(k)'
           /\ fixture.pc = "torn" => \A k \in fixture.made : k \in Lost(fixture) \/ Closed(k)'
    BY <1>1, <1>2, <1>3 DEF Accounted
  <2> HIDE <1>1
  <2> QED
    BY <1>3, <2>1, <2>2, <2>3 DEF Accounted, Closed
<1> QED
  BY <1>1, <1>3, <1>4, <1>5, <1>6, <1>7 DEF Tidy

(* The setup's own steps. *)
LEMMA SetUpTidy ==
  ASSUME Held, NEW need \in Needs, SetUp(need)
  PROVE  Tidy(fixture)'
<1>1. PICK seen \in Copies : \E x \in {y \in SeedPairs(seen) : y[2] = "FICC"} :
       LET a == CreateInstructionCall(x[1], "FICC", FixtureType(need))
       IN \E payer \in OrNone(FixturePayers(seen)), suspender \in OrNone(Suspenders(seen)) :
            /\ Call(a)
            /\ fixture' = [pc |-> IF a.ok THEN "submit" ELSE "failed", need |-> need,
                           seen |-> seen, by |-> x[1], inst |-> Len(a.insts), passed |-> FALSE,
                           made |-> {}, known |-> {}, unsent |-> {}, payer |-> payer,
                           suspender |-> suspender, calm |-> FALSE]
  BY DEF SetUp
<1>2. PICK x \in {y \in SeedPairs(seen) : y[2] = "FICC"} :
       LET a == CreateInstructionCall(x[1], "FICC", FixtureType(need))
       IN \E payer \in OrNone(FixturePayers(seen)), suspender \in OrNone(Suspenders(seen)) :
            /\ Call(a)
            /\ fixture' = [pc |-> IF a.ok THEN "submit" ELSE "failed", need |-> need,
                           seen |-> seen, by |-> x[1], inst |-> Len(a.insts), passed |-> FALSE,
                           made |-> {}, known |-> {}, unsent |-> {}, payer |-> payer,
                           suspender |-> suspender, calm |-> FALSE]
  BY <1>1
<1> DEFINE r == CreateInstructionCall(x[1], "FICC", FixtureType(need))
<1>3. PICK payer \in OrNone(FixturePayers(seen)), suspender \in OrNone(Suspenders(seen)) :
        /\ Call(r)
        /\ fixture' = [pc |-> IF r.ok THEN "submit" ELSE "failed", need |-> need,
                       seen |-> seen, by |-> x[1], inst |-> Len(r.insts), passed |-> FALSE,
                       made |-> {}, known |-> {}, unsent |-> {}, payer |-> payer,
                       suspender |-> suspender, calm |-> FALSE]
  BY <1>2
<1>4. r.ok => Latest(insts', "FICC", FixtureType(need))
  <2>1. Stored(insts, pays) /\ "FICC" \in ProfitCenters
    BY DEF Held, ProfitCenters
  <2> QED
    BY <1>3, <2>1, InstructionCreation
<1>5. insts' = r.insts
  BY <1>3 DEF Call
<1> HIDE DEF r
<1>6. /\ FixtureFields(fixture') /\ fixture'.need = need /\ fixture'.pc \in {"submit", "failed"}
      /\ fixture'.made = {} /\ fixture'.known = {} /\ fixture'.inst = Len(r.insts)
      /\ ~fixture'.passed /\ fixture'.payer = payer /\ fixture'.suspender = suspender
      /\ fixture'.seen = seen /\ ~fixture'.calm /\ (fixture'.pc = "submit" => r.ok)
  BY <1>3 DEF FixtureFields
<1>7. Own(fixture)'
  BY <1>4, <1>5, <1>6 DEF Own, Latest
<1>8. Undoable(fixture)'
  BY <1>6 DEF Undoable, OrNone
<1>9. Retired(fixture)' /\ Accounted(fixture)'
  BY <1>6 DEF Retired, Accounted
<1> QED
  BY <1>6, <1>7, <1>8, <1>9 DEF Tidy, FixtureSteps

(* What a step of the setup leaves to be shown of the invariant.               *)
LEMMA Onward ==
  ASSUME Held, Tidy(fixture), Forward(insts', pays'), FixtureFields(fixture'),
         fixture.pc \notin {"cancel", "torn"},
         fixture'.pc \in FixtureSteps \ {"cancel", "torn"},
         UNCHANGED <<fixture.need, fixture.seen, fixture.inst, fixture.payer, fixture.suspender>>,
         fixture'.passed = fixture.passed \/ fixture.pc = "approve",
         fixture'.pc \in {"submit", "approve", "suspend", "pay", "pay2", "send"} \/ fixture'.passed
           => FixturePast(fixture),
         fixture'.passed /\ ~fixture.passed => insts'[fixture.inst].status \notin Open,
         fixture'.known \subseteq fixture'.made, fixture'.made \subseteq DOMAIN pays',
         \A k \in fixture'.made \ fixture.made : pays'[k].lob = "FICC",
         fixture'.made # fixture.made => fixture.payer # Absent,
         fixture'.pc = "send" => Len(pays') \in fixture'.made,
         fixture'.pc \in {"submit", "approve", "suspend", "pay"} => fixture'.made = {},
         fixture'.pc = "pay2" => fixture.need = "seed" /\ fixture'.made \subseteq fixture'.known,
         fixture'.pc = "send" => fixture'.made \subseteq fixture'.known \cup {Len(pays')},
         fixture'.pc \in {"ready", "failed"} =>
           fixture'.made \subseteq fixture'.known \cup Lost(fixture')
  PROVE  Tidy(fixture)'
<1>1. /\ fixture.need \in Needs /\ Own(fixture) /\ Undoable(fixture)
  BY DEF Tidy
<1>2. /\ \A k \in fixture.made : pays'[k].lob = "FICC"
      /\ FixturePast(fixture) => /\ fixture.inst \in DOMAIN insts'
                                 /\ insts'[fixture.inst].lob = "FICC"
                                 /\ insts'[fixture.inst].type = FixtureType(fixture.need)
      /\ fixture.passed => insts'[fixture.inst].status \notin Open
  BY <1>1, OwnStays DEF Held
<1>3. Own(fixture)'
  BY <1>2 DEF Own
<1>4. Undoable(fixture)'
  BY <1>1 DEF Undoable
<1>5. Retired(fixture)' /\ Accounted(fixture)'
  BY DEF Retired, Accounted, Lost
<1> QED
  BY <1>1, <1>3, <1>4, <1>5 DEF Tidy

(* The calls of the setup, in order. *)
LEMMA SubmitFixtureTidy ==
  ASSUME Held, Tidy(fixture), SubmitFixture
  PROVE  Tidy(fixture)'
<1> DEFINE r == CallInstructionService("SUBMIT", Live(fixture.by), fixture.inst)
<1>1. fixture.pc = "submit" /\ Call(r)
      /\ fixture' = [fixture EXCEPT !.pc = IF r.ok THEN "approve" ELSE "failed"]
  BY DEF SubmitFixture, Go
<1>2. FixtureFields(fixture) /\ Own(fixture) /\ FixturePast(fixture)
      /\ fixture.made = {}
  BY <1>1 DEF Tidy, FixturePast, Accounted
<1>3. Forward(insts', pays') /\ pays' = pays
  <2>1. Stored(insts, pays) /\ fixture.inst \in DOMAIN insts
    BY <1>2 DEF Held, Own, FixturePast
  <2> QED
    BY <1>1, <2>1, InstructionStep, StatusAfterIs
<1> HIDE DEF r
<1>4. /\ FixtureFields(fixture') /\ fixture'.pc \in {"approve", "failed"}
      /\ UNCHANGED <<fixture.need, fixture.seen, fixture.inst, fixture.payer, fixture.suspender,
                     fixture.passed, fixture.made, fixture.known>>
  BY <1>1, <1>2 DEF FixtureFields
<1>5. fixture.made \subseteq DOMAIN pays' /\ fixture.known \subseteq fixture.made
  BY <1>2, <1>3 DEF Own
<1> QED
  BY <1>1, <1>2, <1>3, <1>4, <1>5, Onward DEF FixtureSteps

LEMMA ApproveFixtureTidy ==
  ASSUME Held, Tidy(fixture), ApproveFixture
  PROVE  Tidy(fixture)'
<1>1. PICK u : LET a == CallInstructionService("APPROVE", Live(u), fixture.inst)
               IN /\ Call(a)
                  /\ fixture' = [fixture EXCEPT !.passed = a.ok,
                       !.pc = CASE ~a.ok -> "failed"
                                [] fixture.need = "instruction" -> "ready"
                                [] fixture.need = "suspended" -> "suspend"
                                [] OTHER -> "pay"]
  BY DEF ApproveFixture
<1> DEFINE r == CallInstructionService("APPROVE", Live(u), fixture.inst)
           to == CASE ~r.ok -> "failed"
                   [] fixture.need = "instruction" -> "ready"
                   [] fixture.need = "suspended" -> "suspend"
                   [] OTHER -> "pay"
<1>2. Call(r) /\ fixture' = [fixture EXCEPT !.passed = r.ok, !.pc = to]
  BY <1>1
<1>3. fixture.pc = "approve"
  BY DEF ApproveFixture
<1>4. FixtureFields(fixture) /\ Own(fixture) /\ FixturePast(fixture)
      /\ fixture.made = {}
  BY <1>3 DEF Tidy, FixturePast, Accounted
<1>5. Forward(insts', pays') /\ pays' = pays /\ (r.ok => insts'[fixture.inst].status \notin Open)
  <2>1. Stored(insts, pays) /\ fixture.inst \in DOMAIN insts
    BY <1>4 DEF Held, Own, FixturePast
  <2> QED
    BY <1>2, <2>1, InstructionStep, StatusAfterIs DEF Open
<1> HIDE DEF r
<1>6. to \in {"failed", "ready", "suspend", "pay"}
  OBVIOUS
<1> HIDE DEF to
<1>7. /\ FixtureFields(fixture') /\ fixture'.pc = to /\ fixture'.passed = r.ok
      /\ UNCHANGED <<fixture.need, fixture.seen, fixture.inst, fixture.payer, fixture.suspender,
                     fixture.made, fixture.known>>
  BY <1>2, <1>4 DEF FixtureFields
<1>8. fixture.made \subseteq DOMAIN pays' /\ fixture.known \subseteq fixture.made
  BY <1>4, <1>5 DEF Own
<1> QED
  BY <1>3, <1>4, <1>5, <1>6, <1>7, <1>8, Onward DEF FixtureSteps

LEMMA SuspendFixtureTidy ==
  ASSUME Held, Tidy(fixture), SuspendFixture
  PROVE  Tidy(fixture)'
<1> DEFINE r == CallInstructionService("SUSPEND", Live(fixture.suspender), fixture.inst)
<1>1. fixture.pc = "suspend"
  BY DEF SuspendFixture
<1>2. FixtureFields(fixture) /\ Own(fixture) /\ FixturePast(fixture)
      /\ fixture.made = {}
  BY <1>1 DEF Tidy, FixturePast, Accounted
<1>3. Stored(insts, pays) /\ fixture.inst \in DOMAIN insts
  BY <1>2 DEF Held, Own, FixturePast
<1>4. /\ Forward(insts', pays') /\ pays' = pays
      /\ \E to \in {"ready", "failed"} : fixture' = [fixture EXCEPT !.pc = to]
  <2>1. CASE fixture.suspender = Absent
    BY <1>3, <2>1, NothingIsForward DEF SuspendFixture
  <2>2. CASE fixture.suspender # Absent
    <3>1. Call(r) /\ fixture' = [fixture EXCEPT !.pc = IF r.ok THEN "ready" ELSE "failed"]
      BY <2>2 DEF SuspendFixture, Go
    <3>2. Forward(insts', pays') /\ pays' = pays
      BY <1>3, <3>1, InstructionStep, StatusAfterIs
    <3> QED
      BY <3>1, <3>2
  <2> QED
    BY <2>1, <2>2
<1>5. /\ FixtureFields(fixture') /\ fixture'.pc \in {"ready", "failed"}
      /\ UNCHANGED <<fixture.need, fixture.seen, fixture.inst, fixture.payer, fixture.suspender,
                     fixture.passed, fixture.made, fixture.known>>
  BY <1>2, <1>4 DEF FixtureFields
<1>6. fixture.made \subseteq DOMAIN pays' /\ fixture.known \subseteq fixture.made
  BY <1>2, <1>4 DEF Own
<1> QED
  BY <1>1, <1>2, <1>4, <1>5, <1>6, Onward DEF FixtureSteps

LEMMA PayFixtureTidy ==
  ASSUME Held, Tidy(fixture), PayFixture
  PROVE  Tidy(fixture)'
<1>1. fixture.pc \in {"pay", "pay2"}
  BY DEF PayFixture
<1>2. FixtureFields(fixture) /\ Own(fixture) /\ FixturePast(fixture)
      /\ fixture.made \subseteq fixture.known
      /\ (fixture.need # "seed" => fixture.made = {} /\ fixture.pc = "pay")
  BY <1>1 DEF Tidy, FixturePast, Accounted
<1>3. Stored(insts, pays) /\ fixture.inst \in DOMAIN insts /\ insts[fixture.inst].lob = "FICC"
  BY <1>2 DEF Held, Own, FixturePast
<1>4. fixture.made \subseteq DOMAIN pays /\ fixture.known \subseteq fixture.made
  BY <1>2 DEF Own
<1>5. CASE UNCHANGED <<insts, pays>> /\ fixture' = [fixture EXCEPT !.pc = "failed"]
  <2>1. /\ FixtureFields(fixture') /\ fixture'.pc = "failed"
        /\ UNCHANGED <<fixture.need, fixture.seen, fixture.inst, fixture.payer, fixture.suspender,
                       fixture.passed, fixture.made, fixture.known>>
    BY <1>2, <1>5 DEF FixtureFields
  <2>2. Forward(insts', pays')
    BY <1>3, <1>5, NothingIsForward
  <2> QED
    BY <1>1, <1>2, <1>4, <1>5, <2>1, <2>2, Onward DEF FixtureSteps
<1> DEFINE r == CreatePaymentCall(fixture.payer, fixture.inst, 1)
           made == fixture.made \cup {Len(r.pays)}
           told == fixture.pc = "pay" /\ fixture.need \in {"draft", "seed"}
           known == IF told THEN fixture.known \cup {Len(r.pays)} ELSE fixture.known
           to == CASE fixture.need = "draft" -> "ready"
                   [] fixture.need = "seed" /\ fixture.pc = "pay" -> "pay2"
                   [] OTHER -> "send"
<1>6. ASSUME fixture.payer # Absent
      PROVE  /\ Call(r)
             /\ r.ok => fixture' = [fixture EXCEPT !.made = made, !.known = known, !.pc = to]
             /\ ~r.ok => fixture' = [fixture EXCEPT !.pc = "failed"]
  BY <1>6 DEF PayFixture
<1>7. ASSUME Call(r)
      PROVE  /\ Forward(insts', pays') /\ pays' = r.pays /\ insts' = insts /\ (~r.ok => pays' = pays)
             /\ r.ok => DOMAIN pays' = DOMAIN pays \cup {Len(r.pays)} /\ pays'[Len(r.pays)].lob = "FICC"
  <2>1. pays' = r.pays
    BY <1>7 DEF Call
  <2> QED
    BY <1>3, <1>7, <2>1, PaymentCreation
<1> HIDE DEF r
<1>8. CASE fixture.payer # Absent /\ r.ok
  <2>1. fixture' = [fixture EXCEPT !.made = made, !.known = known, !.pc = to]
    BY <1>6, <1>8
  <2>2. to \in {"ready", "pay2", "send"} /\ (fixture.need # "seed" => to # "pay2")
        /\ (fixture.need = "draft" <=> to = "ready")
    BY <1>2
  <2>3. /\ Forward(insts', pays') /\ Len(pays') = Len(r.pays)
        /\ DOMAIN pays' = DOMAIN pays \cup {Len(r.pays)} /\ pays'[Len(r.pays)].lob = "FICC"
    BY <1>6, <1>7, <1>8
  <2>4. /\ known \subseteq made /\ made \subseteq DOMAIN pays'
        /\ fixture.need = "draft" => known = made
        /\ made \subseteq known \cup {Len(r.pays)}
        /\ to = "pay2" => fixture.need = "seed" /\ made \subseteq known
    BY <1>2, <1>4, <2>3
  <2> HIDE DEF to, known
  <2>5. /\ FixtureFields(fixture') /\ fixture'.pc = to /\ fixture'.made = made /\ fixture'.known = known
        /\ UNCHANGED <<fixture.need, fixture.seen, fixture.inst, fixture.payer, fixture.suspender,
                       fixture.passed>>
    BY <1>2, <2>1 DEF FixtureFields
  <2>6. Len(pays') \in made /\ \A k \in made \ fixture.made : pays'[k].lob = "FICC"
    BY <2>3
  <2> HIDE DEF made
  <2> QED
    BY <1>1, <1>2, <1>8, <2>2, <2>3, <2>4, <2>5, <2>6, Onward DEF FixtureSteps
<1>9. CASE ~(fixture.payer # Absent /\ r.ok)
  <2>1. UNCHANGED <<insts, pays>> /\ fixture' = [fixture EXCEPT !.pc = "failed"]
    <3>1. CASE fixture.payer = Absent
      BY <3>1 DEF PayFixture
    <3>2. CASE fixture.payer # Absent
      BY <1>6, <1>7, <1>9, <3>2
    <3> QED
      BY <3>1, <3>2
  <2> QED
    BY <1>5, <2>1
<1> QED
  BY <1>8, <1>9

(* The last call of the setup tells the payment, whatever came of it; the      *)
(* seeding does if it was submitted.                                           *)
LEMMA SendFixtureTidy ==
  ASSUME Held, Tidy(fixture), SendFixture, fixture' # Fixture
  PROVE  Tidy(fixture)'
<1> DEFINE k == Len(pays)
<1>1. fixture.pc = "send" /\ Stored(insts, pays)
  BY DEF SendFixture, Held
<1>2. PICK u : LET a == CallPaymentService("SUBMIT", Live(u), k)
               IN /\ Call(a)
                  /\ fixture' = [fixture EXCEPT !.pc = IF a.ok THEN "ready" ELSE "failed",
                                   !.known = IF Told(fixture.need, a.ok) THEN @ \cup {k} ELSE @,
                                   !.unsent = IF a.ok THEN @ ELSE {k}]
  BY DEF SendFixture
<1>3. FixtureFields(fixture) /\ Own(fixture) /\ FixturePast(fixture) /\ k \in fixture.made
      /\ fixture.made \subseteq fixture.known \cup {k}
  BY <1>1 DEF Tidy, FixturePast, Accounted, Own
<1>4. fixture.made \subseteq DOMAIN pays /\ fixture.known \subseteq fixture.made
  BY <1>3 DEF Own
<1> DEFINE r == CallPaymentService("SUBMIT", Live(u), k)
           known == IF Told(fixture.need, r.ok) THEN fixture.known \cup {k} ELSE fixture.known
           unsent == IF r.ok THEN fixture.unsent ELSE {k}
           to == IF r.ok THEN "ready" ELSE "failed"
<1>5. Call(r) /\ fixture' = [fixture EXCEPT !.pc = to, !.known = known, !.unsent = unsent]
  BY <1>2
<1>6. Forward(insts', pays') /\ DOMAIN pays \subseteq DOMAIN pays'
  <2>1. Forward(insts', pays')
    BY <1>1, <1>3, <1>4, <1>5, PaymentStep DEF PaymentCalls
  <2> QED
    BY <2>1 DEF Forward
<1> HIDE DEF r, k
<1>7. /\ known \subseteq fixture.made
      /\ fixture.made \subseteq known \cup IF fixture.need = "seed" THEN unsent ELSE {}
  BY <1>3, <1>4 DEF Told
<1>8. to \in {"ready", "failed"}
  OBVIOUS
<1> HIDE DEF known, unsent, to
<1>9. /\ FixtureFields(fixture') /\ fixture'.pc = to /\ fixture'.known = known
      /\ fixture'.unsent = unsent
      /\ UNCHANGED <<fixture.need, fixture.seen, fixture.inst, fixture.payer, fixture.suspender,
                     fixture.passed, fixture.made>>
  BY <1>3, <1>5 DEF FixtureFields
<1>10. fixture'.made \subseteq fixture'.known \cup Lost(fixture')
  BY <1>7, <1>9 DEF Lost
<1> QED
  BY <1>1, <1>3, <1>4, <1>6, <1>7, <1>8, <1>9, <1>10, Onward DEF FixtureSteps

(* Teardown starts from what the setup made being known, and ends with all of  *)
(* it closed, and a standing instruction suspended.                            *)
LEMMA TearDownTidy ==
  ASSUME Held, Tidy(fixture), TearDown, zitadel' = zitadel
  PROVE  Tidy(fixture)'
<1>1. /\ fixture' = [fixture EXCEPT !.pc = "cancel", !.calm = fixture.seen = zitadel]
      /\ UNCHANGED <<insts, pays>> /\ fixture.pc \in {"ready", "failed"}
  BY DEF TearDown
<1>2. /\ FixtureFields(fixture) /\ fixture.need \in Needs /\ Own(fixture) /\ Undoable(fixture)
      /\ fixture.made \subseteq fixture.known \cup Lost(fixture)
  BY <1>1 DEF Tidy, Accounted
<1>3. /\ FixtureFields(fixture') /\ fixture'.pc = "cancel"
      /\ fixture'.calm => fixture.seen = zitadel
      /\ UNCHANGED <<fixture.need, fixture.seen, fixture.inst, fixture.payer, fixture.suspender,
                     fixture.passed, fixture.made, fixture.known, fixture.unsent>>
  BY <1>1, <1>2 DEF FixtureFields
<1>4. Own(fixture)'
  BY <1>1, <1>2, <1>3 DEF Own
<1>5. Undoable(fixture)'
  BY <1>2, <1>3 DEF Undoable
<1>6. Retired(fixture)' /\ Accounted(fixture)'
  BY <1>2, <1>3 DEF Retired, Accounted, Lost
<1> QED
  BY <1>2, <1>3, <1>4, <1>5, <1>6 DEF Tidy, FixtureSteps

LEMMA CancelFixtureTidy ==
  ASSUME Held, Tidy(fixture), NEW k, CancelFixture(k), zitadel' = zitadel
  PROVE  Tidy(fixture)'
<1> DEFINE r == CallPaymentService("CANCEL", Live(fixture.payer), k)
<1>1. /\ fixture' = [fixture EXCEPT !.known = @ \ {k}] /\ Call(r)
      /\ fixture.pc = "cancel" /\ k \in fixture.known
  BY DEF CancelFixture
<1>2. /\ FixtureFields(fixture) /\ fixture.need \in Needs /\ Own(fixture) /\ Undoable(fixture)
      /\ fixture.calm => \A j \in fixture.made : j \in fixture.known \cup Lost(fixture) \/ Closed(j)
  BY <1>1 DEF Tidy, Accounted
<1>3. k \in DOMAIN pays /\ k \in fixture.made /\ pays[k].lob = "FICC" /\ Stored(insts, pays)
  BY <1>1, <1>2 DEF Own, Held
<1>4. Forward(insts', pays')
  BY <1>1, <1>3, PaymentStep DEF PaymentCalls
<1>5. /\ fixture.made \subseteq DOMAIN pays' /\ fixture.known \subseteq fixture.made
      /\ \A j \in fixture.made : pays'[j].lob = "FICC" /\ (Closed(j) => Closed(j)')
      /\ FixturePast(fixture) =>
              /\ fixture.inst \in DOMAIN insts /\ fixture.inst \in DOMAIN insts'
              /\ insts'[fixture.inst].lob = "FICC"
              /\ insts'[fixture.inst].type = FixtureType(fixture.need)
      /\ fixture.passed => insts'[fixture.inst].status \notin Open
  BY <1>2, <1>4, OwnStays DEF Held
<1>6. fixture.calm => Closed(k)'
  <2>1. SUFFICES ASSUME fixture.calm PROVE pays'[k].status \notin Open
    BY DEF Closed
  <2>2. fixture.payer \in FixturePayers(zitadel)
    BY <1>1, <1>2, <1>3, <2>1 DEF Undoable
  <2>3. r.pays[k].status \notin Open
    BY <1>3, <2>2, PayersCancel
  <2> QED
    BY <1>1, <2>3 DEF Call
<1> HIDE DEF r
<1>7. /\ FixtureFields(fixture') /\ fixture'.pc = "cancel" /\ fixture'.known = fixture.known \ {k}
      /\ UNCHANGED <<fixture.need, fixture.seen, fixture.inst, fixture.payer, fixture.suspender,
                     fixture.passed, fixture.made, fixture.unsent, fixture.calm>>
  BY <1>1, <1>2 DEF FixtureFields
<1>8. Own(fixture)'
  BY <1>5, <1>7 DEF Own, FixturePast
<1>9. Undoable(fixture)'
  BY <1>1, <1>2, <1>7 DEF Undoable
<1>10. Retired(fixture)' /\ Accounted(fixture)'
  <2>1. Lost(fixture') = Lost(fixture)
    BY <1>7 DEF Lost
  <2>2. fixture'.calm =>
           \A j \in fixture'.made : j \in fixture'.known \cup Lost(fixture) \/ Closed(j)'
    BY <1>2, <1>5, <1>6, <1>7
  <2> QED
    BY <1>7, <2>1, <2>2 DEF Retired, Accounted, Closed
<1> QED
  BY <1>2, <1>7, <1>8, <1>9, <1>10 DEF Tidy, FixtureSteps

LEMMA DropInstructionTidy ==
  ASSUME Held, Tidy(fixture), DropInstruction, zitadel' = zitadel
  PROVE  Tidy(fixture)'
<1> DEFINE r == CallInstructionService("SUSPEND", Live(fixture.suspender), fixture.inst)
           drops == fixture.passed /\ FixtureType(fixture.need) = "STANDING"
                    /\ fixture.suspender # Absent
<1>1. /\ fixture' = [fixture EXCEPT !.pc = "torn"] /\ fixture.pc = "cancel" /\ fixture.known = {}
      /\ IF drops THEN Call(r) ELSE UNCHANGED <<insts, pays>>
  BY DEF DropInstruction
<1>2. /\ FixtureFields(fixture) /\ fixture.need \in Needs /\ Own(fixture) /\ Undoable(fixture)
      /\ fixture.calm => \A j \in fixture.made : j \in Lost(fixture) \/ Closed(j)
  BY <1>1 DEF Tidy, Accounted
<1>3. Stored(insts, pays) /\ (drops => fixture.inst \in DOMAIN insts /\ insts[fixture.inst].lob = "FICC")
  BY <1>2 DEF Own, Held
<1>4. Forward(insts', pays')
  <2>1. CASE drops
    BY <1>1, <1>3, <2>1, InstructionStep, StatusAfterIs
  <2>2. CASE ~drops
    BY <1>1, <1>3, <2>2, NothingIsForward
  <2> QED
    BY <2>1, <2>2
<1>5. /\ fixture.made \subseteq DOMAIN pays' /\ fixture.known \subseteq fixture.made
      /\ \A j \in fixture.made : pays'[j].lob = "FICC" /\ (Closed(j) => Closed(j)')
      /\ FixturePast(fixture) =>
              /\ fixture.inst \in DOMAIN insts /\ fixture.inst \in DOMAIN insts'
              /\ insts'[fixture.inst].lob = "FICC"
              /\ insts'[fixture.inst].type = FixtureType(fixture.need)
      /\ fixture.passed => insts'[fixture.inst].status \notin Open
  BY <1>2, <1>4, OwnStays DEF Held
<1>6. drops /\ fixture.calm => insts'[fixture.inst].status # "APPROVED"
  <2>1. SUFFICES ASSUME drops, fixture.calm PROVE insts'[fixture.inst].status # "APPROVED"
    OBVIOUS
  <2>2. fixture.suspender \in Suspenders(zitadel)
    BY <1>1, <1>2, <2>1 DEF Undoable
  <2>3. r.insts[fixture.inst].status # "APPROVED"
    BY <1>3, <2>1, <2>2, SuspendersSuspend
  <2> QED
    BY <1>1, <2>1, <2>3 DEF Call
<1> HIDE DEF r
<1>7. /\ FixtureFields(fixture') /\ fixture'.pc = "torn"
      /\ UNCHANGED <<fixture.need, fixture.seen, fixture.inst, fixture.payer, fixture.suspender,
                     fixture.passed, fixture.made, fixture.known, fixture.unsent, fixture.calm>>
  BY <1>1, <1>2 DEF FixtureFields
<1>8. Own(fixture)'
  BY <1>5, <1>7 DEF Own, FixturePast
<1>9. Undoable(fixture)'
  BY <1>2, <1>7 DEF Undoable
<1>10. Retired(fixture)'
  BY <1>6, <1>7 DEF Retired
<1>11. Accounted(fixture)'
  <2>1. Lost(fixture') = Lost(fixture)
    BY <1>7 DEF Lost
  <2>2. fixture'.calm => \A j \in fixture'.made : j \in Lost(fixture) \/ Closed(j)'
    BY <1>2, <1>5, <1>7
  <2> QED
    BY <1>7, <2>1, <2>2 DEF Accounted, Closed
<1> QED
  BY <1>2, <1>7, <1>8, <1>9, <1>10, <1>11 DEF Tidy, FixtureSteps

LEMMA TidyKept ==
  ASSUME Held, Promising(batch), fixture = Fixture \/ Tidy(fixture), [HarnessNext]_<<vars, hvars>>
  PROVE  fixture' = Fixture \/ Tidy(fixture)'
<1>1. CASE fixture' = Fixture
  BY <1>1
<1>2. CASE \E need \in Needs : SetUp(need)
  BY <1>2, SetUpTidy
<1>3. CASE fixture = Fixture /\ ~\E need \in Needs : SetUp(need)
  <2>1. fixture.pc = "none"
    BY <1>3 DEF Fixture
  <2>2. fixture' \in {fixture, Stir(fixture), Fixture}
    <3>1. CASE UNCHANGED <<vars, hvars>> \/ DirectoryMoves \/ (batch.pc = "closed" /\ Next /\ UNCHANGED hvars)
      BY <3>1 DEF hvars, DirectoryMoves, Disturb
    <3>2. CASE HarnessStep
      <4>1. CASE \/ \E k \in DOMAIN pays : CancelFixture(k)
                 \/ SubmitFixture \/ ApproveFixture \/ SuspendFixture \/ PayFixture \/ SendFixture
                 \/ TearDown \/ DropInstruction
        BY <2>1, <4>1 DEF CancelFixture, SubmitFixture, ApproveFixture, SuspendFixture, PayFixture,
                          SendFixture, TearDown, DropInstruction
      <4>2. CASE \E k \in DOMAIN insts : ReactivateItem(k)
        BY <4>2 DEF ReactivateItem
      <4>3. CASE \E k \in DOMAIN insts : SubmitItem(k) \/ ApproveItem(k) \/ RejectItem(k) \/ SuspendItem(k)
        BY <4>3 DEF SubmitItem, ApproveItem, RejectItem, SuspendItem
      <4>4. CASE \E k \in DOMAIN pays :
                   SubmitPaymentItem(k) \/ UpdateItem(k) \/ ApprovePaymentItem(k) \/ RejectPaymentItem(k)
        BY <4>4 DEF SubmitPaymentItem, UpdateItem, ApprovePaymentItem, RejectPaymentItem
      <4>5. CASE \/ ApproveSubmitted \/ EndBatch \/ CloseBatch \/ CreateInstructions \/ CreatePayments
                 \/ \E kind \in BatchKinds : StartBatch(kind)
                 \/ OpenConsole \/ CloseConsole \/ OtherClient
        BY <4>5 DEF ApproveSubmitted, EndBatch, CloseBatch, CreateInstructions, CreatePayments,
                    StartBatch, OpenConsole, CloseConsole, OtherClient, Disturb
      <4> QED
        BY <1>3, <3>2, <4>1, <4>2, <4>3, <4>4, <4>5 DEF HarnessStep
    <3> QED
      BY <3>1, <3>2 DEF HarnessNext
  <2>3. fixture' = Fixture
    BY <1>3, <2>2, StirredFixture
  <2> QED
    BY <2>3
<1>4. CASE Tidy(fixture) /\ fixture' # Fixture /\ ~\E need \in Needs : SetUp(need)
  <2>1. fixture.pc \in FixtureSteps /\ fixture # Fixture
    BY <1>4 DEF Tidy, FixtureFields, Fixture
  <2>2. batch.pc # "closed" /\ (fixture.pc = "send" => batch.pc = "idle") /\ Stored(insts, pays)
    BY <2>1 DEF Held, Turns, AtWork
  <2>3. CASE UNCHANGED <<vars, hvars>>
    <3>1. UNCHANGED <<insts, pays, fixture, zitadel>>
      BY <2>3 DEF vars, dirVars, hvars
    <3> QED
      BY <1>4, <2>2, <3>1, NothingIsForward, TidyAside
  <2>4. CASE DirectoryMoves \/ OtherClient
    BY <1>4, <2>4, OthersMove, TidyAside
  <2>5. CASE HarnessStep /\ UNCHANGED vars
    <3>1. zitadel' = zitadel
      BY <2>5 DEF vars, dirVars
    <3>2. CASE SubmitFixture \/ ApproveFixture \/ SuspendFixture \/ PayFixture \/ SendFixture
               \/ TearDown \/ DropInstruction \/ \E k \in DOMAIN pays : CancelFixture(k)
      BY <1>4, <3>1, <3>2, SubmitFixtureTidy, ApproveFixtureTidy, SuspendFixtureTidy, PayFixtureTidy,
         SendFixtureTidy, TearDownTidy, DropInstructionTidy, CancelFixtureTidy
    <3>3. CASE OpenConsole \/ CloseConsole
      BY <1>4, <2>2, <3>3 DEF OpenConsole, CloseConsole
    <3>4. CASE OtherClient
      BY <2>4, <3>4
    <3>5. CASE \E k \in DOMAIN insts :
                 SubmitItem(k) \/ ApproveItem(k) \/ RejectItem(k) \/ SuspendItem(k) \/ ReactivateItem(k)
      <4>1. fixture' \in {fixture, Stir(fixture)} /\ fixture.pc # "send"
        BY <2>2, <3>5 DEF SubmitItem, ApproveItem, RejectItem, SuspendItem, ReactivateItem, Take
      <4> QED
        BY <1>4, <3>1, <3>5, <4>1, InstructionItemsMove, TidyAside DEF Quietly
    <3>6. CASE \E k \in DOMAIN pays :
                 SubmitPaymentItem(k) \/ UpdateItem(k) \/ ApprovePaymentItem(k) \/ RejectPaymentItem(k)
      <4>1. fixture' = fixture /\ fixture.pc # "send"
        BY <2>2, <3>6 DEF SubmitPaymentItem, UpdateItem, ApprovePaymentItem, RejectPaymentItem, Take
      <4> QED
        BY <1>4, <3>1, <3>6, <4>1, PaymentItemsMove, TidyAside DEF Quietly
    <3>7. CASE ApproveSubmitted
      <4>1. fixture' = fixture /\ fixture.pc # "send" /\ batch.item \in DOMAIN insts
        BY <2>2, <3>7 DEF ApproveSubmitted, Held, Turns
      <4>2. Forward(insts', pays') /\ ~Reapproves(insts')
        BY <2>2, <3>7, <4>1, InstructionStep, StatusAfterIs DEF ApproveSubmitted
      <4> QED
        BY <1>4, <3>1, <4>1, <4>2, TidyAside
    <3>8. CASE CreateInstructions \/ CreatePayments
      <4>1. fixture' = fixture /\ fixture.pc # "send"
        BY <3>8 DEF CreateInstructions, CreatePayments, Ready
      <4> QED
        BY <1>4, <3>1, <3>8, <4>1, CreationsMove, TidyAside DEF Quietly
    <3>9. CASE EndBatch \/ CloseBatch \/ \E kind \in BatchKinds : StartBatch(kind)
      <4>1. UNCHANGED <<insts, pays, fixture>>
        BY <3>9 DEF EndBatch, CloseBatch, StartBatch
      <4> QED
        BY <1>4, <2>2, <3>1, <4>1, NothingIsForward, TidyAside
    <3> QED
      BY <1>4, <2>5, <3>2, <3>3, <3>4, <3>5, <3>6, <3>7, <3>8, <3>9 DEF HarnessStep
  <2> QED
    BY <2>2, <2>3, <2>4, <2>5 DEF HarnessNext
<1> QED
  BY <1>1, <1>2, <1>3, <1>4

(* The harness's state, for the two theorems that follow.                      *)
HarnessInv == Held /\ Promising(batch) /\ (fixture = Fixture \/ Tidy(fixture))
LEMMA HarnessInvHolds == HarnessSpec => []HarnessInv
<1>1. HarnessInit => HarnessInv
  <2> SUFFICES ASSUME HarnessInit PROVE HarnessInv
    OBVIOUS
  <2>1. Stored(<<>>, <<>>)
    BY DEF Stored
  <2> QED
    BY <2>1 DEF HarnessInit, HarnessInv, Held, Turns, AtWork, Fixture, Promising
<1>2. HarnessInv /\ [HarnessNext]_<<vars, hvars>> => HarnessInv'
  <2> SUFFICES ASSUME HarnessInv, [HarnessNext]_<<vars, hvars>> PROVE HarnessInv'
    OBVIOUS
  <2>1. Held' /\ Promising(batch') /\ (fixture' = Fixture \/ Tidy(fixture)')
    BY HeldKept, PromisingKept, TidyKept DEF HarnessInv
  <2> QED
    BY <2>1 DEF HarnessInv, Fixture
<1> QED
  BY <1>1, <1>2, PTL DEF HarnessSpec

(* An undisturbed teardown leaves nothing of the setup open, wherever the      *)
(* setup failed, but for a payment whose submission was refused to the         *)
(* seeding, and no standing instruction approved that it could suspend.        *)
THEOREM TeardownIsThorough == HarnessSpec => []TornDown
<1>1. HarnessInv => TornDown
  <2> SUFFICES ASSUME HarnessInv, fixture.pc = "torn", fixture.calm PROVE TornDown
    BY DEF TornDown
  <2>1. Retired(fixture) /\ \A k \in fixture.made : k \in Lost(fixture) \/ Closed(k)
    BY DEF HarnessInv, Tidy, Accounted, Fixture
  <2> QED
    BY <2>1 DEF TornDown, Retired, Lost, Closed, Open
<1> QED
  BY <1>1, HarnessInvHolds, PTL

-----------------------------------------------------------------------------
(* Whom a batch picks *)

InstructionPicks == {"submit_instructions", "approve_instructions", "reject_instructions"}
PaymentPicks == {"submit_payments", "approve_payments", "reject_payments"}

(* A document still to come is as it was listed; the one being approved has    *)
(* just been submitted.                                                        *)
AsListed(b, k) ==
  IF b.pc = "second" /\ k = b.item
  THEN insts[k].status = "SUBMITTED" /\ SameInstruction(b.all[k], insts[k])
  ELSE insts[k] = b.all[k]
ListedLeft(b) ==
  /\ b.kind \in InstructionPicks =>
       \A k \in b.left : /\ k \in DOMAIN insts /\ AsListed(b, k)
                         /\ b.all[k].status \in InstructionBatch[b.kind]
  /\ b.kind \in PaymentPicks =>
       \A k \in b.left : /\ k \in DOMAIN pays /\ pays[k] = b.all[k]
                         /\ b.all[k].status \in PaymentBatch[b.kind]
Second(b) ==
  /\ b.kind = "approve_instructions" /\ b.item \in b.left
  /\ b.actor \in ApproversOf(b.seen, b.all[b.item])
ExcusedAll(b) ==
  \A x \in b.refused : /\ Excused(b, x.doc, x.user)
                       /\ b.kind \in PaymentPicks => x.doc \in DOMAIN pays
Undisturbed(b) ==
  /\ b.pc \in {"working", "second"} /\ b.calm =>
       b.seen = zitadel /\ b.submitter \in InstructionSubmitters(b.seen) /\ ListedLeft(b)
  /\ b.pc = "second" /\ b.calm => Second(b)
  /\ b.pc \in {"working", "second", "done"} /\ b.calm => ExcusedAll(b)

(* What becomes of a batch with one of its documents.                          *)
Tallied(k, u, ok) ==
  /\ batch'.pc = "working" /\ batch'.left = batch.left \ {k}
  /\ UNCHANGED <<batch.kind, batch.all, batch.seen, batch.submitter, batch.calm>>
  /\ batch'.refused = IF ok THEN batch.refused ELSE batch.refused \cup {[doc |-> k, user |-> u]}
LEMMA TallyIs ==
  ASSUME BatchFields(batch), NEW k, NEW u, NEW ok, batch' = Tally(batch, k, u, ok)
  PROVE  Tallied(k, u, ok)
<1>1. CASE ok
  BY <1>1 DEF Tally, BatchFields, Tallied
<1>2. CASE ~ok
  BY <1>2 DEF Tally, BatchFields, Tallied
<1> QED
  BY <1>1, <1>2

LEMMA SkipIs ==
  ASSUME BatchFields(batch), NEW k,
         batch' = Skip(batch, k) \/ batch' = [batch EXCEPT !.left = @ \ {k}, !.skipped = @ + 1]
  PROVE  /\ batch'.left = batch.left \ {k} /\ batch'.refused = batch.refused
         /\ UNCHANGED <<batch.pc, batch.kind, batch.all, batch.seen, batch.submitter, batch.calm>>
<1>1. CASE batch' = Skip(batch, k)
  BY <1>1 DEF Skip, BatchFields
<1>2. CASE batch' = [batch EXCEPT !.left = @ \ {k}, !.skipped = @ + 1]
  BY <1>2 DEF BatchFields
<1> QED
  BY <1>1, <1>2

LEMMA SecondIs ==
  ASSUME BatchFields(batch), NEW k, NEW u,
         batch' = [batch EXCEPT !.pc = "second", !.item = k, !.actor = u]
  PROVE  /\ batch'.pc = "second" /\ batch'.item = k /\ batch'.actor = u
         /\ UNCHANGED <<batch.kind, batch.all, batch.seen, batch.submitter, batch.calm, batch.left,
                        batch.refused>>
BY DEF BatchFields

(* An excuse that does not ask the services remains one.                       *)
LEMMA InstructionTallied ==
  ASSUME Promising(batch), Undisturbed(batch), batch.pc \in {"working", "second"},
         batch.kind \in InstructionPicks, NEW k, NEW u, NEW ok, batch' = Tally(batch, k, u, ok),
         zitadel' = zitadel, DOMAIN insts \subseteq DOMAIN insts',
         \A j \in DOMAIN insts : j # k => insts'[j] = insts[j],
         batch.pc = "second" => k = batch.item,
         batch.calm /\ ~ok => Excused(batch, k, u)
  PROVE  Undisturbed(batch)'
<1> SUFFICES ASSUME batch'.calm PROVE Undisturbed(batch)'
  BY DEF Undisturbed
<1>1. /\ batch'.pc = "working" /\ batch'.left = batch.left \ {k}
      /\ UNCHANGED <<batch.kind, batch.all, batch.seen, batch.submitter, batch.calm>>
      /\ ok => batch'.refused = batch.refused
      /\ ~ok => batch'.refused = batch.refused \cup {[doc |-> k, user |-> u]}
  <2>1. BatchFields(batch)
    BY WorkingFields
  <2>2. Tallied(k, u, ok)
    BY <2>1, TallyIs
  <2> QED
    BY <2>2 DEF Tallied
<1>2. /\ batch.seen = zitadel /\ batch.submitter \in InstructionSubmitters(batch.seen)
      /\ ListedLeft(batch) /\ ExcusedAll(batch)
  BY <1>1 DEF Undisturbed
<1>3. ListedLeft(batch)'
  <2>1. \A j \in batch.left \ {k} : /\ j \in DOMAIN insts' /\ insts'[j] = batch.all[j]
                                    /\ batch.all[j].status \in InstructionBatch[batch.kind]
    BY <1>2 DEF ListedLeft, AsListed
  <2>2. batch.kind \notin PaymentPicks
    BY DEF InstructionPicks, PaymentPicks
  <2> QED
    BY <1>1, <2>1, <2>2 DEF ListedLeft, AsListed
<1>4. ExcusedAll(batch)'
  <2>1. \A x \in batch'.refused : Excused(batch, x.doc, x.user)
    BY <1>1, <1>2 DEF ExcusedAll
  <2>2. \A x \in batch'.refused : Excused(batch, x.doc, x.user)'
    BY <1>1, <2>1 DEF Excused, InstructionPicks, InstructionCreators
  <2> QED
    BY <1>1, <2>2 DEF ExcusedAll, InstructionPicks, PaymentPicks
<1> QED
  BY <1>1, <1>2, <1>3, <1>4 DEF Undisturbed, InstructionSubmitters, InstructionCreators

LEMMA PicksSkipped ==
  ASSUME Promising(batch), Undisturbed(batch), batch.pc = "working", NEW k,
         batch' = Skip(batch, k), UNCHANGED <<insts, pays, zitadel>>
  PROVE  Undisturbed(batch)'
<1> SUFFICES ASSUME batch'.calm PROVE Undisturbed(batch)'
  BY DEF Undisturbed
<1>1. /\ batch'.left = batch.left \ {k} /\ batch'.refused = batch.refused
      /\ UNCHANGED <<batch.pc, batch.kind, batch.all, batch.seen, batch.submitter, batch.calm>>
  BY WorkingFields, SkipIs
<1>2. /\ batch.seen = zitadel /\ batch.submitter \in InstructionSubmitters(batch.seen)
      /\ ListedLeft(batch) /\ ExcusedAll(batch)
  BY <1>1 DEF Undisturbed
<1>3. ListedLeft(batch)'
  BY <1>1, <1>2 DEF ListedLeft, AsListed
<1>4. ExcusedAll(batch)'
  BY <1>1, <1>2 DEF ExcusedAll, Excused, Alone, InstructionCreators
<1> QED
  BY <1>1, <1>2, <1>3, <1>4 DEF Undisturbed, InstructionSubmitters, InstructionCreators

(* Who submits or creates instructions without being a creator of the middle   *)
(* office.                                                                     *)
Outsider(seen, u) == ~IsMiddleOffice(seen[u]) \/ InstructionCreators(seen) = {}
LEMMA ExcusedIs ==
  ASSUME NEW b, NEW k, NEW u
  PROVE  /\ b.kind \in {"create_instructions", "submit_instructions"} =>
              (Excused(b, k, u) <=> Outsider(b.seen, u))
         /\ b.kind = "approve_instructions" =>
              (Excused(b, k, u) <=> u = b.submitter /\ Outsider(b.seen, u))
         /\ b.kind = "create_payments" =>
              (Excused(b, k, u) <=> insts[k].ended \/ Limits(b.seen[u]) = {})
         /\ b.kind = "submit_payments" =>
              (Excused(b, k, u) <=>
                 \/ insts[pays[k].of].status # "APPROVED" \/ insts[pays[k].of].ended \/ ~Alone(k)
                 \/ IsMiddleOffice(b.seen[u]) /\ pays[k].lob \notin b.seen[u].covers)
         /\ b.kind \in {"reject_instructions", "approve_payments", "reject_payments"}
              => (Excused(b, k, u) <=> FALSE)
         /\ b.kind \in {"suspend_instructions", "reactivate_instructions", "update_payments"}
              => Excused(b, k, u)
BY DEF Excused, Outsider

LEMMA InsidersCreate ==
  ASSUME NEW u \in InstructionSubmitters(zitadel), ~Outsider(zitadel, u)
  PROVE  u \in InstructionCreators(zitadel) /\ IsMiddleOffice(zitadel[u])
BY DEF InstructionSubmitters, Outsider

LEMMA InstructionAnswer ==
  ASSUME Stored(insts, pays), NEW a \in DOMAIN StatusAfter, NEW s, NEW k \in DOMAIN insts,
         Call(CallInstructionService(a, s, k))
  PROVE  /\ CallInstructionService(a, s, k).ok <=> InstructionAllow(a, s, insts[k])
         /\ DOMAIN insts' = DOMAIN insts
         /\ \A j \in DOMAIN insts : j # k => insts'[j] = insts[j]
         /\ SameInstruction(insts[k], insts'[k])
<1>1. PICK r : r = CallInstructionService(a, s, k)
  OBVIOUS
<1>2. /\ (r.ok <=> InstructionAllow(a, s, insts[k])) /\ DOMAIN r.insts = DOMAIN insts
      /\ \A j \in DOMAIN insts : j # k => r.insts[j] = insts[j]
      /\ Forward(r.insts, r.pays)
  BY <1>1, InstructionCallIs
<1>3. SameInstruction(insts[k], r.insts[k])
  BY <1>2 DEF Forward
<1>4. insts' = r.insts
  BY <1>1 DEF Call
<1> QED
  BY <1>1, <1>2, <1>3, <1>4

(* What is listed of a document that is to come, while nobody interferes.      *)
LEMMA ListedIs ==
  ASSUME Undisturbed(batch), batch.pc \in {"working", "second"}, batch.calm, NEW k \in batch.left
  PROVE  /\ batch.seen = zitadel /\ batch.submitter \in InstructionSubmitters(zitadel)
         /\ batch.kind \in InstructionPicks =>
              /\ batch.all[k].status \in InstructionBatch[batch.kind]
              /\ k \in DOMAIN insts /\ SameInstruction(batch.all[k], insts[k])
              /\ batch.pc = "working" => insts[k] = batch.all[k]
              /\ batch.pc = "second" /\ k = batch.item => insts[k].status = "SUBMITTED"
         /\ batch.kind \in PaymentPicks =>
              /\ batch.all[k].status \in PaymentBatch[batch.kind]
              /\ k \in DOMAIN pays /\ pays[k] = batch.all[k]
BY DEF Undisturbed, ListedLeft, AsListed, SameInstruction

LEMMA BatchStatuses ==
  /\ InstructionBatch["submit_instructions"] = {"DRAFT"}
  /\ InstructionBatch["approve_instructions"] = {"DRAFT", "SUBMITTED"}
  /\ InstructionBatch["reject_instructions"] = {"SUBMITTED"}
  /\ PaymentBatch["submit_payments"] = {"DRAFT"}
  /\ PaymentBatch["approve_payments"] = {"SUBMITTED"}
  /\ PaymentBatch["reject_payments"] = {"SUBMITTED"}
BY DEF InstructionBatch, PaymentBatch

LEMMA SubmitItemPicks ==
  ASSUME HarnessInv, Undisturbed(batch), NEW k \in DOMAIN insts, SubmitItem(k), zitadel' = zitadel
  PROVE  Undisturbed(batch)'
<1> DEFINE u == batch.submitter
           r == CallInstructionService("SUBMIT", Live(u), k)
<1>1. /\ batch.pc = "working" /\ batch.kind = "submit_instructions" /\ k \in batch.left
      /\ Call(r) /\ batch' = Tally(batch, k, u, r.ok)
  BY DEF SubmitItem, Take, Finish
<1>2. Stored(insts, pays) /\ Promising(batch)
  BY DEF HarnessInv, Held
<1>3. /\ r.ok <=> InstructionAllow("SUBMIT", Live(u), insts[k])
      /\ DOMAIN insts' = DOMAIN insts /\ \A j \in DOMAIN insts : j # k => insts'[j] = insts[j]
  BY <1>1, <1>2, InstructionAnswer, StatusAfterIs
<1>4. batch.calm /\ ~r.ok => Excused(batch, k, u)
  <2>1. SUFFICES ASSUME batch.calm, ~Outsider(zitadel, u)
                 PROVE  InstructionAllow("SUBMIT", Live(u), insts[k])
    BY <1>1, <1>3, ListedIs, ExcusedIs DEF InstructionPicks
  <2>2. u \in InstructionSubmitters(zitadel) /\ insts[k].status = "DRAFT"
    BY <1>1, <2>1, ListedIs, BatchStatuses DEF InstructionPicks
  <2> QED
    BY <2>1, <2>2, InsidersCreate, CreatorsMaySubmit
<1> HIDE DEF r
<1> QED
  BY <1>1, <1>2, <1>3, <1>4, InstructionTallied DEF InstructionPicks

LEMMA RejectItemPicks ==
  ASSUME HarnessInv, Undisturbed(batch), NEW k \in DOMAIN insts, RejectItem(k), zitadel' = zitadel
  PROVE  Undisturbed(batch)'
<1>1. /\ batch.pc = "working" /\ batch.kind = "reject_instructions" /\ k \in batch.left
      /\ \/ batch' = Skip(batch, k) /\ UNCHANGED <<insts, pays>>
         \/ \E u \in ApproversOf(batch.seen, batch.all[k]) :
              LET r == CallInstructionService("REJECT", Live(u), k)
              IN Call(r) /\ batch' = Tally(batch, k, u, r.ok)
  BY DEF RejectItem, Take, Attempt, Finish
<1>2. Stored(insts, pays) /\ Promising(batch)
  BY DEF HarnessInv, Held
<1>3. CASE batch' = Skip(batch, k) /\ UNCHANGED <<insts, pays>>
  BY <1>1, <1>2, <1>3, PicksSkipped
<1>4. ASSUME NEW u \in ApproversOf(batch.seen, batch.all[k]),
             Call(CallInstructionService("REJECT", Live(u), k)),
             batch' = Tally(batch, k, u, CallInstructionService("REJECT", Live(u), k).ok)
      PROVE  Undisturbed(batch)'
  <2> DEFINE r == CallInstructionService("REJECT", Live(u), k)
  <2>1. /\ r.ok <=> InstructionAllow("REJECT", Live(u), insts[k])
        /\ DOMAIN insts' = DOMAIN insts /\ \A j \in DOMAIN insts : j # k => insts'[j] = insts[j]
    BY <1>2, <1>4, InstructionAnswer, StatusAfterIs
  <2>2. batch.calm => r.ok
    <3>1. SUFFICES ASSUME batch.calm PROVE InstructionAllow("REJECT", Live(u), insts[k])
      BY <2>1
    <3>2. /\ batch.seen = zitadel /\ SameInstruction(batch.all[k], insts[k])
          /\ insts[k].status = "SUBMITTED"
      BY <1>1, <3>1, ListedIs, BatchStatuses DEF InstructionPicks
    <3> QED
      BY <1>2, <1>4, <3>2, ApproversMayApprove
  <2>3. batch' = Tally(batch, k, u, r.ok)
    BY <1>4
  <2> HIDE DEF r
  <2> QED
    BY <1>1, <1>2, <2>1, <2>2, <2>3, InstructionTallied DEF InstructionPicks
<1> QED
  BY <1>1, <1>3, <1>4

LEMMA ApproveSubmittedPicks ==
  ASSUME HarnessInv, Undisturbed(batch), ApproveSubmitted, zitadel' = zitadel
  PROVE  Undisturbed(batch)'
<1> DEFINE k == batch.item
           u == batch.actor
           r == CallInstructionService("APPROVE", Live(u), k)
<1>1. batch.pc = "second" /\ Call(r) /\ batch' = Tally(batch, k, u, r.ok)
  BY DEF ApproveSubmitted
<1>2. Stored(insts, pays) /\ Promising(batch) /\ k \in DOMAIN insts
  BY <1>1 DEF HarnessInv, Held, Turns
<1>3. /\ r.ok <=> InstructionAllow("APPROVE", Live(u), insts[k])
      /\ DOMAIN insts' = DOMAIN insts /\ \A j \in DOMAIN insts : j # k => insts'[j] = insts[j]
  BY <1>1, <1>2, InstructionAnswer, StatusAfterIs
<1>4. batch.calm => r.ok /\ batch.kind = "approve_instructions"
  <2>1. SUFFICES ASSUME batch.calm
                 PROVE  InstructionAllow("APPROVE", Live(u), insts[k])
                        /\ batch.kind = "approve_instructions"
    BY <1>3
  <2>2. /\ batch.kind = "approve_instructions" /\ k \in batch.left
        /\ u \in ApproversOf(batch.seen, batch.all[k])
    BY <1>1, <2>1 DEF Undisturbed, Second
  <2>3. /\ batch.seen = zitadel /\ SameInstruction(batch.all[k], insts[k])
        /\ insts[k].status = "SUBMITTED"
    BY <1>1, <2>1, <2>2, ListedIs DEF InstructionPicks
  <2> QED
    BY <1>2, <2>2, <2>3, ApproversMayApprove
<1> HIDE DEF r
<1>5. CASE batch.calm
  BY <1>1, <1>2, <1>3, <1>4, <1>5, InstructionTallied DEF InstructionPicks
<1>6. CASE ~batch.calm
  <2>1. batch'.calm = batch.calm
    <3>1. Tallied(k, u, r.ok)
      BY <1>1, <1>2, WorkingFields, TallyIs
    <3> QED
      BY <3>1 DEF Tallied
  <2> QED
    BY <1>6, <2>1 DEF Undisturbed
<1> QED
  BY <1>5, <1>6

LEMMA ApproveItemPicks ==
  ASSUME HarnessInv, Undisturbed(batch), NEW k \in DOMAIN insts, ApproveItem(k), zitadel' = zitadel
  PROVE  Undisturbed(batch)'
<1> DEFINE d == batch.all[k]
           who == ApproversOf(batch.seen, d)
           submit == CallInstructionService("SUBMIT", Live(batch.submitter), k)
<1>1. /\ batch.pc = "working" /\ batch.kind = "approve_instructions" /\ k \in batch.left
  BY DEF ApproveItem, Take
<1>2. Stored(insts, pays) /\ Promising(batch) /\ BatchFields(batch)
  BY <1>1, WorkingFields DEF HarnessInv, Held
<1>3. \/ batch' = Skip(batch, k) /\ UNCHANGED <<insts, pays>>
      \/ d.status = "SUBMITTED" /\ \E u \in who :
           /\ Call(CallInstructionService("APPROVE", Live(u), k))
           /\ batch' = Tally(batch, k, u, CallInstructionService("APPROVE", Live(u), k).ok)
      \/ d.status # "SUBMITTED" /\ ~submit.ok /\ Call(submit)
         /\ batch' = Tally(batch, k, batch.submitter, submit.ok)
      \/ submit.ok /\ Call(submit) /\ d.status # "SUBMITTED"
         /\ \E u \in who : batch' = [batch EXCEPT !.pc = "second", !.item = k, !.actor = u]
  BY DEF ApproveItem, Attempt, Finish
<1>4. CASE batch' = Skip(batch, k) /\ UNCHANGED <<insts, pays>>
  BY <1>1, <1>2, <1>4, PicksSkipped
<1>5. ASSUME d.status = "SUBMITTED", NEW u \in who,
             Call(CallInstructionService("APPROVE", Live(u), k)),
             batch' = Tally(batch, k, u, CallInstructionService("APPROVE", Live(u), k).ok)
      PROVE  Undisturbed(batch)'
  <2> DEFINE r == CallInstructionService("APPROVE", Live(u), k)
  <2>1. /\ r.ok <=> InstructionAllow("APPROVE", Live(u), insts[k])
        /\ DOMAIN insts' = DOMAIN insts /\ \A j \in DOMAIN insts : j # k => insts'[j] = insts[j]
    BY <1>2, <1>5, InstructionAnswer, StatusAfterIs
  <2>2. batch.calm => r.ok
    <3>1. SUFFICES ASSUME batch.calm PROVE InstructionAllow("APPROVE", Live(u), insts[k])
      BY <2>1
    <3>2. /\ batch.seen = zitadel /\ SameInstruction(d, insts[k]) /\ insts[k].status = "SUBMITTED"
      BY <1>1, <1>5, <3>1, ListedIs DEF InstructionPicks
    <3> QED
      BY <1>2, <1>5, <3>2, ApproversMayApprove
  <2>3. batch' = Tally(batch, k, u, r.ok)
    BY <1>5
  <2> HIDE DEF r
  <2> QED
    BY <1>1, <1>2, <2>1, <2>2, <2>3, InstructionTallied DEF InstructionPicks
<1>6. ASSUME Call(submit)
      PROVE  /\ submit.ok <=> InstructionAllow("SUBMIT", Live(batch.submitter), insts[k])
             /\ DOMAIN insts' = DOMAIN insts /\ SameInstruction(insts[k], insts'[k])
             /\ \A j \in DOMAIN insts : j # k => insts'[j] = insts[j]
             /\ submit.ok => insts'[k].status = "SUBMITTED"
  BY <1>2, <1>6, InstructionAnswer, InstructionStep, StatusAfterIs
<1>7. ASSUME batch.calm, d.status # "SUBMITTED"
      PROVE  insts[k] = d /\ insts[k].status = "DRAFT" /\ batch.seen = zitadel
             /\ batch.submitter \in InstructionSubmitters(zitadel)
  BY <1>1, <1>7, ListedIs, BatchStatuses DEF InstructionPicks
<1>8. ASSUME d.status # "SUBMITTED", ~submit.ok, Call(submit),
             batch' = Tally(batch, k, batch.submitter, submit.ok)
      PROVE  Undisturbed(batch)'
  <2>1. batch.calm => Excused(batch, k, batch.submitter)
    <3>1. SUFFICES ASSUME batch.calm, ~Outsider(zitadel, batch.submitter)
                   PROVE  InstructionAllow("SUBMIT", Live(batch.submitter), insts[k])
      BY <1>1, <1>6, <1>7, <1>8, ExcusedIs
    <3> QED
      BY <1>7, <1>8, <3>1, InsidersCreate, CreatorsMaySubmit
  <2> QED
    BY <1>1, <1>2, <1>6, <1>8, <2>1, InstructionTallied DEF InstructionPicks
<1>9. ASSUME submit.ok, Call(submit), d.status # "SUBMITTED", NEW u \in who,
             batch' = [batch EXCEPT !.pc = "second", !.item = k, !.actor = u]
      PROVE  Undisturbed(batch)'
  <2>1. SUFFICES ASSUME batch'.calm PROVE Undisturbed(batch)'
    BY DEF Undisturbed
  <2>2. /\ batch'.pc = "second" /\ batch'.item = k /\ batch'.actor = u
        /\ UNCHANGED <<batch.kind, batch.all, batch.seen, batch.submitter, batch.calm, batch.left,
                       batch.refused>>
    BY <1>2, <1>9, SecondIs
  <2> HIDE DEF submit
  <2>3. /\ ListedLeft(batch) /\ ExcusedAll(batch)
    BY <1>1, <2>1, <2>2 DEF Undisturbed
  <2>4. ListedLeft(batch)'
    <3>1. \A j \in batch.left :
            /\ j \in DOMAIN insts' /\ batch.all[j].status \in InstructionBatch[batch.kind]
            /\ IF j = k THEN insts'[j].status = "SUBMITTED" /\ SameInstruction(d, insts'[j])
               ELSE insts'[j] = batch.all[j]
      BY <1>1, <1>6, <1>7, <1>9, <2>1, <2>2, <2>3 DEF ListedLeft, AsListed, InstructionPicks
    <3> QED
      BY <1>1, <2>2, <3>1 DEF ListedLeft, AsListed, PaymentPicks
  <2>5. Second(batch)'
    BY <1>1, <1>9, <2>2 DEF Second, ApproversOf, InstructionApprovers, Clear
  <2>6. ExcusedAll(batch)'
    <3>1. \A x \in batch.refused : Excused(batch, x.doc, x.user)'
      BY <1>1, <2>2, <2>3 DEF ExcusedAll, Excused, InstructionCreators
    <3> QED
      BY <1>1, <2>2, <3>1 DEF ExcusedAll, PaymentPicks
  <2>7. batch.seen = zitadel /\ batch.submitter \in InstructionSubmitters(batch.seen)
    BY <1>7, <1>9, <2>1, <2>2
  <2> QED
    BY <2>2, <2>4, <2>5, <2>6, <2>7 DEF Undisturbed, InstructionSubmitters, InstructionCreators
<1> QED
  BY <1>3, <1>4, <1>5, <1>8, <1>9

(* The batches that are not promised anything.                                 *)
Unpromised == {"suspend_instructions", "reactivate_instructions", "update_payments"}
MovesOn(k) ==
  \/ \E u, ok : batch' = Tally(batch, k, u, ok)
  \/ batch' = [batch EXCEPT !.left = @ \ {k}, !.skipped = @ + 1]
LEMMA UnpromisedPicks ==
  ASSUME Promising(batch), Undisturbed(batch), batch.pc = "working", zitadel' = zitadel, NEW k,
         batch.kind \in Unpromised, MovesOn(k)
  PROVE  Undisturbed(batch)'
<1>1. /\ batch'.pc = "working"
      /\ UNCHANGED <<batch.kind, batch.seen, batch.submitter, batch.calm>>
  <2>1. BatchFields(batch)
    BY WorkingFields
  <2>2. CASE batch' = [batch EXCEPT !.left = @ \ {k}, !.skipped = @ + 1]
    BY <2>1, <2>2, SkipIs
  <2>3. ASSUME NEW u, NEW ok, batch' = Tally(batch, k, u, ok) 
        PROVE  /\ batch'.pc = "working"
               /\ UNCHANGED <<batch.kind, batch.seen, batch.submitter, batch.calm>>
    <3>1. Tallied(k, u, ok)
      BY <2>1, <2>3, TallyIs
    <3> QED
      BY <3>1 DEF Tallied
  <2> QED
    BY <2>2, <2>3 DEF MovesOn
<1>2. ListedLeft(batch)' /\ ExcusedAll(batch)'
  <2>1. batch'.kind \notin InstructionPicks \cup PaymentPicks
    BY <1>1 DEF InstructionPicks, PaymentPicks, Unpromised
  <2>2. \A x \in batch'.refused : Excused(batch, x.doc, x.user)'
    BY <1>1 DEF Excused, Unpromised
  <2> QED
    BY <2>1, <2>2 DEF ListedLeft, ExcusedAll
<1>3. batch.calm => batch.seen = zitadel /\ batch.submitter \in InstructionSubmitters(batch.seen)
  BY DEF Undisturbed
<1> QED
  BY <1>1, <1>2, <1>3 DEF Undisturbed, InstructionSubmitters, InstructionCreators

LEMMA PaymentAnswer ==
  ASSUME Stored(insts, pays), NEW a \in PaymentCalls, NEW s, NEW k \in DOMAIN pays,
         Call(CallPaymentService(a, s, k))
  PROVE  /\ Forward(insts', pays') /\ DOMAIN pays' = DOMAIN pays
         /\ \A j \in DOMAIN pays : j # k => pays'[j] = pays[j]
         /\ CallPaymentService(a, s, k).ok => \/ pays'[k].status = StatusAfter[a]
                                              \/ a = "APPROVE" /\ pays'[k].status = "CANCELLED"
         /\ ~CallPaymentService(a, s, k).ok => insts' = insts /\ pays' = pays
         /\ a = "SUBMIT" => \A j \in DOMAIN insts :
                              insts[j].status # "APPROVED" => insts'[j].status # "APPROVED"
<1>1. PICK r : r = CallPaymentService(a, s, k)
  OBVIOUS
<1>2. /\ Forward(r.insts, r.pays) /\ DOMAIN r.pays = DOMAIN pays
      /\ \A j \in DOMAIN pays : j # k => r.pays[j] = pays[j]
      /\ r.ok => \/ r.pays[k].status = StatusAfter[a]
                 \/ a = "APPROVE" /\ r.pays[k].status = "CANCELLED"
      /\ ~r.ok => r.insts = insts /\ r.pays = pays
      /\ a = "SUBMIT" => \A j \in DOMAIN insts :
                           insts[j].status # "APPROVED" => r.insts[j].status # "APPROVED"
  BY <1>1, PaymentCallMoves
<1>3. insts' = r.insts /\ pays' = r.pays
  BY <1>1 DEF Call
<1> QED
  BY <1>1, <1>2, <1>3

LEMMA PaymentTallied ==
  ASSUME Promising(batch), Undisturbed(batch), batch.pc = "working", batch.kind \in PaymentPicks,
         NEW k \in DOMAIN pays, NEW u, NEW ok, batch' = Tally(batch, k, u, ok),
         zitadel' = zitadel, DOMAIN pays' = DOMAIN pays,
         \A j \in DOMAIN pays : j # k => pays'[j] = pays[j],
         batch.calm => \A x \in batch.refused :
           Excused(batch, x.doc, x.user) /\ x.doc \in DOMAIN pays => Excused(batch, x.doc, x.user)',
         batch.calm /\ ~ok => Excused(batch, k, u)'
  PROVE  Undisturbed(batch)'
<1> SUFFICES ASSUME batch'.calm PROVE Undisturbed(batch)'
  BY DEF Undisturbed
<1>1. /\ batch'.pc = "working" /\ batch'.left = batch.left \ {k}
      /\ UNCHANGED <<batch.kind, batch.all, batch.seen, batch.submitter, batch.calm>>
      /\ batch'.refused = IF ok THEN batch.refused ELSE batch.refused \cup {[doc |-> k, user |-> u]}
  <2>1. BatchFields(batch)
    BY WorkingFields
  <2>2. Tallied(k, u, ok)
    BY <2>1, TallyIs
  <2> QED
    BY <2>2 DEF Tallied
<1>2. /\ batch.seen = zitadel /\ batch.submitter \in InstructionSubmitters(batch.seen)
      /\ ListedLeft(batch) /\ ExcusedAll(batch)
  BY <1>1 DEF Undisturbed
<1>3. ListedLeft(batch)'
  <2>1. \A j \in batch.left \ {k} : /\ j \in DOMAIN pays' /\ pays'[j] = batch.all[j]
                                    /\ batch.all[j].status \in PaymentBatch[batch.kind]
    BY <1>2 DEF ListedLeft
  <2>2. batch.kind \notin InstructionPicks
    BY DEF InstructionPicks, PaymentPicks
  <2> QED
    BY <1>1, <2>1, <2>2 DEF ListedLeft
<1>4. ExcusedAll(batch)'
  <2>1. \A x \in batch.refused : Excused(batch, x.doc, x.user)' /\ x.doc \in DOMAIN pays'
    BY <1>1, <1>2 DEF ExcusedAll
  <2>2. CASE ok
    BY <1>1, <2>1, <2>2 DEF ExcusedAll
  <2>3. CASE ~ok
    <3>1. Excused(batch, k, u)'
      BY <1>1, <2>3
    <3>2. batch'.refused = batch.refused \cup {[doc |-> k, user |-> u]}
      BY <1>1, <2>3
    <3>3. ASSUME NEW x \in batch'.refused PROVE Excused(batch, x.doc, x.user)' /\ x.doc \in DOMAIN pays'
      <4>1. CASE x \in batch.refused
        BY <2>1, <4>1
      <4>2. CASE x = [doc |-> k, user |-> u]
        <5>1. x.doc = k /\ x.user = u
          BY <4>2
        <5> QED
          BY <3>1, <5>1
      <4> QED
        BY <3>2, <3>3, <4>1, <4>2
    <3> QED
      BY <3>3 DEF ExcusedAll
  <2> QED
    BY <2>2, <2>3
<1> QED
  BY <1>1, <1>2, <1>3, <1>4 DEF Undisturbed, InstructionSubmitters, InstructionCreators

LEMMA SubmitPaymentPicks ==
  ASSUME HarnessInv, Undisturbed(batch), NEW k \in DOMAIN pays, SubmitPaymentItem(k),
         zitadel' = zitadel
  PROVE  Undisturbed(batch)'
<1>1. /\ batch.pc = "working" /\ batch.kind = "submit_payments" /\ k \in batch.left
      /\ \/ batch' = Skip(batch, k) /\ UNCHANGED <<insts, pays>>
         \/ \E u \in PaymentSubmitters(batch.seen, batch.all[k].lob) :
              LET r == CallPaymentService("SUBMIT", Live(u), k)
              IN Call(r) /\ batch' = Tally(batch, k, u, r.ok)
  BY DEF SubmitPaymentItem, Take, Attempt, Finish
<1>2. Stored(insts, pays) /\ Promising(batch) /\ BatchFields(batch)
  BY <1>1, WorkingFields DEF HarnessInv, Held
<1>3. CASE batch' = Skip(batch, k) /\ UNCHANGED <<insts, pays>>
  BY <1>1, <1>2, <1>3, PicksSkipped
<1>4. ASSUME NEW u \in PaymentSubmitters(batch.seen, batch.all[k].lob),
             Call(CallPaymentService("SUBMIT", Live(u), k)),
             batch' = Tally(batch, k, u, CallPaymentService("SUBMIT", Live(u), k).ok)
      PROVE  Undisturbed(batch)'
  <2> DEFINE r == CallPaymentService("SUBMIT", Live(u), k)
  <2>1. /\ Forward(insts', pays') /\ DOMAIN pays' = DOMAIN pays
        /\ \A j \in DOMAIN pays : j # k => pays'[j] = pays[j]
        /\ r.ok => pays'[k].status = "SUBMITTED"
        /\ ~r.ok => insts' = insts /\ pays' = pays
        /\ \A j \in DOMAIN insts : insts[j].status # "APPROVED" => insts'[j].status # "APPROVED"
    BY <1>2, <1>4, PaymentAnswer, StatusAfterIs DEF PaymentCalls
  <2>2. batch.calm => batch.seen = zitadel /\ pays[k] = batch.all[k] /\ pays[k].status = "DRAFT"
    BY <1>1, ListedIs, BatchStatuses DEF PaymentPicks
  <2>3. batch' = Tally(batch, k, u, r.ok)
    BY <1>4
  <2>4. batch.calm /\ ~r.ok => Excused(batch, k, u)
    <3>1. SUFFICES ASSUME batch.calm, ~Excused(batch, k, u) PROVE r.ok
      OBVIOUS
    <3>2. /\ insts[pays[k].of].status = "APPROVED" /\ ~insts[pays[k].of].ended /\ Alone(k)
          /\ IsMiddleOffice(zitadel[u]) => pays[k].lob \in zitadel[u].covers
      BY <1>1, <2>2, <3>1, ExcusedIs
    <3>3. u \in PaymentSubmitters(zitadel, pays[k].lob)
      BY <1>4, <2>2, <3>1
    <3> QED
      BY <1>2, <2>2, <3>1, <3>2, <3>3, SubmittersMaySubmit
  <2> HIDE DEF r
  <2>5. batch'.kind = batch.kind /\ batch'.seen = batch.seen
    <3>1. Tallied(k, u, r.ok)
      BY <1>2, <2>3, TallyIs
    <3> QED
      BY <3>1 DEF Tallied
  <2>6. ASSUME NEW j \in DOMAIN pays, NEW v, batch.calm, Excused(batch, j, v)
        PROVE  Excused(batch, j, v)'
    <3>1. /\ pays[j].of \in DOMAIN insts /\ pays'[j].of = pays[j].of /\ pays'[j].lob = pays[j].lob
          /\ insts'[pays[j].of].ended = insts[pays[j].of].ended
          /\ insts[pays[j].of].status # "APPROVED" => insts'[pays[j].of].status # "APPROVED"
      <4>1. pays[j].of \in DOMAIN insts
        BY <1>2, BackingIs
      <4> QED
        BY <2>1, <4>1 DEF Forward, SameInstruction, SamePayment
    <3>2. ASSUME ~Alone(j) PROVE ~Alone(j)'
      <4>1. PICK i \in DOMAIN pays : /\ i # j /\ pays[i].of = pays[j].of
                                     /\ pays[i].status \in {"DRAFT", "SUBMITTED"}
        BY <3>2 DEF Alone
      <4>2. pays'[i].of = pays[i].of /\ pays'[j].of = pays[j].of
        BY <2>1 DEF Forward, SamePayment
      <4>3. pays'[i].status \in {"DRAFT", "SUBMITTED"}
        BY <2>1, <4>1
      <4> QED
        BY <2>1, <4>1, <4>2, <4>3 DEF Alone
    <3>3. \/ insts[pays[j].of].status # "APPROVED" \/ insts[pays[j].of].ended \/ ~Alone(j)
          \/ IsMiddleOffice(batch.seen[v]) /\ pays[j].lob \notin batch.seen[v].covers
      BY <1>1, <2>6, ExcusedIs
    <3>4. \/ insts'[pays'[j].of].status # "APPROVED" \/ insts'[pays'[j].of].ended \/ ~Alone(j)'
          \/ IsMiddleOffice(batch'.seen[v]) /\ pays'[j].lob \notin batch'.seen[v].covers
      BY <2>5, <3>1, <3>2, <3>3
    <3> QED
      BY <1>1, <2>5, <3>4 DEF Excused
  <2>7. batch.calm /\ ~r.ok => Excused(batch, k, u)'
    BY <2>4, <2>6
  <2> QED
    BY <1>1, <1>2, <2>1, <2>3, <2>6, <2>7, PaymentTallied DEF PaymentPicks
<1> QED
  BY <1>1, <1>3, <1>4

LEMMA ApprovePaymentPicks ==
  ASSUME HarnessInv, Undisturbed(batch), NEW k \in DOMAIN pays, ApprovePaymentItem(k),
         zitadel' = zitadel
  PROVE  Undisturbed(batch)'
<1>1. /\ batch.pc = "working" /\ batch.kind = "approve_payments" /\ k \in batch.left
      /\ \/ batch' = Skip(batch, k) /\ UNCHANGED <<insts, pays>>
         \/ \E u \in PaymentApprovers(batch.seen, batch.all[k]) :
              LET r == CallPaymentService("APPROVE", Live(u), k)
              IN Call(r) /\ batch' = Tally(batch, k, u, r.ok)
  BY DEF ApprovePaymentItem, Take, Attempt, Finish
<1>2. Stored(insts, pays) /\ Promising(batch) /\ BatchFields(batch)
  BY <1>1, WorkingFields DEF HarnessInv, Held
<1>3. CASE batch' = Skip(batch, k) /\ UNCHANGED <<insts, pays>>
  BY <1>1, <1>2, <1>3, PicksSkipped
<1>4. ASSUME NEW u \in PaymentApprovers(batch.seen, batch.all[k]),
             Call(CallPaymentService("APPROVE", Live(u), k)),
             batch' = Tally(batch, k, u, CallPaymentService("APPROVE", Live(u), k).ok)
      PROVE  Undisturbed(batch)'
  <2> DEFINE r == CallPaymentService("APPROVE", Live(u), k)
  <2>1. /\ DOMAIN pays' = DOMAIN pays
        /\ \A j \in DOMAIN pays : j # k => pays'[j] = pays[j]
    BY <1>2, <1>4, PaymentAnswer DEF PaymentCalls
  <2>2. batch.calm => batch.seen = zitadel /\ pays[k] = batch.all[k] /\ pays[k].status = "SUBMITTED"
    BY <1>1, ListedIs, BatchStatuses DEF PaymentPicks
  <2>3. batch' = Tally(batch, k, u, r.ok)
    BY <1>4
  <2>4. batch.calm => r.ok
    BY <1>2, <1>4, <2>2, ApproversMayPay
  <2>5. ASSUME NEW j, NEW v PROVE ~Excused(batch, j, v)
    BY <1>1, ExcusedIs
  <2> HIDE DEF r
  <2> QED
    BY <1>1, <1>2, <2>1, <2>3, <2>4, <2>5, PaymentTallied DEF PaymentPicks
<1> QED
  BY <1>1, <1>3, <1>4

LEMMA RejectPaymentPicks ==
  ASSUME HarnessInv, Undisturbed(batch), NEW k \in DOMAIN pays, RejectPaymentItem(k),
         zitadel' = zitadel
  PROVE  Undisturbed(batch)'
<1>1. /\ batch.pc = "working" /\ batch.kind = "reject_payments" /\ k \in batch.left
      /\ \/ batch' = Skip(batch, k) /\ UNCHANGED <<insts, pays>>
         \/ \E u \in PaymentRejectors(batch.seen, batch.all[k]) :
              LET r == CallPaymentService("REJECT", Live(u), k)
              IN Call(r) /\ batch' = Tally(batch, k, u, r.ok)
  BY DEF RejectPaymentItem, Take, Attempt, Finish
<1>2. Stored(insts, pays) /\ Promising(batch) /\ BatchFields(batch)
  BY <1>1, WorkingFields DEF HarnessInv, Held
<1>3. CASE batch' = Skip(batch, k) /\ UNCHANGED <<insts, pays>>
  BY <1>1, <1>2, <1>3, PicksSkipped
<1>4. ASSUME NEW u \in PaymentRejectors(batch.seen, batch.all[k]),
             Call(CallPaymentService("REJECT", Live(u), k)),
             batch' = Tally(batch, k, u, CallPaymentService("REJECT", Live(u), k).ok)
      PROVE  Undisturbed(batch)'
  <2> DEFINE r == CallPaymentService("REJECT", Live(u), k)
  <2>1. /\ DOMAIN pays' = DOMAIN pays
        /\ \A j \in DOMAIN pays : j # k => pays'[j] = pays[j]
    BY <1>2, <1>4, PaymentAnswer DEF PaymentCalls
  <2>2. batch.calm => batch.seen = zitadel /\ pays[k] = batch.all[k] /\ pays[k].status = "SUBMITTED"
    BY <1>1, ListedIs, BatchStatuses DEF PaymentPicks
  <2>3. batch' = Tally(batch, k, u, r.ok)
    BY <1>4
  <2>4. batch.calm => r.ok
    BY <1>2, <1>4, <2>2, RejectorsMayReject
  <2>5. ASSUME NEW j, NEW v PROVE ~Excused(batch, j, v)
    BY <1>1, ExcusedIs
  <2> HIDE DEF r
  <2> QED
    BY <1>1, <1>2, <2>1, <2>3, <2>4, <2>5, PaymentTallied DEF PaymentPicks
<1> QED
  BY <1>1, <1>3, <1>4

(* A batch begins with the documents as they are, and nobody refused.          *)
LEMMA StartPicks ==
  ASSUME NEW kind \in BatchKinds, StartBatch(kind), zitadel' = zitadel
  PROVE  Undisturbed(batch)'
<1> DEFINE all == IF kind \in DOMAIN InstructionBatch THEN Select(insts, InstructionBatch[kind])
                  ELSE Select(pays, PaymentBatch[kind])
<1>1. List(kind, all) /\ UNCHANGED <<insts, pays>>
  BY DEF StartBatch
<1> HIDE DEF all
<1>2. PICK seen \in Copies :
        \E s \in SUBSET DOMAIN all, submitter \in InstructionSubmitters(seen) :
          batch' = [pc |-> "working", kind |-> kind, all |-> all, left |-> s, seen |-> seen,
                    submitter |-> submitter, calm |-> seen = zitadel, refused |-> {},
                    succeeded |-> 0, failed |-> 0, skipped |-> 0, item |-> 0, actor |-> Absent]
  BY <1>1 DEF List, First
<1>3. PICK s \in SUBSET DOMAIN all, submitter \in InstructionSubmitters(seen) :
        batch' = [pc |-> "working", kind |-> kind, all |-> all, left |-> s, seen |-> seen,
                  submitter |-> submitter, calm |-> seen = zitadel, refused |-> {},
                  succeeded |-> 0, failed |-> 0, skipped |-> 0, item |-> 0, actor |-> Absent]
  BY <1>2
<1>4. /\ batch'.pc = "working" /\ batch'.kind = kind /\ batch'.all = all /\ batch'.left = s
      /\ batch'.seen = seen /\ batch'.submitter = submitter /\ batch'.refused = {}
      /\ batch'.calm <=> seen = zitadel
  BY <1>3
<1>5. ListedLeft(batch)'
  <2>1. ASSUME kind \in InstructionPicks, NEW k \in DOMAIN all
        PROVE  k \in DOMAIN insts /\ insts[k] = all[k] /\ all[k].status \in InstructionBatch[kind]
    <3>1. all = Select(insts, InstructionBatch[kind])
      BY <2>1 DEF all, InstructionPicks, InstructionBatch
    <3> QED
      BY <3>1 DEF Select
  <2>2. ASSUME kind \in PaymentPicks, NEW k \in DOMAIN all
        PROVE  k \in DOMAIN pays /\ pays[k] = all[k] /\ all[k].status \in PaymentBatch[kind]
    <3>1. all = Select(pays, PaymentBatch[kind])
      BY <2>2 DEF all, PaymentPicks, InstructionBatch
    <3> QED
      BY <3>1 DEF Select
  <2> QED
    BY <1>1, <1>4, <2>1, <2>2 DEF ListedLeft, AsListed
<1>6. ExcusedAll(batch)'
  BY <1>4 DEF ExcusedAll
<1> QED
  BY <1>4, <1>5, <1>6 DEF Undisturbed, InstructionSubmitters, InstructionCreators

LEMMA EndPicks ==
  ASSUME Promising(batch), Undisturbed(batch), EndBatch, zitadel' = zitadel
  PROVE  Undisturbed(batch)'
<1>1. BatchFields(batch) /\ batch.pc = "working" /\ batch' = [batch EXCEPT !.pc = "done"]
      /\ UNCHANGED <<insts, pays>>
  BY WorkingFields DEF EndBatch
<1>2. batch'.pc = "done" /\ UNCHANGED <<batch.kind, batch.seen, batch.submitter, batch.calm,
                                        batch.refused>>
  BY <1>1 DEF BatchFields
<1>3. batch.calm => ExcusedAll(batch)
  BY <1>1 DEF Undisturbed
<1>4. batch.calm => ExcusedAll(batch)'
  BY <1>1, <1>2, <1>3 DEF ExcusedAll, Excused, Alone, InstructionCreators
<1> QED
  BY <1>2, <1>4 DEF Undisturbed

(* A creation is refused for the excuses only.                                 *)
LEMMA CreationPicks ==
  ASSUME Held, CreateInstructions \/ CreatePayments, zitadel' = zitadel
  PROVE  Undisturbed(batch)'
<1>1. ASSUME NEW kind \in {"create_instructions", "create_payments"}, NEW seen, NEW k, NEW u, NEW ok,
             Created(kind, seen, k, u, ok),
             kind = "create_instructions" /\ seen = zitadel /\ ~ok => ~IsMiddleOffice(seen[u]),
             kind = "create_payments" /\ seen = zitadel /\ ~ok => insts'[k].ended \/ Limits(seen[u]) = {}
      PROVE  Undisturbed(batch)'
  <2>1. /\ batch'.pc = "done" /\ batch'.kind = kind /\ batch'.seen = seen
        /\ batch'.calm <=> seen = zitadel
        /\ batch'.refused = IF ok THEN {} ELSE {[doc |-> k, user |-> u]}
    <3>1. CASE ok
      <4>1. Report(kind, seen, {}, 1, 0)
        BY <1>1, <3>1 DEF Created
      <4> QED
        BY <3>1, <4>1 DEF Report
    <3>2. CASE ~ok
      <4>1. Report(kind, seen, {[doc |-> k, user |-> u]}, 0, 1)
        BY <1>1, <3>2 DEF Created
      <4> QED
        BY <3>2, <4>1 DEF Report
    <3> QED
      BY <3>1, <3>2
  <2>2. CASE ok \/ seen # zitadel
    BY <2>1, <2>2 DEF Undisturbed, ExcusedAll
  <2>3. CASE ~ok /\ seen = zitadel
    <3>1. Excused(batch, k, u)'
      BY <1>1, <2>1, <2>3 DEF Excused
    <3>2. \A x \in batch'.refused : x.doc = k /\ x.user = u
      BY <2>1, <2>3
    <3> QED
      BY <2>1, <3>1, <3>2 DEF Undisturbed, ExcusedAll, PaymentPicks
  <2> QED
    BY <2>2, <2>3
<1>2. Stored(insts, pays)
  BY DEF Held
<1>3. CASE CreateInstructions
  <2>1. PICK seen \in Copies : \E x \in SeedPairs(seen), type \in {"STANDING", "SINGLE_USE"} :
          LET a == CreateInstructionCall(x[1], x[2], type)
          IN Call(a) /\ Created("create_instructions", seen, 0, x[1], a.ok)
    BY <1>3 DEF CreateInstructions
  <2>2. PICK x \in SeedPairs(seen), type \in {"STANDING", "SINGLE_USE"} :
          LET a == CreateInstructionCall(x[1], x[2], type)
          IN Call(a) /\ Created("create_instructions", seen, 0, x[1], a.ok)
    BY <2>1
  <2> DEFINE r == CreateInstructionCall(x[1], x[2], type)
  <2>3. Created("create_instructions", seen, 0, x[1], r.ok)
    BY <2>2
  <2>4. seen = zitadel /\ ~r.ok => ~IsMiddleOffice(seen[x[1]])
    <3>1. SUFFICES ASSUME seen = zitadel, IsMiddleOffice(seen[x[1]]) PROVE r.ok
      OBVIOUS
    <3>2. InstructionAllow("CREATE", Live(x[1]), NewInstruction(x[1], x[2], type))
      BY <3>1, SeedPairsMayCreate
    <3> QED
      BY <3>2 DEF CreateInstructionCall, Answer
  <2> HIDE DEF r
  <2> QED
    BY <1>1, <2>3, <2>4
<1>4. CASE CreatePayments
  <2>1. \/ \E seen, failed : Report("create_payments", seen, {}, 0, failed)
        \/ \E seen \in Copies : \E u \in MiddleOffice(seen, "PAYMENT_CREATOR") : \E k \in DOMAIN insts :
             /\ insts[k].status = "APPROVED" /\ insts[k].lob \in seen[u].covers
             /\ LET a == CreatePaymentCall(u, k, 1)
                IN Call(a) /\ Created("create_payments", seen, k, u, a.ok)
    BY <1>4 DEF CreatePayments
  <2>2. ASSUME NEW seen, NEW failed, Report("create_payments", seen, {}, 0, failed)
        PROVE  Undisturbed(batch)'
    BY <2>2 DEF Report, Undisturbed, ExcusedAll
  <2>3. ASSUME NEW seen \in Copies, NEW u \in MiddleOffice(seen, "PAYMENT_CREATOR"),
               NEW k \in DOMAIN insts, insts[k].status = "APPROVED", insts[k].lob \in seen[u].covers,
               Call(CreatePaymentCall(u, k, 1)),
               Created("create_payments", seen, k, u, CreatePaymentCall(u, k, 1).ok)
        PROVE  Undisturbed(batch)'
    <3> DEFINE r == CreatePaymentCall(u, k, 1)
    <3>1. insts' = insts
      BY <1>2, <2>3, PaymentCreation
    <3>2. seen = zitadel /\ ~r.ok => insts[k].ended \/ Limits(seen[u]) = {}
      BY <1>2, <2>3, PayersMayCreate
    <3>3. Created("create_payments", seen, k, u, r.ok)
      BY <2>3
    <3> HIDE DEF r
    <3> QED
      BY <1>1, <3>1, <3>2, <3>3
  <2> QED
    BY <2>1, <2>2, <2>3
<1> QED
  BY <1>3, <1>4

LEMMA PicksKept ==
  ASSUME HarnessInv, Undisturbed(batch), [HarnessNext]_<<vars, hvars>>
  PROVE  Undisturbed(batch)'
<1>1. Held /\ Promising(batch) /\ Turns
  BY DEF HarnessInv, Held
<1>2. CASE batch'.pc \notin {"working", "second", "done"}
  BY <1>2 DEF Undisturbed
<1>3. CASE UNCHANGED <<insts, pays, batch, zitadel>>
  BY <1>3 DEF Undisturbed, ListedLeft, AsListed, Second, ExcusedAll, Excused, Alone,
              InstructionSubmitters, InstructionCreators, ApproversOf, InstructionApprovers, Clear
<1>4. CASE DirectoryMoves \/ OtherClient
  <2>1. batch' = Stir(batch) /\ Working
    BY <1>4 DEF DirectoryMoves, OtherClient, Disturb
  <2>2. batch'.pc = batch.pc
    BY <1>1, <2>1, StirredBatch
  <2>3. CASE batch.pc \in {"working", "second"}
    <3>1. batch' = [batch EXCEPT !.calm = FALSE] /\ BatchFields(batch)
      BY <1>1, <2>1, <2>3, WorkingFields DEF Stir, BatchFields
    <3>2. ~batch'.calm
      BY <3>1 DEF BatchFields
    <3> QED
      BY <3>2 DEF Undisturbed
  <2>4. CASE batch.pc \notin {"working", "second"}
    <3>1. batch.pc = "idle"
      BY <1>1, <2>1, <2>4 DEF Working, Turns, AtWork
    <3> QED
      BY <1>2, <2>2, <3>1
  <2> QED
    BY <2>3, <2>4
<1>5. CASE batch.pc = "closed" /\ Next /\ UNCHANGED hvars
  BY <1>2, <1>5 DEF hvars
<1>6. CASE HarnessStep /\ UNCHANGED vars
  <2>1. zitadel' = zitadel
    BY <1>6 DEF vars, dirVars
  <2>2. CASE \E kind \in BatchKinds : StartBatch(kind)
    BY <2>1, <2>2, StartPicks
  <2>3. CASE \E k \in DOMAIN insts :
               SubmitItem(k) \/ ApproveItem(k) \/ RejectItem(k) \/ SuspendItem(k) \/ ReactivateItem(k)
    <3>1. ASSUME NEW k \in DOMAIN insts, SuspendItem(k) \/ ReactivateItem(k)
          PROVE  Undisturbed(batch)'
      <4>1. batch.pc = "working" /\ batch.kind \in Unpromised /\ MovesOn(k)
        BY <3>1 DEF SuspendItem, ReactivateItem, Take, Finish, MovesOn, Unpromised
      <4> QED
        BY <1>1, <2>1, <4>1, UnpromisedPicks
    <3> QED
      BY <2>1, <2>3, <3>1, SubmitItemPicks, ApproveItemPicks, RejectItemPicks
  <2>4. CASE \E k \in DOMAIN pays :
               SubmitPaymentItem(k) \/ UpdateItem(k) \/ ApprovePaymentItem(k) \/ RejectPaymentItem(k)
    <3>1. ASSUME NEW k \in DOMAIN pays, UpdateItem(k) PROVE Undisturbed(batch)'
      <4>1. batch.pc = "working" /\ batch.kind \in Unpromised /\ MovesOn(k)
        BY <3>1 DEF UpdateItem, Take, MovesOn, Unpromised
      <4> QED
        BY <1>1, <2>1, <4>1, UnpromisedPicks
    <3> QED
      BY <2>1, <2>4, <3>1, SubmitPaymentPicks, ApprovePaymentPicks, RejectPaymentPicks
  <2>5. CASE ApproveSubmitted
    BY <2>1, <2>5, ApproveSubmittedPicks
  <2>6. CASE EndBatch
    BY <1>1, <2>1, <2>6, EndPicks
  <2>7. CASE CloseBatch \/ OpenConsole \/ CloseConsole
    <3>1. batch'.pc \in {"idle", "closed"}
      BY <2>7 DEF CloseBatch, OpenConsole, CloseConsole, Batch
    <3> QED
      BY <1>2, <3>1
  <2>8. CASE CreateInstructions \/ CreatePayments
    BY <1>1, <2>1, <2>8, CreationPicks
  <2>9. CASE \/ \E need \in Needs : SetUp(need)
             \/ SubmitFixture \/ ApproveFixture \/ SuspendFixture \/ PayFixture \/ SendFixture
             \/ \E k \in DOMAIN pays : CancelFixture(k)
             \/ TearDown \/ DropInstruction
    <3>1. batch' = batch
      BY <2>9 DEF SetUp, SubmitFixture, ApproveFixture, SuspendFixture, PayFixture, SendFixture,
                  CancelFixture, TearDown, DropInstruction
    <3>2. batch.pc = "idle"
      <4>1. AtWork(fixture) \/ batch.pc = "idle"
        BY <2>9 DEF SetUp, SubmitFixture, ApproveFixture, SuspendFixture, PayFixture, SendFixture,
                    CancelFixture, TearDown, DropInstruction, AtWork, Ready
      <4> QED
        BY <1>1, <4>1 DEF Turns
    <3> QED
      BY <1>2, <3>1, <3>2
  <2> QED
    BY <1>4, <1>6, <2>2, <2>3, <2>4, <2>5, <2>6, <2>7, <2>8, <2>9 DEF HarnessStep
<1> QED
  BY <1>3, <1>4, <1>5, <1>6 DEF HarnessNext, vars, dirVars, hvars

(* While nobody interferes and the harness's directory is the services', the   *)
(* services refuse nobody whom the harness picks to approve or to reject, and  *)
(* whom it picks to submit or create for the excuses only.                     *)
THEOREM PicksAreAccepted == HarnessSpec => []PicksAccepted
<1>1. HarnessInit => Undisturbed(batch)
  BY DEF HarnessInit, Undisturbed
<1>2. HarnessInv /\ Undisturbed(batch) /\ [HarnessNext]_<<vars, hvars>> => Undisturbed(batch)'
  BY PicksKept
<1>3. Undisturbed(batch) => PicksAccepted
  BY DEF Undisturbed, ExcusedAll, PicksAccepted
<1> QED
  BY <1>1, <1>2, <1>3, HarnessInvHolds, PTL DEF HarnessSpec
=============================================================================
