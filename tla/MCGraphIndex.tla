------------------------------ MODULE MCGraphIndex ------------------------------
(* GraphIndex and GraphAnswers for TLC: what the services may have written to the topics. *)
EXTENDS GraphAnswers, TLC

CONSTANTS i1, i2, p1, p2, a1, a2, t1, t2, l1, l2

Fact(i, v, action, status) ==
  [id |-> i, ver |-> v, open |-> TRUE, action |-> action, status |-> status,
   account |-> a1, terms |-> t1, lob |-> l1, ref |-> Null]
For(p, f) == [f EXCEPT !.ref = p]
At(a, f) == [f EXCEPT !.account = a]
Of(l, f) == [f EXCEPT !.lob = l]
Pay(p, v, action) ==
  [id |-> p, ver |-> v, open |-> TRUE, action |-> action, inst |-> i1, kind |-> "SINGLE_USE"]
Event(i, v, action, outcome, status) ==
  [id |-> i, ver |-> v, action |-> action, outcome |-> outcome, status |-> status, terms |-> t1]

Refused(p, v, action) == [id |-> p, ver |-> v, action |-> action, outcome |-> "failure"]

Topics(facts, payments, events, refusals) ==
  ("instructions" :> facts) @@ ("payments" :> payments)
    @@ ("instruction_security_events" :> events) @@ ("payment_security_events" :> refusals)

Approved == <<Fact(i1, 1, "CREATE", "DRAFT"), Fact(i1, 2, "SUBMIT", "SUBMITTED"),
              Fact(i1, 3, "APPROVE", "APPROVED")>>
Refusal == Event(i1, 2, "APPROVE", "failure", "SUBMITTED")
RefusedEdit ==
  [Event(i2, 1, "UPDATE", "failure", "DRAFT") EXCEPT !.terms = t2]

UsedOnce ==
  Topics(Approved \o <<For(p1, Fact(i1, 4, "USE", "USED")),
                       For(p1, Fact(i1, 5, "RELEASE_USE", "APPROVED"))>>,
         <<Pay(p1, 1, "CREATE"), Pay(p1, 2, "SUBMIT"), Pay(p1, 3, "CANCEL")>>, <<>>, <<>>)

(* p1 uses the instruction and is cancelled, then p2 uses it. *)
UsedTwice ==
  Topics(UsedOnce["instructions"] \o <<For(p2, Fact(i1, 6, "USE", "USED"))>>,
         UsedOnce["payments"] \o <<Pay(p2, 1, "CREATE"), Pay(p2, 2, "SUBMIT")>>, <<>>, <<>>)

(* Two instructions, one moved to the other's account while a draft. *)
Rivalry ==
  Topics(<<Fact(i1, 1, "CREATE", "DRAFT"), At(a2, Fact(i2, 1, "CREATE", "DRAFT")),
           Fact(i2, 2, "UPDATE", "DRAFT"), Fact(i1, 2, "SUBMIT", "SUBMITTED"),
           Fact(i2, 3, "SUBMIT", "SUBMITTED"), Fact(i1, 3, "APPROVE", "APPROVED")>>,
         <<>>, <<RefusedEdit, Refusal>>, <<>>)

(* The connector copies collections that have a history already. *)
Closed(s) == [k \in 1..Len(s) |-> [s[k] EXCEPT !.open = (k = Len(s))]]
Backfill ==
  Topics(Closed(UsedOnce["instructions"]), Closed(UsedOnce["payments"]), <<>>, <<>>)

(* p2 is refused on creation, p1 before its submission. *)
Refusals ==
  Topics(Approved, <<Pay(p1, 1, "CREATE"), Pay(p1, 2, "SUBMIT")>>, <<>>,
         <<Refused(p2, 1, "CREATE"), Refused(p1, 1, "SUBMIT")>>)

(* Two lines of business.  An edit of the draft i1 is judged while i1 is   *)
(* being submitted: its refusal shows a draft, and is filed under the      *)
(* submitted version.                                                      *)
LateRefusal ==
  Topics(<<Fact(i1, 1, "CREATE", "DRAFT"), Of(l2, Fact(i2, 1, "CREATE", "DRAFT")),
           Fact(i1, 2, "SUBMIT", "SUBMITTED"), Of(l2, Fact(i2, 2, "SUBMIT", "SUBMITTED"))>>,
         <<>>, <<Event(i1, 2, "SUBMIT", "success", "SUBMITTED"),
                 Event(i1, 2, "UPDATE", "failure", "DRAFT")>>, <<>>)

Deliveries == {UsedTwice, Rivalry, LateRefusal, Backfill, Refusals}

ReleasedLogs == {UsedOnce}
=============================================================================
