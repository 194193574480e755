------------------------- MODULE AuthorizationProofs -------------------------
(* The safety properties of Authorization, for every directory, every set of   *)
(* documents and every age the cached directory may reach.  The argument:      *)
(*   1. the policies, without a state: a refusal has a violation               *)
(*      (RefusalsAreNamed), whoever is allowed has the capability              *)
(*      (AllowedIsCapable) and is a candidate (AllowedAreCandidates);          *)
(*   2. Shapes, the fields a request has at each point of its way;             *)
(*   3. on top of Shapes an invariant for each kind of request: Judged and     *)
(*      Decided for an evaluation, whose subject is the recorded one as far as *)
(*      the rules ask (SamePolicy); Aged and Sifted for a list;                *)
(*   4. Reload: how far the upload script has come, which files it has taken   *)
(*      and may not take yet, and why OPA can still answer a healthy request.  *)
EXTENDS Authorization, FiniteSetTheorems, TLAPS

-----------------------------------------------------------------------------
(* The rules of instructions *)

(* What the names of the rules' predicates stand for. *)
LEMMA InstructionFacts ==
  ASSUME NEW a, NEW s, NEW i
  PROVE  /\ InstructionFact("catalog_role_ok", a, s, i) = CatalogRoleOk(InstructionCatalog, a, s)
         /\ InstructionFact("catalog_group_ok", a, s, i) = CatalogGroupOk(InstructionCatalog, a, s)
         /\ InstructionFact("creator_eligible", a, s, i) = (s.title \in EligibleTitles)
         /\ InstructionFact("valid_profit_center", a, s, i) = (i.lob \in ProfitCenters)
         /\ InstructionFact("is_draft", a, s, i) = (i.status = "DRAFT")
         /\ InstructionFact("same_lob", a, s, i) = (s.lob = i.lob)
         /\ InstructionFact("viewer_access", a, s, i) = HasViewerAccess(s)
         /\ InstructionFact("can_view", a, s, i) = CanViewData(s, i)
BY DEF InstructionFact

(* The role and the groups each action takes. *)
LEMMA CreatorGate ==
  ASSUME NEW a \in InstructionCreatorActions, NEW s
  PROVE  /\ CatalogRoleOk(InstructionCatalog, a, s) <=> HasRole(s, "INSTRUCTION_CREATOR")
         /\ CatalogGroupOk(InstructionCatalog, a, s) <=> IsMiddleOffice(s)
<1>1. a \in DOMAIN InstructionCatalog
  BY DEF InstructionCatalog
<1>2. InstructionCatalog[a].role = "INSTRUCTION_CREATOR" /\ InstructionCatalog[a].groups = {"MIDDLE_OFFICE"}
  BY DEF InstructionCatalog, InstructionCreatorActions
<1> QED
  BY <1>1, <1>2 DEF CatalogRoleOk, CatalogGroupOk, IsMiddleOffice, InGroup

LEMMA ApproverGate ==
  ASSUME NEW a \in InstructionApproverActions, NEW s
  PROVE  /\ CatalogRoleOk(InstructionCatalog, a, s) <=> HasRole(s, "INSTRUCTION_APPROVER")
         /\ CatalogGroupOk(InstructionCatalog, a, s)
<1>1. a \in DOMAIN InstructionCatalog
  BY DEF InstructionCatalog
<1>2. InstructionCatalog[a].role = "INSTRUCTION_APPROVER" /\ InstructionCatalog[a].groups = {}
  BY DEF InstructionCatalog, InstructionApproverActions
<1> QED
  BY <1>1, <1>2 DEF CatalogRoleOk, CatalogGroupOk

(* What each action's rule conjoins. *)
LEMMA InstructionRulesAre ==
  LET gated == {"catalog_role_ok", "catalog_group_ok"}
      desk == gated \cup {"same_lob", "valid_profit_center", "valid_transition"}
      draft == gated \cup {"creator_eligible", "account_lob_matches", "valid_profit_center",
                           "is_draft", "within_three_years"}
      service == {"marker_delegated", "viewer_access", "can_view", "valid_profit_center"}
  IN /\ InstructionRules["CREATE"] = draft \cup {"known_type"}
     /\ InstructionRules["UPDATE"] = draft
     /\ InstructionRules["CANCEL"] = gated \cup {"creator_eligible", "account_lob_matches",
                                                 "valid_profit_center", "valid_transition"}
     /\ InstructionRules["SUBMIT"] = gated \cup {"valid_transition"}
     /\ InstructionRules["APPROVE"] = desk \cup {"creator_is_not_approver", "not_supervisor_of_creator",
                                         "not_subordinate_of_creator", "approver_is_allowed",
                                         "within_three_years"}
     /\ InstructionRules["REJECT"] = desk
     /\ InstructionRules["SUSPEND"] = desk \cup {"managing_director"}
     /\ InstructionRules["REACTIVATE"] = desk \cup {"not_the_suspender"}
     /\ InstructionRules["USE"] = service \cup {"not_expired", "is_approved"}
     /\ InstructionRules["VIEW"] = {"viewer_access", "can_view", "valid_profit_center"}
BY DEF InstructionRules, InstructionActions, InstructionCreatorActions,
       InstructionApproverActions, ServiceActions

(* violations.rego names every condition that holds: what follows of the      *)
(* subject and the document where it names none.                              *)
LEMMA Reported ==
  ASSUME NEW a, NEW s, NEW i, InstructionViolations(a, s, i) = {}
  PROVE  LET creator == HasRole(s, "INSTRUCTION_CREATOR")
             approver == HasRole(s, "INSTRUCTION_APPROVER")
             fact(p) == InstructionFact(p, a, s, i)
         IN
         /\ a \in InstructionCreatorActions => creator /\ IsMiddleOffice(s) /\ fact("creator_eligible")
         /\ a \in InstructionApproverActions => approver /\ fact("same_lob")
         /\ a \in {"CREATE", "UPDATE", "CANCEL"} => fact("account_lob_matches")
         /\ fact("valid_profit_center")
         /\ a = "CREATE" => fact("known_type")
         /\ a \in {"CREATE", "UPDATE"} => i.status = "DRAFT"
         /\ a \in {"CREATE", "UPDATE", "APPROVE"} => fact("within_three_years")
         /\ a \in {"UPDATE", "CANCEL", "SUBMIT", "APPROVE", "REJECT", "SUSPEND", "REACTIVATE"}
              => fact("valid_transition")
         /\ a = "APPROVE" => /\ fact("creator_is_not_approver") /\ fact("not_supervisor_of_creator")
                             /\ fact("not_subordinate_of_creator") /\ fact("approver_is_allowed")
         /\ a = "SUSPEND" => fact("managing_director")
         /\ a = "REACTIVATE" => fact("not_the_suspender")
         /\ a = "USE" => fact("marker_delegated") /\ fact("is_approved") /\ fact("not_expired")
         /\ a \in {"VIEW", "USE"} => HasViewerAccess(s) /\ CanViewData(s, i)
<1> DEFINE creator == HasRole(s, "INSTRUCTION_CREATOR")
           approver == HasRole(s, "INSTRUCTION_APPROVER")
           fact(p) == InstructionFact(p, a, s, i)
<1>1. a \in InstructionCreatorActions => creator /\ IsMiddleOffice(s) /\ fact("creator_eligible")
  BY DEF InstructionViolations, When
<1>2. a \in InstructionApproverActions => approver /\ fact("same_lob")
  BY DEF InstructionViolations, When
<1>3. a \in {"CREATE", "UPDATE", "CANCEL"} => fact("account_lob_matches")
  BY <1>1 DEF InstructionViolations, When, InstructionCreatorActions
<1>4. fact("valid_profit_center")
  BY DEF InstructionViolations, When
<1>5. a = "CREATE" => fact("known_type")
  BY DEF InstructionViolations, When
<1>6. a \in {"CREATE", "UPDATE"} => i.status = "DRAFT"
  BY DEF InstructionViolations, When
<1>7. a \in {"CREATE", "UPDATE", "APPROVE"} => fact("within_three_years")
  BY DEF InstructionViolations, When
<1>8. a \in {"UPDATE", "CANCEL", "SUBMIT", "APPROVE", "REJECT", "SUSPEND", "REACTIVATE"}
        => fact("valid_transition")
  BY DEF InstructionViolations, When
<1>9. a = "APPROVE" => fact("creator_is_not_approver")
  BY DEF InstructionViolations, When
<1>10. a = "APPROVE" => /\ fact("not_supervisor_of_creator") /\ fact("not_subordinate_of_creator")
                       /\ fact("approver_is_allowed")
  BY <1>2 DEF InstructionViolations, When, InstructionApproverActions
<1>11. a = "SUSPEND" => fact("managing_director")
  BY <1>2 DEF InstructionViolations, When, InstructionApproverActions
<1>12. a = "REACTIVATE" => fact("not_the_suspender")
  BY <1>2 DEF InstructionViolations, When, InstructionApproverActions
<1>13. a = "USE" => fact("marker_delegated") /\ fact("is_approved") /\ fact("not_expired")
  BY DEF InstructionViolations, When
<1>14. a \in {"VIEW", "USE"} => HasViewerAccess(s) /\ CanViewData(s, i)
  BY DEF InstructionViolations, When
<1> QED
  BY <1>1, <1>2, <1>3, <1>4, <1>5, <1>6, <1>7, <1>8, <1>9, <1>10, <1>11, <1>12, <1>13, <1>14

(* The policy refuses no action but RELEASE_USE without naming a violation.    *)
LEMMA RefusalsAreNamed ==
  ASSUME NEW a \in InstructionActions \ {"RELEASE_USE"}, NEW s, NEW i,
         InstructionViolations(a, s, i) = {}
  PROVE  InstructionAllow(a, s, i)
<1>1. CASE a \in InstructionCreatorActions
  <2>1. InstructionFact("catalog_role_ok", a, s, i) /\ InstructionFact("catalog_group_ok", a, s, i)
    BY <1>1, CreatorGate, InstructionFacts, Reported
  <2>2. a \in {"CREATE", "UPDATE"} => /\ InstructionFact("is_draft", a, s, i)
                                      /\ InstructionFact("within_three_years", a, s, i)
    <3>1. a \in {"CREATE", "UPDATE"} => i.status = "DRAFT" /\ InstructionFact("within_three_years", a, s, i)
      BY Reported
    <3>2. i.status = "DRAFT" => InstructionFact("is_draft", a, s, i)
      BY DEF InstructionFact
    <3> QED
      BY <3>1, <3>2
  <2>3. /\ InstructionFact("creator_eligible", a, s, i)
        /\ InstructionFact("valid_profit_center", a, s, i)
        /\ a \in {"CREATE", "UPDATE", "CANCEL"} => InstructionFact("account_lob_matches", a, s, i)
        /\ a = "CREATE" => InstructionFact("known_type", a, s, i)
        /\ a \in {"CANCEL", "SUBMIT"} => InstructionFact("valid_transition", a, s, i)
    <3>1. /\ InstructionFact("creator_eligible", a, s, i)
          /\ InstructionFact("valid_profit_center", a, s, i)
          /\ a \in {"CREATE", "UPDATE", "CANCEL"} => InstructionFact("account_lob_matches", a, s, i)
      BY <1>1, Reported
    <3>2. a = "CREATE" => InstructionFact("known_type", a, s, i)
      BY Reported
    <3>3. a \in {"CANCEL", "SUBMIT"} => InstructionFact("valid_transition", a, s, i)
      BY Reported
    <3> QED
      BY <3>1, <3>2, <3>3
  <2>4. CASE a = "CREATE"
    BY <2>1, <2>2, <2>3, <2>4, InstructionRulesAre DEF InstructionAllow
  <2>5. CASE a = "UPDATE"
    BY <2>1, <2>2, <2>3, <2>5, InstructionRulesAre DEF InstructionAllow
  <2>6. CASE a = "CANCEL"
    BY <2>1, <2>3, <2>6, InstructionRulesAre DEF InstructionAllow
  <2>7. CASE a = "SUBMIT"
    BY <2>1, <2>3, <2>7, InstructionRulesAre DEF InstructionAllow
  <2> QED
    BY <1>1, <2>4, <2>5, <2>6, <2>7 DEF InstructionCreatorActions
<1>2. CASE a \in InstructionApproverActions
  <2>1. InstructionFact("catalog_role_ok", a, s, i) /\ InstructionFact("catalog_group_ok", a, s, i)
    BY <1>2, ApproverGate, InstructionFacts, Reported
  <2>2. CASE a = "APPROVE"
    BY <1>2, <2>1, <2>2, InstructionRulesAre, Reported DEF InstructionAllow
  <2>3. CASE a = "REJECT"
    BY <1>2, <2>1, <2>3, InstructionRulesAre, Reported DEF InstructionAllow
  <2>4. CASE a = "SUSPEND"
    BY <1>2, <2>1, <2>4, InstructionRulesAre, Reported DEF InstructionAllow
  <2>5. CASE a = "REACTIVATE"
    BY <1>2, <2>1, <2>5, InstructionRulesAre, Reported DEF InstructionAllow
  <2> QED
    BY <1>2, <2>2, <2>3, <2>4, <2>5 DEF InstructionApproverActions
<1>3. CASE a = "USE"
  BY <1>3, InstructionRulesAre, InstructionFacts, Reported DEF InstructionAllow
<1>4. CASE a = "VIEW"
  BY <1>4, InstructionRulesAre, InstructionFacts, Reported DEF InstructionAllow
<1> QED
  BY <1>1, <1>2, <1>3, <1>4 DEF InstructionActions, ServiceActions

-----------------------------------------------------------------------------
(* The requests in flight *)

(* OPA serves every document while it has all files. *)
LEMMA AllServed ==
  ASSUME loaded = PolicyFiles, NEW domain \in {"instruction", "payment"},
         NEW name \in {"lifecycle", "violations"}
  PROVE  Serves(File(domain, name))
<1>1. /\ DOMAIN PreferredUploadOrder = 1 .. 15
      /\ PreferredUploadOrder[4] = "i/violations" /\ PreferredUploadOrder[7] = "i/lifecycle"
      /\ PreferredUploadOrder[11] = "p/violations" /\ PreferredUploadOrder[14] = "p/lifecycle"
  BY DEF PreferredUploadOrder
<1>2. {"i/violations", "i/lifecycle", "p/violations", "p/lifecycle"} \subseteq PolicyFiles
  BY <1>1 DEF PolicyFiles, Range
<1> QED
  BY <1>2 DEF Serves, File

(* A request as it is made and as every step leaves it: the fields it has.     *)
CallFields(c) ==
  c = [pc |-> c.pc, domain |-> c.domain, action |-> c.action, doc |-> c.doc, token |-> c.token,
       service |-> c.service, held |-> c.held, recorded |-> c.recorded,
       evaluated |-> c.evaluated, calm |-> c.calm, allowed |-> c.allowed,
       violations |-> c.violations, basis |-> c.basis, alert |-> c.alert]
CallShape ==
  \/ call = CallIdle
  \/ call = [pc |-> "console", entered |-> call.entered]
  \/ /\ CallFields(call)
     /\ call.pc \in {"asked", "resolved", "basis", "violations", "alert", "rejected", "done"}
     /\ \/ call.domain = "instruction" /\ call.action \in InstructionActions
        \/ call.domain = "payment" /\ call.action \in PaymentActions /\ call.doc \in PaymentDocs

ListingFields(l) ==
  l = [pc |-> l.pc, kind |-> l.kind, about |-> l.about, doc |-> l.doc, asked |-> l.asked,
       seen |-> l.seen, left |-> l.left, stage |-> l.stage, calm |-> l.calm,
       eligible |-> l.eligible, prospective |-> l.prospective]
ListRequest(l) ==
  /\ ListingFields(l)
  /\ l.pc \in {"fetch", "evaluate", "done"} /\ l.kind \in Kinds
  /\ l.stage \in {"eligible", "prospective"}
  /\ l.left \subseteq User /\ l.seen = [u \in User |-> l.seen[u]]
  /\ l.kind = "instruction approvers" => l.doc \in InstructionDocs
ListingShape == listing = ListingIdle \/ ListRequest(listing)
CacheShape ==
  /\ cache = [at |-> cache.at, users |-> cache.users]
  /\ cache.users = [u \in User |-> cache.users[u]]
Shapes == CallShape /\ ListingShape /\ CacheShape

LEMMA ShapesInit == Init => Shapes
BY DEF Init, Shapes, CallShape, ListingShape, CacheShape, NoCache

LEMMA CallShapeKept ==
  ASSUME CallShape, [Next]_vars
  PROVE  CallShape'
<1>1. ASSUME NEW u \in User, CallInstruction(u) PROVE CallShape'
  BY <1>1 DEF CallInstruction, Asked, CallShape, CallFields
<1>2. ASSUME NEW u \in User, CallPayment(u) PROVE CallShape'
  BY <1>2 DEF CallPayment, Asked, CallShape, CallFields
<1>3. ASSUME NEW u \in User, EnterConsoles(u) PROVE CallShape'
  BY <1>3 DEF EnterConsoles, CallShape
<1>4. ASSUME call.pc \in {"asked", "resolved", "basis", "violations", "alert"},
             CallFields(call) => CallFields(call') /\ call'.domain = call.domain
                                 /\ call'.action = call.action /\ call'.doc = call.doc,
             call'.pc \in {"resolved", "basis", "violations", "alert", "rejected", "done"}
      PROVE CallShape'
  BY <1>4 DEF CallShape, CallIdle
<1>5. CASE ResolveSubject
  <2>1. CallFields(call)
    BY <1>5 DEF ResolveSubject, CallShape, CallIdle
  <2>2. PICK s, k : \/ call' = [call EXCEPT !.pc = "resolved", !.evaluated = s, !.calm = k]
                    \/ call' = [call EXCEPT !.pc = "rejected"]
    BY <1>5 DEF ResolveSubject
  <2> QED
    BY <1>4, <1>5, <2>1, <2>2 DEF ResolveSubject, CallFields
<1>6. CASE AskDecision
  <2>1. CallFields(call)
    BY <1>6 DEF AskDecision, CallShape, CallIdle
  <2>2. PICK yes \in BOOLEAN : call' = [call EXCEPT !.pc = IF yes THEN "basis" ELSE "violations",
                                                    !.allowed = yes]
    BY <1>6 DEF AskDecision, AskAllow
  <2> QED
    BY <1>4, <1>6, <2>1, <2>2 DEF AskDecision, CallFields
<1>7. CASE AskExplanation
  <2>1. CallFields(call)
    BY <1>7 DEF AskExplanation, CallShape, CallIdle
  <2>2. PICK s : \/ call' = [call EXCEPT !.pc = "done", !.basis = s]
                 \/ call' = [call EXCEPT !.pc = "alert", !.violations = s]
    BY <1>7 DEF AskExplanation
  <2> QED
    BY <1>4, <1>7, <2>1, <2>2 DEF AskExplanation, CallFields
<1>8. CASE AskIsAlert
  <2>1. CallFields(call)
    BY <1>8 DEF AskIsAlert, CallShape, CallIdle
  <2>2. PICK s : call' = [call EXCEPT !.pc = "done", !.alert = s]
    BY <1>8 DEF AskIsAlert
  <2> QED
    BY <1>4, <1>8, <2>1, <2>2 DEF AskIsAlert, CallFields
<1>9. CASE Return
  BY <1>9 DEF Return, CallShape
<1>10. CASE StoreStep
  BY <1>10 DEF StoreStep, Disturbed, CallShape, CallFields, CallIdle
<1>11. CASE UNCHANGED call
  BY <1>11 DEF CallShape, CallFields
<1> QED
  BY <1>1, <1>2, <1>3, <1>5, <1>6, <1>7, <1>8, <1>9, <1>10, <1>11
     DEF Next, vars, ChangeProfile, FetchUser, EvaluateCandidate, AskList, Tick, FetchEnds,
         FetchFails, NextStage

LEMMA ListingShapeKept ==
  ASSUME ListingShape, CacheShape, [Next]_vars
  PROVE  ListingShape'
<1>0. ListRequest(listing') => ListingShape'
  BY DEF ListingShape
<1>1. ASSUME NEW kind \in Kinds, AskList(kind) PROVE ListingShape'
  <2>1. PICK d, said :
          /\ d \in IF DomainOf(kind) = "instruction" THEN InstructionDocs ELSE PaymentDocs
          /\ said \in Described(kind, d)
          /\ listing' = IF Fresh THEN Evaluating(Fetching(kind, d, said), cache.users)
                                 ELSE Fetching(kind, d, said)
    BY <1>1 DEF AskList
  <2>2. kind = "instruction approvers" => said \in InstructionDocs
    BY <2>1 DEF Described, DomainOf
  <2>3. ListingFields(Fetching(kind, d, said))
    BY DEF ListingFields, Fetching
  <2>4. CASE ~Fresh
    BY <1>0, <2>1, <2>2, <2>3, <2>4 DEF ListRequest, ListingFields, Fetching, NoCache
  <2>5. CASE Fresh
    <3>1. PICK left, k :
            /\ left \in SUBSET User
            /\ listing' = [Fetching(kind, d, said) EXCEPT !.pc = "evaluate", !.seen = cache.users,
                             !.calm = k, !.left = left]
      BY <2>1, <2>5 DEF Evaluating, Candidates
    <3> QED
      BY <1>0, <2>2, <3>1 DEF ListRequest, ListingFields, Fetching, CacheShape
  <2> QED
    BY <2>4, <2>5
<1>2. ASSUME NEW u \in User, FetchUser(u) PROVE ListingShape'
  <2>1. ListRequest(listing)
    BY <1>2 DEF FetchUser, ListingShape, ListingIdle
  <2>2. PICK seen : /\ seen = [v \in User |-> seen[v]]
                    /\ listing' = [listing EXCEPT !.left = @ \ {u}, !.seen = seen]
    <3>1. CASE listing' = [listing EXCEPT !.left = @ \ {u},
                             !.seen[u] = IF Complete(zitadel[u]) THEN zitadel[u] ELSE Missing]
      <4> DEFINE seen == [listing.seen EXCEPT ![u] = IF Complete(zitadel[u]) THEN zitadel[u]
                                                                             ELSE Missing]
      <4>1. seen = [v \in User |-> seen[v]]
        BY <2>1 DEF ListRequest
      <4>2. listing' = [listing EXCEPT !.left = @ \ {u}, !.seen = seen]
        BY <2>1, <3>1 DEF ListRequest, ListingFields
      <4> QED
        BY <4>1, <4>2
    <3>2. CASE listing' = [listing EXCEPT !.left = @ \ {u}]
      <4>1. listing' = [listing EXCEPT !.left = @ \ {u}, !.seen = listing.seen]
        BY <2>1, <3>2 DEF ListRequest, ListingFields
      <4> QED
        BY <2>1, <4>1 DEF ListRequest
    <3> QED
      BY <1>2, <3>1, <3>2 DEF FetchUser
  <2> QED
    BY <1>0, <1>2, <2>1, <2>2 DEF FetchUser, ListRequest, ListingFields
<1>3. CASE FetchEnds
  <2>1. ListRequest(listing)
    BY <1>3 DEF FetchEnds, ListingShape, ListingIdle
  <2>2. PICK left, k :
          /\ left \in SUBSET User
          /\ listing' = [listing EXCEPT !.pc = "evaluate", !.seen = listing.seen, !.calm = k,
                           !.left = left]
    BY <1>3 DEF FetchEnds, Evaluating, Candidates
  <2> QED
    BY <1>0, <1>3, <2>1, <2>2 DEF FetchEnds, ListRequest, ListingFields
<1>4. ASSUME NEW u \in User, EvaluateCandidate(u) PROVE ListingShape'
  <2>1. ListRequest(listing)
    BY <1>4 DEF EvaluateCandidate, ListingShape, ListingIdle
  <2>2. PICK add : \/ listing' = [listing EXCEPT !.left = @ \ {u}, !.eligible = @ \cup add]
                   \/ listing' = [listing EXCEPT !.left = @ \ {u}, !.prospective = @ \cup add]
    BY <1>4 DEF EvaluateCandidate
  <2> QED
    BY <1>0, <1>4, <2>1, <2>2 DEF EvaluateCandidate, ListRequest, ListingFields
<1>5. CASE NextStage
  <2>1. ListRequest(listing)
    BY <1>5 DEF NextStage, ListingShape, ListingIdle
  <2>2. PICK left \in SUBSET User :
          \/ listing' = [listing EXCEPT !.stage = "prospective", !.left = left]
          \/ listing' = [listing EXCEPT !.pc = "done"]
    BY <1>5 DEF NextStage, Candidates
  <2> QED
    BY <1>0, <1>5, <2>1, <2>2 DEF NextStage, ListRequest, ListingFields
<1>6. CASE StoreStep
  BY <1>6 DEF StoreStep, Disturbed, ListingShape, ListRequest, ListingFields, ListingIdle
<1>7. CASE FetchFails \/ Return
  BY <1>7 DEF FetchFails, Return, ListingShape
<1>8. CASE UNCHANGED listing
  BY <1>8 DEF ListingShape
<1> QED
  BY <1>1, <1>2, <1>3, <1>4, <1>5, <1>6, <1>7, <1>8
     DEF Next, vars, ChangeProfile, CallInstruction, CallPayment, EnterConsoles, Tick,
         ResolveSubject, AskDecision, AskExplanation, AskIsAlert

LEMMA CacheShapeKept ==
  ASSUME ListingShape, CacheShape, [Next]_vars
  PROVE  CacheShape'
<1>1. CASE FetchEnds
  <2>1. ListRequest(listing)
    BY <1>1 DEF FetchEnds, ListingShape, ListingIdle
  <2>2. cache' = [at |-> CachedAt(listing), users |-> listing.seen]
    BY <1>1 DEF FetchEnds
  <2> QED
    BY <2>1, <2>2 DEF CacheShape, ListRequest
<1>2. CASE UNCHANGED cache
  BY <1>2 DEF CacheShape
<1> QED
  BY <1>1, <1>2
     DEF Next, vars, dirVars, ChangeProfile, CallInstruction, CallPayment, EnterConsoles, Tick,
         ResolveSubject, AskDecision, AskExplanation, AskIsAlert, FetchUser, FetchFails,
         EvaluateCandidate, AskList, NextStage, Return, StoreStep

LEMMA ShapesKept == Spec => []Shapes
<1>1. Shapes /\ [Next]_vars => Shapes'
  BY CallShapeKept, ListingShapeKept, CacheShapeKept DEF Shapes
<1> QED
  BY <1>1, ShapesInit, PTL DEF Spec

-----------------------------------------------------------------------------
(* The subject recorded and the one judged *)

(* A subject has these fields. *)
SubjectFields(s) ==
  s = [user |-> s.user, title |-> s.title, lob |-> s.lob, roles |-> s.roles, groups |-> s.groups,
       covers |-> s.covers, supervisor |-> s.supervisor, delegates |-> s.delegates]

LEMMA SubjectsResolved ==
  ASSUME NEW t, NEW d
  PROVE  /\ LET s == OnBehalf(AuthorizationSubject(t, zitadel), d)
            IN s # Refused => SubjectFields(s) /\ s.delegates = d
         /\ LET s == OnBehalf(InstructionSubject(t, zitadel), d)
            IN s # Refused => SubjectFields(s) /\ s.delegates = d
         /\ LET s == OnBehalf(PaymentSubject(t, zitadel), d)
            IN s # Refused => SubjectFields(s) /\ s.delegates = d
<1> DEFINE given(s) == s # Refused => SubjectFields(s)
<1>1. given(FromBearer(t, zitadel))
  BY DEF FromBearer, Subject, SubjectFields
<1>2. ASSUME NEW s, given(s)
      PROVE  OnBehalf(s, d) # Refused =>
               SubjectFields(OnBehalf(s, d)) /\ OnBehalf(s, d).delegates = d
  <2> SUFFICES ASSUME OnBehalf(s, d) # Refused
               PROVE  SubjectFields(OnBehalf(s, d)) /\ OnBehalf(s, d).delegates = d
    OBVIOUS
  <2>1. SubjectFields(s) /\ OnBehalf(s, d) = [s EXCEPT !.delegates = d]
    BY <1>2 DEF OnBehalf
  <2> QED
    BY <2>1 DEF SubjectFields
<1>3. given(InstructionSubject(t, zitadel))
  BY <1>1 DEF InstructionSubject
<1> HIDE DEF given
<1> QED
  BY <1>1, <1>2, <1>3 DEF AuthorizationSubject, PaymentSubject

(* Two subjects of the same identity differ in their delegates at most, which  *)
(* the rules of payments do not ask for.                                       *)
LEMMA SameIdentities ==
  ASSUME NEW s, NEW t, SubjectFields(s), SubjectFields(t), SameIdentity(s, t)
  PROVE  /\ s.user = t.user /\ s.title = t.title /\ s.lob = t.lob /\ s.roles = t.roles
         /\ s.groups = t.groups /\ s.covers = t.covers /\ s.supervisor = t.supervisor
         /\ s.delegates = t.delegates => s = t
<1>1. /\ [s EXCEPT !.delegates = {}] =
           [user |-> s.user, title |-> s.title, lob |-> s.lob, roles |-> s.roles,
            groups |-> s.groups, covers |-> s.covers, supervisor |-> s.supervisor, delegates |-> {}]
      /\ [t EXCEPT !.delegates = {}] =
           [user |-> t.user, title |-> t.title, lob |-> t.lob, roles |-> t.roles,
            groups |-> t.groups, covers |-> t.covers, supervisor |-> t.supervisor, delegates |-> {}]
  BY DEF SubjectFields
<1>2. /\ s.user = t.user /\ s.title = t.title /\ s.lob = t.lob /\ s.roles = t.roles
      /\ s.groups = t.groups /\ s.covers = t.covers /\ s.supervisor = t.supervisor
  BY <1>1 DEF SameIdentity
<1> QED
  BY <1>2 DEF SubjectFields

LEMMA SamePolicy ==
  ASSUME NEW s, NEW t, SubjectFields(s), SubjectFields(t), SameIdentity(s, t),
         NEW domain \in {"instruction", "payment"}, NEW a, NEW d,
         domain = "instruction" => s.delegates = t.delegates
  PROVE  /\ Allow(domain, a, s, d) <=> Allow(domain, a, t, d)
         /\ Violations(domain, a, s, d) = Violations(domain, a, t, d)
<1>1. /\ s.user = t.user /\ s.title = t.title /\ s.lob = t.lob /\ s.roles = t.roles
      /\ s.groups = t.groups /\ s.covers = t.covers /\ s.supervisor = t.supervisor
  BY SameIdentities
<1>2. CASE domain = "instruction"
  <2>1. s = t
    BY <1>2, SameIdentities
  <2> QED
    BY <2>1
<1>3. CASE domain = "payment"
  <2>1. /\ \A r : HasRole(s, r) = HasRole(t, r)
        /\ \A g : InGroup(s, g) = InGroup(t, g)
        /\ IsMiddleOffice(s) = IsMiddleOffice(t)
        /\ \A lob : CoversLob(s, lob) = CoversLob(t, lob)
        /\ \A n : SubjectLimitCovers(s, n) = SubjectLimitCovers(t, n)
        /\ \A n : WithinAmountLimit(s, n) = WithinAmountLimit(t, n)
        /\ CatalogRoleOk(PaymentCatalog, a, s) = CatalogRoleOk(PaymentCatalog, a, t)
        /\ CatalogGroupOk(PaymentCatalog, a, s) = CatalogGroupOk(PaymentCatalog, a, t)
    BY <1>1 DEF HasRole, InGroup, IsMiddleOffice, CoversLob, SubjectLimitCovers,
                WithinAmountLimit, CatalogRoleOk, CatalogGroupOk
  <2>2. \A p : PaymentFact(p, a, s, d) = PaymentFact(p, a, t, d)
    BY <1>1, <2>1 DEF PaymentFact
  <2>3. PaymentAllow(a, s, d) <=> PaymentAllow(a, t, d)
    BY <2>2 DEF PaymentAllow
  <2>4. PaymentViolations(a, s, d) = PaymentViolations(a, t, d)
    BY <1>1, <2>1, <2>2 DEF PaymentViolations, When
  <2> QED
    BY <1>3, <2>3, <2>4 DEF Allow, Violations
<1> QED
  BY <1>2, <1>3

(* The subject judged is the recorded one, up to the delegates of a payment's. *)
Judged(c) ==
  /\ c.pc \in {"asked", "resolved", "basis", "violations", "alert", "done"} =>
       /\ SubjectFields(c.recorded)
       /\ c.domain = "instruction" => c.recorded.delegates = ServiceRoles[c.service]
  /\ c.pc \in {"resolved", "basis", "violations", "alert", "done"} =>
       /\ SubjectFields(c.evaluated) /\ SameIdentity(c.evaluated, c.recorded)
       /\ c.domain = "instruction" => c.evaluated.delegates = ServiceRoles[c.service]

LEMMA JudgedKept ==
  ASSUME CallShape, Judged(call), [Next]_vars
  PROVE  Judged(call)'
<1> USE DEF CallFields
<1>1. ASSUME NEW u \in User, CallInstruction(u) PROVE Judged(call)'
  <2>1. PICK t, d, a, service :
          /\ GetInstructionSubject(t, service) # Refused
          /\ call' = Asked("instruction", a, d, t, GetInstructionSubject(t, service), service,
                           "valid")
    BY <1>1 DEF CallInstruction
  <2>2. /\ SubjectFields(GetInstructionSubject(t, service))
        /\ GetInstructionSubject(t, service).delegates = ServiceRoles[service]
    BY <2>1, SubjectsResolved DEF GetInstructionSubject
  <2>3. /\ call'.pc = "asked" /\ call'.service = service
        /\ call'.recorded = GetInstructionSubject(t, service)
    BY <2>1 DEF Asked
  <2> QED
    BY <2>2, <2>3 DEF Judged
<1>2. ASSUME NEW u \in User, CallPayment(u) PROVE Judged(call)'
  <2>1. PICK t, d, a, held :
          /\ GetPaymentSubject(t, "harness") # Refused
          /\ call' = Asked("payment", a, d, t, GetPaymentSubject(t, "harness"), "payment", held)
    BY <1>2 DEF CallPayment
  <2>2. SubjectFields(GetPaymentSubject(t, "harness"))
    BY <2>1, SubjectsResolved DEF GetPaymentSubject
  <2>3. /\ call'.pc = "asked" /\ call'.domain = "payment"
        /\ call'.recorded = GetPaymentSubject(t, "harness")
    BY <2>1 DEF Asked
  <2> QED
    BY <2>2, <2>3 DEF Judged
<1>3. ASSUME NEW u \in User, EnterConsoles(u) PROVE Judged(call)'
  BY <1>3 DEF EnterConsoles, Judged
<1>4. ASSUME call.pc \notin {"idle", "console"} PROVE CallFields(call)
  BY <1>4 DEF CallShape, CallIdle
<1>5. CASE ResolveSubject
  <2> DEFINE s == OnBehalf(AuthorizationSubject(call.token, zitadel), ServiceRoles[call.service])
  <2>1. CallFields(call) /\ call.pc = "asked"
    BY <1>4, <1>5 DEF ResolveSubject
  <2>2. CASE s # Refused /\ SameIdentity(s, call.recorded) /\ call'.pc = "resolved"
    <3>1. SubjectFields(s) /\ s.delegates = ServiceRoles[call.service]
      BY <2>2, SubjectsResolved
    <3> HIDE DEF s
    <3>2. call' = [call EXCEPT !.pc = "resolved", !.evaluated = s, !.calm = Settled]
      BY <1>5, <2>1, <2>2 DEF ResolveSubject, s
    <3>3. /\ call'.evaluated = s /\ call'.recorded = call.recorded
          /\ call'.domain = call.domain /\ call'.service = call.service
      BY <2>1, <3>2
    <3> QED
      BY <2>1, <2>2, <3>1, <3>3 DEF Judged
  <2>3. CASE call'.pc = "rejected"
    BY <2>3 DEF Judged
  <2>4. \/ s # Refused /\ SameIdentity(s, call.recorded) /\ call'.pc = "resolved"
        \/ call'.pc = "rejected"
    <3> HIDE DEF s
    <3>1. \/ /\ s # Refused /\ SameIdentity(s, call.recorded)
             /\ call' = [call EXCEPT !.pc = "resolved", !.evaluated = s, !.calm = Settled]
          \/ call' = [call EXCEPT !.pc = "rejected"]
      BY <1>5 DEF ResolveSubject, s
    <3> QED
      BY <2>1, <3>1
  <2> QED
    BY <2>2, <2>3, <2>4
<1>6. ASSUME call.pc \in {"resolved", "basis", "violations", "alert", "done"},
             CallFields(call) => /\ call'.recorded = call.recorded
                                 /\ call'.evaluated = call.evaluated
                                 /\ call'.domain = call.domain /\ call'.service = call.service
      PROVE  Judged(call)'
  BY <1>4, <1>6 DEF Judged
<1>7. CASE AskDecision
  <2>1. PICK yes : call' = [call EXCEPT !.pc = IF yes THEN "basis" ELSE "violations",
                                        !.allowed = yes]
    BY <1>7 DEF AskDecision
  <2> QED
    BY <1>6, <1>7, <2>1 DEF AskDecision
<1>8. CASE AskExplanation
  <2>1. PICK found, basis : \/ call' = [call EXCEPT !.pc = "done", !.basis = basis]
                            \/ call' = [call EXCEPT !.pc = "alert", !.violations = found]
    BY <1>8 DEF AskExplanation
  <2> QED
    BY <1>6, <1>8, <2>1 DEF AskExplanation
<1>9. CASE AskIsAlert
  <2>1. PICK yes : call' = [call EXCEPT !.pc = "done", !.alert = yes]
    BY <1>9 DEF AskIsAlert
  <2> QED
    BY <1>6, <1>9, <2>1 DEF AskIsAlert
<1>10. CASE Return
  BY <1>10 DEF Return, CallIdle, Judged
<1>11. CASE StoreStep
  <2>1. CASE "calm" \in DOMAIN call
    <3>1. CallFields(call)
      BY <2>1 DEF CallShape, CallIdle
    <3>2. call' = [call EXCEPT !.calm = FALSE]
      BY <1>11, <2>1 DEF StoreStep, Disturbed
    <3>3. /\ call'.pc = call.pc /\ call'.recorded = call.recorded
          /\ call'.evaluated = call.evaluated
          /\ call'.domain = call.domain /\ call'.service = call.service
      BY <3>1, <3>2
    <3> QED
      BY <3>3 DEF Judged
  <2>2. CASE "calm" \notin DOMAIN call
    BY <1>11, <2>2 DEF StoreStep, Disturbed, Judged
  <2> QED
    BY <2>1, <2>2
<1>12. CASE UNCHANGED call
  BY <1>12 DEF Judged
<1> QED
  BY <1>1, <1>2, <1>3, <1>5, <1>7, <1>8, <1>9, <1>10, <1>11, <1>12
     DEF Next, vars, ChangeProfile, FetchUser, EvaluateCandidate, AskList, Tick,
         FetchEnds, FetchFails, NextStage

-----------------------------------------------------------------------------
(* What an answered request rests on: an allowed one on the policy's decision  *)
(* about the subject judged; in the calm a refused one too, and its violations *)
(* and its alert are those of that same decision.                              *)
Policy(c) == Allow(c.domain, c.action, c.evaluated, c.doc)
Codes(c) == Violations(c.domain, c.action, c.evaluated, c.doc)
Decided(c) ==
  /\ c.pc \in {"resolved", "basis", "violations", "alert", "done"} /\ c.calm =>
       loaded = PolicyFiles
  /\ c.pc \in {"basis", "violations", "alert", "done"} /\ c.allowed => Policy(c)
  /\ c.pc = "basis" => c.allowed
  /\ c.pc \in {"violations", "alert"} => ~c.allowed
  /\ c.pc \in {"violations", "alert", "done"} /\ c.calm /\ ~c.allowed => ~Policy(c)
  /\ c.pc \in {"alert", "done"} /\ c.calm /\ ~c.allowed => c.violations = Codes(c)
  /\ c.pc = "done" /\ c.calm /\ ~c.allowed => (c.alert <=> Codes(c) \cap AlertCodes # {})

LEMMA DecidedKept ==
  ASSUME CallShape, Decided(call), [Next]_vars
  PROVE  Decided(call)'
<1>1. ASSUME NEW u \in User, CallInstruction(u) PROVE Decided(call)'
  BY <1>1 DEF CallInstruction, Asked, Decided
<1>2. ASSUME NEW u \in User, CallPayment(u) PROVE Decided(call)'
  BY <1>2 DEF CallPayment, Asked, Decided
<1>3. ASSUME NEW u \in User, EnterConsoles(u) PROVE Decided(call)'
  BY <1>3 DEF EnterConsoles, Decided
<1>4. ASSUME call.pc \notin {"idle", "console"}
      PROVE  CallFields(call) /\ call.domain \in {"instruction", "payment"}
  BY <1>4 DEF CallShape, CallIdle
<1>5. CASE ResolveSubject
  <2>1. CallFields(call) /\ UNCHANGED loaded
    BY <1>4, <1>5 DEF ResolveSubject, storeVars
  <2>2. PICK s : \/ call' = [call EXCEPT !.pc = "resolved", !.evaluated = s, !.calm = Settled]
                 \/ call' = [call EXCEPT !.pc = "rejected"]
    BY <1>5 DEF ResolveSubject
  <2>3. \/ call'.pc = "resolved" /\ call'.calm = Settled
        \/ call'.pc = "rejected"
    BY <2>1, <2>2 DEF CallFields
  <2>4. Settled => loaded = PolicyFiles
    BY DEF Settled
  <2> HIDE DEF Settled
  <2> QED
    BY <2>1, <2>3, <2>4 DEF Decided
(* What a later step leaves of the decision. *)
<1>6. ASSUME CallFields(call), UNCHANGED loaded, call'.domain = call.domain,
             call'.action = call.action, call'.evaluated = call.evaluated, call'.doc = call.doc
      PROVE  Policy(call)' = Policy(call) /\ Codes(call)' = Codes(call)
  BY <1>6 DEF Policy, Codes, Allow, Violations
<1>7. CASE AskDecision
  <2> DEFINE yes == AskAllow(call.domain, call.action, call.evaluated, call.doc)
  <2>1. CallFields(call) /\ UNCHANGED loaded /\ call.domain \in {"instruction", "payment"}
    BY <1>4, <1>7 DEF AskDecision, storeVars
  <2>2. call' = [call EXCEPT !.pc = IF yes THEN "basis" ELSE "violations", !.allowed = yes]
    BY <1>7 DEF AskDecision
  <2>3. call.calm => loaded = PolicyFiles
    BY <1>7 DEF AskDecision, Decided
  <2>4. yes => Policy(call)
    BY DEF AskAllow, Policy
  <2>5. loaded = PolicyFiles /\ ~yes => ~Policy(call)
    BY <2>1, AllServed DEF AskAllow, Policy
  <2> HIDE DEF yes
  <2>6. /\ call'.pc = (IF yes THEN "basis" ELSE "violations") /\ call'.allowed = yes
        /\ call'.domain = call.domain /\ call'.action = call.action
        /\ call'.evaluated = call.evaluated /\ call'.doc = call.doc /\ call'.calm = call.calm
    BY <2>1, <2>2 DEF CallFields
  <2> QED
    BY <1>6, <2>1, <2>3, <2>4, <2>5, <2>6 DEF Decided
<1>8. CASE AskExplanation
  <2>1. CallFields(call) /\ UNCHANGED loaded /\ call.domain \in {"instruction", "payment"}
    BY <1>4, <1>8 DEF AskExplanation, storeVars
  <2>2. CASE call.pc = "basis"
    <3>1. PICK s : call' = [call EXCEPT !.pc = "done", !.basis = s]
      BY <1>8, <2>2 DEF AskExplanation
    <3>2. /\ call'.pc = "done" /\ call'.allowed = call.allowed /\ call'.calm = call.calm
          /\ call'.domain = call.domain /\ call'.action = call.action
          /\ call'.evaluated = call.evaluated /\ call'.doc = call.doc
      BY <2>1, <3>1 DEF CallFields
    <3> QED
      BY <1>6, <2>1, <2>2, <3>2 DEF Decided
  <2>3. CASE call.pc = "violations"
    <3> DEFINE found == AskViolations(call.domain, call.action, call.evaluated, call.doc)
    <3>1. call' = [call EXCEPT !.pc = "alert", !.violations = found]
      BY <1>8, <2>3 DEF AskExplanation
    <3>2. loaded = PolicyFiles => found = Codes(call)
      BY <2>1, AllServed DEF AskViolations, Codes
    <3> HIDE DEF found
    <3>3. /\ call'.pc = "alert" /\ call'.allowed = call.allowed /\ call'.calm = call.calm
          /\ call'.domain = call.domain /\ call'.action = call.action
          /\ call'.evaluated = call.evaluated /\ call'.doc = call.doc
          /\ call'.violations = found
      BY <2>1, <3>1 DEF CallFields
    <3> QED
      BY <1>6, <2>1, <2>3, <3>2, <3>3 DEF Decided
  <2> QED
    BY <1>8, <2>2, <2>3 DEF AskExplanation
<1>9. CASE AskIsAlert
  <2> DEFINE alert == AskAlert(call.domain, call.action, call.evaluated, call.doc)
  <2>1. CallFields(call) /\ UNCHANGED loaded /\ call.domain \in {"instruction", "payment"}
    BY <1>4, <1>9 DEF AskIsAlert, storeVars
  <2>2. call.pc = "alert" /\ call' = [call EXCEPT !.pc = "done", !.alert = alert]
    BY <1>9 DEF AskIsAlert
  <2>3. loaded = PolicyFiles => (alert <=> Codes(call) \cap AlertCodes # {})
    BY <2>1, AllServed DEF AskAlert, AskViolations, Codes
  <2> HIDE DEF alert
  <2>4. /\ call'.pc = "done" /\ call'.allowed = call.allowed /\ call'.calm = call.calm
        /\ call'.domain = call.domain /\ call'.action = call.action
        /\ call'.evaluated = call.evaluated /\ call'.doc = call.doc
        /\ call'.violations = call.violations /\ call'.alert = alert
    BY <2>1, <2>2 DEF CallFields
  <2> QED
    BY <1>6, <2>1, <2>2, <2>3, <2>4 DEF Decided
<1>10. CASE Return
  BY <1>10 DEF Return, CallIdle, Decided, storeVars, Policy, Codes, Allow, Violations
<1>11. CASE StoreStep
  <2>1. CASE "calm" \in DOMAIN call
    <3>1. CallFields(call)
      BY <2>1 DEF CallShape, CallIdle
    <3>2. call' = [call EXCEPT !.calm = FALSE]
      BY <1>11, <2>1 DEF StoreStep, Disturbed
    <3>3. /\ call'.pc = call.pc /\ call'.allowed = call.allowed /\ call'.calm = FALSE
          /\ call'.domain = call.domain /\ call'.action = call.action
          /\ call'.evaluated = call.evaluated /\ call'.doc = call.doc
      BY <3>1, <3>2 DEF CallFields
    <3>4. Policy(call)' = Policy(call)
      BY <3>3 DEF Policy, Allow
    <3> QED
      BY <3>3, <3>4 DEF Decided
  <2>2. CASE "calm" \notin DOMAIN call
    BY <1>11, <2>2 DEF StoreStep, Disturbed, CallShape, CallIdle, CallFields, Decided
  <2> QED
    BY <2>1, <2>2
<1>12. CASE UNCHANGED <<call, loaded>>
  BY <1>12 DEF Decided, Policy, Codes, Allow, Violations
<1> QED
  BY <1>1, <1>2, <1>3, <1>5, <1>7, <1>8, <1>9, <1>10, <1>11, <1>12
     DEF Next, vars, storeVars, ChangeProfile, FetchUser, EvaluateCandidate, AskList, Tick,
         FetchEnds, FetchFails, NextStage

LEMMA CallsAreDecided == Spec => [](Shapes /\ Judged(call) /\ Decided(call))
<1> DEFINE Inv == Shapes /\ Judged(call) /\ Decided(call)
<1>1. Init => Inv
  BY ShapesInit DEF Init, CallIdle, Decided, Judged
<1>2. Inv /\ [Next]_vars => Inv'
  BY CallShapeKept, ListingShapeKept, CacheShapeKept, JudgedKept, DecidedKept DEF Shapes
<1> QED
  BY <1>1, <1>2, PTL DEF Spec

(* A denial of an instruction action decided in the calm names a violation,    *)
(* whatever the subject and the document: the three documents a request reads  *)
(* are read in three requests, and between them the script may start.          *)
THEOREM DenialsAreExplained == Spec => []DenialExplained
<1>1. Shapes /\ Decided(call) => DenialExplained
  <2> SUFFICES ASSUME Shapes, Decided(call), call.pc = "done", call.calm,
                      call.domain = "instruction", ~call.allowed, call.action # "RELEASE_USE"
               PROVE  call.violations # {}
    BY DEF DenialExplained
  <2>1. call.action \in InstructionActions \ {"RELEASE_USE"}
    BY DEF Shapes, CallShape, CallIdle
  <2>2. /\ ~InstructionAllow(call.action, call.evaluated, call.doc)
        /\ call.violations = InstructionViolations(call.action, call.evaluated, call.doc)
    BY DEF Decided, Policy, Codes, Allow, Violations
  <2> QED
    BY <2>1, <2>2, RefusalsAreNamed
<1> QED
  BY <1>1, CallsAreDecided, PTL

(* The subject a service records with a decision explains the decision, its    *)
(* violations and its alert, however profiles changed while it was taken.      *)
THEOREM RecordedAlwaysDecides == Spec => []RecordedDecides
<1>1. Shapes /\ Judged(call) /\ Decided(call) => RecordedDecides
  <2> SUFFICES ASSUME Shapes, Judged(call), Decided(call), call.pc = "done", call.calm
               PROVE  LET codes == Violations(call.domain, call.action, call.recorded, call.doc)
                      IN /\ call.allowed <=> Allow(call.domain, call.action, call.recorded, call.doc)
                         /\ ~call.allowed => /\ call.violations = codes
                                             /\ call.alert <=> codes \cap AlertCodes # {}
    BY DEF RecordedDecides
  <2>1. call.domain \in {"instruction", "payment"}
    BY DEF Shapes, CallShape, CallIdle
  <2>2. /\ SubjectFields(call.evaluated) /\ SubjectFields(call.recorded)
        /\ SameIdentity(call.evaluated, call.recorded)
        /\ call.domain = "instruction" => call.evaluated.delegates = call.recorded.delegates
    BY DEF Judged
  <2>3. /\ Policy(call) <=> Allow(call.domain, call.action, call.recorded, call.doc)
        /\ Codes(call) = Violations(call.domain, call.action, call.recorded, call.doc)
    BY <2>1, <2>2, SamePolicy DEF Policy, Codes
  <2>4. /\ call.allowed <=> Policy(call)
        /\ ~call.allowed => /\ call.violations = Codes(call)
                            /\ call.alert <=> Codes(call) \cap AlertCodes # {}
    BY DEF Decided
  <2> QED
    BY <2>3, <2>4
<1> QED
  BY <1>1, CallsAreDecided, PTL

-----------------------------------------------------------------------------
(* The rules of payments *)

(* The role, the group and the LOB a payment action takes.                     *)
LEMMA PaymentGates ==
  ASSUME NEW a \in PaymentActions, NEW s, NEW d, PaymentAllow(a, s, d)
  PROVE  /\ a \in PaymentCreatorActions => "PAYMENT_CREATOR" \in s.roles
         /\ a \in FundingActions => "FUNDING_APPROVER" \in s.roles /\ d.lob \in s.covers
         /\ a # "SUBMIT" => "MIDDLE_OFFICE" \in s.groups
         /\ a = "SUBMIT" => s.lob = d.lob
<1>1. a \in DOMAIN PaymentCatalog
  BY DEF PaymentCatalog
<1>2. /\ PaymentCatalog[a].role = IF a \in PaymentCreatorActions THEN "PAYMENT_CREATOR"
                                                                ELSE "FUNDING_APPROVER"
      /\ a # "SUBMIT" => PaymentCatalog[a].groups = {"MIDDLE_OFFICE"}
  BY DEF PaymentCatalog, PaymentActions, PaymentCreatorActions, FundingActions
<1>3. /\ {"catalog_role_ok", "catalog_group_ok"} \subseteq PaymentRules[a]
      /\ a \in FundingActions => "covers_lob" \in PaymentRules[a]
      /\ a = "SUBMIT" => "same_lob" \in PaymentRules[a]
  BY DEF PaymentRules, PaymentActions, PaymentCreatorActions, FundingActions
<1>4. /\ PaymentFact("catalog_role_ok", a, s, d) = CatalogRoleOk(PaymentCatalog, a, s)
      /\ PaymentFact("catalog_group_ok", a, s, d) = CatalogGroupOk(PaymentCatalog, a, s)
      /\ PaymentFact("covers_lob", a, s, d) = CoversLob(s, d.lob)
      /\ PaymentFact("same_lob", a, s, d) = (s.lob = d.lob)
  BY DEF PaymentFact
<1>5. CatalogRoleOk(PaymentCatalog, a, s) /\ CatalogGroupOk(PaymentCatalog, a, s)
  BY <1>3, <1>4 DEF PaymentAllow
<1>6. a \in FundingActions => CoversLob(s, d.lob)
  BY <1>3, <1>4 DEF PaymentAllow
<1>7. a = "SUBMIT" => s.lob = d.lob
  BY <1>3, <1>4 DEF PaymentAllow
<1> QED
  BY <1>1, <1>2, <1>5, <1>6, <1>7
     DEF CatalogRoleOk, CatalogGroupOk, CoversLob, HasRole, PaymentCreatorActions, FundingActions

LEMMA InstructionGates ==
  ASSUME NEW a \in InstructionCreatorActions \cup InstructionApproverActions, NEW s, NEW i,
         InstructionAllow(a, s, i)
  PROVE  /\ a \in InstructionCreatorActions => /\ "INSTRUCTION_CREATOR" \in s.roles
                                               /\ "MIDDLE_OFFICE" \in s.groups
         /\ a \in InstructionApproverActions => /\ "INSTRUCTION_APPROVER" \in s.roles
                                                /\ s.lob = i.lob /\ i.lob \in ProfitCenters
<1>1. /\ {"catalog_role_ok", "catalog_group_ok"} \subseteq InstructionRules[a]
      /\ a \in InstructionApproverActions =>
           {"same_lob", "valid_profit_center"} \subseteq InstructionRules[a]
  BY InstructionRulesAre DEF InstructionCreatorActions, InstructionApproverActions
<1>2. CatalogRoleOk(InstructionCatalog, a, s) /\ CatalogGroupOk(InstructionCatalog, a, s)
  BY <1>1, InstructionFacts DEF InstructionAllow
<1>3. a \in InstructionApproverActions => /\ InstructionFact("same_lob", a, s, i)
                                          /\ InstructionFact("valid_profit_center", a, s, i)
  BY <1>1 DEF InstructionAllow
<1>4. a \in InstructionApproverActions => s.lob = i.lob /\ i.lob \in ProfitCenters
  BY <1>3, InstructionFacts
<1> QED
  BY <1>2, <1>4, CreatorGate, ApproverGate DEF HasRole, IsMiddleOffice, InGroup

(* What the policy lets somebody do, the permission summary says.              *)
LEMMA AllowedIsCapable ==
  ASSUME NEW domain \in {"instruction", "payment"}, NEW a, NEW s, NEW d,
         domain = "instruction" => a \in InstructionCreatorActions \cup InstructionApproverActions,
         domain = "payment" => a \in PaymentActions /\ d \in PaymentDocs,
         Allow(domain, a, s, d)
  PROVE  CapabilityFor(domain, a) \in Capabilities(s)
<1>1. CASE domain = "instruction"
  <2>1. InstructionAllow(a, s, d)
    BY <1>1 DEF Allow
  <2>2. CASE a \in InstructionCreatorActions
    BY <1>1, <2>1, <2>2, InstructionGates DEF CapabilityFor, Capabilities
  <2>3. CASE a \notin InstructionCreatorActions
    BY <1>1, <2>1, <2>3, InstructionGates DEF CapabilityFor, Capabilities, ProfitCenters, Absent
  <2> QED
    BY <2>2, <2>3
<1>2. CASE domain = "payment"
  <2>1. PaymentAllow(a, s, d)
    BY <1>2 DEF Allow
  <2>2. CASE a \in FundingActions
    BY <1>2, <2>1, <2>2, PaymentGates DEF CapabilityFor, Capabilities, FundingActions
  <2>3. CASE a = "SUBMIT"
    BY <1>2, <2>1, <2>3, PaymentGates, DocumentsAssumption
       DEF CapabilityFor, Capabilities, FundingActions, PaymentCreatorActions
  <2>4. CASE a \in PaymentCreatorActions \ {"SUBMIT"}
    BY <1>2, <2>1, <2>4, PaymentGates
       DEF CapabilityFor, Capabilities, FundingActions, PaymentCreatorActions
  <2> QED
    BY <1>2, <2>2, <2>3, <2>4 DEF PaymentActions
<1> QED
  BY <1>1, <1>2

(* What the policy has let a caller do is among the capabilities the summary   *)
(* lists for the subject it was decided for.                                   *)
THEOREM CapabilitiesAreComplete == Spec => []CapabilitiesComplete
<1>1. Shapes /\ Decided(call) => CapabilitiesComplete
  <2> SUFFICES ASSUME Shapes, Decided(call), call.pc = "done", call.allowed,
                      call.action \notin ServiceActions \cup {"VIEW"}
               PROVE  CapabilityFor(call.domain, call.action) \in Capabilities(call.evaluated)
    BY DEF CapabilitiesComplete
  <2>1. /\ call.domain \in {"instruction", "payment"}
        /\ call.domain = "instruction" => call.action \in InstructionActions
        /\ call.domain = "payment" => call.action \in PaymentActions /\ call.doc \in PaymentDocs
    BY DEF Shapes, CallShape, CallIdle
  <2>2. Allow(call.domain, call.action, call.evaluated, call.doc)
    BY DEF Decided, Policy
  <2> QED
    BY <2>1, <2>2, AllowedIsCapable DEF InstructionActions
<1> QED
  BY <1>1, CallsAreDecided, PTL

-----------------------------------------------------------------------------
(* The age of a list *)

(* A copy of the directory asked for at a tick knows every profile that had    *)
(* changed before that tick.                                                   *)
Knows(users, asked) ==
  \A u \in User : changedAt[u] < asked => users[u] \in {zitadel[u], Missing}
Aged ==
  /\ clock \in Nat
  /\ changedAt \in [User -> Int] /\ \A u \in User : changedAt[u] <= clock
  /\ zitadel = [u \in User |-> zitadel[u]]
  /\ cache.at \in Int /\ cache.at <= clock /\ Knows(cache.users, cache.at)
  /\ listing.pc # "idle" => listing.asked \in Int /\ listing.asked <= clock
  /\ listing.pc = "fetch" => Knows(listing.seen, listing.asked)
  /\ EligibleIsFresh

LEMMA AgedInit == Init => Aged
BY DEF Init, Aged, Knows, NoCache, ListingIdle, EligibleIsFresh

(* A step that leaves the profiles and the list's copy alone.                  *)
LEMMA AgedOtherwise ==
  ASSUME Shapes, Aged, UNCHANGED <<zitadel, changedAt, clock, cache>>,
         listing'.pc # "idle" => /\ listing'.asked = listing.asked /\ listing'.seen = listing.seen
                                 /\ listing.pc # "idle"
                                 /\ listing'.pc = "fetch" => listing.pc = "fetch"
                                 /\ listing'.pc \in {"evaluate", "done"} =>
                                      listing.pc \in {"evaluate", "done"}
  PROVE  Aged'
BY DEF Aged, Knows, EligibleIsFresh

LEMMA AgedKept ==
  ASSUME Shapes, Aged, [Next]_vars
  PROVE  Aged'
<1> USE DirectoryAssumption
<1>1. ASSUME listing.pc # "idle" PROVE ListRequest(listing)
  BY <1>1 DEF Shapes, ListingShape, ListingIdle
<1>2. ASSUME NEW u \in User, ChangeProfile(u) PROVE Aged'
  <2>1. PICK p : zitadel' = [zitadel EXCEPT ![u] = p]
    BY <1>2 DEF ChangeProfile
  <2>2. changedAt' = [changedAt EXCEPT ![u] = clock] /\ UNCHANGED <<clock, cache, listing>>
    BY <1>2 DEF ChangeProfile
  <2>3. /\ zitadel' = [v \in User |-> zitadel'[v]] /\ changedAt' \in [User -> Int]
        /\ changedAt'[u] = clock
        /\ \A v \in User \ {u} : zitadel'[v] = zitadel[v] /\ changedAt'[v] = changedAt[v]
    BY <2>1, <2>2 DEF Aged
  <2>4. Knows(cache.users, cache.at)'
    BY <2>2, <2>3 DEF Aged, Knows
  <2>5. (listing.pc = "fetch" => Knows(listing.seen, listing.asked))'
    BY <2>2, <2>3 DEF Aged, Knows
  <2>6. EligibleIsFresh'
    <3> SUFFICES ASSUME listing.pc \in {"evaluate", "done"}, NEW v \in User,
                        changedAt'[v] <= listing.asked - TTL, changedAt'[v] < listing.asked
                 PROVE  listing.seen[v] \in {zitadel'[v], Missing}
      BY <2>2 DEF EligibleIsFresh
    <3>1. v # u
      BY <2>3 DEF Aged
    <3> QED
      BY <2>3, <3>1 DEF Aged, EligibleIsFresh
  <2> QED
    BY <2>2, <2>3, <2>4, <2>5, <2>6 DEF Aged
<1>3. CASE Tick
  BY <1>3 DEF Tick, Aged, Knows, EligibleIsFresh
<1>4. ASSUME NEW kind \in Kinds, AskList(kind) PROVE Aged'
  <2>1. UNCHANGED <<zitadel, changedAt, clock, cache>>
    BY <1>4 DEF AskList, dirVars
  <2>2. PICK d, said :
          listing' = IF Fresh THEN Evaluating(Fetching(kind, d, said), cache.users)
                              ELSE Fetching(kind, d, said)
    BY <1>4 DEF AskList
  <2>3. CASE Fresh
    <3>1. PICK left, k :
            listing' = [Fetching(kind, d, said) EXCEPT !.pc = "evaluate", !.seen = cache.users,
                          !.calm = k, !.left = left]
      BY <2>2, <2>3 DEF Evaluating
    <3>2. listing'.pc = "evaluate" /\ listing'.asked = clock /\ listing'.seen = cache.users
      BY <3>1 DEF Fetching
    <3>3. ASSUME NEW v \in User, changedAt[v] <= clock - TTL PROVE changedAt[v] < cache.at
      BY <2>3, <3>3 DEF Aged, Fresh
    <3>4. EligibleIsFresh'
      BY <2>1, <3>2, <3>3 DEF EligibleIsFresh, Aged, Knows
    <3> QED
      BY <2>1, <3>2, <3>4 DEF Aged, Knows
  <2>4. CASE ~Fresh
    <3>1. /\ listing'.pc = "fetch" /\ listing'.asked = clock
          /\ listing'.seen = [u \in User |-> Missing]
      BY <2>2, <2>4 DEF Fetching, NoCache
    <3> QED
      BY <2>1, <3>1 DEF Aged, Knows, EligibleIsFresh
  <2> QED
    BY <2>3, <2>4
<1>5. ASSUME NEW u \in User, FetchUser(u) PROVE Aged'
  <2>1. /\ listing.pc = "fetch" /\ ListRequest(listing)
        /\ UNCHANGED <<zitadel, changedAt, clock, cache>>
    BY <1>1, <1>5 DEF FetchUser
  <2>2. \/ listing' = [listing EXCEPT !.left = @ \ {u},
                         !.seen[u] = IF Complete(zitadel[u]) THEN zitadel[u] ELSE Missing]
        \/ listing' = [listing EXCEPT !.left = @ \ {u}]
    BY <1>5 DEF FetchUser
  <2>3. listing'.pc = "fetch" /\ listing'.asked = listing.asked
    BY <2>1, <2>2 DEF ListRequest, ListingFields
  <2>4. \/ listing'.seen = [listing.seen EXCEPT ![u] = IF Complete(zitadel[u]) THEN zitadel[u]
                                                                              ELSE Missing]
        \/ listing'.seen = listing.seen
    BY <2>1, <2>2 DEF ListRequest, ListingFields
  <2>5. \A v \in User : listing'.seen[v] = listing.seen[v]
                        \/ listing'.seen[v] \in {zitadel[v], Missing}
    BY <2>1, <2>4 DEF ListRequest
  <2>6. Knows(listing.seen, listing.asked)'
    BY <2>1, <2>3, <2>5 DEF Aged, Knows
  <2> QED
    BY <2>1, <2>3, <2>6 DEF Aged, Knows, EligibleIsFresh
<1>6. CASE FetchEnds
  <2>1. /\ listing.pc = "fetch" /\ ListRequest(listing)
        /\ UNCHANGED <<zitadel, changedAt, clock>>
    BY <1>1, <1>6 DEF FetchEnds
  <2>2. cache' = [at |-> listing.asked, users |-> listing.seen]
    BY <1>6 DEF FetchEnds, CachedAt
  <2>3. PICK left, k : listing' = [listing EXCEPT !.pc = "evaluate", !.seen = listing.seen,
                                     !.calm = k, !.left = left]
    BY <1>6 DEF FetchEnds, Evaluating
  <2>4. /\ listing'.pc = "evaluate" /\ listing'.asked = listing.asked
        /\ listing'.seen = listing.seen
    BY <2>1, <2>3 DEF ListRequest, ListingFields
  <2>5. Knows(listing.seen, listing.asked)
    BY <2>1 DEF Aged
  <2> QED
    BY <2>1, <2>2, <2>4, <2>5 DEF Aged, Knows, EligibleIsFresh
<1>7. ASSUME NEW u \in User, EvaluateCandidate(u) PROVE Aged'
  <2>1. /\ listing.pc = "evaluate" /\ ListRequest(listing)
        /\ UNCHANGED <<zitadel, changedAt, clock, cache>>
    BY <1>1, <1>7 DEF EvaluateCandidate, dirVars
  <2>2. PICK add : \/ listing' = [listing EXCEPT !.left = @ \ {u}, !.eligible = @ \cup add]
                   \/ listing' = [listing EXCEPT !.left = @ \ {u}, !.prospective = @ \cup add]
    BY <1>7 DEF EvaluateCandidate
  <2>3. listing'.pc = "evaluate" /\ listing'.asked = listing.asked /\ listing'.seen = listing.seen
    BY <2>1, <2>2 DEF ListRequest, ListingFields
  <2> QED
    BY <2>1, <2>3, AgedOtherwise
<1>8. CASE NextStage
  <2>1. /\ listing.pc = "evaluate" /\ ListRequest(listing)
        /\ UNCHANGED <<zitadel, changedAt, clock, cache>>
    BY <1>1, <1>8 DEF NextStage, dirVars
  <2>2. PICK left : \/ listing' = [listing EXCEPT !.stage = "prospective", !.left = left]
                    \/ listing' = [listing EXCEPT !.pc = "done"]
    BY <1>8 DEF NextStage
  <2>3. /\ listing'.pc \in {"evaluate", "done"} /\ listing'.asked = listing.asked
        /\ listing'.seen = listing.seen
    BY <2>1, <2>2 DEF ListRequest, ListingFields
  <2> QED
    BY <2>1, <2>3, AgedOtherwise
<1>9. CASE StoreStep
  <2>1. UNCHANGED <<zitadel, changedAt, clock, cache>>
    BY <1>9 DEF StoreStep, dirVars
  <2>2. CASE listing.pc = "idle"
    BY <1>9, <2>1, <2>2, AgedOtherwise
       DEF StoreStep, Disturbed, Shapes, ListingShape, ListingIdle, ListRequest
  <2>3. CASE listing.pc # "idle"
    <3>1. ListRequest(listing) /\ listing' = [listing EXCEPT !.calm = FALSE]
      BY <1>1, <1>9, <2>3 DEF StoreStep, Disturbed, ListRequest, ListingFields
    <3>2. /\ listing'.pc = listing.pc /\ listing'.asked = listing.asked
          /\ listing'.seen = listing.seen
      BY <3>1 DEF ListRequest, ListingFields
    <3> QED
      BY <2>1, <2>3, <3>2, AgedOtherwise
  <2> QED
    BY <2>2, <2>3
<1>10. CASE FetchFails \/ Return
  BY <1>10, AgedOtherwise DEF FetchFails, Return, ListingIdle, dirVars
<1>11. CASE UNCHANGED <<dirVars, listing>>
  BY <1>11, AgedOtherwise DEF dirVars
<1> QED
  BY <1>2, <1>3, <1>4, <1>5, <1>6, <1>7, <1>8, <1>9, <1>10, <1>11
     DEF Next, vars, CallInstruction, CallPayment, EnterConsoles, ResolveSubject, AskDecision,
         AskExplanation, AskIsAlert

(* A list is never computed from a profile changed TTL or longer before it was *)
(* asked for: the copy is dated by when it was asked for, not by when the last *)
(* user's metadata arrived.                                                    *)
THEOREM EligibleStaysFresh == Spec => []EligibleIsFresh
<1>1. Init => Shapes /\ Aged
  BY ShapesInit, AgedInit
<1>2. (Shapes /\ Aged) /\ [Next]_vars => (Shapes /\ Aged)'
  BY CallShapeKept, ListingShapeKept, CacheShapeKept, AgedKept DEF Shapes
<1>3. Aged => EligibleIsFresh
  BY DEF Aged
<1> QED
  BY <1>1, <1>2, <1>3, PTL DEF Spec

-----------------------------------------------------------------------------
(* Who is on a list *)

(* The document of the second list is of the same LOB as that of the first.    *)
LEMMA ProspectLob ==
  ASSUME NEW kind, NEW d, kind = "instruction approvers" => d \in InstructionDocs
  PROVE  Prospect(kind, d).lob = d.lob
BY DocumentsAssumption DEF Prospect

(* The search for candidates leaves out nobody the policy would let act.       *)
LEMMA AllowedAreCandidates ==
  ASSUME NEW l, l.kind \in Kinds, NEW d, NEW e, e.lob = d.lob
  PROVE  AllowedIn(l, e) \subseteq Candidates(l.kind, l.seen, d)
<1> SUFFICES ASSUME NEW u \in AllowedIn(l, e)
             PROVE  u \in Candidates(l.kind, l.seen, d)
  OBVIOUS
<1> DEFINE p == l.seen[u]
           s == Subject(u, p, {})
<1>1. /\ u \in User /\ p # Missing
      /\ Allow(DomainOf(l.kind), ActionOf(l.kind), s, e)
  BY DEF AllowedIn
<1>2. s.roles = p.roles /\ s.groups = p.groups /\ s.covers = p.covers /\ s.lob = p.lob
  BY DEF Subject
<1> HIDE DEF s
<1>3. CASE l.kind = "payment approvers"
  <2>1. PaymentAllow("APPROVE", s, e)
    BY <1>1, <1>3 DEF Allow, DomainOf, ActionOf
  <2>2. "FUNDING_APPROVER" \in s.roles /\ e.lob \in s.covers /\ "MIDDLE_OFFICE" \in s.groups
    BY <2>1, PaymentGates DEF PaymentActions, FundingActions
  <2>3. FundingCandidate(p, d.lob)
    BY <1>2, <2>2 DEF FundingCandidate
  <2> QED
    BY <1>1, <1>3, <2>3 DEF Candidates
<1>4. CASE l.kind = "payment submitters"
  <2>1. PaymentAllow("SUBMIT", s, e)
    BY <1>1, <1>4 DEF Allow, DomainOf, ActionOf
  <2>2. "PAYMENT_CREATOR" \in s.roles /\ s.lob = e.lob
    BY <2>1, PaymentGates DEF PaymentActions, PaymentCreatorActions
  <2>3. SubmitterCandidate(p, d.lob)
    BY <1>2, <2>2 DEF SubmitterCandidate
  <2> QED
    BY <1>1, <1>4, <2>3 DEF Candidates
<1>5. CASE l.kind = "instruction approvers"
  <2>1. InstructionAllow("APPROVE", s, e)
    BY <1>1, <1>5 DEF Allow, DomainOf, ActionOf
  <2>2. "INSTRUCTION_APPROVER" \in s.roles /\ s.lob = e.lob
    BY <2>1, InstructionGates DEF InstructionApproverActions
  <2>3. InstructionCandidate(p, d.lob)
    BY <1>2, <2>2 DEF InstructionCandidate
  <2> QED
    BY <1>1, <1>5, <2>3 DEF Candidates
<1> QED
  BY <1>3, <1>4, <1>5 DEF Kinds

(* A list under way, in the calm, holds whom the policy lets act but for those *)
(* it has not come to.                                                         *)
Asks(l) == Approvers(l.kind) \/ ~Blocked(l.kind, l.doc)
Sifted(l) ==
  /\ l.pc = "fetch" => ~l.calm
  /\ l.pc # "idle" /\ l.stage = "eligible" => l.prospective = {}
  /\ l.pc = "fetch" => l.stage = "eligible" /\ l.eligible = {}
  /\ l.pc = "evaluate" => \A u \in l.left : l.seen[u] # Missing
  /\ l.pc \in {"evaluate", "done"} /\ l.calm =>
       /\ loaded = PolicyFiles
       /\ Asks(l) /\ l.stage = "eligible" => l.eligible = AllowedIn(l, l.doc) \ l.left
       /\ Asks(l) /\ l.stage = "prospective" => l.eligible = AllowedIn(l, l.doc)
       /\ l.stage = "prospective" =>
            l.prospective = AllowedIn(l, Prospect(l.kind, l.doc)) \ l.left
  /\ l.pc = "done" => l.left = {} /\ (l.stage = "eligible" => ~HasProspect(l.kind, l.doc))

(* The evaluation begins with everybody on the way.                            *)
LEMMA SiftedFirst ==
  ASSUME NEW l, ListingFields(l), l.kind \in Kinds, l.stage = "eligible", l.eligible = {},
         l.prospective = {}, NEW users, listing' = Evaluating(l, users), UNCHANGED loaded
  PROVE  Sifted(listing)'
<1> DEFINE m == listing'
<1>1. /\ m.pc = "evaluate" /\ m.seen = users /\ m.calm = Settled
      /\ m.kind = l.kind /\ m.doc = l.doc /\ m.stage = "eligible" /\ m.eligible = {}
      /\ m.prospective = {}
      /\ m.left = IF ~Approvers(l.kind) /\ Blocked(l.kind, l.doc) THEN {}
                  ELSE Candidates(l.kind, users, l.doc)
  BY DEF Evaluating, ListingFields
<1>2. Asks(m) => m.left = Candidates(m.kind, m.seen, m.doc)
  BY <1>1 DEF Asks
<1>3. AllowedIn(m, m.doc) \subseteq Candidates(m.kind, m.seen, m.doc)
  BY <1>1, AllowedAreCandidates
<1>4. m.calm => loaded' = PolicyFiles
  BY <1>1 DEF Settled
<1>5. \A u \in m.left : m.seen[u] # Missing
  BY <1>1 DEF Candidates
<1> QED
  BY <1>1, <1>2, <1>3, <1>4, <1>5 DEF Sifted

LEMMA SiftedKept ==
  ASSUME ListingShape, Sifted(listing), [Next]_vars
  PROVE  Sifted(listing)'
<1>1. ASSUME listing.pc # "idle" PROVE ListRequest(listing)
  BY <1>1 DEF ListingShape, ListingIdle
<1>2. ASSUME NEW kind \in Kinds, AskList(kind) PROVE Sifted(listing)'
  <2>1. PICK d, said :
          listing' = IF Fresh THEN Evaluating(Fetching(kind, d, said), cache.users)
                              ELSE Fetching(kind, d, said)
    BY <1>2 DEF AskList
  <2> DEFINE l == Fetching(kind, d, said)
  <2>2. /\ ListingFields(l) /\ l.pc = "fetch" /\ l.kind \in Kinds /\ l.stage = "eligible"
        /\ l.eligible = {} /\ l.prospective = {} /\ l.calm = FALSE
    BY DEF Fetching, ListingFields
  <2>3. UNCHANGED loaded
    BY <1>2 DEF AskList, storeVars
  <2>4. CASE Fresh
    BY <2>1, <2>2, <2>3, <2>4, SiftedFirst
  <2>5. CASE ~Fresh
    <3>1. listing' = l
      BY <2>1, <2>5
    <3> HIDE DEF l
    <3> QED
      BY <2>2, <3>1 DEF Sifted
  <2> QED
    BY <2>4, <2>5
<1>3. ASSUME NEW u \in User, FetchUser(u) PROVE Sifted(listing)'
  <2>1. listing.pc = "fetch" /\ ListRequest(listing)
    BY <1>1, <1>3 DEF FetchUser
  <2>2. \/ listing' = [listing EXCEPT !.left = @ \ {u},
                         !.seen[u] = IF Complete(zitadel[u]) THEN zitadel[u] ELSE Missing]
        \/ listing' = [listing EXCEPT !.left = @ \ {u}]
    BY <1>3 DEF FetchUser
  <2>3. /\ listing'.pc = "fetch" /\ listing'.calm = listing.calm /\ listing'.stage = listing.stage
        /\ listing'.eligible = listing.eligible /\ listing'.prospective = listing.prospective
    BY <2>1, <2>2 DEF ListRequest, ListingFields
  <2> QED
    BY <2>1, <2>3 DEF Sifted
<1>4. CASE FetchEnds
  <2>1. listing.pc = "fetch" /\ ListRequest(listing) /\ UNCHANGED loaded
    BY <1>1, <1>4 DEF FetchEnds, storeVars
  <2>2. listing' = Evaluating(listing, listing.seen)
    BY <1>4 DEF FetchEnds
  <2> QED
    BY <2>1, <2>2, SiftedFirst DEF Sifted, ListRequest
<1>5. ASSUME NEW u \in User, EvaluateCandidate(u) PROVE Sifted(listing)'
  <2> DEFINE d == IF listing.stage = "eligible" THEN listing.doc
                                                ELSE Prospect(listing.kind, listing.doc)
             yes == AskAllow(DomainOf(listing.kind), ActionOf(listing.kind),
                             Subject(u, listing.seen[u], {}), d)
             add == IF yes THEN {u} ELSE {}
  <2>1. /\ listing.pc = "evaluate" /\ u \in listing.left /\ ListRequest(listing)
        /\ UNCHANGED loaded
    BY <1>1, <1>5 DEF EvaluateCandidate, IsNext, storeVars
  <2>2. listing' = IF listing.stage = "eligible"
                   THEN [listing EXCEPT !.left = @ \ {u}, !.eligible = @ \cup add]
                   ELSE [listing EXCEPT !.left = @ \ {u}, !.prospective = @ \cup add]
    BY <1>5 DEF EvaluateCandidate
  <2> HIDE DEF add
  <2>3. /\ listing'.pc = "evaluate" /\ listing'.kind = listing.kind /\ listing'.doc = listing.doc
        /\ listing'.seen = listing.seen /\ listing'.calm = listing.calm
        /\ listing'.stage = listing.stage /\ listing'.left = listing.left \ {u}
    BY <2>1, <2>2 DEF ListRequest, ListingFields
  <2>4. /\ listing.stage = "eligible" => /\ listing'.eligible = listing.eligible \cup add
                                         /\ listing'.prospective = listing.prospective
        /\ listing.stage = "prospective" =>
             /\ listing'.eligible = listing.eligible
             /\ listing'.prospective = listing.prospective \cup add
    BY <2>1, <2>2 DEF ListRequest, ListingFields
  <2>5. \A e : AllowedIn(listing', e) = AllowedIn(listing, e)
    BY <2>3 DEF AllowedIn
  <2>6. loaded = PolicyFiles => add = AllowedIn(listing, d) \cap {u}
    <3>0. u \in User /\ listing.seen[u] # Missing
      BY <2>1 DEF Sifted
    <3>1. DomainOf(listing.kind) \in {"instruction", "payment"}
      BY DEF DomainOf
    <3>2. loaded = PolicyFiles => Serves(File(DomainOf(listing.kind), "lifecycle"))
      BY <3>1, AllServed
    <3>3. loaded = PolicyFiles =>
            (yes <=> Allow(DomainOf(listing.kind), ActionOf(listing.kind),
                           Subject(u, listing.seen[u], {}), d))
      BY <3>2 DEF AskAllow
    <3>4. add = IF yes THEN {u} ELSE {}
      BY DEF add
    <3> HIDE DEF yes, d
    <3> QED
      BY <3>0, <3>3, <3>4 DEF AllowedIn
  <2> QED
    <3>1. Asks(listing') <=> Asks(listing)
      BY <2>3 DEF Asks
    <3>2. CASE listing.stage = "eligible"
      <4>1. d = listing.doc
        BY <3>2
      <4> HIDE DEF d
      <4> QED
        BY <2>1, <2>3, <2>4, <2>5, <2>6, <3>1, <3>2, <4>1 DEF Sifted
    <3>3. CASE listing.stage = "prospective"
      <4>1. d = Prospect(listing.kind, listing.doc)
        BY <3>3
      <4> HIDE DEF d
      <4> QED
        BY <2>1, <2>3, <2>4, <2>5, <2>6, <3>1, <3>3, <4>1 DEF Sifted
    <3> QED
      BY <2>1, <3>2, <3>3 DEF ListRequest
<1>6. CASE NextStage
  <2>1. /\ listing.pc = "evaluate" /\ listing.left = {} /\ ListRequest(listing)
        /\ UNCHANGED loaded
    BY <1>1, <1>6 DEF NextStage, storeVars
  <2>2. CASE listing.stage = "eligible" /\ HasProspect(listing.kind, listing.doc)
    <3> DEFINE found == Candidates(listing.kind, listing.seen, listing.doc)
    <3>1. listing' = [listing EXCEPT !.stage = "prospective", !.left = found]
      BY <1>6, <2>2 DEF NextStage
    <3>2. \A u \in found : listing.seen[u] # Missing
      BY DEF Candidates
    <3>3. AllowedIn(listing, Prospect(listing.kind, listing.doc)) \subseteq found
      BY <2>1, ProspectLob, AllowedAreCandidates DEF ListRequest
    <3> HIDE DEF found
    <3>4. /\ listing'.pc = "evaluate" /\ listing'.kind = listing.kind
          /\ listing'.doc = listing.doc /\ listing'.seen = listing.seen
          /\ listing'.calm = listing.calm /\ listing'.stage = "prospective"
          /\ listing'.left = found /\ listing'.eligible = listing.eligible
          /\ listing'.prospective = listing.prospective
      BY <2>1, <3>1 DEF ListRequest, ListingFields
    <3>5. /\ \A e : AllowedIn(listing', e) = AllowedIn(listing, e)
          /\ Asks(listing') <=> Asks(listing)
      BY <3>4 DEF AllowedIn, Asks
    <3> QED
      BY <2>1, <2>2, <3>2, <3>3, <3>4, <3>5 DEF Sifted
  <2>3. CASE ~(listing.stage = "eligible" /\ HasProspect(listing.kind, listing.doc))
    <3>1. listing' = [listing EXCEPT !.pc = "done"]
      BY <1>6, <2>3 DEF NextStage
    <3>2. /\ listing'.pc = "done" /\ listing'.kind = listing.kind
          /\ listing'.doc = listing.doc /\ listing'.seen = listing.seen
          /\ listing'.calm = listing.calm /\ listing'.stage = listing.stage
          /\ listing'.left = listing.left /\ listing'.eligible = listing.eligible
          /\ listing'.prospective = listing.prospective
      BY <2>1, <3>1 DEF ListRequest, ListingFields
    <3>3. /\ \A e : AllowedIn(listing', e) = AllowedIn(listing, e)
          /\ Asks(listing') <=> Asks(listing)
      BY <3>2 DEF AllowedIn, Asks
    <3> QED
      BY <2>1, <2>3, <3>2, <3>3 DEF Sifted
  <2> QED
    BY <2>2, <2>3
<1>7. CASE StoreStep
  <2>1. CASE listing.pc = "idle"
    BY <1>1, <1>7, <2>1 DEF StoreStep, Disturbed, ListingShape, ListingIdle, ListRequest, Sifted
  <2>2. CASE listing.pc # "idle"
    <3>1. ListRequest(listing) /\ listing' = [listing EXCEPT !.calm = FALSE]
      BY <1>1, <1>7, <2>2 DEF StoreStep, Disturbed, ListRequest, ListingFields
    <3>2. /\ listing'.pc = listing.pc /\ listing'.kind = listing.kind
          /\ listing'.doc = listing.doc /\ listing'.seen = listing.seen
          /\ listing'.calm = FALSE /\ listing'.stage = listing.stage
          /\ listing'.left = listing.left /\ listing'.eligible = listing.eligible
          /\ listing'.prospective = listing.prospective
      BY <3>1 DEF ListRequest, ListingFields
    <3> QED
      BY <2>2, <3>2 DEF Sifted
  <2> QED
    BY <2>1, <2>2
<1>8. CASE UNCHANGED <<listing, loaded>>
  BY <1>8 DEF Sifted, AllowedIn, Asks
<1>9. CASE listing' = ListingIdle
  BY <1>9 DEF Sifted, ListingIdle
<1> QED
  BY <1>2, <1>3, <1>4, <1>5, <1>6, <1>7, <1>8, <1>9
     DEF Next, vars, storeVars, dirVars, ChangeProfile, CallInstruction, CallPayment, EnterConsoles,
         Tick, ResolveSubject, AskDecision, AskExplanation, AskIsAlert, FetchFails, Return

(* A finished list, computed in the calm, is exactly everyone in the copy of   *)
(* the directory whom the policy lets act: searching by role and LOB first     *)
(* loses nobody, and neither does asking about one candidate at a time.        *)
THEOREM ListsAreExact == Spec => []EligibleAreAllowed
<1>1. Init => Shapes /\ Sifted(listing)
  BY ShapesInit DEF Init, ListingIdle, Sifted
<1>2. (Shapes /\ Sifted(listing)) /\ [Next]_vars => (Shapes /\ Sifted(listing))'
  BY CallShapeKept, ListingShapeKept, CacheShapeKept, SiftedKept DEF Shapes
<1>3. Shapes /\ Sifted(listing) => EligibleAreAllowed
  <2> SUFFICES ASSUME Shapes, Sifted(listing), listing.pc = "done", listing.calm
               PROVE  /\ Asks(listing) => listing.eligible = AllowedIn(listing, listing.doc)
                      /\ HasProspect(listing.kind, listing.doc) =>
                           listing.prospective =
                             AllowedIn(listing, Prospect(listing.kind, listing.doc))
    BY DEF EligibleAreAllowed, Asks
  <2>1. ListRequest(listing)
    BY DEF Shapes, ListingShape, ListingIdle
  <2> QED
    BY <2>1 DEF Sifted, ListRequest
<1> QED
  BY <1>1, <1>2, <1>3, PTL DEF Spec

-----------------------------------------------------------------------------
(* Reloading the policies *)

LEMMA PolicyFilesAre ==
  PolicyFiles =
     {"i/common", "i/approval_matrix", "i/lifecycle_rules", "i/violations",
      "i/allow_basis", "i/policy_catalog", "i/lifecycle", "i/policy_summary",
      "p/common", "p/amount_limits", "p/violations", "p/allow_basis",
      "p/policy_catalog", "p/lifecycle", "p/policy_summary",
      "i/view_lob_test", "p/covers_lob_test", "p/sod_test"}
<1>1. Range(PreferredUploadOrder) =
     {"i/common", "i/approval_matrix", "i/lifecycle_rules", "i/violations",
      "i/allow_basis", "i/policy_catalog", "i/lifecycle", "i/policy_summary",
      "p/common", "p/amount_limits", "p/violations", "p/allow_basis",
      "p/policy_catalog", "p/lifecycle", "p/policy_summary"}
  BY DEF Range, PreferredUploadOrder
<1>2. Range(TestFiles) = {"i/view_lob_test", "p/covers_lob_test", "p/sod_test"}
  BY DEF Range, TestFiles
<1> QED
  BY <1>1, <1>2 DEF PolicyFiles

LEMMA ConcatIs ==
  ASSUME NEW S, NEW s \in Seq(S), NEW t \in Seq(S)
  PROVE  /\ DOMAIN (s \o t) = 1 .. Len(s) + Len(t)
         /\ \A n \in 1 .. Len(s) : (s \o t)[n] = s[n]
         /\ \A n \in 1 .. Len(t) : (s \o t)[n + Len(s)] = t[n]
<1>1. s \o t \in Seq(S)
  OBVIOUS
<1>2. Len(s \o t) = Len(s) + Len(t)
  OBVIOUS
<1>3. DOMAIN (s \o t) = 1 .. Len(s) + Len(t)
  BY <1>1, <1>2
<1>4. \A n \in 1 .. Len(s) : (s \o t)[n] = s[n]
  OBVIOUS
<1>5. \A n \in 1 .. Len(t) : (s \o t)[n + Len(s)] = t[n]
  OBVIOUS
<1> QED
  BY <1>3, <1>4, <1>5

LEMMA TestsAre == TestFiles \in Seq(PolicyFiles) /\ Len(TestFiles) = 3
<1>1. TestFiles = [n \in 1 .. 3 |-> TestFiles[n]] /\ Len(TestFiles) = 3
  BY DEF TestFiles
<1>2. \A n \in 1 .. 3 : TestFiles[n] \in PolicyFiles
  BY DEF TestFiles, PolicyFiles, Range
<1> QED
  BY <1>1, <1>2

(* The files, one by one, at their places in the order of the uploads and of   *)
(* the deletions.                                                              *)
LEMMA UploadPlaces ==
  /\ DOMAIN UploadOrder = 1 .. 18
  /\ UploadOrder[1] = "i/common" /\ UploadOrder[2] = "i/approval_matrix"
  /\ UploadOrder[3] = "i/lifecycle_rules" /\ UploadOrder[4] = "i/violations"
  /\ UploadOrder[5] = "i/allow_basis" /\ UploadOrder[6] = "i/policy_catalog"
  /\ UploadOrder[7] = "i/lifecycle" /\ UploadOrder[8] = "i/policy_summary"
  /\ UploadOrder[9] = "p/common" /\ UploadOrder[10] = "p/amount_limits"
  /\ UploadOrder[11] = "p/violations" /\ UploadOrder[12] = "p/allow_basis"
  /\ UploadOrder[13] = "p/policy_catalog" /\ UploadOrder[14] = "p/lifecycle"
  /\ UploadOrder[15] = "p/policy_summary" /\ UploadOrder[16] = "i/view_lob_test"
  /\ UploadOrder[17] = "p/covers_lob_test" /\ UploadOrder[18] = "p/sod_test"
<1>1. PreferredUploadOrder = [n \in 1 .. 15 |-> PreferredUploadOrder[n]] /\ Len(PreferredUploadOrder) = 15
  BY DEF PreferredUploadOrder
<1>2. \A n \in 1 .. 15 : PreferredUploadOrder[n] \in PolicyFiles
  BY DEF PreferredUploadOrder, PolicyFiles, Range
<1>3. PreferredUploadOrder \in Seq(PolicyFiles) /\ TestFiles \in Seq(PolicyFiles)
  BY <1>1, <1>2, TestsAre
<1>4. /\ DOMAIN UploadOrder = 1 .. Len(PreferredUploadOrder) + Len(TestFiles)
      /\ \A n \in 1 .. Len(PreferredUploadOrder) : UploadOrder[n] = PreferredUploadOrder[n]
      /\ \A n \in 1 .. Len(TestFiles) : UploadOrder[n + Len(PreferredUploadOrder)] = TestFiles[n]
  BY <1>3, ConcatIs DEF UploadOrder
<1>5. Len(PreferredUploadOrder) = 15 /\ Len(TestFiles) = 3
  BY <1>1, TestsAre
<1>6. /\ DOMAIN UploadOrder = 1 .. 18
      /\ \A n \in 1 .. 15 : UploadOrder[n] = PreferredUploadOrder[n]
      /\ \A n \in 1 .. 3 : UploadOrder[n + 15] = TestFiles[n]
  BY ONLY <1>4, <1>5
<1>7. /\ UploadOrder[16] = TestFiles[1] /\ UploadOrder[17] = TestFiles[2]
      /\ UploadOrder[18] = TestFiles[3]
  BY <1>6
<1> QED
  BY <1>6, <1>7 DEF PreferredUploadOrder, TestFiles

LEMMA DeletePlaces ==
  /\ DOMAIN DeleteOrder = 1 .. 18
  /\ DeleteOrder[1] = "i/lifecycle" /\ DeleteOrder[2] = "i/policy_summary"
  /\ DeleteOrder[3] = "i/policy_catalog" /\ DeleteOrder[4] = "i/violations"
  /\ DeleteOrder[5] = "i/allow_basis" /\ DeleteOrder[6] = "i/lifecycle_rules"
  /\ DeleteOrder[7] = "i/approval_matrix" /\ DeleteOrder[8] = "i/common"
  /\ DeleteOrder[9] = "p/lifecycle" /\ DeleteOrder[10] = "p/policy_summary"
  /\ DeleteOrder[11] = "p/policy_catalog" /\ DeleteOrder[12] = "p/violations"
  /\ DeleteOrder[13] = "p/allow_basis" /\ DeleteOrder[14] = "p/amount_limits"
  /\ DeleteOrder[15] = "p/common" /\ DeleteOrder[16] = "i/view_lob_test"
  /\ DeleteOrder[17] = "p/covers_lob_test" /\ DeleteOrder[18] = "p/sod_test"
<1>1. PreferredDeleteOrder = [n \in 1 .. 15 |-> PreferredDeleteOrder[n]] /\ Len(PreferredDeleteOrder) = 15
  BY DEF PreferredDeleteOrder
<1>2. \A n \in 1 .. 15 : PreferredDeleteOrder[n] \in PolicyFiles
  BY PolicyFilesAre DEF PreferredDeleteOrder
<1>3. PreferredDeleteOrder \in Seq(PolicyFiles) /\ TestFiles \in Seq(PolicyFiles)
  BY <1>1, <1>2, TestsAre
<1>4. /\ DOMAIN DeleteOrder = 1 .. Len(PreferredDeleteOrder) + Len(TestFiles)
      /\ \A n \in 1 .. Len(PreferredDeleteOrder) : DeleteOrder[n] = PreferredDeleteOrder[n]
      /\ \A n \in 1 .. Len(TestFiles) : DeleteOrder[n + Len(PreferredDeleteOrder)] = TestFiles[n]
  BY <1>3, ConcatIs DEF DeleteOrder
<1>5. Len(PreferredDeleteOrder) = 15 /\ Len(TestFiles) = 3
  BY <1>1, TestsAre
<1>6. /\ DOMAIN DeleteOrder = 1 .. 18
      /\ \A n \in 1 .. 15 : DeleteOrder[n] = PreferredDeleteOrder[n]
      /\ \A n \in 1 .. 3 : DeleteOrder[n + 15] = TestFiles[n]
  BY ONLY <1>4, <1>5
<1>7. /\ DeleteOrder[16] = TestFiles[1] /\ DeleteOrder[17] = TestFiles[2]
      /\ DeleteOrder[18] = TestFiles[3]
  BY <1>6
<1> QED
  BY <1>6, <1>7 DEF PreferredDeleteOrder, TestFiles

(* The place of a file is where the order has it.                              *)
LEMMA PlaceIs ==
  ASSUME NEW order, NEW n \in DOMAIN order,
         \A j \in DOMAIN order : order[j] = order[n] => j = n
  PROVE  Place(order, order[n]) = n
BY DEF Place

LEMMA UploadPlacesAre ==
  /\ Place(UploadOrder, "i/common") = 1
  /\ Place(UploadOrder, "i/approval_matrix") = 2
  /\ Place(UploadOrder, "i/lifecycle_rules") = 3
  /\ Place(UploadOrder, "i/violations") = 4
  /\ Place(UploadOrder, "i/allow_basis") = 5
  /\ Place(UploadOrder, "i/policy_catalog") = 6
  /\ Place(UploadOrder, "i/lifecycle") = 7
  /\ Place(UploadOrder, "i/policy_summary") = 8
  /\ Place(UploadOrder, "p/common") = 9
  /\ Place(UploadOrder, "p/amount_limits") = 10
  /\ Place(UploadOrder, "p/violations") = 11
  /\ Place(UploadOrder, "p/allow_basis") = 12
  /\ Place(UploadOrder, "p/policy_catalog") = 13
  /\ Place(UploadOrder, "p/lifecycle") = 14
  /\ Place(UploadOrder, "p/policy_summary") = 15
  /\ Place(UploadOrder, "i/view_lob_test") = 16
  /\ Place(UploadOrder, "p/covers_lob_test") = 17
  /\ Place(UploadOrder, "p/sod_test") = 18
<1>1. DOMAIN UploadOrder = 1 .. 18
  BY UploadPlaces
<1>2. \A n, j \in 1 .. 18 : UploadOrder[j] = UploadOrder[n] => j = n
  BY UploadPlaces
<1>3. \A n \in 1 .. 18 : Place(UploadOrder, UploadOrder[n]) = n
  BY <1>1, <1>2, PlaceIs
<1> QED
  BY <1>3, UploadPlaces

LEMMA DeletePlacesAre ==
  /\ Place(DeleteOrder, "i/lifecycle") = 1
  /\ Place(DeleteOrder, "i/policy_summary") = 2
  /\ Place(DeleteOrder, "i/policy_catalog") = 3
  /\ Place(DeleteOrder, "i/violations") = 4
  /\ Place(DeleteOrder, "i/allow_basis") = 5
  /\ Place(DeleteOrder, "i/lifecycle_rules") = 6
  /\ Place(DeleteOrder, "i/approval_matrix") = 7
  /\ Place(DeleteOrder, "i/common") = 8
  /\ Place(DeleteOrder, "p/lifecycle") = 9
  /\ Place(DeleteOrder, "p/policy_summary") = 10
  /\ Place(DeleteOrder, "p/policy_catalog") = 11
  /\ Place(DeleteOrder, "p/violations") = 12
  /\ Place(DeleteOrder, "p/allow_basis") = 13
  /\ Place(DeleteOrder, "p/amount_limits") = 14
  /\ Place(DeleteOrder, "p/common") = 15
  /\ Place(DeleteOrder, "i/view_lob_test") = 16
  /\ Place(DeleteOrder, "p/covers_lob_test") = 17
  /\ Place(DeleteOrder, "p/sod_test") = 18
<1>1. DOMAIN DeleteOrder = 1 .. 18
  BY DeletePlaces
<1>2. \A n, j \in 1 .. 18 : DeleteOrder[j] = DeleteOrder[n] => j = n
  BY DeletePlaces
<1>3. \A n \in 1 .. 18 : Place(DeleteOrder, DeleteOrder[n]) = n
  BY <1>1, <1>2, PlaceIs
<1> QED
  BY <1>3, DeletePlaces

(* What nothing refers to, and the two tests that refer to what decides.       *)
Leaves == {"i/policy_summary", "p/policy_summary", "i/allow_basis", "p/allow_basis"}
DecisionTests == {"i/view_lob_test", "p/sod_test"}
Deciding == {"i/lifecycle", "i/violations", "p/lifecycle", "p/violations"}
Final == {"p/policy_summary", "i/view_lob_test", "p/covers_lob_test", "p/sod_test"}

LEMMA UsesComeFirst ==
  ASSUME NEW f \in PolicyFiles, NEW g \in Uses(f)
  PROVE  g \in PolicyFiles /\ Place(UploadOrder, g) < Place(UploadOrder, f)
BY PolicyFilesAre, UploadPlacesAre DEF Uses

LEMMA LeavesAreUnused ==
  ASSUME NEW f PROVE Uses(f) \cap Leaves = {}
BY DEF Uses, Leaves

LEMMA TestsUse ==
  ASSUME NEW files, Compiles(files), DecisionTests \subseteq files
  PROVE  Deciding \subseteq files
<1>1. /\ Uses("i/view_lob_test") = {"i/lifecycle", "i/violations"}
      /\ Uses("p/sod_test") = {"p/lifecycle", "p/violations"}
  BY DEF Uses
<1> QED
  BY <1>1 DEF Compiles, DecisionTests, Deciding

(* A deletion that keeps what refers to the file from compiling is refused, so *)
(* a leaf goes and anything else may stay; whatever is asked for in the order  *)
(* of the uploads compiles.                                                    *)
LEMMA LeafGoes ==
  ASSUME NEW files, Compiles(files), NEW f \in Leaves
  PROVE  Compiles(files \ {f})
BY LeavesAreUnused DEF Compiles

LEMMA NextCompiles ==
  ASSUME NEW queue \in SUBSET PolicyFiles, Compiles(PolicyFiles \ queue),
         NEW f \in Foremost(UploadOrder, queue)
  PROVE  /\ f \in queue /\ Compiles((PolicyFiles \ queue) \cup {f})
         /\ (PolicyFiles \ queue) \cup {f} = PolicyFiles \ (queue \ {f})
<1>1. f \in queue /\ \A g \in queue : Place(UploadOrder, f) <= Place(UploadOrder, g)
  BY DEF Foremost
<1>2. \A g \in PolicyFiles : Place(UploadOrder, g) \in Nat
  BY PolicyFilesAre, UploadPlacesAre
<1>3. Uses(f) \subseteq PolicyFiles \ queue
  BY <1>1, <1>2, UsesComeFirst
<1> QED
  BY <1>1, <1>3 DEF Compiles

LEMMA FilesAreFinite ==
  /\ IsFiniteSet(PolicyFiles) /\ Cardinality(PolicyFiles) <= 18
  /\ \A files \in SUBSET PolicyFiles : IsFiniteSet(files)
<1>1. IsFiniteSet(1 .. 18) /\ Cardinality(1 .. 18) = 18
  <2>1. 1 \in Int /\ 18 \in Int /\ 18 - 1 + 1 = 18 /\ ~(1 > 18)
    OBVIOUS
  <2> QED
    BY <2>1, FS_Interval
<1> DEFINE at == [n \in 1 .. 18 |-> UploadOrder[n]]
<1>2. at \in Surjection(1 .. 18, PolicyFiles)
  BY PolicyFilesAre, UploadPlaces DEF Surjection
<1> HIDE DEF at
<1>3. IsFiniteSet(PolicyFiles) /\ Cardinality(PolicyFiles) <= 18
  BY <1>1, <1>2, FS_Surjection
<1> QED
  BY <1>3, FS_Subset

(* More than three files short, the services do not report healthy.            *)
LEMMA FourMissing ==
  ASSUME NEW files, NEW a \in PolicyFiles, NEW b \in PolicyFiles, NEW c \in PolicyFiles,
         NEW d \in PolicyFiles, Cardinality({a, b, c, d}) = 4,
         files \subseteq PolicyFiles \ {a, b, c, d}
  PROVE  IsFiniteSet(files) /\ Cardinality(files) \in Nat /\ Cardinality(files) <= 14
<1>3. IsFiniteSet(PolicyFiles) /\ Cardinality(PolicyFiles) <= 18
  BY FilesAreFinite
<1>4. /\ IsFiniteSet(PolicyFiles \ {a, b, c, d})
      /\ Cardinality(PolicyFiles \ {a, b, c, d})
           = Cardinality(PolicyFiles) - Cardinality(PolicyFiles \cap {a, b, c, d})
  BY <1>3, FS_Difference
<1>5. PolicyFiles \cap {a, b, c, d} = {a, b, c, d}
  OBVIOUS
<1>6. IsFiniteSet(files) /\ Cardinality(files) <= Cardinality(PolicyFiles \ {a, b, c, d})
  BY <1>4, FS_Subset
<1>7. Cardinality(PolicyFiles) \in Nat /\ Cardinality(files) \in Nat
  BY <1>3, <1>6, FS_CardinalityType
<1> QED
  BY <1>3, <1>4, <1>5, <1>6, <1>7

LEMMA FourLeaves ==
  /\ Leaves \subseteq PolicyFiles /\ Cardinality(Leaves) = 4
  /\ Final \subseteq PolicyFiles /\ Cardinality(Final) = 4
<1>1. ASSUME NEW a, NEW b, NEW c, NEW d, a # b, a # c, a # d, b # c, b # d, c # d
      PROVE  Cardinality({a, b, c, d}) = 4
  <2>1. IsFiniteSet({}) /\ Cardinality({}) = 0
    BY FS_EmptySet
  <2>2. IsFiniteSet({a}) /\ Cardinality({a}) = 1
    BY FS_Singleton
  <2>3. IsFiniteSet({a, b}) /\ Cardinality({a, b}) = 2
    <3>1. {a, b} = {a} \cup {b}
      OBVIOUS
    <3> QED
      BY <1>1, <2>2, <3>1, FS_AddElement
  <2>4. IsFiniteSet({a, b, c}) /\ Cardinality({a, b, c}) = 3
    <3>1. {a, b, c} = {a, b} \cup {c}
      OBVIOUS
    <3> QED
      BY <1>1, <2>3, <3>1, FS_AddElement
  <2>5. {a, b, c, d} = {a, b, c} \cup {d}
    OBVIOUS
  <2> QED
    BY <1>1, <2>4, <2>5, FS_AddElement
<1> QED
  BY <1>1, PolicyFilesAre DEF Leaves, Final

(* Clearing: either few files are left, or this is the pass in which the tests *)
(* of the decisions are still to come, and every leaf that is loaded too: a    *)
(* pass comes to the tests last, and then no leaf is left.                     *)
Few == Cardinality(loaded) <= 14
FirstPass ==
  /\ DecisionTests \subseteq loaded \cap upload.queue
  /\ Leaves \cap loaded \subseteq upload.queue
(* Uploading: what decides comes before the last files.                        *)
LastToCome ==
  /\ Deciding \cap upload.queue # {} => "p/lifecycle" \in upload.queue
  /\ "p/lifecycle" \in upload.queue => Final \subseteq upload.queue
Answered ==
  /\ upload.pc \in {"idle", "done"} => loaded = PolicyFiles
  /\ upload.pc = "failed" => Few
  /\ upload.pc = "clear" => upload.left = loaded /\ (Few \/ FirstPass)
  /\ upload.pc = "upload" =>
       /\ loaded = PolicyFiles \ upload.queue /\ upload.errors = 0 /\ LastToCome
Reload ==
  /\ faults \in Nat /\ loaded \subseteq PolicyFiles /\ Compiles(loaded)
  /\ upload = [pc |-> upload.pc, left |-> upload.left, queue |-> upload.queue,
               moved |-> upload.moved, attempt |-> upload.attempt, errors |-> upload.errors,
               refused |-> upload.refused]
  /\ upload.pc \in {"idle", "clear", "upload", "done", "failed"}
  /\ upload.queue \subseteq PolicyFiles /\ upload.left \subseteq PolicyFiles
  /\ faults = 0 => Answered

LEMMA ReloadInit == Init => Reload
<1>1. ASSUME Init PROVE loaded = PolicyFiles /\ upload = UploadIdle /\ faults = 0
  BY <1>1 DEF Init, StoreInit
<1>2. Compiles(PolicyFiles)
  BY UsesComeFirst DEF Compiles
<1> QED
  BY <1>1, <1>2 DEF Reload, Answered, UploadIdle

(* One action of the script or of OPA at a time.                               *)
LEMMA StartKeepsReload ==
  ASSUME Reload, StartUpload PROVE Reload'
<1>1. /\ loaded' = loaded /\ faults' = faults
      /\ IF loaded = {} THEN upload' = BeginAttempt([UploadIdle EXCEPT !.left = loaded], 1)
         ELSE upload' = [UploadIdle EXCEPT !.left = loaded, !.pc = "clear", !.queue = loaded]
  BY DEF StartUpload, UploadIdle
<1>2. CASE loaded = {}
  <2>1. upload' = [pc |-> "upload", left |-> {}, queue |-> PolicyFiles, moved |-> FALSE,
                   attempt |-> 1, errors |-> 0, refused |-> {}]
    BY <1>1, <1>2 DEF BeginAttempt, UploadIdle
  <2>2. LastToCome'
    BY <2>1, PolicyFilesAre DEF LastToCome, Final
  <2> QED
    BY <1>1, <1>2, <2>1, <2>2 DEF Reload, Answered
<1>3. CASE loaded # {}
  <2>1. upload' = [pc |-> "clear", left |-> loaded, queue |-> loaded, moved |-> FALSE,
                   attempt |-> 0, errors |-> 0, refused |-> {}]
    BY <1>1, <1>3 DEF UploadIdle
  <2>2. faults = 0 => (Few \/ FirstPass)'
    <3>1. CASE upload.pc = "failed"
      BY <1>1, <3>1 DEF Reload, Answered, Few
    <3>2. CASE loaded = PolicyFiles
      BY <1>1, <2>1, <3>2, PolicyFilesAre DEF FirstPass, DecisionTests
    <3> QED
      BY <3>1, <3>2 DEF Reload, Answered, StartUpload, Uploading
  <2> QED
    BY <1>1, <2>1, <2>2 DEF Reload, Answered
<1> QED
  BY <1>2, <1>3

LEMMA DeleteKeepsReload ==
  ASSUME Reload, DeletePolicy PROVE Reload'
<1>1. PICK f \in Foremost(DeleteOrder, upload.queue) :
        /\ loaded' = IF Compiles(loaded \ {f}) THEN loaded \ {f} ELSE loaded
        /\ upload' = [upload EXCEPT !.queue = @ \ {f},
                        !.left = IF Compiles(loaded \ {f}) THEN @ \ {f} ELSE @,
                        !.moved = @ \/ Compiles(loaded \ {f})]
  BY DEF DeletePolicy
<1>2. upload.pc = "clear" /\ faults' = faults
  BY DEF DeletePolicy
<1>3. /\ upload' = [pc |-> "clear", left |-> upload'.left, queue |-> upload.queue \ {f},
                    moved |-> upload'.moved, attempt |-> upload.attempt,
                    errors |-> upload.errors, refused |-> upload.refused]
      /\ upload.left = loaded => upload'.left = loaded'
      /\ upload'.left \subseteq upload.left
  BY <1>1, <1>2 DEF Reload
<1>4. Compiles(loaded') /\ loaded' \subseteq loaded /\ (f \in Leaves => f \notin loaded')
      /\ loaded \ {f} \subseteq loaded'
  BY <1>1, LeafGoes DEF Reload
<1>5. Few => Few'
  <2>1. IsFiniteSet(loaded)
    BY FilesAreFinite DEF Reload
  <2>2. Cardinality(loaded') <= Cardinality(loaded)
    BY <1>4, <2>1, FS_Subset
  <2>3. Cardinality(loaded') \in Nat /\ Cardinality(loaded) \in Nat
    BY <1>4, <2>1, FS_Subset, FS_CardinalityType
  <2> QED
    BY <2>2, <2>3 DEF Few
<1>6. FirstPass => (Few \/ FirstPass)'
  <2> SUFFICES ASSUME FirstPass PROVE (Few \/ FirstPass)'
    OBVIOUS
  <2>1. CASE f \in DecisionTests
    <3>1. Leaves \cap upload.queue = {}
      BY <1>1, <2>1, DeletePlacesAre DEF Foremost, Leaves, DecisionTests
    <3>2. loaded' \subseteq PolicyFiles \ Leaves
      BY <1>4, <3>1 DEF FirstPass, Reload
    <3> QED
      BY <3>2, FourLeaves, FourMissing DEF Few, Leaves
  <2>2. CASE f \notin DecisionTests
    BY <1>3, <1>4, <2>2 DEF FirstPass
  <2> QED
    BY <2>1, <2>2
<1> QED
  BY <1>2, <1>3, <1>4, <1>5, <1>6 DEF Reload, Answered

LEMMA EndPassKeepsReload ==
  ASSUME Reload, EndPass PROVE Reload'
<1>1. /\ loaded' = loaded /\ faults' = faults /\ upload.pc = "clear" /\ upload.queue = {}
      /\ upload' = IF upload.left = {} THEN BeginAttempt(upload, 1)
               ELSE IF upload.moved
                    THEN [upload EXCEPT !.queue = upload.left, !.moved = FALSE]
                    ELSE [upload EXCEPT !.pc = "failed"]
  BY DEF EndPass
<1>2. Few' <=> Few
  BY <1>1 DEF Few
<1>3. faults = 0 => Few /\ upload.left = loaded
  BY <1>1 DEF Reload, Answered, FirstPass, DecisionTests
<1>4. CASE upload.left = {}
  <2>1. upload' = [pc |-> "upload", left |-> {}, queue |-> PolicyFiles, moved |-> upload.moved,
                   attempt |-> 1, errors |-> 0, refused |-> upload.refused]
    BY <1>1, <1>4 DEF BeginAttempt, Reload
  <2>2. LastToCome'
    BY <2>1, PolicyFilesAre DEF LastToCome, Final
  <2> QED
    BY <1>1, <1>3, <1>4, <2>1, <2>2 DEF Reload, Answered
<1>5. CASE upload.left # {}
  <2>1. /\ upload'.pc \in {"clear", "failed"} /\ upload'.left = upload.left
        /\ upload'.queue \subseteq PolicyFiles
        /\ upload' = [pc |-> upload'.pc, left |-> upload'.left, queue |-> upload'.queue,
                      moved |-> upload'.moved, attempt |-> upload'.attempt,
                      errors |-> upload'.errors, refused |-> upload'.refused]
    BY <1>1, <1>5 DEF Reload
  <2> QED
    BY <1>1, <1>2, <1>3, <2>1 DEF Reload, Answered
<1> QED
  BY <1>4, <1>5

LEMMA UploadKeepsReload ==
  ASSUME Reload, UploadPolicy PROVE Reload'
<1>1. PICK f \in Foremost(UploadOrder, upload.queue) :
        /\ loaded' = IF Compiles(loaded \cup {f}) THEN loaded \cup {f} ELSE loaded
        /\ upload' = [upload EXCEPT !.queue = @ \ {f},
                        !.errors = IF Compiles(loaded \cup {f}) THEN @ ELSE @ + 1,
                        !.refused = IF Compiles(loaded \cup {f}) THEN @ ELSE @ \cup {f}]
  BY DEF UploadPolicy
<1>2. upload.pc = "upload" /\ faults' = faults
  BY DEF UploadPolicy
<1>3. /\ upload' = [pc |-> "upload", left |-> upload.left, queue |-> upload.queue \ {f},
                    moved |-> upload.moved, attempt |-> upload.attempt,
                    errors |-> upload'.errors, refused |-> upload'.refused]
      /\ Compiles(loaded \cup {f}) => upload'.errors = upload.errors
  BY <1>1, <1>2 DEF Reload
<1>4. Compiles(loaded')
  BY <1>1 DEF Reload
<1>5. loaded' \subseteq PolicyFiles
  BY <1>1 DEF Reload, Foremost
<1>6. faults = 0 => Answered'
  <2> SUFFICES ASSUME faults = 0 PROVE Answered'
    OBVIOUS
  <2>1. /\ upload.queue \in SUBSET PolicyFiles /\ loaded = PolicyFiles \ upload.queue
        /\ upload.errors = 0 /\ LastToCome
    BY <1>2 DEF Reload, Answered
  <2>2. f \in upload.queue /\ Compiles(loaded \cup {f})
        /\ loaded \cup {f} = PolicyFiles \ (upload.queue \ {f})
    BY <1>1, <2>1, NextCompiles DEF Reload
  <2>3. LastToCome'
    <3>1. \A g \in upload.queue : Place(UploadOrder, f) <= Place(UploadOrder, g)
      BY <1>1 DEF Foremost
    <3>2. f = "p/lifecycle" => Deciding \cap upload.queue \subseteq {f}
      BY <3>1, UploadPlacesAre DEF Deciding
    <3>3. f \in Final => "p/lifecycle" \notin upload.queue
      BY <3>1, UploadPlacesAre DEF Final
    <3> QED
      BY <1>3, <2>1, <3>2, <3>3 DEF LastToCome
  <2> QED
    BY <1>1, <1>3, <2>1, <2>2, <2>3 DEF Answered
<1> QED
  BY <1>2, <1>3, <1>4, <1>5, <1>6 DEF Reload

LEMMA EndAttemptKeepsReload ==
  ASSUME Reload, EndAttempt PROVE Reload'
<1>1. /\ loaded' = loaded /\ faults' = faults /\ upload.pc = "upload" /\ upload.queue = {}
      /\ upload' = IF upload.errors = 0 THEN [upload EXCEPT !.pc = "done"]
               ELSE IF upload.attempt < UploadRetries
                    THEN BeginAttempt(upload, upload.attempt + 1)
               ELSE [upload EXCEPT !.pc = "failed"]
  BY DEF EndAttempt
<1>2. CASE upload.errors = 0
  <2>1. upload' = [upload EXCEPT !.pc = "done"]
    BY <1>1, <1>2
  <2> QED
    BY <1>1, <2>1 DEF Reload, Answered
<1>3. CASE upload.errors # 0
  <2>1. faults # 0
    BY <1>1, <1>3 DEF Reload, Answered
  <2>2. /\ upload' = [pc |-> upload'.pc, left |-> upload'.left, queue |-> upload'.queue,
                       moved |-> upload'.moved, attempt |-> upload'.attempt,
                       errors |-> upload'.errors, refused |-> upload'.refused]
        /\ upload'.pc \in {"upload", "failed"}
        /\ upload'.queue \subseteq PolicyFiles /\ upload'.left = upload.left
    BY <1>1, <1>3 DEF Reload, BeginAttempt
  <2> QED
    BY <1>1, <2>1, <2>2 DEF Reload
<1> QED
  BY <1>2, <1>3

LEMMA FaultKeepsReload ==
  ASSUME Reload, RequestFails PROVE Reload'
<1>1. loaded' = loaded /\ faults' # 0 /\ faults' \in Nat
  <2>1. faults \in Nat
    BY DEF Reload
  <2>2. faults' = faults + 1 /\ loaded' = loaded
    BY DEF RequestFails
  <2> QED
    BY <2>1, <2>2
<1>2. \/ upload' = [upload EXCEPT !.pc = "failed"]
      \/ \E f : upload' = [upload EXCEPT !.queue = @ \ {f}, !.errors = @ + 1]
  BY DEF RequestFails
<1>3. /\ upload' = [pc |-> upload'.pc, left |-> upload'.left, queue |-> upload'.queue,
                     moved |-> upload'.moved, attempt |-> upload'.attempt,
                     errors |-> upload'.errors, refused |-> upload'.refused]
      /\ upload'.pc \in {"failed", upload.pc}
      /\ upload'.queue \subseteq upload.queue /\ upload'.left = upload.left
  BY <1>2 DEF Reload
<1> QED
  BY <1>1, <1>3 DEF Reload

LEMMA RestartKeepsReload ==
  ASSUME Reload, OpaRestart PROVE Reload'
<1>1. loaded' = PolicyFiles /\ upload' = UploadIdle /\ faults' = faults
  BY DEF OpaRestart
<1>2. Compiles(PolicyFiles)
  BY UsesComeFirst DEF Compiles
<1> QED
  BY <1>1, <1>2 DEF Reload, Answered, UploadIdle

LEMMA ReloadKept ==
  ASSUME Reload, [Next]_vars PROVE Reload'
<1>1. CASE StoreStep
  BY <1>1, StartKeepsReload, DeleteKeepsReload, EndPassKeepsReload, UploadKeepsReload,
     EndAttemptKeepsReload, FaultKeepsReload, RestartKeepsReload DEF StoreStep, ScriptStep
<1>2. CASE UNCHANGED storeVars
  BY <1>2 DEF storeVars, Reload, Answered, Few, FirstPass, LastToCome
<1>3. StoreStep \/ UNCHANGED storeVars
  BY DEF Next, vars, ChangeProfile, CallInstruction, CallPayment, EnterConsoles, FetchUser,
         EvaluateCandidate, AskList, Tick, ResolveSubject, AskDecision, AskExplanation,
         AskIsAlert, FetchEnds, FetchFails, NextStage, Return
<1> QED
  BY <1>1, <1>2, <1>3

(* As long as OPA answers the script, a service that reports healthy has the   *)
(* decisions and the violations of both packages.                              *)
LEMMA HealthyHasDeciding == Reload => HealthyDecides
<1> SUFFICES ASSUME Reload, faults = 0, Cardinality(loaded) >= 15
             PROVE  Deciding \subseteq loaded
  BY DEF HealthyDecides, PolicyHealth, Serves, Deciding
<1>1. ~Few
  <2>1. Cardinality(loaded) \in Nat
    BY FilesAreFinite, FS_CardinalityType DEF Reload
  <2> QED
    BY <2>1 DEF Few
<1>2. CASE upload.pc = "clear"
  BY <1>1, <1>2, TestsUse DEF Reload, Answered, FirstPass
<1>3. CASE upload.pc = "upload"
  <2>1. loaded = PolicyFiles \ upload.queue /\ LastToCome
    BY <1>3 DEF Reload, Answered
  <2>2. ASSUME "p/lifecycle" \in upload.queue PROVE FALSE
    <3>1. loaded \subseteq PolicyFiles \ Final
      BY <2>1, <2>2 DEF LastToCome
    <3> QED
      BY <1>1, <3>1, FourLeaves, FourMissing DEF Few, Final
  <2>3. Deciding \subseteq PolicyFiles
    BY PolicyFilesAre DEF Deciding
  <2> QED
    BY <2>1, <2>2, <2>3 DEF LastToCome
<1>4. CASE loaded = PolicyFiles
  BY <1>4, PolicyFilesAre DEF Deciding
<1> QED
  BY <1>1, <1>2, <1>3, <1>4 DEF Reload, Answered

(* As long as OPA answers every request of the script, a service that reports  *)
(* healthy has the decisions and the violations of both packages, at whatever  *)
(* point a reload is.                                                          *)
THEOREM HealthyServicesDecide == Spec => []HealthyDecides
<1>1. Reload /\ [Next]_vars => Reload'
  BY ReloadKept
<1> QED
  BY ReloadInit, <1>1, HealthyHasDeciding, PTL DEF Spec
=============================================================================
