---------------------------- MODULE Authorization ----------------------------
(* The authorization-service between the identity provider and OPA: it turns   *)
(* the tokens of a call into a subject, asks OPA for the decision and for what *)
(* explains it in separate requests, and lists who could approve or submit     *)
(* from a cached copy of the user directory.  Profiles change and policies are *)
(* reloaded (PolicyStore) between any two of these requests.                   *)
EXTENDS Identity, PolicyStore, Integers

CONSTANTS
  Profiles,         \* [user -> the profiles the directory may give the user, in order]
  InstructionDocs, PaymentDocs,   \* documents the services ask about
  TTL,              \* user_directory_cache_ttl_seconds, in ticks
  MaxClock,         \* bound: ticks
  MaxChanges,       \* bound: profile changes
  ReloadActions,    \* bound: the actions asked about while policies are reloaded
  MaxSkips          \* bound: metadata requests that fail during a fetch

ASSUME DirectoryAssumption == TTL \in Nat /\ MaxClock \in Nat

(* An instruction has a status and a LOB; that of a payment is the LOB of its  *)
(* instruction, which is never absent.                                         *)
ASSUME DocumentsAssumption ==
  /\ \A i \in InstructionDocs : {"status", "lob"} \subseteq DOMAIN i
  /\ \A d \in PaymentDocs : d.lob # Absent

VARIABLES
  zitadel,   \* the live profile of every user
  changedAt, \* ghost: when it last changed (-1: never)
  changes, skips,  \* the bounds' counters
  clock,
  cache,     \* DirectoryCache: [at, users], users absent from the copy map to Missing
  call,      \* the evaluate request in flight, see CallIdle
  listing    \* the eligibility request in flight, see ListingIdle

dirVars == <<zitadel, changedAt, changes, skips, clock, cache>>
vars == <<dirVars, call, listing, storeVars>>

User == DOMAIN Profiles
Settled == ~Uploading /\ loaded = PolicyFiles
Missing == [missing |-> TRUE]
NoCache == [at |-> -1, users |-> [u \in User |-> Missing]]

(* The tokens a user's request may come with: issued before the run, or live.  *)
Tokens(u) == {[user |-> u, kind |-> k, claim |-> Profiles[u][1]] :
                k \in {"signed", "opaque", "foreign", "stray"}}

(* The roles of the service that calls on the user's behalf: the harness's     *)
(* (svc-chat) or the payment-service's.  Both are authorized_service_user_ids. *)
ServiceRoles == [harness |-> {}, payment |-> {"INSTRUCTION_MARKER"}]

(* get_subject of the two services, which only take service and user tokens    *)
(* together (AUTH_MODE jwt).                                                   *)
GetInstructionSubject(t, service) == OnBehalf(InstructionSubject(t, zitadel), ServiceRoles[service])
GetPaymentSubject(t, service) == OnBehalf(PaymentSubject(t, zitadel), ServiceRoles[service])

(* Faulty variant: the roles are not compared.                                 *)
SameIdentity_NoRoles(s, t) ==
  [s EXCEPT !.delegates = {}, !.roles = {}] = [t EXCEPT !.delegates = {}, !.roles = {}]

(* Whether the token still resolves to the subject resolved before.            *)
SameIdentity(s, t) == [s EXCEPT !.delegates = {}] = [t EXCEPT !.delegates = {}]

(* Bound: a run has a moving directory or a moving policy, not both; neither   *)
(* is read where the other is written.  An evaluate request reads neither the  *)
(* clock nor the cache: it is asked before either has moved.                   *)
Quiet == upload = UploadIdle
StillDirectory == changes = 0 /\ skips = 0 /\ clock = 0 /\ listing.pc # "fetch"
StartOfTime == clock = 0 /\ cache = NoCache

(*************************** The user directory *****************************)
(* An administrator changes a user's metadata.                                 *)
ChangeProfile(u) ==
  /\ Quiet /\ changes < MaxChanges /\ changes' = changes + 1
  /\ \E p \in Range(Profiles[u]) \ {zitadel[u]} : zitadel' = [zitadel EXCEPT ![u] = p]
  /\ changedAt' = [changedAt EXCEPT ![u] = clock]
  /\ UNCHANGED <<skips, clock, cache, call, listing, storeVars>>

Tick ==
  /\ Quiet /\ clock < MaxClock /\ clock' = clock + 1
  /\ UNCHANGED <<zitadel, changedAt, changes, skips, cache, call, listing, storeVars>>

(************************* Evaluating one action ****************************)
(* recorded  the subject the calling service resolved and records              *)
(* evaluated the subject the authorization-service gives OPA                   *)
(* calm      ghost: no policy file has moved since OPA was first asked         *)
CallIdle == [pc |-> "idle"]

Allow(domain, a, s, d) ==
  IF domain = "instruction" THEN InstructionAllow(a, s, d) ELSE PaymentAllow(a, s, d)
Violations(domain, a, s, d) ==
  IF domain = "instruction" THEN InstructionViolations(a, s, d) ELSE PaymentViolations(a, s, d)
File(domain, name) ==
  CASE name = "lifecycle" -> IF domain = "instruction" THEN "i/lifecycle" ELSE "p/lifecycle"
    [] name = "violations" -> IF domain = "instruction" THEN "i/violations" ELSE "p/violations"
    [] name = "allow_basis" -> IF domain = "instruction" THEN "i/allow_basis" ELSE "p/allow_basis"

(* The three documents the service queries; an undefined answer is false or {}.*)
AskAllow(domain, a, s, d) == Serves(File(domain, "lifecycle")) /\ Allow(domain, a, s, d)
AskViolations(domain, a, s, d) ==
  IF Serves(File(domain, "violations")) THEN Violations(domain, a, s, d) ELSE {}
AskAlert(domain, a, s, d) == AskViolations(domain, a, s, d) \cap AlertCodes # {}

(* A service resolves its caller (get_subject) and asks.  The payment-service  *)
(* asks with its own session, the instruction-service with the token of the    *)
(* service that called it (evaluate_tokens), so that the payment service's     *)
(* marker is there when it asks for a USE.                                     *)
Asked(domain, a, d, t, caller, service, held) ==
  [pc |-> "asked", domain |-> domain, action |-> a, doc |-> d, token |-> t,
   service |-> service, held |-> held,
   recorded |-> caller, evaluated |-> Refused, calm |-> FALSE,
   allowed |-> FALSE, violations |-> {}, basis |-> FALSE, alert |-> FALSE]

CallInstruction(u) ==
  /\ call.pc = "idle" /\ listing.pc = "idle" /\ StartOfTime
  /\ \E t \in Tokens(u), d \in InstructionDocs, a \in InstructionActions :
       \E service \in IF a \in ServiceActions THEN DOMAIN ServiceRoles ELSE {"harness"} :
         /\ GetInstructionSubject(t, service) # Refused
         /\ Quiet \/ (a \in ReloadActions /\ t.kind = "opaque")
         /\ call' = Asked("instruction", a, d, t, GetInstructionSubject(t, service), service,
                         "valid")
  /\ UNCHANGED <<dirVars, listing, storeVars>>

CallPayment(u) ==
  /\ call.pc = "idle" /\ listing.pc = "idle" /\ StartOfTime
  /\ \E t \in Tokens(u), d \in PaymentDocs, a \in PaymentActions :
       \E before \in {"none", "valid", "expired"} :
         \E held \in EnsureLoggedIn(before, PaymentLogin) \ {"none"} :
           /\ GetPaymentSubject(t, "harness") # Refused
           /\ Quiet \/ (a \in ReloadActions /\ t.kind = "opaque" /\ held = "valid")
           /\ call' = Asked("payment", a, d, t, GetPaymentSubject(t, "harness"), "payment", held)
  /\ UNCHANGED <<dirVars, listing, storeVars>>

(* get_service_caller and resolve_evaluate_subject: the tokens are resolved    *)
(* again, and an inline subject that does not match them is refused.           *)
ResolveSubject ==
  /\ call.pc = "asked"
  /\ LET s == OnBehalf(AuthorizationSubject(call.token, zitadel), ServiceRoles[call.service])
     IN call' = IF call.held = "valid" /\ s # Refused /\ SameIdentity(s, call.recorded)
                THEN [call EXCEPT !.pc = "resolved", !.evaluated = s, !.calm = Settled]
                ELSE [call EXCEPT !.pc = "rejected"]
  /\ UNCHANGED <<dirVars, listing, storeVars>>

AskDecision ==
  /\ call.pc = "resolved"
  /\ LET yes == AskAllow(call.domain, call.action, call.evaluated, call.doc)
     IN call' = [call EXCEPT !.pc = IF yes THEN "basis" ELSE "violations", !.allowed = yes]
  /\ UNCHANGED <<dirVars, listing, storeVars>>

AskExplanation ==
  /\ call.pc \in {"basis", "violations"}
  /\ call' = IF call.pc = "basis"
             THEN [call EXCEPT !.pc = "done", !.basis = Serves(File(call.domain, "allow_basis"))]
             ELSE [call EXCEPT !.pc = "alert",
                     !.violations = AskViolations(call.domain, call.action, call.evaluated,
                                                  call.doc)]
  /\ UNCHANGED <<dirVars, listing, storeVars>>

AskIsAlert ==
  /\ call.pc = "alert"
  /\ call' = [call EXCEPT !.pc = "done",
                !.alert = AskAlert(call.domain, call.action, call.evaluated, call.doc)]
  /\ UNCHANGED <<dirVars, listing, storeVars>>

(* The consoles a request's token opens, each with the subject it sees: the    *)
(* administrators' of five services, and the auditors'.                        *)
AdminConsoles == {"authorization", "instruction", "payment", "harness", "indexer"}
ConsoleSubject(console, t) ==
  CASE console = "authorization" -> AuthorizationSubject(t, zitadel)
    [] console = "instruction" -> InstructionSubject(t, zitadel)
    [] console = "payment" -> PaymentSubject(t, zitadel)
    [] console = "harness" -> HarnessSubject(t, zitadel)
    [] console = "indexer" -> IndexerSubject(t, zitadel)
    [] console = "audit" -> AuditorSubject(t, zitadel)

EnterConsoles(u) ==
  /\ call.pc = "idle" /\ listing.pc = "idle" /\ StartOfTime /\ Quiet
  /\ \E t \in Tokens(u) :
       call' = [pc |-> "console",
                entered |-> [c \in {k \in AdminConsoles \cup {"audit"} :
                                     /\ ConsoleSubject(k, t) # Refused
                                     /\ k = "audit" \/ IsPlatformAdmin(ConsoleSubject(k, t))} |->
                               ConsoleSubject(c, t)]]
  /\ UNCHANGED <<dirVars, listing, storeVars>>

(*************************** Who could do it ********************************)
(* kind  "payment approvers", "payment submitters", "instruction approvers"    *)
(* about the document, and doc what the request says of it                     *)
(* seen  the copy of the directory the answer is computed from, asked when it  *)
(*       was asked for; left users whose metadata or decision is still to come *)
(* stage the list being filled: "eligible", then "prospective"                 *)
ListingIdle == [pc |-> "idle"]
Approvers(kind) == kind \in {"payment approvers", "instruction approvers"}

Terminal == {"USED", "REJECTED", "EXPIRED", "CANCELLED"}
TerminalPayment == {"APPROVED", "REJECTED", "CANCELLED"}

(* payment_approval_blocked_reason: whether there is one.                      *)
PaymentApprovalBlocked(d) ==
  LET consumed == d.backing = "USED" /\ d.type = "SINGLE_USE"
  IN \/ d.status \in TerminalPayment
     \/ d.backing \in Terminal /\ ~(consumed /\ d.status = "SUBMITTED")
     \/ d.backing # "APPROVED" /\ ~consumed
     \/ d.status = "DRAFT"

PaymentSubmitBlocked(d) == d.status # "DRAFT" \/ d.backing # "APPROVED"

InstructionApprovalBlocked(d) == d.status = "DRAFT"

Blocked(kind, d) ==
  CASE kind = "payment approvers" -> PaymentApprovalBlocked(d)
    [] kind = "payment submitters" -> PaymentSubmitBlocked(d)
    [] kind = "instruction approvers" -> InstructionApprovalBlocked(d)

(* Faulty variant: only the middle office submits.                             *)
SubmitterCandidate_MiddleOffice(p, lob) ==
  "PAYMENT_CREATOR" \in p.roles /\ p.lob = lob /\ "MIDDLE_OFFICE" \in p.groups

(* funding_approver_candidates, payment_submitter_candidates and               *)
(* instruction_approver_candidates.                                            *)
FundingCandidate(p, lob) ==
  "FUNDING_APPROVER" \in p.roles /\ "MIDDLE_OFFICE" \in p.groups /\ lob \in p.covers
SubmitterCandidate(p, lob) == "PAYMENT_CREATOR" \in p.roles /\ p.lob = lob
InstructionCandidate(p, lob) == "INSTRUCTION_APPROVER" \in p.roles /\ p.lob = lob

Candidates(kind, users, d) ==
  {u \in User : users[u] # Missing /\
     CASE kind = "payment approvers" -> FundingCandidate(users[u], d.lob)
       [] kind = "payment submitters" -> SubmitterCandidate(users[u], d.lob)
       [] kind = "instruction approvers" -> InstructionCandidate(users[u], d.lob)}

ActionOf(kind) == IF kind = "payment submitters" THEN "SUBMIT" ELSE "APPROVE"
DomainOf(kind) == IF kind = "instruction approvers" THEN "instruction" ELSE "payment"

(* payment_prospective_instruction_status and                                  *)
(* instruction_opa_context_after_submission: the document the second list is   *)
(* computed for; there is none unless the document is a draft.                 *)
HasProspect(kind, d) ==
  CASE kind = "payment approvers" ->
         /\ d.status = "DRAFT"
         /\ d.backing = "APPROVED" \/ (d.backing = "USED" /\ d.type = "SINGLE_USE")
    [] kind = "instruction approvers" -> d.status = "DRAFT"
    [] OTHER -> FALSE
Prospect(kind, d) ==
  IF kind = "instruction approvers" THEN [d EXCEPT !.status = "SUBMITTED"] ELSE d

(* Start computing a list over a copy of the directory; a blocked submission   *)
(* is not evaluated, a blocked approval is.                                    *)
Evaluating(l, users) ==
  [l EXCEPT !.pc = "evaluate", !.seen = users, !.calm = Settled,
            !.left = IF ~Approvers(l.kind) /\ Blocked(l.kind, l.doc) THEN {}
                     ELSE Candidates(l.kind, users, l.doc)]

Fresh == cache.at >= 0 /\ TTL > 0 /\ clock - cache.at < TTL

(* What the question says of the document.  The payment-service does not say   *)
(* of what type the instruction of a payment is; a caller of the API may.      *)
Described(kind, d) ==
  IF kind = "payment approvers" THEN {d, [d EXCEPT !.type = Absent]} ELSE {d}
ThroughService(l) == l.kind = "payment approvers" /\ l.doc.type = Absent

Fetching(kind, about, doc) ==
  [pc |-> "fetch", kind |-> kind, about |-> about, doc |-> doc, asked |-> clock,
   seen |-> NoCache.users, left |-> User, stage |-> "eligible", calm |-> FALSE,
   eligible |-> {}, prospective |-> {}]

(* A request for a list asks DirectoryCache.list_users, which reads the clock  *)
(* before it fetches.                                                          *)
AskList(kind) ==
  /\ listing.pc = "idle" /\ call.pc = "idle"
  /\ Quiet \/ (ActionOf(kind) \in ReloadActions /\ Fresh)
  /\ \E d \in IF DomainOf(kind) = "instruction" THEN InstructionDocs ELSE PaymentDocs :
     \E said \in Described(kind, d) :
       LET l == Fetching(kind, d, said)
       IN listing' = IF Fresh THEN Evaluating(l, cache.users) ELSE l
  /\ UNCHANGED <<dirVars, call, storeVars>>

(* Users are taken one at a time, in an order nothing depends on.              *)
IsNext(u) == listing.left # {} /\ u = CHOOSE v \in listing.left : TRUE

(* One user's metadata arrives, or the request is refused and the user is      *)
(* skipped; a user without title or roles is left out.                         *)
FetchUser(u) ==
  /\ listing.pc = "fetch" /\ IsNext(u)
  /\ \/ listing' = [listing EXCEPT !.left = @ \ {u},
                      !.seen[u] = IF Complete(zitadel[u]) THEN zitadel[u] ELSE Missing]
        /\ UNCHANGED skips
     \/ skips < MaxSkips /\ skips' = skips + 1
        /\ listing' = [listing EXCEPT !.left = @ \ {u}]
  /\ UNCHANGED <<zitadel, changedAt, changes, clock, cache, call, storeVars>>

(* A request that gets no answer ends the fetch and the request for the list.  *)
FetchFails ==
  /\ listing.pc = "fetch" /\ skips < MaxSkips /\ skips' = skips + 1
  /\ listing' = ListingIdle
  /\ UNCHANGED <<zitadel, changedAt, changes, clock, cache, call, storeVars>>

(* Faulty variant: the copy counts as fresh from when the fetch ended.         *)
CachedAt_End(l) == clock

CachedAt(l) == l.asked

FetchEnds ==
  /\ listing.pc = "fetch" /\ listing.left = {}
  /\ cache' = [at |-> CachedAt(listing), users |-> listing.seen]
  /\ listing' = Evaluating(listing, listing.seen)
  /\ UNCHANGED <<zitadel, changedAt, changes, skips, clock, call, storeVars>>

(* One candidate's decision: a can_approve or can_submit request.              *)
EvaluateCandidate(u) ==
  /\ listing.pc = "evaluate" /\ IsNext(u)
  /\ LET d == IF listing.stage = "eligible" THEN listing.doc
                                            ELSE Prospect(listing.kind, listing.doc)
         yes == AskAllow(DomainOf(listing.kind), ActionOf(listing.kind),
                         Subject(u, listing.seen[u], {}), d)
         add == IF yes THEN {u} ELSE {}
     IN listing' = IF listing.stage = "eligible"
                   THEN [listing EXCEPT !.left = @ \ {u}, !.eligible = @ \cup add]
                   ELSE [listing EXCEPT !.left = @ \ {u}, !.prospective = @ \cup add]
  /\ UNCHANGED <<dirVars, call, storeVars>>

NextStage ==
  /\ listing.pc = "evaluate" /\ listing.left = {}
  /\ listing' = IF listing.stage = "eligible" /\ HasProspect(listing.kind, listing.doc)
                THEN [listing EXCEPT !.stage = "prospective",
                        !.left = Candidates(listing.kind, listing.seen, listing.doc)]
                ELSE [listing EXCEPT !.pc = "done"]
  /\ UNCHANGED <<dirVars, call, storeVars>>

(* The answer is returned.                                                     *)
Return ==
  /\ \/ call.pc \in {"done", "rejected", "console"} /\ call' = CallIdle /\ UNCHANGED listing
     \/ listing.pc = "done" /\ listing' = ListingIdle /\ UNCHANGED call
  /\ UNCHANGED <<dirVars, storeVars>>

(* Faulty variant: payments are drafted by the people of a LOB.                *)
Capabilities_OwnLob(p) ==
  {k \in {"funding_approve", "payment_create", "payment_submit", "instruction_create",
          "instruction_approve"} :
     CASE k = "funding_approve" -> "FUNDING_APPROVER" \in p.roles /\ "MIDDLE_OFFICE" \in p.groups
       [] k \in {"payment_create", "payment_submit"} ->
            "PAYMENT_CREATOR" \in p.roles /\ p.lob # Absent
       [] k = "instruction_create" ->
            "INSTRUCTION_CREATOR" \in p.roles /\ "MIDDLE_OFFICE" \in p.groups
       [] k = "instruction_approve" -> "INSTRUCTION_APPROVER" \in p.roles /\ p.lob # Absent}

(* What get_person_permission_summary tells about a profile.                   *)
Capabilities(p) ==
  {k \in {"funding_approve", "payment_create", "payment_submit", "instruction_create",
          "instruction_approve"} :
     CASE k = "funding_approve" -> "FUNDING_APPROVER" \in p.roles /\ "MIDDLE_OFFICE" \in p.groups
       [] k = "payment_create" -> "PAYMENT_CREATOR" \in p.roles /\ "MIDDLE_OFFICE" \in p.groups
       [] k = "payment_submit" -> "PAYMENT_CREATOR" \in p.roles /\ p.lob # Absent
       [] k = "instruction_create" ->
            "INSTRUCTION_CREATOR" \in p.roles /\ "MIDDLE_OFFICE" \in p.groups
       [] k = "instruction_approve" -> "INSTRUCTION_APPROVER" \in p.roles /\ p.lob # Absent}

(****************************** Composition *********************************)
(* A step of the upload script, seen by the requests in flight.  The script    *)
(* starts with the catalog's validation; bound: one run of it.                 *)
Disturbed(r) == IF "calm" \in DOMAIN r THEN [r EXCEPT !.calm = FALSE] ELSE r
StoreStep ==
  /\ \/ /\ StartUpload /\ Quiet /\ StillDirectory
             /\ CatalogAligned(InstructionCatalog, InstructionRules)
             /\ CatalogAligned(PaymentCatalog, PaymentRules)
        /\ IF call.pc = "idle" THEN TRUE
           ELSE IF call.pc = "console" THEN FALSE
           ELSE call.action \in ReloadActions /\ call.token.kind = "opaque"
     \/ ScriptStep \/ RequestFails \/ OpaRestart
  /\ call' = Disturbed(call) /\ listing' = Disturbed(listing)
  /\ UNCHANGED dirVars

Init ==
  /\ zitadel = [u \in User |-> Profiles[u][1]]
  /\ changedAt = [u \in User |-> -1] /\ changes = 0 /\ skips = 0 /\ clock = 0
  /\ cache = NoCache /\ call = CallIdle /\ listing = ListingIdle
  /\ StoreInit

Kinds == {"payment approvers", "payment submitters", "instruction approvers"}

Next ==
  \/ \E u \in User : \/ ChangeProfile(u) \/ CallInstruction(u) \/ CallPayment(u)
                     \/ EnterConsoles(u) \/ FetchUser(u) \/ EvaluateCandidate(u)
  \/ \E kind \in Kinds : AskList(kind)
  \/ Tick \/ ResolveSubject \/ AskDecision \/ AskExplanation \/ AskIsAlert
  \/ FetchEnds \/ FetchFails \/ NextStage \/ Return \/ StoreStep

Spec == Init /\ [][Next]_vars /\ WF_vars(ScriptStep /\ StoreStep)

(******************************* Properties *********************************)
(* A refusal of an instruction action, decided while no policy file moved,     *)
(* names a violation, so the denial recorded and shown is never the bare       *)
(* "POLICY_DENIED".  RELEASE_USE is the exception: violations.rego has no rule *)
(* for its marker and its status.                                              *)
DenialExplained ==
  call.pc = "done" /\ call.calm /\ call.domain = "instruction"
    /\ ~call.allowed /\ call.action # "RELEASE_USE" => call.violations # {}

(* What is recorded of a decision reproduces it.  The service that asks records *)
(* the subject it resolved itself; OPA judged the one authorization-service    *)
(* resolved later, and a profile may change between the two; payment-service's *)
(* subject even carries the roles of another service.  Yet a decision taken    *)
(* while no policy file moved is the policy's about the recorded subject, and  *)
(* so are the violations and the alert filed with a refusal.                   *)
RecordedDecides ==
  call.pc = "done" /\ call.calm =>
    LET codes == Violations(call.domain, call.action, call.recorded, call.doc) IN
      /\ call.allowed <=> Allow(call.domain, call.action, call.recorded, call.doc)
      /\ ~call.allowed => /\ call.violations = codes
                          /\ call.alert <=> codes \cap AlertCodes # {}

(* What the policy lets a person do is among what the permission summary says  *)
(* the person can do.                                                          *)
CapabilityFor(domain, a) ==
  IF domain = "instruction"
  THEN IF a \in InstructionCreatorActions THEN "instruction_create" ELSE "instruction_approve"
  ELSE CASE a \in FundingActions -> "funding_approve"
         [] a = "SUBMIT" -> "payment_submit"
         [] OTHER -> "payment_create"
CapabilitiesComplete ==
  call.pc = "done" /\ call.allowed /\ call.action \notin ServiceActions \cup {"VIEW"}
    => CapabilityFor(call.domain, call.action) \in Capabilities(call.evaluated)

(* A finished list is everyone in the copy of the directory the policy lets    *)
(* act: the search for candidates leaves out nobody OPA would have let through.*)
AllowedIn(l, d) ==
  {u \in User : l.seen[u] # Missing /\
     Allow(DomainOf(l.kind), ActionOf(l.kind), Subject(u, l.seen[u], {}), d)}
EligibleAreAllowed ==
  listing.pc = "done" /\ listing.calm =>
    /\ Approvers(listing.kind) \/ ~Blocked(listing.kind, listing.doc)
         => listing.eligible = AllowedIn(listing, listing.doc)
    /\ HasProspect(listing.kind, listing.doc)
         => listing.prospective = AllowedIn(listing, Prospect(listing.kind, listing.doc))

(* Asked through the payment-service who can approve a submitted payment, the  *)
(* list is everyone the policy would let approve it.                           *)
EligibleThroughService ==
  listing.pc = "done" /\ listing.calm /\ ThroughService(listing)
    /\ listing.about.status = "SUBMITTED" => listing.eligible = AllowedIn(listing, listing.about)

(* A list is never computed from a profile that had been changed TTL or longer *)
(* before it was asked for, however long fetching the directory took; nor,     *)
(* where nothing is cached (TTL = 0), from one changed before it was asked for.*)
EligibleIsFresh ==
  listing.pc \in {"evaluate", "done"} =>
    \A u \in User : changedAt[u] <= listing.asked - TTL /\ changedAt[u] < listing.asked
                       => listing.seen[u] \in {zitadel[u], Missing}

(* With fewer failures than attempts, an upload that got past the clearing     *)
(* ends with every file loaded.                                                *)
ReloadCompletes == (upload.pc = "upload") ~> (upload.pc = "done" /\ loaded = PolicyFiles)
=============================================================================
