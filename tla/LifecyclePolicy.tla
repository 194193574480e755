---------------------------- MODULE LifecyclePolicy ----------------------------
(* The lifecycle policies OPA evaluates for the two services: who may do what  *)
(* to an instruction or a payment, and which violations explain a refusal.     *)
(* Pure definitions, one per rule of the Rego packages.  A rule body is kept   *)
(* as the set of names of the predicates it conjoins (InstructionRules,        *)
(* PaymentRules), the way the catalog's validator reads it.                    *)
(*   subject     [user, title, lob, roles, groups, covers, supervisor,         *)
(*                delegates]; "none" stands for an absent value, delegates are *)
(*                the roles of the service that acts on the user's behalf      *)
(*   instruction [status, type, lob, account, by, title, supervisor,           *)
(*                suspended, long, ended]: account is the LOB of the funding   *)
(*                account; by, title and supervisor are the creator's; long    *)
(*                says it runs over three years, ended that its end has passed *)
(*   payment     [status, amount, lob, by, backing, type, ended]: backing is   *)
(*                the status of its instruction, amount counts amount clubs    *)
EXTENDS Naturals

Absent == "none"

(*************************** Roles, groups and the catalog ******************)
HasRole(s, r) == r \in s.roles
InGroup(s, g) == g \in s.groups
IsMiddleOffice(s) == InGroup(s, "MIDDLE_OFFICE")
IsCompliance(s) == \/ HasRole(s, "COMPLIANCE_ANALYST")
                   \/ HasRole(s, "COMPLIANCE_OFFICER")
                   \/ InGroup(s, "COMPLIANCE")
CoversLob(s, lob) == IsMiddleOffice(s) /\ lob \in s.covers

InstructionCreatorActions == {"CREATE", "UPDATE", "CANCEL", "SUBMIT"}
InstructionApproverActions == {"APPROVE", "REJECT", "SUSPEND", "REACTIVATE"}
ServiceActions == {"USE", "RELEASE_USE"}
InstructionActions == InstructionCreatorActions \cup InstructionApproverActions
                      \cup ServiceActions \cup {"VIEW"}
PaymentCreatorActions == {"CREATE", "UPDATE", "SUBMIT", "CANCEL"}
FundingActions == {"APPROVE", "REJECT"}
PaymentActions == PaymentCreatorActions \cup FundingActions

(* action_catalog: the role and the groups (at most one) an action takes, and  *)
(* the predicates its allow rule must mention.                                 *)
InstructionCatalog ==
  LET creator(g) == [role |-> "INSTRUCTION_CREATOR", groups |-> {"MIDDLE_OFFICE"}, gates |-> g]
      approver(g) == [role |-> "INSTRUCTION_APPROVER", groups |-> {}, gates |-> g]
      desk == {"same_lob", "valid_profit_center", "valid_transition"}
  IN [a \in InstructionCreatorActions \cup InstructionApproverActions |->
        CASE a \in {"CREATE", "UPDATE"} ->
               creator({"creator_eligible", "account_lob_matches", "valid_profit_center",
                        "within_three_years"})
          [] a = "CANCEL" ->
               creator({"creator_eligible", "account_lob_matches", "valid_profit_center",
                        "valid_transition"})
          [] a = "SUBMIT" -> creator({"valid_transition"})
          [] a = "APPROVE" ->
               approver(desk \cup {"creator_is_not_approver", "not_supervisor_of_creator",
                                   "not_subordinate_of_creator", "approver_is_allowed",
                                   "within_three_years"})
          [] OTHER -> approver(desk)]

PaymentCatalog ==
  LET entry(r, m, g) == [role |-> r, groups |-> m, gates |-> g]
      mo == {"MIDDLE_OFFICE"}
  IN [a \in PaymentActions |->
        CASE a \in {"CREATE", "UPDATE"} ->
               entry("PAYMENT_CREATOR", mo, {"covers_lob", "usable_for_draft", "not_expired",
                                             "within_amount_limit"})
          [] a = "SUBMIT" -> entry("PAYMENT_CREATOR", {}, {"instruction_approved", "not_expired"})
          [] a = "CANCEL" -> entry("PAYMENT_CREATOR", mo, {"covers_lob"})
          [] a = "APPROVE" ->
               entry("FUNDING_APPROVER", mo,
                     {"covers_lob", "backing_valid", "not_expired", "within_amount_limit",
                      "creator_is_not_approver", "not_subordinate_of_creator"})
          [] a = "REJECT" -> entry("FUNDING_APPROVER", mo, {"covers_lob"})]

CatalogRoleOk(catalog, a, s) == a \in DOMAIN catalog /\ HasRole(s, catalog[a].role)
CatalogGroupOk(catalog, a, s) == a \in DOMAIN catalog /\ catalog[a].groups \subseteq s.groups

(****************************** Instructions ********************************)
ProfitCenters == {"FICC", "FX", "DESK_RATES"}
EligibleTitles == {"Analyst", "Associate", "Vice President", "Managing Director"}

(* approval_matrix: the titles that may approve what a title created.          *)
MayApprove(creator) ==
  CASE creator = "Analyst" -> {"Associate", "Vice President", "Managing Director", "Partner"}
    [] creator = "Associate" -> {"Vice President", "Managing Director", "Partner"}
    [] creator = "Vice President" -> {"Managing Director", "Partner"}
    [] creator = "Managing Director" -> {"Partner"}
    [] OTHER -> {}

ValidTransition(a, status) ==
  \/ a \in {"UPDATE", "SUBMIT"} /\ status = "DRAFT"
  \/ a = "CANCEL" /\ status \in {"DRAFT", "SUBMITTED"}
  \/ a \in {"APPROVE", "REJECT"} /\ status = "SUBMITTED"
  \/ a = "SUSPEND" /\ status = "APPROVED"
  \/ a = "REACTIVATE" /\ status = "SUSPENDED"

HasViewerAccess(s) ==
  \/ IsCompliance(s)
  \/ \E r \in {"INSTRUCTION_VIEWER", "INSTRUCTION_CREATOR", "INSTRUCTION_APPROVER",
               "PAYMENT_CREATOR", "FUNDING_APPROVER"} : HasRole(s, r)

CanViewData(s, i) ==
  \/ CoversLob(s, i.lob)
  \/ ~IsMiddleOffice(s) /\ s.lob = i.lob
  \/ s.user = i.by
  \/ IsCompliance(s)
  \/ HasRole(s, "PLATFORM_ADMIN")
  \/ InGroup(s, "ADMIN")

(* The truth of every predicate an instruction rule mentions.                  *)
InstructionFact(p, a, s, i) ==
  CASE p = "catalog_role_ok" -> CatalogRoleOk(InstructionCatalog, a, s)
    [] p = "catalog_group_ok" -> CatalogGroupOk(InstructionCatalog, a, s)
    [] p = "creator_eligible" -> s.title \in EligibleTitles
    [] p = "account_lob_matches" -> i.account = i.lob
    [] p = "valid_profit_center" -> i.lob \in ProfitCenters
    [] p = "is_draft" -> i.status = "DRAFT"
    [] p = "known_type" -> i.type \in {"STANDING", "SINGLE_USE"}
    [] p = "within_three_years" -> ~i.long
    [] p = "valid_transition" -> ValidTransition(a, i.status)
    [] p = "same_lob" -> s.lob = i.lob
    [] p = "creator_is_not_approver" -> s.user # i.by
    [] p = "not_supervisor_of_creator" -> i.supervisor = Absent \/ s.user # i.supervisor
    [] p = "not_subordinate_of_creator" -> s.supervisor = Absent \/ i.by # s.supervisor
    [] p = "approver_is_allowed" -> s.title \in MayApprove(i.title)
    [] p = "managing_director" -> s.title = "Managing Director"
    [] p = "not_the_suspender" -> s.user # i.suspended
    [] p = "marker_delegated" -> "INSTRUCTION_MARKER" \in s.delegates
    [] p = "viewer_access" -> HasViewerAccess(s)
    [] p = "can_view" -> CanViewData(s, i)
    [] p = "not_expired" -> ~i.ended
    [] p = "is_approved" -> i.status = "APPROVED"
    [] p = "is_used_single_use" -> i.status = "USED" /\ i.type = "SINGLE_USE"

(* lifecycle.rego: what each allow rule conjoins.                              *)
InstructionRules ==
  LET gated == {"catalog_role_ok", "catalog_group_ok"}
      desk == gated \cup {"same_lob", "valid_profit_center", "valid_transition"}
      draft == gated \cup {"creator_eligible", "account_lob_matches", "valid_profit_center",
                           "is_draft", "within_three_years"}
      service == {"marker_delegated", "viewer_access", "can_view", "valid_profit_center"}
  IN [a \in InstructionActions |->
        CASE a = "CREATE" -> draft \cup {"known_type"}
          [] a = "UPDATE" -> draft
          [] a = "CANCEL" -> gated \cup {"creator_eligible", "account_lob_matches",
                                         "valid_profit_center", "valid_transition"}
          [] a = "SUBMIT" -> gated \cup {"valid_transition"}
          [] a = "APPROVE" -> desk \cup {"creator_is_not_approver", "not_supervisor_of_creator",
                                         "not_subordinate_of_creator", "approver_is_allowed",
                                         "within_three_years"}
          [] a = "REJECT" -> desk
          [] a = "SUSPEND" -> desk \cup {"managing_director"}
          [] a = "REACTIVATE" -> desk \cup {"not_the_suspender"}
          [] a = "USE" -> service \cup {"not_expired", "is_approved"}
          [] a = "RELEASE_USE" -> service \cup {"is_used_single_use"}
          [] a = "VIEW" -> {"viewer_access", "can_view", "valid_profit_center"}]

(* Faulty variant: an instruction that has ended cannot be suspended, and no   *)
(* violation says so.                                                          *)
InstructionAllow_Ended(a, s, i) ==
  (a = "SUSPEND" => ~i.ended) /\ \A p \in InstructionRules[a] : InstructionFact(p, a, s, i)

InstructionAllow(a, s, i) == \A p \in InstructionRules[a] : InstructionFact(p, a, s, i)

When(code, holds) == IF holds THEN {code} ELSE {}

(* violations.rego, in the order of the file.                                  *)
InstructionViolations(a, s, i) ==
  LET creating == a \in InstructionCreatorActions
      approving == a \in InstructionApproverActions
      creator == HasRole(s, "INSTRUCTION_CREATOR")
      approver == HasRole(s, "INSTRUCTION_APPROVER")
      reading == a \in {"VIEW", "USE", "RELEASE_USE"}
      fact(p) == InstructionFact(p, a, s, i)
  IN UNION {
       When("MISSING_ROLE_INSTRUCTION_CREATOR", creating /\ ~creator),
       When("MISSING_ROLE_INSTRUCTION_APPROVER", approving /\ ~approver),
       When("NOT_MIDDLE_OFFICE_GROUP", creating /\ creator /\ ~IsMiddleOffice(s)),
       When("CREATOR_TITLE_INELIGIBLE",
            creating /\ creator /\ IsMiddleOffice(s) /\ ~fact("creator_eligible")),
       When("ACCOUNT_LOB_MISMATCH",
            a \in {"CREATE", "UPDATE", "CANCEL"} /\ creator /\ IsMiddleOffice(s)
              /\ ~fact("account_lob_matches")),
       When("INVALID_PROFIT_CENTER", ~fact("valid_profit_center")),
       When("INVALID_INSTRUCTION_TYPE", a = "CREATE" /\ ~fact("known_type")),
       When("INVALID_INSTRUCTION_STATUS",
            \/ a \in {"CREATE", "UPDATE", "SUBMIT"} /\ i.status # "DRAFT"
            \/ a = "CANCEL" /\ i.status \notin {"DRAFT", "SUBMITTED"}),
       When("INSTRUCTION_DURATION_EXCEEDS_3Y",
            a \in {"CREATE", "UPDATE", "APPROVE"} /\ ~fact("within_three_years")),
       When("INVALID_STATE_TRANSITION",
            a \in {"UPDATE", "CANCEL", "SUBMIT", "APPROVE", "REJECT", "SUSPEND", "REACTIVATE"}
              /\ ~fact("valid_transition")),
       When("ALERT_LOB_MISMATCH", approving /\ approver /\ ~fact("same_lob")),
       When("SELF_APPROVAL", a = "APPROVE" /\ ~fact("creator_is_not_approver")),
       When("ALERT_SUPERVISOR_APPROVING_SUBORDINATE",
            a = "APPROVE" /\ approver /\ ~fact("not_supervisor_of_creator")),
       When("ALERT_SUBORDINATE_APPROVING_CREATOR",
            a = "APPROVE" /\ approver /\ ~fact("not_subordinate_of_creator")),
       When("ALERT_APPROVAL_MATRIX_VIOLATION",
            a = "APPROVE" /\ approver /\ fact("same_lob") /\ ~fact("approver_is_allowed")),
       When("SUSPEND_REQUIRES_MANAGING_DIRECTOR",
            a = "SUSPEND" /\ approver /\ ~fact("managing_director")),
       When("SELF_REACTIVATION", a = "REACTIVATE" /\ approver /\ ~fact("not_the_suspender")),
       When("ALERT_UNAUTHORIZED_SERVICE", a = "USE" /\ ~fact("marker_delegated")),
       When("ALERT_UNAPPROVED_INSTRUCTION", a = "USE" /\ ~fact("is_approved")),
       When("ALERT_EXPIRED_INSTRUCTION", a = "USE" /\ ~fact("not_expired")),
       When("VIEWER_ACCESS_DENIED", reading /\ ~HasViewerAccess(s)),
       When("INSTRUCTION_LOB_ACCESS_DENIED", reading /\ HasViewerAccess(s) /\ ~CanViewData(s, i))}

(******************************** Payments **********************************)
Clubs == {"UP_TO_100_MILLION_CLUB", "UP_TO_1_BILLION_CLUB", "UP_TO_100_BILLION_CLUB"}
ClubLimit == [c \in Clubs |-> CASE c = "UP_TO_100_MILLION_CLUB" -> 1
                                [] c = "UP_TO_1_BILLION_CLUB" -> 2
                                [] c = "UP_TO_100_BILLION_CLUB" -> 3]
AbsoluteLimit == 3

SubjectLimitCovers(s, amount) == \E c \in s.groups \cap Clubs : amount <= ClubLimit[c]
WithinAmountLimit(s, amount) == SubjectLimitCovers(s, amount) /\ amount <= AbsoluteLimit

PaymentFact(p, a, s, d) ==
  CASE p = "catalog_role_ok" -> CatalogRoleOk(PaymentCatalog, a, s)
    [] p = "catalog_group_ok" -> CatalogGroupOk(PaymentCatalog, a, s)
    [] p = "covers_lob" -> CoversLob(s, d.lob)
    [] p = "same_lob" -> s.lob = d.lob
    [] p = "usable_for_draft" -> d.backing \in {"DRAFT", "SUBMITTED", "APPROVED"}
    [] p = "instruction_approved" -> d.backing = "APPROVED"
    [] p = "backing_valid" -> d.backing = "APPROVED" \/ (d.backing = "USED" /\ d.type = "SINGLE_USE")
    [] p = "not_expired" -> ~d.ended
    [] p = "positive_amount" -> d.amount > 0
    [] p = "within_amount_limit" -> WithinAmountLimit(s, d.amount)
    [] p = "is_draft" -> d.status = "DRAFT"
    [] p = "is_open" -> d.status \in {"DRAFT", "SUBMITTED"}
    [] p = "creator_is_not_approver" -> s.user # d.by
    [] p = "not_subordinate_of_creator" -> s.supervisor = Absent \/ d.by # s.supervisor

PaymentRules ==
  LET gated == {"catalog_role_ok", "catalog_group_ok"}
      draft == gated \cup {"covers_lob", "usable_for_draft", "not_expired", "positive_amount",
                           "within_amount_limit"}
  IN [a \in PaymentActions |->
        CASE a = "CREATE" -> draft
          [] a = "UPDATE" -> draft \cup {"is_draft"}
          [] a = "SUBMIT" -> gated \cup {"same_lob", "instruction_approved", "not_expired"}
          [] a = "APPROVE" -> gated \cup {"covers_lob", "backing_valid", "not_expired",
                                          "within_amount_limit", "creator_is_not_approver",
                                          "not_subordinate_of_creator"}
          [] a = "REJECT" -> gated \cup {"covers_lob"}
          [] a = "CANCEL" -> gated \cup {"covers_lob", "is_open"}]

PaymentAllow(a, s, d) == \A p \in PaymentRules[a] : PaymentFact(p, a, s, d)

PaymentViolations(a, s, d) ==
  LET limited == a \in {"CREATE", "UPDATE", "APPROVE"}
      funding == HasRole(s, "FUNDING_APPROVER")
      club == s.groups \cap Clubs # {}
      fact(p) == PaymentFact(p, a, s, d)
  IN UNION {
       When("ALERT_AMOUNT_EXCEEDS_100B_LIMIT", limited /\ d.amount > AbsoluteLimit),
       When("ALERT_AMOUNT_EXCEEDS_SUBJECT_LIMIT",
            limited /\ d.amount <= AbsoluteLimit /\ club /\ ~SubjectLimitCovers(s, d.amount)),
       When("NO_LIMIT_GROUP_ASSIGNED", limited /\ ~club),
       When("ALERT_UNAPPROVED_INSTRUCTION",
            \/ a \in {"CREATE", "UPDATE"} /\ ~fact("usable_for_draft")
            \/ a = "SUBMIT" /\ ~fact("instruction_approved")
            \/ a = "APPROVE" /\ ~fact("backing_valid")),
       When("ALERT_EXPIRED_INSTRUCTION", limited /\ d.ended),
       When("ALERT_NOT_MIDDLE_OFFICE_GROUP", a = "APPROVE" /\ funding /\ ~IsMiddleOffice(s)),
       When("ALERT_LOB_COVERAGE_VIOLATION",
            a = "APPROVE" /\ funding /\ IsMiddleOffice(s) /\ ~fact("covers_lob")),
       When("SELF_APPROVAL", a = "APPROVE" /\ ~fact("creator_is_not_approver")),
       When("ALERT_SUBORDINATE_APPROVING_CREATOR",
            a = "APPROVE" /\ funding /\ ~fact("not_subordinate_of_creator"))}

(* is_alert and _primary_violation look at the prefix of the codes.            *)
AlertCodes == {"ALERT_AMOUNT_EXCEEDS_100B_LIMIT", "ALERT_AMOUNT_EXCEEDS_SUBJECT_LIMIT",
  "ALERT_UNAPPROVED_INSTRUCTION", "ALERT_EXPIRED_INSTRUCTION", "ALERT_NOT_MIDDLE_OFFICE_GROUP",
  "ALERT_LOB_COVERAGE_VIOLATION", "ALERT_SUBORDINATE_APPROVING_CREATOR", "ALERT_LOB_MISMATCH",
  "ALERT_SUPERVISOR_APPROVING_SUBORDINATE", "ALERT_APPROVAL_MATRIX_VIOLATION",
  "ALERT_UNAUTHORIZED_SERVICE"}

(* validate_policy_catalog.py: every catalogued action's rule conjoins the     *)
(* catalog's identity gates and every gate predicate the catalog lists.        *)
CatalogAligned(catalog, rules) ==
  \A a \in DOMAIN catalog :
    /\ a \in DOMAIN rules
    /\ "catalog_role_ok" \in rules[a]
    /\ catalog[a].groups # {} => "catalog_group_ok" \in rules[a]
    /\ catalog[a].gates \subseteq rules[a]
=============================================================================
