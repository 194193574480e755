------------------------------- MODULE Identity -------------------------------
(* How a service turns the tokens of a request into a subject.  Four services  *)
(* hold a copy of the same text (FromBearer); instruction-service's is more    *)
(* demanding, and audit-service has a resolution and a subject of its own.     *)
(*   profile  [title, lob, roles, groups, covers, supervisor]: the metadata    *)
(*            the identity provider keeps of a user                            *)
(*   token    [user, kind, claim]: kind "signed" is a JWT that carries the     *)
(*            profile it was issued with, "opaque" one that the identity       *)
(*            provider resolves, by userinfo or by its session id, "foreign" a *)
(*            JWT for another audience, "stray" one nothing resolves           *)
EXTENDS LifecyclePolicy

Refused == [refused |-> TRUE]

Subject(u, p, delegates) ==
  [user |-> u, title |-> p.title, lob |-> p.lob, roles |-> p.roles, groups |-> p.groups,
   covers |-> p.covers, supervisor |-> p.supervisor, delegates |-> delegates]

(* _subject_from_metadata: without a title or a role there is no subject; the  *)
(* instruction-service also wants a LOB it knows.                              *)
Complete(p) == p.title # Absent /\ p.roles # {}
KnownLob(p) == p.lob \in ProfitCenters \cup {Absent}

(* subject_from_bearer_token: a valid JWT's own claim decides, otherwise the   *)
(* live metadata does; live is what the identity provider knows now.           *)
FromBearer(t, live) ==
  LET p == IF t.kind = "signed" THEN t.claim ELSE live[t.user]
  IN IF t.kind \in {"signed", "opaque"} /\ Complete(p) THEN Subject(t.user, p, {}) ELSE Refused

AuthorizationSubject(t, live) == FromBearer(t, live)
PaymentSubject(t, live) == FromBearer(t, live)
HarnessSubject(t, live) == FromBearer(t, live)
IndexerSubject(t, live) == FromBearer(t, live)

InstructionSubject(t, live) ==
  LET s == FromBearer(t, live) IN IF s # Refused /\ KnownLob(s) THEN s ELSE Refused

(* resolve_auditor: sessions only, and members of the auditors' group only,    *)
(* who need neither a title nor a role; nothing else is kept of them.          *)
AuditorSubject(t, live) ==
  LET p == live[t.user]
  IN IF t.kind = "opaque" /\ "TECH_AUDITORS" \in p.groups
     THEN [user |-> t.user, title |-> IF p.title = Absent THEN "Technology Auditor" ELSE p.title,
           roles |-> p.roles, groups |-> p.groups]
     ELSE Refused

(* subject_from_obo_call: the user, annotated with the roles of the service    *)
(* that calls on the user's behalf.                                            *)
OnBehalf(s, delegates) == IF s = Refused THEN Refused ELSE [s EXCEPT !.delegates = delegates]

(* require_platform_admin guards the consoles of the services.                 *)
IsPlatformAdmin(s) == HasRole(s, "PLATFORM_ADMIN") \/ InGroup(s, "ADMIN")

(* ServiceIdentity.login: the session a service holds after trying to log in   *)
(* max_attempts times; the harness raises at the first failure.  A session     *)
(* once held is never asked for again, also not when it has expired.           *)
PaymentLogin == {"valid", "none"}
InstructionLogin == {"valid", "none"}
HarnessLogin == {"valid", "none"}
EnsureLoggedIn(held, login) == IF held = "none" THEN login ELSE {held}
=============================================================================
