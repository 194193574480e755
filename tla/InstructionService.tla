-------------------------- MODULE InstructionService --------------------------
(***************************************************************************)
(* instruction-service: concurrent request handlers over the versioned     *)
(* instruction collection, its security events and the event counters of   *)
(* sequence-service.  A handler                                            *)
(*   1. reads the current version, checks its status and computes the new  *)
(*      body from that copy (the operation actions);                       *)
(*   2. awaits the policy decision on the copy (Permit, Deny);             *)
(*   3. opens a transaction that finds the row that is current by then     *)
(*      (FindCurrent), closes it and inserts the successor (WriteVersion), *)
(*      awaits an event id from sequence-service (NumberEvent) and commits *)
(*      row and event together (Commit).                                   *)
(* Between any two of these the other handlers run: every step is an       *)
(* await in the code.                                                      *)
(***************************************************************************)
EXTENDS VersionedRows

CONSTANTS
  Instruction,  \* instruction ids sequence-service can hand out
  Handler,      \* requests in flight at once
  User,         \* subjects
  Unaudited,    \* subjects of settings.security_event_excluded_user_id_set
  Payment,      \* payment references
  Null,         \* no user, no payment, no context
  Offered,      \* the actions the clients ask for
  MaxRequest    \* bound: requests the clients send

ASSUME ConstantsAssumption ==
  /\ Unaudited \subseteq User
  /\ Null \notin User \cup Payment
  /\ MaxRequest \in Nat

Kind == {"STANDING", "SINGLE_USE"}
Status == {"DRAFT", "SUBMITTED", "APPROVED", "SUSPENDED", "REJECTED", "USED", "CANCELLED"}
Action == {"CREATE", "UPDATE", "SUBMIT", "APPROVE", "REJECT", "CANCEL", "SUSPEND",
           "REACTIVATE", "USE", "RELEASE_USE", "VIEW"}

(* An instruction document.  action and actor are its newest lifecycle     *)
(* event; audited says that the actor's operations are recorded; base is   *)
(* the version the handler had read (auxiliary: the code forgets it).      *)
InstructionBody ==
  [status : Status, kind : Kind, createdBy : User,
   approvedBy : User \cup {Null}, suspendedBy : User \cup {Null},
   usedBy : Payment \cup {Null}, usage : Nat,
   action : Action, actor : User, audited : BOOLEAN, base : Nat]

InstructionRow == [id : Instruction, ver : Nat, open : BOOLEAN, body : InstructionBody]

SecurityEvent ==
  [id : Instruction, eid : Nat, ver : Nat, action : Action, actor : User,
   verdict : {"allow", "deny"}]

(* What a handler holds: seen is the row it read, body what the operation  *)
(* made of that copy, cur the row its transaction found, eid the event     *)
(* number it was given.                                                    *)
Context ==
  [op : Action, actor : User, seen : InstructionRow, body : InstructionBody,
   cur : InstructionRow, eid : Nat]

Phase == {"idle", "loaded", "refused", "permitted", "found", "written",
          "numbered", "orphaned"}

VARIABLES
  rows,       \* the collection `instructions`
  events,     \* the collection of security events
  counter,    \* sequence-service: last event number of each resource
  allocated,  \* sequence-service: instruction ids handed out
  pc,         \* phase of each handler
  ctx,        \* context of each handler
  requests    \* requests sent so far (bounded by MaxRequest)

vars == <<rows, events, counter, allocated, pc, ctx, requests>>

Init ==
  /\ rows = {} /\ events = {} /\ allocated = {} /\ requests = 0
  /\ counter = [i \in Instruction |-> 0]
  /\ pc = [h \in Handler |-> "idle"]
  /\ ctx = [h \in Handler |-> Null]

-----------------------------------------------------------------------------
(* The operations: each reads the current row, checks its status and works *)
(* on a copy.  A failed check answers 409 and changes nothing.             *)

Audited(u) == u \notin Unaudited

Begin(h, op, u, seen, b) ==
  /\ pc[h] = "idle" /\ op \in Offered /\ requests < MaxRequest
  /\ requests' = requests + 1
  /\ pc' = [pc EXCEPT ![h] = "loaded"]
  /\ ctx' = [ctx EXCEPT ![h] =
       [op |-> op, actor |-> u, seen |-> seen, cur |-> seen, eid |-> 0,
        body |-> [b EXCEPT !.action = op, !.actor = u,
                           !.audited = Audited(u), !.base = seen.ver]]]
  /\ UNCHANGED <<rows, events, counter>>

(* Faulty variant: the author is not stamped. *)
NewBody_NoAuthor(u, k) ==
  [status |-> "DRAFT", kind |-> k, createdBy |-> Null, approvedBy |-> Null,
   suspendedBy |-> Null, usedBy |-> Null, usage |-> 0,
   action |-> "CREATE", actor |-> u, audited |-> Audited(u), base |-> 0]

NewBody(u, k) ==
  [status |-> "DRAFT", kind |-> k, createdBy |-> u, approvedBy |-> Null,
   suspendedBy |-> Null, usedBy |-> Null, usage |-> 0,
   action |-> "CREATE", actor |-> u, audited |-> Audited(u), base |-> 0]

(* The id is allocated first; it is lost when the request then fails. *)
Create(h, u) ==
  \E i \in Instruction \ allocated, k \in Kind :
    /\ allocated' = allocated \cup {i}
    /\ Begin(h, "CREATE", u, Row(i, 0, FALSE, NewBody(u, k)), NewBody(u, k))

(* An operation on the current row r of an instruction in one of the       *)
(* statuses `from`.                                                        *)
OnCurrent(h, op, u, r, from, b) ==
  /\ r.open /\ r.body.status \in from
  /\ Begin(h, op, u, r, b)
  /\ UNCHANGED allocated

(* Faulty variant: the editor becomes the author. *)
Update_NewAuthor(h, u, r) ==
  OnCurrent(h, "UPDATE", u, r, {"DRAFT"}, [r.body EXCEPT !.createdBy = u])

Update(h, u, r) ==
  \E k \in Kind : OnCurrent(h, "UPDATE", u, r, {"DRAFT"}, [r.body EXCEPT !.kind = k])

Cancel(h, u, r) ==
  OnCurrent(h, "CANCEL", u, r, {"DRAFT", "SUBMITTED"},
            [r.body EXCEPT !.status = "CANCELLED"])

Submit(h, u, r) ==
  OnCurrent(h, "SUBMIT", u, r, {"DRAFT"}, [r.body EXCEPT !.status = "SUBMITTED"])

Approve(h, u, r) ==
  OnCurrent(h, "APPROVE", u, r, {"SUBMITTED"},
            [r.body EXCEPT !.status = "APPROVED", !.approvedBy = u])

Reject(h, u, r) ==
  OnCurrent(h, "REJECT", u, r, {"SUBMITTED"}, [r.body EXCEPT !.status = "REJECTED"])

(* Faulty variant: a used instruction can be suspended, and so reactivated. *)
Suspend_Used(h, u, r) ==
  OnCurrent(h, "SUSPEND", u, r, {"APPROVED", "USED"},
            [r.body EXCEPT !.status = "SUSPENDED", !.suspendedBy = u])

Suspend(h, u, r) ==
  OnCurrent(h, "SUSPEND", u, r, {"APPROVED"},
            [r.body EXCEPT !.status = "SUSPENDED", !.suspendedBy = u])

Reactivate(h, u, r) ==
  OnCurrent(h, "REACTIVATE", u, r, {"SUSPENDED"},
            [r.body EXCEPT !.status = "APPROVED", !.suspendedBy = Null])

(* A STANDING instruction stays APPROVED and only counts the use. *)
UsedBody(b, p) ==
  IF b.kind = "SINGLE_USE"
  THEN [b EXCEPT !.usage = @ + 1, !.status = "USED", !.usedBy = p]
  ELSE [b EXCEPT !.usage = @ + 1]

Use(h, u, r) ==
  \E p \in Payment : OnCurrent(h, "USE", u, r, {"APPROVED"}, UsedBody(r.body, p))

(* Faulty variant: a release keeps the count. *)
ReleasedBody_Counted(b) == [b EXCEPT !.status = "APPROVED", !.usedBy = Null]

ReleasedBody(b) ==
  [b EXCEPT !.status = "APPROVED", !.usedBy = Null,
            !.usage = IF @ > 0 THEN @ - 1 ELSE @]

(* Only the payment that used the instruction may release it. *)
ReleaseUse(h, u, r) ==
  \E p \in Payment :
    /\ r.body.kind = "SINGLE_USE" /\ r.body.usedBy = p
    /\ OnCurrent(h, "RELEASE_USE", u, r, {"USED"}, ReleasedBody(r.body))

View(h, u, r) == OnCurrent(h, "VIEW", u, r, Status, r.body)

-----------------------------------------------------------------------------
(* The policy decision, taken on the copy. *)

(* The two rules of the instruction policy that relate the subject to the  *)
(* document; roles, groups and lines of business are nondeterministic.     *)
PolicyAllows(op, u, b) ==
  /\ op = "APPROVE" => u # b.createdBy
  /\ op = "REACTIVATE" => u # b.suspendedBy

Resource(h) == ctx[h].seen.id

Finish(h) ==
  /\ pc' = [pc EXCEPT ![h] = "idle"]
  /\ ctx' = [ctx EXCEPT ![h] = Null]

Permit(h) ==
  /\ pc[h] = "loaded" /\ PolicyAllows(ctx[h].op, ctx[h].actor, ctx[h].seen.body)
  /\ pc' = [pc EXCEPT ![h] = "permitted"]
  /\ UNCHANGED <<rows, events, counter, allocated, ctx, requests>>

(* The refusal is recorded against the version that is current by now,     *)
(* which need not be the one that was judged.                              *)
Deny(h) ==
  /\ pc[h] = "loaded"
  /\ \/ /\ Audited(ctx[h].actor)
        /\ \/ \E r \in CurrentRows(rows, Resource(h)) : ctx' = [ctx EXCEPT ![h].cur = r]
           \/ CurrentRows(rows, Resource(h)) = {} /\ UNCHANGED ctx
        /\ pc' = [pc EXCEPT ![h] = "refused"]
     \/ ~Audited(ctx[h].actor) /\ Finish(h)
  /\ UNCHANGED <<rows, events, counter, allocated, requests>>

EventOf(h, eid, ver, verdict) ==
  [id |-> Resource(h), eid |-> eid, ver |-> ver, action |-> ctx[h].op,
   actor |-> ctx[h].actor, verdict |-> verdict]

(* allocate_event_id followed by a single insert, outside any transaction. *)
RecordNow(h, ver, verdict) ==
  LET n == counter[Resource(h)] + 1 IN
  /\ counter' = [counter EXCEPT ![Resource(h)] = n]
  /\ events' = events \cup {EventOf(h, n, ver, verdict)}
  /\ Finish(h)
  /\ UNCHANGED <<rows, allocated, requests>>

RecordRefusal(h) ==
  pc[h] = "refused" /\ RecordNow(h, ctx[h].cur.ver, "deny")

RecordView(h) ==
  /\ pc[h] = "permitted" /\ ctx[h].op = "VIEW" /\ Audited(ctx[h].actor)
  /\ RecordNow(h, ctx[h].seen.ver, "allow")

AnswerView(h) ==
  /\ pc[h] = "permitted" /\ ctx[h].op = "VIEW" /\ ~Audited(ctx[h].actor)
  /\ Finish(h)
  /\ UNCHANGED <<rows, events, counter, allocated, requests>>

-----------------------------------------------------------------------------
(* The transaction. *)

InTransaction == {"written", "numbered", "orphaned"}

(* Another transaction has an uncommitted write on the current row of i. *)
Contended(h, i) ==
  \E g \in Handler \ {h} : pc[g] \in InTransaction /\ Resource(g) = i

(* The first read fixes the transaction's snapshot. *)
FindCurrent(h) ==
  /\ pc[h] = "permitted" /\ ctx[h].op \notin {"VIEW", "CREATE"}
  /\ \E r \in CurrentRows(rows, Resource(h)) : ctx' = [ctx EXCEPT ![h].cur = r]
  /\ pc' = [pc EXCEPT ![h] = "found"]
  /\ UNCHANGED <<rows, events, counter, allocated, requests>>

(* Faulty variant: no conflict detection. *)
WriteVersion_Blind(h) ==
  /\ \/ pc[h] = "found"
     \/ pc[h] = "permitted" /\ ctx[h].op = "CREATE"
  /\ pc' = [pc EXCEPT ![h] = "written"]
  /\ UNCHANGED <<rows, events, counter, allocated, ctx, requests>>

(* The write goes through only on a row nobody changed since the snapshot  *)
(* and nobody is changing; a first version has no row to compete for.      *)
WriteVersion(h) ==
  /\ \/ pc[h] = "found" /\ ctx[h].cur \in rows /\ ~Contended(h, Resource(h))
     \/ pc[h] = "permitted" /\ ctx[h].op = "CREATE"
  /\ pc' = [pc EXCEPT ![h] = "written"]
  /\ UNCHANGED <<rows, events, counter, allocated, ctx, requests>>

(* A write conflict aborts the transaction: ConcurrentModificationError. *)
Conflict(h) ==
  /\ pc[h] = "found" /\ (ctx[h].cur \notin rows \/ Contended(h, Resource(h)))
  /\ Finish(h)
  /\ UNCHANGED <<rows, events, counter, allocated, requests>>

(* Faulty variant: the event is inserted outside the transaction. *)
NumberEvent_InsertsNow(h) ==
  /\ pc[h] = "written" /\ Audited(ctx[h].actor)
  /\ counter' = [counter EXCEPT ![Resource(h)] = @ + 1]
  /\ ctx' = [ctx EXCEPT ![h].eid = counter[Resource(h)] + 1]
  /\ pc' = [pc EXCEPT ![h] = "numbered"]
  /\ events' = events \cup {EventOf(h, counter[Resource(h)] + 1, ctx[h].cur.ver + 1, "allow")}
  /\ UNCHANGED <<rows, allocated, requests>>

(* Faulty variant: the next number is derived from the stored events. *)
NumberEvent_FromEvents(h) ==
  /\ pc[h] = "written" /\ Audited(ctx[h].actor)
  /\ ctx' = [ctx EXCEPT ![h].eid =
                1 + CHOOSE n \in 0..MaxRequest :
                      /\ n = 0 \/ \E e \in events : e.id = Resource(h) /\ e.eid = n
                      /\ \A e \in events : e.id = Resource(h) => e.eid <= n]
  /\ pc' = [pc EXCEPT ![h] = "numbered"]
  /\ UNCHANGED <<rows, events, counter, allocated, requests>>

NumberEvent(h) ==
  /\ pc[h] = "written" /\ Audited(ctx[h].actor)
  /\ counter' = [counter EXCEPT ![Resource(h)] = @ + 1]
  /\ ctx' = [ctx EXCEPT ![h].eid = counter[Resource(h)] + 1]
  /\ pc' = [pc EXCEPT ![h] = "numbered"]
  /\ UNCHANGED <<rows, events, allocated, requests>>

StoreVersion(h) ==
  rows' = IF ctx[h].op = "CREATE"
          THEN InsertInitial(rows, Resource(h), ctx[h].body)
          ELSE AppendVersion(rows, ctx[h].cur, ctx[h].body)

(* The version and its security event become visible together. *)
Commit(h) ==
  /\ \/ /\ pc[h] = "numbered"
        /\ events' = events \cup {EventOf(h, ctx[h].eid, ctx[h].cur.ver + 1, "allow")}
     \/ /\ pc[h] = "written" /\ ~Audited(ctx[h].actor)
        /\ UNCHANGED events
  /\ StoreVersion(h) /\ Finish(h)
  /\ UNCHANGED <<counter, allocated, requests>>

(* sequence-service does not answer: the number may be consumed or not,    *)
(* the transaction aborts, a refusal or a view goes unrecorded.            *)
LoseNumber(h) ==
  /\ \/ pc[h] \in {"refused", "written"}
     \/ pc[h] = "permitted" /\ ctx[h].op = "VIEW"
  /\ Audited(ctx[h].actor)
  /\ \/ counter' = [counter EXCEPT ![Resource(h)] = @ + 1]
     \/ UNCHANGED counter
  /\ Finish(h)
  /\ UNCHANGED <<rows, events, allocated, requests>>

(* Any other database error inside the transaction. *)
Abort(h) ==
  /\ pc[h] \in {"found", "written", "numbered"}
  /\ Finish(h)
  /\ UNCHANGED <<rows, events, counter, allocated, requests>>

(* The process dies: handlers vanish, and a transaction that had written   *)
(* keeps its conflicts until the server expires it.                        *)
Crash ==
  /\ \E h \in Handler : pc[h] \notin {"idle", "orphaned"}
  /\ pc' = [h \in Handler |-> IF pc[h] \in InTransaction THEN "orphaned" ELSE "idle"]
  /\ ctx' = [h \in Handler |-> IF pc[h] \in InTransaction THEN ctx[h] ELSE Null]
  /\ UNCHANGED <<rows, events, counter, allocated, requests>>

ExpireTransaction(h) ==
  /\ pc[h] = "orphaned"
  /\ Finish(h)
  /\ UNCHANGED <<rows, events, counter, allocated, requests>>

-----------------------------------------------------------------------------
Operation(h) ==
  \E u \in User :
    \/ Create(h, u)
    \/ \E r \in rows :
         \/ Update(h, u, r) \/ Cancel(h, u, r) \/ Submit(h, u, r)
         \/ Approve(h, u, r) \/ Reject(h, u, r) \/ Suspend(h, u, r)
         \/ Reactivate(h, u, r) \/ Use(h, u, r) \/ ReleaseUse(h, u, r)
         \/ View(h, u, r)

(* The steps the code takes by itself once a request is accepted. *)
Progress(h) ==
  \/ Permit(h) \/ Deny(h) \/ RecordRefusal(h) \/ RecordView(h) \/ AnswerView(h)
  \/ FindCurrent(h) \/ WriteVersion(h) \/ Conflict(h) \/ NumberEvent(h)
  \/ Commit(h) \/ ExpireTransaction(h)

Next ==
  \/ \E h \in Handler : Operation(h) \/ Progress(h) \/ LoseNumber(h) \/ Abort(h)
  \/ Crash

Spec == Init /\ [][Next]_vars

-----------------------------------------------------------------------------
(* Properties. *)

TypeOK ==
  /\ rows \subseteq InstructionRow
  /\ events \subseteq SecurityEvent
  /\ counter \in [Instruction -> Nat]
  /\ allocated \subseteq Instruction
  /\ pc \in [Handler -> Phase]
  /\ ctx \in [Handler -> Context \cup {Null}]
  /\ \A h \in Handler : pc[h] # "idle" => ctx[h] \in Context
  /\ requests \in 0..MaxRequest

(* Whatever the interleaving, each instruction has one current row, its    *)
(* newest, and its versions count up from 1 (append_version).              *)
VersionsChained == VersionChain(rows)

(* A stored version of an audited actor has exactly one security event and *)
(* an event about a mutation has its version: neither is ever seen without *)
(* the other (_save_instruction_with_security_event).                      *)
Accounts(e, r) ==
  /\ e.id = r.id /\ e.ver = r.ver /\ e.verdict = "allow"
  /\ e.action = r.body.action /\ e.actor = r.body.actor

AuditMatchesVersions ==
  /\ \A r \in rows : r.body.audited =>
       /\ \E e \in events : Accounts(e, r)
       /\ \A e, f \in events : Accounts(e, r) /\ Accounts(f, r) => e = f
  /\ \A e \in events : e.verdict = "allow" /\ e.action # "VIEW" =>
       \E r \in rows : Accounts(e, r)

(* No two security events of a resource share an identifier, although the  *)
(* counter is outside the transaction and numbers are lost on the way.     *)
EventIdsUnique ==
  \A e, f \in events : e.id = f.id /\ e.eid = f.eid => e = f

(* The lifecycle: status before, action, status after. *)
Lifecycle ==
  {<<"DRAFT", "UPDATE", "DRAFT">>, <<"DRAFT", "SUBMIT", "SUBMITTED">>,
   <<"DRAFT", "CANCEL", "CANCELLED">>, <<"SUBMITTED", "CANCEL", "CANCELLED">>,
   <<"SUBMITTED", "APPROVE", "APPROVED">>, <<"SUBMITTED", "REJECT", "REJECTED">>,
   <<"APPROVED", "SUSPEND", "SUSPENDED">>, <<"SUSPENDED", "REACTIVATE", "APPROVED">>,
   <<"APPROVED", "USE", "APPROVED">>, <<"APPROVED", "USE", "USED">>,
   <<"USED", "RELEASE_USE", "APPROVED">>}

(* Every version is a legal lifecycle step from some earlier stored        *)
(* version of the same instruction, even when that is not its predecessor. *)
LegalLineage ==
  \A r \in rows :
    \/ r.ver = 1 /\ r.body.status = "DRAFT" /\ r.body.action = "CREATE"
    \/ \E s \in rows :
         /\ s.id = r.id /\ s.ver = r.body.base /\ s.ver < r.ver
         /\ <<s.body.status, r.body.action, r.body.status>> \in Lifecycle

(* What was approved was approved by someone other than the author of its  *)
(* first version, across edits by others, suspensions and stale copies,    *)
(* and nothing is usable that nobody approved (_instruction_from_request   *)
(* keeps created_by; the policy compares it with the approver).            *)
FourEyes ==
  \A r, first \in rows : r.id = first.id /\ first.ver = 1 =>
    /\ r.body.approvedBy # first.body.actor
    /\ r.body.status \in {"APPROVED", "SUSPENDED", "USED"} => r.body.approvedBy # Null

(* usage_count, used_by and the status of a SINGLE_USE instruction agree   *)
(* through any chain of uses and releases.                                 *)
UseAccounted ==
  \A r \in rows : r.body.kind = "SINGLE_USE" =>
    /\ r.body.status = "USED" <=> r.body.usedBy # Null
    /\ r.body.usage = IF r.body.status = "USED" THEN 1 ELSE 0

(* The rows without their `out` field, in which only closing differs. *)
Entries == {[id |-> r.id, ver |-> r.ver, body |-> r.body] : r \in rows}

Ledger == INSTANCE AuditLedger WITH entries <- Entries

(* The service implements the append-only audited ledger. *)
ImplementsLedger == Ledger!Spec

-----------------------------------------------------------------------------
(* The inductive invariant: what the handlers know while they run. *)

Busy(h) == pc[h] # "idle"
Creating(h) == Busy(h) /\ ctx[h].op = "CREATE"
Writing(h) == pc[h] \in InTransaction

(* Ids are allocated before they are used, and an id being created belongs *)
(* to one handler and has no row yet.                                      *)
CreationsExclusive ==
  /\ \A r \in rows : r.id \in allocated /\ r.ver > 0 /\ r.body.action # "VIEW"
  /\ \A h \in Handler : Busy(h) => Resource(h) \in allocated
  /\ \A h \in Handler : Creating(h) =>
       /\ ctx[h].cur.ver = 0
       /\ \A r \in rows : r.id # Resource(h)
       /\ \A g \in Handler \ {h} : Busy(g) => Resource(g) # Resource(h)

(* A handler stamps its own action and actor on the body it will store.    *)
BodiesStamped ==
  \A h \in Handler : Busy(h) =>
    /\ ctx[h].body.action = ctx[h].op /\ ctx[h].body.actor = ctx[h].actor
    /\ ctx[h].body.audited = Audited(ctx[h].actor)

(* A writer holds the current row of its instruction, alone.               *)
WritersExclusive ==
  /\ \A h \in Handler : pc[h] = "found" => ~Creating(h)
  /\ \A h \in Handler : pc[h] = "found" \/ Writing(h) => ctx[h].op # "VIEW"
  /\ \A h \in Handler : (pc[h] = "found" \/ Writing(h)) /\ ~Creating(h) =>
       ctx[h].cur.id = Resource(h) /\ ctx[h].cur.open
  /\ \A h \in Handler : Writing(h) /\ ~Creating(h) => ctx[h].cur \in rows
  /\ \A g, h \in Handler : g # h /\ Writing(g) /\ Writing(h) => Resource(g) # Resource(h)

(* Every number in use is at most the counter, and the one a writer holds  *)
(* is in no stored event.                                                  *)
NumbersIssued ==
  /\ \A e \in events : e.eid <= counter[e.id]
  /\ \A h \in Handler : pc[h] = "numbered" =>
       /\ ctx[h].eid <= counter[Resource(h)]
       /\ \A e \in events : e.id = Resource(h) => e.eid # ctx[h].eid

IInv ==
  /\ TypeOK
  /\ VersionsChained
  /\ CreationsExclusive
  /\ BodiesStamped
  /\ WritersExclusive
  /\ NumbersIssued
  /\ EventIdsUnique
  /\ AuditMatchesVersions

(* What LegalLineage, UseAccounted and FourEyes need on top of IInv: how a *)
(* body relates to the copy it was computed from, which other versions may *)
(* have superseded in the meantime.                                        *)

(* Uses and releases are counted, and a draft was never used.              *)
BodyAccounted(b) ==
  /\ b.kind = "SINGLE_USE" =>
       /\ b.status = "USED" <=> b.usedBy # Null
       /\ b.usage = IF b.status = "USED" THEN 1 ELSE 0
  /\ b.status = "DRAFT" => b.usedBy = Null /\ b.usage = 0

BodyApproved(b) ==
  b.status \in {"APPROVED", "SUSPENDED", "USED"} => b.approvedBy # Null

(* The body b that operation op of u makes of the copy c.                  *)
StepOf(op, u, c, b) ==
  /\ b.createdBy = c.createdBy
  /\ b.approvedBy = IF op = "APPROVE" THEN u ELSE c.approvedBy
  /\ op # "VIEW" => <<c.status, op, b.status>> \in Lifecycle

Stored(i, v, b) == \E r \in rows : r.id = i /\ r.ver = v /\ r.body = b

Copied(h) ==
  /\ Stored(Resource(h), ctx[h].seen.ver, ctx[h].seen.body)
  /\ ctx[h].body.base = ctx[h].seen.ver
  /\ StepOf(ctx[h].op, ctx[h].actor, ctx[h].seen.body, ctx[h].body)

Drafted(h) ==
  /\ ctx[h].body.status = "DRAFT" /\ ctx[h].body.createdBy = ctx[h].actor
  /\ ctx[h].body.approvedBy = Null

(* Who approves is compared with the author once the policy is asked.      *)
SoundCopy(h) ==
  /\ IF Creating(h) THEN Drafted(h) ELSE Copied(h)
  /\ BodyAccounted(ctx[h].body) /\ BodyApproved(ctx[h].body)
  /\ pc[h] \notin {"loaded", "refused"} => ctx[h].body.approvedBy # ctx[h].body.createdBy

CopiesSound == \A h \in Handler : Busy(h) => SoundCopy(h)

RowsSound ==
  /\ \A r \in rows :
       BodyAccounted(r.body) /\ BodyApproved(r.body) /\ r.body.approvedBy # r.body.createdBy
  /\ \A r, first \in rows : r.id = first.id /\ first.ver = 1 =>
       r.body.createdBy = first.body.actor

(* Only what is audited gets an event number.                              *)
NumberedAudited == \A h \in Handler : pc[h] = "numbered" => Audited(ctx[h].actor)

LineageInv == LegalLineage /\ RowsSound /\ CopiesSound

-----------------------------------------------------------------------------
(* A promise of the documentation that the code does not keep. *)

(* README of instruction-service: "Terminal states ... block further       *)
(* mutations".                                                             *)
TerminalIsFinal ==
  \A r \in rows : r.body.status \in {"REJECTED", "CANCELLED"} => r.open
=============================================================================
