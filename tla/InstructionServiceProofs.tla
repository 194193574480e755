----------------------- MODULE InstructionServiceProofs -----------------------
(***************************************************************************)
(* The versioned, audited collection of instruction-service, for any       *)
(* number of handlers, instructions, users and requests: type correctness, *)
(* and that IInv is inductive.  Whatever the interleaving of handlers,     *)
(* crashes and lost event numbers, the versions of an instruction form one *)
(* chain and every mutation of an audited subject has exactly one security *)
(* event, with an identifier of its own.  On top of IInv, LineageInv says  *)
(* where the versions come from, and StepRefines that a step is one of     *)
(* AuditLedger or none.                                                    *)
(***************************************************************************)
EXTENDS InstructionService, TLAPS

(* What the two writes of the versioned collection preserve, for any set   *)
(* of identifiers and any kind of body.                                    *)

(* insert_initial keeps the chains whole when the id has no row yet.       *)
LEMMA InsertInitialChains ==
  ASSUME NEW Id, NEW Bodies, NEW i \in Id, NEW b \in Bodies, NEW chain,
         chain \subseteq [id : Id, ver : Nat, open : BOOLEAN, body : Bodies],
         VersionChain(chain), \A r \in chain : r.id # i
  PROVE  VersionChain(InsertInitial(chain, i, b))
<1> DEFINE new == Row(i, 1, TRUE, b)
           after == InsertInitial(chain, i, b)
<1>1. after = chain \cup {new}
  BY DEF InsertInitial
<1>2. new.id = i /\ new.ver = 1 /\ new.open = TRUE
  BY DEF Row
<1> HIDE DEF new, after
<1>3. UniqueRowIds(after)
  BY <1>1, <1>2 DEF VersionChain, UniqueRowIds
<1>4. NewestIsCurrent(after)
  BY <1>1, <1>2 DEF VersionChain, NewestIsCurrent
<1>5. NoVersionGap(after)
  BY <1>1, <1>2 DEF VersionChain, NoVersionGap
<1> QED
  BY <1>3, <1>4, <1>5 DEF VersionChain, after

(* append_version keeps them whole when it closes a row that is current.   *)
LEMMA AppendVersionChains ==
  ASSUME NEW Id, NEW Bodies, NEW chain, NEW b \in Bodies, NEW cur \in chain,
         chain \subseteq [id : Id, ver : Nat, open : BOOLEAN, body : Bodies],
         VersionChain(chain), cur.open
  PROVE  VersionChain(AppendVersion(chain, cur, b))
<1> DEFINE old == Closed(cur)
           new == Row(cur.id, cur.ver + 1, TRUE, b)
           after == AppendVersion(chain, cur, b)
<1>1. after = (chain \ {cur}) \cup {old, new}
  BY DEF AppendVersion
<1>2. new.id = cur.id /\ new.ver = cur.ver + 1 /\ new.open = TRUE
  BY DEF Row
<1>3. old.id = cur.id /\ old.ver = cur.ver /\ old.open = FALSE
  BY DEF Closed
<1>4. \A r \in chain : r.id = cur.id => r.ver <= cur.ver
  BY DEF VersionChain, NewestIsCurrent
<1>5. \A r \in chain : r.ver \in Nat
  OBVIOUS
<1> HIDE DEF new, old, after
<1>6. UniqueRowIds(after)
  BY <1>1, <1>2, <1>3, <1>4, <1>5 DEF VersionChain, UniqueRowIds
<1>7. NewestIsCurrent(after)
  <2>1. \A r \in chain \ {cur} : r.open => r.id # cur.id
    BY <1>4, <1>5 DEF VersionChain, NewestIsCurrent, UniqueRowIds
  <2>2. ASSUME NEW r \in after
        PROVE  r.open <=> \A s \in after : s.id = r.id => s.ver <= r.ver
    <3>1. CASE r = new
      BY <3>1, <1>1, <1>2, <1>3, <1>4, <1>5
    <3>2. CASE r = old
      BY <3>2, <1>1, <1>2, <1>3, <1>5
    <3>3. CASE r \in chain \ {cur} /\ r.id # cur.id
      <4>1. \A s : s \in after /\ s.id = r.id <=> s \in chain /\ s.id = r.id
        BY <3>3, <1>1, <1>2, <1>3
      <4> QED
        BY <3>3, <4>1 DEF VersionChain, NewestIsCurrent
    <3>4. CASE r \in chain \ {cur} /\ r.id = cur.id
      BY <3>4, <2>1, <1>1, <1>2, <1>4, <1>5
    <3> QED
      BY <2>2, <1>1, <3>1, <3>2, <3>3, <3>4
  <2> QED
    BY <2>2 DEF NewestIsCurrent
<1>8. NoVersionGap(after)
  <2>1. ASSUME NEW r \in after, r.ver > 1
        PROVE  \E s \in after : s.id = r.id /\ s.ver = r.ver - 1
    <3>1. CASE r = new
      BY <3>1, <1>1, <1>2, <1>3, <1>5
    <3>2. CASE r # new
      <4>1. PICK q \in chain : q.id = r.id /\ q.ver = r.ver
        BY <3>2, <2>1, <1>1, <1>3
      <4>2. PICK s \in chain : s.id = r.id /\ s.ver = r.ver - 1
        BY <4>1, <2>1 DEF VersionChain, NoVersionGap
      <4>3. CASE s = cur
        BY <4>2, <4>3, <1>1, <1>3
      <4>4. CASE s # cur
        BY <4>2, <4>4, <1>1
      <4> QED
        BY <4>3, <4>4
    <3> QED
      BY <3>1, <3>2
  <2> QED
    BY <2>1 DEF NoVersionGap
<1> QED
  BY <1>6, <1>7, <1>8 DEF VersionChain, after

-----------------------------------------------------------------------------
(* Types. *)

(* The part of TypeOK that says where handlers are and what they hold. *)
HandlersOK ==
  /\ pc \in [Handler -> Phase]
  /\ ctx \in [Handler -> Context \cup {Null}]
  /\ \A h \in Handler : pc[h] # "idle" => ctx[h] \in Context

LEMMA FinishType ==
  ASSUME NEW h \in Handler, TypeOK, Finish(h)
  PROVE  HandlersOK'
<1>1. pc' \in [Handler -> Phase] /\ ctx' \in [Handler -> Context \cup {Null}]
  BY DEF TypeOK, Finish, Phase
<1>2. \A g \in Handler : pc'[g] # "idle" => ctx'[g] \in Context
  BY DEF TypeOK, Finish
<1> QED
  BY <1>1, <1>2 DEF HandlersOK

LEMMA BeginType ==
  ASSUME NEW h \in Handler, NEW op \in Action, NEW u \in User,
         NEW seen \in InstructionRow, NEW b \in InstructionBody,
         TypeOK, Begin(h, op, u, seen, b)
  PROVE  /\ HandlersOK'
         /\ rows' = rows /\ events' = events /\ counter' = counter
         /\ requests' \in 0..MaxRequest
<1> DEFINE body == [b EXCEPT !.action = op, !.actor = u,
                             !.audited = Audited(u), !.base = seen.ver]
           c == [op |-> op, actor |-> u, seen |-> seen, cur |-> seen, eid |-> 0, body |-> body]
<1>1. seen.ver \in Nat
  BY DEF InstructionRow
<1>2. Audited(u) \in BOOLEAN
  BY DEF Audited
<1>3. body \in InstructionBody
  BY <1>1, <1>2 DEF InstructionBody
<1> HIDE DEF body
<1>4. c \in Context
  BY <1>3 DEF Context
<1>5. ctx' = [ctx EXCEPT ![h] = c] /\ pc' = [pc EXCEPT ![h] = "loaded"]
  BY DEF Begin, body
<1> HIDE DEF c
<1>6. HandlersOK'
  BY <1>4, <1>5 DEF HandlersOK, TypeOK, Phase
<1>7. requests' \in 0..MaxRequest
  BY ConstantsAssumption DEF Begin, TypeOK
<1> QED
  BY <1>6, <1>7 DEF Begin

(* Every operation accepts a request: a creation for an id that was never  *)
(* handed out, any other operation with a stored row as its copy.          *)
Begins(h) ==
  \E op \in Action, u \in User, seen \in InstructionRow, b \in InstructionBody :
    /\ Begin(h, op, u, seen, b)
    /\ \/ /\ op = "CREATE" /\ seen.ver = 0
          /\ seen.id \in Instruction \ allocated
          /\ allocated' = allocated \cup {seen.id}
       \/ op # "CREATE" /\ seen \in rows /\ allocated' = allocated

LEMMA OnCurrentBegins ==
  ASSUME NEW h \in Handler, NEW op \in Action, NEW u \in User, NEW r \in rows,
         NEW from, NEW b \in InstructionBody, TypeOK, op # "CREATE",
         OnCurrent(h, op, u, r, from, b)
  PROVE  Begins(h)
<1>1. r \in InstructionRow
  BY DEF TypeOK
<1>2. Begin(h, op, u, r, b) /\ allocated' = allocated
  BY DEF OnCurrent
<1> QED
  BY <1>1, <1>2 DEF Begins

LEMMA OperationBegins ==
  ASSUME NEW h \in Handler, TypeOK, Operation(h)
  PROVE  Begins(h)
<1>1. ASSUME NEW u \in User, Create(h, u)
      PROVE  Begins(h)
  <2>1. PICK i \in Instruction \ allocated, k \in Kind :
          /\ allocated' = allocated \cup {i}
          /\ Begin(h, "CREATE", u, Row(i, 0, FALSE, NewBody(u, k)), NewBody(u, k))
    BY <1>1 DEF Create
  <2>2. NewBody(u, k) \in InstructionBody
    BY DEF NewBody, InstructionBody, Status, Action, Audited
  <2>3. Row(i, 0, FALSE, NewBody(u, k)) \in InstructionRow
    BY <2>2 DEF Row, InstructionRow
  <2>4. Row(i, 0, FALSE, NewBody(u, k)).id = i /\ Row(i, 0, FALSE, NewBody(u, k)).ver = 0
    BY DEF Row
  <2> QED
    BY <2>1, <2>2, <2>3, <2>4 DEF Begins, Action
<1>2. ASSUME NEW u \in User, NEW r \in rows,
             \/ Update(h, u, r) \/ Cancel(h, u, r) \/ Submit(h, u, r)
             \/ Approve(h, u, r) \/ Reject(h, u, r) \/ Suspend(h, u, r)
             \/ Reactivate(h, u, r) \/ Use(h, u, r) \/ ReleaseUse(h, u, r)
             \/ View(h, u, r)
      PROVE  Begins(h)
  <2>1. r.body \in InstructionBody
    BY DEF TypeOK, InstructionRow
  <2>2. CASE Update(h, u, r)
    <3>1. PICK k \in Kind :
            OnCurrent(h, "UPDATE", u, r, {"DRAFT"}, [r.body EXCEPT !.kind = k])
      BY <2>2 DEF Update
    <3>2. [r.body EXCEPT !.kind = k] \in InstructionBody /\ "UPDATE" \in Action
      BY <2>1 DEF InstructionBody, Action
    <3> QED
      BY <3>1, <3>2, OnCurrentBegins
  <2>3. CASE Cancel(h, u, r)
    <3>1. [r.body EXCEPT !.status = "CANCELLED"] \in InstructionBody /\ "CANCEL" \in Action
      BY <2>1 DEF InstructionBody, Action, Status
    <3> QED
      BY <2>3, <3>1, OnCurrentBegins DEF Cancel
  <2>4. CASE Submit(h, u, r)
    <3>1. [r.body EXCEPT !.status = "SUBMITTED"] \in InstructionBody /\ "SUBMIT" \in Action
      BY <2>1 DEF InstructionBody, Action, Status
    <3> QED
      BY <2>4, <3>1, OnCurrentBegins DEF Submit
  <2>5. CASE Approve(h, u, r)
    <3>1. /\ [r.body EXCEPT !.status = "APPROVED", !.approvedBy = u] \in InstructionBody
          /\ "APPROVE" \in Action
      BY <2>1 DEF InstructionBody, Action, Status
    <3> QED
      BY <2>5, <3>1, OnCurrentBegins DEF Approve
  <2>6. CASE Reject(h, u, r)
    <3>1. [r.body EXCEPT !.status = "REJECTED"] \in InstructionBody /\ "REJECT" \in Action
      BY <2>1 DEF InstructionBody, Action, Status
    <3> QED
      BY <2>6, <3>1, OnCurrentBegins DEF Reject
  <2>7. CASE Suspend(h, u, r)
    <3>1. /\ [r.body EXCEPT !.status = "SUSPENDED", !.suspendedBy = u] \in InstructionBody
          /\ "SUSPEND" \in Action
      BY <2>1 DEF InstructionBody, Action, Status
    <3> QED
      BY <2>7, <3>1, OnCurrentBegins DEF Suspend
  <2>8. CASE Reactivate(h, u, r)
    <3>1. /\ [r.body EXCEPT !.status = "APPROVED", !.suspendedBy = Null] \in InstructionBody
          /\ "REACTIVATE" \in Action
      BY <2>1 DEF InstructionBody, Action, Status
    <3> QED
      BY <2>8, <3>1, OnCurrentBegins DEF Reactivate
  <2>9. CASE Use(h, u, r)
    <3>1. PICK p \in Payment : OnCurrent(h, "USE", u, r, {"APPROVED"}, UsedBody(r.body, p))
      BY <2>9 DEF Use
    <3>2. r.body.usage + 1 \in Nat /\ "USED" \in Status
      BY <2>1 DEF InstructionBody, Status
    <3>3. ASSUME r.body.kind = "SINGLE_USE"
          PROVE  UsedBody(r.body, p) \in InstructionBody
      <4>1. UsedBody(r.body, p) =
              [r.body EXCEPT !.usage = r.body.usage + 1, !.status = "USED", !.usedBy = p]
        BY <3>3 DEF UsedBody
      <4> QED
        BY <4>1, <2>1, <3>2 DEF InstructionBody
    <3>4. ASSUME r.body.kind # "SINGLE_USE"
          PROVE  UsedBody(r.body, p) \in InstructionBody
      <4>1. UsedBody(r.body, p) = [r.body EXCEPT !.usage = r.body.usage + 1]
        BY <3>4 DEF UsedBody
      <4> QED
        BY <4>1, <2>1, <3>2 DEF InstructionBody
    <3>5. UsedBody(r.body, p) \in InstructionBody /\ "USE" \in Action
      BY <3>3, <3>4 DEF Action
    <3> QED
      BY <3>1, <3>5, OnCurrentBegins
  <2>10. CASE ReleaseUse(h, u, r)
    <3>1. OnCurrent(h, "RELEASE_USE", u, r, {"USED"}, ReleasedBody(r.body))
      BY <2>10 DEF ReleaseUse
    <3>2. ReleasedBody(r.body) \in InstructionBody /\ "RELEASE_USE" \in Action
      <4>1. PICK n \in Nat : n = IF r.body.usage > 0 THEN r.body.usage - 1 ELSE r.body.usage
        BY <2>1 DEF InstructionBody
      <4>2. ReleasedBody(r.body) =
              [r.body EXCEPT !.status = "APPROVED", !.usedBy = Null, !.usage = n]
        BY <4>1 DEF ReleasedBody
      <4>3. "APPROVED" \in Status /\ "RELEASE_USE" \in Action
        BY DEF Status, Action
      <4> QED
        BY <4>2, <4>3, <2>1 DEF InstructionBody
    <3> QED
      BY <3>1, <3>2, OnCurrentBegins
  <2>11. CASE View(h, u, r)
    BY <2>1, <2>11, OnCurrentBegins DEF View, Action
  <2> QED
    BY <1>2, <2>2, <2>3, <2>4, <2>5, <2>6, <2>7, <2>8, <2>9, <2>10, <2>11
<1> QED
  BY <1>1, <1>2 DEF Operation

LEMMA OperationType ==
  ASSUME NEW h \in Handler, TypeOK, Operation(h)
  PROVE  TypeOK'
<1>1. Begins(h)
  BY OperationBegins
<1>2. PICK op \in Action, u \in User, seen \in InstructionRow, b \in InstructionBody :
        Begin(h, op, u, seen, b)
  BY <1>1 DEF Begins
<1>3. allocated' \subseteq Instruction
  BY <1>1 DEF Begins, TypeOK
<1>4. /\ HandlersOK'
      /\ rows' = rows /\ events' = events /\ counter' = counter
      /\ requests' \in 0..MaxRequest
  BY <1>2, BeginType
<1> QED
  BY <1>3, <1>4 DEF TypeOK, HandlersOK

LEMMA RecordNowType ==
  ASSUME NEW h \in Handler, NEW ver \in Nat, NEW verdict \in {"allow", "deny"},
         TypeOK, pc[h] # "idle", RecordNow(h, ver, verdict)
  PROVE  TypeOK'
<1> DEFINE n == counter[Resource(h)] + 1
<1>1. Resource(h) \in Instruction /\ ctx[h].op \in Action /\ ctx[h].actor \in User
  BY DEF TypeOK, Resource, Context, InstructionRow
<1>2. n \in Nat
  BY <1>1 DEF TypeOK
<1>3. EventOf(h, n, ver, verdict) \in SecurityEvent
  BY <1>1, <1>2 DEF EventOf, SecurityEvent
<1>4. events' \subseteq SecurityEvent /\ counter' \in [Instruction -> Nat]
  BY <1>2, <1>3 DEF RecordNow, TypeOK
<1>5. HandlersOK'
  BY FinishType DEF RecordNow
<1> QED
  BY <1>4, <1>5 DEF RecordNow, TypeOK, HandlersOK

(* Steps that only end a request. *)
LEMMA FinishOnlyType ==
  ASSUME NEW h \in Handler, TypeOK, Finish(h),
         UNCHANGED <<rows, events, allocated, requests>>, counter' \in [Instruction -> Nat]
  PROVE  TypeOK'
BY FinishType DEF TypeOK, HandlersOK

LEMMA StoreVersionType ==
  ASSUME NEW h \in Handler, TypeOK, pc[h] # "idle", StoreVersion(h)
  PROVE  rows' \subseteq InstructionRow
<1>1. ctx[h].body \in InstructionBody /\ ctx[h].cur \in InstructionRow
  BY DEF TypeOK, Context
<1>2. Resource(h) \in Instruction
  BY DEF TypeOK, Context, Resource, InstructionRow
<1>3. CASE ctx[h].op = "CREATE"
  <2>1. Row(Resource(h), 1, TRUE, ctx[h].body) \in InstructionRow
    BY <1>1, <1>2 DEF Row, InstructionRow
  <2> QED
    BY <1>3, <2>1 DEF StoreVersion, InsertInitial, TypeOK
<1>4. CASE ctx[h].op # "CREATE"
  <2>1. Closed(ctx[h].cur) \in InstructionRow
    BY <1>1 DEF Closed, InstructionRow
  <2>2. Row(ctx[h].cur.id, ctx[h].cur.ver + 1, TRUE, ctx[h].body) \in InstructionRow
    BY <1>1 DEF Row, InstructionRow
  <2> QED
    BY <1>4, <2>1, <2>2 DEF StoreVersion, AppendVersion, TypeOK
<1> QED
  BY <1>3, <1>4

(* A step that moves h to phase p and leaves it with a typed context.      *)
LEMMA MoveType ==
  ASSUME NEW h \in Handler, NEW p \in Phase, NEW c \in Context, TypeOK,
         pc' = [pc EXCEPT ![h] = p], ctx' = [ctx EXCEPT ![h] = c]
  PROVE  HandlersOK'
BY DEF TypeOK, HandlersOK

LEMMA ProgressType ==
  ASSUME NEW h \in Handler, TypeOK, Progress(h)
  PROVE  TypeOK'
<1>1. CASE Permit(h)
  <2>1. ctx' = ctx /\ ctx[h] \in Context
    BY <1>1 DEF Permit, TypeOK
  <2>2. HandlersOK'
    BY <1>1, <2>1 DEF Permit, TypeOK, HandlersOK, Phase
  <2> QED
    BY <1>1, <2>2 DEF Permit, TypeOK, HandlersOK
<1>2. CASE Deny(h)
  <2>1. CASE Finish(h)
    BY <1>2, <2>1, FinishOnlyType DEF Deny, TypeOK
  <2>2. CASE ~Finish(h)
    <3>1. /\ pc' = [pc EXCEPT ![h] = "refused"]
          /\ \/ \E r \in rows : ctx' = [ctx EXCEPT ![h].cur = r]
             \/ ctx' = ctx
      BY <1>2, <2>2 DEF Deny, CurrentRows
    <3>2. ctx[h] \in Context
      BY <1>2 DEF Deny, TypeOK
    <3>3. PICK c \in Context : ctx' = [ctx EXCEPT ![h] = c]
      <4>1. ASSUME NEW r \in rows, ctx' = [ctx EXCEPT ![h].cur = r]
            PROVE  \E c \in Context : ctx' = [ctx EXCEPT ![h] = c]
        <5>1. [ctx[h] EXCEPT !.cur = r] \in Context
          BY <3>2 DEF Context, TypeOK
        <5> QED
          BY <4>1, <5>1
      <4>2. ASSUME ctx' = ctx
            PROVE  \E c \in Context : ctx' = [ctx EXCEPT ![h] = c]
        BY <3>2, <4>2 DEF TypeOK
      <4> QED
        BY <3>1, <4>1, <4>2
    <3>4. HandlersOK'
      BY <3>1, <3>3, MoveType DEF Phase
    <3> QED
      BY <1>2, <3>4 DEF Deny, TypeOK, HandlersOK
  <2> QED
    BY <2>1, <2>2
<1>3. CASE RecordRefusal(h)
  <2>1. ctx[h].cur.ver \in Nat
    BY <1>3 DEF RecordRefusal, TypeOK, Context, InstructionRow
  <2> QED
    BY <1>3, <2>1, RecordNowType DEF RecordRefusal
<1>4. CASE RecordView(h)
  <2>1. ctx[h].seen.ver \in Nat
    BY <1>4 DEF RecordView, TypeOK, Context, InstructionRow
  <2> QED
    BY <1>4, <2>1, RecordNowType DEF RecordView
<1>5. CASE AnswerView(h) \/ Conflict(h) \/ ExpireTransaction(h)
  BY <1>5, FinishOnlyType DEF AnswerView, Conflict, ExpireTransaction, TypeOK
<1>6. CASE FindCurrent(h)
  <2>1. PICK r \in rows : ctx' = [ctx EXCEPT ![h].cur = r]
    BY <1>6 DEF FindCurrent, CurrentRows
  <2>2. [ctx[h] EXCEPT !.cur = r] \in Context
    BY <1>6 DEF FindCurrent, Context, TypeOK
  <2>3. HandlersOK'
    BY <1>6, <2>1, <2>2, MoveType DEF FindCurrent, Phase
  <2> QED
    BY <1>6, <2>3 DEF FindCurrent, TypeOK, HandlersOK
<1>7. CASE WriteVersion(h)
  <2>1. ctx' = ctx /\ ctx[h] \in Context
    BY <1>7 DEF WriteVersion, TypeOK
  <2>2. HandlersOK'
    BY <1>7, <2>1 DEF WriteVersion, TypeOK, HandlersOK, Phase
  <2> QED
    BY <1>7, <2>2 DEF WriteVersion, TypeOK, HandlersOK
<1>8. CASE NumberEvent(h)
  <2>1. ctx[h] \in Context /\ Resource(h) \in Instruction
    BY <1>8 DEF NumberEvent, TypeOK, Context, Resource, InstructionRow
  <2>2. counter[Resource(h)] + 1 \in Nat
    BY <2>1 DEF TypeOK
  <2>3. [ctx[h] EXCEPT !.eid = counter[Resource(h)] + 1] \in Context
    BY <2>1, <2>2 DEF Context
  <2>4. HandlersOK'
    BY <1>8, <2>3, MoveType DEF NumberEvent, Phase
  <2>5. counter' \in [Instruction -> Nat]
    BY <1>8, <2>2 DEF NumberEvent, TypeOK
  <2> QED
    BY <1>8, <2>4, <2>5 DEF NumberEvent, TypeOK, HandlersOK
<1>9. CASE Commit(h)
  <2>1. pc[h] # "idle" /\ StoreVersion(h) /\ Finish(h)
    BY <1>9 DEF Commit
  <2>2. ctx[h] \in Context
    BY <2>1 DEF TypeOK
  <2>3. EventOf(h, ctx[h].eid, ctx[h].cur.ver + 1, "allow") \in SecurityEvent
    BY <2>2 DEF EventOf, SecurityEvent, Context, InstructionRow, Resource
  <2>4. events' \subseteq SecurityEvent
    BY <1>9, <2>3 DEF Commit, TypeOK
  <2> QED
    BY <1>9, <2>1, <2>4, StoreVersionType, FinishType DEF Commit, TypeOK, HandlersOK
<1> QED
  BY <1>1, <1>2, <1>3, <1>4, <1>5, <1>6, <1>7, <1>8, <1>9 DEF Progress

LEMMA TypeStep == TypeOK /\ [Next]_vars => TypeOK'
<1> SUFFICES ASSUME TypeOK, [Next]_vars PROVE TypeOK'
  OBVIOUS
<1>1. ASSUME NEW h \in Handler, LoseNumber(h) PROVE TypeOK'
  <2>1. Resource(h) \in Instruction
    BY <1>1 DEF LoseNumber, TypeOK, Context, Resource, InstructionRow
  <2>2. counter' \in [Instruction -> Nat]
    BY <1>1, <2>1 DEF LoseNumber, TypeOK
  <2> QED
    BY <1>1, <2>2, FinishOnlyType DEF LoseNumber
<1>2. ASSUME NEW h \in Handler, Abort(h) PROVE TypeOK'
  BY <1>2, FinishOnlyType DEF Abort, TypeOK
<1>3. CASE Crash
  BY <1>3 DEF Crash, TypeOK, Phase, InTransaction
<1>4. CASE UNCHANGED vars
  BY <1>4 DEF TypeOK, vars
<1> QED
  BY <1>1, <1>2, <1>3, <1>4, OperationType, ProgressType DEF Next

(* Every variable stays in its range: in particular a handler that is not  *)
(* idle always holds a complete context (InstructionService handlers).     *)
THEOREM TypeCorrect == Spec => []TypeOK
<1>1. Init => TypeOK
  BY ConstantsAssumption DEF Init, TypeOK, Phase
<1> QED
  BY <1>1, TypeStep, PTL DEF Spec

-----------------------------------------------------------------------------
(* Safety. *)

(* Everything of IInv but the types. *)
Safe ==
  /\ VersionsChained
  /\ CreationsExclusive
  /\ BodiesStamped
  /\ WritersExclusive
  /\ NumbersIssued
  /\ EventIdsUnique
  /\ AuditMatchesVersions

(* What is said of the two collections alone survives a step that leaves   *)
(* them alone.                                                             *)
LEMMA CollectionsKept ==
  ASSUME IInv, rows' = rows, events' = events
  PROVE  VersionsChained' /\ EventIdsUnique' /\ AuditMatchesVersions'
<1>1. VersionsChained'
  BY DEF IInv, VersionsChained
<1>2. EventIdsUnique'
  BY DEF IInv, EventIdsUnique
<1>3. AuditMatchesVersions'
  BY DEF IInv, AuditMatchesVersions
<1> QED
  BY <1>1, <1>2, <1>3

(* The other handlers stay where they are.                                 *)
OthersKept(h) ==
  \A g \in Handler \ {h} : pc'[g] = pc[g] /\ ctx'[g] = ctx[g]

LEMMA FinishKeepsOthers ==
  ASSUME NEW h \in Handler, TypeOK, Finish(h)
  PROVE  OthersKept(h) /\ pc'[h] = "idle"
BY DEF OthersKept, Finish, TypeOK

LEMMA OperationSafe ==
  ASSUME NEW h \in Handler, IInv, Operation(h)
  PROVE  Safe'
<1> USE DEF IInv
<1>1. Begins(h)
  BY OperationBegins
<1>2. PICK op \in Action, u \in User, seen \in InstructionRow, b \in InstructionBody :
        /\ Begin(h, op, u, seen, b)
        /\ \/ /\ op = "CREATE" /\ seen.ver = 0
              /\ seen.id \in Instruction \ allocated
              /\ allocated' = allocated \cup {seen.id}
           \/ op # "CREATE" /\ seen \in rows /\ allocated' = allocated
  BY <1>1 DEF Begins
<1>3. /\ OthersKept(h) /\ pc[h] = "idle" /\ pc'[h] = "loaded"
      /\ rows' = rows /\ events' = events /\ counter' = counter
  BY <1>2 DEF Begin, OthersKept, TypeOK
<1>4. /\ ctx'[h].op = op /\ ctx'[h].actor = u /\ ctx'[h].seen = seen /\ ctx'[h].cur = seen
      /\ ctx'[h].body.action = op /\ ctx'[h].body.actor = u
      /\ ctx'[h].body.audited = Audited(u)
  BY <1>2 DEF Begin, TypeOK, InstructionBody
<1>5. VersionsChained' /\ EventIdsUnique' /\ AuditMatchesVersions'
  BY <1>3, CollectionsKept
<1>6. CreationsExclusive'
  <2>1. \A r \in rows' : r.id \in allocated' /\ r.ver > 0 /\ r.body.action # "VIEW"
    BY <1>2, <1>3 DEF CreationsExclusive
  <2>2. \A g \in Handler : Busy(g)' => Resource(g)' \in allocated'
    BY <1>2, <1>3, <1>4 DEF CreationsExclusive, OthersKept, Busy, Resource
  <2>3. ASSUME NEW f \in Handler, Creating(f)'
        PROVE  /\ ctx'[f].cur.ver = 0
               /\ \A r \in rows' : r.id # Resource(f)'
               /\ \A g \in Handler \ {f} : Busy(g)' => Resource(g)' # Resource(f)'
    <3>1. CASE f = h
      BY <2>3, <3>1, <1>2, <1>3, <1>4
      DEF CreationsExclusive, OthersKept, Creating, Busy, Resource
    <3>2. CASE f # h
      <4>1. Creating(f) /\ Busy(f) /\ Resource(f)' = Resource(f) /\ ctx'[f] = ctx[f]
        BY <2>3, <3>2, <1>3 DEF OthersKept, Creating, Busy, Resource
      <4>2. seen.id # Resource(f)
        BY <4>1, <1>2 DEF CreationsExclusive
      <4> QED
        BY <3>2, <4>1, <4>2, <1>3, <1>4 DEF CreationsExclusive, OthersKept, Busy, Resource
    <3> QED
      BY <3>1, <3>2
  <2> QED
    BY <2>1, <2>2, <2>3 DEF CreationsExclusive
<1>7. BodiesStamped'
  BY <1>3, <1>4 DEF BodiesStamped, OthersKept, Busy
<1>8. WritersExclusive'
  BY <1>3, <1>4 DEF WritersExclusive, OthersKept, Creating, Busy, Writing, InTransaction, Resource
<1>9. NumbersIssued'
  BY <1>3 DEF NumbersIssued, OthersKept, Resource
<1> QED
  BY <1>5, <1>6, <1>7, <1>8, <1>9 DEF Safe

(* A step that ends a request and leaves the collections alone.            *)
LEMMA FinishSafe ==
  ASSUME NEW h \in Handler, IInv, Finish(h), UNCHANGED <<rows, events, allocated>>,
         TypeOK', \A i \in Instruction : counter[i] <= counter'[i]
  PROVE  Safe'
<1> USE DEF IInv
<1>1. OthersKept(h) /\ pc'[h] = "idle"
  BY FinishKeepsOthers
<1>2. VersionsChained' /\ EventIdsUnique' /\ AuditMatchesVersions'
  BY CollectionsKept
<1>3. CreationsExclusive'
  BY <1>1 DEF CreationsExclusive, OthersKept, Creating, Busy, Resource
<1>4. BodiesStamped'
  BY <1>1 DEF BodiesStamped, OthersKept, Busy
<1>5. WritersExclusive'
  BY <1>1 DEF WritersExclusive, OthersKept, Creating, Busy, Writing, InTransaction, Resource
<1>6. NumbersIssued'
  <2>1. ASSUME NEW e \in events PROVE e.eid <= counter'[e.id]
    <3>1. e.id \in Instruction /\ e.eid \in Nat
      BY DEF TypeOK, SecurityEvent
    <3>2. counter[e.id] \in Nat /\ counter'[e.id] \in Nat
      BY <3>1 DEF TypeOK
    <3>3. e.eid <= counter[e.id] /\ counter[e.id] <= counter'[e.id]
      BY <3>1 DEF NumbersIssued
    <3> QED
      BY <3>1, <3>2, <3>3
  <2>2. ASSUME NEW g \in Handler, pc'[g] = "numbered"
        PROVE  /\ ctx'[g].eid <= counter'[Resource(g)']
               /\ \A e \in events : e.id = Resource(g)' => e.eid # ctx'[g].eid
    <3>1. pc[g] = "numbered" /\ ctx'[g] = ctx[g] /\ Resource(g)' = Resource(g)
      BY <2>2, <1>1 DEF OthersKept, Resource
    <3>2. Resource(g) \in Instruction /\ ctx[g].eid \in Nat
      BY <3>1 DEF TypeOK, Context, Resource, InstructionRow
    <3>3. counter[Resource(g)] \in Nat /\ counter'[Resource(g)] \in Nat
      BY <3>2 DEF TypeOK
    <3>4. ctx[g].eid <= counter[Resource(g)] /\ counter[Resource(g)] <= counter'[Resource(g)]
      BY <3>1, <3>2 DEF NumbersIssued
    <3>5. ctx[g].eid <= counter'[Resource(g)]
      BY <3>2, <3>3, <3>4
    <3>6. \A e \in events : e.id = Resource(g) => e.eid # ctx[g].eid
      BY <3>1 DEF NumbersIssued
    <3> QED
      BY <3>1, <3>5, <3>6
  <2> QED
    BY <2>1, <2>2 DEF NumbersIssued
<1> QED
  BY <1>2, <1>3, <1>4, <1>5, <1>6 DEF Safe

(* A handler that goes on with the same request.                           *)
GoesOn(h) ==
  /\ OthersKept(h) /\ pc[h] # "idle" /\ pc'[h] # "idle"
  /\ ctx'[h].op = ctx[h].op /\ ctx'[h].actor = ctx[h].actor
  /\ ctx'[h].seen = ctx[h].seen /\ ctx'[h].body = ctx[h].body
  /\ Creating(h) => ctx'[h].cur = ctx[h].cur

LEMMA GoesOnKeeps ==
  ASSUME NEW h \in Handler, IInv, GoesOn(h), UNCHANGED <<rows, events, allocated>>
  PROVE  /\ VersionsChained' /\ EventIdsUnique' /\ AuditMatchesVersions'
         /\ CreationsExclusive' /\ BodiesStamped'
<1> USE DEF IInv
<1>1. \A g \in Handler : /\ Busy(g)' <=> Busy(g)
                         /\ Resource(g)' = Resource(g)
                         /\ Creating(g)' <=> Creating(g)
                         /\ Creating(g) => ctx'[g].cur = ctx[g].cur
  BY DEF GoesOn, OthersKept, Busy, Resource, Creating
<1>2. CreationsExclusive'
  BY <1>1 DEF CreationsExclusive
<1>3. BodiesStamped'
  BY <1>1 DEF BodiesStamped, GoesOn, OthersKept, Busy
<1> QED
  BY <1>2, <1>3, CollectionsKept

(* The steps of a handler between its request and its commit.              *)
LEMMA MiddleSafe ==
  ASSUME NEW h \in Handler, IInv, TypeOK',
         Permit(h) \/ Deny(h) \/ FindCurrent(h) \/ WriteVersion(h) \/ NumberEvent(h)
  PROVE  Safe'
<1> USE DEF IInv
<1>1. CASE Permit(h)
  <2>1. GoesOn(h) /\ UNCHANGED <<rows, events, counter, allocated, ctx>> /\ pc'[h] = "permitted"
    BY <1>1 DEF Permit, GoesOn, OthersKept, TypeOK
  <2>2. WritersExclusive' /\ NumbersIssued'
    BY <2>1 DEF WritersExclusive, NumbersIssued, GoesOn, OthersKept,
                Creating, Busy, Writing, InTransaction, Resource
  <2> QED
    BY <2>1, <2>2, GoesOnKeeps DEF Safe
<1>2. CASE Deny(h)
  <2>1. CASE Finish(h)
    BY <1>2, <2>1, FinishSafe DEF Deny, TypeOK
  <2>2. CASE ~Finish(h)
    <3>1. /\ pc[h] = "loaded" /\ pc' = [pc EXCEPT ![h] = "refused"]
          /\ \/ \E r \in rows : r.id = Resource(h) /\ ctx' = [ctx EXCEPT ![h].cur = r]
             \/ ctx' = ctx
          /\ UNCHANGED <<rows, events, counter, allocated>>
      BY <1>2, <2>2 DEF Deny, CurrentRows
    <3>2. ctx[h] \in Context
      BY <3>1 DEF TypeOK
    <3>3. GoesOn(h) /\ pc'[h] = "refused"
      <4>1. Creating(h) => ctx' = ctx
        BY <3>1 DEF CreationsExclusive
      <4> QED
        BY <3>1, <3>2, <4>1 DEF GoesOn, OthersKept, TypeOK, Context
    <3>4. WritersExclusive' /\ NumbersIssued'
      BY <3>1, <3>3 DEF WritersExclusive, NumbersIssued, GoesOn, OthersKept,
                        Creating, Busy, Writing, InTransaction, Resource
    <3> QED
      BY <3>1, <3>3, <3>4, GoesOnKeeps DEF Safe
  <2> QED
    BY <2>1, <2>2
<1>3. CASE FindCurrent(h)
  <2>1. PICK r \in rows :
          r.id = Resource(h) /\ r.open /\ ctx' = [ctx EXCEPT ![h].cur = r]
    BY <1>3 DEF FindCurrent, CurrentRows
  <2>2. /\ pc[h] = "permitted" /\ pc' = [pc EXCEPT ![h] = "found"]
        /\ ctx[h].op \notin {"VIEW", "CREATE"} /\ ctx[h] \in Context
        /\ UNCHANGED <<rows, events, counter, allocated>>
    BY <1>3 DEF FindCurrent, TypeOK
  <2>3. GoesOn(h) /\ pc'[h] = "found" /\ ctx'[h].cur = r
    BY <2>1, <2>2 DEF GoesOn, OthersKept, Creating, TypeOK, Context
  <2>4. WritersExclusive' /\ NumbersIssued'
    BY <2>1, <2>2, <2>3 DEF WritersExclusive, NumbersIssued, GoesOn, OthersKept,
                            Creating, Busy, Writing, InTransaction, Resource
  <2> QED
    BY <2>2, <2>3, <2>4, GoesOnKeeps DEF Safe
<1>4. CASE WriteVersion(h)
  <2>1. /\ GoesOn(h) /\ pc'[h] = "written" /\ pc[h] \in {"found", "permitted"}
        /\ UNCHANGED <<rows, events, counter, allocated, ctx>>
    BY <1>4 DEF WriteVersion, GoesOn, OthersKept, TypeOK
  <2>2. \A g \in Handler \ {h} : Writing(g) => Resource(g) # Resource(h)
    BY <1>4 DEF WriteVersion, Contended, Writing, CreationsExclusive, Creating, Busy, InTransaction
  <2>3. /\ ctx[h].op # "VIEW"
        /\ ~Creating(h) => ctx[h].cur.id = Resource(h) /\ ctx[h].cur.open /\ ctx[h].cur \in rows
    BY <1>4 DEF WriteVersion, WritersExclusive, Creating, Busy
  <2>4. WritersExclusive'
    BY <2>1, <2>2, <2>3 DEF WritersExclusive, GoesOn, OthersKept,
                            Creating, Busy, Writing, InTransaction, Resource
  <2>5. NumbersIssued'
    BY <2>1 DEF NumbersIssued, GoesOn, OthersKept, Resource
  <2> QED
    BY <2>1, <2>4, <2>5, GoesOnKeeps DEF Safe
<1>5. CASE NumberEvent(h)
  <2> DEFINE i == Resource(h)
             n == counter[i] + 1
  <2>1. /\ pc[h] = "written" /\ ctx[h] \in Context /\ i \in Instruction
        /\ UNCHANGED <<rows, events, allocated>>
    BY <1>5 DEF NumberEvent, TypeOK, Context, Resource, InstructionRow
  <2>2. /\ GoesOn(h) /\ pc'[h] = "numbered"
        /\ ctx'[h].eid = n /\ ctx'[h].cur = ctx[h].cur
    BY <1>5, <2>1 DEF NumberEvent, GoesOn, OthersKept, TypeOK, Context
  <2>3. counter' = [counter EXCEPT ![i] = n] /\ counter[i] \in Nat
    BY <1>5, <2>1 DEF NumberEvent, TypeOK
  <2>4. WritersExclusive'
    BY <2>1, <2>2 DEF WritersExclusive, GoesOn, OthersKept,
                      Creating, Busy, Writing, InTransaction, Resource
  <2>5. NumbersIssued'
    <3>1. ASSUME NEW e \in events PROVE e.eid <= counter'[e.id]
      <4>1. e.id \in Instruction /\ e.eid \in Nat /\ counter[e.id] \in Nat
        BY DEF TypeOK, SecurityEvent
      <4>2. e.eid <= counter[e.id]
        BY DEF NumbersIssued
      <4> QED
        BY <4>1, <4>2, <2>3 DEF TypeOK
    <3>2. \A e \in events : e.id = i => e.eid # n
      <4>1. ASSUME NEW e \in events, e.id = i PROVE e.eid # n
        <5>1. e.eid \in Nat /\ e.eid <= counter[i]
          BY <4>1 DEF NumbersIssued, TypeOK, SecurityEvent
        <5> QED
          BY <5>1, <2>3
      <4> QED
        BY <4>1
    <3>3. ASSUME NEW g \in Handler, pc'[g] = "numbered"
          PROVE  /\ ctx'[g].eid <= counter'[Resource(g)']
                 /\ \A e \in events : e.id = Resource(g)' => e.eid # ctx'[g].eid
      <4>1. CASE g = h
        <5>1. Resource(h)' = i
          BY <2>2 DEF GoesOn, Resource
        <5> QED
          BY <4>1, <5>1, <2>1, <2>2, <2>3, <3>2 DEF TypeOK
      <4>2. CASE g # h
        <5>1. pc[g] = "numbered" /\ ctx'[g] = ctx[g] /\ Resource(g)' = Resource(g)
          BY <3>3, <4>2, <2>2 DEF GoesOn, OthersKept, Resource
        <5>2. Resource(g) # i
          BY <4>2, <5>1, <2>1 DEF WritersExclusive, Writing, InTransaction
        <5>3. counter'[Resource(g)] = counter[Resource(g)]
          BY <5>1, <5>2, <2>3 DEF TypeOK, Context, Resource, InstructionRow
        <5> QED
          BY <5>1, <5>3 DEF NumbersIssued
      <4> QED
        BY <4>1, <4>2
    <3> QED
      BY <3>1, <3>3, <2>1 DEF NumbersIssued
  <2> QED
    BY <2>1, <2>2, <2>4, <2>5, GoesOnKeeps DEF Safe
<1> QED
  BY <1>1, <1>2, <1>3, <1>4, <1>5

(* A refusal or a view is stored with a number nobody else has.            *)
LEMMA RecordNowSafe ==
  ASSUME NEW h \in Handler, NEW ver \in Nat, NEW verdict \in {"allow", "deny"},
         IInv, TypeOK', pc[h] # "idle", RecordNow(h, ver, verdict),
         verdict = "deny" \/ ctx[h].op = "VIEW"
  PROVE  Safe'
<1> USE DEF IInv
<1> DEFINE i == Resource(h)
           n == counter[i] + 1
           new == EventOf(h, n, ver, verdict)
<1>1. /\ i \in Instruction /\ counter[i] \in Nat
      /\ counter' = [counter EXCEPT ![i] = n] /\ events' = events \cup {new}
      /\ rows' = rows /\ allocated' = allocated
  BY DEF RecordNow, TypeOK, Context, Resource, InstructionRow
<1>2. OthersKept(h) /\ pc'[h] = "idle"
  BY FinishKeepsOthers DEF RecordNow
<1>3. new.id = i /\ new.eid = n /\ new.verdict = verdict /\ new.action = ctx[h].op
  BY DEF EventOf
<1>4. \A e \in events : e.id \in Instruction /\ e.eid \in Nat /\ counter[e.id] \in Nat
  BY DEF TypeOK, SecurityEvent
<1>5. \A e \in events : e.eid <= counter[e.id]
  BY DEF NumbersIssued
<1>6. \A e \in events : e.id = i => e.eid # n
  BY <1>1, <1>4, <1>5
<1> HIDE DEF new
<1>7. VersionsChained' /\ EventIdsUnique'
  <2>1. VersionsChained'
    BY <1>1 DEF VersionsChained
  <2>2. EventIdsUnique'
    BY <1>1, <1>3, <1>6 DEF EventIdsUnique
  <2> QED
    BY <2>1, <2>2
<1>8. AuditMatchesVersions'
  <2>1. \A r \in rows : ~Accounts(new, r)
    BY <1>3 DEF Accounts, CreationsExclusive
  <2> QED
    BY <2>1, <1>1, <1>3 DEF AuditMatchesVersions
<1>9. CreationsExclusive' /\ BodiesStamped'
  BY <1>1, <1>2 DEF CreationsExclusive, BodiesStamped, OthersKept, Creating, Busy, Resource
<1>10. WritersExclusive'
  BY <1>1, <1>2 DEF WritersExclusive, OthersKept, Creating, Busy, Writing, InTransaction, Resource
<1>11. NumbersIssued'
  <2>1. \A j \in Instruction : counter[j] <= counter'[j]
    BY <1>1 DEF TypeOK
  <2>2. ASSUME NEW e \in events' PROVE e.eid <= counter'[e.id]
    <3>1. CASE e = new
      BY <3>1, <1>1, <1>3 DEF TypeOK
    <3>2. CASE e \in events
      BY <3>2, <1>1, <1>4, <1>5 DEF TypeOK
    <3> QED
      BY <2>2, <3>1, <3>2, <1>1
  <2>3. ASSUME NEW g \in Handler, pc'[g] = "numbered"
        PROVE  /\ ctx'[g].eid <= counter'[Resource(g)']
               /\ \A e \in events' : e.id = Resource(g)' => e.eid # ctx'[g].eid
    <3>1. pc[g] = "numbered" /\ ctx'[g] = ctx[g] /\ Resource(g)' = Resource(g)
      BY <2>3, <1>2 DEF OthersKept, Resource
    <3>2. Resource(g) \in Instruction /\ ctx[g].eid \in Nat
      BY <3>1 DEF TypeOK, Context, Resource, InstructionRow
    <3>3. counter[Resource(g)] \in Nat /\ counter'[Resource(g)] \in Nat
      BY <3>2 DEF TypeOK
    <3>4. ctx[g].eid <= counter[Resource(g)]
      BY <3>1 DEF NumbersIssued
    <3>5. ctx[g].eid <= counter'[Resource(g)]
      BY <2>1, <3>2, <3>3, <3>4
    <3>6. \A e \in events : e.id = Resource(g) => e.eid # ctx[g].eid
      BY <3>1 DEF NumbersIssued
    <3>7. i = Resource(g) => n # ctx[g].eid
      BY <3>2, <3>4, <1>1
    <3> QED
      BY <3>1, <3>5, <3>6, <3>7, <1>1, <1>3
  <2> QED
    BY <2>2, <2>3 DEF NumbersIssued
<1> QED
  BY <1>7, <1>8, <1>9, <1>10, <1>11 DEF Safe

(* What a committing handler has in hand: its new version is the successor *)
(* of the newest version of its instruction, or the first.                 *)
Successor(h) == Row(Resource(h), ctx[h].cur.ver + 1, TRUE, ctx[h].body)

LEMMA CommitRows ==
  ASSUME NEW h \in Handler, IInv, Commit(h)
  PROVE  /\ VersionsChained'
         /\ \A r \in rows : r.id = Resource(h) => r.ver <= ctx[h].cur.ver
         /\ Successor(h) \in rows'
         /\ \A r \in rows' : \/ r = Successor(h)
                            \/ \E q \in rows : q.id = r.id /\ q.ver = r.ver /\ q.body = r.body
         /\ \A q \in rows : \E r \in rows' : q.id = r.id /\ q.ver = r.ver /\ q.body = r.body
         /\ \A q \in rows : q.id # Resource(h) => q \in rows'
<1> USE DEF IInv
<1>1. /\ Writing(h) /\ Busy(h) /\ StoreVersion(h) /\ ctx[h] \in Context
      /\ Resource(h) \in Instruction
      /\ ctx[h].body \in InstructionBody /\ ctx[h].cur \in InstructionRow
  BY DEF Commit, Writing, InTransaction, Busy, TypeOK, Context, Resource, InstructionRow
<1>2. CASE Creating(h)
  <2>1. ctx[h].cur.ver = 0 /\ \A r \in rows : r.id # Resource(h)
    BY <1>2 DEF CreationsExclusive
  <2>2. rows' = InsertInitial(rows, Resource(h), ctx[h].body)
    BY <1>1, <1>2 DEF StoreVersion, Creating
  <2>3. VersionsChained'
    BY <1>1, <2>1, <2>2, InsertInitialChains DEF VersionsChained, TypeOK, InstructionRow
  <2>4. rows' = rows \cup {Successor(h)}
    BY <2>1, <2>2 DEF InsertInitial, Successor
  <2> QED
    BY <2>1, <2>3, <2>4
<1>3. CASE ~Creating(h)
  <2>1. ctx[h].cur \in rows /\ ctx[h].cur.open /\ ctx[h].cur.id = Resource(h)
    BY <1>1, <1>3 DEF WritersExclusive
  <2>2. rows' = AppendVersion(rows, ctx[h].cur, ctx[h].body)
    BY <1>1, <1>3 DEF StoreVersion, Creating
  <2>3. VersionsChained'
    BY <1>1, <2>1, <2>2, AppendVersionChains DEF VersionsChained, TypeOK, InstructionRow
  <2>4. rows' = (rows \ {ctx[h].cur}) \cup {Closed(ctx[h].cur), Successor(h)}
    BY <2>1, <2>2 DEF AppendVersion, Successor
  <2>5. /\ Closed(ctx[h].cur).id = ctx[h].cur.id /\ Closed(ctx[h].cur).ver = ctx[h].cur.ver
        /\ Closed(ctx[h].cur).body = ctx[h].cur.body
    BY <1>1 DEF Closed, InstructionRow
  <2>6. \A r \in rows : r.id = Resource(h) => r.ver <= ctx[h].cur.ver
    BY <2>1 DEF VersionsChained, VersionChain, NewestIsCurrent
  <2> HIDE DEF Successor
  <2>7. \A r \in rows' : \/ r = Successor(h)
                        \/ \E q \in rows : q.id = r.id /\ q.ver = r.ver /\ q.body = r.body
    BY <2>1, <2>4, <2>5
  <2>8. \A q \in rows : \E r \in rows' : q.id = r.id /\ q.ver = r.ver /\ q.body = r.body
    BY <2>1, <2>4, <2>5
  <2> QED
    BY <2>1, <2>3, <2>4, <2>6, <2>7, <2>8
<1> QED
  BY <1>2, <1>3

LEMMA CommitSafe ==
  ASSUME NEW h \in Handler, IInv, TypeOK', Commit(h)
  PROVE  Safe'
<1> USE DEF IInv
<1> DEFINE i == Resource(h)
           nr == Successor(h)
           new == EventOf(h, ctx[h].eid, ctx[h].cur.ver + 1, "allow")
<1>1. /\ Writing(h) /\ Busy(h) /\ pc[h] \in {"written", "numbered"}
      /\ counter' = counter /\ allocated' = allocated
      /\ ctx[h] \in Context /\ i \in Instruction /\ ctx[h].cur.ver \in Nat
  BY DEF Commit, Writing, InTransaction, Busy, TypeOK, Context, Resource, InstructionRow
<1>2. OthersKept(h) /\ pc'[h] = "idle"
  BY FinishKeepsOthers DEF Commit
<1>3. /\ VersionsChained'
      /\ \A r \in rows : r.id = i => r.ver <= ctx[h].cur.ver
      /\ nr \in rows'
      /\ \A r \in rows' : \/ r = nr
                         \/ \E q \in rows : q.id = r.id /\ q.ver = r.ver /\ q.body = r.body
      /\ \A q \in rows : \E r \in rows' : q.id = r.id /\ q.ver = r.ver /\ q.body = r.body
      /\ \A q \in rows : q.id # i => q \in rows'
  BY CommitRows
<1>4. nr.id = i /\ nr.ver = ctx[h].cur.ver + 1 /\ nr.body = ctx[h].body
  BY DEF Successor, Row
<1>5. /\ nr.body.action = ctx[h].op /\ nr.body.action # "VIEW" /\ nr.body.actor = ctx[h].actor
      /\ nr.body.audited = Audited(ctx[h].actor)
  BY <1>1, <1>4 DEF BodiesStamped, WritersExclusive
<1>6. /\ new.id = i /\ new.ver = ctx[h].cur.ver + 1 /\ new.eid = ctx[h].eid
      /\ new.verdict = "allow" /\ new.action = ctx[h].op /\ new.actor = ctx[h].actor
  BY DEF EventOf
<1>7. \/ pc[h] = "numbered" /\ events' = events \cup {new}
      \/ ~nr.body.audited /\ events' = events
  BY <1>5 DEF Commit
<1>8. \A r \in rows : r.ver \in Nat /\ r.ver > 0
  BY DEF CreationsExclusive, TypeOK, InstructionRow
<1>9. \A r \in rows : r.id = i => r.ver # ctx[h].cur.ver + 1
  BY <1>1, <1>3, <1>8
<1> HIDE DEF nr, new
<1>10. EventIdsUnique' /\ NumbersIssued'
  <2>1. CASE events' = events
    <3>1. EventIdsUnique'
      BY <2>1 DEF EventIdsUnique
    <3>2. NumbersIssued'
      BY <2>1, <1>1, <1>2 DEF NumbersIssued, OthersKept, Resource
    <3> QED
      BY <3>1, <3>2
  <2>2. CASE pc[h] = "numbered" /\ events' = events \cup {new}
    <3>1. ctx[h].eid <= counter[i] /\ \A e \in events : e.id = i => e.eid # ctx[h].eid
      BY <2>2 DEF NumbersIssued
    <3>2. EventIdsUnique'
      BY <2>2, <3>1, <1>6 DEF EventIdsUnique
    <3>3. \A g \in Handler \ {h} : Writing(g) => Resource(g) # i
      BY <1>1 DEF WritersExclusive
    <3>4. \A e \in events' : e.eid <= counter'[e.id]
      BY <2>2, <3>1, <1>1, <1>6 DEF NumbersIssued
    <3>5. ASSUME NEW g \in Handler, pc'[g] = "numbered"
          PROVE  /\ ctx'[g].eid <= counter'[Resource(g)']
                 /\ \A e \in events' : e.id = Resource(g)' => e.eid # ctx'[g].eid
      <4>1. pc[g] = "numbered" /\ ctx'[g] = ctx[g] /\ Resource(g)' = Resource(g) /\ g # h
        BY <3>5, <1>2 DEF OthersKept, Resource
      <4>2. Resource(g) # i
        BY <4>1, <3>3 DEF Writing, InTransaction
      <4> QED
        BY <4>1, <4>2, <2>2, <1>1, <1>6 DEF NumbersIssued
    <3> QED
      BY <3>2, <3>4, <3>5 DEF NumbersIssued
  <2> QED
    BY <1>7, <2>1, <2>2
<1>11. AuditMatchesVersions'
  <2>1. ASSUME NEW e \in events PROVE ~Accounts(e, nr)
    <3>1. SUFFICES ASSUME Accounts(e, nr) PROVE FALSE
      OBVIOUS
    <3>2. e.verdict = "allow" /\ e.action # "VIEW"
      BY <3>1, <1>5 DEF Accounts
    <3>3. PICK r \in rows : Accounts(e, r)
      BY <3>2 DEF AuditMatchesVersions
    <3>4. r.id = i /\ r.ver = ctx[h].cur.ver + 1
      BY <3>1, <3>3, <1>4 DEF Accounts
    <3> QED
      BY <3>4, <1>9
  <2>2. \A r \in rows : ~Accounts(new, r)
    BY <1>6, <1>9 DEF Accounts
  <2>3. Accounts(new, nr)
    BY <1>4, <1>5, <1>6 DEF Accounts
  <2>4. ASSUME NEW r \in rows', r.body.audited
        PROVE  /\ \E e \in events' : Accounts(e, r)
               /\ \A e, f \in events' : Accounts(e, r) /\ Accounts(f, r) => e = f
    <3>1. CASE r = nr
      BY <2>4, <3>1, <2>1, <2>3, <1>7
    <3>2. CASE \E q \in rows : q.id = r.id /\ q.ver = r.ver /\ q.body = r.body
      <4>1. PICK q \in rows : q.id = r.id /\ q.ver = r.ver /\ q.body = r.body
        BY <3>2
      <4>2. \A e : Accounts(e, r) <=> Accounts(e, q)
        BY <4>1 DEF Accounts
      <4>3. /\ \E e \in events : Accounts(e, q)
            /\ \A e, f \in events : Accounts(e, q) /\ Accounts(f, q) => e = f
        BY <4>1, <2>4 DEF AuditMatchesVersions
      <4> QED
        BY <4>2, <4>3, <2>2, <1>7
    <3> QED
      BY <3>1, <3>2, <1>3
  <2>5. ASSUME NEW e \in events', e.verdict = "allow", e.action # "VIEW"
        PROVE  \E r \in rows' : Accounts(e, r)
    <3>1. CASE e = new
      BY <3>1, <2>3, <1>3
    <3>2. CASE e \in events
      <4>1. PICK q \in rows : Accounts(e, q)
        BY <3>2, <2>5 DEF AuditMatchesVersions
      <4>2. PICK r \in rows' : q.id = r.id /\ q.ver = r.ver /\ q.body = r.body
        BY <1>3
      <4> QED
        BY <4>1, <4>2 DEF Accounts
    <3> QED
      BY <2>5, <3>1, <3>2, <1>7
  <2> QED
    BY <2>4, <2>5 DEF AuditMatchesVersions, Accounts
<1>12. CreationsExclusive'
  <2>1. \A g \in Handler : Creating(g) /\ g # h => Resource(g) # i
    BY <1>1 DEF CreationsExclusive
  <2>2. ASSUME NEW r \in rows' PROVE r.id \in allocated' /\ r.ver > 0 /\ r.body.action # "VIEW"
    <3>1. CASE r = nr
      BY <3>1, <1>1, <1>4, <1>5 DEF CreationsExclusive
    <3>2. CASE \E q \in rows : q.id = r.id /\ q.ver = r.ver /\ q.body = r.body
      BY <3>2, <1>1 DEF CreationsExclusive
    <3> QED
      BY <3>1, <3>2, <1>3
  <2>3. \A g \in Handler : Busy(g)' =>
          /\ Busy(g) /\ g # h /\ ctx'[g] = ctx[g] /\ Resource(g)' = Resource(g)
          /\ Creating(g)' <=> Creating(g)
    BY <1>2 DEF OthersKept, Creating, Busy, Resource
  <2>4. ASSUME NEW g \in Handler, Creating(g)' PROVE \A r \in rows' : r.id # Resource(g)'
    <3>1. Creating(g) /\ g # h /\ Resource(g)' = Resource(g)
      BY <2>3, <2>4 DEF Creating
    <3>2. Resource(g) # i /\ \A q \in rows : q.id # Resource(g)
      BY <3>1, <2>1 DEF CreationsExclusive
    <3> QED
      BY <3>1, <3>2, <1>3, <1>4
  <2>5. \A g \in Handler : Busy(g)' => Resource(g)' \in allocated'
    BY <2>3, <1>1 DEF CreationsExclusive
  <2>6. ASSUME NEW f \in Handler, Creating(f)'
        PROVE  /\ ctx'[f].cur.ver = 0
               /\ \A g \in Handler \ {f} : Busy(g)' => Resource(g)' # Resource(f)'
    <3>1. Creating(f) /\ ctx'[f] = ctx[f] /\ Resource(f)' = Resource(f)
      BY <2>6, <2>3 DEF Creating
    <3> QED
      BY <3>1, <2>3 DEF CreationsExclusive
  <2> QED
    BY <2>2, <2>4, <2>5, <2>6 DEF CreationsExclusive
<1>13. BodiesStamped'
  BY <1>2 DEF BodiesStamped, OthersKept, Busy
<1>14. WritersExclusive'
  <2>1. ASSUME NEW g \in Handler, Writing(g)', ~Creating(g)' PROVE ctx'[g].cur \in rows'
    <3>1. Writing(g) /\ ~Creating(g) /\ g # h /\ ctx'[g] = ctx[g] /\ Resource(g)' = Resource(g)
      BY <2>1, <1>2 DEF OthersKept, Writing, Creating, Busy, InTransaction, Resource
    <3>2. ctx[g].cur \in rows /\ ctx[g].cur.id = Resource(g) /\ Resource(g) # i
      BY <3>1, <1>1 DEF WritersExclusive
    <3> QED
      BY <3>1, <3>2, <1>3
  <2> QED
    BY <2>1, <1>2 DEF WritersExclusive, OthersKept, Creating, Busy, Writing, InTransaction, Resource
<1> QED
  BY <1>3, <1>10, <1>11, <1>12, <1>13, <1>14 DEF Safe

LEMMA CrashSafe ==
  ASSUME IInv, Crash
  PROVE  Safe'
<1> USE DEF IInv
<1>1. \A h \in Handler : pc'[h] # "idle" =>
        pc'[h] = "orphaned" /\ Writing(h) /\ Busy(h) /\ ctx'[h] = ctx[h]
  BY DEF Crash, Writing, Busy, InTransaction, TypeOK
<1>2. UNCHANGED <<rows, events, counter, allocated>>
  BY DEF Crash
<1>3. CreationsExclusive'
  BY <1>1, <1>2 DEF CreationsExclusive, Creating, Busy, Resource
<1>4. BodiesStamped'
  BY <1>1 DEF BodiesStamped, Busy
<1>5. WritersExclusive'
  BY <1>1, <1>2 DEF WritersExclusive, Creating, Busy, Writing, InTransaction, Resource
<1>6. NumbersIssued'
  BY <1>1, <1>2 DEF NumbersIssued, Resource
<1> QED
  BY <1>2, <1>3, <1>4, <1>5, <1>6, CollectionsKept DEF Safe

LEMMA ProgressSafe ==
  ASSUME NEW h \in Handler, IInv, TypeOK', Progress(h)
  PROVE  Safe'
<1>1. TypeOK /\ \A i \in Instruction : counter[i] <= counter[i]
  BY DEF IInv, TypeOK
<1>2. CASE AnswerView(h) \/ Conflict(h) \/ ExpireTransaction(h)
  BY <1>1, <1>2, FinishSafe DEF AnswerView, Conflict, ExpireTransaction
<1>3. CASE RecordRefusal(h)
  <2>1. ctx[h].cur.ver \in Nat
    BY <1>1, <1>3 DEF RecordRefusal, TypeOK, Context, InstructionRow
  <2> QED
    BY <1>3, <2>1, RecordNowSafe DEF RecordRefusal
<1>4. CASE RecordView(h)
  <2>1. ctx[h].seen.ver \in Nat
    BY <1>1, <1>4 DEF RecordView, TypeOK, Context, InstructionRow
  <2> QED
    BY <1>4, <2>1, RecordNowSafe DEF RecordView
<1>5. CASE Commit(h)
  BY <1>5, CommitSafe
<1> QED
  BY <1>2, <1>3, <1>4, <1>5, MiddleSafe DEF Progress

LEMMA InvariantStep == IInv /\ [Next]_vars => IInv'
<1> SUFFICES ASSUME IInv, [Next]_vars PROVE IInv'
  OBVIOUS
<1>1. TypeOK'
  BY TypeStep DEF IInv
<1>2. ASSUME NEW h \in Handler, LoseNumber(h) \/ Abort(h) PROVE Safe'
  <2>1. Finish(h) /\ UNCHANGED <<rows, events, allocated>>
    BY <1>2 DEF LoseNumber, Abort
  <2>2. \A i \in Instruction : counter[i] <= counter'[i]
    BY <1>2 DEF LoseNumber, Abort, IInv, TypeOK
  <2> QED
    BY <1>1, <2>1, <2>2, FinishSafe
<1>3. ASSUME UNCHANGED vars PROVE Safe'
  <2>1. VersionsChained' /\ EventIdsUnique' /\ AuditMatchesVersions'
    BY <1>3, CollectionsKept DEF vars
  <2>2. CreationsExclusive' /\ BodiesStamped'
    BY <1>3 DEF vars, IInv, CreationsExclusive, BodiesStamped, Busy, Creating, Resource
  <2>3. WritersExclusive' /\ NumbersIssued'
    BY <1>3 DEF vars, IInv, WritersExclusive, NumbersIssued, Busy, Creating, Writing, Resource
  <2> QED
    BY <2>1, <2>2, <2>3 DEF Safe
<1>4. Safe'
  BY <1>1, <1>2, <1>3, OperationSafe, ProgressSafe, CrashSafe DEF Next
<1> QED
  BY <1>1, <1>4 DEF IInv, Safe

LEMMA InvariantInit == Init => IInv
<1> SUFFICES ASSUME Init PROVE IInv
  OBVIOUS
<1>1. TypeOK
  BY ConstantsAssumption DEF Init, TypeOK, Phase
<1>2. VersionsChained
  BY DEF Init, VersionsChained, VersionChain, UniqueRowIds, NewestIsCurrent, NoVersionGap
<1>3. CreationsExclusive /\ BodiesStamped /\ WritersExclusive
  BY DEF Init, CreationsExclusive, BodiesStamped, WritersExclusive,
         Busy, Creating, Writing, InTransaction
<1>4. NumbersIssued /\ EventIdsUnique /\ AuditMatchesVersions
  BY DEF Init, NumbersIssued, EventIdsUnique, AuditMatchesVersions
<1> QED
  BY <1>1, <1>2, <1>3, <1>4 DEF IInv

LEMMA InvariantHolds == Spec => []IInv
BY InvariantInit, InvariantStep, PTL DEF Spec

(* However many requests race, abort or die half way, the versions of an   *)
(* instruction are numbered 1, 2, ... without gap or duplicate and the     *)
(* newest is the current one (append_version in its transaction).          *)
THEOREM VersionsStayChained == Spec => []VersionsChained
<1>1. IInv => VersionsChained
  BY DEF IInv
<1> QED
  BY <1>1, InvariantHolds, PTL

(* No security event is ever overwritten or confused with another: its     *)
(* identifier is its own, although numbers are drawn outside the           *)
(* transaction and lost by aborts (_save_instruction_with_security_event). *)
THEOREM EventIdsStayUnique == Spec => []EventIdsUnique
<1>1. IInv => EventIdsUnique
  BY DEF IInv
<1> QED
  BY <1>1, InvariantHolds, PTL

(* The audit trail and the versions always agree: one event per audited    *)
(* version, and no event about a mutation that did not happen.             *)
THEOREM AuditStaysComplete == Spec => []AuditMatchesVersions
<1>1. IInv => AuditMatchesVersions
  BY DEF IInv
<1> QED
  BY <1>1, InvariantHolds, PTL

---------------------------------------------------------------------------
(* Where the versions of an instruction come from: each is a lifecycle     *)
(* step from an earlier one, counts its uses, and was approved by somebody *)
(* other than its author - although a handler works on a copy that others  *)
(* supersede while it waits.  And the service implements AuditLedger.      *)

(* What an operation makes of a copy that is sound.                        *)
Derived(op, u, c, b) ==
  /\ StepOf(op, u, c, b)
  /\ BodyAccounted(c) => BodyAccounted(b)
  /\ BodyApproved(c) => BodyApproved(b)

Derives(h) ==
  \E op \in Action, u \in User, seen \in InstructionRow, b \in InstructionBody :
    /\ Begin(h, op, u, seen, b)
    /\ \/ op = "CREATE" /\ \E k \in Kind : b = NewBody(u, k)
       \/ op # "CREATE" /\ seen \in rows /\ Derived(op, u, seen.body, b)

LEMMA OnCurrentDerives ==
  ASSUME NEW h \in Handler, NEW op \in Action, NEW u \in User, NEW r \in rows,
         NEW from, NEW b \in InstructionBody, TypeOK, op # "CREATE",
         OnCurrent(h, op, u, r, from, b), Derived(op, u, r.body, b)
  PROVE  Derives(h)
<1>1. r \in InstructionRow
  BY DEF TypeOK
<1>2. Begin(h, op, u, r, b)
  BY DEF OnCurrent
<1> QED
  BY <1>1, <1>2 DEF Derives

LEMMA OperationDerives ==
  ASSUME NEW h \in Handler, TypeOK, Operation(h)
  PROVE  Derives(h)
<1>1. ASSUME NEW u \in User, Create(h, u)
      PROVE  Derives(h)
  <2>1. PICK i \in Instruction \ allocated, k \in Kind :
          Begin(h, "CREATE", u, Row(i, 0, FALSE, NewBody(u, k)), NewBody(u, k))
    BY <1>1 DEF Create
  <2>2. NewBody(u, k) \in InstructionBody
    BY DEF NewBody, InstructionBody, Status, Action, Audited
  <2>3. Row(i, 0, FALSE, NewBody(u, k)) \in InstructionRow
    BY <2>2 DEF Row, InstructionRow
  <2> QED
    BY <2>1, <2>2, <2>3 DEF Derives, Action
<1>2. ASSUME NEW u \in User, NEW r \in rows,
             \/ Update(h, u, r) \/ Cancel(h, u, r) \/ Submit(h, u, r)
             \/ Approve(h, u, r) \/ Reject(h, u, r) \/ Suspend(h, u, r)
             \/ Reactivate(h, u, r) \/ Use(h, u, r) \/ ReleaseUse(h, u, r)
             \/ View(h, u, r)
      PROVE  Derives(h)
  <2>1. r.body \in InstructionBody /\ u # Null
    BY ConstantsAssumption DEF TypeOK, InstructionRow
  <2>2. CASE Update(h, u, r)
    <3>1. PICK k \in Kind :
            OnCurrent(h, "UPDATE", u, r, {"DRAFT"}, [r.body EXCEPT !.kind = k])
      BY <2>2 DEF Update
    <3> DEFINE b == [r.body EXCEPT !.kind = k]
    <3>2. b \in InstructionBody /\ "UPDATE" \in Action /\ r.body.status = "DRAFT"
      BY <2>1, <3>1 DEF InstructionBody, Action, OnCurrent
    <3>3. Derived("UPDATE", u, r.body, b)
      BY <2>1, <3>2
      DEF Derived, StepOf, BodyAccounted, BodyApproved, Lifecycle, InstructionBody
    <3> QED
      BY <3>1, <3>2, <3>3, OnCurrentDerives
  <2>3. CASE Cancel(h, u, r)
    <3> DEFINE b == [r.body EXCEPT !.status = "CANCELLED"]
    <3>1. b \in InstructionBody /\ "CANCEL" \in Action /\ r.body.status \in {"DRAFT", "SUBMITTED"}
      BY <2>1, <2>3 DEF InstructionBody, Action, Status, Cancel, OnCurrent
    <3>2. Derived("CANCEL", u, r.body, b)
      BY <2>1, <3>1
      DEF Derived, StepOf, BodyAccounted, BodyApproved, Lifecycle, InstructionBody
    <3> QED
      BY <2>3, <3>1, <3>2, OnCurrentDerives DEF Cancel
  <2>4. CASE Submit(h, u, r)
    <3> DEFINE b == [r.body EXCEPT !.status = "SUBMITTED"]
    <3>1. b \in InstructionBody /\ "SUBMIT" \in Action /\ r.body.status = "DRAFT"
      BY <2>1, <2>4 DEF InstructionBody, Action, Status, Submit, OnCurrent
    <3>2. Derived("SUBMIT", u, r.body, b)
      BY <2>1, <3>1
      DEF Derived, StepOf, BodyAccounted, BodyApproved, Lifecycle, InstructionBody
    <3> QED
      BY <2>4, <3>1, <3>2, OnCurrentDerives DEF Submit
  <2>5. CASE Approve(h, u, r)
    <3> DEFINE b == [r.body EXCEPT !.status = "APPROVED", !.approvedBy = u]
    <3>1. b \in InstructionBody /\ "APPROVE" \in Action /\ r.body.status = "SUBMITTED"
      BY <2>1, <2>5 DEF InstructionBody, Action, Status, Approve, OnCurrent
    <3>2. Derived("APPROVE", u, r.body, b)
      BY <2>1, <3>1
      DEF Derived, StepOf, BodyAccounted, BodyApproved, Lifecycle, InstructionBody
    <3> QED
      BY <2>5, <3>1, <3>2, OnCurrentDerives DEF Approve
  <2>6. CASE Reject(h, u, r)
    <3> DEFINE b == [r.body EXCEPT !.status = "REJECTED"]
    <3>1. b \in InstructionBody /\ "REJECT" \in Action /\ r.body.status = "SUBMITTED"
      BY <2>1, <2>6 DEF InstructionBody, Action, Status, Reject, OnCurrent
    <3>2. Derived("REJECT", u, r.body, b)
      BY <2>1, <3>1
      DEF Derived, StepOf, BodyAccounted, BodyApproved, Lifecycle, InstructionBody
    <3> QED
      BY <2>6, <3>1, <3>2, OnCurrentDerives DEF Reject
  <2>7. CASE Suspend(h, u, r)
    <3> DEFINE b == [r.body EXCEPT !.status = "SUSPENDED", !.suspendedBy = u]
    <3>1. b \in InstructionBody /\ "SUSPEND" \in Action /\ r.body.status = "APPROVED"
      BY <2>1, <2>7 DEF InstructionBody, Action, Status, Suspend, OnCurrent
    <3>2. Derived("SUSPEND", u, r.body, b)
      BY <2>1, <3>1
      DEF Derived, StepOf, BodyAccounted, BodyApproved, Lifecycle, InstructionBody
    <3> QED
      BY <2>7, <3>1, <3>2, OnCurrentDerives DEF Suspend
  <2>8. CASE Reactivate(h, u, r)
    <3> DEFINE b == [r.body EXCEPT !.status = "APPROVED", !.suspendedBy = Null]
    <3>1. b \in InstructionBody /\ "REACTIVATE" \in Action /\ r.body.status = "SUSPENDED"
      BY <2>1, <2>8 DEF InstructionBody, Action, Status, Reactivate, OnCurrent
    <3>2. Derived("REACTIVATE", u, r.body, b)
      BY <2>1, <3>1
      DEF Derived, StepOf, BodyAccounted, BodyApproved, Lifecycle, InstructionBody
    <3> QED
      BY <2>8, <3>1, <3>2, OnCurrentDerives DEF Reactivate
  <2>9. CASE Use(h, u, r)
    <3>1. PICK p \in Payment : OnCurrent(h, "USE", u, r, {"APPROVED"}, UsedBody(r.body, p))
      BY <2>9 DEF Use
    <3>2. /\ r.body.status = "APPROVED" /\ r.body.usage + 1 \in Nat /\ r.body.usage \in Nat
          /\ p # Null /\ "USE" \in Action /\ "USED" \in Status
      BY <2>1, <3>1, ConstantsAssumption DEF InstructionBody, OnCurrent, Action, Status
    <3>3. CASE r.body.kind = "SINGLE_USE"
      <4> DEFINE b == [r.body EXCEPT !.usage = r.body.usage + 1, !.status = "USED", !.usedBy = p]
      <4>1. UsedBody(r.body, p) = b
        BY <3>3 DEF UsedBody
      <4>2. b \in InstructionBody
        BY <2>1, <3>2 DEF InstructionBody
      <4>3. Derived("USE", u, r.body, b)
        BY <2>1, <3>2, <3>3
      DEF Derived, StepOf, BodyAccounted, BodyApproved, Lifecycle, InstructionBody
      <4> QED
        BY <3>1, <3>2, <4>1, <4>2, <4>3, OnCurrentDerives
    <3>4. CASE r.body.kind # "SINGLE_USE"
      <4> DEFINE b == [r.body EXCEPT !.usage = r.body.usage + 1]
      <4>1. UsedBody(r.body, p) = b
        BY <3>4 DEF UsedBody
      <4>2. b \in InstructionBody
        BY <2>1, <3>2 DEF InstructionBody
      <4>3. Derived("USE", u, r.body, b)
        BY <2>1, <3>2, <3>4
      DEF Derived, StepOf, BodyAccounted, BodyApproved, Lifecycle, InstructionBody
      <4> QED
        BY <3>1, <3>2, <4>1, <4>2, <4>3, OnCurrentDerives
    <3> QED
      BY <3>3, <3>4
  <2>10. CASE ReleaseUse(h, u, r)
    <3>1. /\ OnCurrent(h, "RELEASE_USE", u, r, {"USED"}, ReleasedBody(r.body))
          /\ r.body.kind = "SINGLE_USE"
      BY <2>10 DEF ReleaseUse
    <3>2. PICK n \in Nat : n = IF r.body.usage > 0 THEN r.body.usage - 1 ELSE r.body.usage
      BY <2>1 DEF InstructionBody
    <3> DEFINE b == [r.body EXCEPT !.status = "APPROVED", !.usedBy = Null, !.usage = n]
    <3>3. ReleasedBody(r.body) = b
      BY <3>2 DEF ReleasedBody
    <3>4. "APPROVED" \in Status /\ "RELEASE_USE" \in Action /\ r.body.status = "USED"
      BY <3>1 DEF Status, Action, OnCurrent
    <3>5. b \in InstructionBody
      BY <2>1, <3>4 DEF InstructionBody
    <3>6. Derived("RELEASE_USE", u, r.body, b)
      BY <2>1, <3>1, <3>2, <3>4
      DEF Derived, StepOf, BodyAccounted, BodyApproved, Lifecycle, InstructionBody
    <3> QED
      BY <3>1, <3>3, <3>4, <3>5, <3>6, OnCurrentDerives
  <2>11. CASE View(h, u, r)
    <3>1. Derived("VIEW", u, r.body, r.body)
      BY DEF Derived, StepOf
    <3> QED
      BY <2>1, <2>11, <3>1, OnCurrentDerives DEF View, Action
  <2> QED
    BY <1>2, <2>2, <2>3, <2>4, <2>5, <2>6, <2>7, <2>8, <2>9, <2>10, <2>11
<1> QED
  BY <1>1, <1>2 DEF Operation

(* Nothing stored disappears: closing a row changes neither its number nor *)
(* its body.                                                               *)
RowsRemain == \A q \in rows : Stored(q.id, q.ver, q.body)'

LEMMA SameRowsRemain ==
  ASSUME rows' = rows
  PROVE  /\ RowsRemain
         /\ LegalLineage /\ RowsSound => LegalLineage' /\ RowsSound'
BY DEF RowsRemain, Stored, LegalLineage, RowsSound

(* The other handlers' copies stay sound.                                  *)
LEMMA OthersSound ==
  ASSUME NEW g \in Handler, CopiesSound, RowsRemain, Busy(g)', ctx'[g] = ctx[g], Busy(g),
         pc'[g] \notin {"loaded", "refused"} =>
           \/ pc[g] \notin {"loaded", "refused"}
           \/ ctx[g].body.approvedBy # ctx[g].body.createdBy
  PROVE  SoundCopy(g)'
<1>1. SoundCopy(g) /\ Resource(g)' = Resource(g) /\ (Creating(g)' <=> Creating(g))
  BY DEF CopiesSound, Resource, Creating
<1>2. Creating(g) => Drafted(g)'
  BY <1>1 DEF SoundCopy, Drafted
<1>3. ~Creating(g) => Copied(g)'
  BY <1>1 DEF SoundCopy, Copied, Stored, RowsRemain
<1> QED
  BY <1>1, <1>2, <1>3 DEF SoundCopy

LEMMA BeginSound ==
  ASSUME NEW h \in Handler, IInv, LineageInv, Operation(h)
  PROVE  LineageInv'
<1> USE DEF IInv, LineageInv
<1>1. PICK op \in Action, u \in User, seen \in InstructionRow, b \in InstructionBody :
        /\ Begin(h, op, u, seen, b)
        /\ \/ op = "CREATE" /\ \E k \in Kind : b = NewBody(u, k)
           \/ op # "CREATE" /\ seen \in rows /\ Derived(op, u, seen.body, b)
  BY OperationDerives DEF Derives
<1> DEFINE d == ctx'[h].body
<1>2. /\ rows' = rows /\ pc'[h] = "loaded"
      /\ \A g \in Handler \ {h} : pc'[g] = pc[g] /\ ctx'[g] = ctx[g]
      /\ ctx'[h].op = op /\ ctx'[h].actor = u /\ ctx'[h].seen = seen
  BY <1>1 DEF Begin, TypeOK
<1>3. /\ d.status = b.status /\ d.kind = b.kind /\ d.createdBy = b.createdBy
      /\ d.approvedBy = b.approvedBy /\ d.usedBy = b.usedBy /\ d.usage = b.usage
      /\ d.base = seen.ver
  BY <1>1 DEF Begin, TypeOK, InstructionBody
<1>4. RowsRemain /\ LegalLineage' /\ RowsSound'
  BY <1>2, SameRowsRemain
<1>5. SoundCopy(h)'
  <2>1. CASE op = "CREATE"
    <3>1. PICK k \in Kind : b = NewBody(u, k)
      BY <1>1, <2>1
    <3>2. b.status = "DRAFT" /\ b.createdBy = u /\ b.approvedBy = Null
      BY <3>1 DEF NewBody
    <3>3. b.usedBy = Null /\ b.usage = 0
      BY <3>1 DEF NewBody
    <3> QED
      BY <2>1, <3>2, <3>3, <1>2, <1>3
      DEF SoundCopy, Creating, Busy, Drafted, BodyAccounted, BodyApproved
  <2>2. CASE op # "CREATE"
    <3>1. seen \in rows /\ Derived(op, u, seen.body, b)
      BY <1>1, <2>2
    <3>2. BodyAccounted(b) /\ BodyApproved(b) /\ StepOf(op, u, seen.body, b)
      BY <3>1 DEF Derived, RowsSound
    <3>3. BodyAccounted(d) /\ BodyApproved(d) /\ StepOf(op, u, seen.body, d)
      BY <3>2, <1>3 DEF BodyAccounted, BodyApproved, StepOf
    <3>4. Copied(h)'
      BY <3>1, <3>3, <1>2, <1>3 DEF Copied, Stored, Resource
    <3> QED
      BY <2>2, <3>3, <3>4, <1>2 DEF SoundCopy, Creating
  <2> QED
    BY <2>1, <2>2
<1>6. CopiesSound'
  BY <1>2, <1>4, <1>5, OthersSound DEF CopiesSound, Busy
<1> QED
  BY <1>4, <1>6

(* A step of h that ends its request, or goes on with it, and stores no    *)
(* version.                                                                *)
LEMMA StayingSound ==
  ASSUME NEW h \in Handler, LineageInv, OthersKept(h), rows' = rows,
         \/ pc'[h] = "idle"
         \/ /\ GoesOn(h)
            /\ pc'[h] \notin {"loaded", "refused"} =>
                 \/ pc[h] \notin {"loaded", "refused"}
                 \/ ctx[h].body.approvedBy # ctx[h].body.createdBy
  PROVE  LineageInv'
<1> USE DEF LineageInv
<1>1. RowsRemain /\ LegalLineage' /\ RowsSound'
  BY SameRowsRemain
<1>2. ASSUME NEW g \in Handler \ {h}, Busy(g)' PROVE SoundCopy(g)'
  BY <1>1, <1>2, OthersSound DEF OthersKept, Busy
<1>3. ASSUME Busy(h)' PROVE SoundCopy(h)'
  <2>1. /\ SoundCopy(h) /\ ctx'[h].op = ctx[h].op /\ ctx'[h].actor = ctx[h].actor
        /\ ctx'[h].seen = ctx[h].seen /\ ctx'[h].body = ctx[h].body
        /\ Resource(h)' = Resource(h) /\ (Creating(h)' <=> Creating(h))
    BY <1>3 DEF GoesOn, Busy, CopiesSound, Resource, Creating
  <2>2. (Creating(h) => Drafted(h)') /\ (~Creating(h) => Copied(h)')
    BY <2>1 DEF SoundCopy, Drafted, Copied, Stored
  <2> QED
    BY <1>3, <2>1, <2>2 DEF SoundCopy, Busy
<1> QED
  BY <1>1, <1>2, <1>3 DEF CopiesSound

(* Whoever the policy lets go on did not write what he approves.           *)
LEMMA PermitSeparates ==
  ASSUME NEW h \in Handler, IInv, LineageInv, Permit(h)
  PROVE  ctx[h].body.approvedBy # ctx[h].body.createdBy
<1> USE DEF IInv, LineageInv
<1>1. SoundCopy(h) /\ ctx[h] \in Context
  BY DEF Permit, CopiesSound, Busy, TypeOK
<1>2. CASE Creating(h)
  BY <1>1, <1>2, ConstantsAssumption DEF SoundCopy, Drafted, Context
<1>3. CASE ~Creating(h) /\ ctx[h].op = "APPROVE"
  BY <1>1, <1>3 DEF SoundCopy, Copied, StepOf, Permit, PolicyAllows
<1>4. CASE ~Creating(h) /\ ctx[h].op # "APPROVE"
  <2>1. PICK q \in rows : q.body = ctx[h].seen.body
    BY <1>1, <1>4 DEF SoundCopy, Copied, Stored
  <2> QED
    BY <1>1, <1>4, <2>1 DEF SoundCopy, Copied, StepOf, RowsSound
<1> QED
  BY <1>2, <1>3, <1>4

LEMMA MiddleSound ==
  ASSUME NEW h \in Handler, IInv, LineageInv,
         Permit(h) \/ Deny(h) \/ FindCurrent(h) \/ WriteVersion(h) \/ NumberEvent(h)
  PROVE  LineageInv'
<1> USE DEF IInv
<1>1. CASE Permit(h)
  BY <1>1, PermitSeparates, StayingSound DEF Permit, GoesOn, OthersKept, TypeOK
<1>2. CASE Deny(h) /\ Finish(h)
  BY <1>2, FinishKeepsOthers, StayingSound DEF Deny
<1>3. CASE Deny(h) /\ ~Finish(h)
  <2>1. /\ pc[h] = "loaded" /\ pc' = [pc EXCEPT ![h] = "refused"] /\ rows' = rows
        /\ \/ \E r \in rows : r.id = Resource(h) /\ ctx' = [ctx EXCEPT ![h].cur = r]
           \/ ctx' = ctx
    BY <1>3 DEF Deny, CurrentRows
  <2>2. Creating(h) => ctx' = ctx
    BY <2>1 DEF CreationsExclusive
  <2>3. GoesOn(h) /\ OthersKept(h) /\ pc'[h] = "refused"
    BY <2>1, <2>2 DEF GoesOn, OthersKept, TypeOK, Context
  <2> QED
    BY <2>1, <2>3, StayingSound
<1>4. CASE FindCurrent(h)
  <2>1. PICK r \in rows : ctx' = [ctx EXCEPT ![h].cur = r]
    BY <1>4 DEF FindCurrent, CurrentRows
  <2>2. GoesOn(h) /\ OthersKept(h) /\ pc[h] = "permitted" /\ rows' = rows
    BY <1>4, <2>1 DEF FindCurrent, GoesOn, OthersKept, Creating, TypeOK, Context
  <2> QED
    BY <2>2, StayingSound
<1>5. CASE WriteVersion(h)
  BY <1>5, StayingSound DEF WriteVersion, GoesOn, OthersKept, TypeOK
<1>6. CASE NumberEvent(h)
  <2>1. GoesOn(h) /\ OthersKept(h) /\ pc[h] = "written" /\ rows' = rows
    BY <1>6 DEF NumberEvent, GoesOn, OthersKept, TypeOK, Context
  <2> QED
    BY <2>1, StayingSound
<1> QED
  BY <1>1, <1>2, <1>3, <1>4, <1>5, <1>6

(* The version a handler stores is as sound as its copy was, and its       *)
(* predecessor in the lifecycle, current or not, is still stored.          *)
LEMMA CommitSound ==
  ASSUME NEW h \in Handler, IInv, LineageInv, Commit(h)
  PROVE  LineageInv'
<1> USE DEF IInv, LineageInv
<1> DEFINE i == Resource(h)
           nr == Successor(h)
<1>1. /\ Writing(h) /\ Busy(h) /\ pc[h] \notin {"loaded", "refused"}
      /\ ctx[h] \in Context /\ ctx[h].cur.ver \in Nat /\ SoundCopy(h)
  BY DEF Commit, Writing, InTransaction, Busy, TypeOK, Context, InstructionRow, CopiesSound
<1>2. OthersKept(h) /\ pc'[h] = "idle"
  BY FinishKeepsOthers DEF Commit
<1>3. /\ \A r \in rows : r.id = i => r.ver <= ctx[h].cur.ver
      /\ nr \in rows'
      /\ \A r \in rows' : \/ r = nr
                         \/ \E q \in rows : q.id = r.id /\ q.ver = r.ver /\ q.body = r.body
      /\ \A q \in rows : \E r \in rows' : q.id = r.id /\ q.ver = r.ver /\ q.body = r.body
  BY CommitRows
<1>4. nr.id = i /\ nr.ver = ctx[h].cur.ver + 1 /\ nr.body = ctx[h].body
  BY DEF Successor, Row
<1>5. /\ ctx[h].body.action = ctx[h].op /\ ctx[h].body.actor = ctx[h].actor
      /\ ctx[h].op # "VIEW"
  BY <1>1 DEF BodiesStamped, WritersExclusive
<1>6. \A r \in rows : r.ver \in Nat /\ r.ver > 0
  BY DEF CreationsExclusive, TypeOK, InstructionRow
<1>7. Creating(h) => ctx[h].cur.ver = 0 /\ \A r \in rows : r.id # i
  BY DEF CreationsExclusive
<1>8. ~Creating(h) => ctx[h].cur.ver > 0
  BY <1>1, <1>6 DEF WritersExclusive
<1> HIDE DEF nr
<1>9. RowsRemain
  BY <1>3 DEF RowsRemain, Stored
<1>10. CopiesSound'
  <2>1. ASSUME NEW g \in Handler, Busy(g)' PROVE SoundCopy(g)'
    BY <1>2, <1>9, <2>1, OthersSound DEF OthersKept, Busy
  <2> QED
    BY <2>1 DEF CopiesSound
<1>11. LegalLineage'
  <2>1. ASSUME NEW r \in rows'
        PROVE  \/ r.ver = 1 /\ r.body.status = "DRAFT" /\ r.body.action = "CREATE"
               \/ \E s \in rows' :
                    /\ s.id = r.id /\ s.ver = r.body.base /\ s.ver < r.ver
                    /\ <<s.body.status, r.body.action, r.body.status>> \in Lifecycle
    <3>1. CASE r = nr /\ Creating(h)
      BY <3>1, <1>1, <1>4, <1>5, <1>7 DEF SoundCopy, Drafted, Creating
    <3>2. CASE r = nr /\ ~Creating(h)
      <4>1. PICK q \in rows : q.id = i /\ q.ver = ctx[h].seen.ver /\ q.body = ctx[h].seen.body
        BY <3>2, <1>1 DEF SoundCopy, Copied, Stored
      <4>2. PICK s \in rows' : q.id = s.id /\ q.ver = s.ver /\ q.body = s.body
        BY <1>3
      <4>3. s.ver < r.ver
        BY <3>2, <4>1, <4>2, <1>1, <1>3, <1>4, <1>6
      <4>4. /\ ctx[h].body.base = ctx[h].seen.ver
            /\ <<ctx[h].seen.body.status, ctx[h].op, ctx[h].body.status>> \in Lifecycle
        BY <3>2, <1>1, <1>5 DEF SoundCopy, Copied, StepOf
      <4> QED
        BY <3>2, <4>1, <4>2, <4>3, <4>4, <1>4, <1>5
    <3>3. CASE \E q \in rows : q.id = r.id /\ q.ver = r.ver /\ q.body = r.body
      <4>1. PICK q \in rows : q.id = r.id /\ q.ver = r.ver /\ q.body = r.body
        BY <3>3
      <4>2. CASE q.ver = 1 /\ q.body.status = "DRAFT" /\ q.body.action = "CREATE"
        BY <4>1, <4>2
      <4>3. CASE \E s \in rows :
                   /\ s.id = q.id /\ s.ver = q.body.base /\ s.ver < q.ver
                   /\ <<s.body.status, q.body.action, q.body.status>> \in Lifecycle
        <5>1. PICK s \in rows :
                /\ s.id = q.id /\ s.ver = q.body.base /\ s.ver < q.ver
                /\ <<s.body.status, q.body.action, q.body.status>> \in Lifecycle
          BY <4>3
        <5>2. PICK t \in rows' : s.id = t.id /\ s.ver = t.ver /\ s.body = t.body
          BY <1>3
        <5> QED
          BY <4>1, <5>1, <5>2
      <4>4. \/ q.ver = 1 /\ q.body.status = "DRAFT" /\ q.body.action = "CREATE"
            \/ \E s \in rows :
                 /\ s.id = q.id /\ s.ver = q.body.base /\ s.ver < q.ver
                 /\ <<s.body.status, q.body.action, q.body.status>> \in Lifecycle
        BY DEF LegalLineage
      <4> QED
        BY <4>2, <4>3, <4>4
    <3> QED
      BY <1>3, <3>1, <3>2, <3>3
  <2> QED
    BY <2>1 DEF LegalLineage
<1>12. RowsSound'
  <2>1. ASSUME NEW r \in rows'
        PROVE  /\ BodyAccounted(r.body) /\ BodyApproved(r.body)
               /\ r.body.approvedBy # r.body.createdBy
    <3>1. CASE r = nr
      BY <3>1, <1>1, <1>4 DEF SoundCopy
    <3>2. CASE \E q \in rows : q.body = r.body
      BY <3>2 DEF RowsSound
    <3> QED
      BY <1>3, <3>1, <3>2
  <2>2. ASSUME NEW r \in rows', NEW first \in rows', r.id = first.id, first.ver = 1
        PROVE  r.body.createdBy = first.body.actor
    <3>1. CASE r = nr /\ Creating(h)
      <4>1. first = nr
        BY <2>2, <3>1, <1>3, <1>4, <1>7
      <4> QED
        BY <3>1, <4>1, <1>1, <1>4, <1>5 DEF SoundCopy, Drafted
    <3>2. CASE r = nr /\ ~Creating(h)
      <4>1. PICK f \in rows : f.id = i /\ f.ver = 1 /\ f.body = first.body
        BY <2>2, <3>2, <1>1, <1>3, <1>4, <1>8
      <4>2. PICK q \in rows : q.id = i /\ q.body = ctx[h].seen.body
        BY <3>2, <1>1 DEF SoundCopy, Copied, Stored
      <4>3. q.body.createdBy = f.body.actor
        BY <4>1, <4>2 DEF RowsSound
      <4> QED
        BY <3>2, <4>1, <4>2, <4>3, <1>1, <1>4 DEF SoundCopy, Copied, StepOf
    <3>3. CASE \E q \in rows : q.id = r.id /\ q.ver = r.ver /\ q.body = r.body
      <4>1. PICK q \in rows : q.id = r.id /\ q.ver = r.ver /\ q.body = r.body
        BY <3>3
      <4>2. PICK f \in rows : f.id = first.id /\ f.ver = 1 /\ f.body = first.body
        BY <2>2, <4>1, <1>1, <1>3, <1>4, <1>6, <1>7, <1>8
      <4> QED
        BY <2>2, <4>1, <4>2 DEF RowsSound
    <3> QED
      BY <1>3, <3>1, <3>2, <3>3
  <2> QED
    BY <2>1, <2>2 DEF RowsSound
<1> QED
  BY <1>10, <1>11, <1>12

LEMMA LineageStep == IInv /\ LineageInv /\ [Next]_vars => LineageInv'
<1> SUFFICES ASSUME IInv, LineageInv, [Next]_vars PROVE LineageInv'
  OBVIOUS
<1>1. TypeOK
  BY DEF IInv
<1>2. ASSUME NEW h \in Handler, Progress(h) PROVE LineageInv'
  <2>1. CASE AnswerView(h) \/ Conflict(h) \/ ExpireTransaction(h)
    BY <1>1, <2>1, FinishKeepsOthers, StayingSound DEF AnswerView, Conflict, ExpireTransaction
  <2>2. CASE RecordRefusal(h) \/ RecordView(h)
    BY <1>1, <2>2, FinishKeepsOthers, StayingSound DEF RecordRefusal, RecordView, RecordNow
  <2> QED
    BY <1>2, <2>1, <2>2, MiddleSound, CommitSound DEF Progress
<1>3. ASSUME NEW h \in Handler, LoseNumber(h) \/ Abort(h) PROVE LineageInv'
  BY <1>1, <1>3, FinishKeepsOthers, StayingSound DEF LoseNumber, Abort
<1>4. ASSUME rows' = rows,
             \A g \in Handler : Busy(g)' =>
               /\ Busy(g) /\ ctx'[g] = ctx[g]
               /\ pc'[g] = pc[g] \/ pc[g] \notin {"loaded", "refused"}
      PROVE  LineageInv'
  BY <1>4, SameRowsRemain, OthersSound DEF LineageInv, CopiesSound
<1>5. CASE Crash
  BY <1>1, <1>4, <1>5 DEF Crash, Busy, InTransaction, TypeOK
<1>6. CASE UNCHANGED vars
  BY <1>4, <1>6 DEF vars, Busy
<1> QED
  BY <1>2, <1>3, <1>5, <1>6, BeginSound DEF Next

LEMMA LineageHolds == Spec => [](IInv /\ LineageInv)
<1>1. Init => LineageInv
  BY DEF Init, LineageInv, LegalLineage, RowsSound, CopiesSound, Busy
<1> QED
  BY <1>1, LineageStep, InvariantInit, InvariantStep, PTL DEF Spec

(* Every stored version is a lifecycle step from an earlier stored version *)
(* of the same instruction, even where others came in between, since       *)
(* handlers check the status of the copy they read (submit_instruction,    *)
(* approve_instruction and their siblings).                                *)
THEOREM LineageStaysLegal == Spec => []LegalLineage
<1>1. LineageInv => LegalLineage
  BY DEF LineageInv
<1> QED
  BY <1>1, LineageHolds, PTL

(* A SINGLE_USE instruction counts at most one use, exactly while it is    *)
(* USED and says by which payment (mark_used, release_use).                *)
THEOREM UseStaysAccounted == Spec => []UseAccounted
<1>1. LineageInv => UseAccounted
  BY DEF LineageInv, RowsSound, BodyAccounted, UseAccounted
<1> QED
  BY <1>1, LineageHolds, PTL

(* No version of an instruction was approved by the author of its first    *)
(* version, whoever edited it in between and on whatever copy the policy   *)
(* decided (approve_instruction, reactivate_instruction).                  *)
THEOREM FourEyesAlways == Spec => []FourEyes
<1>1. LineageInv => FourEyes
  BY DEF LineageInv, RowsSound, BodyApproved, FourEyes
<1> QED
  BY <1>1, LineageHolds, PTL

-----------------------------------------------------------------------------
(* The refinement. *)

EntryOf(r) == [id |-> r.id, ver |-> r.ver, body |-> r.body]

LEMMA EntriesAre == Entries = {EntryOf(r) : r \in rows}
BY DEF Entries, EntryOf

(* A refusal or a view is a note in the ledger.                            *)
LEMMA RecordIsNote ==
  ASSUME NEW h \in Handler, NEW ver \in Nat, NEW verdict \in {"allow", "deny"},
         IInv, pc[h] # "idle", RecordNow(h, ver, verdict),
         verdict = "deny" \/ ctx[h].op = "VIEW"
  PROVE  Ledger!AddNote
<1> DEFINE n == counter[Resource(h)] + 1
           new == EventOf(h, n, ver, verdict)
<1>1. new.id = Resource(h) /\ new.eid = n /\ new.verdict = verdict /\ new.action = ctx[h].op
  BY DEF EventOf
<1>2. events' = events \cup {new} /\ Entries' = Entries
  BY DEF RecordNow, Entries
<1>3. Ledger!FreshEvent(new)
  <2>1. ASSUME NEW m \in events, m.id = Resource(h) PROVE m.eid # n
    <3>1. m.eid \in Nat /\ counter[m.id] \in Nat /\ m.eid <= counter[m.id]
      BY DEF IInv, TypeOK, SecurityEvent, NumbersIssued
    <3> QED
      BY <2>1, <3>1
  <2> QED
    BY <1>1, <2>1 DEF Ledger!FreshEvent
<1> HIDE DEF new
<1> QED
  BY <1>1, <1>2, <1>3 DEF Ledger!AddNote

LEMMA NumberedStep == TypeOK /\ NumberedAudited /\ [Next]_vars => NumberedAudited'
<1> SUFFICES ASSUME TypeOK, NumberedAudited, [Next]_vars PROVE NumberedAudited'
  OBVIOUS
<1> USE DEF NumberedAudited
<1>1. ASSUME NEW h \in Handler, Operation(h) PROVE NumberedAudited'
  <2>1. Begins(h)
    BY <1>1, OperationBegins
  <2> QED
    BY <2>1 DEF Begins, Begin, TypeOK
<1>2. ASSUME NEW h \in Handler, Finish(h) PROVE NumberedAudited'
  BY <1>2, FinishKeepsOthers DEF OthersKept
<1>3. ASSUME NEW h \in Handler,
             Permit(h) \/ (Deny(h) /\ ~Finish(h)) \/ FindCurrent(h) \/ WriteVersion(h)
      PROVE  NumberedAudited'
  <2>1. OthersKept(h) /\ pc'[h] # "numbered"
    BY <1>3 DEF Permit, Deny, FindCurrent, WriteVersion, OthersKept, TypeOK
  <2> QED
    BY <2>1 DEF OthersKept
<1>4. ASSUME NEW h \in Handler, NumberEvent(h) PROVE NumberedAudited'
  BY <1>4 DEF NumberEvent, TypeOK, Context
<1>5. CASE Crash
  BY <1>5 DEF Crash, InTransaction, TypeOK
<1>6. CASE UNCHANGED vars
  BY <1>6 DEF vars
<1> QED
  BY <1>1, <1>2, <1>3, <1>4, <1>5, <1>6
  DEF Next, Progress, RecordRefusal, RecordView, RecordNow, AnswerView, Conflict, Commit,
      ExpireTransaction, LoseNumber, Abort

(* A commit adds the next version, with the event that accounts for it.    *)
LEMMA CommitIsVersion ==
  ASSUME NEW h \in Handler, IInv, NumberedAudited, Commit(h)
  PROVE  Ledger!AddVersion
<1> USE DEF IInv
<1> DEFINE i == Resource(h)
           nr == Successor(h)
           e == EntryOf(nr)
           new == EventOf(h, ctx[h].eid, ctx[h].cur.ver + 1, "allow")
<1>1. /\ Writing(h) /\ ctx[h].cur.ver \in Nat
  BY DEF Commit, Writing, InTransaction, TypeOK, Context, InstructionRow
<1>2. /\ \A r \in rows : r.id = i => r.ver <= ctx[h].cur.ver
      /\ nr \in rows'
      /\ \A r \in rows' : \/ r = nr
                         \/ \E q \in rows : q.id = r.id /\ q.ver = r.ver /\ q.body = r.body
      /\ \A q \in rows : \E r \in rows' : q.id = r.id /\ q.ver = r.ver /\ q.body = r.body
  BY CommitRows
<1>3. e.id = i /\ e.ver = ctx[h].cur.ver + 1 /\ e.body = ctx[h].body
  BY DEF Successor, Row, EntryOf
<1>4. /\ e.body.action = ctx[h].op /\ e.body.actor = ctx[h].actor
      /\ e.body.audited = Audited(ctx[h].actor)
  BY <1>1, <1>3 DEF BodiesStamped, Busy, Writing, InTransaction
<1>5. /\ new.id = i /\ new.ver = ctx[h].cur.ver + 1 /\ new.eid = ctx[h].eid
      /\ new.verdict = "allow" /\ new.action = ctx[h].op /\ new.actor = ctx[h].actor
  BY DEF EventOf
<1>6. \/ pc[h] = "numbered" /\ events' = events \cup {new}
      \/ ~Audited(ctx[h].actor) /\ events' = events
  BY DEF Commit
<1> HIDE DEF nr, new
<1>7. Entries' = Entries \cup {e} /\ e \in Entries'
  <2>1. Entries' = {EntryOf(r) : r \in rows'}
    BY DEF Entries, EntryOf
  <2>2. \A r \in rows' : EntryOf(r) = e \/ EntryOf(r) \in Entries
    BY <1>2 DEF Entries, EntryOf
  <2>3. \A d \in Entries : d \in Entries'
    BY <1>2 DEF Entries
  <2> QED
    BY <2>1, <2>2, <2>3, <1>2
<1>8. Ledger!NextVersion(e)
  <2>1. \A d \in Entries : d.id = e.id => d.ver < e.ver
    <3>1. ASSUME NEW r \in rows, r.id = i PROVE r.ver < ctx[h].cur.ver + 1
      BY <3>1, <1>1, <1>2 DEF TypeOK, InstructionRow
    <3> QED
      BY <3>1, <1>3 DEF Entries
  <2>2. e.ver = 1 \/ \E d \in Entries : d.id = e.id /\ d.ver = e.ver - 1
    <3>1. CASE Creating(h)
      BY <3>1, <1>3 DEF CreationsExclusive
    <3>2. CASE ~Creating(h)
      <4>1. ctx[h].cur \in rows /\ ctx[h].cur.id = i
        BY <3>2, <1>1 DEF WritersExclusive
      <4>2. EntryOf(ctx[h].cur) \in Entries
        BY <4>1 DEF Entries, EntryOf
      <4>3. EntryOf(ctx[h].cur).id = i /\ EntryOf(ctx[h].cur).ver = ctx[h].cur.ver
        BY <4>1 DEF EntryOf
      <4> QED
        BY <4>2, <4>3, <1>1, <1>3
    <3> QED
      BY <3>1, <3>2
  <2> QED
    BY <2>1, <2>2 DEF Ledger!NextVersion
<1> HIDE DEF e
<1>9. CASE pc[h] = "numbered" /\ events' = events \cup {new}
  <2>1. Audited(ctx[h].actor)
    BY <1>9 DEF NumberedAudited
  <2>2. Ledger!Accounts(new, e)
    BY <1>3, <1>4, <1>5 DEF Ledger!Accounts
  <2>3. Ledger!FreshEvent(new)
    BY <1>5, <1>9 DEF Ledger!FreshEvent, NumbersIssued
  <2> QED
    BY <1>4, <1>7, <1>8, <1>9, <2>1, <2>2, <2>3 DEF Ledger!AddVersion
<1>10. CASE ~Audited(ctx[h].actor) /\ events' = events
  BY <1>4, <1>7, <1>8, <1>10 DEF Ledger!AddVersion
<1> QED
  BY <1>6, <1>9, <1>10

(* Every step is a step of the ledger, or none of it sees.                 *)
LEMMA StepRefines == IInv /\ NumberedAudited /\ [Next]_vars => [Ledger!Next]_<<Entries, events>>
<1> SUFFICES ASSUME IInv, NumberedAudited, [Next]_vars
             PROVE  Ledger!Next \/ UNCHANGED <<Entries, events>>
  OBVIOUS
<1>1. TypeOK
  BY DEF IInv
<1>2. ASSUME UNCHANGED <<rows, events>> PROVE UNCHANGED <<Entries, events>>
  BY <1>2 DEF Entries
<1>3. ASSUME NEW h \in Handler, Operation(h) PROVE UNCHANGED <<rows, events>>
  BY <1>1, <1>3, OperationBegins DEF Begins, Begin
<1>4. ASSUME NEW h \in Handler, RecordRefusal(h) PROVE Ledger!AddNote
  <2>1. ctx[h].cur.ver \in Nat
    BY <1>1, <1>4 DEF RecordRefusal, TypeOK, Context, InstructionRow
  <2> QED
    BY <1>4, <2>1, RecordIsNote DEF RecordRefusal
<1>5. ASSUME NEW h \in Handler, RecordView(h) PROVE Ledger!AddNote
  <2>1. ctx[h].seen.ver \in Nat
    BY <1>1, <1>5 DEF RecordView, TypeOK, Context, InstructionRow
  <2> QED
    BY <1>5, <2>1, RecordIsNote DEF RecordView
<1>6. ASSUME NEW h \in Handler, Progress(h)
      PROVE  Ledger!AddNote \/ Ledger!AddVersion \/ UNCHANGED <<rows, events>>
  BY <1>4, <1>5, <1>6, CommitIsVersion
  DEF Progress, Permit, Deny, AnswerView, FindCurrent, WriteVersion, Conflict, NumberEvent,
      ExpireTransaction
<1>7. ASSUME NEW h \in Handler, LoseNumber(h) \/ Abort(h) PROVE UNCHANGED <<rows, events>>
  BY <1>7 DEF LoseNumber, Abort
<1>8. CASE Crash
  BY <1>2, <1>8 DEF Crash
<1>9. CASE UNCHANGED vars
  BY <1>2, <1>9 DEF vars
<1> QED
  BY <1>2, <1>3, <1>6, <1>7, <1>8, <1>9 DEF Next, Ledger!Next

(* instruction-service is an append-only audited ledger: whatever races,   *)
(* aborts and crashes do, readers see versions appear one after another    *)
(* and each together with its event                                        *)
(* (_save_instruction_with_security_event).                                *)
THEOREM ServiceImplementsLedger == Spec => ImplementsLedger
<1>1. Init => Ledger!Init
  BY DEF Init, Ledger!Init, Entries
<1>2. Init => IInv /\ NumberedAudited
  BY InvariantInit DEF Init, NumberedAudited
<1>3. IInv => TypeOK
  BY DEF IInv
<1>4. Spec => [](IInv /\ NumberedAudited)
  BY <1>2, <1>3, InvariantStep, NumberedStep, PTL DEF Spec
<1> QED
  BY <1>1, <1>4, StepRefines, PTL DEF Spec, ImplementsLedger, Ledger!Spec, Ledger!ledger
=============================================================================
