--------------------------- MODULE PaymentSoloProofs ---------------------------
(***************************************************************************)
(* PaymentSaga while the requests for one document do not overlap - the    *)
(* calls may still come late, and the process may die between any two      *)
(* steps.                                                                  *)
(***************************************************************************)
EXTENDS PaymentSagaProofs

LEMMA GrownAt ==
  ASSUME NEW s, NEW t, Grows(s, t), Len(s) \in Nat, Len(t) \in Nat, NEW n \in 1..Len(s)
  PROVE  n <= Len(t) /\ t[n] = s[n]
BY DEF Grows

LEMMA TwoElements ==
  ASSUME NEW S, IsFiniteSet(S), NEW x \in S, NEW y \in S, x # y
  PROVE  ~(Cardinality(S) <= 1)
<1>1. IsFiniteSet({x}) /\ Cardinality({x}) = 1
  BY FS_Singleton
<1>2. IsFiniteSet({x} \cup {y}) /\ Cardinality({x} \cup {y}) = 2
  <2>1. /\ IsFiniteSet({x} \cup {y})
        /\ Cardinality({x} \cup {y}) = IF y \in {x} THEN Cardinality({x}) ELSE Cardinality({x}) + 1
    BY <1>1, FS_AddElement, Zenon
  <2>2. y \notin {x}
    OBVIOUS
  <2> QED
    BY <1>1, <2>1, <2>2
<1>3. {x} \cup {y} \in SUBSET S
  OBVIOUS
<1>4. 2 <= Cardinality(S)
  BY <1>2, <1>3, FS_Subset
<1>5. Cardinality(S) \in Nat
  BY FS_CardinalityType
<1> QED
  BY <1>4, <1>5

-----------------------------------------------------------------------------
(* A step of one request, and what the others rely on. *)

LEMMA ApartStays ==
  ASSUME NEW at, NEW c, NEW by, NEW d, Apart(at, c, by, d), NEW to, NEW e,
         e.p = c.p, e.body.inst = c.body.inst, Works(to, e) => Works(at, c),
         Reads(to) => Reads(at), Passed(to, e) => Passed(at, c)
  PROVE  Apart(to, e, by, d)
BY DEF Apart

LEMMA SoloSteps ==
  ASSUME TypeOK, SoloRequests, NEW h \in Handler, NEW to, NEW c,
         pc' = [pc EXCEPT ![h] = to], ctx' = [ctx EXCEPT ![h] = c],
         to # "idle" => Solo(to, c, instrs', payments'),
         \A g \in Handler \ {h} : pc[g] # "idle" =>
           /\ Solo(pc[g], ctx[g], instrs', payments')
           /\ to # "idle" => Apart(to, c, pc[g], ctx[g])
  PROVE  SoloRequests'
<1>1. /\ pc'[h] = to /\ ctx'[h] = c
      /\ \A g \in Handler \ {h} : pc'[g] = pc[g] /\ ctx'[g] = ctx[g]
  BY DEF TypeOK
<1>2. ASSUME NEW g \in Handler, pc'[g] # "idle"
      PROVE  Solo(pc'[g], ctx'[g], instrs', payments')
  BY <1>1, <1>2
<1>3. ASSUME NEW g \in Handler, NEW f \in Handler, g # f, pc'[g] # "idle", pc'[f] # "idle"
      PROVE  Apart(pc'[g], ctx'[g], pc'[f], ctx'[f])
  <2>1. CASE g = h
    BY <1>1, <1>3, <2>1
  <2>2. CASE f = h
    <3>1. Apart(to, c, pc[g], ctx[g])
      BY <1>1, <1>3, <2>2
    <3> QED
      BY <1>1, <1>3, <2>2, <3>1 DEF Apart
  <2>3. CASE g # h /\ f # h
    BY <1>1, <1>3, <2>3 DEF SoloRequests
  <2> QED
    BY <2>1, <2>2, <2>3
<1> QED
  BY <1>2, <1>3 DEF SoloRequests

LEMMA PaymentsRest ==
  ASSUME SoloPayments, UNCHANGED <<overlap, instrs, payments>>
  PROVE  SoloPayments'
BY DEF SoloPayments, TerminalIsFinal, ApprovedOnOwnTerms

LEMMA SoloEnds ==
  ASSUME GrowInv, SoloRequests, SoloPayments, UNCHANGED <<overlap, instrs, payments>>,
         NEW h \in Handler, End(h)
  PROVE  SoloRequests' /\ SoloPayments'
<1>1. pc' = [pc EXCEPT ![h] = "idle"] /\ ctx' = [ctx EXCEPT ![h] = Null] /\ TypeOK
  BY DEF End, Goto, GrowInv
<1>2. \A g \in Handler : pc[g] # "idle" => Solo(pc[g], ctx[g], instrs', payments')
  BY DEF SoloRequests
<1> QED
  BY <1>1, <1>2, SoloSteps, PaymentsRest

(* A request that goes on without a new claim on a payment or instruction. *)
LEMMA SoloMoves ==
  ASSUME GrowInv, SoloRequests, SoloPayments, UNCHANGED <<overlap, instrs, payments>>,
         NEW h \in Handler, pc[h] # "idle", NEW to, NEW c,
         pc' = [pc EXCEPT ![h] = to], ctx' = [ctx EXCEPT ![h] = c],
         c.p = ctx[h].p, c.body.inst = Inst(h),
         Works(to, c) => Works(pc[h], ctx[h]), Reads(to) => Reads(pc[h]),
         Passed(to, c) => Passed(pc[h], ctx[h]), Solo(to, c, instrs, payments)
  PROVE  SoloRequests' /\ SoloPayments'
<1>1. TypeOK
  BY DEF GrowInv
<1>2. ASSUME NEW g \in Handler \ {h}, pc[g] # "idle"
      PROVE  Solo(pc[g], ctx[g], instrs', payments') /\ Apart(to, c, pc[g], ctx[g])
  <2>1. Solo(pc[g], ctx[g], instrs, payments) /\ Apart(pc[h], ctx[h], pc[g], ctx[g])
    BY <1>2 DEF SoloRequests
  <2> QED
    BY <2>1, ApartStays DEF Inst
<1> QED
  BY <1>1, <1>2, SoloSteps, PaymentsRest

-----------------------------------------------------------------------------
(* Requests that begin, and what they fetch. *)

LEMMA SoloBegins ==
  ASSUME GrowInv, SoloRequests, SoloPayments, ~overlap,
         NEW h \in Handler, NEW op, NEW p \in Payment, NEW b, NEW to \in {"loaded", "ready"},
         Begin(h, op, p, b, to),
         IF op = "CREATE" THEN payments[p] = <<>>
         ELSE to = "loaded" /\ payments[p] # <<>> /\ b = Newest(payments[p]) /\ b.status \in From(op)
  PROVE  SoloRequests' /\ SoloPayments'
<1> DEFINE c == [op |-> op, p |-> p, body |-> b, read |-> 0, waits |-> TRUE]
<1>1. /\ pc' = [pc EXCEPT ![h] = to] /\ ctx' = [ctx EXCEPT ![h] = c]
      /\ UNCHANGED <<overlap, instrs, lapsed, payments>>
      /\ \A g \in Handler : Working(g) => ctx[g].p # p
  BY DEF Begin, Goto
<1>2. c.op = op /\ c.p = p /\ c.body = b
  OBVIOUS
<1>3. ~Passed(to, c) /\ ~Reads(to) /\ ~Marked(to, c) /\ ~Approving(to, c)
  BY <1>2 DEF Passed, Submitting, Reads, Marked, Approving
<1>4. Solo(to, c, instrs, payments)
  BY <1>2, <1>3 DEF Solo, Based
<1>5. ASSUME NEW g \in Handler \ {h}, pc[g] # "idle"
      PROVE  Solo(pc[g], ctx[g], instrs', payments') /\ Apart(to, c, pc[g], ctx[g])
  <2>1. Solo(pc[g], ctx[g], instrs, payments)
    BY <1>5 DEF SoloRequests
  <2>2. Works(pc[g], ctx[g]) => ctx[g].p # p
    BY <1>1 DEF Working, Works
  <2> HIDE DEF c
  <2>3. Apart(to, c, pc[g], ctx[g])
    BY <1>2, <1>3, <2>2 DEF Apart
  <2> QED
    BY <1>1, <2>1, <2>3
<1> HIDE DEF c
<1> QED
  BY <1>1, <1>4, <1>5, SoloSteps, PaymentsRest DEF GrowInv

LEMMA RequestSolo ==
  ASSUME GrowInv, SoloRequests, SoloPayments, ~overlap, NEW h \in Handler, Request(h)
  PROVE  SoloRequests' /\ SoloPayments'
<1>1. /\ From("UPDATE") = {"DRAFT"} /\ From("SUBMIT") = {"DRAFT"}
      /\ From("APPROVE") = {"SUBMITTED"} /\ From("REJECT") = {"SUBMITTED"}
      /\ From("CANCEL") = {"DRAFT", "SUBMITTED"}
  BY DEF From
<1>2. PICK p \in Payment :
        Create(h, p) \/ Update(h, p) \/ Submit(h, p) \/ Approve(h, p) \/ Reject(h, p) \/ Cancel(h, p)
  BY DEF Request
<1>3. CASE Create(h, p)
  <2>1. /\ payments[p] = <<>>
        /\ \E i \in Instruction :
             Begin(h, "CREATE", p,
                   [inst |-> i, kind |-> Newest(instrs[i]).kind, status |-> "DRAFT",
                    iver |-> Len(instrs[i]), submitted |-> FALSE, system |-> FALSE], "ready")
    BY <1>3 DEF Create
  <2>2. PICK b : Begin(h, "CREATE", p, b, "ready")
    BY <2>1
  <2> QED
    BY <2>1, <2>2, SoloBegins
<1>4. ASSUME NEW op \in {"UPDATE", "SUBMIT", "APPROVE", "REJECT", "CANCEL"}, Load(h, op, p, From(op))
      PROVE  SoloRequests' /\ SoloPayments'
  <2>1. /\ payments[p] # <<>> /\ Newest(payments[p]).status \in From(op)
        /\ Begin(h, op, p, Newest(payments[p]), "loaded") /\ op # "CREATE"
    BY <1>4 DEF Load
  <2> QED
    BY <2>1, SoloBegins
<1>5. CASE Update(h, p)
  BY <1>1, <1>4, <1>5 DEF Update
<1>6. CASE Submit(h, p)
  BY <1>1, <1>4, <1>6 DEF Submit
<1>7. CASE Approve(h, p)
  BY <1>1, <1>4, <1>7 DEF Approve
<1>8. CASE Reject(h, p)
  BY <1>1, <1>4, <1>8 DEF Reject
<1>9. CASE Cancel(h, p)
  BY <1>1, <1>4, <1>9 DEF Cancel
<1> QED
  BY <1>2, <1>3, <1>5, <1>6, <1>7, <1>8, <1>9

(* The body is replaced by one of the same instruction and type; what an   *)
(* approval rests on is to be shown.                                       *)
LEMMA SoloFetched ==
  ASSUME GrowInv, SoloRequests, SoloPayments, UNCHANGED <<overlap, instrs, payments>>,
         NEW h \in Handler, NEW b \in PaymentVersion, Hold(h, b),
         b.inst = Inst(h), b.kind = ctx[h].body.kind,
         ctx[h].op = "APPROVE" => b.iver = ctx[h].body.iver,
         \/ pc[h] = "used" /\ Goto(h, "ready")
         \/ pc[h] = "loaded" /\ Goto(h, "checking")
         \/ pc[h] = "loaded" /\ Goto(h, "ready") /\ ~Submitting(ctx[h]),
         ctx[h].op = "APPROVE" /\ b.status = "APPROVED" =>
           /\ Terms(b, ctx[h].p, instrs[Inst(h)])
           /\ b.kind = "SINGLE_USE" => Newest(instrs[Inst(h)]).kind = "SINGLE_USE"
  PROVE  SoloRequests' /\ SoloPayments'
<1> DEFINE d == [ctx[h] EXCEPT !.body = b]
<1>1. /\ ctx[h] \in Context /\ Placed(pc[h], ctx[h]) /\ Inst(h) = ctx[h].body.inst
      /\ pc[h] # "idle"
  BY RequestTyped
<1>2. /\ ctx[h].waits /\ ctx[h].op # "CREATE"
      /\ pc[h] = "used" => Submitting(ctx[h])
  BY <1>1 DEF Placed, Calls, Submitting
<1>3. ctx' = [ctx EXCEPT ![h] = d]
  BY <1>1 DEF Hold, GrowInv, TypeOK
<1>4. /\ d \in Context /\ d.body = b /\ d.op = ctx[h].op /\ d.p = ctx[h].p
      /\ d.waits = ctx[h].waits /\ d.read = ctx[h].read
  BY <1>1, BodyReplaced
<1>5. Submitting(d) <=> Submitting(ctx[h])
  BY <1>4 DEF Submitting
<1>6. PICK to \in {"ready", "checking"} :
        /\ pc' = [pc EXCEPT ![h] = to]
        /\ to = "ready" => pc[h] = "used" \/ ~Submitting(ctx[h])
  BY DEF Goto
<1>7. Solo(pc[h], ctx[h], instrs, payments)
  BY <1>1 DEF SoloRequests
<1> HIDE DEF d
<1>8. /\ Works(pc[h], ctx[h]) /\ ~Reads(to) /\ Before(pc[h], ctx[h])
      /\ Marked(to, d) => Marked(pc[h], ctx[h])
      /\ Passed(to, d) => Passed(pc[h], ctx[h])
  BY <1>1, <1>2, <1>4, <1>5, <1>6 DEF Works, Reads, Before, Marked, Passed
<1>9. Based(d, payments[d.p])
  BY <1>1, <1>2, <1>4, <1>7, <1>8 DEF Solo, Based
<1>10. Approving(to, d) =>
         /\ Terms(d.body, d.p, instrs[d.body.inst])
         /\ d.body.kind = "SINGLE_USE" => Newest(instrs[d.body.inst]).kind = "SINGLE_USE"
  BY <1>4 DEF Approving
<1>11. Solo(to, d, instrs, payments)
  BY <1>1, <1>4, <1>7, <1>8, <1>9, <1>10 DEF Solo
<1> QED
  BY <1>1, <1>3, <1>4, <1>6, <1>8, <1>11, SoloMoves

(* The request that fetches, and the payment it works from.                *)
LEMMA FetcherSolo ==
  ASSUME GrowInv, SoloRequests, NEW h \in Handler, NEW op, Fetching(h, op), op # "CREATE"
  PROVE  /\ UNCHANGED <<overlap, instrs, payments>> /\ pc[h] = "loaded" /\ ctx[h].op = op
         /\ ctx[h].p \in Payment /\ ctx[h].body \in PaymentVersion /\ Inst(h) = ctx[h].body.inst
         /\ payments[ctx[h].p] # <<>> /\ Newest(payments[ctx[h].p]).status \in From(op)
         /\ Newest(payments[ctx[h].p]).inst = Inst(h)
         /\ Newest(payments[ctx[h].p]).kind = ctx[h].body.kind
<1>1. /\ UNCHANGED <<overlap, instrs, lapsed, payments, requests>> /\ pc[h] = "loaded"
      /\ ctx[h].op = op /\ ctx[h].p \in Payment /\ ctx[h].body \in PaymentVersion
      /\ Inst(h) = ctx[h].body.inst
  BY Fetcher
<1>2. Placed(pc[h], ctx[h])
  BY <1>1, RequestTyped
<1>3. Before(pc[h], ctx[h])
  BY <1>1, <1>2 DEF Placed, Calls, Before, Works
<1>4. Based(ctx[h], payments[ctx[h].p])
  BY <1>1, <1>3 DEF SoloRequests, Solo
<1> QED
  BY <1>1, <1>4 DEF Based

LEMMA FetchSolo ==
  ASSUME GrowInv, SoloRequests, SoloPayments, NEW h \in Handler,
         FetchForUpdate(h) \/ FetchForSubmit(h) \/ FetchForReject(h) \/ FetchForCancel(h)
  PROVE  SoloRequests' /\ SoloPayments'
<1> DEFINE b == ctx[h].body
<1>1. ASSUME NEW op \in {"UPDATE", "SUBMIT", "REJECT", "CANCEL"}, Fetching(h, op)
      PROVE  /\ UNCHANGED <<overlap, instrs, payments>> /\ pc[h] = "loaded"
             /\ ctx[h].op = op /\ b \in PaymentVersion /\ Inst(h) = b.inst
  BY <1>1, FetcherSolo
<1>2. CASE FetchForUpdate(h)
  <2>1. Fetching(h, "UPDATE") /\ Hold(h, Refreshed(b)) /\ Goto(h, "ready")
    BY <1>2 DEF FetchForUpdate
  <2>2. /\ Refreshed(b) \in PaymentVersion /\ Refreshed(b).inst = b.inst
        /\ Refreshed(b).kind = b.kind /\ ~Submitting(ctx[h])
    BY <1>1, <2>1, BodyRefreshed DEF Submitting
  <2> QED
    BY <1>1, <2>1, <2>2, SoloFetched
<1>3. CASE FetchForSubmit(h)
  <2>1. Fetching(h, "SUBMIT")
    BY <1>3 DEF FetchForSubmit
  <2>2. /\ Refreshed(b) \in PaymentVersion /\ Refreshed(b).inst = b.inst
        /\ Refreshed(b).kind = b.kind
    BY <1>1, <2>1, BodyRefreshed
  <2>3. CASE Hold(h, Refreshed(b)) /\ Goto(h, "checking")
    BY <1>1, <2>1, <2>2, <2>3, SoloFetched
  <2>4. CASE b.kind = "STANDING" /\ Hold(h, Submitted(Refreshed(b))) /\ Goto(h, "ready")
    <3>1. /\ Submitted(Refreshed(b)) \in PaymentVersion /\ Submitted(Refreshed(b)).inst = b.inst
          /\ Submitted(Refreshed(b)).kind = b.kind /\ ~Submitting(ctx[h])
      BY <2>2, <2>4, BodySubmitted DEF Submitting
    <3> QED
      BY <1>1, <2>1, <2>4, <3>1, SoloFetched
  <2> QED
    BY <1>3, <2>3, <2>4 DEF FetchForSubmit
<1>4. ASSUME NEW op \in {"REJECT", "CANCEL"}, Fetching(h, op), Goto(h, "ready"),
             NEW s \in PaymentStatus, Hold(h, [b EXCEPT !.status = s])
      PROVE  SoloRequests' /\ SoloPayments'
  <2> DEFINE e == [b EXCEPT !.status = s]
  <2>1. /\ UNCHANGED <<overlap, instrs, payments>> /\ pc[h] = "loaded"
        /\ ctx[h].op = op /\ b \in PaymentVersion /\ Inst(h) = b.inst
    BY <1>1, <1>4
  <2>2. e \in PaymentVersion /\ e.inst = b.inst /\ e.kind = b.kind /\ ~Submitting(ctx[h])
    BY <2>1 DEF PaymentVersion, Submitting
  <2> HIDE DEF e
  <2> QED
    BY <1>4, <2>1, <2>2, SoloFetched DEF e
<1>5. CASE FetchForReject(h)
  BY <1>4, <1>5 DEF FetchForReject, PaymentStatus
<1>6. CASE FetchForCancel(h)
  BY <1>4, <1>6 DEF FetchForCancel, PaymentStatus
<1> QED
  BY <1>2, <1>3, <1>5, <1>6

(* An approval: the submitted payment depends on its instruction, whose    *)
(* newest version is therefore its own use.                                *)
LEMMA ApproveSolo ==
  ASSUME GrowInv, SoloRequests, SoloPayments, NEW h \in Handler, FetchForApprove(h)
  PROVE  SoloRequests' /\ SoloPayments'
<1> DEFINE b == ctx[h].body
<1> DEFINE p == ctx[h].p
<1> DEFINE s == instrs[Inst(h)]
<1>1. Fetching(h, "APPROVE") /\ Goto(h, "ready")
  BY DEF FetchForApprove
<1>2. /\ UNCHANGED <<overlap, instrs, payments>> /\ pc[h] = "loaded" /\ ctx[h].op = "APPROVE"
      /\ p \in Payment /\ b \in PaymentVersion /\ Inst(h) = b.inst
      /\ payments[p] # <<>> /\ Newest(payments[p]).status = "SUBMITTED"
      /\ Newest(payments[p]).inst = Inst(h) /\ Newest(payments[p]).kind = b.kind
      /\ ~Submitting(ctx[h])
  BY <1>1, FetcherSolo DEF From, Submitting
<1>3. CASE ValidForApproval(b) /\ Hold(h, [b EXCEPT !.status = "APPROVED"])
  <2> DEFINE e == [b EXCEPT !.status = "APPROVED"]
  <2>1. /\ e \in PaymentVersion /\ e.inst = b.inst /\ e.kind = b.kind /\ e.iver = b.iver
        /\ b.kind \in Kind
    BY <1>2 DEF PaymentVersion, PaymentStatus
  <2>2. /\ b.iver = Len(s) /\ Newest(s).kind = b.kind
        /\ \/ Newest(s).status = "APPROVED"
           \/ Newest(s).status = "USED" /\ b.kind = "SINGLE_USE"
    BY <1>2, <1>3 DEF ValidForApproval
  <2>3. Newest(s) = s[e.iver]
    BY <2>1, <2>2 DEF Newest
  <2>4. b.kind = "SINGLE_USE" => HeldBy(Newest(s), p)
    <3>1. b.kind = "SINGLE_USE" => Dependent(payments[p], {"SUBMITTED", "APPROVED"})
      BY <1>2 DEF Dependent
    <3> QED
      BY <1>2, <2>2, <3>1 DEF SoloPayments, KeptFor
  <2>5. Terms(e, p, s)
    BY <2>1, <2>2, <2>3, <2>4 DEF Terms, Kind
  <2> HIDE DEF e
  <2> QED
    BY <1>1, <1>2, <1>3, <2>1, <2>2, <2>5, SoloFetched DEF e
<1>4. CASE Hold(h, [b EXCEPT !.status = "CANCELLED", !.system = TRUE])
  <2> DEFINE e == [b EXCEPT !.status = "CANCELLED", !.system = TRUE]
  <2>1. /\ e \in PaymentVersion /\ e.inst = b.inst /\ e.kind = b.kind /\ e.iver = b.iver
        /\ e.status = "CANCELLED"
    BY <1>2 DEF PaymentVersion, PaymentStatus
  <2> HIDE DEF e
  <2> QED
    BY <1>1, <1>2, <1>4, <2>1, SoloFetched DEF e
<1> QED
  BY <1>3, <1>4 DEF FetchForApprove

LEMMA FetchAfterUseSolo ==
  ASSUME GrowInv, SoloRequests, SoloPayments, NEW h \in Handler, FetchAfterUse(h)
  PROVE  SoloRequests' /\ SoloPayments'
<1> DEFINE b == ctx[h].body
<1>1. /\ pc[h] = "used" /\ Goto(h, "ready") /\ Hold(h, Submitted(Refreshed(b)))
      /\ UNCHANGED <<overlap, instrs, payments>>
  BY DEF FetchAfterUse
<1>2. b \in PaymentVersion /\ Inst(h) = b.inst /\ ctx[h].op = "SUBMIT"
  BY <1>1, RequestTyped DEF Placed
<1>3. /\ Submitted(Refreshed(b)) \in PaymentVersion /\ Submitted(Refreshed(b)).inst = b.inst
      /\ Submitted(Refreshed(b)).kind = b.kind
  BY <1>2, BodyRefreshed, BodySubmitted
<1> QED
  BY <1>1, <1>2, <1>3, SoloFetched

-----------------------------------------------------------------------------
(* The calls. *)

(* At most one payment of the instruction is pending: the one in hand, and *)
(* with it every other that is submitted or past the same check.           *)
LEMMA CheckExclusiveSolo ==
  ASSUME GrowInv, SoloRequests, SoloPayments, NEW h \in Handler, CheckExclusive(h)
  PROVE  SoloRequests' /\ SoloPayments'
<1> DEFINE p == ctx[h].p
<1> DEFINE i == Inst(h)
<1>1. /\ pc[h] = "checking" /\ Cardinality(Active(i)) <= 1 /\ Goto(h, "using")
      /\ UNCHANGED <<overlap, instrs, payments, ctx>>
  BY DEF CheckExclusive
<1>2. /\ ctx[h] \in Context /\ p \in Payment /\ Placed(pc[h], ctx[h]) /\ i = ctx[h].body.inst
  BY <1>1, RequestTyped
<1>3. Works(pc[h], ctx[h]) /\ Before(pc[h], ctx[h]) /\ ctx[h].op = "SUBMIT"
  BY <1>1, <1>2 DEF Placed, Calls, Works, Before
<1>4. Solo(pc[h], ctx[h], instrs, payments)
  BY <1>1 DEF SoloRequests
<1>5. IsFiniteSet(Active(i))
  <2>1. Active(i) \in SUBSET {q \in Payment : payments[q] # <<>>}
    BY DEF Active
  <2> QED
    BY <2>1, FS_Subset DEF SoloPayments
<1>6. ASSUME NEW g \in Handler, pc[g] # "idle", Before(pc[g], ctx[g]), ctx[g].op = "SUBMIT",
             ctx[g].body.inst = i
      PROVE  ctx[g].p \in Active(i)
  <2>1. Based(ctx[g], payments[ctx[g].p]) /\ ctx[g].p \in Payment
    BY <1>6, RequestTyped DEF SoloRequests, Solo
  <2> QED
    BY <1>6, <2>1 DEF Based, From, Active
<1>7. p \in Active(i)
  BY <1>1, <1>2, <1>3, <1>6
<1>8. ASSUME NEW q \in Payment \ {p}, Dependent(payments[q], {"SUBMITTED"})
      PROVE  Newest(payments[q]).inst # i
  <2>1. SUFFICES ASSUME Newest(payments[q]).inst = i PROVE FALSE
    OBVIOUS
  <2>2. q \in Active(i)
    BY <1>8, <2>1 DEF Dependent, Active
  <2> QED
    BY <1>1, <1>5, <1>7, <2>2, TwoElements
<1>9. ASSUME NEW g \in Handler \ {h}, pc[g] # "idle"
      PROVE  Apart("using", ctx[h], pc[g], ctx[g])
  <2>1. Apart(pc[h], ctx[h], pc[g], ctx[g])
    BY <1>1, <1>9 DEF SoloRequests
  <2>2. Works(pc[g], ctx[g]) => ctx[g].p # p
    BY <1>3, <2>1 DEF Apart
  <2>3. ASSUME Passed(pc[g], ctx[g]), ctx[g].body.inst = i PROVE FALSE
    <3>1. /\ Works(pc[g], ctx[g]) /\ Before(pc[g], ctx[g]) /\ ctx[g].op = "SUBMIT"
      BY <2>3 DEF Passed, Submitting, Before
    <3>2. ctx[g].p \in Active(i) /\ ctx[g].p # p
      BY <1>6, <1>9, <2>2, <2>3, <3>1
    <3> QED
      BY <1>1, <1>5, <1>7, <3>2, TwoElements
  <2> QED
    BY <1>2, <2>2, <2>3 DEF Apart, Reads
<1>10. Solo("using", ctx[h], instrs, payments)
  <2>1. Based(ctx[h], payments[p])
    BY <1>3, <1>4 DEF Solo
  <2> QED
    BY <1>2, <1>8, <2>1 DEF Solo, Reads, Marked, Approving
<1>11. pc' = [pc EXCEPT ![h] = "using"] /\ ctx' = [ctx EXCEPT ![h] = ctx[h]]
  BY <1>1 DEF Goto, GrowInv, TypeOK
<1>12. \A g \in Handler \ {h} : pc[g] # "idle" => Solo(pc[g], ctx[g], instrs', payments')
  BY <1>1 DEF SoloRequests
<1> QED
  BY <1>1, <1>9, <1>10, <1>11, <1>12, SoloSteps, PaymentsRest DEF GrowInv

(* A call reads the newest version; nobody else is at the instruction.     *)
LEMMA ReadSolo ==
  ASSUME GrowInv, SoloRequests, SoloPayments, ~overlap, NEW h \in Handler,
         NEW to \in {"useRead", "releaseRead"}, ReadCopy(h, to),
         IF to = "useRead" THEN pc[h] = "using" /\ Newest(instrs[Inst(h)]).status = "APPROVED"
         ELSE pc[h] = "releasing" /\ HeldBy(Newest(instrs[Inst(h)]), ctx[h].p)
  PROVE  SoloRequests' /\ SoloPayments'
<1> DEFINE n == Len(instrs[Inst(h)])
<1> DEFINE c == [ctx[h] EXCEPT !.read = n]
<1>1. /\ UNCHANGED <<overlap, instrs, payments>> /\ pc' = [pc EXCEPT ![h] = to]
      /\ \A g \in Handler : Reads(pc[g]) => Inst(g) # Inst(h)
  BY DEF ReadCopy, Goto, Alone, Reads
<1>2. ctx[h] \in Context /\ Inst(h) = ctx[h].body.inst /\ pc[h] # "idle"
  BY RequestTyped
<1>3. /\ c.op = ctx[h].op /\ c.p = ctx[h].p /\ c.body = ctx[h].body
      /\ c.read = n /\ c.waits = ctx[h].waits
  BY <1>2 DEF Context
<1>4. ctx' = [ctx EXCEPT ![h] = c]
  BY <1>2 DEF ReadCopy, GrowInv, TypeOK
<1> HIDE DEF c
<1>5. /\ Works(to, c) => Works(pc[h], ctx[h])
      /\ Before(to, c) => Before(pc[h], ctx[h])
      /\ Passed(to, c) => Passed(pc[h], ctx[h])
      /\ ~Marked(to, c) /\ ~Approving(to, c)
  BY <1>2, <1>3 DEF Works, Before, Passed, Submitting, Marked, Approving
<1>6. Solo(pc[h], ctx[h], instrs, payments)
  BY <1>2 DEF SoloRequests
<1>7. Solo(to, c, instrs, payments)
  <2>1. Before(to, c) => Based(c, payments[c.p])
    BY <1>3, <1>5, <1>6 DEF Solo, Based
  <2>2. Fresh(to, c, instrs[c.body.inst])
    BY <1>2, <1>3 DEF Fresh
  <2> QED
    BY <1>3, <1>5, <1>6, <2>1, <2>2 DEF Solo
<1>8. ASSUME NEW g \in Handler \ {h}, pc[g] # "idle"
      PROVE  Solo(pc[g], ctx[g], instrs', payments') /\ Apart(to, c, pc[g], ctx[g])
  <2>1. Solo(pc[g], ctx[g], instrs, payments) /\ Apart(pc[h], ctx[h], pc[g], ctx[g])
    BY <1>2, <1>8 DEF SoloRequests
  <2>2. Reads(pc[g]) => ctx[g].body.inst # c.body.inst
    BY <1>1, <1>2, <1>3 DEF Inst
  <2> QED
    BY <1>1, <1>3, <1>5, <2>1, <2>2 DEF Apart
<1> QED
  BY <1>1, <1>4, <1>7, <1>8, SoloSteps, PaymentsRest DEF GrowInv

(* A call that is left alone, and a process that dies.                     *)
LEMMA TimeoutSolo ==
  ASSUME GrowInv, SoloRequests, SoloPayments, NEW h \in Handler, Timeout(h)
  PROVE  SoloRequests' /\ SoloPayments'
<1> DEFINE c == [ctx[h] EXCEPT !.waits = FALSE]
<1>1. UNCHANGED <<overlap, instrs, payments, pc>> /\ pc[h] # "idle" /\ pc[h] \in Calls
  BY DEF Timeout, Calls
<1>2. ctx[h] \in Context /\ Inst(h) = ctx[h].body.inst
  BY <1>1, RequestTyped
<1>3. /\ c.op = ctx[h].op /\ c.p = ctx[h].p /\ c.body = ctx[h].body
      /\ c.read = ctx[h].read /\ ~c.waits
  BY <1>2 DEF Context
<1>4. pc' = [pc EXCEPT ![h] = pc[h]] /\ ctx' = [ctx EXCEPT ![h] = c]
  BY <1>1, <1>2 DEF Timeout, GrowInv, TypeOK
<1> HIDE DEF c
<1>5. ~Works(pc[h], c) /\ ~Before(pc[h], c) /\ ~Passed(pc[h], c)
  BY <1>3 DEF Works, Before, Passed
<1>6. ~Marked(pc[h], c) /\ ~Approving(pc[h], c)
  BY <1>1 DEF Calls, Marked, Approving
<1>7. Solo(pc[h], ctx[h], instrs, payments)
  BY <1>1 DEF SoloRequests
<1>8. Solo(pc[h], c, instrs, payments)
  BY <1>3, <1>5, <1>6, <1>7 DEF Solo, Fresh
<1> QED
  BY <1>1, <1>2, <1>3, <1>4, <1>5, <1>8, SoloMoves

LEMMA CrashSolo ==
  ASSUME GrowInv, SoloRequests, SoloPayments, Crash
  PROVE  SoloRequests' /\ SoloPayments'
<1>1. /\ UNCHANGED <<overlap, instrs, payments>>
      /\ pc' = [h \in Handler |-> IF pc[h] \in Calls THEN pc[h] ELSE "idle"]
      /\ ctx' = [h \in Handler |->
                   IF pc[h] \in Calls THEN [ctx[h] EXCEPT !.waits = FALSE] ELSE Null]
  BY DEF Crash
<1>2. ASSUME NEW h \in Handler, pc'[h] # "idle"
      PROVE  /\ pc[h] # "idle" /\ pc'[h] = pc[h] /\ pc[h] \in Calls
             /\ ctx'[h].op = ctx[h].op /\ ctx'[h].p = ctx[h].p /\ ctx'[h].body = ctx[h].body
             /\ ctx'[h].read = ctx[h].read /\ ~ctx'[h].waits
  <2>1. pc[h] \in Calls /\ pc[h] # "idle" /\ pc'[h] = pc[h]
    BY <1>1, <1>2 DEF Calls
  <2>2. ctx[h] \in Context /\ ctx'[h] = [ctx[h] EXCEPT !.waits = FALSE]
    BY <1>1, <2>1, RequestTyped
  <2> QED
    BY <2>1, <2>2 DEF Context
<1>3. ASSUME NEW h \in Handler, pc'[h] # "idle"
      PROVE  Solo(pc'[h], ctx'[h], instrs', payments')
  <2>1. Solo(pc[h], ctx[h], instrs, payments)
    BY <1>2, <1>3 DEF SoloRequests
  <2>2. ~Before(pc'[h], ctx'[h]) /\ ~Passed(pc'[h], ctx'[h])
    BY <1>2, <1>3 DEF Works, Before, Passed
  <2>3. ~Marked(pc'[h], ctx'[h]) /\ ~Approving(pc'[h], ctx'[h])
    BY <1>2, <1>3 DEF Calls, Marked, Approving
  <2> QED
    BY <1>1, <1>2, <1>3, <2>1, <2>2, <2>3 DEF Solo, Fresh
<1>4. ASSUME NEW g \in Handler, NEW h \in Handler, g # h, pc'[g] # "idle", pc'[h] # "idle"
      PROVE  Apart(pc'[g], ctx'[g], pc'[h], ctx'[h])
  <2>1. Apart(pc[g], ctx[g], pc[h], ctx[h])
    BY <1>2, <1>4 DEF SoloRequests
  <2> QED
    BY <1>2, <1>4, <2>1 DEF Apart, Works, Passed
<1> QED
  BY <1>1, <1>3, <1>4, PaymentsRest DEF SoloRequests

-----------------------------------------------------------------------------
(* A version of an instruction is added.  What payments that are not       *)
(* withdrawn rely on is kept.                                              *)

Over(r) == r # <<>> /\ Newest(r).status \in {"REJECTED", "CANCELLED"}

ClaimsKept(s, t) ==
  \A q \in Payment : ~Over(payments[q]) /\ KeptFor(s, q) =>
    /\ KeptFor(t, q)
    /\ Newest(s).kind = "SINGLE_USE" => Newest(t).kind = "SINGLE_USE"

LEMMA TermsStay ==
  ASSUME NEW S, NEW s \in Seq(S), NEW t \in Seq(S), Grows(s, t),
         NEW p, NEW b, b.iver \in 1..Len(s), Terms(b, p, s)
  PROVE  Terms(b, p, t)
BY DEF Terms, Grows

(* The request in hand waits for its answer, and has the newest version of *)
(* its payment.                                                            *)
LEMMA Claims ==
  ASSUME GrowInv, SoloRequests, NEW g \in Handler, pc[g] # "idle",
         Marked(pc[g], ctx[g]) \/ Approving(pc[g], ctx[g]) \/ pc[g] = "ready"
  PROVE  Works(pc[g], ctx[g]) /\ Before(pc[g], ctx[g]) /\ Based(ctx[g], payments[ctx[g].p])
<1>1. Placed(pc[g], ctx[g])
  BY RequestTyped
<1>2. pc[g] \in {"used", "ready"}
  BY DEF Marked, Approving
<1>3. Works(pc[g], ctx[g]) /\ Before(pc[g], ctx[g])
  BY <1>1, <1>2 DEF Placed, Calls, Works, Before
<1> QED
  BY <1>3 DEF SoloRequests, Solo

LEMMA WriteKeepsRequest ==
  ASSUME GrowInv, SoloRequests, SoloPayments, StoresSound, payments' = payments,
         NEW i \in Instruction, \A j \in Instruction \ {i} : instrs'[j] = instrs[j],
         ClaimsKept(instrs[i], instrs'[i]),
         NEW g \in Handler, pc[g] # "idle", Reads(pc[g]) => ctx[g].body.inst # i
  PROVE  Solo(pc[g], ctx[g], instrs', payments')
<1> DEFINE c == ctx[g]
<1> DEFINE b == ctx[g].body
<1> DEFINE p == ctx[g].p
<1>1. /\ c \in Context /\ p \in Payment /\ b \in PaymentVersion /\ b.inst \in Instruction
      /\ instrs[b.inst] \in Seq(InstructionVersion) /\ Placed(pc[g], c)
      /\ Noted(b, p, instrs[b.inst])
  BY RequestTyped DEF Informed
<1>2. Solo(pc[g], c, instrs, payments)
  BY DEF SoloRequests
<1>3. CASE b.inst # i
  <2>1. instrs'[b.inst] = instrs[b.inst]
    BY <1>1, <1>3
  <2> QED
    BY <1>2, <2>1 DEF Solo
<1>4. CASE b.inst = i
  <2>1. /\ instrs'[i] \in Seq(InstructionVersion) /\ Grows(instrs[i], instrs'[i])
    BY DEF StoresSound, StoresTyped, StoresGrow
  <2>2. ~Reads(pc[g])
    BY <1>4
  <2>3. ASSUME Marked(pc[g], c) PROVE KeptFor(instrs'[i], p)
    <3>1. Based(c, payments[p]) /\ c.op = "SUBMIT"
      BY <2>3, Claims DEF Marked, Submitting
    <3>2. ~Over(payments[p])
      BY <3>1 DEF Based, From, Over
    <3> QED
      BY <1>1, <1>2, <1>4, <2>3, <3>2 DEF Solo, ClaimsKept
  <2>4. ASSUME Approving(pc[g], c)
        PROVE  /\ Terms(b, p, instrs'[i])
               /\ b.kind = "SINGLE_USE" => Newest(instrs'[i]).kind = "SINGLE_USE"
    <3>1. Based(c, payments[p]) /\ c.op = "APPROVE"
      BY <2>4, Claims DEF Approving
    <3>2. /\ ~Over(payments[p]) /\ Newest(payments[p]).inst = i
          /\ b.kind = "SINGLE_USE" => Dependent(payments[p], {"SUBMITTED", "APPROVED"})
      BY <1>4, <3>1 DEF Based, From, Over, Dependent
    <3>3. b.kind = "SINGLE_USE" => KeptFor(instrs[i], p)
      BY <1>1, <3>2 DEF SoloPayments
    <3>4. /\ Terms(b, p, instrs[i])
          /\ b.kind = "SINGLE_USE" => Newest(instrs[i]).kind = "SINGLE_USE"
      BY <1>2, <1>4, <2>4 DEF Solo
    <3>5. Terms(b, p, instrs'[i])
      BY <1>1, <1>4, <2>1, <3>4, TermsStay DEF Noted
    <3> QED
      BY <1>1, <3>2, <3>3, <3>4, <3>5 DEF ClaimsKept
  <2> QED
    BY <1>2, <1>4, <2>2, <2>3, <2>4 DEF Solo
<1> QED
  BY <1>3, <1>4

LEMMA WriteKeepsPayments ==
  ASSUME GrowInv, SoloPayments, StoresSound, payments' = payments,
         NEW i \in Instruction, \A j \in Instruction \ {i} : instrs'[j] = instrs[j],
         ClaimsKept(instrs[i], instrs'[i])
  PROVE  SoloPayments'
<1>1. overlap' = overlap /\ TypeOK
  BY DEF StoresSound, StoresGrow, GrowInv
<1>2. ASSUME NEW p \in Payment, payments[p] # <<>>
      PROVE  Newest(payments[p]).inst \in Instruction
  <2>1. Newest(payments[p]) \in PaymentVersion
    BY <1>1, <1>2, NewestPayment DEF TypeOK
  <2> QED
    BY <2>1 DEF PaymentVersion
<1>3. ASSUME NEW p \in Payment, Dependent(payments[p], {"SUBMITTED", "APPROVED"})
      PROVE  /\ KeptFor(instrs'[Newest(payments[p]).inst], p)
             /\ Newest(instrs[Newest(payments[p]).inst]).kind = "SINGLE_USE" =>
                  Newest(instrs'[Newest(payments[p]).inst]).kind = "SINGLE_USE"
  <2>1. KeptFor(instrs[Newest(payments[p]).inst], p)
    BY <1>3 DEF SoloPayments
  <2>2. payments[p] # <<>> /\ ~Over(payments[p])
    BY <1>3 DEF Dependent, Over
  <2>3. CASE Newest(payments[p]).inst = i
    BY <2>1, <2>2, <2>3 DEF ClaimsKept
  <2>4. CASE Newest(payments[p]).inst # i
    BY <1>2, <2>1, <2>2, <2>4
  <2> QED
    BY <2>3, <2>4
<1>4. ASSUME NEW p \in Payment, Dependent(payments[p], {"APPROVED"})
      PROVE  Newest(instrs'[Newest(payments[p]).inst]).kind = "SINGLE_USE"
  <2>1. Dependent(payments[p], {"SUBMITTED", "APPROVED"})
    BY <1>4 DEF Dependent
  <2> QED
    BY <1>3, <1>4, <2>1 DEF SoloPayments
<1>5. TerminalIsFinal'
  BY <1>1 DEF SoloPayments, TerminalIsFinal
<1>6. ApprovedOnOwnTerms'
  <2> SUFFICES ASSUME ~overlap, NEW p \in Payment, NEW k \in 1..Len(payments[p]),
                      payments[p][k].status = "APPROVED"
               PROVE  LET b == payments[p][k] IN
                      /\ b.iver <= Len(instrs'[b.inst])
                      /\ LET v == instrs'[b.inst][b.iver] IN
                           IF b.kind = "SINGLE_USE" THEN HeldBy(v, p)
                           ELSE v.status = "APPROVED" /\ v.kind = "STANDING"
                      /\ k > 1 /\ payments[p][k-1].status = "SUBMITTED"
                      /\ payments[p][k-1].iver = b.iver
    BY <1>1 DEF ApprovedOnOwnTerms
  <2> DEFINE b == payments[p][k]
  <2>1. b.inst \in Instruction /\ b.iver \in 1..Len(instrs[b.inst])
    BY <1>1, VersionTyped DEF GrowInv, VersionsKnown, Noted
  <2>2. /\ Len(instrs[b.inst]) \in Nat /\ Len(instrs'[b.inst]) \in Nat
        /\ Grows(instrs[b.inst], instrs'[b.inst])
    BY <1>1, <2>1 DEF TypeOK, StoresSound, StoresTyped, StoresGrow
  <2>3. b.iver <= Len(instrs'[b.inst]) /\ instrs'[b.inst][b.iver] = instrs[b.inst][b.iver]
    BY <2>1, <2>2, GrownAt
  <2>4. LET v == instrs[b.inst][b.iver] IN
        /\ IF b.kind = "SINGLE_USE" THEN HeldBy(v, p)
           ELSE v.status = "APPROVED" /\ v.kind = "STANDING"
        /\ k > 1 /\ payments[p][k-1].status = "SUBMITTED" /\ payments[p][k-1].iver = b.iver
    BY DEF SoloPayments, ApprovedOnOwnTerms
  <2> QED
    BY <2>3, <2>4
<1> QED
  BY <1>3, <1>4, <1>5, <1>6 DEF SoloPayments

LEMMA UseSolo ==
  ASSUME GrowInv, SoloRequests, SoloPayments, NEW h \in Handler, Use(h)
  PROVE  SoloRequests' /\ SoloPayments'
<1> DEFINE i == Inst(h)
<1> DEFINE p == ctx[h].p
<1> DEFINE s == instrs[i]
<1> DEFINE v == Used(s[ctx[h].read], p)
<1>1. /\ pc[h] = "useRead" /\ pc[h] # "idle" /\ AddVersion(i, v)
      /\ UNCHANGED <<overlap, lapsed, payments, requests>>
      /\ \/ Goto(h, "used") /\ UNCHANGED ctx
         \/ End(h)
  BY DEF Use, AnswerTo
<1>2. /\ ctx[h] \in Context /\ p \in Payment /\ i \in Instruction /\ i = ctx[h].body.inst
      /\ s \in Seq(InstructionVersion) /\ s # <<>> /\ Placed("useRead", ctx[h])
  BY <1>1, RequestTyped
<1>3. Solo("useRead", ctx[h], instrs, payments)
  BY <1>1 DEF SoloRequests
<1>4. s[ctx[h].read] = Newest(s) /\ Newest(s).status = "APPROVED"
  BY <1>2, <1>3 DEF Solo, Reads, Fresh, Newest
<1>5. /\ v \in InstructionVersion /\ v.call = "use" /\ v.kind = Newest(s).kind
      /\ v.kind = "SINGLE_USE" => HeldBy(v, p)
      /\ v.kind # "SINGLE_USE" => v.status = "APPROVED"
  BY <1>1, <1>4, CopyRead, UsedTyped
<1>6. /\ StoresSound /\ Newest(instrs'[i]) = v
      /\ \A j \in Instruction \ {i} : instrs'[j] = instrs[j]
  <2> HIDE DEF v
  <2> QED
    BY <1>1, <1>2, <1>5, InstructionWritten
<1>7. ClaimsKept(s, instrs'[i])
  BY <1>4, <1>5, <1>6 DEF ClaimsKept, KeptFor, HeldBy
<1>8. SoloPayments'
  BY <1>1, <1>2, <1>6, <1>7, WriteKeepsPayments
<1>9. ASSUME NEW g \in Handler \ {h}, pc[g] # "idle"
      PROVE  /\ Solo(pc[g], ctx[g], instrs', payments')
             /\ Apart(pc[h], ctx[h], pc[g], ctx[g])
  <2>1. Apart(pc[h], ctx[h], pc[g], ctx[g])
    BY <1>1, <1>9 DEF SoloRequests
  <2>2. Reads(pc[g]) => ctx[g].body.inst # i
    BY <1>1, <1>2, <2>1 DEF Apart, Reads
  <2> QED
    BY <1>1, <1>2, <1>6, <1>7, <1>9, <2>1, <2>2, WriteKeepsRequest
<1>10. CASE End(h)
  <2>1. pc' = [pc EXCEPT ![h] = "idle"] /\ ctx' = [ctx EXCEPT ![h] = Null]
    BY <1>10 DEF End, Goto
  <2> QED
    BY <1>8, <1>9, <2>1, SoloSteps DEF GrowInv
<1>11. CASE Goto(h, "used") /\ UNCHANGED ctx
  <2>1. pc' = [pc EXCEPT ![h] = "used"] /\ ctx' = [ctx EXCEPT ![h] = ctx[h]]
    BY <1>11 DEF Goto, GrowInv, TypeOK
  <2>2. /\ Works("used", ctx[h]) => Works(pc[h], ctx[h])
        /\ Before("used", ctx[h]) => Before("useRead", ctx[h])
        /\ Passed("used", ctx[h]) => Passed("useRead", ctx[h])
        /\ ~Reads("used") /\ ~Approving("used", ctx[h])
    BY <1>1 DEF Works, Before, Passed, Reads, Approving
  <2>3. KeptFor(instrs'[i], p)
    BY <1>5, <1>6 DEF KeptFor, HeldBy
  <2>4. Solo("used", ctx[h], instrs', payments')
    BY <1>1, <1>2, <1>3, <2>2, <2>3 DEF Solo
  <2>5. \A g \in Handler \ {h} : pc[g] # "idle" => Apart("used", ctx[h], pc[g], ctx[g])
    BY <1>1, <1>9, <2>2, ApartStays
  <2> QED
    BY <1>8, <1>9, <2>1, <2>4, <2>5, SoloSteps DEF GrowInv
<1> QED
  BY <1>1, <1>10, <1>11

(* The payment a release is for is withdrawn, for good; it is the only one *)
(* that can have relied on the use.                                        *)
LEMMA ReleaseSolo ==
  ASSUME GrowInv, SoloRequests, SoloPayments, ~overlap, NEW h \in Handler, Release(h)
  PROVE  SoloRequests' /\ SoloPayments'
<1> DEFINE i == Inst(h)
<1> DEFINE p == ctx[h].p
<1> DEFINE s == instrs[i]
<1> DEFINE v == ReleasedCopy(s[ctx[h].read], p)
<1>1. /\ pc[h] = "releaseRead" /\ AddVersion(i, v) /\ End(h) /\ pc[h] # "idle"
      /\ UNCHANGED <<overlap, lapsed, payments, requests>>
  BY DEF Release, ReleasedCopy
<1>2. /\ p \in Payment /\ i \in Instruction /\ i = ctx[h].body.inst
      /\ Withdrawn(payments[p], i) /\ payments[p] \in Seq(PaymentVersion)
  BY <1>1, RequestTyped DEF Informed
<1>3. Solo("releaseRead", ctx[h], instrs, payments)
  BY <1>1 DEF SoloRequests
<1>4. HeldBy(Newest(s), p)
  BY <1>2, <1>3 DEF Solo, Reads, Fresh
<1>5. Over(payments[p])
  <2>1. PICK k \in 1..Len(payments[p]) : Releases(payments[p][k])
    BY <1>2 DEF Withdrawn
  <2>2. payments[p][k].status \in {"REJECTED", "CANCELLED"}
    BY <2>1 DEF Releases
  <2>3. k = Len(payments[p])
    BY <1>2, <2>2 DEF SoloPayments, TerminalIsFinal
  <2>4. payments[p] # <<>>
    BY <1>2
  <2> QED
    BY <2>2, <2>3, <2>4 DEF Over, Newest
<1>6. v \in InstructionVersion /\ v.ref = p
  BY <1>1, CopyRead, ReleasedTyped
<1>7. StoresSound /\ \A j \in Instruction \ {i} : instrs'[j] = instrs[j]
  <2> HIDE DEF v
  <2> QED
    BY <1>1, <1>2, <1>6, InstructionWritten
<1>8. ClaimsKept(s, instrs'[i])
  BY <1>4, <1>5 DEF ClaimsKept, KeptFor, HeldBy
<1>9. SoloPayments'
  BY <1>1, <1>2, <1>7, <1>8, WriteKeepsPayments
<1>10. ASSUME NEW g \in Handler \ {h}, pc[g] # "idle"
       PROVE  Solo(pc[g], ctx[g], instrs', payments')
  <2>1. Reads(pc[g]) => ctx[g].body.inst # i
    BY <1>1, <1>2, <1>10 DEF SoloRequests, Apart, Reads
  <2> QED
    BY <1>1, <1>2, <1>7, <1>8, <1>10, <2>1, WriteKeepsRequest
<1>11. pc' = [pc EXCEPT ![h] = "idle"] /\ ctx' = [ctx EXCEPT ![h] = Null]
  BY <1>1 DEF End, Goto
<1> QED
  BY <1>9, <1>10, <1>11, SoloSteps DEF GrowInv

(* An owner's step starts from the newest version, does not leave USED and *)
(* does not return to DRAFT.                                               *)
LEMMA OwnerEditsSolo ==
  ASSUME GrowInv, SoloRequests, SoloPayments, ~overlap, NEW i \in Instruction, OwnerEdits(i)
  PROVE  SoloRequests' /\ SoloPayments'
<1> DEFINE s == instrs[i]
<1>1. /\ UNCHANGED <<overlap, lapsed, payments, pc, ctx, requests>> /\ StoresSound
  BY OwnerEditsStep, OwnerEditsGrows
<1>2. PICK v \in InstructionVersion :
        Alone(i) /\ AddVersion(i, v) /\ OwnersStep(s, Len(s), v)
  BY OwnerEditsStep
<1>3. /\ Newest(instrs'[i]) = v
      /\ \A j \in Instruction \ {i} : instrs'[j] = instrs[j]
  BY <1>1, <1>2, InstructionWritten DEF OwnersStep
<1>4. ASSUME Newest(s).status # "DRAFT"
      PROVE  v.status # "DRAFT" /\ v.kind = Newest(s).kind /\ Newest(s).status # "USED"
  BY <1>2, <1>4 DEF OwnersStep, OwnerMoves, Newest
<1>5. ClaimsKept(s, instrs'[i])
  BY <1>3, <1>4 DEF ClaimsKept, KeptFor, HeldBy
<1>6. SoloPayments'
  BY <1>1, <1>3, <1>5, WriteKeepsPayments
<1>7. ASSUME NEW g \in Handler, pc[g] # "idle"
      PROVE  Solo(pc[g], ctx[g], instrs', payments')
  <2>1. Reads(pc[g]) => ctx[g].body.inst # i
    BY <1>2 DEF Alone, Reads, Inst
  <2> QED
    BY <1>1, <1>3, <1>5, <1>7, <2>1, WriteKeepsRequest
<1>8. SoloRequests'
  BY <1>1, <1>7 DEF SoloRequests
<1> QED
  BY <1>6, <1>8

-----------------------------------------------------------------------------
(* A version of a payment is saved, by the request that works on it.       *)

LEMMA SaveKeepsRequest ==
  ASSUME GrowInv, SoloRequests, NEW h \in Handler, pc[h] = "ready", Works(pc[h], ctx[h]),
         instrs' = instrs, Newest(payments'[ctx[h].p]) = ctx[h].body,
         \A q \in Payment \ {ctx[h].p} : payments'[q] = payments[q],
         ctx[h].body.status \in Saves(ctx[h].op),
         NEW g \in Handler \ {h}, pc[g] # "idle"
  PROVE  Solo(pc[g], ctx[g], instrs', payments')
<1> DEFINE p == ctx[h].p
<1> DEFINE b == ctx[h].body
<1>1. Solo(pc[g], ctx[g], instrs, payments) /\ Apart(pc[h], ctx[h], pc[g], ctx[g])
  BY DEF SoloRequests
<1>2. Before(pc[g], ctx[g]) => Based(ctx[g], payments'[ctx[g].p])
  <2>1. Before(pc[g], ctx[g]) => ctx[g].p # p
    BY <1>1 DEF Before, Apart
  <2>2. ctx[g].p \in Payment
    BY RequestTyped
  <2> QED
    BY <1>1, <2>1, <2>2 DEF Solo
<1>3. ASSUME Passed(pc[g], ctx[g]), NEW q \in Payment \ {ctx[g].p},
             Dependent(payments'[q], {"SUBMITTED"})
      PROVE  Newest(payments'[q]).inst # ctx[g].body.inst
  <2>1. CASE q # p
    BY <1>1, <1>3, <2>1 DEF Solo
  <2>2. CASE q = p
    <3>1. b.status = "SUBMITTED" /\ b.kind = "SINGLE_USE"
      BY <1>3, <2>2 DEF Dependent
    <3>2. ctx[h].op = "SUBMIT"
      BY <3>1 DEF Saves
    <3>3. Passed(pc[h], ctx[h])
      BY <3>1, <3>2 DEF Passed, Submitting
    <3> QED
      BY <1>1, <1>3, <2>2, <3>3 DEF Apart
  <2> QED
    BY <2>1, <2>2
<1> QED
  BY <1>1, <1>2, <1>3 DEF Solo

LEMMA SaveKeepsPayments ==
  ASSUME GrowInv, SoloRequests, SoloPayments, ~overlap, StoresSound,
         NEW h \in Handler, pc[h] = "ready", instrs' = instrs,
         Len(payments'[ctx[h].p]) = Len(payments[ctx[h].p]) + 1,
         payments'[ctx[h].p] # <<>>, Newest(payments'[ctx[h].p]) = ctx[h].body,
         payments'[ctx[h].p][Len(payments[ctx[h].p]) + 1] = ctx[h].body,
         \A q \in Payment \ {ctx[h].p} : payments'[q] = payments[q]
  PROVE  SoloPayments'
<1> DEFINE p == ctx[h].p
<1> DEFINE b == ctx[h].body
<1> DEFINE r == payments[p]
<1> DEFINE op == ctx[h].op
<1>1. /\ p \in Payment /\ b \in PaymentVersion /\ b.inst = Inst(h) /\ b.inst \in Instruction
      /\ r \in Seq(PaymentVersion) /\ b.status \in Saves(op) /\ Noted(b, p, instrs[b.inst])
  BY RequestTyped DEF Placed, Informed
<1>2. /\ Works(pc[h], ctx[h]) /\ Based(ctx[h], r) /\ Solo(pc[h], ctx[h], instrs, payments)
  BY Claims DEF SoloRequests
<1>3. ASSUME b.status \in {"SUBMITTED", "APPROVED"}
      PROVE  /\ b.status = "SUBMITTED" => op = "SUBMIT"
             /\ b.status = "APPROVED" => Approving(pc[h], ctx[h])
  BY <1>1, <1>3 DEF Saves, Approving
<1>4. IsFiniteSet({q \in Payment : payments'[q] # <<>>})
  <2>1. {q \in Payment : payments'[q] # <<>>} \in SUBSET ({q \in Payment : payments[q] # <<>>} \cup {p})
    OBVIOUS
  <2>2. IsFiniteSet({q \in Payment : payments[q] # <<>>} \cup {p})
    BY FS_AddElement DEF SoloPayments
  <2> QED
    BY <2>1, <2>2, FS_Subset
<1>5. ASSUME Dependent(payments'[p], {"SUBMITTED", "APPROVED"})
      PROVE  /\ KeptFor(instrs[b.inst], p)
             /\ b.status = "APPROVED" => Newest(instrs[b.inst]).kind = "SINGLE_USE"
  <2>1. b.kind = "SINGLE_USE" /\ b.status \in {"SUBMITTED", "APPROVED"}
    BY <1>5 DEF Dependent
  <2>2. CASE b.status = "SUBMITTED"
    BY <1>2, <1>3, <2>1, <2>2 DEF Marked, Submitting, Solo
  <2>3. CASE b.status = "APPROVED"
    <3>1. Approving(pc[h], ctx[h])
      BY <1>3, <2>3
    <3>2. Dependent(r, {"SUBMITTED", "APPROVED"}) /\ Newest(r).inst = b.inst
      BY <1>2, <2>1, <3>1 DEF Approving, Based, From, Dependent
    <3> QED
      BY <1>1, <1>2, <2>1, <3>1, <3>2 DEF Solo, SoloPayments
  <2> QED
    BY <2>1, <2>2, <2>3
<1>6. ASSUME NEW q \in Payment, Dependent(payments'[q], {"SUBMITTED", "APPROVED"})
      PROVE  KeptFor(instrs[Newest(payments'[q]).inst], q)
  <2>1. CASE q = p
    BY <1>5, <1>6, <2>1
  <2>2. CASE q # p
    BY <1>6, <2>2 DEF SoloPayments
  <2> QED
    BY <2>1, <2>2
<1>7. ASSUME NEW q \in Payment, Dependent(payments'[q], {"APPROVED"})
      PROVE  Newest(instrs[Newest(payments'[q]).inst]).kind = "SINGLE_USE"
  <2>1. CASE q = p
    <3>1. Dependent(payments'[p], {"SUBMITTED", "APPROVED"}) /\ b.status = "APPROVED"
      BY <1>7, <2>1 DEF Dependent
    <3> QED
      BY <1>5, <2>1, <3>1
  <2>2. CASE q # p
    BY <1>7, <2>2 DEF SoloPayments
  <2> QED
    BY <2>1, <2>2
<1>8. ASSUME NEW q \in Payment \ {p}, Dependent(payments[q], {"SUBMITTED"}),
             Dependent(payments'[p], {"SUBMITTED"})
      PROVE  Newest(payments[q]).inst # b.inst
  <2>1. b.kind = "SINGLE_USE" /\ b.status = "SUBMITTED"
    BY <1>8 DEF Dependent
  <2>2. Passed(pc[h], ctx[h])
    BY <1>2, <1>3, <2>1 DEF Passed, Submitting
  <2> QED
    BY <1>2, <1>8, <2>2 DEF Solo
<1>9. ASSUME NEW q1 \in Payment, NEW q2 \in Payment, q1 # q2,
             Dependent(payments'[q1], {"SUBMITTED"}), Dependent(payments'[q2], {"SUBMITTED"})
      PROVE  Newest(payments'[q1]).inst # Newest(payments'[q2]).inst
  <2>1. CASE q1 = p
    <3>1. payments'[q2] = payments[q2] /\ q2 \in Payment \ {p}
      BY <1>9, <2>1
    <3> QED
      BY <1>8, <1>9, <2>1, <3>1
  <2>2. CASE q2 = p
    <3>1. payments'[q1] = payments[q1] /\ q1 \in Payment \ {p}
      BY <1>9, <2>2
    <3> QED
      BY <1>8, <1>9, <2>2, <3>1
  <2>3. CASE q1 # p /\ q2 # p
    BY <1>9, <2>3 DEF SoloPayments
  <2> QED
    BY <2>1, <2>2, <2>3
<1>10. r = <<>> \/ (r # <<>> /\ Newest(r).status \in {"DRAFT", "SUBMITTED"})
  BY <1>2 DEF Based, From
<1>11. /\ Len(r) \in Nat /\ Grows(r, payments'[p]) /\ overlap' = overlap
       /\ \A k \in 1..Len(payments'[p]) : k \in 1..Len(r) \/ k = Len(r) + 1
  BY <1>1 DEF StoresSound, StoresGrow
<1>12. ASSUME NEW k \in 1..Len(r)
       PROVE  r[k].status \notin {"APPROVED", "REJECTED", "CANCELLED"}
  <2>1. r # <<>>
    BY <1>1
  <2>2. SUFFICES ASSUME r[k].status \in {"APPROVED", "REJECTED", "CANCELLED"} PROVE FALSE
    OBVIOUS
  <2>3. k = Len(r)
    BY <1>1, <2>2 DEF SoloPayments, TerminalIsFinal
  <2> QED
    BY <1>10, <2>1, <2>2, <2>3 DEF Newest
<1>13. TerminalIsFinal'
  <2> SUFFICES ASSUME NEW q \in Payment, NEW k \in 1..Len(payments'[q]),
                      payments'[q][k].status \in {"APPROVED", "REJECTED", "CANCELLED"}
               PROVE  k = Len(payments'[q])
    BY DEF TerminalIsFinal
  <2>1. CASE q # p
    BY <2>1 DEF SoloPayments, TerminalIsFinal
  <2>2. CASE q = p /\ k \in 1..Len(r)
    BY <1>11, <1>12, <2>2 DEF Grows
  <2>3. CASE q = p /\ k = Len(r) + 1
    BY <2>3
  <2> QED
    BY <1>11, <2>1, <2>2, <2>3
<1>14. ApprovedOnOwnTerms'
  <2> DEFINE Own(u, q, k) ==
        LET e == u[k] IN
        e.status = "APPROVED" =>
          /\ e.iver <= Len(instrs[e.inst])
          /\ LET v == instrs[e.inst][e.iver] IN
               IF e.kind = "SINGLE_USE" THEN HeldBy(v, q)
               ELSE v.status = "APPROVED" /\ v.kind = "STANDING"
          /\ k > 1 /\ u[k-1].status = "SUBMITTED" /\ u[k-1].iver = e.iver
  <2>1. ASSUME NEW q \in Payment, NEW k \in 1..Len(payments[q]) PROVE Own(payments[q], q, k)
    BY DEF SoloPayments, ApprovedOnOwnTerms
  <2>2. ASSUME NEW q \in Payment, NEW k \in 1..Len(payments'[q]) PROVE Own(payments'[q], q, k)
    <3>1. CASE q # p
      <4>1. payments'[q] = payments[q]
        BY <3>1
      <4>2. Own(payments[q], q, k)
        BY <2>1, <4>1
      <4> HIDE DEF Own
      <4> QED
        BY <4>1, <4>2
    <3>2. CASE q = p /\ k \in 1..Len(r)
      <4>1. payments'[q][k].status # "APPROVED"
        BY <1>11, <1>12, <3>2 DEF Grows
      <4> QED
        BY <4>1
    <3>3. CASE q = p /\ k = Len(r) + 1
      <4>1. payments'[q][k] = b
        BY <3>3
      <4>2. SUFFICES ASSUME b.status = "APPROVED"
                     PROVE  /\ b.iver <= Len(instrs[b.inst])
                            /\ Terms(b, p, instrs[b.inst])
                            /\ k > 1 /\ payments'[p][k-1].status = "SUBMITTED"
                            /\ payments'[p][k-1].iver = b.iver
        BY <3>3, <4>1 DEF Terms
      <4>3. Approving(pc[h], ctx[h]) /\ Terms(b, p, instrs[b.inst])
        BY <1>2, <1>3, <4>2 DEF Solo
      <4>4. /\ r # <<>> /\ Newest(r).status = "SUBMITTED" /\ Newest(r).iver = b.iver
        BY <1>2, <4>3 DEF Approving, Based, From
      <4>5. Len(r) \in 1..Len(r) /\ k - 1 = Len(r) /\ k > 1
        BY <1>1, <1>11, <3>3, <4>4
      <4>6. payments'[p][k-1] = Newest(r)
        BY <1>11, <4>5 DEF Grows, Newest
      <4>7. b.iver <= Len(instrs[b.inst])
        <5>1. Len(instrs[b.inst]) \in Nat
          BY <1>1 DEF GrowInv, TypeOK
        <5> QED
          BY <1>1, <5>1 DEF Noted
      <4> QED
        BY <4>3, <4>4, <4>5, <4>6, <4>7
    <3> QED
      BY <1>11, <3>1, <3>2, <3>3
  <2> QED
    BY <2>2 DEF ApprovedOnOwnTerms
<1> QED
  BY <1>4, <1>6, <1>7, <1>9, <1>13, <1>14 DEF SoloPayments

LEMMA SaveSolo ==
  ASSUME GrowInv, SoloRequests, SoloPayments, ~overlap, NEW h \in Handler, Save(h)
  PROVE  SoloRequests' /\ SoloPayments'
<1> DEFINE p == ctx[h].p
<1> DEFINE b == ctx[h].body
<1>1. /\ pc[h] = "ready" /\ Stores(p, b) /\ instrs' = instrs
      /\ \/ Goto(h, "releasing") /\ UNCHANGED ctx
         \/ End(h)
  BY DEF Save, Stores
<1>2. /\ ctx[h] \in Context /\ p \in Payment /\ b \in PaymentVersion
      /\ b.status \in Saves(ctx[h].op) /\ Noted(b, p, instrs[b.inst])
  BY <1>1, RequestTyped DEF Placed, Informed
<1>3. Works(pc[h], ctx[h])
  BY <1>1, Claims
<1>4. /\ StoresSound /\ Len(payments'[p]) = Len(payments[p]) + 1
      /\ payments'[p] # <<>> /\ Newest(payments'[p]) = b
      /\ payments'[p][Len(payments[p]) + 1] = b
      /\ \A q \in Payment \ {p} : payments'[q] = payments[q]
  BY <1>1, <1>2, PaymentWritten
<1>5. SoloPayments'
  BY <1>1, <1>4, SaveKeepsPayments
<1>6. \A g \in Handler \ {h} : pc[g] # "idle" => Solo(pc[g], ctx[g], instrs', payments')
  BY <1>1, <1>2, <1>3, <1>4, SaveKeepsRequest
<1>7. CASE End(h)
  <2>1. pc' = [pc EXCEPT ![h] = "idle"] /\ ctx' = [ctx EXCEPT ![h] = Null]
    BY <1>7 DEF End, Goto
  <2> QED
    BY <1>5, <1>6, <2>1, SoloSteps DEF GrowInv
<1>8. CASE Goto(h, "releasing") /\ UNCHANGED ctx
  <2>1. pc' = [pc EXCEPT ![h] = "releasing"] /\ ctx' = [ctx EXCEPT ![h] = ctx[h]]
    BY <1>8 DEF Goto, GrowInv, TypeOK
  <2>2. /\ ~Before("releasing", ctx[h]) /\ ~Passed("releasing", ctx[h])
        /\ ~Reads("releasing") /\ ~Marked("releasing", ctx[h])
        /\ ~Approving("releasing", ctx[h])
    BY DEF Before, Passed, Reads, Marked, Approving
  <2>3. Solo("releasing", ctx[h], instrs', payments')
    BY <2>2 DEF Solo
  <2>4. ASSUME NEW g \in Handler \ {h}, pc[g] # "idle"
        PROVE  Apart("releasing", ctx[h], pc[g], ctx[g])
    <3>1. Apart(pc[h], ctx[h], pc[g], ctx[g])
      BY <1>1, <2>4 DEF SoloRequests
    <3> QED
      BY <1>3, <2>2, <3>1, ApartStays
  <2> QED
    BY <1>5, <1>6, <2>1, <2>3, <2>4, SoloSteps DEF GrowInv
<1> QED
  BY <1>1, <1>7, <1>8

-----------------------------------------------------------------------------
(* The invariant of runs in which requests for one document do not overlap.*)

LEMMA SoloInit == Init => SoloInv
<1> SUFFICES ASSUME Init PROVE SoloRequests /\ SoloPayments
  BY DEF SoloInv
<1>1. SoloRequests
  BY DEF Init, SoloRequests
<1>2. \A p \in Payment : payments[p] = <<>>
  BY DEF Init
<1>3. {p \in Payment : payments[p] # <<>>} = {}
  BY <1>2
<1>4. IsFiniteSet({p \in Payment : payments[p] # <<>>})
  BY <1>3, FS_EmptySet
<1>5. \A p \in Payment : \A statuses : ~Dependent(payments[p], statuses)
  BY <1>2 DEF Dependent
<1>6. \A p \in Payment : 1..Len(payments[p]) = {}
  BY <1>2
<1>7. TerminalIsFinal /\ ApprovedOnOwnTerms
  BY <1>6 DEF TerminalIsFinal, ApprovedOnOwnTerms
<1> QED
  BY <1>1, <1>4, <1>5, <1>7 DEF SoloPayments

LEMMA ProgressSolo ==
  ASSUME GrowInv, SoloRequests, SoloPayments, ~overlap, NEW h \in Handler, Progress(h)
  PROVE  SoloRequests' /\ SoloPayments'
<1>1. CASE FetchForUpdate(h) \/ FetchForSubmit(h) \/ FetchForReject(h) \/ FetchForCancel(h)
  BY <1>1, FetchSolo
<1>2. CASE FetchForApprove(h)
  BY <1>2, ApproveSolo
<1>3. CASE GiveUp(h) \/ UseRefused(h) \/ ReleaseFails(h)
  <2>1. End(h) /\ UNCHANGED <<overlap, instrs, payments>>
    BY <1>3 DEF GiveUp, UseRefused, ReleaseFails
  <2> QED
    BY <2>1, SoloEnds
<1>4. CASE CheckExclusive(h)
  BY <1>4, CheckExclusiveSolo
<1>5. CASE ReadForUse(h) \/ ReadForRelease(h)
  BY <1>5, ReadSolo DEF ReadForUse, ReadForRelease
<1>6. CASE Use(h)
  BY <1>6, UseSolo
<1>7. CASE FetchAfterUse(h)
  BY <1>7, FetchAfterUseSolo
<1>8. CASE Save(h)
  BY <1>8, SaveSolo
<1>9. CASE Release(h)
  BY <1>9, ReleaseSolo
<1> QED
  BY <1>1, <1>2, <1>3, <1>4, <1>5, <1>6, <1>7, <1>8, <1>9 DEF Progress

LEMMA SoloStep == GrowInv /\ SoloInv /\ [Next]_vars => SoloInv'
<1> SUFFICES ASSUME GrowInv, SoloInv, [Next]_vars, ~overlap' PROVE SoloRequests' /\ SoloPayments'
  BY DEF SoloInv
<1>1. overlap' = overlap
  <2>1. ASSUME NEW h \in Handler, Request(h) PROVE overlap' = overlap
    BY <2>1 DEF Request, Create, Update, Submit, Approve, Reject, Cancel, Load, Begin
  <2>2. ASSUME NEW h \in Handler, Progress(h) PROVE overlap' = overlap
    BY <2>2 DEF Progress, FetchForUpdate, FetchForSubmit, FetchForApprove, FetchForReject,
                FetchForCancel, Fetching, GiveUp, CheckExclusive, ReadForUse, Use, UseRefused,
                FetchAfterUse, Save, ReadForRelease, Release, ReleaseFails, ReadCopy
  <2> QED
    BY <2>1, <2>2 DEF Next, SaveFails, Timeout, OwnerEdits, Lapse, Crash, vars
<1>2. ~overlap /\ SoloRequests /\ SoloPayments
  BY <1>1 DEF SoloInv
<1>3. ASSUME NEW h \in Handler, Request(h) PROVE SoloRequests' /\ SoloPayments'
  BY <1>2, <1>3, RequestSolo
<1>4. ASSUME NEW h \in Handler, Progress(h) PROVE SoloRequests' /\ SoloPayments'
  BY <1>2, <1>4, ProgressSolo
<1>5. ASSUME NEW h \in Handler, SaveFails(h) PROVE SoloRequests' /\ SoloPayments'
  <2>1. End(h) /\ UNCHANGED <<overlap, instrs, payments>>
    BY <1>5 DEF SaveFails
  <2> QED
    BY <1>2, <2>1, SoloEnds
<1>6. ASSUME NEW h \in Handler, Timeout(h) PROVE SoloRequests' /\ SoloPayments'
  BY <1>2, <1>6, TimeoutSolo
<1>7. ASSUME NEW i \in Instruction, OwnerEdits(i) PROVE SoloRequests' /\ SoloPayments'
  BY <1>2, <1>7, OwnerEditsSolo
<1>8. CASE UNCHANGED <<overlap, instrs, payments, pc, ctx>>
  BY <1>2, <1>8, PaymentsRest DEF SoloRequests
<1>9. CASE Crash
  BY <1>2, <1>9, CrashSolo
<1> QED
  BY <1>3, <1>4, <1>5, <1>6, <1>7, <1>8, <1>9 DEF Next, Lapse, vars

LEMMA SoloAlways == Spec => []SoloInv
<1>1. Init => GrowInv /\ SoloInv
  BY GrowInit, SoloInit
<1>2. GrowInv /\ SoloInv /\ [Next]_vars => GrowInv' /\ SoloInv'
  BY GrowStep, SoloStep
<1> QED
  BY <1>1, <1>2, PTL DEF Spec

(* A payment that is approved, rejected or cancelled stays so: no request  *)
(* that was under way, and no call carried out late, adds a version to it. *)
THEOREM DecisionsAreFinal == Spec => []TerminalIsFinal
<1>1. SoloInv => TerminalIsFinal
  BY DEF SoloInv, SoloPayments, TerminalIsFinal
<1> QED
  BY <1>1, SoloAlways, PTL

(* An approval is of the submitted version before it, on the instruction   *)
(* version that submission noted: its own use, or the standing approval.   *)
THEOREM ApprovalsRestOnTheirTerms == Spec => []ApprovedOnOwnTerms
<1>1. SoloInv => ApprovedOnOwnTerms
  BY DEF SoloInv, SoloPayments, ApprovedOnOwnTerms
<1> QED
  BY <1>1, SoloAlways, PTL

(* A single-use instruction backs one payment at most: two submitted ones  *)
(* would both have passed the check; with an approved one the newest       *)
(* version of the instruction is the use of one of them.                   *)
THEOREM InstructionsBackOnePayment == Spec => []SingleUse
<1>1. GrowInv /\ SoloInv => SingleUse
  <2> SUFFICES ASSUME GrowInv, SoloInv, ~overlap, NEW p \in Payment, NEW q \in Payment,
                      p # q, payments[p] # <<>>, payments[q] # <<>>,
                      Newest(payments[p]).kind = "SINGLE_USE",
                      Newest(payments[q]).kind = "SINGLE_USE",
                      Newest(payments[p]).inst = Newest(payments[q]).inst,
                      Newest(payments[p]).status \in {"SUBMITTED", "APPROVED"},
                      Newest(payments[q]).status \in {"SUBMITTED", "APPROVED"}
               PROVE  FALSE
    BY DEF SingleUse
  <2> DEFINE s == instrs[Newest(payments[p]).inst]
  <2>1. SoloPayments
    BY DEF SoloInv
  <2>2. KeptFor(s, p) /\ KeptFor(s, q)
    BY <2>1 DEF SoloPayments, Dependent
  <2>3. Newest(s).kind # "SINGLE_USE"
    BY <2>2 DEF KeptFor, HeldBy
  <2>4. CASE Newest(payments[p]).status = "APPROVED" \/ Newest(payments[q]).status = "APPROVED"
    BY <2>1, <2>3, <2>4 DEF SoloPayments, Dependent
  <2>5. CASE Newest(payments[p]).status = "SUBMITTED" /\ Newest(payments[q]).status = "SUBMITTED"
    BY <2>1, <2>5 DEF SoloPayments, Dependent
  <2> QED
    BY <2>4, <2>5
<1> QED
  BY <1>1, GrowAlways, SoloAlways, PTL
=============================================================================
