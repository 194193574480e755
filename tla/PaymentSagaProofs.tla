--------------------------- MODULE PaymentSagaProofs ---------------------------
(***************************************************************************)
(* Theorems about PaymentSaga, for any number of payments, instructions    *)
(* and requests.  The first part is about what a request knows, however    *)
(* requests overlap and calls come late: both stores only grow, so what    *)
(* was read stays true of the versions it was read from.                   *)
(***************************************************************************)
EXTENDS PaymentSaga, FiniteSetTheorems, TLAPS

-----------------------------------------------------------------------------
(* Sequences of versions that grow. *)

Grows(s, t) == Len(s) <= Len(t) /\ \A n \in 1..Len(s) : t[n] = s[n]

LEMMA GrowsSame ==
  ASSUME NEW S, NEW s \in Seq(S)
  PROVE  Grows(s, s) /\ Len(s) \in Nat
BY DEF Grows

LEMMA UseStays ==
  ASSUME NEW S, NEW s \in Seq(S), NEW t \in Seq(S), Grows(s, t),
         NEW p, NEW m \in Nat, NEW n \in Nat, m <= Len(s), m <= n, UsedWithin(s, p, m)
  PROVE  UsedWithin(t, p, n)
BY DEF UsedWithin, Grows

LEMMA NotedStays ==
  ASSUME NEW S, NEW s \in Seq(S), NEW t \in Seq(S), Grows(s, t), NEW p, NEW b, Noted(b, p, s)
  PROVE  Noted(b, p, t)
BY DEF Noted, UsedWithin, Grows

LEMMA WithdrawnStays ==
  ASSUME NEW S, NEW r \in Seq(S), NEW u \in Seq(S), Grows(r, u), NEW i, Withdrawn(r, i)
  PROVE  Withdrawn(u, i)
BY DEF Withdrawn, Grows

LEMMA InformedStays ==
  ASSUME NEW s \in Seq(InstructionVersion), NEW t \in Seq(InstructionVersion), Grows(s, t),
         NEW r \in Seq(PaymentVersion), NEW u \in Seq(PaymentVersion), Grows(r, u),
         NEW at, NEW c, Informed(at, c, s, r)
  PROVE  Informed(at, c, t, u)
<1>1. Noted(c.body, c.p, t)
  BY NotedStays DEF Informed
<1>2. at \in {"useRead", "releaseRead"} => c.read \in 1..Len(t)
  BY DEF Informed, Grows
<1>3. at = "used" => UsedWithin(t, c.p, Len(t))
  BY DEF Informed, Grows, UsedWithin
<1>4. at \in {"releasing", "releaseRead"} => Releases(c.body) /\ Withdrawn(u, c.body.inst)
  BY WithdrawnStays DEF Informed
<1> QED
  BY <1>1, <1>2, <1>3, <1>4 DEF Informed

LEMMA NewestInstruction ==
  ASSUME NEW s \in Seq(InstructionVersion), s # <<>>
  PROVE  /\ Newest(s) \in InstructionVersion /\ Len(s) \in 1..Len(s) /\ Newest(s) = s[Len(s)]
         /\ \A n \in 1..Len(s) : s[n] \in InstructionVersion
BY DEF Newest

LEMMA NewestPayment ==
  ASSUME NEW r \in Seq(PaymentVersion), r # <<>>
  PROVE  /\ Newest(r) \in PaymentVersion /\ Len(r) \in 1..Len(r) /\ Newest(r) = r[Len(r)]
         /\ \A n \in 1..Len(r) : r[n] \in PaymentVersion
BY DEF Newest

-----------------------------------------------------------------------------
(* The two stores after each kind of write. *)

StoresTyped ==
  /\ instrs \in [Instruction -> Seq(InstructionVersion)]
  /\ payments \in [Payment -> Seq(PaymentVersion)]

StoresGrow ==
  /\ overlap' = overlap
  /\ \A i \in Instruction : Grows(instrs[i], instrs'[i])
  /\ \A p \in Payment : Grows(payments[p], payments'[p])

StoresSound == VersionsKnown' /\ StoresTyped' /\ StoresGrow

LEMMA VersionTyped ==
  ASSUME TypeOK, NEW p \in Payment, NEW k \in 1..Len(payments[p])
  PROVE  payments[p][k] \in PaymentVersion /\ payments[p][k].inst \in Instruction
<1>1. payments[p][k] \in PaymentVersion
  BY DEF TypeOK
<1> QED
  BY <1>1 DEF PaymentVersion

LEMMA StoresLeft ==
  ASSUME GrowInv, UNCHANGED <<overlap, instrs, payments>>
  PROVE  StoresSound
<1>1. TypeOK /\ VersionsKnown /\ overlap' = overlap /\ instrs' = instrs /\ payments' = payments
  BY DEF GrowInv
<1>2. VersionsKnown'
  BY <1>1 DEF VersionsKnown
<1>3. StoresGrow
  BY <1>1, GrowsSame DEF TypeOK, StoresGrow
<1> QED
  BY <1>1, <1>2, <1>3 DEF TypeOK, StoresTyped, StoresSound

(* A version of an instruction is added; a release only for a payment that *)
(* is stored as withdrawn.                                                 *)
LEMMA InstructionWritten ==
  ASSUME GrowInv, NEW i \in Instruction, NEW v \in InstructionVersion,
         AddVersion(i, v), UNCHANGED <<overlap, payments>>,
         v.call = "release" => v.ref \in Payment /\ Withdrawn(payments[v.ref], i)
  PROVE  /\ StoresSound
         /\ Len(instrs'[i]) = Len(instrs[i]) + 1 /\ Newest(instrs'[i]) = v
         /\ instrs'[i][Len(instrs[i]) + 1] = v
         /\ \A j \in Instruction \ {i} : instrs'[j] = instrs[j]
<1>1. TypeOK /\ VersionsKnown
  BY DEF GrowInv
<1>2. /\ instrs[i] \in Seq(InstructionVersion) /\ instrs'[i] = Append(instrs[i], v)
      /\ \A j \in Instruction \ {i} : instrs'[j] = instrs[j]
      /\ payments' = payments /\ overlap' = overlap
  BY <1>1 DEF AddVersion, TypeOK
<1>3. /\ instrs'[i] \in Seq(InstructionVersion) /\ Len(instrs'[i]) = Len(instrs[i]) + 1
      /\ instrs'[i] # <<>> /\ Grows(instrs[i], instrs'[i])
      /\ instrs'[i][Len(instrs[i]) + 1] = v /\ Newest(instrs'[i]) = v
      /\ \A n \in 1..Len(instrs'[i]) : n \in 1..Len(instrs[i]) \/ n = Len(instrs[i]) + 1
  <2>1. instrs'[i] \in Seq(InstructionVersion) /\ Len(instrs'[i]) = Len(instrs[i]) + 1 /\ instrs'[i] # <<>>
    BY <1>2
  <2>2. instrs'[i][Len(instrs[i]) + 1] = v /\ \A n \in 1..Len(instrs[i]) : instrs'[i][n] = instrs[i][n]
    BY <1>2
  <2>3. Len(instrs[i]) \in Nat
    BY <1>2
  <2> QED
    BY <2>1, <2>2, <2>3 DEF Newest, Grows
<1>4. StoresGrow
  BY <1>1, <1>2, <1>3, GrowsSame DEF StoresGrow, TypeOK
<1>5. StoresTyped'
  BY <1>1, <1>2, <1>3 DEF AddVersion, StoresTyped, TypeOK
<1>6. ASSUME NEW p \in Payment, NEW k \in 1..Len(payments[p])
      PROVE  Noted(payments[p][k], p, instrs'[payments[p][k].inst])
  <2>1. payments[p][k].inst \in Instruction /\ Noted(payments[p][k], p, instrs[payments[p][k].inst])
    BY <1>1, VersionTyped DEF VersionsKnown
  <2> QED
    BY <1>1, <1>4, <1>5, <2>1, NotedStays DEF StoresGrow, StoresTyped, TypeOK
<1>7. ASSUME NEW j \in Instruction, NEW n \in 1..Len(instrs'[j]), instrs'[j][n].call = "release"
      PROVE  instrs'[j][n].ref \in Payment /\ Withdrawn(payments[instrs'[j][n].ref], j)
  <2>1. CASE n \in 1..Len(instrs[j])
    BY <1>1, <1>4, <1>7, <2>1 DEF VersionsKnown, StoresGrow, Grows
  <2>2. CASE j = i /\ n = Len(instrs[i]) + 1
    BY <2>2, <1>3, <1>7
  <2> QED
    BY <1>2, <1>3, <2>1, <2>2
<1>8. overlap' \in Overlaps /\ \A j \in Instruction : instrs'[j] # <<>>
  BY <1>1, <1>2, <1>3 DEF VersionsKnown
<1>9. VersionsKnown'
  BY <1>2, <1>6, <1>7, <1>8 DEF VersionsKnown
<1> QED
  BY <1>2, <1>3, <1>4, <1>5, <1>9 DEF StoresSound

Stores(p, b) ==
  /\ payments' = [payments EXCEPT ![p] = Append(@, b)]
  /\ UNCHANGED <<overlap, instrs>>

(* A version of a payment is added that notes a version of its instruction.*)
LEMMA PaymentWritten ==
  ASSUME GrowInv, NEW p \in Payment, NEW b \in PaymentVersion, Stores(p, b),
         Noted(b, p, instrs[b.inst])
  PROVE  /\ StoresSound
         /\ Len(payments'[p]) = Len(payments[p]) + 1 /\ Newest(payments'[p]) = b
         /\ payments'[p] # <<>> /\ payments'[p][Len(payments[p]) + 1] = b
         /\ \A q \in Payment \ {p} : payments'[q] = payments[q]
<1>1. TypeOK /\ VersionsKnown
  BY DEF GrowInv
<1>2. /\ payments[p] \in Seq(PaymentVersion) /\ payments'[p] = Append(payments[p], b)
      /\ \A q \in Payment \ {p} : payments'[q] = payments[q]
      /\ instrs' = instrs /\ overlap' = overlap
  BY <1>1 DEF Stores, TypeOK
<1>3. /\ payments'[p] \in Seq(PaymentVersion) /\ Len(payments'[p]) = Len(payments[p]) + 1
      /\ payments'[p] # <<>> /\ Grows(payments[p], payments'[p])
      /\ payments'[p][Len(payments[p]) + 1] = b /\ Newest(payments'[p]) = b
      /\ \A n \in 1..Len(payments'[p]) : n \in 1..Len(payments[p]) \/ n = Len(payments[p]) + 1
  <2>1. payments'[p] \in Seq(PaymentVersion) /\ Len(payments'[p]) = Len(payments[p]) + 1 /\ payments'[p] # <<>>
    BY <1>2
  <2>2. payments'[p][Len(payments[p]) + 1] = b /\ \A n \in 1..Len(payments[p]) : payments'[p][n] = payments[p][n]
    BY <1>2
  <2>3. Len(payments[p]) \in Nat
    BY <1>2
  <2> QED
    BY <2>1, <2>2, <2>3 DEF Newest, Grows
<1>4. StoresGrow
  BY <1>1, <1>2, <1>3, GrowsSame DEF StoresGrow, TypeOK
<1>5. StoresTyped'
  BY <1>1, <1>2, <1>3 DEF Stores, StoresTyped, TypeOK
<1>6. ASSUME NEW q \in Payment, NEW k \in 1..Len(payments'[q])
      PROVE  Noted(payments'[q][k], q, instrs[payments'[q][k].inst])
  <2>1. CASE k \in 1..Len(payments[q])
    BY <1>1, <1>4, <2>1 DEF VersionsKnown, StoresGrow, Grows
  <2>2. CASE q = p /\ k = Len(payments[p]) + 1
    BY <2>2, <1>3
  <2> QED
    BY <1>2, <1>3, <2>1, <2>2
<1>7. ASSUME NEW j \in Instruction, NEW n \in 1..Len(instrs[j]), instrs[j][n].call = "release"
      PROVE  instrs[j][n].ref \in Payment /\ Withdrawn(payments'[instrs[j][n].ref], j)
  <2>1. instrs[j][n].ref \in Payment /\ Withdrawn(payments[instrs[j][n].ref], j)
    BY <1>1, <1>7 DEF VersionsKnown
  <2> QED
    BY <1>1, <1>4, <1>5, <2>1, WithdrawnStays DEF StoresGrow, StoresTyped, TypeOK
<1>8. overlap' \in Overlaps /\ \A j \in Instruction : instrs'[j] # <<>>
  BY <1>1, <1>2 DEF VersionsKnown
<1>9. VersionsKnown'
  BY <1>2, <1>6, <1>7, <1>8 DEF VersionsKnown
<1> QED
  BY <1>2, <1>3, <1>4, <1>5, <1>9 DEF StoresSound

-----------------------------------------------------------------------------
(* Requests.  A step of one leaves what the others know true. *)

LEMMA RequestTyped ==
  ASSUME GrowInv, NEW h \in Handler, pc[h] # "idle"
  PROVE  /\ ctx[h] \in Context /\ ctx[h].p \in Payment /\ ctx[h].body \in PaymentVersion
         /\ Inst(h) \in Instruction /\ Inst(h) = ctx[h].body.inst
         /\ instrs[Inst(h)] \in Seq(InstructionVersion) /\ instrs[Inst(h)] # <<>>
         /\ payments[ctx[h].p] \in Seq(PaymentVersion)
         /\ Placed(pc[h], ctx[h])
         /\ Informed(pc[h], ctx[h], instrs[Inst(h)], payments[ctx[h].p])
<1>1. ctx[h] \in Context
  BY DEF GrowInv, TypeOK
<1>2. ctx[h].p \in Payment /\ ctx[h].body \in PaymentVersion
  BY <1>1 DEF Context
<1>3. Inst(h) \in Instruction /\ Inst(h) = ctx[h].body.inst
  BY <1>2 DEF Inst, PaymentVersion
<1>4. /\ instrs[Inst(h)] \in Seq(InstructionVersion) /\ instrs[Inst(h)] # <<>>
      /\ payments[ctx[h].p] \in Seq(PaymentVersion)
  BY <1>2, <1>3 DEF GrowInv, TypeOK, VersionsKnown
<1>5. Placed(pc[h], ctx[h]) /\ Informed(pc[h], ctx[h], instrs[Inst(h)], payments[ctx[h].p])
  BY DEF GrowInv, RequestsSound
<1> QED
  BY <1>1, <1>2, <1>3, <1>4, <1>5

LEMMA OthersStay ==
  ASSUME GrowInv, StoresSound, NEW g \in Handler, pc'[g] # "idle",
         pc'[g] = pc[g], ctx'[g] = ctx[g]
  PROVE  /\ ctx'[g] \in Context /\ Placed(pc'[g], ctx'[g])
         /\ Informed(pc'[g], ctx'[g], instrs'[ctx'[g].body.inst], payments'[ctx'[g].p])
<1> DEFINE i == ctx[g].body.inst
<1> DEFINE p == ctx[g].p
<1>1. /\ ctx[g] \in Context /\ p \in Payment /\ i \in Instruction /\ Placed(pc[g], ctx[g])
      /\ instrs[i] \in Seq(InstructionVersion) /\ payments[p] \in Seq(PaymentVersion)
      /\ Informed(pc[g], ctx[g], instrs[i], payments[p])
  BY RequestTyped
<1>2. /\ instrs'[i] \in Seq(InstructionVersion) /\ payments'[p] \in Seq(PaymentVersion)
      /\ Grows(instrs[i], instrs'[i]) /\ Grows(payments[p], payments'[p])
  BY <1>1 DEF StoresSound, StoresTyped, StoresGrow
<1>3. Informed(pc[g], ctx[g], instrs'[i], payments'[p])
  BY <1>1, <1>2, InformedStays
<1> QED
  BY <1>1, <1>3

LEMMA HandlerSteps ==
  ASSUME GrowInv, StoresSound, lapsed' \subseteq Instruction,
         requests' \in 0..MaxRequest[overlap'],
         NEW h \in Handler, NEW to \in Phase, NEW c \in Context \cup {Null},
         pc' = [pc EXCEPT ![h] = to], ctx' = [ctx EXCEPT ![h] = c],
         to # "idle" => /\ c \in Context /\ Placed(to, c)
                        /\ Informed(to, c, instrs'[c.body.inst], payments'[c.p])
  PROVE  GrowInv'
<1>1. /\ pc' \in [Handler -> Phase] /\ ctx' \in [Handler -> Context \cup {Null}]
      /\ pc'[h] = to /\ ctx'[h] = c
      /\ \A g \in Handler \ {h} : pc'[g] = pc[g] /\ ctx'[g] = ctx[g]
  BY DEF GrowInv, TypeOK
<1>2. ASSUME NEW g \in Handler, pc'[g] # "idle"
      PROVE  /\ ctx'[g] \in Context /\ Placed(pc'[g], ctx'[g])
             /\ Informed(pc'[g], ctx'[g], instrs'[ctx'[g].body.inst], payments'[ctx'[g].p])
  <2>1. CASE g = h
    BY <1>1, <1>2, <2>1
  <2>2. CASE g # h
    BY <1>1, <1>2, <2>2, OthersStay
  <2> QED
    BY <2>1, <2>2
<1>3. TypeOK'
  BY <1>1, <1>2 DEF TypeOK, StoresSound, StoresTyped
<1>4. RequestsSound'
  BY <1>2 DEF RequestsSound, Inst
<1> QED
  BY <1>3, <1>4 DEF GrowInv, StoresSound

(* A request goes on, or ends, and the stores are left alone.              *)
LEMMA HandlerMoves ==
  ASSUME GrowInv, UNCHANGED <<overlap, instrs, lapsed, payments, requests>>,
         NEW h \in Handler, NEW to \in Phase, NEW c \in Context,
         pc' = [pc EXCEPT ![h] = to], ctx' = [ctx EXCEPT ![h] = c],
         Placed(to, c), Informed(to, c, instrs[c.body.inst], payments[c.p])
  PROVE  GrowInv'
<1>1. StoresSound
  BY StoresLeft
<1>2. lapsed' \subseteq Instruction /\ requests' \in 0..MaxRequest[overlap']
  BY DEF GrowInv, TypeOK
<1> QED
  BY <1>1, <1>2, HandlerSteps

LEMMA HandlerEnds ==
  ASSUME GrowInv, StoresSound, UNCHANGED <<lapsed, requests>>, NEW h \in Handler, End(h)
  PROVE  GrowInv'
<1>1. /\ pc' = [pc EXCEPT ![h] = "idle"] /\ ctx' = [ctx EXCEPT ![h] = Null]
      /\ "idle" \in Phase
  BY DEF End, Goto, Phase
<1>2. lapsed' \subseteq Instruction /\ requests' \in 0..MaxRequest[overlap']
  BY DEF GrowInv, TypeOK, StoresSound, StoresGrow
<1> QED
  BY <1>1, <1>2, HandlerSteps

(* The body in hand is replaced.                                           *)
LEMMA BodyReplaced ==
  ASSUME NEW c \in Context, NEW b \in PaymentVersion, NEW d, d = [c EXCEPT !.body = b]
  PROVE  /\ d \in Context /\ d.body = b /\ d.op = c.op /\ d.p = c.p
         /\ d.read = c.read /\ d.waits = c.waits
BY DEF Context

LEMMA Fetched ==
  ASSUME GrowInv, UNCHANGED <<overlap, instrs, lapsed, payments, requests>>,
         NEW h \in Handler, pc[h] \in {"loaded", "used"}, NEW b \in PaymentVersion,
         b.inst = Inst(h), Noted(b, ctx[h].p, instrs[Inst(h)]), Hold(h, b),
         \/ Goto(h, "ready") /\ b.status \in Saves(ctx[h].op)
         \/ /\ Goto(h, "checking") /\ ctx[h].op = "SUBMIT"
            /\ b.kind = "SINGLE_USE" /\ b.status = "DRAFT"
  PROVE  GrowInv'
<1> DEFINE d == [ctx[h] EXCEPT !.body = b]
<1>1. /\ ctx[h] \in Context /\ Placed(pc[h], ctx[h]) /\ Inst(h) = ctx[h].body.inst
  BY RequestTyped
<1>2. ctx[h].waits /\ ctx[h].op # "CREATE"
  BY <1>1 DEF Placed, Calls
<1>3. ctx' = [ctx EXCEPT ![h] = d]
  BY <1>1 DEF Hold, GrowInv, TypeOK
<1>4. d \in Context /\ d.body = b /\ d.op = ctx[h].op /\ d.p = ctx[h].p /\ d.waits = ctx[h].waits
  BY <1>1, BodyReplaced
<1>5. PICK to \in {"ready", "checking"} :
        /\ pc' = [pc EXCEPT ![h] = to]
        /\ to = "ready" => b.status \in Saves(ctx[h].op)
        /\ to = "checking" => ctx[h].op = "SUBMIT" /\ b.kind = "SINGLE_USE" /\ b.status = "DRAFT"
  BY DEF Goto
<1>6. Placed(to, d)
  BY <1>2, <1>4, <1>5 DEF Placed, From
<1>7. Informed(to, d, instrs[d.body.inst], payments[d.p])
  BY <1>4, <1>5 DEF Informed
<1>8. to \in Phase
  BY DEF Phase
<1> HIDE DEF d
<1> QED
  BY <1>3, <1>4, <1>5, <1>6, <1>7, <1>8, HandlerMoves

LEMMA BodyRefreshed ==
  ASSUME GrowInv, NEW b \in PaymentVersion
  PROVE  /\ Refreshed(b) \in PaymentVersion /\ Refreshed(b).inst = b.inst
         /\ Refreshed(b).kind = b.kind /\ Refreshed(b).status = b.status
         /\ Refreshed(b).iver = Len(instrs[b.inst]) /\ Refreshed(b).system = b.system
         /\ Refreshed(b).iver \in 1..Len(instrs[b.inst])
<1>1. b.inst \in Instruction
  BY DEF PaymentVersion
<1>2. instrs[b.inst] \in Seq(InstructionVersion) /\ instrs[b.inst] # <<>>
  BY <1>1 DEF GrowInv, TypeOK, VersionsKnown
<1>3. Len(instrs[b.inst]) \in Nat /\ Len(instrs[b.inst]) \in 1..Len(instrs[b.inst])
  BY <1>2
<1> QED
  BY <1>3 DEF Refreshed, PaymentVersion

LEMMA BodySubmitted ==
  ASSUME NEW b \in PaymentVersion
  PROVE  /\ Submitted(b) \in PaymentVersion /\ Submitted(b).inst = b.inst
         /\ Submitted(b).kind = b.kind /\ Submitted(b).status = "SUBMITTED"
         /\ Submitted(b).iver = b.iver /\ Submitted(b).system = b.system
BY DEF Submitted, PaymentVersion, PaymentStatus

(* The request that fetches.                                               *)
LEMMA Fetcher ==
  ASSUME GrowInv, NEW h \in Handler, NEW op, Fetching(h, op)
  PROVE  /\ UNCHANGED <<overlap, instrs, lapsed, payments, requests>>
         /\ pc[h] = "loaded" /\ ctx[h].op = op /\ ctx[h] \in Context
         /\ ctx[h].p \in Payment /\ ctx[h].body \in PaymentVersion
         /\ Inst(h) = ctx[h].body.inst
         /\ ctx[h].body.status \in From(op)
         /\ Noted(ctx[h].body, ctx[h].p, instrs[Inst(h)])
<1>1. /\ UNCHANGED <<overlap, instrs, lapsed, payments, requests>>
      /\ pc[h] = "loaded" /\ ctx[h].op = op
  BY DEF Fetching
<1> QED
  BY <1>1, RequestTyped DEF Placed, Informed

LEMMA FetchForUpdateGrows ==
  ASSUME GrowInv, NEW h \in Handler, FetchForUpdate(h)
  PROVE  GrowInv'
<1> DEFINE b == ctx[h].body
<1>1. /\ UNCHANGED <<overlap, instrs, lapsed, payments, requests>> /\ pc[h] = "loaded"
      /\ ctx[h].op = "UPDATE" /\ b \in PaymentVersion /\ b.status = "DRAFT" /\ Inst(h) = b.inst
  BY Fetcher DEF FetchForUpdate, From
<1>2. /\ Refreshed(b) \in PaymentVersion /\ Refreshed(b).inst = Inst(h)
      /\ Refreshed(b).status = "DRAFT" /\ Noted(Refreshed(b), ctx[h].p, instrs[Inst(h)])
  BY <1>1, BodyRefreshed DEF Noted
<1>3. Hold(h, Refreshed(b)) /\ Goto(h, "ready") /\ "DRAFT" \in Saves("UPDATE")
  BY DEF FetchForUpdate, Saves
<1> QED
  BY <1>1, <1>2, <1>3, Fetched

LEMMA FetchForSubmitGrows ==
  ASSUME GrowInv, NEW h \in Handler, FetchForSubmit(h)
  PROVE  GrowInv'
<1> DEFINE b == ctx[h].body
<1>1. /\ UNCHANGED <<overlap, instrs, lapsed, payments, requests>> /\ pc[h] = "loaded"
      /\ ctx[h].op = "SUBMIT" /\ b \in PaymentVersion /\ b.status = "DRAFT" /\ Inst(h) = b.inst
  BY Fetcher DEF FetchForSubmit, From
<1>2. /\ Refreshed(b) \in PaymentVersion /\ Refreshed(b).inst = Inst(h)
      /\ Refreshed(b).status = "DRAFT" /\ Refreshed(b).kind = b.kind
      /\ Refreshed(b).iver \in 1..Len(instrs[Inst(h)])
  BY <1>1, BodyRefreshed
<1>3. CASE b.kind = "SINGLE_USE" /\ Hold(h, Refreshed(b)) /\ Goto(h, "checking")
  <2>1. Noted(Refreshed(b), ctx[h].p, instrs[Inst(h)])
    BY <1>2 DEF Noted
  <2> QED
    BY <1>1, <1>2, <1>3, <2>1, Fetched
<1>4. CASE b.kind = "STANDING" /\ Hold(h, Submitted(Refreshed(b))) /\ Goto(h, "ready")
  <2>1. /\ Submitted(Refreshed(b)) \in PaymentVersion /\ Submitted(Refreshed(b)).inst = Inst(h)
        /\ Submitted(Refreshed(b)).status \in Saves("SUBMIT")
        /\ Noted(Submitted(Refreshed(b)), ctx[h].p, instrs[Inst(h)])
    BY <1>2, <1>4, BodySubmitted DEF Noted, Saves
  <2> QED
    BY <1>1, <1>4, <2>1, Fetched
<1> QED
  BY <1>3, <1>4 DEF FetchForSubmit

(* The other fetches change the status of the body only, and not to        *)
(* SUBMITTED.                                                              *)
LEMMA BodyDecided ==
  ASSUME GrowInv, NEW h \in Handler, NEW op, Fetching(h, op), NEW b \in PaymentVersion,
         b.inst = Inst(h), b.iver = ctx[h].body.iver, b.status \in Saves(op),
         b.status # "SUBMITTED", Hold(h, b), Goto(h, "ready")
  PROVE  GrowInv'
<1>1. /\ UNCHANGED <<overlap, instrs, lapsed, payments, requests>> /\ pc[h] = "loaded"
      /\ ctx[h].op = op /\ Noted(ctx[h].body, ctx[h].p, instrs[Inst(h)])
  BY Fetcher
<1>2. Noted(b, ctx[h].p, instrs[Inst(h)])
  BY <1>1 DEF Noted
<1> QED
  BY <1>1, <1>2, Fetched

LEMMA FetchForDecisionGrows ==
  ASSUME GrowInv, NEW h \in Handler,
         FetchForApprove(h) \/ FetchForReject(h) \/ FetchForCancel(h)
  PROVE  GrowInv'
<1> DEFINE b == ctx[h].body
<1>1. ASSUME NEW op, Fetching(h, op)
      PROVE  /\ b \in PaymentVersion /\ b.inst = Inst(h)
             /\ \A s \in PaymentStatus :
                  LET e == [b EXCEPT !.status = s] IN
                  e \in PaymentVersion /\ e.inst = Inst(h) /\ e.iver = b.iver /\ e.status = s
             /\ LET e == [b EXCEPT !.status = "CANCELLED", !.system = TRUE] IN
                e \in PaymentVersion /\ e.inst = Inst(h) /\ e.iver = b.iver /\ e.status = "CANCELLED"
  <2>1. b \in PaymentVersion /\ b.inst = Inst(h)
    BY <1>1, Fetcher
  <2> QED
    BY <2>1 DEF PaymentVersion, PaymentStatus
<1>2. CASE FetchForApprove(h)
  <2>1. Fetching(h, "APPROVE") /\ Goto(h, "ready") /\ {"APPROVED", "CANCELLED"} \subseteq Saves("APPROVE")
    BY <1>2 DEF FetchForApprove, Saves
  <2>2. CASE Hold(h, [b EXCEPT !.status = "APPROVED"])
    BY <1>1, <2>1, <2>2, BodyDecided DEF PaymentStatus
  <2>3. CASE Hold(h, [b EXCEPT !.status = "CANCELLED", !.system = TRUE])
    BY <1>1, <2>1, <2>3, BodyDecided
  <2> QED
    BY <1>2, <2>2, <2>3 DEF FetchForApprove
<1>3. CASE FetchForReject(h)
  <2>1. /\ Fetching(h, "REJECT") /\ Goto(h, "ready") /\ "REJECTED" \in Saves("REJECT")
        /\ Hold(h, [b EXCEPT !.status = "REJECTED"])
    BY <1>3 DEF FetchForReject, Saves
  <2> QED
    BY <1>1, <2>1, BodyDecided DEF PaymentStatus
<1>4. CASE FetchForCancel(h)
  <2>1. /\ Fetching(h, "CANCEL") /\ Goto(h, "ready") /\ "CANCELLED" \in Saves("CANCEL")
        /\ Hold(h, [b EXCEPT !.status = "CANCELLED"])
    BY <1>4 DEF FetchForCancel, Saves
  <2> QED
    BY <1>1, <2>1, BodyDecided DEF PaymentStatus
<1> QED
  BY <1>2, <1>3, <1>4

LEMMA FetchAfterUseGrows ==
  ASSUME GrowInv, NEW h \in Handler, FetchAfterUse(h)
  PROVE  GrowInv'
<1> DEFINE b == ctx[h].body
<1>1. /\ pc[h] = "used" /\ Goto(h, "ready") /\ Hold(h, Submitted(Refreshed(b)))
      /\ UNCHANGED <<overlap, instrs, lapsed, payments, requests>>
  BY DEF FetchAfterUse
<1>2. /\ b \in PaymentVersion /\ Inst(h) = b.inst /\ ctx[h].op = "SUBMIT"
      /\ UsedWithin(instrs[Inst(h)], ctx[h].p, Len(instrs[Inst(h)]))
  BY <1>1, RequestTyped DEF Placed, Informed
<1>3. /\ Refreshed(b) \in PaymentVersion /\ Refreshed(b).inst = Inst(h)
      /\ Refreshed(b).iver = Len(instrs[Inst(h)]) /\ Refreshed(b).iver \in 1..Len(instrs[Inst(h)])
  BY <1>2, BodyRefreshed
<1>4. /\ Submitted(Refreshed(b)) \in PaymentVersion /\ Submitted(Refreshed(b)).inst = Inst(h)
      /\ Submitted(Refreshed(b)).status = "SUBMITTED"
      /\ Noted(Submitted(Refreshed(b)), ctx[h].p, instrs[Inst(h)])
  BY <1>2, <1>3, BodySubmitted DEF Noted
<1>5. "SUBMITTED" \in Saves("SUBMIT")
  BY DEF Saves
<1> QED
  BY <1>1, <1>2, <1>4, <1>5, Fetched

-----------------------------------------------------------------------------
(* Requests that begin. *)

LEMMA BeginGrows ==
  ASSUME GrowInv, NEW h \in Handler, NEW op \in Operation, NEW p \in Payment,
         NEW b \in PaymentVersion, NEW to \in {"loaded", "ready"}, Begin(h, op, p, b, to),
         Noted(b, p, instrs[b.inst]),
         op = "CREATE" => to = "ready",
         to = "ready" => b.status \in Saves(op),
         to = "loaded" => b.status \in From(op)
  PROVE  GrowInv'
<1> DEFINE c == [op |-> op, p |-> p, body |-> b, read |-> 0, waits |-> TRUE]
<1>1. /\ pc' = [pc EXCEPT ![h] = to] /\ ctx' = [ctx EXCEPT ![h] = c]
      /\ UNCHANGED <<overlap, instrs, lapsed, payments>>
      /\ requests' = requests + 1 /\ requests < MaxRequest[overlap]
  BY DEF Begin, Goto
<1>2. /\ c \in Context /\ c.op = op /\ c.p = p /\ c.body = b /\ c.waits
  BY DEF Context
<1>3. Placed(to, c)
  BY <1>2 DEF Placed
<1>4. Informed(to, c, instrs[c.body.inst], payments[c.p])
  BY <1>2 DEF Informed
<1>5. StoresSound /\ lapsed' \subseteq Instruction
  BY <1>1, StoresLeft DEF GrowInv, TypeOK
<1>6. requests' \in 0..MaxRequest[overlap']
  <2>1. requests \in 0..MaxRequest[overlap] /\ overlap \in BOOLEAN
    BY ConstantsAssumption DEF GrowInv, TypeOK, VersionsKnown
  <2>2. MaxRequest[overlap] \in Nat
    BY <2>1, ConstantsAssumption
  <2> QED
    BY <1>1, <2>1, <2>2
<1>7. to \in Phase
  BY DEF Phase
<1> HIDE DEF c
<1> QED
  BY <1>1, <1>2, <1>3, <1>4, <1>5, <1>6, <1>7, HandlerSteps

LEMMA CreateGrows ==
  ASSUME GrowInv, NEW h \in Handler, NEW p \in Payment, Create(h, p)
  PROVE  GrowInv'
<1>1. PICK i \in Instruction :
        Begin(h, "CREATE", p,
              [inst |-> i, kind |-> Newest(instrs[i]).kind, status |-> "DRAFT",
               iver |-> Len(instrs[i]), submitted |-> FALSE, system |-> FALSE], "ready")
  BY DEF Create
<1> DEFINE b == [inst |-> i, kind |-> Newest(instrs[i]).kind, status |-> "DRAFT",
                 iver |-> Len(instrs[i]), submitted |-> FALSE, system |-> FALSE]
<1>2. instrs[i] \in Seq(InstructionVersion) /\ instrs[i] # <<>>
  BY DEF GrowInv, TypeOK, VersionsKnown
<1>3. /\ Newest(instrs[i]).kind \in Kind
      /\ Len(instrs[i]) \in Nat /\ Len(instrs[i]) \in 1..Len(instrs[i])
  <2>1. Newest(instrs[i]) \in InstructionVersion
    BY <1>2, NewestInstruction
  <2>2. Len(instrs[i]) \in Nat /\ Len(instrs[i]) \in 1..Len(instrs[i])
    BY <1>2
  <2> QED
    BY <2>1, <2>2 DEF InstructionVersion
<1>4. b \in PaymentVersion /\ b.inst = i /\ b.status = "DRAFT" /\ b.iver = Len(instrs[i])
  BY <1>3 DEF PaymentVersion, PaymentStatus
<1>5. Noted(b, p, instrs[b.inst])
  BY <1>3, <1>4 DEF Noted
<1>6. "CREATE" \in Operation /\ "DRAFT" \in Saves("CREATE") /\ Begin(h, "CREATE", p, b, "ready")
  BY <1>1 DEF Operation, Saves
<1> HIDE DEF b
<1> QED
  BY <1>4, <1>5, <1>6, BeginGrows

LEMMA LoadGrows ==
  ASSUME GrowInv, NEW h \in Handler, NEW op \in Operation \ {"CREATE"}, NEW p \in Payment,
         Load(h, op, p, From(op))
  PROVE  GrowInv'
<1> DEFINE b == Newest(payments[p])
<1>1. /\ payments[p] # <<>> /\ b.status \in From(op) /\ Begin(h, op, p, b, "loaded")
  BY DEF Load
<1>2. payments[p] \in Seq(PaymentVersion)
  BY DEF GrowInv, TypeOK
<1>3. b \in PaymentVersion /\ Noted(b, p, instrs[b.inst])
  BY <1>1, <1>2, NewestPayment DEF GrowInv, VersionsKnown
<1> HIDE DEF b
<1> QED
  BY <1>1, <1>3, BeginGrows

LEMMA RequestGrows ==
  ASSUME GrowInv, NEW h \in Handler, Request(h)
  PROVE  GrowInv'
<1>1. /\ From("UPDATE") = {"DRAFT"} /\ From("SUBMIT") = {"DRAFT"}
      /\ From("APPROVE") = {"SUBMITTED"} /\ From("REJECT") = {"SUBMITTED"}
      /\ From("CANCEL") = {"DRAFT", "SUBMITTED"}
      /\ {"UPDATE", "SUBMIT", "APPROVE", "REJECT", "CANCEL"} \subseteq Operation \ {"CREATE"}
  BY DEF From, Operation
<1>2. PICK p \in Payment :
        Create(h, p) \/ Update(h, p) \/ Submit(h, p) \/ Approve(h, p) \/ Reject(h, p) \/ Cancel(h, p)
  BY DEF Request
<1>3. CASE Create(h, p)
  BY <1>3, CreateGrows
<1>4. CASE Update(h, p)
  BY <1>1, <1>4, LoadGrows DEF Update
<1>5. CASE Submit(h, p)
  BY <1>1, <1>5, LoadGrows DEF Submit
<1>6. CASE Approve(h, p)
  BY <1>1, <1>6, LoadGrows DEF Approve
<1>7. CASE Reject(h, p)
  BY <1>1, <1>7, LoadGrows DEF Reject
<1>8. CASE Cancel(h, p)
  BY <1>1, <1>8, LoadGrows DEF Cancel
<1> QED
  BY <1>2, <1>3, <1>4, <1>5, <1>6, <1>7, <1>8

-----------------------------------------------------------------------------
(* The calls, and the version that is saved. *)

(* A request goes to another phase with the context it has.                *)
LEMMA PhaseMoves ==
  ASSUME GrowInv, UNCHANGED <<overlap, instrs, lapsed, payments, ctx, requests>>,
         NEW h \in Handler, pc[h] # "idle", NEW to \in Phase, Goto(h, to),
         Placed(to, ctx[h]), Informed(to, ctx[h], instrs[Inst(h)], payments[ctx[h].p])
  PROVE  GrowInv'
<1>1. ctx[h] \in Context /\ Inst(h) = ctx[h].body.inst
  BY RequestTyped
<1>2. pc' = [pc EXCEPT ![h] = to] /\ ctx' = [ctx EXCEPT ![h] = ctx[h]]
  BY DEF Goto, GrowInv, TypeOK
<1> QED
  BY <1>1, <1>2, HandlerMoves

LEMMA CheckExclusiveGrows ==
  ASSUME GrowInv, NEW h \in Handler, CheckExclusive(h)
  PROVE  GrowInv'
<1>1. /\ UNCHANGED <<overlap, instrs, lapsed, payments, ctx, requests>>
      /\ pc[h] = "checking" /\ Goto(h, "using")
  BY DEF CheckExclusive
<1>2. /\ Placed("using", ctx[h]) /\ Informed("using", ctx[h], instrs[Inst(h)], payments[ctx[h].p])
  BY <1>1, RequestTyped DEF Placed, Informed, Calls
<1>3. "using" \in Phase
  BY DEF Phase
<1> QED
  BY <1>1, <1>2, <1>3, PhaseMoves

LEMMA ReadGrows ==
  ASSUME GrowInv, NEW h \in Handler,
         \/ pc[h] = "using" /\ ReadCopy(h, "useRead")
         \/ pc[h] = "releasing" /\ ReadCopy(h, "releaseRead")
  PROVE  GrowInv'
<1> DEFINE n == Len(instrs[Inst(h)])
<1> DEFINE c == [ctx[h] EXCEPT !.read = n]
<1>1. PICK to \in {"useRead", "releaseRead"} :
        /\ pc[h] = (IF to = "useRead" THEN "using" ELSE "releasing") /\ ReadCopy(h, to)
  OBVIOUS
<1>2. /\ UNCHANGED <<overlap, instrs, lapsed, payments, requests>>
      /\ pc' = [pc EXCEPT ![h] = to]
  BY <1>1 DEF ReadCopy, Goto
<1>3. /\ ctx[h] \in Context /\ Inst(h) = ctx[h].body.inst
      /\ Placed(pc[h], ctx[h]) /\ Informed(pc[h], ctx[h], instrs[Inst(h)], payments[ctx[h].p])
      /\ instrs[Inst(h)] \in Seq(InstructionVersion) /\ instrs[Inst(h)] # <<>>
  BY <1>1, RequestTyped
<1>4. n \in Nat /\ n \in 1..n
  BY <1>3
<1>5. /\ c \in Context /\ c.op = ctx[h].op /\ c.p = ctx[h].p /\ c.body = ctx[h].body
      /\ c.read = n /\ c.waits = ctx[h].waits
  BY <1>3, <1>4 DEF Context
<1>6. ctx' = [ctx EXCEPT ![h] = c]
  BY <1>1, <1>3 DEF ReadCopy, GrowInv, TypeOK
<1>7. Placed(to, c)
  BY <1>1, <1>3, <1>5 DEF Placed, Calls
<1>8. Informed(to, c, instrs[c.body.inst], payments[c.p])
  BY <1>1, <1>3, <1>4, <1>5 DEF Informed
<1>9. to \in Phase
  BY DEF Phase
<1> HIDE DEF c
<1> QED
  BY <1>2, <1>5, <1>6, <1>7, <1>8, <1>9, HandlerMoves

LEMMA EndGrows ==
  ASSUME GrowInv, NEW h \in Handler,
         GiveUp(h) \/ UseRefused(h) \/ SaveFails(h) \/ ReleaseFails(h)
  PROVE  GrowInv'
<1>1. End(h) /\ UNCHANGED <<overlap, instrs, lapsed, payments, requests>>
  BY DEF GiveUp, UseRefused, SaveFails, ReleaseFails
<1> QED
  BY <1>1, StoresLeft, HandlerEnds

(* The two versions a call adds.                                           *)
LEMMA CopyRead ==
  ASSUME GrowInv, NEW h \in Handler, pc[h] \in {"useRead", "releaseRead"}
  PROVE  /\ instrs[Inst(h)][ctx[h].read] \in InstructionVersion
         /\ ctx[h].p \in Payment /\ Inst(h) \in Instruction
<1>1. /\ instrs[Inst(h)] \in Seq(InstructionVersion) /\ Inst(h) \in Instruction
      /\ ctx[h].p \in Payment /\ ctx[h].read \in 1..Len(instrs[Inst(h)])
  BY RequestTyped DEF Informed
<1> QED
  BY <1>1

LEMMA UsedTyped ==
  ASSUME NEW v \in InstructionVersion, NEW p \in Payment
  PROVE  /\ Used(v, p) \in InstructionVersion /\ Used(v, p).call = "use" /\ Used(v, p).ref = p
         /\ Used(v, p).kind = v.kind
         /\ v.kind = "SINGLE_USE" => HeldBy(Used(v, p), p)
         /\ v.kind # "SINGLE_USE" => Used(v, p).status = v.status
BY DEF Used, InstructionVersion, InstructionStatus, HeldBy

ReleasedCopy(v, p) ==
  [v EXCEPT !.status = "APPROVED", !.usedBy = Null, !.call = "release", !.ref = p]

LEMMA ReleasedTyped ==
  ASSUME NEW v \in InstructionVersion, NEW p \in Payment
  PROVE  /\ ReleasedCopy(v, p) \in InstructionVersion /\ ReleasedCopy(v, p).call = "release"
         /\ ReleasedCopy(v, p).ref = p /\ ReleasedCopy(v, p).kind = v.kind
         /\ ReleasedCopy(v, p).status = "APPROVED"
BY DEF ReleasedCopy, InstructionVersion, InstructionStatus

LEMMA UseGrows ==
  ASSUME GrowInv, NEW h \in Handler, Use(h)
  PROVE  GrowInv' /\ StoresSound
<1> DEFINE i == Inst(h)
<1> DEFINE p == ctx[h].p
<1> DEFINE v == Used(instrs[i][ctx[h].read], p)
<1>1. /\ pc[h] = "useRead" /\ AddVersion(i, v)
      /\ UNCHANGED <<overlap, lapsed, payments, requests>>
      /\ \/ ctx[h].waits /\ Goto(h, "used") /\ UNCHANGED ctx
         \/ End(h)
  BY DEF Use, AnswerTo
<1>2. /\ ctx[h] \in Context /\ p \in Payment /\ i \in Instruction /\ i = ctx[h].body.inst
      /\ Placed("useRead", ctx[h]) /\ Informed("useRead", ctx[h], instrs[i], payments[p])
      /\ instrs[i] \in Seq(InstructionVersion)
  BY <1>1, RequestTyped
<1>3. v \in InstructionVersion /\ v.call = "use" /\ v.ref = p
  BY <1>1, CopyRead, UsedTyped
<1>4. /\ StoresSound /\ Len(instrs'[i]) = Len(instrs[i]) + 1
      /\ instrs'[i][Len(instrs[i]) + 1] = v
  <2> HIDE DEF v
  <2> QED
    BY <1>1, <1>2, <1>3, InstructionWritten
<1>5. CASE End(h)
  BY <1>1, <1>4, <1>5, HandlerEnds
<1>6. CASE ctx[h].waits /\ Goto(h, "used") /\ UNCHANGED ctx
  <2>1. pc' = [pc EXCEPT ![h] = "used"] /\ ctx' = [ctx EXCEPT ![h] = ctx[h]] /\ "used" \in Phase
    BY <1>6 DEF Goto, GrowInv, TypeOK, Phase
  <2>2. Placed("used", ctx[h])
    BY <1>2, <1>6 DEF Placed
  <2>3. Noted(ctx[h].body, p, instrs'[i])
    BY <1>2, <1>4, NotedStays DEF Informed, StoresSound, StoresTyped, StoresGrow
  <2>4. UsedWithin(instrs'[i], p, Len(instrs'[i]))
    <3>1. Len(instrs[i]) + 1 \in 1..Len(instrs'[i])
      BY <1>2, <1>4
    <3> QED
      BY <1>3, <1>4, <3>1 DEF UsedWithin
  <2>5. Informed("used", ctx[h], instrs'[ctx[h].body.inst], payments'[ctx[h].p])
    BY <1>2, <2>3, <2>4 DEF Informed
  <2>6. lapsed' \subseteq Instruction /\ requests' \in 0..MaxRequest[overlap']
    BY <1>1 DEF GrowInv, TypeOK
  <2> QED
    BY <1>2, <1>4, <2>1, <2>2, <2>5, <2>6, HandlerSteps
<1> QED
  BY <1>1, <1>4, <1>5, <1>6

LEMMA ReleaseGrows ==
  ASSUME GrowInv, NEW h \in Handler, Release(h)
  PROVE  GrowInv' /\ StoresSound
<1> DEFINE i == Inst(h)
<1> DEFINE p == ctx[h].p
<1> DEFINE v == ReleasedCopy(instrs[i][ctx[h].read], p)
<1>1. /\ pc[h] = "releaseRead" /\ AddVersion(i, v) /\ End(h)
      /\ UNCHANGED <<overlap, lapsed, payments, requests>>
  BY DEF Release, ReleasedCopy
<1>2. /\ p \in Payment /\ i \in Instruction /\ Withdrawn(payments[p], i)
  BY <1>1, RequestTyped DEF Informed
<1>3. v \in InstructionVersion /\ v.ref = p
  BY <1>1, CopyRead, ReleasedTyped
<1>4. StoresSound
  <2> HIDE DEF v
  <2> QED
    BY <1>1, <1>2, <1>3, InstructionWritten
<1> QED
  BY <1>1, <1>4, HandlerEnds

LEMMA SaveGrows ==
  ASSUME GrowInv, NEW h \in Handler, Save(h)
  PROVE  GrowInv' /\ StoresSound
<1> DEFINE p == ctx[h].p
<1> DEFINE b == ctx[h].body
<1>1. /\ pc[h] = "ready" /\ Stores(p, b) /\ UNCHANGED <<lapsed, requests>>
      /\ IF Releases(b) THEN Goto(h, "releasing") /\ UNCHANGED ctx ELSE End(h)
  BY DEF Save, Stores
<1>2. /\ ctx[h] \in Context /\ p \in Payment /\ b \in PaymentVersion
      /\ Placed("ready", ctx[h]) /\ Informed("ready", ctx[h], instrs[b.inst], payments[p])
      /\ payments[p] \in Seq(PaymentVersion)
  BY <1>1, RequestTyped
<1>3. Noted(b, p, instrs[b.inst])
  BY <1>2 DEF Informed
<1>4. /\ StoresSound /\ Len(payments'[p]) = Len(payments[p]) + 1
      /\ payments'[p][Len(payments[p]) + 1] = b
  BY <1>1, <1>2, <1>3, PaymentWritten
<1>5. CASE End(h)
  BY <1>1, <1>4, <1>5, HandlerEnds
<1>6. CASE Releases(b) /\ Goto(h, "releasing") /\ UNCHANGED ctx
  <2>1. /\ pc' = [pc EXCEPT ![h] = "releasing"] /\ ctx' = [ctx EXCEPT ![h] = ctx[h]]
        /\ "releasing" \in Phase
    BY <1>6 DEF Goto, GrowInv, TypeOK, Phase
  <2>2. Placed("releasing", ctx[h])
    <3>1. ctx[h].op # "CREATE"
      BY <1>2, <1>6 DEF Placed, Saves, Releases
    <3> QED
      BY <1>2, <3>1 DEF Placed, Calls
  <2>3. instrs' = instrs
    BY <1>1 DEF Stores
  <2>4. Withdrawn(payments'[p], b.inst)
    <3>1. Len(payments[p]) + 1 \in 1..Len(payments'[p])
      BY <1>2, <1>4
    <3> QED
      BY <1>4, <1>6, <3>1 DEF Withdrawn
  <2>5. Informed("releasing", ctx[h], instrs'[ctx[h].body.inst], payments'[ctx[h].p])
    BY <1>3, <1>6, <2>3, <2>4 DEF Informed
  <2>6. lapsed' \subseteq Instruction /\ requests' \in 0..MaxRequest[overlap']
    BY <1>1 DEF GrowInv, TypeOK, Stores
  <2> QED
    BY <1>2, <1>4, <2>1, <2>2, <2>5, <2>6, HandlerSteps
<1> QED
  BY <1>1, <1>4, <1>5, <1>6

-----------------------------------------------------------------------------
(* Faults and the other users of the instructions. *)

LEMMA TimeoutGrows ==
  ASSUME GrowInv, NEW h \in Handler, Timeout(h)
  PROVE  GrowInv'
<1> DEFINE c == [ctx[h] EXCEPT !.waits = FALSE]
<1>1. /\ UNCHANGED <<overlap, instrs, lapsed, payments, pc, requests>>
      /\ pc[h] \in Calls /\ pc[h] # "idle"
  BY DEF Timeout, Calls
<1>2. /\ ctx[h] \in Context /\ Inst(h) = ctx[h].body.inst
      /\ Placed(pc[h], ctx[h]) /\ Informed(pc[h], ctx[h], instrs[Inst(h)], payments[ctx[h].p])
  BY <1>1, RequestTyped
<1>3. /\ c \in Context /\ c.op = ctx[h].op /\ c.p = ctx[h].p /\ c.body = ctx[h].body
      /\ c.read = ctx[h].read
  BY <1>2 DEF Context
<1>4. /\ pc[h] \in Phase /\ pc' = [pc EXCEPT ![h] = pc[h]] /\ ctx' = [ctx EXCEPT ![h] = c]
  BY <1>1, <1>2 DEF Timeout, GrowInv, TypeOK
<1>5. Placed(pc[h], c)
  BY <1>1, <1>2, <1>3 DEF Placed
<1>6. Informed(pc[h], c, instrs[c.body.inst], payments[c.p])
  BY <1>2, <1>3 DEF Informed
<1> HIDE DEF c
<1> QED
  BY <1>1, <1>3, <1>4, <1>5, <1>6, HandlerMoves

LEMMA CrashGrows ==
  ASSUME GrowInv, Crash
  PROVE  GrowInv'
<1>1. /\ UNCHANGED <<overlap, instrs, lapsed, payments, requests>>
      /\ pc' = [h \in Handler |-> IF pc[h] \in Calls THEN pc[h] ELSE "idle"]
      /\ ctx' = [h \in Handler |->
                   IF pc[h] \in Calls THEN [ctx[h] EXCEPT !.waits = FALSE] ELSE Null]
  BY DEF Crash
<1>2. StoresSound
  BY <1>1, StoresLeft
<1>3. ASSUME NEW h \in Handler
      PROVE  /\ pc'[h] \in Phase /\ ctx'[h] \in Context \cup {Null}
             /\ pc'[h] # "idle" =>
                  /\ ctx'[h] \in Context /\ Placed(pc'[h], ctx'[h])
                  /\ Informed(pc'[h], ctx'[h], instrs[ctx'[h].body.inst], payments[ctx'[h].p])
  <2>1. CASE pc[h] \notin Calls
    <3>1. pc'[h] = "idle" /\ ctx'[h] = Null
      BY <1>1, <2>1
    <3> QED
      BY <3>1 DEF Phase
  <2>2. CASE pc[h] \in Calls
    <3> DEFINE c == [ctx[h] EXCEPT !.waits = FALSE]
    <3>1. pc[h] # "idle" /\ pc'[h] = pc[h] /\ ctx'[h] = c
      BY <1>1, <2>2 DEF Calls
    <3>2. /\ ctx[h] \in Context /\ Inst(h) = ctx[h].body.inst
          /\ Placed(pc[h], ctx[h])
          /\ Informed(pc[h], ctx[h], instrs[Inst(h)], payments[ctx[h].p])
      BY <3>1, RequestTyped
    <3>3. /\ c \in Context /\ c.op = ctx[h].op /\ c.p = ctx[h].p /\ c.body = ctx[h].body
          /\ c.read = ctx[h].read
      BY <3>2 DEF Context
    <3>4. Placed(pc[h], c)
      BY <2>2, <3>2, <3>3 DEF Placed
    <3>5. Informed(pc[h], c, instrs[c.body.inst], payments[c.p])
      BY <3>2, <3>3 DEF Informed
    <3>6. pc[h] \in Phase
      BY DEF GrowInv, TypeOK
    <3> HIDE DEF c
    <3> QED
      BY <3>1, <3>3, <3>4, <3>5, <3>6
  <2> QED
    BY <2>1, <2>2
<1>4. TypeOK'
  <2>1. pc' \in [Handler -> Phase] /\ ctx' \in [Handler -> Context \cup {Null}]
    BY <1>1, <1>3
  <2> QED
    BY <1>1, <1>3, <2>1 DEF TypeOK, GrowInv
<1>5. RequestsSound'
  BY <1>1, <1>3 DEF RequestsSound, Inst
<1> QED
  BY <1>2, <1>4, <1>5 DEF GrowInv, StoresSound

(* Nothing moves among the requests.                                       *)
LEMMA RequestsRest ==
  ASSUME GrowInv, StoresSound, lapsed' \subseteq Instruction, UNCHANGED <<pc, ctx, requests>>
  PROVE  GrowInv'
<1>1. ASSUME NEW h \in Handler, pc'[h] # "idle"
      PROVE  /\ ctx'[h] \in Context /\ Placed(pc'[h], ctx'[h])
             /\ Informed(pc'[h], ctx'[h], instrs'[ctx'[h].body.inst], payments'[ctx'[h].p])
  BY <1>1, OthersStay
<1>2. TypeOK'
  BY DEF GrowInv, TypeOK, StoresSound, StoresTyped, StoresGrow
<1>3. RequestsSound'
  BY <1>1 DEF RequestsSound, Inst
<1> QED
  BY <1>2, <1>3 DEF GrowInv, StoresSound

(* A version an owner makes of an earlier one.                             *)
OwnersStep(s, n, v) ==
  /\ v.call = "owner" /\ v.usedBy = s[n].usedBy
  /\ \/ v.kind = s[n].kind /\ <<s[n].status, v.status>> \in OwnerMoves
     \/ s[n].status = "DRAFT" /\ v.status = "DRAFT"

LEMMA OwnerEditsStep ==
  ASSUME GrowInv, NEW i \in Instruction, OwnerEdits(i)
  PROVE  /\ UNCHANGED <<overlap, lapsed, payments, pc, ctx, requests>>
         /\ \E n \in 1..Len(instrs[i]), v \in InstructionVersion :
              /\ overlap \/ (n = Len(instrs[i]) /\ Alone(i))
              /\ AddVersion(i, v) /\ OwnersStep(instrs[i], n, v)
<1>1. UNCHANGED <<overlap, lapsed, payments, pc, ctx, requests>>
  BY DEF OwnerEdits
<1>2. PICK n \in 1..Len(instrs[i]) :
        LET v == [instrs[i][n] EXCEPT !.call = "owner", !.ref = Null] IN
        /\ overlap \/ (n = Len(instrs[i]) /\ Alone(i))
        /\ \/ \E m \in OwnerMoves : v.status = m[1] /\ AddVersion(i, [v EXCEPT !.status = m[2]])
           \/ v.status = "DRAFT" /\ \E k \in Kind \ {v.kind} : AddVersion(i, [v EXCEPT !.kind = k])
  BY DEF OwnerEdits
<1> DEFINE u == instrs[i][n]
<1> DEFINE v == [u EXCEPT !.call = "owner", !.ref = Null]
<1>3. u \in InstructionVersion
  BY DEF GrowInv, TypeOK
<1>4. /\ v \in InstructionVersion /\ v.status = u.status /\ v.kind = u.kind
      /\ v.usedBy = u.usedBy /\ v.call = "owner"
  BY <1>3 DEF InstructionVersion
<1>5. CASE \E m \in OwnerMoves : v.status = m[1] /\ AddVersion(i, [v EXCEPT !.status = m[2]])
  <2>1. PICK m \in OwnerMoves : v.status = m[1] /\ AddVersion(i, [v EXCEPT !.status = m[2]])
    BY <1>5
  <2> DEFINE w == [v EXCEPT !.status = m[2]]
  <2>2. m = <<m[1], m[2]>> /\ m[2] \in InstructionStatus
    BY DEF OwnerMoves, InstructionStatus
  <2>3. /\ w \in InstructionVersion /\ w.status = m[2] /\ w.kind = u.kind
        /\ w.usedBy = u.usedBy /\ w.call = "owner"
    <3> HIDE DEF v
    <3> QED
      BY <1>4, <2>2 DEF InstructionVersion
  <2>4. OwnersStep(instrs[i], n, w)
    <3> HIDE DEF w
    <3> QED
      BY <1>4, <2>1, <2>2, <2>3 DEF OwnersStep
  <2> QED
    BY <1>1, <1>2, <2>1, <2>3, <2>4
<1>6. CASE v.status = "DRAFT" /\ \E k \in Kind : AddVersion(i, [v EXCEPT !.kind = k])
  <2>1. PICK k \in Kind : AddVersion(i, [v EXCEPT !.kind = k])
    BY <1>6
  <2> DEFINE w == [v EXCEPT !.kind = k]
  <2>2. /\ w \in InstructionVersion /\ w.status = v.status
        /\ w.usedBy = u.usedBy /\ w.call = "owner"
    <3> HIDE DEF v
    <3> QED
      BY <1>4 DEF InstructionVersion
  <2>3. OwnersStep(instrs[i], n, w)
    <3> HIDE DEF w
    <3> QED
      BY <1>4, <1>6, <2>2 DEF OwnersStep
  <2> QED
    BY <1>1, <1>2, <2>1, <2>2, <2>3
<1> QED
  BY <1>2, <1>5, <1>6

LEMMA OwnerEditsGrows ==
  ASSUME GrowInv, NEW i \in Instruction, OwnerEdits(i)
  PROVE  GrowInv' /\ StoresSound
<1>1. PICK n \in 1..Len(instrs[i]), v \in InstructionVersion :
        AddVersion(i, v) /\ OwnersStep(instrs[i], n, v)
  BY OwnerEditsStep
<1>2. UNCHANGED <<overlap, lapsed, payments, pc, ctx, requests>>
  BY OwnerEditsStep
<1>3. StoresSound
  BY <1>1, <1>2, InstructionWritten DEF OwnersStep
<1> QED
  BY <1>2, <1>3, RequestsRest DEF GrowInv, TypeOK

LEMMA LapseGrows ==
  ASSUME GrowInv, NEW i \in Instruction, Lapse(i)
  PROVE  GrowInv'
BY StoresLeft, RequestsRest DEF Lapse, GrowInv, TypeOK

-----------------------------------------------------------------------------
(* The invariant of the first part. *)

LEMMA GrowInit == Init => GrowInv
<1> SUFFICES ASSUME Init PROVE GrowInv
  OBVIOUS
<1>1. ASSUME NEW i \in Instruction
      PROVE  \E v \in InstructionVersion : instrs[i] = <<v>> /\ v.call = "owner"
  <2>1. PICK s \in {"DRAFT", "APPROVED"}, k \in Kind :
          instrs[i] = <<[status |-> s, kind |-> k, usedBy |-> Null, call |-> "owner", ref |-> Null]>>
    BY DEF Init
  <2> QED
    BY <2>1 DEF InstructionVersion, InstructionStatus
<1>2. instrs \in [Instruction -> Seq(InstructionVersion)]
  <2> DEFINE First ==
        {<<[status |-> s, kind |-> k, usedBy |-> Null, call |-> "owner", ref |-> Null]>> :
           s \in {"DRAFT", "APPROVED"}, k \in Kind}
  <2>1. instrs \in [Instruction -> First]
    BY DEF Init
  <2>2. ASSUME NEW i \in Instruction PROVE instrs[i] \in Seq(InstructionVersion)
    <3>1. PICK v \in InstructionVersion : instrs[i] = <<v>>
      BY <1>1
    <3> QED
      BY <3>1
  <2> HIDE DEF First
  <2> QED
    BY <2>1, <2>2
<1>3. overlap \in BOOLEAN /\ overlap \in Overlaps /\ MaxRequest[overlap] \in Nat
  BY ConstantsAssumption DEF Init
<1>4. TypeOK
  BY <1>2, <1>3 DEF Init, TypeOK, Phase
<1>5. \A i \in Instruction : /\ instrs[i] # <<>>
                             /\ \A n \in 1..Len(instrs[i]) : instrs[i][n].call = "owner"
  BY <1>1
<1>6. VersionsKnown
  BY <1>3, <1>5 DEF Init, VersionsKnown
<1>7. RequestsSound
  BY DEF Init, RequestsSound
<1> QED
  BY <1>4, <1>6, <1>7 DEF GrowInv

LEMMA ProgressGrows ==
  ASSUME GrowInv, NEW h \in Handler, Progress(h)
  PROVE  GrowInv'
<1>1. CASE FetchForUpdate(h)
  BY <1>1, FetchForUpdateGrows
<1>2. CASE FetchForSubmit(h)
  BY <1>2, FetchForSubmitGrows
<1>3. CASE FetchForApprove(h) \/ FetchForReject(h) \/ FetchForCancel(h)
  BY <1>3, FetchForDecisionGrows
<1>4. CASE GiveUp(h) \/ UseRefused(h) \/ ReleaseFails(h)
  BY <1>4, EndGrows
<1>5. CASE CheckExclusive(h)
  BY <1>5, CheckExclusiveGrows
<1>6. CASE ReadForUse(h) \/ ReadForRelease(h)
  BY <1>6, ReadGrows DEF ReadForUse, ReadForRelease
<1>7. CASE Use(h)
  BY <1>7, UseGrows
<1>8. CASE FetchAfterUse(h)
  BY <1>8, FetchAfterUseGrows
<1>9. CASE Save(h)
  BY <1>9, SaveGrows
<1>10. CASE Release(h)
  BY <1>10, ReleaseGrows
<1> QED
  BY <1>1, <1>2, <1>3, <1>4, <1>5, <1>6, <1>7, <1>8, <1>9, <1>10 DEF Progress

LEMMA GrowStep == GrowInv /\ [Next]_vars => GrowInv'
<1> SUFFICES ASSUME GrowInv, [Next]_vars PROVE GrowInv'
  OBVIOUS
<1>1. ASSUME NEW h \in Handler, Request(h) PROVE GrowInv'
  BY <1>1, RequestGrows
<1>2. ASSUME NEW h \in Handler, Progress(h) PROVE GrowInv'
  BY <1>2, ProgressGrows
<1>3. ASSUME NEW h \in Handler, SaveFails(h) PROVE GrowInv'
  BY <1>3, EndGrows
<1>4. ASSUME NEW h \in Handler, Timeout(h) PROVE GrowInv'
  BY <1>4, TimeoutGrows
<1>5. ASSUME NEW i \in Instruction, OwnerEdits(i) PROVE GrowInv'
  BY <1>5, OwnerEditsGrows
<1>6. ASSUME NEW i \in Instruction, Lapse(i) PROVE GrowInv'
  BY <1>6, LapseGrows
<1>7. CASE Crash
  BY <1>7, CrashGrows
<1>8. CASE UNCHANGED vars
  <2>1. UNCHANGED <<overlap, instrs, lapsed, payments, pc, ctx, requests>>
    BY <1>8 DEF vars
  <2> QED
    BY <2>1, StoresLeft, RequestsRest DEF GrowInv, TypeOK
<1> QED
  BY <1>1, <1>2, <1>3, <1>4, <1>5, <1>6, <1>7, <1>8 DEF Next

LEMMA GrowAlways == Spec => []GrowInv
BY GrowInit, GrowStep, PTL DEF Spec

(* What the two services and the requests hold is of the declared shape.   *)
THEOREM SagaTyped == Spec => []TypeOK
<1>1. GrowInv => TypeOK
  BY DEF GrowInv
<1> QED
  BY <1>1, GrowAlways, PTL

(* A single-use payment that is submitted has a use of its own among the   *)
(* versions of its instruction, no later than the version it notes -       *)
(* whatever overlaps, times out or dies between the use and the save.      *)
THEOREM SubmittedIsBacked == Spec => []SubmittedBacked
<1>1. GrowInv => SubmittedBacked
  <2> SUFFICES ASSUME GrowInv, NEW p \in Payment, NEW b \in Versions(payments[p]),
                      b.status = "SUBMITTED", b.kind = "SINGLE_USE"
               PROVE  \E n \in 1..Len(instrs[b.inst]) :
                        /\ n <= b.iver
                        /\ instrs[b.inst][n].call = "use" /\ instrs[b.inst][n].ref = p
    BY DEF SubmittedBacked
  <2>1. PICK k \in 1..Len(payments[p]) : b = payments[p][k]
    BY DEF Versions
  <2>2. b.inst \in Instruction /\ Noted(b, p, instrs[b.inst])
    BY <2>1, VersionTyped DEF GrowInv, VersionsKnown
  <2>3. Len(instrs[b.inst]) \in Nat
    BY <2>2 DEF GrowInv, TypeOK
  <2> QED
    BY <2>2, <2>3 DEF Noted, UsedWithin
<1> QED
  BY <1>1, GrowAlways, PTL

(* Every release of an instruction is for a payment that was stored as     *)
(* withdrawn before, however late the call is carried out.                 *)
THEOREM ReleaseFollowsWithdrawal == Spec => []ReleasedAfterWithdrawal
<1>1. GrowInv => ReleasedAfterWithdrawal
  BY DEF GrowInv, VersionsKnown, Withdrawn, ReleasedAfterWithdrawal, Versions
<1> QED
  BY <1>1, GrowAlways, PTL
=============================================================================
