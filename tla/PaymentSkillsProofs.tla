------------------------- MODULE PaymentSkillsProofs -------------------------
(***************************************************************************)
(* Proofs about PaymentSkills.  The right to carry out a run is in one     *)
(* place at a time: in the store, with a thread that took it out, with     *)
(* payment-service, and then used up.                                      *)
(***************************************************************************)
EXTENDS PaymentSkills, TLAPS

Held(t, r) == serving[t] # Null /\ serving[t].run = r /\ serving[t].pc \in {"recheck",
         "call"}
Busy(t, r) == call[t] # Null /\ call[t].run = r /\ call[t].pc = "working"
Done(r) == \E c \in changes : c.run = r

(* Nobody can carry out r any more.                                        *)
Spent(r) == pending[r] = Null /\ \A t \in Thread : ~Held(t, r) /\ ~Busy(t, r)

(* Who has the right has it alone.                                         *)
Alone ==
  \A r \in Run : \A t \in Thread :
    /\ Held(t, r) \/ Busy(t, r) => pending[r] = Null
    /\ \A s \in Thread :
         /\ Held(t, r) /\ Held(s, r) => t = s
         /\ Busy(t, r) /\ Busy(s, r) => t = s
         /\ Held(t, r) => ~Busy(s, r)

(* Once a run is done or its user assured, nobody has it any more.         *)
Final ==
  \A r \in Run :
    /\ Done(r) => Spent(r)
    /\ r \in assured => Spent(r) /\ ~Done(r)

(* What is said of a run is backed.                                        *)
CallBacked ==
  \A t \in Thread : call[t] # Null =>
    /\ call[t].pc = "linking" => Done(call[t].run)
    /\ call[t].pc = "replied" /\ call[t].reply = "ok" => Done(call[t].run)
    /\ call[t].pc = "replied" /\ call[t].reply = "denied" =>
         Spent(call[t].run) /\ ~Done(call[t].run)
VerdictBacked ==
  \A t \in Thread : (serving[t] # Null /\ serving[t].pc = "patch") =>
    /\ serving[t].verdict \in Outcome
    /\ serving[t].verdict = "COMPLETED" => Done(serving[t].run)
    /\ serving[t].verdict = "DENIED" => serving[t].run \in assured
ExecutionBacked ==
  \A r \in Run : execution[r] # Null =>
    /\ execution[r].status = "COMPLETED" => Done(r)
    /\ execution[r].status = "DENIED" => r \in assured

(* Everything works on the card the run began with.                        *)
OnCard ==
  /\ \A r \in Run : asked[r] # Null =>
       (asked[r].skill = "CREATE" <=> asked[r].payment = Null)
  /\ \A r \in Run : pending[r] # Null => pending[r] = asked[r]
  /\ \A t \in Thread : serving[t] # Null => serving[t].card = asked[serving[t].run]
  /\ \A t \in Thread : call[t] # Null => call[t].card = asked[call[t].run]
  /\ \A t \in Thread : serving[t] # Null /\ serving[t].pc = "wait" /\ call[t] # Null =>
       call[t].run = serving[t].run

(* A thread that waits has a call, and one that is about to has none.      *)
OneCall ==
  \A t \in Thread :
    serving[t] # Null /\ serving[t].pc \notin {"wait", "patch"} => call[t] = Null

(* A run that has not begun is nowhere.                                    *)
Begun ==
  \A r \in Run : asked[r] = Null =>
    /\ Spent(r) /\ ~Done(r) /\ r \notin assured /\ execution[r] = Null

IInv ==
  /\ TypeOK /\ Alone /\ Final /\ CallBacked /\ VerdictBacked /\ ExecutionBacked
  /\ OnCard /\ OneCall /\ Begun /\ OneChangePerGo

(* Records that change keep their shape.                                   *)
LEMMA ServingShape ==
  ASSUME NEW s \in Serving, NEW pc \in {"drop", "take", "recheck", "call", "wait", "patch"},
         NEW v \in Outcome \cup {Null}
  PROVE  [s EXCEPT !.pc = pc] \in Serving /\ [s EXCEPT !.pc = pc, !.verdict = v] \in Serving
  BY DEF Serving

LEMMA CallShape ==
  ASSUME NEW k \in Call, NEW pc \in {"working", "linking", "replied"},
         NEW a \in {"ok", "denied", "error", "none"}
  PROVE  [k EXCEPT !.pc = pc] \in Call /\ [k EXCEPT !.pc = pc, !.reply = a] \in Call
  BY DEF Call

LEMMA ExecutionShape ==
  ASSUME NEW e \in Execution, NEW o \in Outcome, NEW w \in Status \cup {Null}
  PROVE  /\ [e EXCEPT !.status = o, !.linked = TRUE] \in Execution
         /\ [e EXCEPT !.status = o, !.shown = w] \in Execution
  BY DEF Execution

-----------------------------------------------------------------------------
(* Each action keeps the invariant. *)

LEMMA ExpireKeeps ==
  ASSUME IInv, NEW r \in Run, Expire(r)
  PROVE  IInv'
<1>1. TypeOK'
  BY DEF IInv, TypeOK, Expire, worldVars
<1>2. Alone'
  BY DEF IInv, Alone, Held, Busy, Expire
<1>3. Final'
  BY DEF IInv, Final, Held, Busy, Done, Spent, Expire
<1>4. CallBacked'
  BY DEF IInv, CallBacked, Held, Busy, Done, Spent, Expire
<1>5. VerdictBacked'
  BY DEF IInv, VerdictBacked, Done, Expire
<1>6. ExecutionBacked'
  BY DEF IInv, ExecutionBacked, Done, Expire
<1>7. OnCard'
  BY DEF IInv, OnCard, Expire
<1>8. OneCall'
  BY DEF IInv, OneCall, Expire
<1>9. Begun'
  BY DEF IInv, Begun, Held, Busy, Done, Spent, Expire
<1>10. OneChangePerGo'
  BY DEF IInv, OneChangePerGo, Expire
<1> QED BY <1>1, <1>2, <1>3, <1>4, <1>5, <1>6, <1>7, <1>8, <1>9, <1>10 DEF IInv

LEMMA ConfirmKeeps ==
  ASSUME IInv, NEW t \in Thread, NEW r \in Run, NEW u \in User, NEW go \in BOOLEAN,
         Confirm(t, r, u, go)
  PROVE  IInv'
<1>1. TypeOK'
  BY DEF IInv, TypeOK, Serving, Confirm, worldVars
<1>2. Alone'
  BY DEF IInv, Alone, Held, Busy, Confirm
<1>3. Final'
  BY DEF IInv, Final, Held, Busy, Done, Spent, Confirm
<1>4. CallBacked'
  BY DEF IInv, CallBacked, Held, Busy, Done, Spent, Confirm
<1>5. VerdictBacked'
  BY DEF IInv, VerdictBacked, Done, Confirm
<1>6. ExecutionBacked'
  BY DEF IInv, ExecutionBacked, Done, Confirm
<1>7. OnCard'
  BY DEF IInv, OnCard, Confirm
<1>8. OneCall'
  BY DEF IInv, OneCall, Confirm
<1>9. Begun'
  BY DEF IInv, Begun, Held, Busy, Done, Spent, Confirm
<1>10. OneChangePerGo'
  BY DEF IInv, OneChangePerGo, Confirm
<1> QED BY <1>1, <1>2, <1>3, <1>4, <1>5, <1>6, <1>7, <1>8, <1>9, <1>10 DEF IInv

LEMMA DropKeeps ==
  ASSUME IInv, NEW t \in Thread, Drop(t)
  PROVE  IInv'
<1>1. TypeOK'
  <2> DEFINE s == serving[t]
  <2>1. s \in Serving
    BY DEF IInv, TypeOK, Drop
  <2>2. [s EXCEPT !.pc = "patch", !.verdict = "CANCELLED"] \in Serving
    BY <2>1, ServingShape DEF Outcome
  <2> QED BY <2>1, <2>2 DEF IInv, TypeOK, Serving, Drop, chatVars, worldVars
<1>2. Alone'
  BY DEF IInv, Alone, Held, Busy, Drop
<1>3. Final'
  BY DEF IInv, Final, Held, Busy, Done, Spent, Drop
<1>4. CallBacked'
  BY DEF IInv, CallBacked, Held, Busy, Done, Spent, Drop
<1>5. VerdictBacked'
  BY NullIsNoRecord DEF IInv, TypeOK, Serving, VerdictBacked, Done, Outcome, Drop
<1>6. ExecutionBacked'
  BY DEF IInv, ExecutionBacked, Done, Drop
<1>7. OnCard'
  BY DEF IInv, OnCard, Drop
<1>8. OneCall'
  BY DEF IInv, OneCall, Drop
<1>9. Begun'
  BY DEF IInv, Begun, Held, Busy, Done, Spent, Drop
<1>10. OneChangePerGo'
  BY DEF IInv, OneChangePerGo, Drop
<1> QED BY <1>1, <1>2, <1>3, <1>4, <1>5, <1>6, <1>7, <1>8, <1>9, <1>10 DEF IInv

LEMMA TakeKeeps ==
  ASSUME IInv, NEW t \in Thread, Take(t)
  PROVE  IInv'
<1>1. TypeOK'
  BY DEF IInv, TypeOK, Serving, Take, worldVars
<1>2. Alone'
  BY DEF IInv, TypeOK, Alone, Held, Busy, Take
<1>3. Final'
  BY DEF IInv, Final, Held, Busy, Done, Spent, Take
<1>4. CallBacked'
  BY DEF IInv, CallBacked, Held, Busy, Done, Spent, Take
<1>5. VerdictBacked'
  BY DEF IInv, VerdictBacked, Done, Take
<1>6. ExecutionBacked'
  BY DEF IInv, ExecutionBacked, Done, Take
<1>7. OnCard'
  BY DEF IInv, OnCard, Take
<1>8. OneCall'
  BY DEF IInv, OneCall, Take
<1>9. Begun'
  BY DEF IInv, Begun, Held, Busy, Done, Spent, Take
<1>10. OneChangePerGo'
  BY DEF IInv, OneChangePerGo, Take
<1> QED BY <1>1, <1>2, <1>3, <1>4, <1>5, <1>6, <1>7, <1>8, <1>9, <1>10 DEF IInv

(* The policy lets the confirmation go on.                                 *)
LEMMA RecheckGoesOn ==
  ASSUME IInv, NEW t \in Thread, serving[t] # Null, serving[t].pc = "recheck",
         Advance(t, "call"), UNCHANGED <<assured, faults>>,
         UNCHANGED <<asked, pending, call, execution, worldVars, changes>>
  PROVE  IInv'
<1>1. TypeOK'
  <2>1. serving[t] \in Serving
    BY DEF IInv, TypeOK
  <2>2. [serving[t] EXCEPT !.pc = "call"] \in Serving
    BY <2>1, ServingShape DEF Outcome
  <2> QED BY <2>1, <2>2 DEF IInv, TypeOK, Advance, worldVars
<1>2. Alone'
  BY DEF IInv, Alone, Held, Busy, Advance
<1>3. Final'
  BY DEF IInv, Final, Held, Busy, Done, Spent, Advance
<1>4. CallBacked'
  BY DEF IInv, CallBacked, Held, Busy, Done, Spent, Advance
<1>5. VerdictBacked'
  BY DEF IInv, VerdictBacked, Done, Advance
<1>6. ExecutionBacked'
  BY DEF IInv, ExecutionBacked, Done
<1>7. OnCard'
  BY DEF IInv, OnCard, Advance
<1>8. OneCall'
  BY DEF IInv, OneCall, Advance
<1>9. Begun'
  BY DEF IInv, Begun, Held, Busy, Done, Spent, Advance
<1>10. OneChangePerGo'
  BY DEF IInv, OneChangePerGo
<1> QED BY <1>1, <1>2, <1>3, <1>4, <1>5, <1>6, <1>7, <1>8, <1>9, <1>10 DEF IInv

(* It ends the confirmation with a verdict, and the user is assured.       *)
LEMMA RecheckConcludes ==
  ASSUME IInv, NEW t \in Thread, serving[t] # Null, serving[t].pc = "recheck",
         NEW v \in {"DENIED", "FAILED"}, Conclude(t, v),
         assured' = assured \cup {serving[t].run}, faults' \in 0..MaxFaults,
         UNCHANGED <<asked, pending, call, execution, worldVars, changes>>
  PROVE  IInv'
<1>1. TypeOK'
  <2>1. serving[t] \in Serving /\ serving[t].run \in Run
    BY DEF IInv, TypeOK, Serving
  <2>2. [serving[t] EXCEPT !.pc = "patch", !.verdict = v] \in Serving
    BY <2>1, ServingShape DEF Outcome
  <2> QED BY <2>1, <2>2 DEF IInv, TypeOK, Conclude, worldVars
<1>2. Alone'
  BY DEF IInv, Alone, Held, Busy, Conclude
<1>3. Final'
  BY DEF IInv, TypeOK, Final, Alone, Held, Busy, Done, Spent, Conclude
<1>4. CallBacked'
  BY DEF IInv, CallBacked, Held, Busy, Done, Spent, Conclude
<1>5. VerdictBacked'
  BY DEF IInv, Outcome, VerdictBacked, Done, Conclude
<1>6. ExecutionBacked'
  BY DEF IInv, ExecutionBacked, Done
<1>7. OnCard'
  BY DEF IInv, OnCard, Conclude
<1>8. OneCall'
  BY DEF IInv, OneCall, Conclude
<1>9. Begun'
  BY DEF IInv, Begun, Held, Busy, Done, Spent, Conclude
<1>10. OneChangePerGo'
  BY DEF IInv, OneChangePerGo
<1> QED BY <1>1, <1>2, <1>3, <1>4, <1>5, <1>6, <1>7, <1>8, <1>9, <1>10 DEF IInv

(* It ends the confirmation and leaves the execution as it is.             *)
LEMMA RecheckLeaves ==
  ASSUME IInv, NEW t \in Thread, serving[t] # Null, serving[t].pc = "recheck",
         serving' = [serving EXCEPT ![t] = Null],
         assured' = assured \cup {serving[t].run}, faults' \in 0..MaxFaults,
         UNCHANGED <<asked, pending, call, execution, worldVars, changes>>
  PROVE  IInv'
<1>1. TypeOK'
  <2>1. serving[t] \in Serving /\ serving[t].run \in Run
    BY DEF IInv, TypeOK, Serving
  <2> QED BY <2>1 DEF IInv, TypeOK, worldVars
<1>2. Alone'
  BY DEF IInv, Alone, Held, Busy
<1>3. Final'
  BY DEF IInv, TypeOK, Final, Alone, Held, Busy, Done, Spent
<1>4. CallBacked'
  BY DEF IInv, CallBacked, Held, Busy, Done, Spent
<1>5. VerdictBacked'
  BY DEF IInv, VerdictBacked, Done
<1>6. ExecutionBacked'
  BY DEF IInv, ExecutionBacked, Done
<1>7. OnCard'
  BY DEF IInv, OnCard
<1>8. OneCall'
  BY DEF IInv, OneCall
<1>9. Begun'
  BY DEF IInv, Begun, Held, Busy, Done, Spent
<1>10. OneChangePerGo'
  BY DEF IInv, OneChangePerGo
<1> QED BY <1>1, <1>2, <1>3, <1>4, <1>5, <1>6, <1>7, <1>8, <1>9, <1>10 DEF IInv

LEMMA RecheckKeeps ==
  ASSUME IInv, NEW t \in Thread, Recheck(t)
  PROVE  IInv'
<1>1. CASE Advance(t, "call") /\ UNCHANGED <<assured, faults>>
  BY <1>1, RecheckGoesOn DEF Recheck
<1>2. CASE /\ Conclude(t, "DENIED") /\ assured' = assured \cup {serving[t].run}
           /\ UNCHANGED faults
  <2>1. faults' \in 0..MaxFaults
    BY <1>2 DEF IInv, TypeOK
  <2> QED BY <1>2, <2>1, RecheckConcludes DEF Recheck
<1>3. CASE /\ Fault /\ assured' = assured \cup {serving[t].run}
           /\ serving' = [serving EXCEPT ![t] = Null] \/ Conclude(t, "FAILED")
  <2>1. faults' \in 0..MaxFaults
    BY <1>3, BoundsNat DEF IInv, TypeOK, Fault
  <2> QED BY <1>3, <2>1, RecheckConcludes, RecheckLeaves DEF Recheck
<1> QED BY <1>1, <1>2, <1>3 DEF Recheck

LEMMA SendKeeps ==
  ASSUME IInv, NEW t \in Thread, Send(t)
  PROVE  IInv'
<1>1. TypeOK'
  BY DEF IInv, TypeOK, Serving, Call, Send, Advance, worldVars
<1>2. Alone'
  BY DEF IInv, TypeOK, Alone, Held, Busy, Send, Advance
<1>3. Final'
  BY DEF IInv, Final, Held, Busy, Done, Spent, Send, Advance
<1>4. CallBacked'
  BY DEF IInv, CallBacked, Held, Busy, Done, Spent, Send, Advance
<1>5. VerdictBacked'
  BY DEF IInv, VerdictBacked, Done, Send, Advance
<1>6. ExecutionBacked'
  BY DEF IInv, ExecutionBacked, Done, Send
<1>7. OnCard'
  BY DEF IInv, TypeOK, OnCard, Send, Advance
<1>8. OneCall'
  BY DEF IInv, TypeOK, OneCall, Send, Advance
<1>9. Begun'
  BY DEF IInv, Begun, Held, Busy, Done, Spent, Send, Advance
<1>10. OneChangePerGo'
  BY DEF IInv, OneChangePerGo, Send
<1> QED BY <1>1, <1>2, <1>3, <1>4, <1>5, <1>6, <1>7, <1>8, <1>9, <1>10 DEF IInv

LEMMA ReceiveKeeps ==
  ASSUME IInv, NEW t \in Thread, Receive(t)
  PROVE  IInv'
<1>1. TypeOK'
  <2> DEFINE s == serving[t]
             v == Verdict(call[t].reply)
  <2>1. s \in Serving
    BY DEF IInv, TypeOK, Receive, Answered
  <2>2. v \in Outcome
    BY DEF Verdict, Outcome
  <2>3. [s EXCEPT !.pc = "patch", !.verdict = v] \in Serving
    BY <2>1, <2>2, ServingShape
  <2> QED BY <2>1, <2>3 DEF IInv, TypeOK, Serving, Receive, Answered, Conclude, worldVars
<1>2. Alone'
  BY DEF IInv, Alone, Held, Busy, Receive, Answered, Conclude
<1>3. Final'
  BY
    DEF IInv, Final, CallBacked, OnCard, Held, Busy, Done, Spent, Receive, Answered,
        Conclude, Verdict
<1>4. CallBacked'
  BY DEF IInv, CallBacked, Held, Busy, Done, Spent, Receive, Answered, Conclude
<1>5. VerdictBacked'
  BY NullIsNoRecord
    DEF IInv, TypeOK, Serving, Call, VerdictBacked, Done, Outcome, CallBacked, OnCard,
        Receive, Answered, Conclude, Verdict
<1>6. ExecutionBacked'
  BY DEF IInv, ExecutionBacked, Done, Receive, Answered
<1>7. OnCard'
  BY DEF IInv, OnCard, Receive, Answered, Conclude
<1>8. OneCall'
  BY DEF IInv, OneCall, Receive, Answered, Conclude
<1>9. Begun'
  BY NullIsNoRecord
    DEF IInv, TypeOK, Serving, Begun, OnCard, Held, Busy, Done, Spent, Receive, Answered,
        Conclude
<1>10. OneChangePerGo'
  BY DEF IInv, OneChangePerGo, Receive
<1> QED BY <1>1, <1>2, <1>3, <1>4, <1>5, <1>6, <1>7, <1>8, <1>9, <1>10 DEF IInv

LEMMA GiveUpKeeps ==
  ASSUME IInv, NEW t \in Thread, GiveUp(t)
  PROVE  IInv'
<1>1. TypeOK'
  <2> DEFINE s == serving[t]
             v == Verdict("none")
  <2>1. s \in Serving
    BY DEF IInv, TypeOK, GiveUp, Answered
  <2>2. v \in Outcome
    BY DEF Verdict, Outcome
  <2>3. [s EXCEPT !.pc = "patch", !.verdict = v] \in Serving
    BY <2>1, <2>2, ServingShape
  <2> QED BY <2>1, <2>3 DEF IInv, TypeOK, Serving, GiveUp, Answered, Conclude, worldVars
<1>2. Alone'
  BY DEF IInv, Alone, Held, Busy, GiveUp, Answered, Conclude
<1>3. Final'
  BY DEF IInv, Final, Held, Busy, Done, Spent, GiveUp, Answered, Conclude, Verdict
<1>4. CallBacked'
  BY DEF IInv, CallBacked, Held, Busy, Done, Spent, GiveUp, Answered, Conclude
<1>5. VerdictBacked'
  BY NullIsNoRecord
    DEF IInv, TypeOK, Serving, VerdictBacked, Done, Outcome, GiveUp, Answered, Conclude,
        Verdict
<1>6. ExecutionBacked'
  BY DEF IInv, ExecutionBacked, Done, GiveUp, Answered
<1>7. OnCard'
  BY DEF IInv, OnCard, GiveUp, Answered, Conclude
<1>8. OneCall'
  BY DEF IInv, OneCall, GiveUp, Answered, Conclude
<1>9. Begun'
  BY DEF IInv, Begun, Held, Busy, Done, Spent, GiveUp, Answered, Conclude, Verdict
<1>10. OneChangePerGo'
  BY DEF IInv, OneChangePerGo, GiveUp
<1> QED BY <1>1, <1>2, <1>3, <1>4, <1>5, <1>6, <1>7, <1>8, <1>9, <1>10 DEF IInv

LEMMA PatchKeeps ==
  ASSUME IInv, NEW t \in Thread, Patch(t)
  PROVE  IInv'
<1>1. TypeOK'
  <2> DEFINE s == serving[t]
  <2>1. s \in Serving /\ s.pc = "patch"
    BY DEF IInv, TypeOK, Patch
  <2>2. s.verdict \in Outcome
    BY <2>1 DEF IInv, VerdictBacked, Patch
  <2>3. ASSUME execution[s.run] # Null
        PROVE  Patched(execution[s.run], s) \in Execution
    <3>1. execution[s.run] \in Execution
      BY <2>1, <2>3 DEF IInv, TypeOK, Serving
    <3>2. To(s.card.skill) \in Status
      BY DEF To, Status
    <3> QED BY <2>2, <3>1, <3>2, ExecutionShape DEF Patched
  <2> QED BY <2>1, <2>3, BoundsNat DEF IInv, TypeOK, Serving, Patch, Well, Fault, worldVars
<1>2. Alone'
  BY DEF IInv, Alone, Held, Busy, Patch
<1>3. Final'
  BY DEF IInv, Final, Held, Busy, Done, Spent, Patch
<1>4. CallBacked'
  BY DEF IInv, CallBacked, Held, Busy, Done, Spent, Patch
<1>5. VerdictBacked'
  BY DEF IInv, VerdictBacked, Done, Patch
<1>6. ExecutionBacked'
  BY DEF IInv, ExecutionBacked, VerdictBacked, Done, Patch, Patched
<1>7. OnCard'
  BY DEF IInv, OnCard, Patch
<1>8. OneCall'
  BY DEF IInv, OneCall, Patch
<1>9. Begun'
  BY DEF IInv, Begun, Held, Busy, Done, Spent, Patch
<1>10. OneChangePerGo'
  BY DEF IInv, OneChangePerGo, Patch
<1> QED BY <1>1, <1>2, <1>3, <1>4, <1>5, <1>6, <1>7, <1>8, <1>9, <1>10 DEF IInv

LEMMA RestartKeeps ==
  ASSUME IInv, Restart
  PROVE  IInv'
<1>1. TypeOK'
  BY BoundsNat DEF IInv, TypeOK, Restart, Fault, worldVars
<1>2. Alone'
  BY DEF IInv, Alone, Held, Busy, Restart
<1>3. Final'
  BY DEF IInv, Final, Held, Busy, Done, Spent, Restart
<1>4. CallBacked'
  BY DEF IInv, TypeOK, Call, CallBacked, Held, Busy, Done, Spent, Restart
<1>5. VerdictBacked'
  BY DEF IInv, VerdictBacked, Restart
<1>6. ExecutionBacked'
  BY DEF IInv, ExecutionBacked, Done, Restart
<1>7. OnCard'
  BY DEF IInv, OnCard, Restart
<1>8. OneCall'
  BY DEF IInv, OneCall, Restart
<1>9. Begun'
  BY DEF IInv, Begun, Held, Busy, Done, Spent, Restart
<1>10. OneChangePerGo'
  BY DEF IInv, OneChangePerGo, Restart
<1> QED BY <1>1, <1>2, <1>3, <1>4, <1>5, <1>6, <1>7, <1>8, <1>9, <1>10 DEF IInv

LEMMA RefuseKeeps ==
  ASSUME IInv, NEW t \in Thread, Refuse(t)
  PROVE  IInv'
<1>1. TypeOK'
  <2>1. call[t] \in Call
    BY DEF IInv, TypeOK, Refuse, Working
  <2>2. [call[t] EXCEPT !.pc = "replied",
           !.reply = IF Admits(call[t].card) THEN "denied" ELSE "error"] \in Call
    BY <2>1, CallShape
  <2> QED BY <2>1, <2>2 DEF IInv, TypeOK, Refuse, chatVars, worldVars
<1>2. Alone'
  BY DEF IInv, TypeOK, Alone, Held, Busy, Refuse, chatVars
<1>3. Final'
  BY DEF IInv, TypeOK, Final, Held, Busy, Done, Spent, Refuse, chatVars
<1>4. CallBacked'
  <2> DEFINE k == call[t]
  <2>1. k \in Call /\ k.run \in Run /\ Busy(t, k.run)
    BY DEF IInv, TypeOK, Refuse, Working, Busy, Call
  <2>2. /\ call' \in [Thread -> Call \cup {Null}]
        /\ \A o \in Thread : o # t => call'[o] = call[o]
        /\ call'[t] # Null /\ call'[t].run = k.run /\ call'[t].pc = "replied"
        /\ call'[t].reply \in {"denied", "error"}
    <3>1. /\ call \in [Thread -> Call \cup {Null}]
          /\ call' = [call EXCEPT ![t].pc = "replied",
                       ![t].reply = IF Admits(k.card) THEN "denied" ELSE "error"]
      BY DEF IInv, TypeOK, Refuse
    <3>2. call' \in [Thread -> Call \cup {Null}] /\ Null \notin Call
      BY <1>1, NullIsNoRecord DEF TypeOK
    <3>3. \A o \in Thread : o # t => call'[o] = call[o]
      BY <3>1
    <3>4. /\ call'[t].run = k.run /\ call'[t].pc = "replied"
          /\ call'[t].reply \in {"denied", "error"}
      BY <2>1, <3>1 DEF Call
    <3>5. call'[t] # Null
      BY <2>1, <3>1, <3>2, <3>4 DEF Call
    <3> QED
      BY <3>2, <3>3, <3>4, <3>5
  <2>3. Spent(k.run)' /\ ~Done(k.run)'
    <3>1. pending[k.run] = Null /\ ~Done(k.run)
      BY <2>1 DEF IInv, Alone, Final, Spent
    <3>2. \A o \in Thread : ~Held(o, k.run) /\ (Busy(o, k.run) => o = t)
      BY <2>1 DEF IInv, Alone
    <3> QED BY <2>2, <3>1, <3>2 DEF Spent, Held, Busy, Done, Refuse, chatVars
  <2>4. ASSUME NEW r \in Run PROVE (Spent(r) => Spent(r)') /\ (Done(r)' <=> Done(r))
    BY <2>2 DEF Spent, Held, Busy, Done, Refuse, chatVars
  <2>5. \A o \in Thread : call[o] # Null => call[o].run \in Run
    BY DEF IInv, TypeOK, Call
  <2> QED BY <2>1, <2>2, <2>3, <2>4, <2>5 DEF IInv, CallBacked
<1>5. VerdictBacked'
  BY DEF IInv, VerdictBacked, Done, Refuse, chatVars
<1>6. ExecutionBacked'
  BY DEF IInv, ExecutionBacked, Done, Refuse, chatVars
<1>7. OnCard'
  BY DEF IInv, TypeOK, OnCard, Refuse, Working, chatVars
<1>8. OneCall'
  BY DEF IInv, TypeOK, OneCall, Refuse, Working, chatVars
<1>9. Begun'
  BY DEF IInv, TypeOK, Begun, Held, Busy, Done, Spent, Refuse, chatVars
<1>10. OneChangePerGo'
  BY DEF IInv, OneChangePerGo, Refuse, chatVars
<1> QED BY <1>1, <1>2, <1>3, <1>4, <1>5, <1>6, <1>7, <1>8, <1>9, <1>10 DEF IInv

LEMMA LinkKeeps ==
  ASSUME IInv, NEW t \in Thread, Link(t)
  PROVE  IInv'
<1>1. TypeOK'
  <2> DEFINE k == call[t]
  <2>1. k \in Call /\ k.run \in Run
    BY DEF IInv, TypeOK, Link, Call
  <2>2. [k EXCEPT !.pc = "replied", !.reply = "ok"] \in Call
    BY <2>1, CallShape
  <2>3. ASSUME execution[k.run] # Null
        PROVE  [execution[k.run] EXCEPT !.status = "COMPLETED", !.linked = TRUE] \in
         Execution
    BY <2>1, <2>3, ExecutionShape DEF IInv, TypeOK, Outcome
  <2> QED BY <2>1, <2>2, <2>3 DEF IInv, TypeOK, Link, chatVars, worldVars
<1>2. Alone'
  BY DEF IInv, TypeOK, Alone, Held, Busy, Link, chatVars
<1>3. Final'
  BY DEF IInv, TypeOK, Final, Held, Busy, Done, Spent, Link, chatVars
<1>4. CallBacked'
  BY DEF IInv, TypeOK, CallBacked, Held, Busy, Done, Spent, Link, chatVars
<1>5. VerdictBacked'
  BY DEF IInv, VerdictBacked, Done, Link, chatVars
<1>6. ExecutionBacked'
  BY DEF IInv, TypeOK, ExecutionBacked, CallBacked, Done, Link, chatVars
<1>7. OnCard'
  BY DEF IInv, TypeOK, OnCard, Link, chatVars
<1>8. OneCall'
  BY DEF IInv, TypeOK, OneCall, Link, chatVars
<1>9. Begun'
  BY DEF IInv, TypeOK, Begun, Held, Busy, Done, Spent, Link, chatVars
<1>10. OneChangePerGo'
  BY DEF IInv, OneChangePerGo, Link, chatVars
<1> QED BY <1>1, <1>2, <1>3, <1>4, <1>5, <1>6, <1>7, <1>8, <1>9, <1>10 DEF IInv

LEMMA ServiceFailsKeeps ==
  ASSUME IInv, NEW t \in Thread, ServiceFails(t)
  PROVE  IInv'
<1>1. TypeOK'
  <2>1. call[t] \in Call
    BY DEF IInv, TypeOK, ServiceFails
  <2>2. [call[t] EXCEPT !.pc = "replied", !.reply = "error"] \in Call
    BY <2>1, CallShape
  <2> QED BY <2>1, <2>2, BoundsNat
    DEF IInv, TypeOK, ServiceFails, Fault, chatVars, worldVars
<1>2. Alone'
  BY DEF IInv, TypeOK, Alone, Held, Busy, ServiceFails, chatVars
<1>3. Final'
  BY DEF IInv, TypeOK, Final, Held, Busy, Done, Spent, ServiceFails, chatVars
<1>4. CallBacked'
  BY DEF IInv, TypeOK, CallBacked, Held, Busy, Done, Spent, ServiceFails, chatVars
<1>5. VerdictBacked'
  BY DEF IInv, VerdictBacked, Done, ServiceFails, chatVars
<1>6. ExecutionBacked'
  BY DEF IInv, ExecutionBacked, Done, ServiceFails, chatVars
<1>7. OnCard'
  BY DEF IInv, TypeOK, OnCard, ServiceFails, chatVars
<1>8. OneCall'
  BY DEF IInv, TypeOK, OneCall, ServiceFails, chatVars
<1>9. Begun'
  BY DEF IInv, TypeOK, Begun, Held, Busy, Done, Spent, ServiceFails, chatVars
<1>10. OneChangePerGo'
  BY DEF IInv, OneChangePerGo, ServiceFails, chatVars
<1> QED BY <1>1, <1>2, <1>3, <1>4, <1>5, <1>6, <1>7, <1>8, <1>9, <1>10 DEF IInv

LEMMA UnheardKeeps ==
  ASSUME IInv, NEW t \in Thread, Unheard(t)
  PROVE  IInv'
<1>1. TypeOK'
  BY DEF IInv, TypeOK, Unheard, chatVars, worldVars
<1>2. Alone'
  BY DEF IInv, Alone, Held, Busy, Unheard, chatVars
<1>3. Final'
  BY DEF IInv, Final, Held, Busy, Done, Spent, Unheard, chatVars
<1>4. CallBacked'
  BY DEF IInv, CallBacked, Held, Busy, Done, Spent, Unheard, chatVars
<1>5. VerdictBacked'
  BY DEF IInv, VerdictBacked, Done, Unheard, chatVars
<1>6. ExecutionBacked'
  BY DEF IInv, ExecutionBacked, Done, Unheard, chatVars
<1>7. OnCard'
  BY DEF IInv, OnCard, Unheard, chatVars
<1>8. OneCall'
  BY DEF IInv, OneCall, Unheard, chatVars
<1>9. Begun'
  BY DEF IInv, Begun, Held, Busy, Done, Spent, Unheard, chatVars
<1>10. OneChangePerGo'
  BY DEF IInv, OneChangePerGo, Unheard, chatVars
<1> QED BY <1>1, <1>2, <1>3, <1>4, <1>5, <1>6, <1>7, <1>8, <1>9, <1>10 DEF IInv

LEMMA CommitKeeps ==
  ASSUME IInv, NEW t \in Thread, Commit(t)
  PROVE  IInv'
<1>1. TypeOK'
  <2> DEFINE k == call[t]
  <2>1. k \in Call /\ k.run \in Run /\ k.card.by \in User /\ k.card.skill \in Action
    BY DEF IInv, TypeOK, Commit, Working, Call, Card
  <2>2. Made(k.card) \in Action /\ To(Made(k.card)) \in Status
    BY <2>1 DEF Made, To, Action, Status
  <2>3. PICK p \in Target(k.card) :
          /\ payment' = [payment EXCEPT ![p] = To(Made(k.card))]
          /\ changes' = changes \cup
               {[run |-> k.run, made |-> Made(k.card), payment |-> p, by |-> k.card.by]}
    BY DEF Commit
  <2>4. p \in Payment
    <3>1. CASE k.card.skill = "CREATE"
      BY <3>1 DEF Target
    <3>2. CASE k.card.skill # "CREATE"
      <4>1. k.card = asked[k.run] /\ asked[k.run] # Null
        BY <2>1, NullIsNoRecord DEF IInv, TypeOK, OnCard, Commit, Working, Call
      <4>2. k.card.payment \in Payment
        BY <2>1, <3>2, <4>1 DEF IInv, OnCard, Call, Card
      <4> QED BY <3>2, <4>2 DEF Target
    <3> QED BY <3>1, <3>2
  <2>5. call' \in [Thread -> Call \cup {Null}]
    BY <2>1, CallShape DEF IInv, TypeOK, Commit
  <2>6. changes' \subseteq Change
    BY <2>1, <2>2, <2>3, <2>4 DEF IInv, TypeOK, Change
  <2> QED BY <2>2, <2>3, <2>5, <2>6 DEF IInv, TypeOK, Commit, chatVars
<1>2. Alone'
  BY DEF IInv, Alone, Held, Busy, Commit, chatVars
<1>3. Final'
  BY DEF IInv, TypeOK, Final, Alone, Held, Busy, Done, Spent, Commit, Working, chatVars
<1>4. CallBacked'
  <2> DEFINE k == call[t]
  <2>1. k \in Call /\ k.run \in Run /\ Busy(t, k.run)
    BY DEF IInv, TypeOK, Commit, Working, Busy, Call
  <2>2. /\ \A o \in Thread : o # t => call'[o] = call[o]
        /\ call'[t] # Null /\ call'[t].run = k.run /\ call'[t].pc = "linking"
    BY <2>1, <1>1, NullIsNoRecord DEF TypeOK, Commit, IInv, Call
  <2>3. /\ Done(k.run)'
        /\ \A r \in Run : Done(r)' <=> Done(r) \/ r = k.run
    <3>1. PICK p : changes' = changes \cup
            {[run |-> k.run, made |-> Made(k.card), payment |-> p, by |-> k.card.by]}
      BY DEF Commit
    <3> DEFINE n == [run |-> k.run, made |-> Made(k.card), payment |-> p, by |-> k.card.by]
    <3>2. n.run = k.run
      OBVIOUS
    <3>3. changes' = changes \cup {n}
      BY <3>1
    <3> HIDE DEF n
    <3> QED BY <2>2, <3>2, <3>3 DEF Done
  <2>4. ASSUME NEW r \in Run, Spent(r) PROVE Spent(r)' /\ r # k.run
    BY <2>1, <2>2, <2>4 DEF Spent, Held, Busy, Commit, chatVars
  <2>5. \A o \in Thread : call[o] # Null => call[o].run \in Run
    BY DEF IInv, TypeOK, Call
  <2> QED BY <2>1, <2>2, <2>3, <2>4, <2>5 DEF IInv, CallBacked
<1>5. VerdictBacked'
  BY DEF IInv, VerdictBacked, Done, Commit, chatVars
<1>6. ExecutionBacked'
  BY DEF IInv, ExecutionBacked, Done, Commit, chatVars
<1>7. OnCard'
  BY DEF IInv, OnCard, Commit, Working, chatVars
<1>8. OneCall'
  BY DEF IInv, OneCall, Commit, Working, chatVars
<1>9. Begun'
  BY DEF IInv, Begun, Held, Busy, Done, Spent, Commit, Working, chatVars
<1>10. OneChangePerGo'
  BY NullIsNoRecord
    DEF IInv, TypeOK, Call, OneChangePerGo, Final, OnCard, Done, Spent, Busy, Commit,
        Working, Target, chatVars
<1> QED BY <1>1, <1>2, <1>3, <1>4, <1>5, <1>6, <1>7, <1>8, <1>9, <1>10 DEF IInv

LEMMA PreflightKeeps ==
  ASSUME IInv, NEW r \in Run, NEW u \in User, NEW a \in Skill, NEW p \in About(a),
         Preflight(r, u, a, p)
  PROVE  IInv'
<1>1. TypeOK'
  <2>1. CardNow(u, a, p) \in Card
    BY SkillsKnown DEF IInv, TypeOK, CardNow, Card, About, Status
  <2> QED BY <2>1, BoundsNat
    DEF IInv, TypeOK, Execution, Outcome, Preflight, Well, Fault, worldVars
<1>2. Alone'
  BY DEF IInv, Alone, Begun, Held, Busy, Spent, Preflight
<1>3. Final'
  BY DEF IInv, Final, Begun, Held, Busy, Done, Spent, Preflight
<1>4. CallBacked'
  BY NullIsNoRecord
    DEF IInv, TypeOK, Call, CallBacked, OnCard, Held, Busy, Done, Spent, Preflight
<1>5. VerdictBacked'
  BY DEF IInv, VerdictBacked, Done, Preflight
<1>6. ExecutionBacked'
  BY DEF IInv, ExecutionBacked, Done, Preflight
<1>7. OnCard'
  BY NullIsNoRecord, NullIsNone
    DEF IInv, TypeOK, Serving, Call, OnCard, Preflight, CardNow, About
<1>8. OneCall'
  BY DEF IInv, OneCall, Preflight
<1>9. Begun'
  <2>1. asked' = [asked EXCEPT ![r] = CardNow(u, a, p)] /\ CardNow(u, a, p) # Null
    <3>1. CardNow(u, a, p) \in Card
      BY SkillsKnown DEF IInv, TypeOK, CardNow, Card, About, Status
    <3> QED BY <3>1, NullIsNoRecord DEF Preflight
  <2> SUFFICES ASSUME NEW q \in Run, asked'[q] = Null
               PROVE  Spent(q)' /\ ~Done(q)' /\ q \notin assured' /\ execution'[q] = Null
    BY DEF Begun
  <2>2. q # r /\ asked[q] = Null
    BY <2>1 DEF IInv, TypeOK
  <2>3. Spent(q) /\ ~Done(q) /\ q \notin assured /\ execution[q] = Null
    BY <2>2 DEF IInv, Begun
  <2>4. pending'[q] = pending[q] /\ execution'[q] = execution[q]
    BY <2>2 DEF Preflight, IInv, TypeOK
  <2>5. q \notin assured'
    BY <2>2, <2>3 DEF Preflight
  <2> QED BY <2>3, <2>4, <2>5 DEF Spent, Held, Busy, Done, Preflight
<1>10. OneChangePerGo'
  BY DEF IInv, OneChangePerGo, Preflight
<1> QED BY <1>1, <1>2, <1>3, <1>4, <1>5, <1>6, <1>7, <1>8, <1>9, <1>10 DEF IInv

(* What everybody else does concerns no part of the invariant but types.   *)
LEMMA WorldKeeps ==
  ASSUME IInv, UNCHANGED <<asked, pending, serving, call, execution, changes, assured>>,
         TypeOK'
  PROVE  IInv'
  BY DEF IInv, Alone, Final, CallBacked, VerdictBacked, ExecutionBacked, OnCard, OneCall,
         Begun, OneChangePerGo, Held, Busy, Done, Spent

LEMMA MoveKeeps ==
  ASSUME IInv, Lapse \/ (\E p \in Payment : Others(p))
                     \/ (\E u \in User, a \in Skill : Revoke(u, a))
  PROVE  IInv'
<1>1. moves' \in 0..MaxMoves
  <2>1. Move
    BY DEF Lapse, Others, Revoke
  <2> QED BY <2>1, BoundsNat DEF IInv, TypeOK, Move
<1>2. CASE Lapse
  BY <1>1, <1>2, WorldKeeps DEF IInv, TypeOK, Lapse, chatVars
<1>3. ASSUME NEW p \in Payment, Others(p) PROVE IInv'
  <2>1. payment' \in [Payment -> Status]
    BY <1>3 DEF IInv, TypeOK, Others, To, Status
  <2> QED BY <1>1, <1>3, <2>1, WorldKeeps DEF IInv, TypeOK, Others, chatVars
<1>4. ASSUME NEW u \in User, NEW a \in Skill, Revoke(u, a) PROVE IInv'
  BY <1>1, <1>4, WorldKeeps DEF IInv, TypeOK, Revoke, chatVars
<1> QED BY <1>2, <1>3, <1>4

-----------------------------------------------------------------------------

LEMMA InitHolds ==
  ASSUME Init
  PROVE  IInv
<1>1. TypeOK
  BY BoundsNat DEF Init, TypeOK, Status
<1> QED BY <1>1, NullIsNoRecord
  DEF Init, IInv, Alone, Final, CallBacked, VerdictBacked, ExecutionBacked, OnCard, OneCall,
      Begun, OneChangePerGo, Held, Busy, Done, Spent

LEMMA ChatStepKeeps ==
  ASSUME IInv, NEW t \in Thread, ChatStep(t)
  PROVE  IInv'
  BY DropKeeps, TakeKeeps, RecheckKeeps, SendKeeps, ReceiveKeeps, GiveUpKeeps, PatchKeeps
    DEF ChatStep

LEMMA ServiceStepKeeps ==
  ASSUME IInv, NEW t \in Thread, ServiceStep(t)
  PROVE  IInv'
  BY CommitKeeps, RefuseKeeps, LinkKeeps, ServiceFailsKeeps, UnheardKeeps DEF ServiceStep

LEMMA StepKeeps ==
  ASSUME IInv, [Next]_vars
  PROVE  IInv'
<1>1. CASE UNCHANGED vars
  <2>1. TypeOK'
    BY <1>1 DEF IInv, TypeOK, vars
  <2> QED BY <1>1, <2>1, WorldKeeps DEF vars
<1>2. ASSUME NEW r \in Run, NEW u \in User, NEW a \in Skill, NEW p \in About(a),
             Preflight(r, u, a, p)
      PROVE  IInv'
  BY <1>2, PreflightKeeps
<1>3. ASSUME NEW r \in Run, Expire(r) PROVE IInv'
  BY <1>3, ExpireKeeps
<1>4. ASSUME NEW t \in Thread, NEW r \in Run, NEW u \in User, NEW go \in BOOLEAN,
             Confirm(t, r, u, go)
      PROVE  IInv'
  BY <1>4, ConfirmKeeps
<1>5. ASSUME NEW t \in Thread, ChatStep(t) \/ ServiceStep(t) PROVE IInv'
  BY <1>5, ChatStepKeeps, ServiceStepKeeps
<1>6. CASE Restart
  BY <1>6, RestartKeeps
<1>7. CASE Lapse \/ (\E p \in Payment : Others(p))
                \/ (\E u \in User, a \in Skill : Revoke(u, a))
  BY <1>7, MoveKeeps
<1> QED BY <1>1, <1>2, <1>3, <1>4, <1>5, <1>6, <1>7 DEF Next

(* The invariant holds in every reachable state.                           *)
THEOREM RightIsInOnePlace == Spec => []IInv
<1>1. Init => IInv
  BY InitHolds
<1>2. IInv /\ [Next]_vars => IInv'
  BY StepKeeps
<1> QED BY <1>1, <1>2, PTL DEF Spec

(* Every variable of the skills has its type.                              *)
THEOREM TypesHold == Spec => []TypeOK
<1>1. IInv => TypeOK
  BY DEF IInv
<1> QED BY <1>1, RightIsInOnePlace, PTL

(* However often and by whomever a run is confirmed (PaymentIdSkillFlow.   *)
(* confirm, PendingSkillStore.pop), it changes at most one payment, once,  *)
(* the one on its card, for whoever asked.                                 *)
THEOREM GoChangesOnePayment == Spec => []OneChangePerGo
<1>1. IInv => OneChangePerGo
  BY DEF IInv
<1> QED BY <1>1, RightIsInOnePlace, PTL

(* What the chat tells and the audit execution keeps of a run as not done  *)
(* was not done and is not done later, what it keeps as completed was.     *)
THEOREM OutcomesAreBacked == Spec => []OutcomesBacked
<1>1. IInv => OutcomesBacked
  BY DEF IInv, OutcomesBacked, Final, ExecutionBacked, Done
<1> QED BY <1>1, RightIsInOnePlace, PTL
=============================================================================
