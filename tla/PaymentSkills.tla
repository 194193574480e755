----------------------------- MODULE PaymentSkills -----------------------------
(***************************************************************************)
(* The payment skills of ssi-chat-j: a question starts a run that checks   *)
(* the payment and asks for Go or No Go, a confirmation carries it out at  *)
(* payment-service, and an audit execution keeps what became of it.        *)
(*                                                                         *)
(* Three parties act at their own pace: the threads of the chat that serve *)
(* confirmations, the calls payment-service works on, which outlive the    *)
(* chat's patience, and everybody else who changes payments, permissions   *)
(* and instructions meanwhile.  What a call does inside payment-service is *)
(* one step here; PaymentSaga takes it apart.                              *)
(***************************************************************************)
EXTENDS Integers, FiniteSets

CONSTANTS
  User, Payment,
  Run,            \* runs of a skill: pending id and audit execution
  Thread,         \* confirmations the chat serves at a time
  Skill,          \* the skills asked for, among Action
  MaxFaults,      \* faults in a behaviour
  MaxMoves,       \* what others change in a behaviour
  Null

Action == {"CREATE", "SUBMIT", "APPROVE", "CANCEL"}

ASSUME SkillsKnown == Skill \subseteq Action
ASSUME BoundsNat == MaxFaults \in Nat /\ MaxMoves \in Nat
ASSUME NullIsNone == Null \notin Run \cup Payment \cup User

Status == {"ABSENT", "DRAFT", "SUBMITTED", "APPROVED", "REJECTED", "CANCELLED"}
Outcome == {"AWAITING_CONFIRMATION", "COMPLETED", "DENIED", "FAILED", "CANCELLED"}

(* The status a payment must have for an action, and gets from it.         *)
From(a) == CASE a = "CREATE" -> {"ABSENT"}
             [] a = "SUBMIT" -> {"DRAFT"}
             [] a = "APPROVE" -> {"SUBMITTED"}
             [] OTHER -> {"DRAFT", "SUBMITTED"}
To(a) == CASE a = "CREATE" -> "DRAFT"
           [] a = "SUBMIT" -> "SUBMITTED"
           [] a = "APPROVE" -> "APPROVED"
           [] OTHER -> "CANCELLED"

(* A card: what a run remembers of its preflight until it is confirmed.    *)
(* PendingSkill; payment is Null for a payment that is yet to be created.  *)
Card == [by : User, skill : Action, payment : Payment \cup {Null},
         status : Status, fit : BOOLEAN]

Execution == [status : Outcome, shown : Status \cup {Null}, linked : BOOLEAN]
Serving == [run : Run, card : Card,
            pc : {"drop", "take", "recheck", "call", "wait", "patch"},
            verdict : Outcome \cup {Null}]
Call == [run : Run, card : Card,
         pc : {"working", "linking", "replied"}, reply : {"ok", "denied", "error", "none"}]
Change == [run : Run, made : Action, payment : Payment, by : User]

ASSUME NullIsNoRecord == Null \notin Card \cup Execution \cup Serving \cup Call

VARIABLES
  asked,      \* the card a run began with, Null for a run that waits to begin
  pending,    \* PendingSkillStore.items
  serving,    \* what a thread of the chat is doing
  call,       \* what payment-service does for a thread
  execution,  \* the audit executions, Null when the insert has failed
  payment,    \* the status of each payment
  may,        \* the permissions policy grants now
  fit,        \* whether the backing instruction still suits its payments
  changes,    \* what payment-service has done for the runs
  assured,    \* runs whose user was told that nothing was done
  faults, moves

chatVars == <<asked, pending, serving, assured>>
worldVars == <<payment, may, fit, moves>>
vars == <<asked, pending, serving, call, execution, payment, may, fit, changes, assured,
          faults, moves>>

TypeOK ==
  /\ asked \in [Run -> Card \cup {Null}]
  /\ pending \in [Run -> Card \cup {Null}]
  /\ serving \in [Thread -> Serving \cup {Null}]
  /\ call \in [Thread -> Call \cup {Null}]
  /\ execution \in [Run -> Execution \cup {Null}]
  /\ payment \in [Payment -> Status]
  /\ may \subseteq User \X Action
  /\ fit \in BOOLEAN
  /\ changes \subseteq Change
  /\ assured \subseteq Run
  /\ faults \in 0..MaxFaults /\ moves \in 0..MaxMoves

(* Everybody may do everything at first; permissions are taken away later. *)
Init ==
  /\ asked = [r \in Run |-> Null]
  /\ pending = [r \in Run |-> Null]
  /\ serving = [t \in Thread |-> Null]
  /\ call = [t \in Thread |-> Null]
  /\ execution = [r \in Run |-> Null]
  /\ payment \in [Payment -> {"ABSENT", "DRAFT", "SUBMITTED"}]
  /\ may = User \X Action
  /\ fit = TRUE
  /\ changes = {}
  /\ assured = {}
  /\ faults = 0 /\ moves = 0

Fault == faults < MaxFaults /\ faults' = faults + 1

(* A step either goes well or is a fault, of which there are finitely many. *)
Well(ok) == IF ok THEN UNCHANGED faults ELSE Fault

(* The policy's answer about a card; its rules are LifecyclePolicy's.      *)
Evaluate(c) ==
  /\ <<c.by, c.skill>> \in may
  /\ c.status \in From(c.skill)
  /\ c.fit \/ c.skill = "CANCEL"

-----------------------------------------------------------------------------
(* Phase 1: the question. *)

(* The card of a question asked now.                                       *)
CardNow(u, a, p) ==
  [by |-> u, skill |-> a, payment |-> p, fit |-> fit,
   status |-> IF p = Null THEN "ABSENT" ELSE payment[p]]

About(a) == IF a = "CREATE" THEN {Null} ELSE {p \in Payment : payment[p] # "ABSENT"}

(* The payment is loaded, its status looked at, the policy asked and the   *)
(* execution inserted: awaiting confirmation, or denied, or failed because *)
(* the policy could not be asked.  The insert may fail, unnoticed.         *)
Preflight(r, u, a, p) ==
  LET c == CardNow(u, a, p) IN
  \E answered, stored \in BOOLEAN :
    LET go == answered /\ Evaluate(c)
        outcome == IF go THEN "AWAITING_CONFIRMATION"
                   ELSE IF answered THEN "DENIED" ELSE "FAILED" IN
      /\ asked[r] = Null
      /\ Well(answered /\ stored)
      /\ asked' = [asked EXCEPT ![r] = c]
      /\ execution' = [execution EXCEPT ![r] =
           IF stored THEN [status |-> outcome, shown |-> Null, linked |-> FALSE] ELSE Null]
      /\ pending' = [pending EXCEPT ![r] = IF go THEN c ELSE Null]
      /\ assured' = IF go THEN assured ELSE assured \cup {r}
      /\ UNCHANGED <<serving, call, worldVars, changes>>

(* purgeExpired: after ten minutes nobody can confirm any more.            *)
Expire(r) ==
  /\ pending[r] # Null
  /\ pending' = [pending EXCEPT ![r] = Null]
  /\ UNCHANGED <<asked, serving, call, execution, worldVars, changes, assured, faults>>

-----------------------------------------------------------------------------
(* Phase 2: Go or No Go. *)

Advance(t, pc) == serving' = [serving EXCEPT ![t].pc = pc]

(* A confirmation looks the run up.  One that finds nothing, another skill *)
(* or another user's run answers so and changes nothing.                   *)
Confirm(t, r, u, go) ==
  /\ serving[t] = Null /\ call[t] = Null
  /\ pending[r] # Null
  /\ pending[r].by = u
  /\ serving' = [serving EXCEPT ![t] =
       [run |-> r, card |-> pending[r], pc |-> IF go THEN "take" ELSE "drop", verdict |-> Null]]
  /\ UNCHANGED <<asked, pending, call, execution, worldVars, changes, assured, faults>>

(* No Go: the run is removed, whether or not a Go was quicker, and its     *)
(* execution is going to be cancelled.                                     *)
Drop(t) ==
  LET s == serving[t] IN
  /\ s # Null /\ s.pc = "drop"
  /\ pending' = [pending EXCEPT ![s.run] = Null]
  /\ serving' = [serving EXCEPT ![t] = [s EXCEPT !.pc = "patch", !.verdict = "CANCELLED"]]
  /\ UNCHANGED <<asked, call, execution, worldVars, changes, assured, faults>>

(* Faulty variant: Go goes on with the run it has looked up, taken or not. *)
Take_Anyway(t) ==
  LET s == serving[t] IN
  /\ s # Null /\ s.pc = "take"
  /\ pending' = [pending EXCEPT ![s.run] = Null]
  /\ Advance(t, "recheck")
  /\ UNCHANGED <<asked, call, execution, worldVars, changes, assured, faults>>

(* Faulty variant: Go does not look at what it has taken out. *)
Take_Unchecked(t) ==
  LET s == serving[t] IN
  /\ s # Null /\ s.pc = "take"
  /\ pending' = [pending EXCEPT ![s.run] = Null]
  /\ serving' = [serving EXCEPT ![t] = [s EXCEPT !.pc = "recheck", !.card = pending[s.run]]]
  /\ UNCHANGED <<asked, call, execution, worldVars, changes, assured, faults>>

(* Go: the run is taken out of the store; only who gets it goes on.        *)
Take(t) ==
  LET s == serving[t] IN
  /\ s # Null /\ s.pc = "take"
  /\ pending' = [pending EXCEPT ![s.run] = Null]
  /\ serving' = [serving EXCEPT ![t] =
       IF pending[s.run] = Null THEN Null ELSE [s EXCEPT !.pc = "recheck"]]
  /\ UNCHANGED <<asked, call, execution, worldVars, changes, assured, faults>>

(* The thread is done with the payment and is going to say v of it.        *)
Conclude(t, v) ==
  serving' = [serving EXCEPT ![t] = [serving[t] EXCEPT !.pc = "patch", !.verdict = v]]

(* The policy is asked again, about the card as it was.  When it cannot be *)
(* asked the create skill leaves the execution as it is.                   *)
Recheck(t) ==
  LET s == serving[t] IN
  /\ s # Null /\ s.pc = "recheck"
  /\ \/ /\ Evaluate(s.card)
        /\ Advance(t, "call")
        /\ UNCHANGED <<assured, faults>>
     \/ /\ ~Evaluate(s.card)
        /\ Conclude(t, "DENIED")
        /\ assured' = assured \cup {s.run}
        /\ UNCHANGED faults
     \/ /\ Fault
        /\ assured' = assured \cup {s.run}
        /\ IF s.card.skill = "CREATE" THEN serving' = [serving EXCEPT ![t] = Null]
           ELSE Conclude(t, "FAILED")
  /\ UNCHANGED <<asked, pending, call, execution, worldVars, changes>>

(* PaymentMutationClient.post *)
Send(t) ==
  LET s == serving[t] IN
  /\ s # Null /\ s.pc = "call"
  /\ call' = [call EXCEPT ![t] =
       [run |-> s.run, card |-> s.card, pc |-> "working", reply |-> "none"]]
  /\ Advance(t, "wait")
  /\ UNCHANGED <<asked, pending, execution, worldVars, changes, assured, faults>>

(* What a thread makes of the answer; denied comes with the assurance that *)
(* nothing was persisted.                                                  *)
Verdict_ErrorIsDenial(reply) == IF reply = "ok" THEN "COMPLETED" ELSE "DENIED"

Verdict(reply) ==
  CASE reply = "ok" -> "COMPLETED" [] reply = "denied" -> "DENIED" [] OTHER -> "FAILED"

Answered(t, reply) ==
  /\ serving[t] # Null /\ serving[t].pc = "wait"
  /\ Conclude(t, Verdict(reply))
  /\ assured' = IF Verdict(reply) = "DENIED" THEN assured \cup {serving[t].run} ELSE assured

(* The answer arrives.                                                     *)
Receive(t) ==
  /\ call[t] # Null /\ call[t].pc = "replied"
  /\ Answered(t, call[t].reply)
  /\ call' = [call EXCEPT ![t] = Null]
  /\ UNCHANGED <<asked, pending, execution, worldVars, changes, faults>>

(* Faulty variant: a client without a time-out. *)
GiveUp_Never(t) == FALSE /\ serving[t] # Null /\ UNCHANGED vars

(* The chat stops waiting; payment-service does not notice.                *)
GiveUp(t) ==
  /\ Answered(t, "none")
  /\ UNCHANGED <<asked, pending, call, execution, worldVars, changes, faults>>

(* The execution is overwritten with the verdict, whatever it says by now. *)
(* A patch that fails is logged.  The card says which status was reported. *)
Patched(e, s) ==
  [e EXCEPT !.status = s.verdict,
            !.shown = IF s.verdict = "COMPLETED" /\ s.card.skill # "CREATE"
                        THEN To(s.card.skill) ELSE Null]

Patch(t) ==
  LET s == serving[t] IN
  \E stored \in BOOLEAN :
    /\ s # Null /\ s.pc = "patch"
    /\ Well(stored)
    /\ execution' = IF stored /\ execution[s.run] # Null
                      THEN [execution EXCEPT ![s.run] = Patched(@, s)] ELSE execution
    /\ serving' = [serving EXCEPT ![t] = Null]
    /\ UNCHANGED <<asked, pending, call, worldVars, changes, assured>>

(* The chat restarts: its threads and its store are gone.                  *)
Restart ==
  /\ Fault
  /\ pending' = [r \in Run |-> Null]
  /\ serving' = [t \in Thread |-> Null]
  /\ UNCHANGED <<asked, call, execution, worldVars, changes, assured>>

-----------------------------------------------------------------------------
(* payment-service, and everybody else. *)

(* What the service does for a card: an approval of a payment whose        *)
(* instruction has become unfit cancels it, without asking the policy.     *)
Made(c) == IF c.skill = "APPROVE" /\ ~fit THEN "CANCEL" ELSE c.skill

(* Whether the status of the payment and the instruction let it begin.     *)
Admits(c) ==
  /\ c.skill # "CREATE" => payment[c.payment] \in From(c.skill)
  /\ c.skill \in {"CREATE", "SUBMIT"} => fit

Authorized(c) == Made(c) # c.skill \/ <<c.by, c.skill>> \in may

(* The payment the service changes, a new one for CREATE.                  *)
Target(c) == IF c.skill = "CREATE" THEN {p \in Payment : payment[p] = "ABSENT"} ELSE {c.payment}

Working(t) == call[t] # Null /\ call[t].pc = "working"

(* The version and its security event are committed.                       *)
Commit(t) ==
  LET k == call[t] IN
  /\ Working(t)
  /\ Admits(k.card) /\ Authorized(k.card)
  /\ \E p \in Target(k.card) :
       /\ payment' = [payment EXCEPT ![p] = To(Made(k.card))]
       /\ changes' = changes \cup
            {[run |-> k.run, made |-> Made(k.card), payment |-> p, by |-> k.card.by]}
  /\ call' = [call EXCEPT ![t].pc = "linking"]
  /\ UNCHANGED <<chatVars, execution, may, fit, moves, faults>>

(* 403 for what the policy refuses, 409 for what the status does.          *)
Refuse(t) ==
  LET k == call[t] IN
  /\ Working(t)
  /\ ~Admits(k.card) \/ ~Authorized(k.card)
  /\ call' = [call EXCEPT ![t].pc = "replied",
                          ![t].reply = IF Admits(k.card) THEN "denied" ELSE "error"]
  /\ UNCHANGED <<chatVars, execution, worldVars, changes, faults>>

(* _link_audit_execution, when the chat has an execution to link.          *)
Link(t) ==
  LET k == call[t] IN
  /\ k # Null /\ k.pc = "linking"
  /\ execution' = IF execution[k.run] = Null THEN execution
                  ELSE [execution EXCEPT ![k.run].status = "COMPLETED", ![k.run].linked = TRUE]
  /\ call' = [call EXCEPT ![t].pc = "replied", ![t].reply = "ok"]
  /\ UNCHANGED <<chatVars, worldVars, changes, faults>>

(* The service fails, before the commit or between commit and link.        *)
ServiceFails(t) ==
  /\ call[t] # Null /\ call[t].pc # "replied"
  /\ Fault
  /\ call' = [call EXCEPT ![t].pc = "replied", ![t].reply = "error"]
  /\ UNCHANGED <<chatVars, execution, worldVars, changes>>

(* Nobody waits for the answer any more.                                   *)
Unheard(t) ==
  /\ call[t] # Null /\ call[t].pc = "replied"
  /\ serving[t] = Null
  /\ call' = [call EXCEPT ![t] = Null]
  /\ UNCHANGED <<chatVars, execution, worldVars, changes, faults>>

(* What others do is bounded, too.                                         *)
Move == moves < MaxMoves /\ moves' = moves + 1

(* Other clients of payment-service.                                       *)
Others(p) ==
  /\ Move
  /\ \E a \in Action \ {"CREATE"} :
       payment[p] \in From(a) /\ payment' = [payment EXCEPT ![p] = To(a)]
  /\ UNCHANGED <<chatVars, call, execution, may, fit, changes, faults>>

(* The instruction is suspended, edited or expires.                        *)
Lapse ==
  /\ Move
  /\ fit /\ fit' = FALSE
  /\ UNCHANGED <<chatVars, call, execution, payment, may, changes, faults>>

(* Somebody loses a permission.                                            *)
Revoke(u, a) ==
  /\ Move
  /\ <<u, a>> \in may /\ a \in Skill
  /\ may' = may \ {<<u, a>>}
  /\ UNCHANGED <<chatVars, call, execution, payment, fit, changes, faults>>

-----------------------------------------------------------------------------

(* What a thread of the chat does once it serves a confirmation.           *)
ChatStep(t) ==
  \/ Drop(t) \/ Take(t) \/ Recheck(t) \/ Send(t) \/ Receive(t) \/ GiveUp(t) \/ Patch(t)

ServiceStep(t) == Commit(t) \/ Refuse(t) \/ Link(t) \/ ServiceFails(t) \/ Unheard(t)

Next ==
  \/ \E r \in Run, u \in User, a \in Skill : \E p \in About(a) : Preflight(r, u, a, p)
  \/ \E r \in Run : Expire(r)
  \/ \E t \in Thread, r \in Run, u \in User, go \in BOOLEAN : Confirm(t, r, u, go)
  \/ \E t \in Thread : ChatStep(t) \/ ServiceStep(t)
  \/ \E p \in Payment : Others(p)
  \/ \E u \in User, a \in Skill : Revoke(u, a)
  \/ Lapse \/ Restart

Spec == Init /\ [][Next]_vars

(* A thread of the chat goes on, at the latest when its client's time-out  *)
(* strikes.  Nothing is asked of users, payment-service and faults.        *)
FairSpec == Spec /\ \A t \in Thread : WF_vars(ChatStep(t))

-----------------------------------------------------------------------------
(* Properties. *)

(* "That confirmation was already used. No additional ... was sent":       *)
(* however often and by whomever a run is confirmed, it changes at most    *)
(* one payment once, the one on its card, on behalf of who asked.          *)
OneChangePerGo ==
  \A c \in changes :
    /\ asked[c.run] # Null /\ c.by = asked[c.run].by
    /\ asked[c.run].payment \in {Null, c.payment}
    /\ \A d \in changes : d.run = c.run => d = c

(* What was told and recorded as not done was not done, and is not done    *)
(* later; what is recorded as completed was done.                          *)
OutcomesBacked ==
  \A r \in Run :
    LET done == \E c \in changes : c.run = r IN
      /\ r \in assured => ~done
      /\ execution[r] # Null =>
           /\ execution[r].status = "DENIED" => ~done
           /\ execution[r].status = "COMPLETED" => done

(* Without faults the execution of a run somebody has decided about does   *)
(* not stay "awaiting confirmation", even if payment-service never answers.*)
DecisionRecorded ==
  \A r \in Run :
    (\E t \in Thread : serving[t] # Null /\ serving[t].run = r /\ serving[t].pc # "take")
      ~> (faults > 0 \/ execution[r] = Null \/ execution[r].status # "AWAITING_CONFIRMATION")

-----------------------------------------------------------------------------
(* A promise of the documentation that the code does not keep. *)

(* "On Go: re-check then POST .../approve as the user; report approved     *)
(* status" (approve-payment-skill): what is reported as approved has been  *)
(* approved.                                                               *)
ApprovalReported ==
  \A r \in Run :
    execution[r] # Null /\ execution[r].shown = "APPROVED" =>
      \E c \in changes : c.run = r /\ c.made = "APPROVE"
=============================================================================
