------------------------------ MODULE GraphIndex ------------------------------
(***************************************************************************)
(* ssi-indexer's writers: what facts and security events do to the graph   *)
(* and to the search documents.  Each topic has a consumer that handles    *)
(* its messages in order; a message that keeps failing is parked in the    *)
(* dead letter queue and replayed later, next to the consumers.  A handler *)
(* first reads the search document, then waits for the embedding, and then *)
(* writes everything in one Neo4j transaction.  The transaction of an      *)
(* instruction's fact reads what others have committed after its own       *)
(* upsert, and so takes three steps.  How messages come to be parked and   *)
(* replayed is IndexerDlq's subject; here it may happen to any message at  *)
(* any time.                                                               *)
(***************************************************************************)
EXTENDS Integers, Sequences, FiniteSets

CONSTANTS
  Instruction, Payment,
  Account,     \* creditor accounts
  Terms,       \* currency, dates and the like
  Lob,         \* lines of business
  Null,
  MaxVersion,  \* bound: versions of an instruction
  Logs,        \* what the topics may hold
  Replayer,    \* replays in progress at once
  MaxParked    \* bound: parked messages

Topic == {"instructions", "payments", "instruction_security_events",
          "payment_security_events"}
FactTopic == {"instructions", "payments"}
PaymentTopic == {"payments", "payment_security_events"}
Worker == Topic \cup Replayer
Entity == Instruction \cup Payment
Version == 1..MaxVersion

InstructionStatus ==
  {"DRAFT", "SUBMITTED", "APPROVED", "REJECTED", "USED", "SUSPENDED", "CANCELLED"}
InstructionAction ==
  {"CREATE", "UPDATE", "SUBMIT", "APPROVE", "REJECT", "CANCEL", "SUSPEND",
   "REACTIVATE", "USE", "RELEASE_USE"}
PaymentAction == {"CREATE", "UPDATE", "SUBMIT", "APPROVE", "REJECT", "CANCEL"}

(* Rows as they were when the connector published them.  open: the row's   *)
(* out still lies at the end of time; a connector that copies a collection *)
(* publishes closed rows too.  ref: the payment of a USE or RELEASE_USE.   *)
InstructionFact ==
  [id : Instruction, ver : Version, open : BOOLEAN, action : InstructionAction,
   status : InstructionStatus, account : Account, terms : Terms, lob : Lob,
   ref : Payment \cup {Null}]
PaymentFact ==
  [id : Payment, ver : Nat \ {0}, open : BOOLEAN, action : PaymentAction,
   inst : Instruction, kind : {"STANDING", "SINGLE_USE"}]

(* A security event carries a snapshot of the instruction that was judged  *)
(* and the number of the version it is filed under.                        *)
InstructionEvent ==
  [id : Instruction, ver : Version, action : InstructionAction,
   outcome : {"success", "failure"}, status : InstructionStatus, terms : Terms]

PaymentEvent ==
  [id : Payment, ver : Nat \ {0}, action : PaymentAction,
   outcome : {"success", "failure"}]

Log ==
  {l \in [Topic -> Seq(InstructionFact \cup PaymentFact \cup InstructionEvent
                         \cup PaymentEvent)] :
     /\ l["instructions"] \in Seq(InstructionFact)
     /\ l["payments"] \in Seq(PaymentFact)
     /\ l["instruction_security_events"] \in Seq(InstructionEvent)
     /\ l["payment_security_events"] \in Seq(PaymentEvent)}

(* A version node: its account is written by facts only. *)
Node == [status : InstructionStatus, terms : Terms, account : Account \cup {Null}]

(* An instruction_state or payment_fact document: the version it shows and *)
(* the authorization it quotes.                                            *)
Document == [ver : Nat \ {0}, authorization : {Null, "success", "failure"}]

(* A handler at work on message k of a topic: the document it has read,    *)
(* how far its transaction has come, and the rivals conflict_query found.  *)
(* A fact about an instruction is "upserted" and "matched" before it is    *)
(* "written" (committed).                                                  *)
Job ==
  [topic : Topic, k : Nat \ {0}, seen : Document \cup {Null},
   stage : {"read", "upserted", "matched", "written"}, rivals : SUBSET Instruction]

ASSUME ConstantsAssumption ==
  /\ Instruction \cap Payment = {} /\ Topic \cap Replayer = {}
  /\ MaxVersion \in Nat /\ MaxParked \in Nat
  /\ Null \notin Account \cup Payment \cup Node \cup Document \cup Job
  /\ Null \notin {"success", "failure"} \cup InstructionStatus

(* Whatever the services wrote:                                            *)
(*   - a number is that of one row of its entity, and no row is newer than *)
(*     all open rows of its entity;                                        *)
(*   - a payment keeps its instruction, which has rows;                    *)
(*   - an event about an instruction is filed under one of its rows.       *)
(* (An event that has no number to be filed under, as when a creation is   *)
(* refused, makes no version node and is left out.)                        *)
ASSUME LogsAssumption ==
  \A l \in Logs :
    /\ l \in Log
    /\ \A t \in FactTopic : \A k \in 1..Len(l[t]) :
         /\ \A j \in 1..Len(l[t]) :
              l[t][j].id = l[t][k].id /\ l[t][j].ver = l[t][k].ver => j = k
         /\ \E j \in 1..Len(l[t]) :
              l[t][j].id = l[t][k].id /\ l[t][j].ver >= l[t][k].ver /\ l[t][j].open
    /\ \A k \in 1..Len(l["payments"]) :
         /\ \A j \in 1..Len(l["payments"]) :
              l["payments"][j].id = l["payments"][k].id
                => l["payments"][j].inst = l["payments"][k].inst
         /\ \E j \in 1..Len(l["instructions"]) :
              l["instructions"][j].id = l["payments"][k].inst
    /\ \A k \in 1..Len(l["instruction_security_events"]) :
         \E j \in 1..Len(l["instructions"]) :
           /\ l["instructions"][j].id = l["instruction_security_events"][k].id
           /\ l["instructions"][j].ver = l["instruction_security_events"][k].ver

VARIABLES
  log,        \* the topics
  offset,     \* the consumers' committed offsets
  parked,     \* messages in the dead letter queue
  job,        \* what each worker is doing
  applied,    \* history: the messages whose transaction has committed
  crossed,    \* history: facts looking for rivals while another had looked
  current,    \* CURRENT: the version of each entity, 0 for none
  node,       \* InstructionVersion nodes
  consumed,   \* CONSUMED and CONSUMED_BY
  conflicts,  \* CONFLICTS_WITH
  document    \* MultimodalDocument nodes

graph == <<current, node, consumed, conflicts, document>>
vars == <<log, offset, parked, job, applied, crossed, graph>>

Init ==
  /\ log \in Logs
  /\ offset = [t \in Topic |-> 0]
  /\ parked = {}
  /\ job = [w \in Worker |-> Null]
  /\ applied = {} /\ crossed = {}
  /\ current = [e \in Entity |-> 0]
  /\ node = [i \in Instruction |-> [v \in Version |-> Null]]
  /\ consumed = {} /\ conflicts = {}
  /\ document = [e \in Entity |-> Null]

-----------------------------------------------------------------------------
(* Starting on a message: the pipeline reads the document its own version  *)
(* of it will be based on.  What is about payments is based on nothing.    *)

Start(w, t, k) ==
  /\ job[w] = Null
  /\ job' = [job EXCEPT ![w] =
               [topic |-> t, k |-> k, stage |-> "read", rivals |-> {},
                seen |-> IF t \in PaymentTopic THEN Null ELSE document[log[t][k].id]]]
  /\ UNCHANGED <<log, offset, parked, applied, crossed, graph>>

Consume(t) == offset[t] < Len(log[t]) /\ Start(t, t, offset[t] + 1)

Replay(r) == \E m \in parked : Start(r, m[1], m[2])

-----------------------------------------------------------------------------
(* The transactions. *)

(* CURRENT moves to open versions and never to an older one.  The rows     *)
(* always have a status, so the clauses on a missing one do not matter.    *)
Moves_Always(f) == f.open

Moves(f) == f.open /\ (current[f.id] = 0 \/ f.ver >= current[f.id])

Moved(f) == IF Moves(f) THEN [current EXCEPT ![f.id] = f.ver] ELSE current

MoveCurrent(f) == current' = Moved(f)

(* The commit. *)
AtStage(w, t, stage) == job[w] # Null /\ job[w].topic = t /\ job[w].stage = stage

Writing(w, t) ==
  /\ AtStage(w, t, IF t = "instructions" THEN "matched" ELSE "read")
  /\ job' = [job EXCEPT ![w] = [@ EXCEPT !.stage = "written", !.rivals = {}]]
  /\ applied' = applied \cup {<<t, job[w].k>>}
  /\ UNCHANGED <<log, offset, parked, crossed>>

Message(w) == log[job[w].topic][job[w].k]

Active == {"APPROVED", "SUBMITTED"}

(* The instructions that conflict_query links to f's, where it sees cur    *)
(* and nodes: their CURRENT version has f's account and currency, and both *)
(* CURRENT ones are active.                                                *)
Rivals(f, cur, nodes) ==
  {i \in Instruction \ {f.id} :
     /\ cur[i] # 0 /\ cur[f.id] # 0
     /\ nodes[i][cur[i]].account = f.account /\ nodes[i][cur[i]].terms = f.terms
     /\ nodes[i][cur[i]].status \in Active
     /\ nodes[f.id][cur[f.id]].status \in Active}

(* Faulty variant: a release frees the instruction of all its payments. *)
Released_All(f) ==
  IF f.action = "RELEASE_USE" THEN {<<p, f.id>> : p \in Payment} ELSE {}

(* The edges a fact deletes. *)
Released(f) == IF f.action = "RELEASE_USE" THEN {<<f.ref, f.id>>} ELSE {}

(* upsert_instruction_fact, statement by statement.                        *)
(*                                                                         *)
(* The upsert.  SET locks the instruction's node, and, behind the filter   *)
(* that moves CURRENT, the ProfitCenter node of its line of business (SET  *)
(* lob.name), until the transaction commits or is rolled back.  Locks that *)
(* only delay a step which could as well have come before the upsert (an   *)
(* event's on the same version node, a payment's edge, the rivals' nodes)  *)
(* are left out.                                                           *)
InTransaction(w) ==
  AtStage(w, "instructions", "upserted") \/ AtStage(w, "instructions", "matched")

(* Faulty variant: without SET lob.name, which always sets what is there.  *)
Excludes_Instruction(f, g) == f.id = g.id

Excludes(f, g) == f.id = g.id \/ (f.lob = g.lob /\ Moves(f) /\ Moves(g))

Upsert(w) ==
  /\ AtStage(w, "instructions", "read")
  /\ \A x \in Worker : InTransaction(x) => ~Excludes(Message(w), Message(x))
  /\ job' = [job EXCEPT ![w].stage = "upserted"]
  /\ UNCHANGED <<log, offset, parked, applied, crossed, graph>>

(* What the upsert writes; until the commit only its own transaction sees  *)
(* it.                                                                     *)
Recorded(f) ==
  [node EXCEPT ![f.id][f.ver] =
     [status |-> f.status, terms |-> f.terms, account |-> f.account]]

(* conflict_query reads its own writes and what others have committed.     *)
FindConflicts(w) ==
  LET f == Message(w) IN
    /\ AtStage(w, "instructions", "upserted")
    /\ job' = [job EXCEPT ![w] = [@ EXCEPT !.stage = "matched",
                                           !.rivals = Rivals(f, Moved(f), Recorded(f))]]
    /\ crossed' = crossed \cup
         {{job[w].k, job[x].k} : x \in {y \in Worker : AtStage(y, "instructions", "matched")}}
    /\ UNCHANGED <<log, offset, parked, applied, graph>>

(* The commit.  A fact brings no authorization of its own and keeps what   *)
(* the document had when it was read.                                      *)
WriteInstruction(w) ==
  LET f == Message(w) IN
    /\ Writing(w, "instructions")
    /\ node' = Recorded(f)
    /\ MoveCurrent(f)
    /\ conflicts' = conflicts \cup UNION {{<<f.id, i>>, <<i, f.id>>} : i \in job[w].rivals}
    /\ consumed' = consumed \ Released(f)
    /\ document' = [document EXCEPT ![f.id] =
         [ver |-> f.ver,
          authorization |-> IF job[w].seen = Null THEN Null ELSE job[w].seen.authorization]]

(* upsert_payment_fact: behind the filter that keeps CURRENT from going    *)
(* back stand the edges to the instruction as well.                        *)
Consumes(f) == Moves(f) /\ f.action = "SUBMIT" /\ f.kind = "SINGLE_USE"

WritePayment(w) ==
  LET f == Message(w) IN
    /\ Writing(w, "payments")
    /\ MoveCurrent(f)
    /\ consumed' = IF Consumes(f) THEN consumed \cup {<<f.id, f.inst>>} ELSE consumed
    /\ document' = [document EXCEPT ![f.id] = [ver |-> f.ver, authorization |-> Null]]
    /\ UNCHANGED <<node, conflicts>>

(* upsert: the event's snapshot is merged into the version node; an event  *)
(* of an approval, granted or not, is quoted in the document that was read.*)
Merged_Blank(n, e) == [status |-> e.status, terms |-> e.terms, account |-> Null]

Merged(n, e) ==
  [status |-> e.status, terms |-> e.terms,
   account |-> IF n = Null THEN Null ELSE n.account]

WriteEvent(w) ==
  LET e == Message(w) IN
    /\ Writing(w, "instruction_security_events")
    /\ node' = [node EXCEPT ![e.id][e.ver] = Merged(@, e)]
    /\ document' =
         IF e.action = "APPROVE" /\ job[w].seen # Null
         THEN [document EXCEPT ![e.id] = [job[w].seen EXCEPT !.authorization = e.outcome]]
         ELSE document
    /\ UNCHANGED <<current, consumed, conflicts>>

(* upsert_payment_security_event: the event's node, and a version node that *)
(* has a number but no status.  Both follow from what has been applied.    *)
WritePaymentEvent(w) == Writing(w, "payment_security_events") /\ UNCHANGED graph

-----------------------------------------------------------------------------
(* Afterwards. *)

(* What a consumer commits when it is through with a message. *)
Committed_OneFurther(w) == [offset EXCEPT ![w] = job[w].k + 1]

Committed(w) == [offset EXCEPT ![w] = job[w].k]

(* The consumer commits its offset; a replay marks its row processed. *)
Ack(w) ==
  /\ job[w] # Null /\ job[w].stage = "written"
  /\ IF w \in Topic
     THEN offset' = Committed(w) /\ UNCHANGED parked
     ELSE parked' = parked \ {<<job[w].topic, job[w].k>>} /\ UNCHANGED offset
  /\ job' = [job EXCEPT ![w] = Null]
  /\ UNCHANGED <<log, applied, crossed, graph>>

(* A consumer whose handler, or whose commit of the offset, kept failing   *)
(* parks the message.                                                      *)
Park(t) ==
  /\ job[t] # Null /\ Cardinality(parked) < MaxParked
  /\ parked' = parked \cup {<<t, job[t].k>>}
  /\ offset' = Committed(t)
  /\ job' = [job EXCEPT ![t] = Null]
  /\ UNCHANGED <<log, applied, crossed, graph>>

(* An attempt fails: a consumer makes another, a replay leaves the message *)
(* parked.                                                                 *)
Fail(w) ==
  /\ job[w] # Null
  /\ job' = [job EXCEPT ![w] = Null]
  /\ UNCHANGED <<log, offset, parked, applied, crossed, graph>>

(* Work in hand is lost; the graph, the offsets and the queue are not. *)
Crash ==
  /\ job' = [w \in Worker |-> Null]
  /\ UNCHANGED <<log, offset, parked, applied, crossed, graph>>

Next ==
  \/ \E t \in Topic : Consume(t) \/ Park(t)
  \/ \E r \in Replayer : Replay(r)
  \/ \E w \in Worker :
       \/ Upsert(w) \/ FindConflicts(w) \/ WriteInstruction(w) \/ WritePayment(w)
       \/ WriteEvent(w) \/ WritePaymentEvent(w)
       \/ Ack(w) \/ Fail(w)
  \/ Crash

Spec == Init /\ [][Next]_vars

-----------------------------------------------------------------------------
(* Properties. *)

(* Every variable holds a value of its kind; offsets stay within their     *)
(* topics, and the history names messages that exist.                      *)
TypeOK ==
  /\ log \in Logs
  /\ \A t \in Topic : offset[t] \in 0..Len(log[t])
  /\ crossed \subseteq SUBSET (1..Len(log["instructions"]))
  /\ parked \cup applied \subseteq {m \in Topic \X Nat : m[2] \in 1..Len(log[m[1]])}
  /\ job \in [Worker -> Job \cup {Null}]
  /\ \A w \in Worker : job[w] # Null => job[w].k \in 1..Len(log[job[w].topic])
  /\ current \in [Entity -> Nat]
  /\ node \in [Instruction -> [Version -> Node \cup {Null}]]
  /\ consumed \in SUBSET (Payment \X Instruction)
  /\ conflicts \in SUBSET (Instruction \X Instruction)
  /\ document \in [Entity -> Document \cup {Null}]

(* The applied messages, and the versions of an entity that came open. *)
Applied(t) == {k \in 1..Len(log[t]) : <<t, k>> \in applied}
OpenVersions(e) ==
  UNION {{log[t][k].ver : k \in {j \in Applied(t) : log[t][j].id = e /\ log[t][j].open}} :
           t \in FactTopic}

(* "Latest open version (never regresses)": whatever the order in which    *)
(* facts arrive, and however often, CURRENT is the newest of the open      *)
(* versions that have been applied.                                        *)
CurrentIsNewest ==
  \A e \in Entity :
    /\ current[e] # 0 => current[e] \in OpenVersions(e)
    /\ \A v \in OpenVersions(e) : v <= current[e]

(* Who asks twice along CURRENT is never answered from an older version    *)
(* the second time: replays, repeated deliveries and crashes take no       *)
(* answer back ("never regress").                                          *)
MonotonicReads == [][\A e \in Entity : current'[e] >= current[e]]_vars

(* f is the release of i by p. *)
Releases(f, p, i) == f.action = "RELEASE_USE" /\ f.ref = p /\ f.id = i

(* While a payment's submission is its CURRENT version and no release for  *)
(* it has been applied, the graph shows the instruction as consumed by it, *)
(* although the release comes through another topic and another payment's  *)
(* release of the same instruction may be applied at any time.             *)
SubmittedConsumes ==
  \A k \in Applied("payments") :
    LET f == log["payments"][k] IN
      /\ f.action = "SUBMIT" /\ f.kind = "SINGLE_USE" /\ current[f.id] = f.ver
      /\ \A j \in Applied("instructions") : ~Releases(log["instructions"][j], f.id, f.inst)
      => <<f.id, f.inst>> \in consumed

(* The applied events filed under version v of i. *)
FiledUnder(i, v) ==
  {e \in {log["instruction_security_events"][k] :
            k \in Applied("instruction_security_events")} : e.id = i /\ e.ver = v}

(* Two rows between which conflict_query has to find a conflict: both are  *)
(* CURRENT and active, and they share account and currency.                *)
Conflicting(f, g) ==
  /\ f.id # g.id /\ current[f.id] = f.ver /\ current[g.id] = g.ver
  /\ f.account = g.account /\ f.terms = g.terms /\ {f.status, g.status} \subseteq Active

Linked(f, g) == {<<f.id, g.id>>, <<g.id, f.id>>} \subseteq conflicts

(* No event filed under the version of f says that it is not active, or of *)
(* another currency: upsert merges what events say into the version node.  *)
Undisputed(f) ==
  \A e \in FiledUnder(f.id, f.ver) : e.status \in Active /\ e.terms = f.terms

(* Two instructions of one line of business that conflict are linked,      *)
(* although conflict_query does not see what other transactions have not   *)
(* committed: the lock on their ProfitCenter node lets only one of them at *)
(* a time become CURRENT.  Across lines of business nothing keeps a        *)
(* consumer and a replay from missing each other; but then, and only then, *)
(* a conflict may go unlinked: if their queries crossed, each running      *)
(* before the other's commit.  Whatever else was late, repeated or         *)
(* replayed, and whatever other versions the events were about.            *)
ConflictsFound ==
  \A j, k \in Applied("instructions") :
    LET f == log["instructions"][j]
        g == log["instructions"][k] IN
      /\ Conflicting(f, g) /\ Undisputed(f) /\ Undisputed(g)
      /\ f.lob = g.lob \/ {j, k} \notin crossed
      => Linked(f, g)

(* Once its fact has been applied, a version node shows the row of that    *)
(* number, whichever events are merged into it before or after; what an    *)
(* event filed under it says instead (a refused edit carries the edited    *)
(* body) never reaches the account.                                        *)
VersionsAsRecorded ==
  \A k \in Applied("instructions") :
    LET f == log["instructions"][k]
        n == node[f.id][f.ver] IN
      /\ n # Null /\ n.account = f.account
      /\ \E x \in {f} \cup FiledUnder(f.id, f.ver) : n.status = x.status /\ n.terms = x.terms

(* Everything has been delivered and nothing is left to replay. *)
Quiet ==
  /\ \A t \in Topic : offset[t] = Len(log[t])
  /\ parked = {} /\ \A w \in Worker : job[w] = Null

(* "Deleted on RELEASE_USE": when everything is delivered, no payment that *)
(* released its instruction is shown as consuming it.                      *)
ReleasedIsNotConsumed ==
  Quiet => \A k \in Applied("instructions"), p \in Payment, i \in Instruction :
             Releases(log["instructions"][k], p, i) => <<p, i>> \notin consumed

-----------------------------------------------------------------------------
(* Invariants behind the invariants. *)

(* Consumers work on their own topics. *)
OwnTopics == \A t \in Topic : job[t] # Null => job[t].topic = t

(* Between the offsets, the queue and the graph nothing is lost: what a    *)
(* consumer has left behind was applied or is parked, it works on the next *)
(* message, and who calls a message written has applied it.                *)
NothingLost ==
  /\ \A t \in Topic : \A k \in 1..offset[t] : <<t, k>> \in applied \cup parked
  /\ \A t \in Topic : job[t] # Null => job[t].k = offset[t] + 1
  /\ \A w \in Worker :
       job[w] # Null /\ job[w].stage = "written" => <<job[w].topic, job[w].k>> \in applied

(* Transactions that exclude each other are never open together.           *)
LocksHeld ==
  \A w, x \in Worker :
    w # x /\ InTransaction(w) /\ InTransaction(x) => ~Excludes(Message(w), Message(x))

(* Two that have both run conflict_query have crossed; within one line of  *)
(* business one of them does not move CURRENT.                             *)
CrossingsKnown ==
  /\ \A w, x \in Worker :
       w # x /\ AtStage(w, "instructions", "matched") /\ AtStage(x, "instructions", "matched")
         => {job[w].k, job[x].k} \in crossed
  /\ \A j, k \in 1..Len(log["instructions"]) :
       LET f == log["instructions"][j]
           g == log["instructions"][k] IN
         {j, k} \in crossed /\ f.lob = g.lob => ~(Moves(f) /\ Moves(g))

(* A row about to be committed knows the rows it will conflict with.       *)
MatchedKnows ==
  \A w \in Worker, k \in Applied("instructions") :
    LET f == Message(w)
        g == log["instructions"][k] IN
      AtStage(w, "instructions", "matched") =>
        (/\ f.id # g.id /\ Moves(f) /\ current[g.id] = g.ver
         /\ f.account = g.account /\ f.terms = g.terms /\ {f.status, g.status} \subseteq Active
         /\ Undisputed(g)
         => g.id \in job[w].rivals \/ {job[w].k, k} \in crossed)

(* A version node has been brought by a fact or by an event.               *)
NodesBrought ==
  \A i \in Instruction, v \in Version : node[i][v] # Null =>
    \E t \in {"instructions", "instruction_security_events"} :
      \E k \in Applied(t) : log[t][k].id = i /\ log[t][k].ver = v

IInv == TypeOK /\ OwnTopics /\ CurrentIsNewest /\ SubmittedConsumes

(* What ConflictsFound rests on. *)
ConflictsInv ==
  /\ TypeOK /\ OwnTopics /\ CurrentIsNewest /\ VersionsAsRecorded
  /\ LocksHeld /\ CrossingsKnown /\ MatchedKnows /\ ConflictsFound

(* What every answer rests on. *)
AnswersInv ==
  /\ TypeOK /\ OwnTopics /\ CurrentIsNewest /\ VersionsAsRecorded
  /\ NothingLost /\ NodesBrought
=============================================================================
