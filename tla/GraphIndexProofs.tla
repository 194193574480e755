--------------------------- MODULE GraphIndexProofs ---------------------------
(* What the graph shows, for any topics that satisfy LogsAssumption, in        *)
(* whatever order and however often messages come:                             *)
(*   1. CURRENT is the newest open version that has been applied, and never    *)
(*      goes back; a submission that is CURRENT and was not released is shown  *)
(*      as consuming its instruction;                                          *)
(*   2. a version node shows what its row and the events filed under it say;   *)
(*      two rows in conflict, which no event disputes, are linked if they are  *)
(*      of one line of business, whose node the upserts that move CURRENT      *)
(*      lock, or if one's query ran after the other's commit;                  *)
(*   3. no message is lost, so that once all are delivered (Quiet) CURRENT,    *)
(*      the highest version and the root are all the newest row, and every     *)
(*      report of GraphAnswers gives what the collections hold.                *)
EXTENDS GraphAnswers, FiniteSetTheorems, TLAPS

LEMMA LogTyped ==
  ASSUME TypeOK
  PROVE  /\ log \in Log
         /\ log["instructions"] \in Seq(InstructionFact)
         /\ log["payments"] \in Seq(PaymentFact)
         /\ log["instruction_security_events"] \in Seq(InstructionEvent)
         /\ log["payment_security_events"] \in Seq(PaymentEvent)
         /\ \A t \in FactTopic : \A j, k \in 1..Len(log[t]) :
              log[t][j].id = log[t][k].id /\ log[t][j].ver = log[t][k].ver => j = k
<1>1. log \in Logs
  BY DEF TypeOK
<1>2. log \in Log
  BY <1>1, LogsAssumption
<1> QED
  BY <1>1, <1>2, LogsAssumption DEF Log

LEMMA LengthsTyped ==
  ASSUME TypeOK
  PROVE  \A t \in Topic : Len(log[t]) \in Nat
BY LogTyped DEF Topic

(* What a message is depends on its topic alone. *)
LEMMA MessagesTyped ==
  ASSUME TypeOK, NEW t \in Topic, NEW k \in 1..Len(log[t])
  PROVE  /\ t = "instructions" => log[t][k] \in InstructionFact
         /\ t = "payments" => log[t][k] \in PaymentFact
         /\ t = "instruction_security_events" => log[t][k] \in InstructionEvent
         /\ t = "payment_security_events" => log[t][k] \in PaymentEvent
         /\ log[t][k].id \in Entity
<1>1. /\ t = "instructions" => log[t][k] \in InstructionFact
      /\ t = "payments" => log[t][k] \in PaymentFact
      /\ t = "instruction_security_events" => log[t][k] \in InstructionEvent
      /\ t = "payment_security_events" => log[t][k] \in PaymentEvent
  BY LogTyped, LengthsTyped
<1> QED
  BY <1>1 DEF Topic, Entity, InstructionFact, PaymentFact, InstructionEvent, PaymentEvent

LEMMA JobTyped ==
  ASSUME TypeOK, NEW w \in Worker, job[w] # Null
  PROVE  /\ job[w] \in Job
         /\ job[w].topic \in Topic /\ job[w].k \in 1..Len(log[job[w].topic])
BY DEF TypeOK, Job

LEMMA InitTyped == Init => TypeOK
<1> SUFFICES ASSUME Init PROVE TypeOK
  OBVIOUS
<1>1. log \in Log
  BY LogsAssumption DEF Init
<1>2. \A t \in Topic : Len(log[t]) \in Nat
  BY <1>1 DEF Log, Topic
<1> QED
  BY <1>2 DEF Init, TypeOK, Entity

LEMMA StartTyped ==
  ASSUME TypeOK, NEW w \in Worker, NEW t \in Topic, NEW k \in 1..Len(log[t]), Start(w, t, k)
  PROVE  TypeOK'
<1>1. log[t][k].id \in Entity
  BY MessagesTyped
<1>2. k \in Nat \ {0}
  BY LengthsTyped
<1>3. [topic |-> t, k |-> k, stage |-> "read", rivals |-> {},
       seen |-> IF t \in PaymentTopic THEN Null ELSE document[log[t][k].id]] \in Job
  BY <1>1, <1>2 DEF Job, TypeOK
<1>4. job' \in [Worker -> Job \cup {Null}]
  BY <1>3 DEF Start, TypeOK
<1>5. \A x \in Worker : job'[x] # Null => job'[x].k \in 1..Len(log[job'[x].topic])
  BY DEF Start, TypeOK
<1> QED
  BY <1>4, <1>5 DEF Start, TypeOK, graph

(* What the three transactions do to the parts they share. *)
LEMMA WritingTyped ==
  ASSUME TypeOK, NEW w \in Worker, NEW t \in Topic, Writing(w, t)
  PROVE  /\ <<t, job[w].k>> \in Topic \X Nat /\ job[w].k \in 1..Len(log[t])
         /\ Message(w) = log[t][job[w].k]
         /\ job[w] \in Job
         /\ log' = log /\ log' \in Logs
         /\ \A x \in Topic : offset'[x] \in 0..Len(log[x])
         /\ crossed' \subseteq SUBSET (1..Len(log'["instructions"]))
         /\ (parked \cup applied)' \subseteq {m \in Topic \X Nat : m[2] \in 1..Len(log'[m[1]])}
         /\ job' \in [Worker -> Job \cup {Null}]
         /\ \A x \in Worker : job'[x] # Null => job'[x].k \in 1..Len(log'[job'[x].topic])
<1>1. job[w] \in Job /\ job[w].topic = t /\ job[w].k \in 1..Len(log[t])
  BY JobTyped DEF Writing, AtStage
<1>2. <<t, job[w].k>> \in Topic \X Nat
  BY <1>1, LengthsTyped
<1> DEFINE done == [job[w] EXCEPT !.stage = "written", !.rivals = {}]
<1>3. done \in Job
  BY <1>1 DEF Job
<1>4. job' = [job EXCEPT ![w] = done]
  BY DEF Writing
<1>5. job' \in [Worker -> Job \cup {Null}]
  BY <1>3, <1>4 DEF TypeOK
<1>6. \A x \in Worker : job'[x] # Null => job'[x].k \in 1..Len(log[job'[x].topic])
  <2>1. done.k = job[w].k /\ done.topic = job[w].topic
    BY <1>1 DEF Job
  <2> HIDE DEF done
  <2> QED
    BY <1>1, <1>4, <2>1 DEF TypeOK
<1>7. /\ log' = log /\ parked' = parked /\ offset' = offset /\ crossed' = crossed
      /\ applied' = applied \cup {<<t, job[w].k>>}
  BY DEF Writing
<1>8. (parked \cup applied)' \subseteq {m \in Topic \X Nat : m[2] \in 1..Len(log[m[1]])}
  BY <1>1, <1>2, <1>7 DEF TypeOK
<1> QED
  BY <1>1, <1>2, <1>5, <1>6, <1>7, <1>8 DEF Message, TypeOK

LEMMA CurrentTyped ==
  ASSUME TypeOK, NEW f \in InstructionFact \cup PaymentFact, MoveCurrent(f)
  PROVE  current' \in [Entity -> Nat]
<1>1. f.ver \in Nat
  BY DEF InstructionFact, PaymentFact, Version
<1> QED
  BY <1>1 DEF MoveCurrent, Moved, TypeOK

LEMMA WriteInstructionTyped ==
  ASSUME TypeOK, NEW w \in Worker, WriteInstruction(w)
  PROVE  TypeOK'
<1> DEFINE f == Message(w)
           n == [status |-> f.status, terms |-> f.terms, account |-> f.account]
           a == IF job[w].seen = Null THEN Null ELSE job[w].seen.authorization
<1>1. Writing(w, "instructions") /\ "instructions" \in Topic
  BY DEF WriteInstruction, Topic
<1>2. f \in InstructionFact /\ job[w] \in Job
  BY <1>1, WritingTyped, MessagesTyped
<1>3. node' \in [Instruction -> [Version -> Node \cup {Null}]]
  <2>1. f.id \in Instruction /\ f.ver \in Version /\ n \in Node
    BY <1>2 DEF InstructionFact, Node
  <2>2. node' = [node EXCEPT ![f.id][f.ver] = n]
    BY DEF WriteInstruction, Recorded
  <2> HIDE DEF f, n
  <2> QED
    BY <2>1, <2>2 DEF TypeOK
<1>4. current' \in [Entity -> Nat]
  BY <1>2, CurrentTyped DEF WriteInstruction
<1>5. conflicts' \in SUBSET (Instruction \X Instruction)
  BY <1>2 DEF WriteInstruction, TypeOK, Job, InstructionFact
<1>6. consumed' \in SUBSET (Payment \X Instruction)
  BY DEF WriteInstruction, TypeOK
<1>7. document' \in [Entity -> Document \cup {Null}]
  <2>1. f.ver \in Nat \ {0} /\ a \in {Null, "success", "failure"}
    BY <1>2 DEF InstructionFact, Version, Job, Document
  <2>2. [ver |-> f.ver, authorization |-> a] \in Document
    BY <2>1 DEF Document
  <2> QED
    BY <2>2 DEF WriteInstruction, TypeOK
<1> QED
  BY <1>1, <1>3, <1>4, <1>5, <1>6, <1>7, WritingTyped DEF TypeOK

LEMMA WritePaymentTyped ==
  ASSUME TypeOK, NEW w \in Worker, WritePayment(w)
  PROVE  TypeOK'
<1> DEFINE f == Message(w)
<1>1. Writing(w, "payments") /\ "payments" \in Topic
  BY DEF WritePayment, Topic
<1>2. f \in PaymentFact
  BY <1>1, WritingTyped, MessagesTyped
<1>3. current' \in [Entity -> Nat]
  BY <1>2, CurrentTyped DEF WritePayment
<1>4. consumed' \in SUBSET (Payment \X Instruction)
  BY <1>2 DEF WritePayment, TypeOK, PaymentFact
<1>5. document' \in [Entity -> Document \cup {Null}]
  <2>1. [ver |-> f.ver, authorization |-> Null] \in Document
    BY <1>2 DEF Document, PaymentFact
  <2> QED
    BY <2>1 DEF WritePayment, TypeOK
<1>6. node' = node /\ conflicts' = conflicts
  BY DEF WritePayment
<1> QED
  BY <1>1, <1>3, <1>4, <1>5, <1>6, WritingTyped DEF TypeOK

LEMMA WriteEventTyped ==
  ASSUME TypeOK, NEW w \in Worker, WriteEvent(w)
  PROVE  TypeOK'
<1> DEFINE e == Message(w)
<1>1. Writing(w, "instruction_security_events") /\ "instruction_security_events" \in Topic
  BY DEF WriteEvent, Topic
<1>2. e \in InstructionEvent /\ job[w] \in Job
  BY <1>1, WritingTyped, MessagesTyped
<1>3. node' \in [Instruction -> [Version -> Node \cup {Null}]]
  <2>1. e.id \in Instruction /\ e.ver \in Version
    BY <1>2 DEF InstructionEvent
  <2>2. node[e.id][e.ver] \in Node \cup {Null}
    BY <2>1 DEF TypeOK
  <2>3. Merged(node[e.id][e.ver], e) \in Node
    BY <1>2, <2>2 DEF Merged, Node, InstructionEvent
  <2>4. node' = [node EXCEPT ![e.id][e.ver] = Merged(node[e.id][e.ver], e)]
    BY DEF WriteEvent
  <2> HIDE DEF e
  <2> QED
    BY <2>1, <2>3, <2>4 DEF TypeOK
<1>4. document' \in [Entity -> Document \cup {Null}]
  <2>1. CASE e.action = "APPROVE" /\ job[w].seen # Null
    <3>1. job[w].seen \in Document /\ e.outcome \in {"success", "failure"}
      BY <1>2, <2>1 DEF Job, InstructionEvent
    <3>2. [job[w].seen EXCEPT !.authorization = e.outcome] \in Document
      BY <3>1 DEF Document
    <3>3. document' = [document EXCEPT ![e.id] = [job[w].seen EXCEPT !.authorization = e.outcome]]
      BY <2>1 DEF WriteEvent
    <3> QED
      BY <3>2, <3>3 DEF TypeOK
  <2>2. CASE ~(e.action = "APPROVE" /\ job[w].seen # Null)
    BY <2>2 DEF WriteEvent, TypeOK
  <2> QED
    BY <2>1, <2>2
<1>5. current' = current /\ consumed' = consumed /\ conflicts' = conflicts
  BY DEF WriteEvent
<1> QED
  BY <1>1, <1>3, <1>4, <1>5, WritingTyped DEF TypeOK

LEMMA WritePaymentEventTyped ==
  ASSUME TypeOK, NEW w \in Worker, WritePaymentEvent(w)
  PROVE  TypeOK'
<1>1. Writing(w, "payment_security_events") /\ "payment_security_events" \in Topic
  BY DEF WritePaymentEvent, Topic
<1>2. UNCHANGED <<current, node, consumed, conflicts, document>>
  BY DEF WritePaymentEvent, graph
<1> QED
  BY <1>1, <1>2, WritingTyped DEF TypeOK

LEMMA AfterwardsTyped ==
  ASSUME TypeOK, OwnTopics,
         \/ \E w \in Worker : Ack(w) \/ Fail(w)
         \/ \E t \in Topic : Park(t)
         \/ Crash
  PROVE  TypeOK'
<1>1. ASSUME NEW w \in Worker, Ack(w) PROVE TypeOK'
  <2>1. job' \in [Worker -> Job \cup {Null}]
    BY <1>1 DEF Ack, TypeOK
  <2>2. \A t \in Topic : offset'[t] \in 0..Len(log[t])
    <3>1. CASE w \in Topic
      <4>1. job[w].k \in 1..Len(log[w])
        BY <1>1, <3>1, JobTyped DEF Ack, OwnTopics
      <4>2. offset' = [offset EXCEPT ![w] = job[w].k]
        BY <1>1, <3>1 DEF Ack, Committed
      <4> QED
        BY <3>1, <4>1, <4>2, LengthsTyped DEF TypeOK
    <3>2. CASE w \notin Topic
      BY <1>1, <3>2 DEF Ack, TypeOK
    <3> QED
      BY <3>1, <3>2
  <2>3. parked' \subseteq parked
    BY <1>1 DEF Ack
  <2> QED
    BY <1>1, <2>1, <2>2, <2>3 DEF Ack, TypeOK, graph
<1>2. ASSUME NEW w \in Worker, Fail(w) PROVE TypeOK'
  BY <1>2 DEF Fail, TypeOK, graph
<1>3. ASSUME NEW t \in Topic, Park(t) PROVE TypeOK'
  <2>1. t \in Worker /\ job[t].k \in 1..Len(log[t])
    BY <1>3, JobTyped DEF Park, OwnTopics, Worker
  <2>2. offset' = [offset EXCEPT ![t] = job[t].k]
    BY <1>3 DEF Park, Committed
  <2>3. \A x \in Topic : offset'[x] \in 0..Len(log[x])
    BY <2>1, <2>2, LengthsTyped DEF TypeOK
  <2>4. (parked \cup applied)' \subseteq {m \in Topic \X Nat : m[2] \in 1..Len(log[m[1]])}
    BY <1>3, <2>1, LengthsTyped DEF Park, TypeOK
  <2>5. job' \in [Worker -> Job \cup {Null}]
    BY <1>3 DEF Park, TypeOK
  <2> QED
    BY <1>3, <2>3, <2>4, <2>5 DEF Park, TypeOK, graph
<1>4. CASE Crash
  BY <1>4 DEF Crash, TypeOK, graph
<1> QED
  BY <1>1, <1>2, <1>3, <1>4

(* The two statements before the commit change the job and nothing else    *)
(* that a handler reads.                                                   *)
LEMMA StatementKeeps ==
  ASSUME TypeOK, NEW w \in Worker, Upsert(w) \/ FindConflicts(w)
  PROVE  /\ AtStage(w, "instructions", "read") \/ AtStage(w, "instructions", "upserted")
         /\ job' \in [Worker -> Job \cup {Null}]
         /\ job'[w] # Null /\ job'[w].topic = "instructions" /\ job'[w].k = job[w].k
         /\ job[w] # Null /\ job[w].topic = "instructions"
         /\ job'[w].stage = IF Upsert(w) THEN "upserted" ELSE "matched"
         /\ \A x \in Worker : x # w => job'[x] = job[x]
         /\ UNCHANGED <<log, offset, parked, applied, graph>>
         /\ crossed \subseteq crossed'
         /\ \A x \in Worker : Message(x)' = Message(x)
<1>1. PICK s \in {"upserted", "matched"}, R \in SUBSET Instruction :
        /\ job[w] # Null /\ job[w].topic = "instructions"
        /\ job' = [job EXCEPT ![w] = [job[w] EXCEPT !.stage = s, !.rivals = R]]
        /\ s = IF Upsert(w) THEN "upserted" ELSE "matched"
  <2>1. CASE Upsert(w)
    <3>1. job[w] # Null /\ job[w].topic = "instructions" /\ job[w] \in Job
      BY <2>1, JobTyped DEF Upsert, AtStage
    <3>2. job' = [job EXCEPT ![w] = [job[w] EXCEPT !.stage = "upserted"]]
      BY <2>1 DEF Upsert
    <3>3. [job[w] EXCEPT !.stage = "upserted"]
            = [job[w] EXCEPT !.stage = "upserted", !.rivals = job[w].rivals]
      BY <3>1 DEF Job
    <3>4. job[w].rivals \in SUBSET Instruction
      BY <3>1 DEF Job
    <3> QED
      BY <2>1, <3>1, <3>2, <3>3, <3>4
  <2>2. CASE ~Upsert(w)
    <3>1. /\ job[w] # Null /\ job[w].topic = "instructions"
          /\ job' = [job EXCEPT ![w] =
                       [job[w] EXCEPT !.stage = "matched",
                          !.rivals = Rivals(Message(w), Moved(Message(w)), Recorded(Message(w)))]]
      BY <2>2 DEF FindConflicts, AtStage
    <3>2. Rivals(Message(w), Moved(Message(w)), Recorded(Message(w))) \in SUBSET Instruction
      BY DEF Rivals
    <3> QED
      BY <2>2, <3>1, <3>2
  <2> QED
    BY <2>1, <2>2
<1> DEFINE next == [job[w] EXCEPT !.stage = s, !.rivals = R]
<1>2. job[w] \in Job
  BY <1>1, JobTyped
<1>3. /\ next \in Job /\ next # Null /\ next.topic = job[w].topic /\ next.k = job[w].k
      /\ next.stage = s
  BY <1>2, ConstantsAssumption DEF Job
<1> HIDE DEF next
<1>4. job' \in [Worker -> Job \cup {Null}] /\ job'[w] = next
  BY <1>1, <1>3 DEF TypeOK, next
<1>5. \A x \in Worker : x # w => job'[x] = job[x]
  BY <1>1 DEF TypeOK, next
<1>6. UNCHANGED <<log, offset, parked, applied, graph>> /\ crossed \subseteq crossed'
  BY DEF Upsert, FindConflicts
<1>7. \A x \in Worker : Message(x)' = Message(x)
  <2> SUFFICES ASSUME NEW x \in Worker PROVE Message(x)' = Message(x)
    OBVIOUS
  <2>1. job'[x].topic = job[x].topic /\ job'[x].k = job[x].k
    BY <1>3, <1>4, <1>5
  <2> QED
    BY <1>6, <2>1 DEF Message
<1> QED
  BY <1>1, <1>3, <1>4, <1>5, <1>6, <1>7 DEF Upsert, FindConflicts

LEMMA StatementTyped ==
  ASSUME TypeOK, NEW w \in Worker, Upsert(w) \/ FindConflicts(w)
  PROVE  TypeOK'
<1>1. crossed' \subseteq SUBSET (1..Len(log["instructions"]))
  <2>1. \A x \in Worker : AtStage(x, "instructions", "upserted")
                           \/ AtStage(x, "instructions", "matched")
           => job[x].k \in 1..Len(log["instructions"])
    BY JobTyped DEF AtStage
  <2>2. CASE Upsert(w)
    BY <2>2 DEF Upsert, TypeOK
  <2>3. CASE FindConflicts(w)
    BY <2>1, <2>3 DEF FindConflicts, TypeOK
  <2> QED
    BY <2>2, <2>3
<1>2. \A x \in Worker : job'[x] # Null => job'[x].k \in 1..Len(log[job'[x].topic])
  BY StatementKeeps DEF TypeOK
<1> QED
  BY <1>1, <1>2, StatementKeeps DEF TypeOK, graph

(* Next, sorted by what a step does. *)
LEMMA Steps ==
  ASSUME TypeOK, Next
  PROVE  \/ \E w \in Worker, t \in Topic : \E k \in 1..Len(log[t]) :
              Start(w, t, k) /\ (w \in Topic => w = t)
         \/ \E w \in Worker : Upsert(w) \/ FindConflicts(w)
         \/ \E w \in Worker : \/ WriteInstruction(w) \/ WritePayment(w)
                              \/ WriteEvent(w) \/ WritePaymentEvent(w)
         \/ \E w \in Worker : Ack(w) \/ Fail(w)
         \/ \E t \in Topic : Park(t)
         \/ Crash
<1>1. ASSUME NEW t \in Topic, Consume(t)
      PROVE  t \in Worker /\ \E k \in 1..Len(log[t]) : Start(t, t, k)
  BY <1>1, LengthsTyped DEF Consume, Worker, TypeOK
<1>2. ASSUME NEW r \in Replayer, Replay(r)
      PROVE  /\ r \in Worker /\ r \notin Topic
             /\ \E t \in Topic : \E k \in 1..Len(log[t]) : Start(r, t, k)
  <2>1. PICK m \in parked : Start(r, m[1], m[2])
    BY <1>2 DEF Replay
  <2>2. m[1] \in Topic /\ m[2] \in 1..Len(log[m[1]])
    BY DEF TypeOK
  <2> QED
    BY <2>1, <2>2, ConstantsAssumption DEF Worker
<1> QED
  BY <1>1, <1>2 DEF Next

LEMMA NextTyped ==
  ASSUME TypeOK, OwnTopics, [Next]_vars
  PROVE  TypeOK' /\ OwnTopics'
<1>1. CASE UNCHANGED vars
  BY <1>1 DEF vars, graph, TypeOK, OwnTopics
<1>2. CASE Next
  <2>1. ASSUME NEW w \in Worker, NEW t \in Topic, NEW k \in 1..Len(log[t]),
               Start(w, t, k), w \in Topic => w = t
        PROVE  TypeOK' /\ OwnTopics'
    BY <2>1, StartTyped DEF Start, OwnTopics, TypeOK, Worker
  <2>2. ASSUME NEW w \in Worker,
               \/ WriteInstruction(w) \/ WritePayment(w)
               \/ WriteEvent(w) \/ WritePaymentEvent(w)
        PROVE  TypeOK' /\ OwnTopics'
    <3>1. TypeOK'
      BY <2>2, WriteInstructionTyped, WritePaymentTyped, WriteEventTyped,
         WritePaymentEventTyped
    <3>2. PICK t \in Topic : Writing(w, t)
      BY <2>2 DEF WriteInstruction, WritePayment, WriteEvent, WritePaymentEvent, Topic
    <3> DEFINE done == [job[w] EXCEPT !.stage = "written", !.rivals = {}]
    <3>3. job[w] \in Job /\ job' = [job EXCEPT ![w] = done]
      BY <3>2, JobTyped DEF Writing, AtStage
    <3>4. done.topic = job[w].topic /\ job[w] # Null
      BY <3>2, <3>3 DEF Writing, AtStage, Job
    <3> HIDE DEF done
    <3> QED
      BY <3>1, <3>3, <3>4 DEF OwnTopics, TypeOK, Worker
  <2>3. ASSUME \/ \E w \in Worker : Ack(w) \/ Fail(w)
               \/ \E t \in Topic : Park(t)
               \/ Crash
        PROVE  TypeOK' /\ OwnTopics'
    <3>1. TypeOK'
      BY <2>3, AfterwardsTyped
    <3>2. \A x \in Worker : job'[x] = job[x] \/ job'[x] = Null
      BY <2>3 DEF Ack, Fail, Park, Crash, TypeOK, Worker
    <3> QED
      BY <3>1, <3>2 DEF OwnTopics, Worker
  <2>4. ASSUME NEW w \in Worker, Upsert(w) \/ FindConflicts(w)
        PROVE  TypeOK' /\ OwnTopics'
    <3>1. TypeOK'
      BY <2>4, StatementTyped
    <3> QED
      BY <2>4, <3>1, StatementKeeps DEF OwnTopics, Worker
  <2> QED
    BY <1>2, <2>1, <2>2, <2>3, <2>4, Steps
<1> QED
  BY <1>1, <1>2

(* Every variable keeps its kind, and no offset leaves its topic. *)
THEOREM TypeCorrect == Spec => []TypeOK
<1>1. Init => TypeOK /\ OwnTopics
  BY InitTyped DEF Init, OwnTopics, Worker
<1>2. TypeOK /\ OwnTopics /\ [Next]_vars => TypeOK' /\ OwnTopics'
  BY NextTyped
<1> QED
  BY <1>1, <1>2, PTL DEF Spec

-----------------------------------------------------------------------------
(* CURRENT *)

(* The number of a fact is a positive one. *)
LEMMA FactsTyped ==
  ASSUME TypeOK, NEW t \in FactTopic, NEW k \in 1..Len(log[t])
  PROVE  /\ log[t][k].id \in Entity /\ log[t][k].ver \in Nat \ {0}
         /\ log[t][k].open \in BOOLEAN
<1>1. t \in Topic
  BY DEF FactTopic, Topic
<1>2. log[t][k] \in InstructionFact \cup PaymentFact
  BY <1>1, MessagesTyped DEF FactTopic
<1> QED
  BY <1>2 DEF InstructionFact, PaymentFact, Version, Entity

(* A version came open when an open fact of that number was applied. *)
LEMMA OpenVersionsAre ==
  ASSUME NEW e, NEW v
  PROVE  v \in OpenVersions(e) <=>
           \E t \in FactTopic : \E k \in 1..Len(log[t]) :
             /\ <<t, k>> \in applied /\ log[t][k].id = e /\ log[t][k].open
             /\ log[t][k].ver = v
BY DEF OpenVersions, Applied

LEMMA OpenVersionComes ==
  ASSUME NEW e, NEW v \in OpenVersions(e)
  PROVE  \E t \in FactTopic : \E k \in 1..Len(log[t]) :
           /\ <<t, k>> \in applied /\ log[t][k].id = e /\ log[t][k].open
           /\ log[t][k].ver = v
BY DEF OpenVersions, Applied

LEMMA MoveKeepsNewest ==
  ASSUME TypeOK, TypeOK', CurrentIsNewest,
         NEW t \in FactTopic, NEW k \in 1..Len(log[t]), MoveCurrent(log[t][k]),
         log' = log, applied' = applied \cup {<<t, k>>}
  PROVE  CurrentIsNewest'
<1> DEFINE f == log[t][k]
<1>1. f.id \in Entity /\ f.ver \in Nat \ {0} /\ f.open \in BOOLEAN
  BY FactsTyped
<1> SUFFICES ASSUME NEW e \in Entity
             PROVE  /\ current'[e] # 0 => current'[e] \in OpenVersions(e)'
                    /\ \A v \in OpenVersions(e)' : v <= current'[e]
  BY DEF CurrentIsNewest
<1>2. /\ current[e] # 0 => current[e] \in OpenVersions(e)
      /\ \A v \in OpenVersions(e) : v <= current[e]
      /\ current[e] \in Nat /\ current \in [Entity -> Nat]
  BY DEF CurrentIsNewest, TypeOK
<1>3. \A v : v \in OpenVersions(e)' <=>
               v \in OpenVersions(e) \/ (f.id = e /\ f.open /\ v = f.ver)
  <2> SUFFICES ASSUME NEW v
               PROVE  v \in OpenVersions(e)' <=>
                        v \in OpenVersions(e) \/ (f.id = e /\ f.open /\ v = f.ver)
    OBVIOUS
  <2>1. v \in OpenVersions(e)' <=>
           \E u \in FactTopic : \E j \in 1..Len(log[u]) :
             /\ <<u, j>> \in applied' /\ log[u][j].id = e /\ log[u][j].open
             /\ log[u][j].ver = v
    <3>1. OpenVersions(e)' =
            UNION {{log[u][j].ver :
                      j \in {i \in {h \in 1..Len(log[u]) : <<u, h>> \in applied'} :
                              log[u][i].id = e /\ log[u][i].open}} : u \in FactTopic}
      BY DEF OpenVersions, Applied
    <3> QED
      BY <3>1
  <2>2. \A u \in FactTopic : \A j \in 1..Len(log[u]) :
          <<u, j>> \in applied' <=> <<u, j>> \in applied \/ (u = t /\ j = k)
    OBVIOUS
  <2>3. v \in OpenVersions(e) <=>
           \E u \in FactTopic : \E j \in 1..Len(log[u]) :
             /\ <<u, j>> \in applied /\ log[u][j].id = e /\ log[u][j].open
             /\ log[u][j].ver = v
    BY OpenVersionsAre
  <2>4. ASSUME v \in OpenVersions(e)'
        PROVE  v \in OpenVersions(e) \/ (f.id = e /\ f.open /\ v = f.ver)
    BY <2>1, <2>2, <2>3, <2>4
  <2>5. ASSUME v \in OpenVersions(e) PROVE v \in OpenVersions(e)'
    BY <2>1, <2>2, <2>3, <2>5
  <2>6. ASSUME f.id = e, f.open, v = f.ver PROVE v \in OpenVersions(e)'
    BY <2>1, <2>2, <2>6
  <2> QED
    BY <2>4, <2>5, <2>6
<1>4. CASE f.id = e /\ f.open
  <2>1. CASE Moves(f)
    <3>1. current'[e] = f.ver
      BY <1>1, <1>2, <1>4, <2>1 DEF MoveCurrent, Moved
    <3>2. current[e] = 0 \/ f.ver >= current[e]
      BY <1>4, <2>1 DEF Moves
    <3>3. \A v \in OpenVersions(e) : v \in Nat \ {0}
      <4> SUFFICES ASSUME NEW v \in OpenVersions(e) PROVE v \in Nat \ {0}
        OBVIOUS
      <4>1. \E u \in FactTopic : \E j \in 1..Len(log[u]) :
              /\ <<u, j>> \in applied /\ log[u][j].id = e /\ log[u][j].open
              /\ log[u][j].ver = v
        BY OpenVersionsAre
      <4>2. PICK u \in FactTopic : \E j \in 1..Len(log[u]) : log[u][j].ver = v
        BY <4>1
      <4>3. PICK j \in 1..Len(log[u]) : log[u][j].ver = v
        BY <4>2
      <4>4. log[u][j].ver \in Nat \ {0}
        BY <4>2, <4>3, FactsTyped
      <4> QED
        BY <4>3, <4>4
    <3> QED
      BY <1>1, <1>2, <1>3, <1>4, <3>1, <3>2, <3>3
  <2>2. CASE ~Moves(f)
    <3>1. current'[e] = current[e]
      BY <2>2 DEF MoveCurrent, Moved
    <3>2. current[e] # 0 /\ f.ver < current[e]
      BY <1>1, <1>2, <1>4, <2>2 DEF Moves
    <3> QED
      BY <1>1, <1>2, <1>3, <3>1, <3>2
  <2> QED
    BY <2>1, <2>2
<1>5. CASE ~(f.id = e /\ f.open)
  <2>1. current'[e] = current[e]
    BY <1>1, <1>2, <1>5 DEF MoveCurrent, Moved, Moves
  <2> QED
    BY <1>2, <1>3, <1>5, <2>1
<1> QED
  BY <1>4, <1>5

(* CURRENT and what it is compared with change together, in the two        *)
(* transactions of facts.                                                  *)
LEMMA NextNewest ==
  ASSUME TypeOK, OwnTopics, CurrentIsNewest, [Next]_vars
  PROVE  CurrentIsNewest'
<1>0. TypeOK'
  BY NextTyped
<1>1. ASSUME NEW w \in Worker, NEW t \in FactTopic, Writing(w, t), MoveCurrent(Message(w))
      PROVE  CurrentIsNewest'
  <2>1. /\ t \in Topic /\ job[w].k \in 1..Len(log[t]) /\ Message(w) = log[t][job[w].k]
        /\ log' = log /\ applied' = applied \cup {<<t, job[w].k>>}
    BY <1>1, WritingTyped DEF Writing, FactTopic, Topic
  <2> QED
    BY <1>0, <1>1, <2>1, MoveKeepsNewest
<1>2. ASSUME NEW w \in Worker, WriteInstruction(w) PROVE CurrentIsNewest'
  BY <1>1, <1>2 DEF WriteInstruction, FactTopic
<1>3. ASSUME NEW w \in Worker, WritePayment(w) PROVE CurrentIsNewest'
  BY <1>1, <1>3 DEF WritePayment, FactTopic
<1>4. ASSUME NEW w \in Worker, WriteEvent(w) \/ WritePaymentEvent(w)
      PROVE  CurrentIsNewest'
  <2>1. log' = log /\ current' = current
    BY <1>4 DEF WriteEvent, WritePaymentEvent, Writing, graph
  <2>2. \A t \in FactTopic : \A k : <<t, k>> \in applied' <=> <<t, k>> \in applied
    BY <1>4 DEF WriteEvent, WritePaymentEvent, Writing, FactTopic
  <2>3. \A t \in FactTopic : Applied(t)' = Applied(t)
    BY <2>1, <2>2 DEF Applied
  <2>4. \A e \in Entity : OpenVersions(e)' = OpenVersions(e)
    BY <2>1, <2>3 DEF OpenVersions
  <2> QED
    BY <2>1, <2>4 DEF CurrentIsNewest
<1>5. ASSUME UNCHANGED <<log, applied, current>> PROVE CurrentIsNewest'
  <2>1. \A t \in FactTopic : Applied(t)' = Applied(t)
    BY <1>5 DEF Applied
  <2>2. \A e \in Entity : OpenVersions(e)' = OpenVersions(e)
    BY <1>5, <2>1 DEF OpenVersions
  <2> QED
    BY <1>5, <2>2 DEF CurrentIsNewest
<1>6. CASE UNCHANGED vars
  BY <1>5, <1>6 DEF vars, graph
<1>7. ASSUME NEW w \in Worker, NEW t \in Topic, NEW k \in 1..Len(log[t]), Start(w, t, k)
      PROVE  CurrentIsNewest'
  BY <1>5, <1>7 DEF Start, graph
<1>8. CASE \/ \E w \in Worker : Upsert(w) \/ FindConflicts(w) \/ Ack(w) \/ Fail(w)
           \/ \E t \in Topic : Park(t)
           \/ Crash
  BY <1>5, <1>8 DEF Upsert, FindConflicts, Ack, Fail, Park, Crash, graph
<1> QED
  BY <1>2, <1>3, <1>4, <1>6, <1>7, <1>8, Steps

(* The CURRENT edge never goes back, whichever messages come late or again.*)
THEOREM CurrentStaysNewest == Spec => []CurrentIsNewest
<1>1. Init => TypeOK /\ OwnTopics /\ CurrentIsNewest
  <2> SUFFICES ASSUME Init PROVE TypeOK /\ OwnTopics /\ CurrentIsNewest
    OBVIOUS
  <2>1. TypeOK /\ OwnTopics
    BY InitTyped DEF Init, OwnTopics, Worker
  <2>2. applied = {} /\ \A e \in Entity : current[e] = 0
    BY DEF Init
  <2>3. \A e \in Entity : OpenVersions(e) = {}
    BY <2>2, OpenVersionsAre
  <2> QED
    BY <2>1, <2>2, <2>3 DEF CurrentIsNewest
<1>2. TypeOK /\ OwnTopics /\ CurrentIsNewest /\ [Next]_vars
        => TypeOK' /\ OwnTopics' /\ CurrentIsNewest'
  BY NextTyped, NextNewest
<1> QED
  BY <1>1, <1>2, PTL DEF Spec

LEMMA MoveGoesForward ==
  ASSUME TypeOK, NEW f \in InstructionFact \cup PaymentFact, MoveCurrent(f)
  PROVE  \A e \in Entity : current'[e] >= current[e]
<1>1. f.ver \in Nat /\ current \in [Entity -> Nat]
  BY DEF InstructionFact, PaymentFact, Version, TypeOK
<1>2. CASE Moves(f)
  <2>1. current' = [current EXCEPT ![f.id] = f.ver]
    BY <1>2 DEF MoveCurrent, Moved
  <2>2. current[f.id] = 0 \/ f.ver >= current[f.id]
    BY <1>2 DEF Moves
  <2> QED
    BY <1>1, <2>1, <2>2
<1>3. CASE ~Moves(f)
  BY <1>1, <1>3 DEF MoveCurrent, Moved
<1> QED
  BY <1>2, <1>3

LEMMA NextGoesForward ==
  ASSUME TypeOK, Next
  PROVE  \A e \in Entity : current'[e] >= current[e]
<1>1. ASSUME NEW w \in Worker, WriteInstruction(w)
      PROVE  \A e \in Entity : current'[e] >= current[e]
  <2>1. Writing(w, "instructions") /\ "instructions" \in Topic
    BY <1>1 DEF WriteInstruction, Topic
  <2>2. Message(w) \in InstructionFact /\ MoveCurrent(Message(w))
    BY <1>1, <2>1, WritingTyped, MessagesTyped DEF WriteInstruction
  <2> QED
    BY <2>2, MoveGoesForward
<1>2. ASSUME NEW w \in Worker, WritePayment(w)
      PROVE  \A e \in Entity : current'[e] >= current[e]
  <2>1. Writing(w, "payments") /\ "payments" \in Topic
    BY <1>2 DEF WritePayment, Topic
  <2>2. Message(w) \in PaymentFact /\ MoveCurrent(Message(w))
    BY <1>2, <2>1, WritingTyped, MessagesTyped DEF WritePayment
  <2> QED
    BY <2>2, MoveGoesForward
<1>3. ASSUME current' = current PROVE \A e \in Entity : current'[e] >= current[e]
  BY <1>3 DEF TypeOK
<1>4. ASSUME NEW w \in Worker,
             \/ Upsert(w) \/ FindConflicts(w)
             \/ WriteEvent(w) \/ WritePaymentEvent(w) \/ Ack(w) \/ Fail(w)
      PROVE  current' = current
  BY <1>4 DEF Upsert, FindConflicts, WriteEvent, WritePaymentEvent, Ack, Fail, graph
<1>5. ASSUME \/ \E w \in Worker, t \in Topic : \E k \in 1..Len(log[t]) : Start(w, t, k)
             \/ \E t \in Topic : Park(t)
             \/ Crash
      PROVE  current' = current
  BY <1>5 DEF Start, Park, Crash, graph
<1> QED
  BY <1>1, <1>2, <1>3, <1>4, <1>5, Steps

(* CURRENT only ever goes forward: no reader is taken back by a message    *)
(* that comes late, or again.                                              *)
THEOREM ReadsAreMonotonic == Spec => MonotonicReads
<1>1. Init => TypeOK /\ OwnTopics
  BY InitTyped DEF Init, OwnTopics, Worker
<1>2. TypeOK /\ OwnTopics /\ [Next]_vars => TypeOK' /\ OwnTopics'
  BY NextTyped
<1>3. TypeOK /\ [Next]_vars => [\A e \in Entity : current'[e] >= current[e]]_vars
  BY NextGoesForward
<1> QED
  BY <1>1, <1>2, <1>3, PTL DEF Spec, MonotonicReads

-----------------------------------------------------------------------------
(* CONSUMED *)

(* The row that CURRENT points to has been applied, and is open.  This is  *)
(* where numbers have to be unique.                                        *)
LEMMA CurrentRow ==
  ASSUME TypeOK, CurrentIsNewest, NEW t \in FactTopic, NEW k \in 1..Len(log[t]),
         current[log[t][k].id] = log[t][k].ver
  PROVE  log[t][k].open /\ k \in Applied(t)
<1> DEFINE f == log[t][k]
<1>1. t \in Topic /\ f.id \in Entity /\ f.ver \in Nat \ {0}
  BY FactsTyped DEF FactTopic, Topic
<1>2. f.ver \in OpenVersions(f.id)
  BY <1>1 DEF CurrentIsNewest
<1>3. \E u \in FactTopic : \E j \in 1..Len(log[u]) :
        /\ <<u, j>> \in applied /\ log[u][j].id = f.id /\ log[u][j].open
        /\ log[u][j].ver = f.ver
  <2> HIDE DEF f
  <2> QED
    BY <1>2, OpenVersionComes
<1>4. PICK u \in FactTopic : \E j \in 1..Len(log[u]) :
        /\ <<u, j>> \in applied /\ log[u][j].id = f.id /\ log[u][j].open
        /\ log[u][j].ver = f.ver
  BY <1>3
<1>5. PICK j \in 1..Len(log[u]) :
        /\ <<u, j>> \in applied /\ log[u][j].id = f.id /\ log[u][j].open
        /\ log[u][j].ver = f.ver
  BY <1>4
<1>6. u = t
  <2>1. \A x \in FactTopic : \A n \in 1..Len(log[x]) :
          /\ x = "instructions" => log[x][n].id \in Instruction
          /\ x = "payments" => log[x][n].id \in Payment
    BY MessagesTyped DEF FactTopic, Topic, InstructionFact, PaymentFact
  <2> QED
    BY <1>4, <1>5, <2>1, ConstantsAssumption DEF FactTopic
<1>7. j = k
  BY <1>5, <1>6, LogTyped
<1> QED
  BY <1>5, <1>6, <1>7 DEF Applied

LEMMA PaymentKeepsConsumes ==
  ASSUME TypeOK, CurrentIsNewest, SubmittedConsumes, NEW w \in Worker, WritePayment(w)
  PROVE  SubmittedConsumes'
<1> DEFINE m == job[w].k
           g == log["payments"][m]
<1>1. /\ "payments" \in Topic /\ "payments" \in FactTopic /\ Writing(w, "payments")
  BY DEF WritePayment, Topic, FactTopic
<1>2. m \in 1..Len(log["payments"]) /\ Message(w) = g /\ log' = log
  BY <1>1, WritingTyped
<1>3. applied' = applied \cup {<<"payments", m>>}
  BY <1>1 DEF Writing
<1>4. /\ Applied("payments")' = Applied("payments") \cup {m}
      /\ Applied("instructions")' = Applied("instructions")
  BY <1>2, <1>3 DEF Applied
<1>5. /\ current' = IF Moves(g) THEN [current EXCEPT ![g.id] = g.ver] ELSE current
      /\ consumed' = IF Consumes(g) THEN consumed \cup {<<g.id, g.inst>>} ELSE consumed
  BY <1>2 DEF WritePayment, MoveCurrent, Moved
<1> SUFFICES ASSUME NEW k \in Applied("payments")',
                    LET f == log["payments"][k] IN
                      /\ f.action = "SUBMIT" /\ f.kind = "SINGLE_USE"
                      /\ current'[f.id] = f.ver
                      /\ \A j \in Applied("instructions") :
                           ~Releases(log["instructions"][j], f.id, f.inst)
             PROVE  <<log["payments"][k].id, log["payments"][k].inst>> \in consumed'
  BY <1>2, <1>4 DEF SubmittedConsumes, Releases
<1> DEFINE f == log["payments"][k]
<1>6. k \in 1..Len(log["payments"])
  BY <1>2, <1>4 DEF Applied
<1>7. f.id \in Entity /\ g.id \in Entity /\ f.ver \in Nat \ {0}
  BY <1>1, <1>2, <1>6, FactsTyped
<1>8. CASE k = m
  <2>1. CASE Moves(f)
    BY <1>5, <1>8, <2>1 DEF Consumes
  <2>2. CASE ~Moves(f)
    <3>1. current[f.id] = f.ver
      BY <1>5, <1>8, <2>2
    <3>2. f.open
      BY <1>1, <1>6, <3>1, CurrentRow
    <3> QED
      BY <1>7, <2>2, <3>1, <3>2 DEF Moves
  <2> QED
    BY <2>1, <2>2
<1>9. CASE k # m
  <2>1. k \in Applied("payments")
    BY <1>4, <1>9
  <2>2. ~(g.id = f.id /\ g.ver = f.ver)
    BY <1>1, <1>2, <1>6, <1>9, LogTyped
  <2>3. current[f.id] = f.ver
    BY <1>5, <1>7, <2>2 DEF TypeOK
  <2>4. <<f.id, f.inst>> \in consumed
    BY <2>1, <2>3 DEF SubmittedConsumes
  <2> QED
    BY <1>5, <2>4
<1> QED
  BY <1>8, <1>9

LEMMA InstructionKeepsConsumes ==
  ASSUME TypeOK, SubmittedConsumes, NEW w \in Worker, WriteInstruction(w)
  PROVE  SubmittedConsumes'
<1> DEFINE m == job[w].k
           h == log["instructions"][m]
<1>1. /\ "instructions" \in Topic /\ "payments" \in Topic /\ Writing(w, "instructions")
  BY DEF WriteInstruction, Topic
<1>2. m \in 1..Len(log["instructions"]) /\ Message(w) = h /\ log' = log
  BY <1>1, WritingTyped
<1>3. applied' = applied \cup {<<"instructions", m>>}
  BY <1>1 DEF Writing
<1>4. /\ Applied("payments")' = Applied("payments")
      /\ Applied("instructions")' = Applied("instructions") \cup {m}
  BY <1>2, <1>3 DEF Applied
<1>5. /\ current' = IF Moves(h) THEN [current EXCEPT ![h.id] = h.ver] ELSE current
      /\ consumed' = consumed \ Released(h)
  BY <1>2 DEF WriteInstruction, MoveCurrent, Moved
<1> SUFFICES ASSUME NEW k \in Applied("payments"),
                    LET f == log["payments"][k] IN
                      /\ f.action = "SUBMIT" /\ f.kind = "SINGLE_USE"
                      /\ current'[f.id] = f.ver
                      /\ \A j \in Applied("instructions") \cup {m} :
                           ~Releases(log["instructions"][j], f.id, f.inst)
             PROVE  <<log["payments"][k].id, log["payments"][k].inst>> \in consumed'
  BY <1>2, <1>4 DEF SubmittedConsumes, Releases
<1> DEFINE f == log["payments"][k]
<1>6. k \in 1..Len(log["payments"])
  BY DEF Applied
<1>7. f \in PaymentFact /\ h \in InstructionFact
  BY <1>1, <1>2, <1>6, MessagesTyped
<1>8. f.id # h.id /\ f.id \in Entity
  BY <1>7, ConstantsAssumption DEF PaymentFact, InstructionFact, Entity
<1>9. current[f.id] = f.ver
  BY <1>5, <1>8 DEF TypeOK
<1>10. <<f.id, f.inst>> \in consumed
  BY <1>9 DEF SubmittedConsumes
<1>11. <<f.id, f.inst>> \notin Released(h)
  BY DEF Released, Releases
<1> QED
  BY <1>5, <1>10, <1>11

LEMMA NextConsumes ==
  ASSUME TypeOK, CurrentIsNewest, SubmittedConsumes, [Next]_vars
  PROVE  SubmittedConsumes'
<1>1. ASSUME log' = log, current' = current, consumed' = consumed,
             \A t \in FactTopic : Applied(t)' = Applied(t)
      PROVE  SubmittedConsumes'
  BY <1>1 DEF SubmittedConsumes, Releases, FactTopic
<1>2. ASSUME UNCHANGED <<log, applied, graph>> PROVE SubmittedConsumes'
  BY <1>1, <1>2 DEF graph, Applied
<1>3. ASSUME NEW w \in Worker, WriteEvent(w) \/ WritePaymentEvent(w)
      PROVE  SubmittedConsumes'
  <2>1. log' = log /\ \A t \in FactTopic : \A k : <<t, k>> \in applied' <=> <<t, k>> \in applied
    BY <1>3 DEF WriteEvent, WritePaymentEvent, Writing, FactTopic
  <2>2. \A t \in FactTopic : Applied(t)' = Applied(t)
    BY <2>1 DEF Applied
  <2> QED
    BY <1>1, <1>3, <2>1, <2>2 DEF WriteEvent, WritePaymentEvent, graph
<1>4. CASE UNCHANGED vars
  BY <1>2, <1>4 DEF vars, graph
<1>5. ASSUME NEW w \in Worker, NEW t \in Topic, NEW k \in 1..Len(log[t]), Start(w, t, k)
      PROVE  SubmittedConsumes'
  BY <1>2, <1>5 DEF Start, graph
<1>6. CASE \/ \E w \in Worker : Upsert(w) \/ FindConflicts(w) \/ Ack(w) \/ Fail(w)
           \/ \E t \in Topic : Park(t)
           \/ Crash
  BY <1>2, <1>6 DEF Upsert, FindConflicts, Ack, Fail, Park, Crash, graph
<1> QED
  BY <1>3, <1>4, <1>5, <1>6, Steps, PaymentKeepsConsumes, InstructionKeepsConsumes

(* A submission that is CURRENT and was not released is shown as consuming *)
(* its instruction, through all that the other topic brings meanwhile.     *)
THEOREM SubmissionsConsume == Spec => []SubmittedConsumes
<1>1. Init => IInv
  <2> SUFFICES ASSUME Init PROVE IInv
    OBVIOUS
  <2>1. TypeOK /\ OwnTopics
    BY InitTyped DEF Init, OwnTopics, Worker
  <2>2. applied = {} /\ \A e \in Entity : current[e] = 0
    BY DEF Init
  <2>3. CurrentIsNewest
    BY <2>2, OpenVersionsAre DEF CurrentIsNewest
  <2>4. SubmittedConsumes
    BY <2>2 DEF SubmittedConsumes, Applied
  <2> QED
    BY <2>1, <2>3, <2>4 DEF IInv
<1>2. IInv /\ [Next]_vars => IInv'
  BY NextTyped, NextNewest, NextConsumes DEF IInv
<1>3. IInv => SubmittedConsumes
  BY DEF IInv
<1> QED
  BY <1>1, <1>2, <1>3, PTL DEF Spec

-----------------------------------------------------------------------------
(* Version nodes *)


(* A row comes whole, and its number is that of no other row; what was     *)
(* said of the other version nodes is still true.                          *)
LEMMA InstructionKeepsRecord ==
  ASSUME TypeOK, VersionsAsRecorded, NEW w \in Worker, WriteInstruction(w)
  PROVE  VersionsAsRecorded'
<1> DEFINE m == job[w].k
           g == log["instructions"][m]
           row == [status |-> g.status, terms |-> g.terms, account |-> g.account]
<1>1. /\ "instructions" \in Topic /\ "instructions" \in FactTopic
      /\ Writing(w, "instructions")
  BY DEF WriteInstruction, Topic, FactTopic
<1>2. m \in 1..Len(log["instructions"]) /\ Message(w) = g /\ log' = log
  BY <1>1, WritingTyped
<1>3. applied' = applied \cup {<<"instructions", m>>}
  BY <1>1 DEF Writing
<1>4. /\ Applied("instructions")' = Applied("instructions") \cup {m}
      /\ Applied("instruction_security_events")' = Applied("instruction_security_events")
  BY <1>2, <1>3 DEF Applied
<1>5. \A i, v : FiledUnder(i, v)' = FiledUnder(i, v)
  BY <1>2, <1>4 DEF FiledUnder
<1>6. g \in InstructionFact
  BY <1>1, <1>2, MessagesTyped
<1>7. g.id \in Instruction /\ g.ver \in Version /\ row \in Node /\ row # Null
  BY <1>6, ConstantsAssumption DEF InstructionFact, Node
<1>8. node' = [node EXCEPT ![g.id][g.ver] = row]
  BY <1>2 DEF WriteInstruction, Recorded
<1> SUFFICES ASSUME NEW k \in Applied("instructions")'
             PROVE  LET f == log["instructions"][k]
                        n == node'[f.id][f.ver] IN
                      /\ n # Null /\ n.account = f.account
                      /\ \E x \in {f} \cup FiledUnder(f.id, f.ver) :
                           n.status = x.status /\ n.terms = x.terms
  BY <1>2, <1>5 DEF VersionsAsRecorded
<1> DEFINE f == log["instructions"][k]
<1>9. k \in 1..Len(log["instructions"])
  BY <1>2, <1>4 DEF Applied
<1>10. f \in InstructionFact
  BY <1>1, <1>9, MessagesTyped
<1>11. f.id \in Instruction /\ f.ver \in Version
  BY <1>10 DEF InstructionFact
<1> HIDE DEF row
<1>12. CASE k = m
  <2>1. node'[f.id][f.ver] = row
    BY <1>7, <1>8, <1>12 DEF TypeOK
  <2>2. row.status = f.status /\ row.terms = f.terms /\ row.account = f.account
    BY <1>12 DEF row
  <2> QED
    BY <1>7, <2>1, <2>2
<1>13. CASE k # m
  <2>1. k \in Applied("instructions")
    BY <1>4, <1>13
  <2>2. ~(f.id = g.id /\ f.ver = g.ver)
    BY <1>1, <1>2, <1>9, <1>13, LogTyped
  <2>3. node'[f.id][f.ver] = node[f.id][f.ver]
    BY <1>7, <1>8, <1>11, <2>2 DEF TypeOK
  <2> QED
    BY <2>1, <2>3 DEF VersionsAsRecorded
<1> QED
  BY <1>12, <1>13

(* An event leaves the account of a node that is there, and what it says   *)
(* instead of the row is from then on filed under the version.             *)
LEMMA EventKeepsRecord ==
  ASSUME TypeOK, VersionsAsRecorded, NEW w \in Worker, WriteEvent(w)
  PROVE  VersionsAsRecorded'
<1> DEFINE m == job[w].k
           e == log["instruction_security_events"][m]
<1>1. /\ "instructions" \in Topic /\ "instruction_security_events" \in Topic
      /\ Writing(w, "instruction_security_events")
  BY DEF WriteEvent, Topic
<1>2. m \in 1..Len(log["instruction_security_events"]) /\ Message(w) = e /\ log' = log
  BY <1>1, WritingTyped
<1>3. applied' = applied \cup {<<"instruction_security_events", m>>}
  BY <1>1 DEF Writing
<1>4. /\ Applied("instructions")' = Applied("instructions")
      /\ Applied("instruction_security_events")'
           = Applied("instruction_security_events") \cup {m}
  BY <1>2, <1>3 DEF Applied
<1> DEFINE filed(i, v) == {x \in {e} : x.id = i /\ x.ver = v}
<1>5. \A i, v : FiledUnder(i, v)' = FiledUnder(i, v) \cup filed(i, v)
  <2> DEFINE said(A) == {log["instruction_security_events"][k] : k \in A}
  <2>1. said(Applied("instruction_security_events") \cup {m})
          = said(Applied("instruction_security_events")) \cup {e}
    OBVIOUS
  <2>2. said(Applied("instruction_security_events"))'
          = said(Applied("instruction_security_events")) \cup {e}
    BY <1>2, <1>4, <2>1
  <2> HIDE DEF said
  <2>3. \A i, v : FiledUnder(i, v) =
          {x \in said(Applied("instruction_security_events")) : x.id = i /\ x.ver = v}
    BY DEF FiledUnder, said
  <2>4. \A i, v : FiledUnder(i, v)' =
          {x \in said(Applied("instruction_security_events"))' : x.id = i /\ x.ver = v}
    BY DEF FiledUnder, said
  <2> QED
    BY <2>2, <2>3, <2>4
<1>6. e \in InstructionEvent
  BY <1>1, <1>2, MessagesTyped
<1>7. e.id \in Instruction /\ e.ver \in Version
  BY <1>6 DEF InstructionEvent
<1> DEFINE old == node[e.id][e.ver]
           new == Merged(old, e)
<1>8. node' = [node EXCEPT ![e.id][e.ver] = new]
  BY <1>2 DEF WriteEvent
<1>9. /\ new # Null /\ new.status = e.status /\ new.terms = e.terms
      /\ old # Null => new.account = old.account
  <2>1. old \in Node \cup {Null}
    BY <1>7 DEF TypeOK
  <2>2. new \in Node
    BY <1>6, <2>1 DEF Merged, Node, InstructionEvent
  <2> QED
    BY <2>2, ConstantsAssumption DEF Merged
<1> SUFFICES ASSUME NEW k \in Applied("instructions")
             PROVE  LET f == log["instructions"][k]
                        n == node'[f.id][f.ver] IN
                      /\ n # Null /\ n.account = f.account
                      /\ \E x \in {f} \cup (FiledUnder(f.id, f.ver) \cup filed(f.id, f.ver)) :
                           n.status = x.status /\ n.terms = x.terms
  BY <1>2, <1>4, <1>5 DEF VersionsAsRecorded
<1> DEFINE f == log["instructions"][k]
<1>10. k \in 1..Len(log["instructions"])
  BY DEF Applied
<1>11. f \in InstructionFact
  BY <1>1, <1>10, MessagesTyped
<1>12. f.id \in Instruction /\ f.ver \in Version
  BY <1>11 DEF InstructionFact
<1>13. /\ node[f.id][f.ver] # Null /\ node[f.id][f.ver].account = f.account
       /\ \E x \in {f} \cup FiledUnder(f.id, f.ver) :
            node[f.id][f.ver].status = x.status /\ node[f.id][f.ver].terms = x.terms
  BY DEF VersionsAsRecorded
<1> HIDE DEF new
<1>14. CASE f.id = e.id /\ f.ver = e.ver
  <2>1. node'[f.id][f.ver] = new
    BY <1>7, <1>8, <1>14 DEF TypeOK
  <2>2. e \in filed(f.id, f.ver)
    BY <1>14
  <2> HIDE DEF filed
  <2> QED
    BY <1>9, <1>13, <1>14, <2>1, <2>2
<1>15. CASE ~(f.id = e.id /\ f.ver = e.ver)
  <2>1. node'[f.id][f.ver] = node[f.id][f.ver]
    BY <1>7, <1>8, <1>12, <1>15 DEF TypeOK
  <2> QED
    BY <1>13, <2>1
<1> QED
  BY <1>14, <1>15

LEMMA NextRecorded ==
  ASSUME TypeOK, VersionsAsRecorded, [Next]_vars
  PROVE  VersionsAsRecorded'
<1>1. ASSUME log' = log, node' = node,
             Applied("instructions")' = Applied("instructions"),
             Applied("instruction_security_events")' = Applied("instruction_security_events")
      PROVE  VersionsAsRecorded'
  <2>1. \A i, v : FiledUnder(i, v)' = FiledUnder(i, v)
    BY <1>1 DEF FiledUnder
  <2> QED
    BY <1>1, <2>1 DEF VersionsAsRecorded
<1>2. ASSUME UNCHANGED <<log, applied, node>> PROVE VersionsAsRecorded'
  BY <1>1, <1>2 DEF Applied
<1>3. ASSUME NEW w \in Worker, WritePayment(w) \/ WritePaymentEvent(w)
      PROVE  VersionsAsRecorded'
  <2>1. /\ log' = log /\ node' = node
        /\ \A k : /\ <<"instructions", k>> \in applied' <=> <<"instructions", k>> \in applied
                  /\ <<"instruction_security_events", k>> \in applied'
                       <=> <<"instruction_security_events", k>> \in applied
    BY <1>3 DEF WritePayment, WritePaymentEvent, Writing, graph
  <2>2. /\ Applied("instructions")' = Applied("instructions")
        /\ Applied("instruction_security_events")' = Applied("instruction_security_events")
    BY <2>1 DEF Applied
  <2> QED
    BY <1>1, <2>1, <2>2
<1>4. CASE UNCHANGED vars
  BY <1>2, <1>4 DEF vars, graph
<1>5. ASSUME NEW w \in Worker, NEW t \in Topic, NEW k \in 1..Len(log[t]), Start(w, t, k)
      PROVE  VersionsAsRecorded'
  BY <1>2, <1>5 DEF Start, graph
<1>6. CASE \/ \E w \in Worker : Upsert(w) \/ FindConflicts(w) \/ Ack(w) \/ Fail(w)
           \/ \E t \in Topic : Park(t)
           \/ Crash
  BY <1>2, <1>6 DEF Upsert, FindConflicts, Ack, Fail, Park, Crash, graph
<1> QED
  BY <1>3, <1>4, <1>5, <1>6, Steps, InstructionKeepsRecord, EventKeepsRecord

(* Whatever comes first, again or late, a version whose row has been       *)
(* applied shows the account of that row, and the status and terms of the  *)
(* row or of an event filed under it.                                      *)
THEOREM VersionsStayRecorded == Spec => []VersionsAsRecorded
<1>1. Init => TypeOK /\ OwnTopics /\ VersionsAsRecorded
  <2> SUFFICES ASSUME Init PROVE TypeOK /\ OwnTopics /\ VersionsAsRecorded
    OBVIOUS
  <2>1. TypeOK /\ OwnTopics
    BY InitTyped DEF Init, OwnTopics, Worker
  <2>2. applied = {}
    BY DEF Init
  <2> QED
    BY <2>1, <2>2 DEF VersionsAsRecorded, Applied
<1>2. TypeOK /\ OwnTopics /\ VersionsAsRecorded /\ [Next]_vars
        => TypeOK' /\ OwnTopics' /\ VersionsAsRecorded'
  BY NextTyped, NextRecorded
<1> QED
  BY <1>1, <1>2, PTL DEF Spec

-----------------------------------------------------------------------------
(* CONFLICTS_WITH *)

(* Where no event disputes an active row, its version node shows what      *)
(* conflict_query asks for.                                                *)
LEMMA NodeShowsRow ==
  ASSUME VersionsAsRecorded, NEW k \in Applied("instructions"),
         Undisputed(log["instructions"][k]), log["instructions"][k].status \in Active
  PROVE  LET f == log["instructions"][k]
             n == node[f.id][f.ver] IN
           n.account = f.account /\ n.terms = f.terms /\ n.status \in Active
BY DEF VersionsAsRecorded, Undisputed

(* What links two instructions stays, and a step that moves none of their  *)
(* CURRENT edges and applies no row makes no new conflict.                 *)
LEMMA ConflictsKept ==
  ASSUME TypeOK, ConflictsFound, log' = log, conflicts' = conflicts, crossed \subseteq crossed',
         Applied("instructions")' = Applied("instructions"),
         Applied("instruction_security_events")
           \subseteq Applied("instruction_security_events")',
         \A i \in Instruction : current'[i] = current[i]
  PROVE  ConflictsFound'
<1>1. \A i, v : FiledUnder(i, v) \subseteq FiledUnder(i, v)'
  BY DEF FiledUnder
<1>2. \A f : Undisputed(f)' => Undisputed(f)
  BY <1>1 DEF Undisputed
<1>3. \A k \in Applied("instructions") : log["instructions"][k].id \in Instruction
  <2> SUFFICES ASSUME NEW k \in Applied("instructions")
               PROVE  log["instructions"][k].id \in Instruction
    OBVIOUS
  <2>1. k \in 1..Len(log["instructions"]) /\ "instructions" \in Topic
    BY DEF Applied, Topic
  <2> QED
    BY <2>1, MessagesTyped DEF InstructionFact
<1>4. ASSUME NEW j \in Applied("instructions"), NEW k \in Applied("instructions")
      PROVE  LET f == log["instructions"][j]
                 g == log["instructions"][k] IN
               /\ Conflicting(f, g)' => Conflicting(f, g)
               /\ Linked(f, g)' = Linked(f, g)
  BY <1>3 DEF Conflicting, Linked
<1> QED
  BY <1>2, <1>4 DEF ConflictsFound

LEMMA InstructionFindsConflicts ==
  ASSUME ConflictsInv, NEW w \in Worker, WriteInstruction(w)
  PROVE  ConflictsFound'
<1> USE DEF ConflictsInv
<1> DEFINE m == job[w].k
           row(k) == log["instructions"][k]
<1>1. /\ "instructions" \in Topic /\ "instructions" \in FactTopic
      /\ Writing(w, "instructions")
  BY DEF WriteInstruction, Topic, FactTopic
<1>2. m \in 1..Len(log["instructions"]) /\ Message(w) = row(m) /\ log' = log
  BY <1>1, WritingTyped
<1>3. applied' = applied \cup {<<"instructions", m>>}
  BY <1>1 DEF Writing
<1>4. /\ Applied("instructions")' = Applied("instructions") \cup {m}
      /\ Applied("instruction_security_events")' = Applied("instruction_security_events")
  BY <1>2, <1>3 DEF Applied
<1>5. \A f : Undisputed(f)' = Undisputed(f)
  BY <1>2, <1>4 DEF FiledUnder, Undisputed
<1>6. /\ current' = IF Moves(row(m)) THEN [current EXCEPT ![row(m).id] = row(m).ver]
                    ELSE current
      /\ conflicts' = conflicts \cup
           UNION {{<<row(m).id, i>>, <<i, row(m).id>>} : i \in job[w].rivals}
      /\ crossed' = crossed
  <2> DEFINE moved(f) == current' = IF Moves(f) THEN [current EXCEPT ![f.id] = f.ver] ELSE current
             linked(f) == conflicts' = conflicts \cup
               UNION {{<<f.id, i>>, <<i, f.id>>} : i \in job[w].rivals}
  <2>1. moved(Message(w)) /\ linked(Message(w))
    BY DEF WriteInstruction, MoveCurrent, Moved
  <2> HIDE DEF moved, linked
  <2>2. moved(row(m)) /\ linked(row(m))
    BY <1>2, <2>1
  <2> QED
    BY <1>1, <2>2 DEF moved, linked, Writing
<1>7. \A k \in Applied("instructions")' :
        k \in 1..Len(log["instructions"]) /\ row(k) \in InstructionFact
  BY <1>1, <1>2, <1>4, MessagesTyped DEF Applied
<1>8. \A k \in Applied("instructions")' :
        /\ row(k).id \in Instruction /\ row(k).id \in Entity
        /\ row(k).ver \in Version /\ row(k).ver # 0
  BY <1>7 DEF InstructionFact, Entity, Version
(* The row that has just been written is linked with every rival. *)
<1>9. ASSUME NEW k \in Applied("instructions")',
             row(m).id # row(k).id,
             current'[row(m).id] = row(m).ver, current'[row(k).id] = row(k).ver,
             row(m).account = row(k).account, row(m).terms = row(k).terms,
             row(m).status \in Active, row(k).status \in Active,
             Undisputed(row(m)), Undisputed(row(k)),
             row(m).lob = row(k).lob \/ {m, k} \notin crossed
      PROVE  {<<row(m).id, row(k).id>>, <<row(k).id, row(m).id>>} \subseteq conflicts'
  <2>1. /\ m \in Applied("instructions")' /\ k \in Applied("instructions")
        /\ row(m).id \in Entity /\ row(k).id \in Entity /\ row(m).ver # 0
    BY <1>4, <1>8, <1>9
  <2>2. current[row(k).id] = row(k).ver
    <3> HIDE DEF row
    <3> QED
      BY <1>6, <1>9, <2>1 DEF TypeOK
  <2>3. k \in 1..Len(log["instructions"]) /\ Moves(row(k))
    <3>1. k \in 1..Len(log["instructions"])
      BY <2>1 DEF Applied
    <3>2. row(k).open /\ row(k).ver \in Nat
      BY <1>1, <2>2, <3>1, CurrentRow, FactsTyped
    <3> QED
      BY <2>2, <3>1, <3>2 DEF Moves
  <2>4. Moves(row(m))
    <3>1. CASE current[row(m).id] = row(m).ver
      <4>1. row(m).open /\ row(m).ver \in Nat
        BY <1>1, <1>2, <3>1, CurrentRow, FactsTyped
      <4> QED
        BY <3>1, <4>1 DEF Moves
    <3>2. CASE current[row(m).id] # row(m).ver
      <4> HIDE DEF row
      <4> QED
        BY <1>6, <1>9, <3>2
    <3> QED
      BY <3>1, <3>2
  <2>5. row(k).id \in job[w].rivals \/ {m, k} \in crossed
    <3>1. AtStage(w, "instructions", "matched")
      BY <1>1 DEF Writing
    <3> QED
      BY <1>2, <1>9, <2>1, <2>2, <2>4, <3>1 DEF MatchedKnows
  <2>6. row(m).lob = row(k).lob => {m, k} \notin crossed
    BY <1>2, <2>3, <2>4 DEF CrossingsKnown
  <2>7. row(k).id \in job[w].rivals
    BY <1>9, <2>5, <2>6
  <2> HIDE DEF row
  <2> QED
    BY <1>6, <2>7
(* Two rows that were there before were CURRENT before. *)
<1>10. ASSUME NEW k \in Applied("instructions"), k # m, current'[row(k).id] = row(k).ver
       PROVE  current[row(k).id] = row(k).ver
  <2>1. k \in Applied("instructions")' /\ m \in Applied("instructions")'
    BY <1>4
  <2>2. ~(row(k).id = row(m).id /\ row(k).ver = row(m).ver)
    BY <1>1, <1>2, <1>7, <1>10, <2>1, LogTyped
  <2>3. row(m).id \in Entity /\ row(k).id \in Entity
    BY <1>8, <2>1
  <2> HIDE DEF row
  <2> QED
    BY <1>6, <1>10, <2>2, <2>3 DEF TypeOK
<1> SUFFICES ASSUME NEW j \in Applied("instructions")', NEW k \in Applied("instructions")',
                    row(j).id # row(k).id,
                    current'[row(j).id] = row(j).ver, current'[row(k).id] = row(k).ver,
                    row(j).account = row(k).account, row(j).terms = row(k).terms,
                    row(j).status \in Active, row(k).status \in Active,
                    Undisputed(row(j)), Undisputed(row(k)),
                    row(j).lob = row(k).lob \/ {j, k} \notin crossed
             PROVE  {<<row(j).id, row(k).id>>, <<row(k).id, row(j).id>>} \subseteq conflicts'
  <2>1. SUFFICES ASSUME NEW j \in Applied("instructions")', NEW k \in Applied("instructions")',
                        Conflicting(row(j), row(k))', Undisputed(row(j))', Undisputed(row(k))',
                        (row(j).lob = row(k).lob)' \/ ({j, k} \notin crossed)'
                 PROVE  Linked(row(j), row(k))'
    BY DEF ConflictsFound
  <2>2. row(j)' = row(j) /\ row(k)' = row(k)
    BY <1>2
  <2>3. Undisputed(row(j)) /\ Undisputed(row(k))
    BY <1>2, <1>4, <2>1 DEF Undisputed, FiledUnder
  <2>4. Conflicting(row(j), row(k))' /\ Linked(row(j), row(k))' =
          ({<<row(j).id, row(k).id>>, <<row(k).id, row(j).id>>} \subseteq conflicts')
    BY <1>2, <2>1 DEF Linked
  <2> QED
    BY <1>2, <1>6, <2>1, <2>3, <2>4 DEF Conflicting
<1>11. CASE j = m
  BY <1>9, <1>11
<1>12. CASE k = m
  <2>1. {j, k} = {k, j}
    OBVIOUS
  <2> QED
    BY <1>9, <1>12, <2>1
<1>13. CASE j # m /\ k # m
  <2>1. /\ j \in Applied("instructions") /\ k \in Applied("instructions")
        /\ current[row(j).id] = row(j).ver /\ current[row(k).id] = row(k).ver
    BY <1>4, <1>10, <1>13
  <2>2. Linked(row(j), row(k))
    BY <2>1 DEF ConflictsFound, Conflicting
  <2> QED
    BY <1>6, <2>2 DEF Linked
<1> QED
  BY <1>11, <1>12, <1>13

(* Only the commit of a fact about an instruction applies one, moves its   *)
(* CURRENT and links it.                                                   *)
LEMMA Besides ==
  ASSUME TypeOK, [Next]_vars, ~\E w \in Worker : WriteInstruction(w)
  PROVE  /\ log' = log /\ conflicts' = conflicts /\ crossed \subseteq crossed'
         /\ Applied("instructions")' = Applied("instructions")
         /\ Applied("instruction_security_events")
              \subseteq Applied("instruction_security_events")'
         /\ \A i \in Instruction : current'[i] = current[i]
<1> DEFINE Goal == /\ log' = log /\ conflicts' = conflicts /\ crossed \subseteq crossed'
                   /\ Applied("instructions")' = Applied("instructions")
                   /\ Applied("instruction_security_events")
                        \subseteq Applied("instruction_security_events")'
                   /\ \A i \in Instruction : current'[i] = current[i]
<1>1. ASSUME UNCHANGED <<log, applied, graph>>, crossed \subseteq crossed' PROVE Goal
  BY <1>1 DEF Applied, graph
<1>2. ASSUME NEW w \in Worker, NEW t \in Topic, t # "instructions", Writing(w, t)
      PROVE  /\ log' = log /\ crossed \subseteq crossed'
             /\ Applied("instructions")' = Applied("instructions")
             /\ Applied("instruction_security_events")
                  \subseteq Applied("instruction_security_events")'
  <2>1. log' = log /\ applied' = applied \cup {<<t, job[w].k>>} /\ crossed' = crossed
    BY <1>2 DEF Writing
  <2>2. \A k : <<"instructions", k>> \in applied' <=> <<"instructions", k>> \in applied
    BY <1>2, <2>1
  <2> QED
    BY <2>1, <2>2 DEF Applied
<1>3. ASSUME NEW w \in Worker, WritePayment(w) PROVE Goal
  <2>1. /\ Writing(w, "payments") /\ "payments" \in Topic
        /\ MoveCurrent(Message(w)) /\ conflicts' = conflicts
    BY <1>3 DEF WritePayment, Topic
  <2>2. Message(w) \in PaymentFact
    BY <2>1, WritingTyped, MessagesTyped
  <2>3. \A i \in Instruction : i # Message(w).id /\ i \in Entity
    BY <2>2, ConstantsAssumption DEF PaymentFact, Entity
  <2>4. \A i \in Instruction : current'[i] = current[i]
    BY <2>1, <2>3 DEF MoveCurrent, Moved, TypeOK
  <2> QED
    BY <1>2, <2>1, <2>4
<1>4. ASSUME NEW w \in Worker, WriteEvent(w) PROVE Goal
  <2>1. /\ Writing(w, "instruction_security_events")
        /\ "instruction_security_events" \in Topic
        /\ current' = current /\ conflicts' = conflicts
    BY <1>4 DEF WriteEvent, Topic
  <2> QED
    BY <1>2, <2>1
<1>5. ASSUME NEW w \in Worker, WritePaymentEvent(w) PROVE Goal
  <2>1. /\ Writing(w, "payment_security_events") /\ "payment_security_events" \in Topic
        /\ current' = current /\ conflicts' = conflicts
    BY <1>5 DEF WritePaymentEvent, Topic, graph
  <2> QED
    BY <1>2, <2>1
<1>6. ASSUME UNCHANGED vars PROVE Goal
  BY <1>1, <1>6 DEF vars
<1>7. ASSUME NEW w \in Worker, NEW t \in Topic, NEW k \in 1..Len(log[t]), Start(w, t, k)
      PROVE  Goal
  BY <1>1, <1>7 DEF Start
<1>8. ASSUME \/ \E w \in Worker : Upsert(w) \/ FindConflicts(w) \/ Ack(w) \/ Fail(w)
             \/ \E t \in Topic : Park(t)
             \/ Crash
      PROVE  Goal
  BY <1>1, <1>8 DEF Upsert, FindConflicts, Ack, Fail, Park, Crash
<1> HIDE DEF Goal
<1>9. ASSUME Next PROVE Goal
  <2>1. ASSUME \E w \in Worker : \/ WriteInstruction(w) \/ WritePayment(w)
                                \/ WriteEvent(w) \/ WritePaymentEvent(w)
        PROVE  Goal
    BY <1>3, <1>4, <1>5, <2>1
  <2>2. ASSUME \E w \in Worker, t \in Topic : \E k \in 1..Len(log[t]) : Start(w, t, k)
        PROVE  Goal
    BY <1>7, <2>2
  <2> QED
    BY <1>8, <1>9, <2>1, <2>2, Steps
<1>10. Goal
  BY <1>6, <1>9
<1> QED
  BY <1>10 DEF Goal

(* Only the two statements open a transaction or take it further.          *)
LEMMA OpenBefore ==
  ASSUME TypeOK, [Next]_vars, ~\E w \in Worker : Upsert(w) \/ FindConflicts(w)
  PROVE  /\ log' = log /\ crossed' = crossed
         /\ \A x \in Worker : InTransaction(x)' => job'[x] = job[x]
<1> DEFINE Goal == /\ log' = log /\ crossed' = crossed
                   /\ \A x \in Worker : InTransaction(x)' => job'[x] = job[x]
<1>1. CASE UNCHANGED vars
  BY <1>1 DEF vars
<1>2. ASSUME NEW w \in Worker, NEW t \in Topic, NEW k \in 1..Len(log[t]), Start(w, t, k)
      PROVE  Goal
  <2>1. job'[w].stage = "read" /\ \A x \in Worker : x # w => job'[x] = job[x]
    BY <1>2 DEF Start, TypeOK
  <2> QED
    BY <1>2, <2>1 DEF Start, InTransaction, AtStage
<1>3. ASSUME NEW w \in Worker,
             \/ WriteInstruction(w) \/ WritePayment(w)
             \/ WriteEvent(w) \/ WritePaymentEvent(w)
      PROVE  Goal
  <2>1. PICK t \in Topic : Writing(w, t)
    BY <1>3 DEF WriteInstruction, WritePayment, WriteEvent, WritePaymentEvent, Topic
  <2> DEFINE done == [job[w] EXCEPT !.stage = "written", !.rivals = {}]
  <2>2. job[w] \in Job /\ job' = [job EXCEPT ![w] = done]
    BY <2>1, JobTyped DEF Writing, AtStage
  <2>3. done.stage = "written"
    BY <2>2 DEF Job
  <2> HIDE DEF done
  <2>4. job'[w].stage = "written" /\ \A x \in Worker : x # w => job'[x] = job[x]
    BY <2>2, <2>3 DEF TypeOK
  <2> QED
    BY <2>1, <2>4 DEF Writing, InTransaction, AtStage
<1>4. CASE \/ \E w \in Worker : Ack(w) \/ Fail(w)
           \/ \E t \in Topic : Park(t)
           \/ Crash
  <2>1. \A x \in Worker : job'[x] = job[x] \/ job'[x] = Null
    BY <1>4 DEF Ack, Fail, Park, Crash, TypeOK, Worker
  <2> QED
    BY <1>4, <2>1 DEF Ack, Fail, Park, Crash, InTransaction, AtStage
<1> HIDE DEF Goal
<1>5. Goal
  BY <1>1, <1>2, <1>3, <1>4, Steps DEF Goal
<1> QED
  BY <1>5 DEF Goal

(* A fact that does not move CURRENT any more never will.                  *)
LEMMA MovesFades ==
  ASSUME TypeOK, OwnTopics, [Next]_vars, log' = log,
         NEW k \in 1..Len(log["instructions"]), Moves(log["instructions"][k])'
  PROVE  Moves(log["instructions"][k])
<1> DEFINE f == log["instructions"][k]
<1>1. f.id \in Entity /\ f.ver \in Nat
  BY FactsTyped DEF FactTopic
<1>2. current[f.id] \in Nat /\ current'[f.id] \in Nat
  BY <1>1, NextTyped DEF TypeOK
<1>3. current'[f.id] >= current[f.id]
  BY <1>1, <1>2, NextGoesForward DEF vars, graph
<1>4. f.open /\ (current'[f.id] = 0 \/ f.ver >= current'[f.id])
  BY DEF Moves
<1> QED
  BY <1>1, <1>2, <1>3, <1>4 DEF Moves

(* The messages of open transactions. *)
LEMMA OpenMessage ==
  ASSUME TypeOK, NEW w \in Worker, InTransaction(w) \/ AtStage(w, "instructions", "read")
  PROVE  /\ job[w].k \in 1..Len(log["instructions"])
         /\ Message(w) = log["instructions"][job[w].k]
BY JobTyped DEF InTransaction, AtStage, Message

LEMMA NextKeepsLocks ==
  ASSUME ConflictsInv, [Next]_vars
  PROVE  LocksHeld'
<1> USE DEF ConflictsInv
<1> SUFFICES ASSUME NEW w \in Worker, NEW x \in Worker, w # x,
                    InTransaction(w)', InTransaction(x)', Excludes(Message(w), Message(x))'
             PROVE  FALSE
  BY DEF LocksHeld
<1>0. log' = log
  BY Besides, WritingTyped DEF WriteInstruction, Writing
(* What excludes another now did so before. *)
<1>1. ASSUME NEW j \in 1..Len(log["instructions"]), NEW k \in 1..Len(log["instructions"]),
             Excludes(log["instructions"][j], log["instructions"][k])'
      PROVE  Excludes(log["instructions"][j], log["instructions"][k])
  BY <1>0, <1>1, MovesFades DEF Excludes
<1>2. ASSUME NEW y \in Worker, Upsert(y) \/ FindConflicts(y) PROVE FALSE
  <2>1. \A z \in Worker : Message(z)' = Message(z) /\ (z # y => job'[z] = job[z])
    BY <1>2, StatementKeeps
  <2>2. \A z \in Worker : InTransaction(z)' => z = y \/ InTransaction(z)
    BY <2>1 DEF InTransaction, AtStage
  <2>3. InTransaction(y) \/ AtStage(y, "instructions", "read")
    BY <1>2 DEF Upsert, FindConflicts, InTransaction
  <2>4. PICK j \in 1..Len(log["instructions"]), k \in 1..Len(log["instructions"]) :
          Message(w) = log["instructions"][j] /\ Message(x) = log["instructions"][k]
    BY <2>2, <2>3, OpenMessage
  <2>5. Excludes(Message(w), Message(x))
    <3>1. /\ Message(w)' = log["instructions"][j]'
          /\ Message(x)' = log["instructions"][k]'
      BY <1>0, <2>1, <2>4
    <3>2. Excludes(log["instructions"][j], log["instructions"][k])'
      BY <3>1 DEF Excludes, Moves
    <3> QED
      BY <1>1, <2>4, <3>2
  <2>6. CASE Upsert(y)
    <3>1. \A z \in Worker : InTransaction(z) => ~Excludes(Message(y), Message(z))
      BY <2>6 DEF Upsert
    <3>2. Excludes(Message(x), Message(w))
      BY <2>5 DEF Excludes
    <3> QED
      BY <2>2, <2>5, <3>1, <3>2 DEF LocksHeld
  <2>7. CASE FindConflicts(y)
    <3>1. InTransaction(y)
      BY <2>7 DEF FindConflicts, InTransaction
    <3> QED
      BY <2>2, <2>5, <3>1 DEF LocksHeld
  <2> QED
    BY <1>2, <2>6, <2>7
<1>3. CASE ~\E y \in Worker : Upsert(y) \/ FindConflicts(y)
  <2>1. job'[w] = job[w] /\ job'[x] = job[x]
    BY <1>3, OpenBefore
  <2>2. InTransaction(w) /\ InTransaction(x)
    BY <2>1 DEF InTransaction, AtStage
  <2>3. /\ job[w].k \in 1..Len(log["instructions"]) /\ job[x].k \in 1..Len(log["instructions"])
        /\ Message(w) = log["instructions"][job[w].k]
        /\ Message(x) = log["instructions"][job[x].k]
    BY <2>2, OpenMessage
  <2>4. Message(w)' = Message(w) /\ Message(x)' = Message(x)
    BY <1>0, <2>1 DEF Message
  <2>5. Excludes(Message(w), Message(x))
    BY <1>0, <2>3, <2>4, MovesFades DEF Excludes, Moves
  <2> QED
    BY <2>2, <2>5 DEF LocksHeld
<1> QED
  BY <1>2, <1>3

LEMMA NextKnowsCrossings ==
  ASSUME ConflictsInv, [Next]_vars
  PROVE  CrossingsKnown'
<1> USE DEF ConflictsInv
<1> DEFINE Matched(w) == AtStage(w, "instructions", "matched")
           row(k) == log["instructions"][k]
<1>0. log' = log
  BY Besides, WritingTyped DEF WriteInstruction, Writing
<1>1. \A k \in 1..Len(log["instructions"]) : Moves(row(k))' => Moves(row(k))
  BY <1>0, MovesFades
<1>2. CASE ~\E y \in Worker : Upsert(y) \/ FindConflicts(y)
  <2>1. crossed' = crossed /\ \A x \in Worker : InTransaction(x)' => job'[x] = job[x]
    BY <1>2, OpenBefore
  <2>2. \A x \in Worker : Matched(x)' => Matched(x) /\ job'[x] = job[x]
    BY <2>1 DEF InTransaction, AtStage
  <2> QED
    BY <1>0, <1>1, <2>1, <2>2 DEF CrossingsKnown
<1>3. ASSUME NEW y \in Worker, Upsert(y) PROVE CrossingsKnown'
  <2>1. crossed' = crossed
    BY <1>3 DEF Upsert
  <2>2. \A x \in Worker : Matched(x)' => Matched(x) /\ job'[x] = job[x]
    BY <1>3, StatementKeeps DEF AtStage
  <2> QED
    BY <1>0, <1>1, <2>1, <2>2 DEF CrossingsKnown
<1>4. ASSUME NEW y \in Worker, FindConflicts(y) PROVE CrossingsKnown'
  <2>1. /\ AtStage(y, "instructions", "upserted") /\ ~Matched(y)
        /\ crossed' = crossed \cup {{job[y].k, job[x].k} : x \in {z \in Worker : Matched(z)}}
    BY <1>4 DEF FindConflicts, AtStage
  <2>2. /\ job'[y].k = job[y].k
        /\ \A x \in Worker : x # y => job'[x] = job[x]
    BY <1>4, StatementKeeps
  <2>3. \A x \in Worker : Matched(x)' => x = y \/ (x # y /\ Matched(x) /\ job'[x] = job[x])
    BY <2>2 DEF AtStage
  <2>4. ASSUME NEW w \in Worker, NEW x \in Worker, w # x, Matched(w)', Matched(x)'
        PROVE  {job'[w].k, job'[x].k} \in crossed'
    <3>1. CASE w = y
      BY <2>1, <2>2, <2>3, <2>4, <3>1
    <3>2. CASE x = y
      <4>1. {job[y].k, job[w].k} \in crossed' /\ job'[w] = job[w]
        BY <2>1, <2>3, <2>4, <3>2
      <4>2. {job[y].k, job[w].k} = {job[w].k, job[y].k}
        OBVIOUS
      <4> QED
        BY <2>2, <3>2, <4>1, <4>2
    <3>3. CASE w # y /\ x # y
      BY <2>1, <2>3, <2>4, <3>3 DEF CrossingsKnown
    <3> QED
      BY <3>1, <3>2, <3>3
  <2>5. ASSUME NEW j \in 1..Len(log["instructions"]), NEW k \in 1..Len(log["instructions"]),
               {j, k} \in crossed', row(j).lob = row(k).lob
        PROVE  ~(Moves(row(j)) /\ Moves(row(k)))
    <3>1. CASE {j, k} \in crossed
      BY <2>5, <3>1 DEF CrossingsKnown
    <3>2. CASE {j, k} \notin crossed
      <4>1. PICK x \in Worker : Matched(x) /\ {j, k} = {job[y].k, job[x].k}
        BY <2>1, <2>5, <3>2
      <4>2. x # y /\ InTransaction(x) /\ InTransaction(y)
        BY <2>1, <4>1 DEF InTransaction
      <4>3. ~Excludes(row(job[y].k), row(job[x].k))
        BY <4>2, OpenMessage DEF LocksHeld
      <4>4. \/ j = job[y].k /\ k = job[x].k
            \/ j = job[x].k /\ k = job[y].k
        BY <4>1, <4>3 DEF Excludes
      <4> QED
        BY <2>5, <4>3, <4>4 DEF Excludes
    <3> QED
      BY <3>1, <3>2
  <2> QED
    BY <1>0, <1>1, <2>4, <2>5 DEF CrossingsKnown
<1> QED
  BY <1>2, <1>3, <1>4

LEMMA NextMatches ==
  ASSUME ConflictsInv, [Next]_vars
  PROVE  MatchedKnows'
<1> USE DEF ConflictsInv
<1> DEFINE row(k) == log["instructions"][k]
           Matched(w) == AtStage(w, "instructions", "matched")
           Rival(f, g) == /\ f.id # g.id /\ Moves(f) /\ current[g.id] = g.ver
                          /\ f.account = g.account /\ f.terms = g.terms
                          /\ {f.status, g.status} \subseteq Active
                          /\ Undisputed(g)
           Known(w, k) == row(k).id \in job[w].rivals \/ {job[w].k, k} \in crossed
<1>0. log' = log
  BY Besides, WritingTyped DEF WriteInstruction, Writing
<1>1. \A w \in Worker : Matched(w) => /\ job[w].k \in 1..Len(log["instructions"])
                                      /\ Message(w) = row(job[w].k)
  BY OpenMessage DEF InTransaction
<1>2. \A k \in 1..Len(log["instructions"]) : Moves(row(k))' => Moves(row(k))
  BY <1>0, MovesFades
<1>3. \A k \in Applied("instructions")' :
        k \in 1..Len(log["instructions"]) /\ row(k).id \in Instruction /\ row(k).id \in Entity
  <2>1. \A k \in Applied("instructions")' : k \in 1..Len(log["instructions"])
    BY <1>0 DEF Applied
  <2>2. \A k \in 1..Len(log["instructions"]) : row(k) \in InstructionFact
    BY MessagesTyped DEF Topic
  <2> QED
    BY <2>1, <2>2 DEF InstructionFact, Entity
<1> SUFFICES ASSUME NEW w \in Worker, Matched(w)', NEW k \in Applied("instructions")',
                    Rival(Message(w), row(k))'
             PROVE  Known(w, k)'
  BY DEF MatchedKnows
<1>4. ASSUME NEW y \in Worker, WriteInstruction(y) PROVE Known(w, k)'
  <2> DEFINE m == job[y].k
  <2>1. Writing(y, "instructions") /\ Matched(y) /\ "instructions" \in Topic
    BY <1>4 DEF WriteInstruction, Writing, Topic
  <2>2. ~\E z \in Worker : Upsert(z) \/ FindConflicts(z)
    <3>1. job'[y].stage = "written" /\ \A z \in Worker : z # y => job'[z] = job[z]
      <4> DEFINE done == [job[y] EXCEPT !.stage = "written", !.rivals = {}]
      <4>1. job[y] \in Job /\ job' = [job EXCEPT ![y] = done]
        BY <2>1, JobTyped DEF Writing, AtStage
      <4>2. done.stage = "written"
        BY <4>1 DEF Job
      <4> HIDE DEF done
      <4> QED
        BY <4>1, <4>2 DEF TypeOK
    <3>2. job[y].stage = "matched"
      BY <2>1 DEF AtStage
    <3> QED
      BY <3>1, <3>2, StatementKeeps
  <2>3. /\ crossed' = crossed /\ job'[w] = job[w] /\ Matched(w)
        /\ Message(w)' = Message(w)
    <3>1. crossed' = crossed /\ job'[w] = job[w]
      BY <2>2, OpenBefore DEF InTransaction
    <3> QED
      BY <1>0, <3>1 DEF AtStage, Message
  <2>4. w # y
    BY <2>1, <2>3, JobTyped DEF Writing, AtStage, Job, TypeOK
  <2>5. /\ applied' = applied \cup {<<"instructions", m>>} /\ Message(y) = row(m)
        /\ m \in 1..Len(log["instructions"])
    BY <1>1, <2>1 DEF Writing
  <2>6. /\ Applied("instructions")' = Applied("instructions") \cup {m}
        /\ Applied("instruction_security_events")' = Applied("instruction_security_events")
    BY <1>0, <2>5 DEF Applied
  <2>7. CASE k = m
    BY <2>1, <2>3, <2>4, <2>7 DEF CrossingsKnown
  <2>8. CASE k # m
    <3>1. k \in Applied("instructions")
      BY <2>6, <2>8
    <3>2. Undisputed(row(k))
      BY <1>0, <2>6 DEF Undisputed, FiledUnder
    <3>3. current[row(k).id] = row(k).ver
      <4>1. ~(row(k).id = row(m).id /\ row(k).ver = row(m).ver)
        BY <1>3, <2>5, <2>8, LogTyped DEF FactTopic
      <4>2. current' = IF Moves(row(m)) THEN [current EXCEPT ![row(m).id] = row(m).ver]
                       ELSE current
        BY <1>4, <2>5 DEF WriteInstruction, MoveCurrent, Moved
      <4>3. current'[row(k).id] = row(k).ver
        BY <1>0
      <4>4. row(k).id \in Entity /\ current \in [Entity -> Nat]
        BY <1>3 DEF TypeOK
      <4> HIDE DEF row
      <4> QED
        BY <4>1, <4>2, <4>3, <4>4
    <3>4. Moves(Message(w))
      BY <1>0, <1>1, <1>2, <2>3 DEF Moves
    <3>5. Rival(Message(w), row(k))
      BY <1>0, <2>3, <3>2, <3>3, <3>4
    <3>6. Known(w, k)
      BY <2>3, <3>1, <3>5 DEF MatchedKnows
    <3> QED
      BY <1>0, <2>3, <3>6
  <2> QED
    BY <2>7, <2>8
<1>5. CASE ~\E y \in Worker : WriteInstruction(y)
  <2>1. /\ crossed \subseteq crossed' /\ k \in Applied("instructions")
        /\ Applied("instruction_security_events")
             \subseteq Applied("instruction_security_events")'
        /\ \A i \in Instruction : current'[i] = current[i]
    BY <1>5, Besides
  <2>2. Undisputed(row(k))
    BY <1>0, <2>1 DEF Undisputed, FiledUnder
  <2>3. current[row(k).id] = row(k).ver
    BY <1>0, <1>3, <2>1
  <2>4. CASE Matched(w) /\ job'[w] = job[w]
    <3>1. Message(w)' = Message(w)
      BY <1>0, <2>4 DEF Message
    <3>2. Moves(Message(w))
      BY <1>0, <1>1, <1>2, <2>4, <3>1 DEF Moves
    <3>3. Rival(Message(w), row(k))
      BY <1>0, <2>2, <2>3, <3>1, <3>2
    <3>4. Known(w, k)
      BY <2>1, <2>4, <3>3 DEF MatchedKnows
    <3> QED
      BY <1>0, <2>1, <2>4, <3>4
  <2>5. CASE FindConflicts(w)
    <3> DEFINE f == Message(w)
    <3>1. /\ f' = f /\ UNCHANGED <<log, applied, graph>>
          /\ job'[w].rivals = Rivals(f, Moved(f), Recorded(f))
      <4>1. job[w] \in Job
        BY <2>5, JobTyped DEF FindConflicts, AtStage
      <4> QED
        BY <2>5, <4>1, StatementKeeps DEF FindConflicts, TypeOK, Job
    <3>2. f \in InstructionFact
      BY <2>5, OpenMessage, MessagesTyped DEF FindConflicts, InTransaction, Topic
    <3>3. f.id \in Instruction /\ f.ver \in Version /\ f.id \in Entity /\ f.ver # 0
      BY <3>2 DEF InstructionFact, Version, Entity
    <3>4. Rival(f, row(k)) /\ current[row(k).id] # 0
      <4>1. row(k).ver # 0
        BY <1>3, FactsTyped DEF FactTopic
      <4> QED
        BY <1>0, <2>2, <2>3, <3>1, <4>1 DEF Moves, graph
    <3>5. LET n == node[row(k).id][row(k).ver] IN
            n.account = f.account /\ n.terms = f.terms /\ n.status \in Active
      BY <2>1, <3>4, NodeShowsRow
    <3>6. /\ Moved(f)[f.id] = f.ver
          /\ \A i \in Instruction : i # f.id => Moved(f)[i] = current[i]
      BY <3>3, <3>4 DEF Moved, TypeOK, Entity
    <3>7. /\ Recorded(f)[f.id][f.ver].status = f.status
          /\ \A i \in Instruction : i # f.id => Recorded(f)[i] = node[i]
      BY <3>3 DEF Recorded, TypeOK
    <3>8. row(k).id \in Instruction \ {f.id}
      BY <1>3, <3>4
    <3>9. row(k).id \in Rivals(f, Moved(f), Recorded(f))
      BY <3>3, <3>4, <3>5, <3>6, <3>7, <3>8 DEF Rivals
    <3> QED
      BY <1>0, <3>1, <3>9
  <2>6. (Matched(w) /\ job'[w] = job[w]) \/ FindConflicts(w)
    <3>1. CASE \E y \in Worker : Upsert(y) \/ FindConflicts(y)
      BY <3>1, StatementKeeps DEF AtStage
    <3>2. CASE ~\E y \in Worker : Upsert(y) \/ FindConflicts(y)
      BY <3>2, OpenBefore DEF InTransaction, AtStage
    <3> QED
      BY <3>1, <3>2
  <2> QED
    BY <2>4, <2>5, <2>6
<1> QED
  BY <1>4, <1>5

LEMMA NextFindsConflicts ==
  ASSUME ConflictsInv, [Next]_vars
  PROVE  ConflictsInv'
<1>1. TypeOK' /\ OwnTopics' /\ CurrentIsNewest' /\ VersionsAsRecorded'
  BY NextTyped, NextNewest, NextRecorded DEF ConflictsInv
<1>2. ConflictsFound'
  <2>1. CASE \E w \in Worker : WriteInstruction(w)
    BY <2>1, InstructionFindsConflicts
  <2>2. CASE ~\E w \in Worker : WriteInstruction(w)
    BY <2>2, Besides, ConflictsKept DEF ConflictsInv
  <2> QED
    BY <2>1, <2>2
<1> QED
  BY <1>1, <1>2, NextKeepsLocks, NextKnowsCrossings, NextMatches DEF ConflictsInv

(* Two active instructions of one line of business with the same account   *)
(* and currency are linked, because the upserts that make them CURRENT     *)
(* wait for each other; so are two of different lines of business, unless  *)
(* each one's query ran before the other's commit.  However the messages   *)
(* were delayed or repeated, unless an event filed under one of the        *)
(* versions disputes it.                                                   *)
THEOREM ConflictsAreFound == Spec => []ConflictsFound
<1>1. Init => ConflictsInv
  <2> SUFFICES ASSUME Init PROVE ConflictsInv
    OBVIOUS
  <2>1. TypeOK /\ OwnTopics
    BY InitTyped DEF Init, OwnTopics, Worker
  <2>2. Applied("instructions") = {} /\ crossed = {} /\ \A w \in Worker : job[w] = Null
    BY DEF Init, Applied
  <2>3. CurrentIsNewest
    <3>1. applied = {} /\ \A e \in Entity : current[e] = 0
      BY DEF Init
    <3>2. \A e \in Entity : OpenVersions(e) = {}
      BY <3>1, OpenVersionsAre
    <3> QED
      BY <3>1, <3>2 DEF CurrentIsNewest
  <2>4. VersionsAsRecorded /\ ConflictsFound /\ MatchedKnows
    BY <2>2 DEF VersionsAsRecorded, ConflictsFound, MatchedKnows
  <2>5. LocksHeld /\ CrossingsKnown
    BY <2>2 DEF LocksHeld, CrossingsKnown, InTransaction, AtStage
  <2> QED
    BY <2>1, <2>3, <2>4, <2>5 DEF ConflictsInv
<1>2. ConflictsInv /\ [Next]_vars => ConflictsInv'
  BY NextFindsConflicts
<1>3. ConflictsInv => ConflictsFound
  BY DEF ConflictsInv
<1> QED
  BY <1>1, <1>2, <1>3, PTL DEF Spec

-----------------------------------------------------------------------------
(* Delivery *)

(* Nothing is lost between the offsets, the queue and the graph.           *)
LEMMA NextLosesNothing ==
  ASSUME TypeOK, OwnTopics, NothingLost, [Next]_vars
  PROVE  NothingLost'
<1>1. CASE UNCHANGED vars
  BY <1>1 DEF vars, graph, NothingLost
<1>2. ASSUME NEW w \in Worker, NEW t \in Topic, NEW k \in 1..Len(log[t]),
             Start(w, t, k), w \in Topic => k = offset[w] + 1
      PROVE  NothingLost'
  BY <1>2 DEF Start, NothingLost, TypeOK, Worker
<1>3. ASSUME NEW t \in Topic, Consume(t) PROVE NothingLost'
  <2>1. offset[t] + 1 \in 1..Len(log[t]) /\ t \in Worker
    BY <1>3, LengthsTyped DEF Consume, TypeOK, Worker
  <2> QED
    BY <1>2, <1>3, <2>1 DEF Consume
<1>4. ASSUME NEW r \in Replayer, Replay(r) PROVE NothingLost'
  <2>1. PICK m \in parked : Start(r, m[1], m[2])
    BY <1>4 DEF Replay
  <2>2. m[1] \in Topic /\ m[2] \in 1..Len(log[m[1]]) /\ r \in Worker /\ r \notin Topic
    BY ConstantsAssumption DEF TypeOK, Worker
  <2> QED
    BY <1>2, <2>1, <2>2
<1>5. ASSUME NEW w \in Worker, NEW t \in Topic, Writing(w, t) PROVE NothingLost'
  <2> DEFINE done == [job[w] EXCEPT !.stage = "written", !.rivals = {}]
  <2>1. job[w] \in Job /\ job' = [job EXCEPT ![w] = done]
    BY <1>5, JobTyped DEF Writing, AtStage
  <2>2. done.k = job[w].k /\ done.topic = job[w].topic
    BY <2>1 DEF Job
  <2>3. offset' = offset /\ parked' = parked /\ applied' = applied \cup {<<job[w].topic, job[w].k>>}
    BY <1>5 DEF Writing, AtStage
  <2> HIDE DEF done
  <2>4. \A x \in Worker : x # w => job'[x] = job[x]
    BY <2>1 DEF TypeOK
  <2>5. job'[w].k = job[w].k /\ job'[w].topic = job[w].topic /\ job[w] # Null
    BY <1>5, <2>1, <2>2 DEF Writing, AtStage, TypeOK
  <2>6. ASSUME NEW x \in Topic, job'[x] # Null PROVE job'[x].k = offset[x] + 1
    <3>1. x \in Worker
      BY DEF Worker
    <3>2. CASE x = w
      BY <2>5, <3>2 DEF NothingLost
    <3>3. CASE x # w
      BY <2>4, <2>6, <3>1, <3>3 DEF NothingLost
    <3> QED
      BY <3>2, <3>3
  <2>7. ASSUME NEW x \in Worker, job'[x] # Null, job'[x].stage = "written"
        PROVE  <<job'[x].topic, job'[x].k>> \in applied'
    <3>1. CASE x = w
      BY <2>3, <2>5, <3>1
    <3>2. CASE x # w
      BY <2>3, <2>4, <2>7, <3>2 DEF NothingLost
    <3> QED
      BY <3>1, <3>2
  <2> QED
    BY <2>3, <2>6, <2>7 DEF NothingLost
<1>6. ASSUME NEW w \in Worker,
             \/ WriteInstruction(w) \/ WritePayment(w)
             \/ WriteEvent(w) \/ WritePaymentEvent(w)
      PROVE  NothingLost'
  <2>1. PICK t \in Topic : Writing(w, t)
    BY <1>6 DEF WriteInstruction, WritePayment, WriteEvent, WritePaymentEvent, Topic
  <2> QED
    BY <1>5, <2>1
(* The consumer passes its message, which is applied; a replay takes an    *)
(* applied message out of the queue.                                       *)
<1>7. ASSUME NEW w \in Worker, Ack(w) PROVE NothingLost'
  <2>1. <<job[w].topic, job[w].k>> \in applied /\ applied' = applied
    BY <1>7 DEF Ack, NothingLost
  <2>2. \A x \in Worker : x # w => job'[x] = job[x]
    BY <1>7 DEF Ack, TypeOK
  <2>3. job'[w] = Null
    BY <1>7 DEF Ack, TypeOK
  <2>4. CASE w \in Topic
    <3>1. /\ job[w].topic = w /\ job[w].k = offset[w] + 1
          /\ offset' = [offset EXCEPT ![w] = job[w].k] /\ parked' = parked
      BY <1>7, <2>4 DEF Ack, Committed, OwnTopics, NothingLost
    <3>2. offset[w] \in Nat
      BY <2>4, LengthsTyped DEF TypeOK
    <3>3. \A t \in Topic : t # w => offset'[t] = offset[t]
      BY <3>1
    <3>4. w \in DOMAIN offset => offset'[w] = offset[w] + 1
      BY <3>1
    <3> QED
      BY <2>1, <2>2, <2>3, <2>4, <3>1, <3>2, <3>3, <3>4 DEF NothingLost, Worker
  <2>5. CASE w \notin Topic
    <3>1. offset' = offset /\ parked' = parked \ {<<job[w].topic, job[w].k>>}
      BY <1>7, <2>5 DEF Ack
    <3> QED
      BY <2>1, <2>2, <2>3, <2>5, <3>1 DEF NothingLost, Worker
  <2> QED
    BY <2>4, <2>5
<1>8. ASSUME NEW w \in Worker, Fail(w) PROVE NothingLost'
  BY <1>8 DEF Fail, NothingLost, TypeOK, Worker
<1>9. ASSUME NEW t \in Topic, Park(t) PROVE NothingLost'
  <2>1. /\ job[t].k = offset[t] + 1 /\ offset' = [offset EXCEPT ![t] = job[t].k]
        /\ parked' = parked \cup {<<t, job[t].k>>} /\ applied' = applied
        /\ job' = [job EXCEPT ![t] = Null]
    BY <1>9 DEF Park, Committed, NothingLost
  <2>2. offset[t] \in Nat
    BY LengthsTyped DEF TypeOK
  <2>3. \A x \in Topic : x # t => offset'[x] = offset[x]
    BY <2>1
  <2>4. t \in DOMAIN offset => offset'[t] = offset[t] + 1
    BY <2>1
  <2>5. \A x \in Worker : IF x = t THEN job'[x] = Null ELSE job'[x] = job[x]
    BY <2>1 DEF TypeOK, Worker
  <2> QED
    BY <2>1, <2>2, <2>3, <2>4, <2>5 DEF NothingLost, Worker
<1>10. CASE Crash
  BY <1>10 DEF Crash, NothingLost, Worker
<1>11. ASSUME NEW w \in Worker, Upsert(w) \/ FindConflicts(w) PROVE NothingLost'
  <2>1. job'[w].stage # "written"
    BY <1>11, StatementKeeps
  <2> QED
    BY <1>11, <2>1, StatementKeeps DEF NothingLost, Worker
<1> QED
  BY <1>1, <1>3, <1>4, <1>6, <1>7, <1>8, <1>9, <1>10, <1>11 DEF Next

(* Only the two transactions that write version nodes bring any.           *)
LEMMA NextBrings ==
  ASSUME TypeOK, NodesBrought, [Next]_vars
  PROVE  NodesBrought'
<1> DEFINE From(t, i, v) == \E k \in Applied(t) : log[t][k].id = i /\ log[t][k].ver = v
           Sources == {"instructions", "instruction_security_events"}
<1>1. NodesBrought <=> \A i \in Instruction, v \in Version : node[i][v] # Null =>
                         \E t \in Sources : From(t, i, v)
  BY DEF NodesBrought
<1>2. ASSUME log' = log, applied \subseteq applied'
      PROVE  \A t, i, v : From(t, i, v) => From(t, i, v)'
  BY <1>2 DEF Applied
<1>3. ASSUME log' = log, applied \subseteq applied', node' = node PROVE NodesBrought'
  BY <1>1, <1>2, <1>3 DEF NodesBrought
<1>4. ASSUME NEW w \in Worker, NEW t \in Sources, NEW x,
             Writing(w, t), node' = [node EXCEPT ![Message(w).id][Message(w).ver] = x]
      PROVE  NodesBrought'
  <2> DEFINE m == Message(w)
  <2>1. /\ t \in Topic /\ job[w].k \in 1..Len(log[t]) /\ m = log[t][job[w].k]
        /\ log' = log /\ applied' = applied \cup {<<t, job[w].k>>}
    BY <1>4, WritingTyped DEF Writing, Topic
  <2>2. m \in InstructionFact \cup InstructionEvent
    BY <2>1, MessagesTyped
  <2>3. PICK mi \in Instruction, mv \in Version : mi = m.id /\ mv = m.ver
    BY <2>2 DEF InstructionFact, InstructionEvent
  <2>4. From(t, mi, mv)'
    BY <2>1, <2>3 DEF Applied
  <2> SUFFICES ASSUME NEW i \in Instruction, NEW v \in Version, node'[i][v] # Null
               PROVE  \E u \in Sources : From(u, i, v)'
    BY DEF NodesBrought
  <2>5. CASE i = mi /\ v = mv
    BY <2>4, <2>5
  <2>6. CASE ~(i = mi /\ v = mv)
    <3>1. node'[i][v] = node[i][v]
      BY <1>4, <2>3, <2>6 DEF TypeOK
    <3>2. \E u \in Sources : From(u, i, v)
      BY <1>1, <3>1
    <3> HIDE DEF From
    <3> QED
      BY <1>2, <2>1, <3>2
  <2> QED
    BY <2>5, <2>6
<1>5. ASSUME NEW w \in Worker, WriteInstruction(w) PROVE NodesBrought'
  BY <1>4, <1>5 DEF WriteInstruction, Recorded
<1>6. ASSUME NEW w \in Worker, WriteEvent(w) PROVE NodesBrought'
  BY <1>4, <1>6 DEF WriteEvent
<1>7. ASSUME NEW w \in Worker, WritePayment(w) \/ WritePaymentEvent(w) PROVE NodesBrought'
  BY <1>3, <1>7 DEF WritePayment, WritePaymentEvent, Writing, graph
<1>8. CASE UNCHANGED vars
  BY <1>3, <1>8 DEF vars, graph
<1>9. ASSUME NEW w \in Worker, NEW t \in Topic, NEW k \in 1..Len(log[t]), Start(w, t, k)
      PROVE  NodesBrought'
  BY <1>3, <1>9 DEF Start, graph
<1>10. CASE \/ \E w \in Worker : Upsert(w) \/ FindConflicts(w) \/ Ack(w) \/ Fail(w)
            \/ \E t \in Topic : Park(t)
            \/ Crash
  BY <1>3, <1>10 DEF Upsert, FindConflicts, Ack, Fail, Park, Crash, graph
<1> QED
  BY <1>5, <1>6, <1>7, <1>8, <1>9, <1>10, Steps

LEMMA AnswersRestOn == Spec => []AnswersInv
<1>1. Init => AnswersInv
  <2> SUFFICES ASSUME Init PROVE AnswersInv
    OBVIOUS
  <2>1. TypeOK /\ OwnTopics
    BY InitTyped DEF Init, OwnTopics, Worker
  <2>2. applied = {} /\ (\A e \in Entity : current[e] = 0)
    BY DEF Init
  <2>3. \A e \in Entity : OpenVersions(e) = {}
    BY <2>2, OpenVersionsAre
  <2>4. VersionsAsRecorded
    BY <2>2 DEF VersionsAsRecorded, Applied
  <2>5. NothingLost
    BY DEF Init, NothingLost, Worker
  <2>6. NodesBrought
    BY DEF Init, NodesBrought
  <2> QED
    BY <2>1, <2>2, <2>3, <2>4, <2>5, <2>6 DEF AnswersInv, CurrentIsNewest
<1>2. AnswersInv /\ [Next]_vars => AnswersInv'
  BY NextTyped, NextNewest, NextRecorded, NextLosesNothing, NextBrings DEF AnswersInv
<1> QED
  BY <1>1, <1>2, PTL DEF Spec

-----------------------------------------------------------------------------
(* The reports, once everything is delivered *)

LEMMA SentAre ==
  ASSUME NEW t, NEW e, NEW f
  PROVE  f \in Sent(t, e) <=> \E k \in 1..Len(log[t]) : log[t][k].id = e /\ f = log[t][k]
BY DEF Sent

(* Nothing that was sent is still to be seen.                              *)
LEMMA AllSeen ==
  ASSUME AnswersInv, Quiet, NEW t \in Topic
  PROVE  Applied(t) = 1..Len(log[t]) /\ \A e : Seen(t, e) = Sent(t, e)
<1>1. \A k \in 1..Len(log[t]) : <<t, k>> \in applied
  BY DEF AnswersInv, NothingLost, Quiet
<1>2. Applied(t) = 1..Len(log[t])
  BY <1>1 DEF Applied
<1> QED
  BY <1>2 DEF Seen, Sent

(* What LogsAssumption says of the topics.                                 *)
LEMMA LogLaws ==
  ASSUME TypeOK
  PROVE  /\ \A t \in FactTopic : \A k \in 1..Len(log[t]) :
              \E j \in 1..Len(log[t]) :
                log[t][j].id = log[t][k].id /\ log[t][j].ver >= log[t][k].ver /\ log[t][j].open
         /\ \A k, j \in 1..Len(log["payments"]) :
              log["payments"][j].id = log["payments"][k].id
                => log["payments"][j].inst = log["payments"][k].inst
         /\ \A k \in 1..Len(log["payments"]) :
              \E j \in 1..Len(log["instructions"]) :
                log["instructions"][j].id = log["payments"][k].inst
         /\ \A k \in 1..Len(log["instruction_security_events"]) :
              \E j \in 1..Len(log["instructions"]) :
                /\ log["instructions"][j].id = log["instruction_security_events"][k].id
                /\ log["instructions"][j].ver = log["instruction_security_events"][k].ver
<1>1. log \in Logs
  BY DEF TypeOK
<1> QED
  BY <1>1, LogsAssumption

(* The topic with the rows of an entity. *)
RowsOf(e) == IF e \in Payment THEN "payments" ELSE "instructions"

LEMMA RowsOfTyped ==
  ASSUME NEW e \in Entity
  PROVE  /\ RowsOf(e) \in FactTopic /\ RowsOf(e) \in Topic
         /\ e \in Payment => RowsOf(e) = "payments"
         /\ e \in Instruction => RowsOf(e) = "instructions"
BY ConstantsAssumption DEF RowsOf, FactTopic, Topic, Entity

(* Only the rows of an entity open a version of it. *)
LEMMA OpenRowsAre ==
  ASSUME AnswersInv, Quiet, NEW e \in Entity, NEW v
  PROVE  v \in OpenVersions(e) <=> \E f \in Sent(RowsOf(e), e) : f.open /\ f.ver = v
<1> DEFINE t == RowsOf(e)
<1>1. t \in FactTopic /\ t \in Topic
  BY RowsOfTyped
<1>2. \A u \in FactTopic : \A k \in 1..Len(log[u]) : log[u][k].id = e => u = t
  <2> SUFFICES ASSUME NEW u \in FactTopic, NEW k \in 1..Len(log[u]), log[u][k].id = e
               PROVE  u = t
    OBVIOUS
  <2>1. /\ u = "instructions" => log[u][k] \in InstructionFact
        /\ u = "payments" => log[u][k] \in PaymentFact
    BY MessagesTyped DEF FactTopic, Topic, AnswersInv
  <2>2. (u = "instructions" => e \in Instruction) /\ (u = "payments" => e \in Payment)
    BY <2>1 DEF InstructionFact, PaymentFact
  <2> QED
    BY <2>2, RowsOfTyped DEF FactTopic
<1>3. \A k \in 1..Len(log[t]) : <<t, k>> \in applied
  BY <1>1, AllSeen DEF Applied
<1>4. v \in OpenVersions(e) <=>
         \E u \in FactTopic : \E k \in 1..Len(log[u]) :
           /\ <<u, k>> \in applied /\ log[u][k].id = e /\ log[u][k].open
           /\ log[u][k].ver = v
  BY OpenVersionsAre
<1>5. v \in OpenVersions(e) <=>
         \E k \in 1..Len(log[t]) : log[t][k].id = e /\ log[t][k].open /\ log[t][k].ver = v
  BY <1>1, <1>2, <1>3, <1>4
<1>6. \A f : f \in Sent(t, e) <=> \E k \in 1..Len(log[t]) : log[t][k].id = e /\ f = log[t][k]
  BY SentAre
<1> HIDE DEF t
<1>7. v \in OpenVersions(e) <=> \E f \in Sent(t, e) : f.open /\ f.ver = v
  BY <1>5, <1>6
<1> QED
  BY <1>7 DEF t

(* CURRENT is the newest row, and there is one as soon as there is any.    *)
LEMMA NewestRow ==
  ASSUME AnswersInv, Quiet, NEW e \in Entity
  PROVE  \/ /\ current[e] = 0
            /\ Sent(RowsOf(e), e) = {} /\ Newest(RowsOf(e), e) = {}
         \/ /\ current[e] # 0
            /\ \E f \in Sent(RowsOf(e), e) :
                 /\ f.ver = current[e] /\ Newest(RowsOf(e), e) = {f}
                 /\ \A g \in Sent(RowsOf(e), e) : g.ver <= f.ver /\ (g.ver = f.ver => g = f)
<1> DEFINE t == RowsOf(e)
           S == Sent(t, e)
<1>0. t \in FactTopic /\ t \in Topic
  BY RowsOfTyped
<1>1. \A f \in S : f.ver \in Nat \ {0}
  BY <1>0, FactsTyped, SentAre DEF AnswersInv
<1>2. current[e] \in Nat
  BY DEF AnswersInv, TypeOK
<1>3. \A f \in S : \E g \in S : g.open /\ g.ver >= f.ver
  <2> SUFFICES ASSUME NEW f \in S PROVE \E g \in S : g.open /\ g.ver >= f.ver
    OBVIOUS
  <2>1. PICK k \in 1..Len(log[t]) : log[t][k].id = e /\ f = log[t][k]
    BY SentAre
  <2>2. PICK j \in 1..Len(log[t]) :
          log[t][j].id = log[t][k].id /\ log[t][j].ver >= log[t][k].ver /\ log[t][j].open
    <3>1. TypeOK
      BY DEF AnswersInv
    <3>2. \A n \in 1..Len(log[t]) : \E j \in 1..Len(log[t]) :
            log[t][j].id = log[t][n].id /\ log[t][j].ver >= log[t][n].ver /\ log[t][j].open
      BY <1>0, <3>1, LogLaws, Zenon
    <3> QED
      BY <2>1, <3>2, Zenon
  <2> QED
    BY <2>1, <2>2, SentAre
<1>4. \A f, g \in S : f.ver = g.ver => f = g
  <2> SUFFICES ASSUME NEW f \in S, NEW g \in S, f.ver = g.ver PROVE f = g
    OBVIOUS
  <2>1. PICK k \in 1..Len(log[t]) : log[t][k].id = e /\ f = log[t][k]
    BY SentAre
  <2>2. PICK j \in 1..Len(log[t]) : log[t][j].id = e /\ g = log[t][j]
    BY SentAre
  <2>3. log \in Logs
    BY DEF AnswersInv, TypeOK
  <2>4. \A m, n \in 1..Len(log[t]) :
          log[t][n].id = log[t][m].id /\ log[t][n].ver = log[t][m].ver => n = m
    <3>1. \A u \in FactTopic : \A m, n \in 1..Len(log[u]) :
            log[u][n].id = log[u][m].id /\ log[u][n].ver = log[u][m].ver => n = m
      BY <2>3, LogsAssumption
    <3> QED
      BY <1>0, <3>1
  <2>5. j = k
    BY <2>1, <2>2, <2>4
  <2> QED
    BY <2>1, <2>2, <2>5
<1>5. \A f \in S : f.ver <= current[e]
  <2> SUFFICES ASSUME NEW f \in S PROVE f.ver <= current[e]
    OBVIOUS
  <2>1. PICK g \in S : g.open /\ g.ver >= f.ver
    BY <1>3
  <2>2. g.ver <= current[e]
    BY <2>1, OpenRowsAre DEF AnswersInv, CurrentIsNewest
  <2> QED
    BY <1>1, <1>2, <2>1, <2>2
<1> HIDE DEF S
<1>6. CASE current[e] = 0
  <2>1. S = {}
    BY <1>1, <1>5, <1>6
  <2> QED
    BY <1>6, <2>1 DEF Newest, S
<1>7. CASE current[e] # 0
  <2>1. current[e] \in OpenVersions(e)
    BY <1>7 DEF AnswersInv, CurrentIsNewest
  <2>2. PICK f \in S : f.ver = current[e]
    BY <2>1, OpenRowsAre DEF S
  <2>3. \A g \in S : g.ver <= f.ver /\ (g.ver = f.ver => g = f)
    BY <1>4, <1>5, <2>2
  <2>4. Newest(t, e) = {g \in S : \A h \in S : h.ver <= g.ver}
    BY DEF Newest, S
  <2>5. Newest(t, e) = {f}
    BY <1>1, <2>2, <2>3, <2>4
  <2> QED
    BY <1>7, <2>2, <2>3, <2>5 DEF S
<1> QED
  BY <1>6, <1>7

(* The version nodes of an instruction are its rows.                       *)
LEMMA VersionsAreRows ==
  ASSUME AnswersInv, Quiet, NEW i \in Instruction
  PROVE  /\ \A v \in Versions(i) : \E f \in Sent("instructions", i) : f.ver = v
         /\ \A f \in Sent("instructions", i) :
              /\ f.ver \in Versions(i)
              /\ \E x \in {f} \cup FiledUnder(i, f.ver) : node[i][f.ver].status = x.status
<1>1. \A v \in Versions(i) : \E f \in Sent("instructions", i) : f.ver = v
  <2> SUFFICES ASSUME NEW v \in Versions(i)
               PROVE  \E k \in 1..Len(log["instructions"]) :
                        log["instructions"][k].id = i /\ log["instructions"][k].ver = v
    BY SentAre
  <2>1. v \in Version /\ node[i][v] # Null
    BY DEF Versions
  <2>2. PICK t \in {"instructions", "instruction_security_events"} :
          \E k \in Applied(t) : log[t][k].id = i /\ log[t][k].ver = v
    BY <2>1 DEF AnswersInv, NodesBrought
  <2>3. PICK k \in 1..Len(log[t]) : log[t][k].id = i /\ log[t][k].ver = v
    BY <2>2 DEF Applied
  <2>4. CASE t = "instructions"
    BY <2>3, <2>4
  <2>5. CASE t = "instruction_security_events"
    <3>1. TypeOK
      BY DEF AnswersInv
    <3>2. k \in 1..Len(log["instruction_security_events"])
      BY <2>3, <2>5
    <3>3. PICK j \in 1..Len(log["instructions"]) :
            /\ log["instructions"][j].id = log["instruction_security_events"][k].id
            /\ log["instructions"][j].ver = log["instruction_security_events"][k].ver
      BY <3>1, <3>2, LogLaws, Zenon
    <3> QED
      BY <2>3, <2>5, <3>3
  <2> QED
    BY <2>2, <2>4, <2>5
<1>2. ASSUME NEW f \in Sent("instructions", i)
      PROVE  /\ f.ver \in Versions(i)
             /\ \E x \in {f} \cup FiledUnder(i, f.ver) : node[i][f.ver].status = x.status
  <2>1. PICK k \in 1..Len(log["instructions"]) :
          log["instructions"][k].id = i /\ f = log["instructions"][k]
    BY SentAre
  <2>2. k \in Applied("instructions") /\ "instructions" \in Topic
    BY AllSeen DEF Topic
  <2>3. f.ver \in Version
    BY <2>1, <2>2, MessagesTyped DEF InstructionFact, AnswersInv
  <2> QED
    BY <2>1, <2>2, <2>3 DEF AnswersInv, VersionsAsRecorded, Versions
<1> QED
  BY <1>1, <1>2

(* The three ways to the version of an instruction, and its newest row.    *)
LEMMA InstructionLookup ==
  ASSUME AnswersInv, Quiet, NEW i \in Instruction
  PROVE  \/ /\ current[i] = 0 /\ Versions(i) = {}
            /\ Sent("instructions", i) = {} /\ Newest("instructions", i) = {}
         \/ /\ current[i] # 0 /\ Versions(i) # {} /\ Latest(i) = current[i]
            /\ \E f \in Sent("instructions", i) :
                 /\ Newest("instructions", i) = {f} /\ Remembered(i) = {f.status}
                 /\ EventsTruthful => node[i][current[i]].status = f.status
<1>1. i \in Entity /\ RowsOf(i) = "instructions" /\ "instructions" \in Topic
  BY RowsOfTyped DEF Entity, Topic
<1>2. CASE current[i] = 0
  <2>1. Sent("instructions", i) = {} /\ Newest("instructions", i) = {}
    BY <1>1, <1>2, NewestRow
  <2> QED
    BY <1>2, <2>1, VersionsAreRows
<1>3. CASE current[i] # 0
  <2>1. PICK f \in Sent("instructions", i) :
          /\ f.ver = current[i] /\ Newest("instructions", i) = {f}
          /\ \A g \in Sent("instructions", i) : g.ver <= f.ver /\ (g.ver = f.ver => g = f)
    BY <1>1, <1>3, NewestRow
  <2>2. current[i] \in Versions(i) /\ current[i] \in Nat
    BY <1>1, <2>1, VersionsAreRows DEF AnswersInv, TypeOK
  <2>3. \A v \in Versions(i) : v \in Nat /\ v <= current[i]
    BY <2>1, VersionsAreRows DEF Versions, Version
  <2>4. Latest(i) = current[i]
    BY <2>2, <2>3 DEF Latest, Max
  <2>5. Remembered(i) = {f.status}
    <3>1. Seen("instructions", i) = Sent("instructions", i)
      BY <1>1, AllSeen
    <3>2. {g \in Sent("instructions", i) : g.ver = current[i]} = {f}
      BY <2>1
    <3> QED
      BY <3>1, <3>2 DEF Remembered
  <2>6. ASSUME EventsTruthful PROVE node[i][current[i]].status = f.status
    <3>1. \A e \in FiledUnder(i, f.ver) : e.status = f.status
      BY <2>1, <2>6 DEF EventsTruthful
    <3>2. \E x \in {f} \cup FiledUnder(i, f.ver) : node[i][f.ver].status = x.status
      BY VersionsAreRows
    <3> QED
      BY <2>1, <3>1, <3>2
  <2> QED
    BY <1>3, <2>1, <2>2, <2>4, <2>5, <2>6
<1> QED
  BY <1>2, <1>3

(* A payment has an instruction, and that has rows.                        *)
LEMMA PaymentsHaveRows ==
  ASSUME AnswersInv, Quiet, NEW i \in Instruction, Payments(i) # {}
  PROVE  Sent("instructions", i) # {}
<1>1. PICK p \in Payment : \E f \in Seen("payments", p) : f.inst = i
  BY DEF Payments
<1>2. PICK f \in Sent("payments", p) : f.inst = i
  BY <1>1, AllSeen DEF Topic
<1>3. PICK k \in 1..Len(log["payments"]) : f = log["payments"][k]
  BY SentAre
<1>4. PICK j \in 1..Len(log["instructions"]) : log["instructions"][j].id = i
  BY <1>2, <1>3, LogLaws DEF AnswersInv
<1> QED
  BY <1>4, SentAre

LEMMA RootsHaveRows ==
  ASSUME AnswersInv, Quiet, NEW i \in Instruction
  PROVE  /\ i \in Roots <=> current[i] # 0
         /\ i \in Roots <=> Sent("instructions", i) # {}
<1>1. Sent("instructions", i) # {} <=> current[i] # 0
  BY InstructionLookup
<1>2. Versions(i) # {} <=> current[i] # 0
  BY InstructionLookup
<1>3. i \in Roots <=> Versions(i) # {} \/ Payments(i) # {}
  BY DEF Roots
<1> QED
  BY <1>1, <1>2, <1>3, PaymentsHaveRows

(* Once everything is delivered, the inventory, the counts and the reports *)
(* that read the root node give every stored instruction the status of its *)
(* newest row, unless an event filed under that row says otherwise.        *)
THEOREM InstructionsAnsweredAlike == Spec => []InstructionAnswersAgree
<1>1. ASSUME AnswersInv PROVE InstructionAnswersAgree
  <2> SUFFICES ASSUME Quiet, EventsTruthful
               PROVE  /\ Inventory = StoredInstructions /\ Counted = StoredInstructions
                      /\ {[id |-> a.id, status |-> a.status] : a \in PaymentCounts}
                           = {[id |-> s.id, status |-> {s.status}] : s \in StoredInstructions}
    BY DEF InstructionAnswersAgree
  <2>1. \A a : a \in StoredInstructions <=>
          \E i \in Instruction : current[i] # 0 /\ a = StatusAt(i, current[i])
    <3> SUFFICES ASSUME NEW a
                 PROVE  a \in StoredInstructions <=>
                          \E i \in Instruction : current[i] # 0 /\ a = StatusAt(i, current[i])
      OBVIOUS
    <3>1. a \in StoredInstructions <=>
            \E i \in Instruction : \E f \in Newest("instructions", i) :
              a = [id |-> i, status |-> f.status]
      BY DEF StoredInstructions
    <3>2. \A i \in Instruction :
            (\E f \in Newest("instructions", i) : a = [id |-> i, status |-> f.status])
              <=> current[i] # 0 /\ a = StatusAt(i, current[i])
      BY <1>1, InstructionLookup DEF StatusAt
    <3> QED
      BY <3>1, <3>2
  <2>2. Inventory = StoredInstructions
    BY <2>1 DEF Inventory
  <2>3. Counted = StoredInstructions
    <3>1. \A i \in Instruction :
            /\ Versions(i) # {} <=> current[i] # 0
            /\ current[i] # 0 => Latest(i) = current[i]
      BY <1>1, InstructionLookup
    <3> QED
      BY <2>1, <3>1 DEF Counted
  <2>4. \A b : b \in {[id |-> a.id, status |-> a.status] : a \in PaymentCounts} <=>
          \E i \in Instruction : current[i] # 0 /\ b = [id |-> i, status |-> Remembered(i)]
    <3>1. \A a : a \in PaymentCounts <=>
            \E i \in Roots : a = [id |-> i, status |-> Remembered(i),
                                 count |-> Cardinality(Payments(i))]
      BY DEF PaymentCounts
    <3>2. \A i \in Roots : \E a \in PaymentCounts : a.id = i /\ a.status = Remembered(i)
      <4> TAKE i \in Roots
      <4> DEFINE a == [id |-> i, status |-> Remembered(i), count |-> Cardinality(Payments(i))]
      <4>1. a \in PaymentCounts
        BY DEF PaymentCounts
      <4> QED
        BY <4>1
    <3>3. \A a \in PaymentCounts : a.id \in Roots /\ a.status = Remembered(a.id)
      BY <3>1
    <3>4. \A i : i \in Roots <=> i \in Instruction /\ current[i] # 0
      BY <1>1, RootsHaveRows DEF Roots
    <3>5. \A b : (\E a \in PaymentCounts : b = [id |-> a.id, status |-> a.status]) <=>
            \E i \in Roots : b = [id |-> i, status |-> Remembered(i)]
      BY <3>2, <3>3
    <3>6. \A b : (\E i \in Roots : b = [id |-> i, status |-> Remembered(i)]) <=>
            \E i \in Instruction : current[i] # 0 /\ b = [id |-> i, status |-> Remembered(i)]
      BY <3>4
    <3>7. \A b : b \in {[id |-> a.id, status |-> a.status] : a \in PaymentCounts} <=>
            \E a \in PaymentCounts : b = [id |-> a.id, status |-> a.status]
      OBVIOUS
    <3> QED
      BY <3>5, <3>6, <3>7
  <2>5. \A b : b \in {[id |-> s.id, status |-> {s.status}] : s \in StoredInstructions} <=>
          \E i \in Instruction :
            current[i] # 0 /\ b = [id |-> i, status |-> {node[i][current[i]].status}]
    <3>1. \A s \in StoredInstructions :
            /\ s.id \in Instruction /\ current[s.id] # 0
            /\ s.status = node[s.id][current[s.id]].status
      BY <2>1 DEF StatusAt
    <3>2. \A i \in Instruction : current[i] # 0 =>
            \E s \in StoredInstructions : s.id = i /\ s.status = node[i][current[i]].status
      <4> SUFFICES ASSUME NEW i \in Instruction, current[i] # 0
                   PROVE  \E s \in StoredInstructions :
                            s.id = i /\ s.status = node[i][current[i]].status
        OBVIOUS
      <4>1. StatusAt(i, current[i]) \in StoredInstructions
        BY <2>1
      <4> QED
        BY <4>1 DEF StatusAt
    <3>3. \A b : (\E s \in StoredInstructions : b = [id |-> s.id, status |-> {s.status}]) <=>
            \E i \in Instruction :
              current[i] # 0 /\ b = [id |-> i, status |-> {node[i][current[i]].status}]
      BY <3>1, <3>2
    <3>4. \A b : b \in {[id |-> s.id, status |-> {s.status}] : s \in StoredInstructions} <=>
            \E s \in StoredInstructions : b = [id |-> s.id, status |-> {s.status}]
      OBVIOUS
    <3> QED
      BY <3>3, <3>4
  <2>6. \A i \in Instruction :
          current[i] # 0 => Remembered(i) = {node[i][current[i]].status}
    BY <1>1, InstructionLookup
  <2> QED
    BY <2>2, <2>3, <2>4, <2>5, <2>6
<1> QED
  BY <1>1, AnswersRestOn, PTL

(* A payment's newest row, and the ways to it.  An event's version without *)
(* a status takes no part, above the newest row or below.                  *)
LEMMA PaymentLookup ==
  ASSUME AnswersInv, Quiet, NEW p \in Payment
  PROVE  \/ /\ current[p] = 0 /\ Sent("payments", p) = {} /\ Newest("payments", p) = {}
            /\ LatestStatus(p) = {}
         \/ /\ current[p] # 0
            /\ \E f \in Sent("payments", p) :
                 /\ Newest("payments", p) = {f}
                 /\ \A g \in Sent("payments", p) : g.inst = f.inst
                 /\ LatestStatus(p) = {[id |-> p, status |-> PaymentStatus[f.action]]}
                 /\ PaymentDetail(p) = {[id |-> p, status |-> PaymentStatus[f.action]]}
<1> DEFINE S == Sent("payments", p)
           row(f) == [ver |-> f.ver, status |-> PaymentStatus[f.action]]
           known == {n \in PaymentVersions(p) : n.status # Null}
           told(M) == {[id |-> p, status |-> n.status] : n \in M}
<1>1. /\ p \in Entity /\ RowsOf(p) = "payments"
      /\ "payments" \in Topic /\ "payment_security_events" \in Topic
  BY RowsOfTyped DEF Entity, Topic
<1>2. \A f \in S : f \in PaymentFact
  BY <1>1, SentAre, MessagesTyped DEF AnswersInv
<1>3. \A f \in S : PaymentStatus[f.action] # Null
  BY <1>2, ConstantsAssumption DEF PaymentFact, PaymentAction, PaymentStatus, InstructionStatus
<1>4. \A n : n \in PaymentVersions(p) <=>
        \/ \E f \in S : n = row(f)
        \/ \E e \in Sent("payment_security_events", p) :
             (\A f \in S : f.ver # e.ver) /\ n = [ver |-> e.ver, status |-> Null]
  BY <1>1, AllSeen DEF PaymentVersions
<1>5. \A n : n \in known <=> \E f \in S : n = row(f)
  BY <1>3, <1>4
<1>6. LatestStatus(p) = told({m \in known : \A o \in known : o.ver <= m.ver})
  BY DEF LatestStatus
<1>7. PaymentDetail(p) = told({m \in PaymentVersions(p) : m.ver = current[p]})
  BY DEF PaymentDetail
<1>8. \A f \in S : told({row(f)}) = {[id |-> p, status |-> PaymentStatus[f.action]]}
  OBVIOUS
<1>9. told({}) = {}
  OBVIOUS
<1> HIDE DEF known, told
<1>10. CASE current[p] = 0
  <2>1. S = {} /\ Newest("payments", p) = {}
    BY <1>1, <1>10, NewestRow
  <2>2. known = {}
    BY <1>5, <2>1
  <2> QED
    BY <1>6, <1>10, <1>9, <2>1, <2>2
<1>11. CASE current[p] # 0
  <2>1. PICK f \in S :
          /\ f.ver = current[p] /\ Newest("payments", p) = {f}
          /\ \A g \in S : g.ver <= f.ver /\ (g.ver = f.ver => g = f)
    BY <1>1, <1>11, NewestRow
  <2>2. \A g \in S : g.inst = f.inst
    BY LogLaws, SentAre DEF AnswersInv
  <2>3. {m \in known : \A o \in known : o.ver <= m.ver} = {row(f)}
    <3>1. row(f) \in known
      BY <1>5
    <3>2. \A o \in known : \E g \in S : o = row(g) /\ o.ver = g.ver /\ g.ver <= f.ver
      BY <1>5, <2>1
    <3>3. \A o \in known : o.ver <= row(f).ver
      BY <3>2
    <3>4. ASSUME NEW m \in known, \A o \in known : o.ver <= m.ver
          PROVE  m = row(f)
      <4>1. PICK g \in S : m = row(g) /\ m.ver = g.ver /\ g.ver <= f.ver
        BY <3>2
      <4>2. f.ver <= g.ver
        BY <3>1, <3>4, <4>1
      <4>3. g.ver = f.ver
        BY <1>2, <4>1, <4>2 DEF PaymentFact
      <4> QED
        BY <2>1, <4>1, <4>3
    <3> QED
      BY <3>1, <3>3, <3>4
  <2>4. LatestStatus(p) = {[id |-> p, status |-> PaymentStatus[f.action]]}
    BY <1>6, <1>8, <2>3
  <2>5. {m \in PaymentVersions(p) : m.ver = current[p]} = {row(f)}
    <3>1. row(f) \in PaymentVersions(p) /\ row(f).ver = current[p]
      BY <1>4, <2>1
    <3>2. ASSUME NEW m \in PaymentVersions(p), m.ver = current[p] PROVE m = row(f)
      BY <1>4, <2>1, <3>2
    <3> QED
      BY <3>1, <3>2
  <2>6. PaymentDetail(p) = {[id |-> p, status |-> PaymentStatus[f.action]]}
    BY <1>7, <1>8, <2>5
  <2> QED
    BY <1>11, <2>1, <2>2, <2>4, <2>6
<1> QED
  BY <1>10, <1>11

(* The payments the graph shows for an instruction are those stored.       *)
LEMMA PaymentsAreStored ==
  ASSUME AnswersInv, Quiet, NEW i \in Instruction
  PROVE  /\ \A p \in Payment : p \in Payments(i) <=>
              current[p] # 0 /\ \E f \in Newest("payments", p) : f.inst = i
         /\ PaymentsFor(i) = StoredPayments(i)
         /\ PaymentsFor(i) = UNION {PaymentDetail(p) : p \in Payments(i)}
<1>1. \A p \in Payment : p \in Payments(i) <=>
        current[p] # 0 /\ \E f \in Newest("payments", p) : f.inst = i
  <2> SUFFICES ASSUME NEW p \in Payment
               PROVE  p \in Payments(i) <=>
                        current[p] # 0 /\ \E f \in Newest("payments", p) : f.inst = i
    OBVIOUS
  <2>1. Seen("payments", p) = Sent("payments", p)
    BY AllSeen DEF Topic
  <2>2. p \in Payments(i) <=> current[p] # 0 /\ \E f \in Sent("payments", p) : f.inst = i
    BY <2>1 DEF Payments
  <2> QED
    BY <2>2, PaymentLookup
<1>2. \A p \in Payments(i) : p \in Payment /\ LatestStatus(p) = PaymentDetail(p)
  BY PaymentLookup DEF Payments
<1>3. PaymentsFor(i) = UNION {PaymentDetail(p) : p \in Payments(i)}
  BY <1>2 DEF PaymentsFor
<1>4. \A a : a \in StoredPayments(i) <=>
        \E p \in Payment : \E f \in Newest("payments", p) :
          f.inst = i /\ a = [id |-> p, status |-> PaymentStatus[f.action]]
  BY DEF StoredPayments
<1>5. \A a : a \in PaymentsFor(i) <=> \E p \in Payments(i) : a \in LatestStatus(p)
  BY DEF PaymentsFor
<1>6. \A a : \A p \in Payment :
        p \in Payments(i) /\ a \in LatestStatus(p) <=>
          \E f \in Newest("payments", p) :
            f.inst = i /\ a = [id |-> p, status |-> PaymentStatus[f.action]]
  BY <1>1, PaymentLookup
<1>7. \A a : a \in PaymentsFor(i) <=> a \in StoredPayments(i)
  BY <1>2, <1>4, <1>5, <1>6
<1> QED
  BY <1>1, <1>3, <1>7

(* As many payments as answers about them.                                 *)
LEMMA PaymentsAreCounted ==
  ASSUME AnswersInv, Quiet, NEW i \in Instruction
  PROVE  /\ IsFiniteSet(Payments(i))
         /\ Cardinality(PaymentsFor(i)) = Cardinality(Payments(i))
         /\ Payments(i) = {} <=> StoredPayments(i) = {}
<1>1. Len(log["payments"]) \in Nat /\ "payments" \in Topic
  BY LengthsTyped DEF Topic, AnswersInv
<1>2. IsFiniteSet(Payments(i))
  <2> DEFINE D == {k \in 1..Len(log["payments"]) : log["payments"][k].id \in Payments(i)}
             id == [k \in D |-> log["payments"][k].id]
  <2>1. IsFiniteSet(1..Len(log["payments"]))
    BY <1>1, FS_Interval
  <2>2. IsFiniteSet(D)
    BY <2>1, FS_Subset
  <2>3. \A p \in Payments(i) : \E k \in D : log["payments"][k].id = p
    <3> TAKE p \in Payments(i)
    <3>1. PICK f \in Seen("payments", p) : f.inst = i
      BY DEF Payments
    <3>2. f \in Sent("payments", p)
      BY <1>1, AllSeen
    <3> QED
      BY <3>2, SentAre
  <2>4. id \in Surjection(D, Payments(i))
    BY <2>3 DEF Surjection
  <2> QED
    BY <2>2, <2>4, FS_Surjection
<1>3. \A p \in Payments(i) : \E s : LatestStatus(p) = {[id |-> p, status |-> s]}
  BY PaymentLookup DEF Payments
<1> DEFINE shown == [p \in Payments(i) |-> CHOOSE a : LatestStatus(p) = {a}]
<1>4. \A p \in Payments(i) : LatestStatus(p) = {shown[p]} /\ shown[p].id = p
  <2> TAKE p \in Payments(i)
  <2>1. PICK s : LatestStatus(p) = {[id |-> p, status |-> s]}
    BY <1>3
  <2>2. LatestStatus(p) = {shown[p]}
    BY <2>1
  <2> HIDE DEF shown
  <2>3. shown[p] = [id |-> p, status |-> s]
    BY <2>1, <2>2
  <2> QED
    BY <2>2, <2>3
<1> HIDE DEF shown
<1>5. shown \in Bijection(Payments(i), PaymentsFor(i))
  <2>1. \A a : a \in PaymentsFor(i) <=> \E p \in Payments(i) : a = shown[p]
    BY <1>4 DEF PaymentsFor
  <2>2. shown \in [Payments(i) -> PaymentsFor(i)]
    BY <2>1 DEF shown
  <2>3. \A p, q \in Payments(i) : shown[p] = shown[q] => p = q
    BY <1>4
  <2> QED
    BY <2>1, <2>2, <2>3 DEF Bijection, Injection, Surjection, IsInjective
<1>6. Cardinality(PaymentsFor(i)) = Cardinality(Payments(i))
  BY <1>2, <1>5, FS_Bijection DEF ExistsBijection
<1>7. Payments(i) = {} <=> PaymentsFor(i) = {}
  BY <1>4 DEF PaymentsFor
<1> QED
  BY <1>2, <1>6, <1>7, PaymentsAreStored

(* The same for payments: every list and count has exactly the stored      *)
(* payments at their newest status, whether it starts at the payment or at *)
(* its instruction; so the instruction with most payments has most, and    *)
(* those reported to have none have none.                                  *)
THEOREM PaymentsAnsweredAlike == Spec => []PaymentAnswersAgree
<1>1. ASSUME AnswersInv PROVE PaymentAnswersAgree
  <2> SUFFICES ASSUME Quiet
               PROVE  /\ PaymentList = UNION {StoredPayments(i) : i \in Instruction}
                      /\ \A i \in Instruction :
                           i \in MostPayments => \A j \in Instruction :
                             Cardinality(StoredPayments(j)) <= Cardinality(PaymentsFor(i))
                      /\ WithoutPayments =
                           {i \in Instruction :
                              Sent("instructions", i) # {} /\ StoredPayments(i) = {}}
    BY <1>1, PaymentsAreStored DEF PaymentAnswersAgree
  <2>1. PaymentList = UNION {StoredPayments(i) : i \in Instruction}
    <3>1. \A a : a \in PaymentList <=> \E p \in Payment : a \in LatestStatus(p)
      BY DEF PaymentList
    <3>2. \A p \in Payment : LatestStatus(p) # {} => \E i \in Instruction : p \in Payments(i)
      <4> SUFFICES ASSUME NEW p \in Payment, LatestStatus(p) # {}
                   PROVE  \E i \in Instruction : p \in Payments(i)
        OBVIOUS
      <4>1. current[p] # 0 /\ \E f \in Sent("payments", p) : Newest("payments", p) = {f}
        BY <1>1, PaymentLookup
      <4>2. PICK f \in Sent("payments", p) : Newest("payments", p) = {f}
        BY <4>1
      <4>3. f \in PaymentFact
        BY <1>1, SentAre, MessagesTyped DEF AnswersInv, Topic
      <4>4. f.inst \in Instruction
        BY <4>3 DEF PaymentFact
      <4> QED
        BY <1>1, <4>1, <4>2, <4>4, PaymentsAreStored
    <3>3. \A a : a \in PaymentList <=> \E i \in Instruction : a \in PaymentsFor(i)
      BY <3>1, <3>2 DEF PaymentsFor, Payments
    <3> QED
      BY <1>1, <3>3, PaymentsAreStored
  <2>2. ASSUME NEW i \in Instruction, i \in MostPayments, NEW j \in Instruction
        PROVE  Cardinality(StoredPayments(j)) <= Cardinality(PaymentsFor(i))
    <3>1. Cardinality(Payments(j)) <= Cardinality(Payments(i))
      <4>1. CASE j \in Roots
        BY <2>2, <4>1 DEF MostPayments
      <4>2. CASE j \notin Roots
        <5>1. Payments(j) = {}
          BY <4>2 DEF Roots
        <5>2. Cardinality(Payments(j)) = 0 /\ Cardinality(Payments(i)) \in Nat
          BY <1>1, <5>1, PaymentsAreCounted, FS_EmptySet, FS_CardinalityType
        <5> QED
          BY <5>2
      <4> QED
        BY <4>1, <4>2
    <3> QED
      BY <1>1, <3>1, PaymentsAreCounted, PaymentsAreStored
  <2>3. WithoutPayments =
          {i \in Instruction : Sent("instructions", i) # {} /\ StoredPayments(i) = {}}
    <3>1. \A i \in Instruction :
            /\ i \in Roots <=> Sent("instructions", i) # {}
            /\ Payments(i) = {} <=> StoredPayments(i) = {}
      BY <1>1, RootsHaveRows, PaymentsAreCounted
    <3> QED
      BY <3>1 DEF WithoutPayments, Roots
  <2> QED
    BY <2>1, <2>2, <2>3
<1> QED
  BY <1>1, AnswersRestOn, PTL
=============================================================================
