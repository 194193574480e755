# A verification project for policy-pilot

policy-pilot keeps standing settlement instructions and the payments made on
them.  Two services own the data, a policy engine decides who may do what,
every decision is audited, an indexer copies everything into a graph, and a chat
answers from the graph and carries out payment skills.  This directory holds TLA+
modules for the parts where concurrency, failure and order matter, the
configurations that check them with TLC, and theorems about them that TLAPS checks.

    tlc -workers 2 -config InstructionService.cfg MCInstructionService
    tlapm InstructionServiceProofs.tla

`PROJECT.json` lists runs, mutants, hazards, findings and theorems, and maps
every definition to the lines it models.

## Inventory

| Component | State | Operations | Talks to |
|-----------|-------|------------|----------|
| instruction-service | `instructions`: append-only version rows, `out` marks the current one; security events | create, update, submit, approve, reject, cancel, suspend, reactivate, use, release use, view | sequence-service, authorization-service (HTTP); MongoDB transactions |
| payment-service | `payments`: the same kind of rows; its security events; links to audit executions | create, update, submit, approve, reject, cancel | instruction-service (HTTP), sequence-service, authorization-service |
| sequence-service | one counter per key | allocate the next number | MongoDB `find_one_and_update` |
| authorization-service | a copy of the user directory for up to its TTL | resolve tokens, evaluate, explain, list who could act, summarise permissions, health | OPA, Zitadel |
| opa-policy-seed | the policies OPA has compiled | the rules themselves; a script that replaces them file by file | OPA |
| kafka-connect | external | delivers every insert, in order within a topic, at least once | Kafka |
| ssi-indexer, delivery | committed offset, dead letters with status, attempts and lease, pause flags in memory | consume, retry, quarantine, pause, resume, drain, retry now, reset | Kafka, MongoDB, the pipelines |
| ssi-indexer, graph | instruction and payment versions, `CURRENT`, `CONSUMED`, search documents | upsert a fact or an event, write a search document | Neo4j, a model service for embeddings |
| cypher_builder | none | turn questions into queries of the graph | Neo4j |
| ssi-chat-j | runs of payment skills that wait for Go (in memory) | answer; check, confirm and carry out a skill | Neo4j, authorization-service, payment-service |
| ssi-demo-harness | a copy of the user directory | batches over instructions and payments, fixtures and their teardown | both services, as the users it picks |
| platform_auth and its copies in the services | none | turn a token into a subject | Zitadel |
| audit-service | none | queries over the security events | MongoDB |
| telemetry, model clients, seeds, dashboards | none that matters | | |

What is hard, and what makes each part correct:

* **One document, several requests.**  Every operation reads the current row,
  judges that copy, awaits a policy decision and only then opens a transaction,
  which works on whatever row is current by then.  The chain of versions must
  stay whole, every version must be a legal step from *something* that was
  stored, and audit and history must agree.
* **A transaction with an HTTP call inside.**  The event number comes from
  another service while the transaction is open.  Version and event are stored
  together or not at all; numbers may be lost, never repeated.
* **A saga over two services.**  Submitting a payment on a single-use
  instruction marks that instruction first and withdrawing it releases the
  instruction afterwards, without a transaction and without a user's retry:
  time-outs, late execution, crashes and other people's edits fall in between.
* **At-least-once indexing.**  A message is applied, retried, quarantined or
  waited for; the offset, the graph and the dead letters are three stores.
  Nothing may be lost silently, nothing may wait for ever.
* **Three ways to look for a version.**  Reports follow `CURRENT`, take the
  highest number, or read what the root remembers.  Topics overtake each other,
  and still two questions about one fact must not get two answers.
* **One rule in several places.**  A token is resolved by code copied into five
  services.  What Rego decides is repeated in Python, as filters of eligible
  people, as permission summaries and as the harness's choice of actors.  The
  copies must not drift apart, and each decision is put together from separate
  queries to an OPA whose policies may be replaced in between.
* **A confirmation minutes later.**  A skill checks now and acts on Go: by then
  permissions, payment and instruction may have changed, Go may come twice, No
  Go may race it, and the call may outlive the client that waits for it.  A run
  may act once at most, and what is told and recorded must be what happened.

## Modules

| Module | Models |
|--------|--------|
| `VersionedRows` | the versioned collection both services share (`repository.py`): closing a row, inserting its successor, what a whole chain is |
| `InstructionService` | request handlers of instruction-service over that collection, with security events, event numbers, transactions, conflicts and crashes |
| `AuditLedger` | abstract specification: a ledger that only grows, in which a version and the event that accounts for it appear in one step |
| `PaymentSaga` | payment requests and the part of instruction-service they drive |
| `IndexerDlq` | a consumer of a partition, the dead letter queue and its workers |
| `GraphIndex` | what the consumers and the replays write to the graph and to the search documents |
| `GraphAnswers` | extends it with the reports of cypher_builder over that graph |
| `LifecyclePolicy` | the rules of both Rego packages as operators: allow, violations, catalogs |
| `PolicyStore` | the policies OPA has loaded and the script that replaces them |
| `Identity` | how each service turns tokens into a subject |
| `Authorization` | composes these three: evaluations, eligibility lists over a cached directory, consoles, profile changes |
| `DemoHarness` | extends `Authorization` with the harness, next to other clients |
| `PaymentSkills` | the payment skills of the chat, the calls they make and the audit executions |
| `MC...` | what TLC needs: symmetric sets, directories and documents, what the topics hold, campaigns |
| `InstructionServiceProofs`, `PaymentSagaProofs`, `PaymentSoloProofs`, `IndexerDlqProofs`, `GraphIndexProofs`, `AuthorizationProofs`, `DemoHarnessProofs`, `PaymentSkillsProofs` | theorems (see "Theorems") |

### InstructionService

`rows` is the collection, one record per version; `events` the security events;
`counter` and `allocated` are what sequence-service has given out.  A request
handler `h` walks through the phases `pc[h]`; each arrow is an `await` in the
code and every other handler may run at it.

    idle --operation--> loaded --Permit--> permitted --FindCurrent--> found
         (read, check, compute)                        (first read of the transaction)
      --WriteVersion--> written --NumberEvent--> numbered --Commit--> idle
        loaded --Deny--> refused --RecordRefusal--> idle

`Create` ... `ReleaseUse` and `View` are the service's operations: the guard is
the status check, the body what the operation computes from the copy it read.
The transaction is MongoDB's snapshot isolation as the code uses it: the first
read fixes the row, `WriteVersion` goes through only if nobody changed or is
changing that row since, otherwise `Conflict`.  `LoseNumber` is an event number
that is not answered (consumed or not), `Abort` any database error, `Crash` the
death of the process, after which an open transaction keeps its conflicts until
`ExpireTransaction`.  A policy decision is a free choice, restricted by the two
rules that relate the subject to the document (an approver is not the author,
who suspended does not reactivate): roles, groups and lines of business would
only remove behaviours.  `base` is auxiliary: the version a body was computed
from.

### PaymentSaga

An instruction here is the sequence of its versions, each with the call that
made it; `OwnerEdits` stands for everybody else's operations on it, and may
take any lifecycle step from any earlier version, which is what
`InstructionService!LegalLineage` establishes.  `lapsed` says that the dates
ran out.  A payment request holds a copy of the payment, fetches the instruction
(`FetchFor...`), for a single-use submission checks that no other payment is
pending (`CheckExclusive`), calls USE (`ReadForUse`, `Use`), fetches again
(`FetchAfterUse`), and appends (`Save`); a withdrawal then releases
(`ReadForRelease`, `Release`).  A call in progress is two steps on the other
side, read and write, and lives on when its caller times out (`Timeout`) or dies
(`Crash`).  Two constants say what environment a run has: `Overlap` lets
requests for one document overlap, `Faults` lets calls and writes fail.  The
commit of a version and its event is not repeated here: payment-service has
instruction-service's repository code.

### IndexerDlq

`committed` is the group's offset, `indexed` the messages whose pipeline call
completed, `rows` the dead letters.  The consumer follows
`process_kafka_message`: `Handle`, `HandleFails` (retry in place or give up),
`CommitApplied`, `Quarantine`, `CommitQuarantined`, and the pause.  A failed
commit after a successful call is `CommitAppliedFails`: it is in the same `try`.
Workers are the scheduler's task and the drains that operators start: `Claim`,
`Replay`, then an outcome written by `_id` from the copy that was claimed.
Leases run out while their holder is still at work (`LeaseExpires`).
`RetryNow` and `Reset` are the operators' endpoints, `Crash`, `Outage` and
failed commits the faults.  `Malformed` are payloads that the handlers skip,
`Undecodable` values that are not JSON.

### GraphIndex

Four topics (facts and security events of instructions and of payments), each with its consumer (`Consume`) that works in order, and
replays (`Replay`) of parked messages that work next to them.  A handler takes
several steps, because the code awaits between them: `Start` reads the search
document, a `Write...` commits the Neo4j transaction, and `Ack` commits the offset
or marks the row processed.
`Fail` is an attempt that is made again, `Park` a message that goes to the dead
letter queue, `Crash` loses the work in hand.  When a message may be parked and
what becomes of it there is `IndexerDlq`'s subject; here every message may be,
so whatever holds here holds for the queue as it is.

What the topics hold is the constant `Logs`.  `LogsAssumption` says what the
services' theorems say of their collections: numbers of an entity are distinct
and the newest row is open (`VersionsChained`); and besides that a payment keeps
its instruction, which has rows, and an event about an instruction is filed
under one of its rows.  Events without a number, as of a creation that was
refused, make no version node and are left out.
`current`, `node`, `consumed`, `conflicts` and `document` are the parts of the
graph that several handlers write.  `applied` is a history variable: the
messages whose transaction has committed.

The transaction of an instruction's fact runs at read-committed and reads, after
its upsert, what others have committed, so it takes three steps: `Upsert` (the
first statement, which takes locks), `FindConflicts` (`conflict_query`: it sees
its own writes and committed ones, and locks nothing it reads), and
`WriteInstruction` (the commit, at which everybody else sees both).  Any of them
may fail or die with the process, and then nothing was written.  `Excludes` says
which transactions the locks of the upsert keep apart: those of one instruction,
whose node is SET, and those of one line of business that both move `CURRENT`,
because `SET lob.name` on the `ProfitCenter` node (one per line of business:
`ssi-indexer/src/etl/schema.cypher:17`) stands behind the filter on `CURRENT`.
Locks that only delay a step which could as well have come before the upsert are
left out.  The other transactions read nothing that others are writing, and are
one step.  `crossed` is a history variable: the facts whose queries ran before
either had committed.

`ConflictsFound` promises, accordingly, that conflicts within a line of business
are linked whatever crosses, and those across lines unless the two queries
crossed.  In `Rivalry` two instructions of one line of business become active
and the lock is what keeps them apart (the mutant drops `SET lob.name`); in
`LateRefusal` they are of two.

`ConflictsFound` is about rows whose status no applied event disputes
(`Undisputed`).  Events do dispute it: a refused edit carries the body that was
refused (`service.py:282`), and `upsert` merges it into the version node.
`VersionsAsRecorded` says how far this goes.  The history `LateRefusal` is there
for it: without `Undisputed` TLC finds a conflict that is never linked (see
"Findings").

`GraphAnswers` reads that graph the way `query_engine.py` does.  `Inventory`
follows `CURRENT`, `Counted` and `PaymentList` take the highest version (of
payments: the highest that has a status, since a payment's security event may
make a node without one), `Remembered` reads the root.  `Quiet` is the state in
which everything has been delivered; there all of them must give what the
collections hold.  Between deliveries nothing of the kind is promised.
`EventsTruthful` excludes the events that contradict the row they are filed
under (see "Findings").

### LifecyclePolicy, PolicyStore, Identity, Authorization

`LifecyclePolicy` has one operator per rule of the Rego packages.  The body of a
rule is the set of names of the predicates it conjoins (`InstructionRules`,
`PaymentRules`), which is also how `validate_policy_catalog.py` reads the
policies, so that the catalog's validation is an operator over the same data.
Violations are the names of the rules of `violations.rego` that hold.

`PolicyStore` is the script `upload_policies.py` on a running server: delete
every file, upload every file in a preferred order, retry, give up after
`UploadRetries`; OPA compiles after every request and answers all the time from
what it has (`Serves`).  `queue` is the set of files a pass has still to come
to; it takes them in the order of `DeleteOrder` or `UploadOrder` (`Foremost`).

`Identity` has the resolution of tokens.  Four services hold a copy of the same
text, which is one operator (`FromBearer`); instruction-service's refuses unknown
lines of business besides; audit-service has its own, whose subject has a user,
a title, roles and groups and nothing else.  That the copies do not drift apart is
a matter of comparing texts, and nothing is checked about it.  A token is signed (a JWT with the
profile it was issued with), opaque, foreign or stray.

`Authorization` composes the three.  `CallInstruction` and `CallPayment` are a
service's evaluation: it resolves its caller, the authorization-service resolves
again and refuses a subject that does not match (`ResolveSubject`), and the
decision, the violations and the alert flag are three queries (`AskDecision`,
`AskExplanation`, `AskIsAlert`), between which `ScriptStep` may move policies
and `ChangeProfile` the directory.  The service records the subject it resolved
itself (`recorded`), OPA judges the one resolved later (`evaluated`), and for a
payment the two carry the roles of different services; `RecordedDecides` says that
the record nevertheless reproduces the decision.  `EnterConsoles` is what the
consoles show of a token; no property is about it, since the copies it goes
through are one operator.  `AskList` ... `Return` is a list of eligible
people: from the cache if it is fresh, otherwise fetched user by user, then one
decision per candidate, then the prospective list of a draft.

### DemoHarness

The harness works on `insts` and `pays`, which the services hold.  `StartBatch`
lists and takes a copy of the directory; each `...Item` is one document: pick an
actor by the harness's own rules (`InstructionApprovers`, `PaymentApprovers`,
`PaymentSubmitters`, ...), call the service, tally.  The services decide by
`LifecyclePolicy` about the live profile.  An approval that payment-service turns
into a cancellation is answered 200 (`ps/service.py:712`), and the harness counts
it as succeeded (`actions.py:691`), as the model does.  An update takes the amount the
administrator gave, or a higher one within the creator's limit or, without one,
within the largest club's (`NewAmounts`), or is skipped (`Stays`).  Without any
creator of instructions `DefaultSubmitter` stands for the fixed `mo-100`
(`helpers.py:219`).  A creation of payments may also find nothing to pay against,
or nothing its creator covers.  `SetUp` ... `SendFixture` and
`TearDown` ... `DropInstruction` are the skill fixtures.  `OtherClient` and
`DirectoryMoves` interfere, and take the ghost `calm` away.  The ghost `refused`
remembers who was refused what, and `unsent` the payment of a fixture whose
submission was refused.  `Stores` are what the services may hold when
the console opens; `StoresAssumption` asks of them what the services' own
validation asks: a profit centre, at most three years, and a payment in the line
of business of its instruction.  The console opens
only while `Authorization` is at rest: the two share the directory, and nothing
else they do can meet.

### PaymentSkills

A run of a skill is one pending id and one audit execution.  `Preflight` is the
question: load, look at the status, ask the policy, insert the execution,
remember the card.  A confirmation is a thread of the chat:

    Confirm (look up, compare the user) --Go--> Take --> Recheck --> Send
      --> Receive or GiveUp --> Patch             --No Go--> Drop --> Patch

The call lives in payment-service (`Commit` or `Refuse`, `Link`, `ServiceFails`)
and goes on when the chat has given up or restarted.  What happens inside it is
`PaymentSaga`'s subject; here it is one step, which cancels instead of approving
when the instruction no longer suits (`Made`).  `Others`, `Lapse` and `Revoke`
are everybody else.  `assured` collects the runs whose user was told that
nothing was done.  What No Go tells is not among that: a Go may have been
quicker (see "Findings").

## Runs

| Run | Bounds | Shows |
|-----|--------|-------|
| `instruction` | 1 instruction, 2 handlers, 2 users of whom one is not audited; two campaigns: use, release, suspension (6 requests), and edits, rejection, cancellation, views (4 requests) | whole chains, legal lineage, the accounting of uses, versions and events match one to one, numbers are unique, four eyes, and the refinement of `AuditLedger` |
| `instruction_terminal` | as the second campaign, 3 requests | a finding |
| `payment` | 2 payments, 1 instruction, 2 requests at once, faults; overlapping (5 requests, owners add 2 versions) or not (6 and 3) | what holds whatever happens, and what needs the requests of one document to be serial |
| `payment_release` | no faults, fair handlers | a withdrawal frees the instruction |
| `payment_cancel_release` | small | a finding |
| `indexer_dlq` | 2 messages of which one malformed, 2 workers, 2 attempts each, 1 fault, 1 intervention | no silent loss, the queue drains, the consumer goes on |
| `graph_index` | 2 instructions, 2 payments, 2 lines of business, 5 histories (`UsedTwice`, `Rivalry`, `LateRefusal`, `Backfill`, `Refusals`), 1 replay, 1 parked message; 2.1 million states | what the graph shows, in any order of topics, with messages applied late and again and transactions that overlap; that the reports agree in the end |
| `graph_released` | 1 instruction used and released | a finding |
| `authorization` | 3 users with a second profile each, 6 instruction and 5 payment documents, 1 profile change, 1 reload with 1 failed request, 1 skipped user, 2 ticks; for the harness 3 stores, batches of 1, 1 other call; 0.9 million states | refusals are explained, what is recorded reproduces the decision, copies of rules agree, lists are complete and fresh, health is true, a reload ends; the harness's picks, progress and teardown |
| `eligible_service` | the same | a finding |
| `payment_skills` | 2 users, threads, payments and runs, all four skills, 1 fault, 1 move by others; two campaigns: two users confirm one run, or one user has two runs about one payment | one change per Go, outcomes backed, decisions recorded |
| `approval_reported` | 1 of each, APPROVE | a finding |

Two handlers are enough for every race of the code: a handler competes with the
one that overtook it, and the rows keep what earlier ones left.  One instruction
is enough for chains and lifecycle since no operation reads another's rows; two
payments are needed for exclusivity.  Requests, versions, faults and
interventions are bounded by constants that appear in the guards
(`MaxRequest`, `MaxVersion`, `MaxFault`, `MaxOps`, `MaxParked`, `MaxFaults`,
`MaxMoves`, `MaxChanges`, `MaxSkips`, `MaxClock`, `MaxBatches`, `MaxDocs`); the
bounds are large enough for a create, a submission and an approval by one party while another's request
is on its way, and for a use, a release and another use.  Deadlock checking is
off because the clients may have nothing more to ask: a bounded client stops.

A directory of three is small, but its six profiles differ in roles, groups,
lines of business, supervisors and limits, and the documents in what the rules
ask of them.  One profile change and one failed
request can each fall between any two steps of an evaluation, a list or a batch.
A batch takes one document, because the next one meets the same rules with the
state the first left, which the stores contain.  Two threads compete for one run
and two runs for one payment; more of either would bring the same races again.

**Fairness.**  `PaymentSaga!FairSpec`: a handler that can go on does (an asyncio
task is resumed when its await returns); clients, owners and faults are under no
obligation.  `IndexerDlq!FairSpec`: the consumer's task, the workers, the clock
(leases, due times) and the recovery of MongoDB go on, and faults are finite in
number.  A claimable row is claimed if it is claimable again and again (strong
fairness): `drain_once` takes rows in the order of `next_attempt_at` until none
is left, so newer ones do not overtake a row for ever.  The code's scheduler
loop catches the errors of a drain and goes on (`scheduler.py:45`).
`Authorization`: only the upload script, which is a loop with bounded retries,
goes on.  `PaymentSkills!FairSpec`: a thread that serves a confirmation goes on,
at the latest when the client's time-out strikes; nothing is asked of users,
payment-service and faults, and `DecisionRecorded` holds although payment-service
may never answer.

## Theorems

For every value of the constants, from the named assumptions only.
`ConstantsAssumption`, `BoundsNat` and the like say that bounds are numbers and
`Null` is none of the data; `LogsAssumption` is described above;
`DocumentsAssumption` that an instruction has a status and a line of business
and a payment has that of its instruction; `HarnessAssumption` that a batch is
not empty (`Field(ge=1)`); `StoresAssumption` is described above.  Each inductive
invariant stands at the end of the module of its component, where TLC can check
it as well; those of `AuthorizationProofs` and `DemoHarnessProofs` stand with the
proofs.

* **`InstructionServiceProofs`**: `TypeCorrect`, `VersionsStayChained`,
  `EventIdsStayUnique`, `AuditStaysComplete`.  None of the last three is
  inductive.  `IInv` adds what the handlers know: an id that is being created
  belongs to one handler and has no row (`CreationsExclusive`); a handler stamps
  its own action and actor (`BodiesStamped`); a writer holds the current row of
  its instruction alone (`WritersExclusive`: this is where write conflicts are
  used); and a number in a writer's hand is in no event (`NumbersIssued`).  Two
  lemmas say what the writes of `VersionedRows` preserve for any bodies.

  `LineageStaysLegal`, `UseStaysAccounted`, `FourEyesAlways` rest on a second
  invariant, `LineageInv`.  A handler's copy may be stale, so the row it appends need
  not be a step from the row it closes; but it was read, rows stay, and a body is
  a step from the copy it was computed from (`CopiesSound`).  What is sound of
  every stored body (`RowsSound`) is therefore sound of the next one.
  `ServiceImplementsLedger`: every step is a step of `AuditLedger` or leaves it
  alone; only `Commit` moves it, by the version and the event together.
* **`PaymentSagaProofs`**: `SagaTyped`, `SubmittedIsBacked`,
  `ReleaseFollowsWithdrawal`, under any overlap and any faults.  Both stores only
  grow, so what a request read stays true of the versions it read it from
  (`Informed`), and `GrowInv` is about versions, never about which is newest: a
  submission about to be saved has a use of its own within the versions it knows
  (`UsedWithin`), a release in progress a withdrawn row behind it (`Withdrawn`).
* **`PaymentSoloProofs`**: `DecisionsAreFinal`, `ApprovalsRestOnTheirTerms`,
  `InstructionsBackOnePayment`, while the requests for one document do not
  overlap; calls may still be carried out late and the process may die anywhere.
  `SoloInv` is about the newest versions: a request works from that of its
  payment (`Based`), a call from that of its instruction (`Fresh`), and a
  submission past its check is alone with its instruction (`Apart`).
* **`IndexerDlqProofs`**: `TypeCorrect`, `NothingIsLostSilently`.  `IInv` adds
  `NothingForgotten`: a consumer about to commit has indexed the message or its
  row is there, a row that says `processed` is indexed, a worker's row exists.
  Every step keeps rows (`RowsKept`) and passes only what is accounted for
  (`PassedKnown`); the two together give the next `NoSilentLoss`.
* **`GraphIndexProofs`**, for any topics that satisfy `LogsAssumption`:
  - `TypeCorrect`, `CurrentStaysNewest`, `ReadsAreMonotonic` (`CURRENT` never
    goes back), `SubmissionsConsume`.  `CurrentIsNewest` is inductive with the
    types and `OwnTopics` (a consumer works on its own topic: an offset could
    leave its topic otherwise).  For `SubmittedConsumes` the case that matters is
    a submission that is applied again without moving `CURRENT`: `CurrentRow`
    finds, from `CurrentIsNewest` and the uniqueness of numbers, that it had been
    applied before.
  - `VersionsStayRecorded` and, from it, `ConflictsAreFound`, whose invariant is
    `ConflictsInv`.  Locks are held from the upsert to the commit (`LocksHeld`), so
    two facts whose queries crossed do not both move `CURRENT` if they are of one
    line of business (`CrossingsKnown`; `CURRENT` never goes back, so they never
    will).  A transaction that has run its query knows every row committed by
    then that it will conflict with, or has crossed it (`MatchedKnows`): who
    commits before the query is found by it, because a node shows its row unless
    an event disputes it, and who commits after it has crossed.  The commit turns
    that into edges, which are never deleted.
  - `InstructionsAnsweredAlike`, `PaymentsAnsweredAlike`.  A message behind the
    offset has been applied or is parked (`NothingLost`), so that in a `Quiet`
    state all have been applied; a version node was brought by something
    (`NodesBrought`), which by `LogsAssumption` stands for a row.  Then `CURRENT`,
    the highest version and what the root remembers are the newest row, and each
    report follows from its definition.
* **`AuthorizationProofs`**: `DenialsAreExplained`, `CapabilitiesAreComplete`,
  `RecordedAlwaysDecides`, `ListsAreExact`, `EligibleStaysFresh`,
  `HealthyServicesDecide`.  The policies come first, without a state: a refusal
  has a violation, whoever is allowed has the capability and is among the
  candidates.  On top of `Shapes`, the fields a request has at each phase, there
  is an invariant for each kind of request: `Judged` and `Decided` for an
  evaluation, `Sifted` and `Aged` for a list.  `Judged` says that the identity
  check let the judged subject pass, so that it differs from the recorded one in
  the delegating service's roles at most, and in those only for a payment, whose
  rules do not ask for them (`SamePolicy`).

  `HealthyServicesDecide` is about a reload from which no request was lost.  The
  health check counts files and asks one question, so the proof has to say why
  that is enough at every moment (`Reload`).  OPA's files stay closed under what
  they use (`Compiles`).  A pass of deletions meets the tests last
  (`FirstPass`); while they are there nothing they use can go, and that is what
  decides and explains: `i/view_lob_test` uses the one package, `p/sod_test` the
  other.  When a test does go, four leaves that nobody uses are gone before it, so
  that at most 14 files are left (`Few`), and clearing only takes more.  An upload brings
  what decides before `p/policy_summary` and the three tests (`LastToCome`):
  while a deciding file is missing, four are, and 14 are not enough for the
  check.
* **`DemoHarnessProofs`**, for any directory, any documents the services may
  hold and any size of a batch, with everybody else acting in between:
  - `HarnessImplementsAuthorization` carries the theorems on `Authorization` over
    to the composed specification, which is the one its run checks.
  - `ApprovalsMakeProgress`: until a batch has done something, a document
    somebody can approve is still to come, if there was one (`Promising`); that
    rests on the choice of the documents, which prefers those somebody can
    approve.
  - `PicksAreAccepted`.  Its core has no state: for each kind of batch, whom the
    harness picks by its matrix, its limits and its titles the rules of Rego let
    act (one lemma per rule).  The invariant `Undisturbed` carries that through a
    batch: while `calm`, documents still to come are as they were listed, the
    directory is the live one, and each refusal so far is `Excused`.  Nothing
    excuses the refusal of an approver of payments or of a rejector.
  - `TeardownIsThorough`.  `Tidy` follows a fixture from setup to teardown: its
    documents are what it created (`Own`), whom it acted as may undo what it did
    (`Undoable`), and every payment it made is known to the teardown, is about to
    be, or is closed, or is the seed's whose submission was refused
    (`Lost`, `Accounted`; see "Findings").  Both rest on
    `Forward`: no call of a service opens again what is closed, or changes the type
    or the line of business of a document; and on `Held`: the console is busy with one thing at a
    time, and the stores stay well-formed.
* **`PaymentSkillsProofs`**: `TypesHold`, `GoChangesOnePayment`,
  `OutcomesAreBacked`, for any sets of users, payments, runs, threads and
  skills, whatever the bounds on faults and moves.  They follow from
  `RightIsInOnePlace`: the right to carry out a run is in the store, or with the
  one thread that took it out (`Held`), or with the one call payment-service
  works on (`Busy`), and then nowhere (`Alone`, `Spent`); once something was
  done or somebody assured, it is nowhere (`Final`); what a call, a thread or an
  execution says is backed by one of the two (`CallBacked`, `VerdictBacked`,
  `ExecutionBacked`); and all work on the card the run began with (`OnCard`,
  `OneCall`, `Begun`).  `OutcomesBacked` alone is not inductive: a denial on its
  way from payment-service has to exclude a second call.

Only model-checked:

* liveness (`QueueDrains`, `ConsumerFinishes`, `WithdrawalReleases`,
  `ReloadCompletes`, `DecisionRecorded`), which is beyond the prover.

Every invariant that a passing run checks is a theorem, and so is the refinement.
What the findings refute has no proof.

## Findings

Checked as runs that TLC must find violated:

* `instruction_terminal`: a request that read a draft before it was cancelled
  appends after the cancellation; no version is compared with what was read
  (`repository.py:63`), against "terminal states block further mutations" and
  "optimistic locking on append".  The same code, and so the same order of
  events, is in payment-service, which is why `PaymentSaga!TerminalIsFinal` is
  checked for requests that do not overlap.
* `payment_cancel_release`: the service's own cancellation releases without a
  user token, which fails before anything is sent; the instruction stays USED.
* `graph_released`: a release that is applied before the submission deletes
  nothing, and the submission's edges then stay for good.
* `eligible_service`: payment-service asks who can approve a payment without the
  type of its instruction; a SINGLE_USE instruction, which submitting has marked
  USED, then looks unusable, and nobody is listed.
* `approval_reported`: when the instruction lapses between question and Go,
  payment-service answers 200 with a cancelled payment, and the skill tells and
  records that it was approved.

Seen while modelling, without a run of their own.

The queue:

* Claims have no limit (`dlq/store.py:154`): `attempts` is compared with
  `max_attempts` only when a replay reports its failure, so a payload that kills
  the process is claimed for ever.  `QueueDrains` holds for finitely many
  crashes.
* A payload that is no fact is logged and committed (`instruction_consumer.py:94`)
  although the README of the queue says that invalid schemas are quarantined as
  poison.  With such an offset in the range of `NoSilentLoss` it is violated.
* A value that is not JSON raises outside the quarantine
  (`kafka_deserialize.py:17`) and ends the consumer's task.  With a non-empty
  `Undecodable`, `ConsumerFinishes` is violated.
* A worker whose lease ran out writes its outcome by `_id` and overwrites
  `processed` (`dlq/store.py:219`), which the status machine in the README of the
  queue has no way out of.  The message is applied again; `GraphIndex` shows
  what that does.

The graph:

* A refused edit is filed under the current version with the body that was
  refused, and its status, currency and dates overwrite that version's node
  (`neo4j_client.py:252`), although the security-event pipelines "own audit only".
* The event of a *refused* approval is quoted in the search document as well:
  the pipeline does not ask for the outcome (`instruction_security_event_pipeline.py:56`),
  and an instruction fact keeps the quotation.
* `CONFLICTS_WITH` is never deleted, and the edges of a use are not written when
  the connector copies a collection with a history, because the submission is a
  closed row by then (`neo4j_client.py:1104`).
* The search document of an instruction can be left at an old version: an
  approval's event (`instruction_security_event_pipeline.py:63`) reads it, waits
  for an embedding and writes it back whole, and no version is compared
  (`multimodal_write.py:7`).
* An event is filed under the version that is current when it is recorded
  (`inst/service.py:282`), a payment's denial under the number of its lifecycle
  events (`neo4j_client.py:63`): neither need be the version that was judged.
  `upsert` merges status, approver and currency into that node
  (`neo4j_client.py:252`), although `neo4j-graph-model/README.md:55` has the
  facts own them.
* `conflict_query` (`neo4j_client.py:807`) compares the account of the fact it
  applies with the status of `CURRENT`: an old fact applied again links
  instructions that no longer share an account.
* A refused edit that was judged on a draft is filed under the version that is
  current by then (`service.py:282`) and turns a SUBMITTED node into a DRAFT
  (`neo4j_client.py:252`).  `conflict_query` (`neo4j_client.py:807`) then passes
  over that instruction, and the conflict with the next one on the account is
  not linked, although `neo4j-graph-model/README.md:269` says it is.
* A consumer and a replay at work on two instructions of different lines of
  business can each run `conflict_query` before the other commits
  (`neo4j_client.py:825`); both instructions are then active on one account and
  not linked, although `neo4j-graph-model/README.md:269` says they are.
  `ConflictsFound` without its exception for `crossed` is violated.
* The depth that raises the chat's banner leaves poison rows out
  (`dlq/store.py:417`).

The payments:

* Nothing releases the instruction of a submission that failed after USE
  (`ps/service.py:660`).
* `_link_audit_execution` (`ps/service.py:394`) is not guarded: if it fails the
  request fails, after the commit.
* The policy is not asked about the cancellation that an approval turns into
  (`ps/service.py:724`).

The skills:

* No Go that comes while a Go is being carried out answers "cancelled" and
  patches the execution to `CANCELLED`, while the payment changes.
* After a time-out the execution is patched to `FAILED`, although
  payment-service may have linked it as `COMPLETED`; the last one to write wins.
* A run that expires, or is lost in a restart, awaits confirmation for ever, and
  so does a create whose second policy call fails: `CreatePaymentSkill` does not
  patch there, `PaymentIdSkillFlow` does.
* After a lost answer the buttons are enabled again; the user is told to ask
  again, and asking again creates a second payment.

Authorization:

* OPA holds 18 policy files and the health check wants 15, so up to three may be
  missing while it is `ok`; `HealthyDecides` is therefore about states without
  failed requests.
* The script deletes first and only expects HTTP errors (`upload_policies.py:122`):
  one that gets no answer ends it with OPA partly empty.
* A directory fetch leaves out a user whose metadata request is refused, for a
  whole TTL (`client.py:144`); one without an answer ends the list.
* A signed token keeps the roles it was issued with until it expires.
* Many denials of payments, and all of RELEASE_USE, name no violation and are
  recorded as `POLICY_DENIED`; `DenialExplained` is about instructions.
* The instruction-service refuses lines of business it does not know, which the
  other copies of that code accept: a token may open one console and not another.

The harness:

* `PicksAccepted` holds with exceptions, `Excused`: the console lets creators
  without a middle-office group submit what they created, which the policy
  refuses; without any creator it submits as `mo-100`, whoever that is; a payer
  without a limit is picked when the amount allows it; a payment is created on an instruction that has ended, and submitted on one that is no
  longer approved or that another payment is pending on; and a middle-office
  submitter is picked without asking which desks it covers (`helpers.py:445`).
* A payment that payment-service cancels instead of approving it counts as
  approved in the batch's report (`actions.py:691`; `ps/service.py:712`).
* Suspensions and reactivations are called in the administrator's session, which
  the policy always refuses (`actions.py:905`).
* A rejection batch is not sorted, so documents nobody can reject keep the ones
  behind them from a turn; approvals are (`ApprovalsProgress`).
* The id of a payment that the seeding could not submit is stored under a key
  teardown does not read: that one payment stays open, and `TornDown` excepts it
  (`unsent`) and no other; a missing submitter raises and loses everything the
  setup made, so that there is no answer a teardown could start from and
  `TornDown` says nothing; the instruction of the `used_single_use` fixture is
  released by the teardown and stays approved.

## Plan

Done, in this order: the versioned collection and instruction-service, the
abstract ledger and the refinement, the payment saga, the indexer's delivery,
the graph, the policies and their store, tokens and authorization, the harness,
the reports, the payment skills, and the theorems above on all of them.  Next:

1. Proofs: `payment-service`'s collection as an instance of the lemmas on the
   two writes.
2. `SequenceService`: counters by date and line of business, formats as what
   they tell apart; refinement of "a number is given once".
3. The order in which the chat tries its lanes and skills.
4. `GraphIndex`: as its abstract specification, a graph that is the join of the
   facts it has seen.

## Not modelled

The queries of audit-service and the user interfaces change no business state; telemetry, model
clients, seeds, dashboards and the graph's schema are input and output, and
kafka-connect is configuration.  Of the chat, the routing of questions and the
read-only lanes; of cypher_builder, the recognition of questions, facets,
timelines, alerts, aggregates by amount, plans and the validator; of the
harness, the policy scenarios, which are fixed scripts that expect refusals, and
the bulk seeder.  The formats of identifiers are planned.  The graph's users,
profit centres, lifecycle edges and texts are left out.  `AUTH_MODE=headers` is
not modelled, and neither is the renewal of service sessions.  Amounts are
counted in amount clubs; currencies, names and texts are left out: nothing that
is checked depends on them.
