# Nico Agent in TLA+

Nico Agent runs AI agents as durable *Runs*: an HTTP API writes rows into
PostgreSQL, and worker processes claim Runs from the database, drive an agent
loop, and write events, checkpoints and outcomes back. Several workers, an
operator, a human who approves tool calls, parent and child Runs and the clocks
of several machines meet in those rows; almost nothing else is shared. That
meeting is what these modules specify.

Paths below are relative to `backend/src/nico_agent/`; migrations are in
`backend/migrations/versions/` and named by their number.

## 1. The system

### Components, state, operations

| Component | State | Operations | Model |
|---|---|---|---|
| Run queue, leases, slots (`worker.py`, `runtime/executor.py`, migration 0005) | `runs.status`, `lease_owner/token/expires_at`; per slot: claim, event queue, outcome | claim, heartbeat, prepare, execute, forward events, commit, suspend, abort | `RunLease`, abstractly `RunOutcome` |
| Runtime service (`runtime/service.py`) | `runtime_sessions` (cursor, checkpoint, status), `runs.checkpoint` | `prepare_claim`, `bind_session`, `record_event`, `complete_claim`, `suspend_claim`, `fail_unprepared_claim` | each in the modules that need it; its read models in `ModelCalls` |
| Coordination (`coordination/`, migration 0013) | `delegations`, closure table, `run_budget_ledgers`, `agent_messages` | `delegate`, settle, wake, reconcile, `cancel_tree` | `Coordination` |
| Tool Gateway (`tools/gateway.py`) | `tool_calls`, one executor at a time per Run | begin, execute, retry, finish, take over, cancel | `ToolGateway` |
| Tool approvals (`tool_approvals/`, migration 0019) | `tool_approval_requests` | request, decide, expire, cancel | `ToolGateway` |
| Conversations (`conversations/`, migration 0017) | `conversations`, `conversation_turns`, their Tasks and Runs | create turn, retry, cancel, compact, archive, project, select context | `Conversations` |
| Control plane (`control_plane.py`, `domain/states.py`) | Projects, Tasks, Agents, Runs, steps | transitions, create, retry | its Run and Task operations, in every module |
| Native loop (`runtime/native/`) | the checkpoint of the loop | rounds, tool calls, delegation waits | direct and React: `ModelCalls`, and `ToolGateway`, `Coordination` for what they share |
| Plan-and-execute (`runtime/native/`, migration 0012) | `plans`, `plan_steps`, `runtime_evaluations`, `context_snapshots`, the checkpoint | plan, execute steps, reflect, replan, judge; project events; recover | `PlanExecution`, abstractly `PlanRevisions` |
| Growth (`growth/`, `memory/`, `skills/`, migrations 0006, 0008, 0009) | `memories`, `skills`, `skill_versions`, `skill_deployments`, `evaluations`, `approvals` | generate, evaluate, request, decide, publish, revise, end; deploy, retire, promote, roll back, stop, resolve | `GrowthReview`, `MemoryLifecycle`, `SkillRelease`, abstractly `Publication` |
| Preparation and knowledge (`runtime/preparation.py`, migration 0015) | `runtime_sessions.knowledge_*`, `runtime_knowledge_usages` | narrow policies, recall once, freeze, count contexts and calls, finalize | `ModelCalls` |
| Artifacts and attachments (`artifacts/`, `conversations/attachments.py`) | `artifacts`, `conversation_attachments`, objects in a bucket | reserve, upload, finalize, fail, replay; stage, list, delete, consume | `Storage` |
| Model Gateway (`models/`) | rate-limit windows | acquire, stream, fold | its answers are inputs of `ModelCalls`; its windows are not modelled |
| API, CLI, frontend, sandbox, MCP host | none of their own, or pure I/O | – | not modelled |

`PROJECT.json` has the full list with the reason for each part left out.

### How the parts interact

* **Rows, not messages.** Every operation is one database transaction with row
  locks, so every operation is one action. Between two transactions of a worker
  anything may happen. What a worker remembers from the last transaction, or
  computed outside one, is a variable of its own (`worker`, `attempt`).
* **The event stream.** A provider emits events into an in-memory queue; a
  forwarder task writes them one by one. A checkpoint the loop believes saved may
  not be in the database yet.
* **Wake-ups.** A parked Run gives its worker back. It is woken by the
  transaction that settles its last child or decides its approval, or later by a
  reconciler that polling slots call.
* **Triggers.** The status of a Run is copied into the turn that points to it by
  a trigger on `runs`; settled tool calls are protected by another.

### What is hard, and what makes each part correct

* *Leases.* Two processes may share a `worker_id`; the lease is compared with the
  database's clock when it is taken and with the worker's afterwards; a worker
  that lost it goes on executing. Correct: one owner, an outcome written once,
  events neither lost nor applied twice, every Run leaves the queue.
* *Delegation.* The last child may end before its parent is parked; a worker may
  die between delegating and saving the checkpoint that says so; a tree may be
  cancelled while it grows. Correct: budgets balance, no result is lost, the
  parent goes on exactly when it has every result.
* *Tools.* The executor runs outside any transaction, and approvals, expiry,
  cancellation and takeover race with it. Correct: no sensitive executor without
  an approval, an owner's result is always accepted, settled calls are final, a
  replay repeats no effect unless a worker was lost.
* *Provenance.* The loop does not wait for its events, and each worker that dies
  takes some of them along. Correct: call keys, contexts, steps, budgets and the
  effect of knowledge are what they would have been in one piece.
* *Bytes.* No transaction spans the database and the object store, and uploads lock
  only the rows they see. Correct: no row without its object, no attachment used
  twice, replays get an answer.
* *Conversations.* Retry, compaction, review and cancellation each start or end
  Runs and see only some of the others. Correct: one turn at a time is answered,
  from the whole history, and no answer or summary is lost.

The hazards in `PROJECT.json` list these places line by line, with the
properties that watch them.

## 2. Modules

| Module | What it is |
|---|---|
| `RunStates` | Run statuses and `RUN_TRANSITIONS`, used by `RunLease` |
| `RunLease` | the queue: rows, leases by two clocks, slots as processes, event streams, crashes |
| `RunOutcome` | what a reader of a Run's row may rely on; `RunLease` refines it |
| `RunLeaseProofs`, `CoordinationProofs`, `ToolGatewayProofs`, `ConversationsProofs`, `PlanExecutionProofs`, `ModelCallsProofs`, `StorageProofs` | the theorems about the module each is named after |
| `GrowthProofs` | the theorems about `MemoryLifecycle` and `SkillRelease` |
| `Coordination` | delegation trees: links, ledgers, messages, attempts |
| `ToolGateway` | the tool calls of one Run: calls, approvals, workers |
| `Conversations` | one conversation with its turns, Tasks and Runs |
| `GrowthReview` | evidence for a growth subject: evaluations and approvals, in the two modules below |
| `MemoryLifecycle` | candidates from a Run, publication and the end of memories |
| `SkillRelease` | versions, stable pointer, canaries and resolution of one skill |
| `PlanExecution` | one planned Run: the loop, the projection of its events, recovery from rows and checkpoint |
| `PlanRevisions` | what a reader of the plan history may rely on; `PlanExecution` refines it |
| `ModelCalls` | one direct or React Run: contexts, model calls, steps and knowledge, over lost workers |
| `Publication` | what growth promises: once, on evidence, never back; both modules refine it |
| `Storage` | artifacts of a Run and attachments of a conversation, in two stores |
| `MCRunLease`, `MCCoordination`, `MCToolGateway`, `MCMemoryLifecycle`, `MCSkillRelease`, `MCPlanExecution`, `MCModelCalls`, `MCStorage` | model values, symmetry and bounds for TLC (`Conversations` needs none) |

The modules share the Run row and cut it differently. `RunLease` models
ownership in detail and proves `ExclusiveOwner`; the others build on that result
and give a Run at most one owner. `Coordination` keeps the checkpoints on their
way to the database, because its properties are about them; `ToolGateway` keeps
stale workers, because its executors outlive their lease; `Conversations` needs
neither.

### From code to model

**RunLease.** `status`, `lease` and `session` are columns; `worker[w]` is what
`RuntimeWorker.execute_once` holds: `pc` is the place in that function (claimed,
prepared, executing, returned, aborting, or `dead` for a slot whose polling task
ended with an exception), `emitted`/`forwarded`/`seqBase` describe the event queue,
`outcome` the result to commit. `lease.live` is the set of clocks by which the
lease has not expired: `claim_next_run` looks at `"database"`, `_owns` at
`"host"`. `Claim`, `PrepareClaim`, `BindSession`, `RecordEvent`, `Heartbeat`,
`CompleteClaim`, `SuspendClaim`, `FailUnprepared`, `FailClaim` are the transactions
of those names; `PrepareRaises`, `EventRaises`, `StreamRaises`, `CommitRaises`,
`ExecutionAborts` and `ClaimLost` the branches of `execute_once` that follow when
one raises or is refused; `Crash`, `LeaseExpires`, `TransitionRun`, `CancelRun`,
`WakeWaiter` and `ApprovalDecided` are everybody else.

**Coordination.** `link[c]` is the delegation that created child `c`, its closure
rows and its result message; `ledger` the three budgets as one; `attempt[r]` the
worker of `r`: checkpoints emitted but not forwarded (`stream`), messages
delivered (`inbox`), the checkpoint it was handed (`base`). The end of an attempt writes
the checkpoint of the Run once more: `CompleteClaim` the one the loop `Returned`,
`FailClaim` the one the attempt started from, over whatever was recorded since.
`Delegate` includes the policy checks, the reservation and
the closure rows, `CompleteClaim` the settling of delegation, ledger and message
and the wake-up of the parent, `CancelTree` the whole of `cancel_tree`.

**ToolGateway.** `_begin_call` has five outcomes and five actions: lost lease,
recorded result, rejected, waiting for an approval, running. `Execute`, `Retry`
and `FinishCall` are the executor and what follows it; `Observe` the checkpoint
that shows the results to the model; `RecordCheckpoint` the event stream, which
may write an *older* checkpoint than the gateway did. `returned` counts what the
world has seen and is in no database.

**Conversations.** `turn` is the table by sequence, so `last_turn_id` is
`Len(turn)`. `Shown` is the trigger; every action that moves a Run goes through it.
An answer is named by the Run that wrote it; a summary is the set of answers it
covers; the context frozen in a session is a summary and a set of answers given
in full. Actions are named after the operations of `conversations/service.py`,
`control_plane.py` and `runtime/service.py`. The worker's end of a Run
(`CompleteClaim`) carries the Task and, for a compaction, the summary, as
the one transaction does.

**Growth.** `GrowthReview` has the two tables that memories and skill versions
share. A request to the API is one step, except where the code leaves the
transaction (`EvaluateRead`, the validator, `EvaluateRecord`; `Reflect`, the
provider, `Generate`) or reads without a lock (`RetireRead`, `ResolveRead`). The
publication of a version is two steps as well: `PublishRead` compares its evaluation
with the release context, `PublishWrite` looks for the approval, passes the trigger and
commits. It holds the skill and the version from one to the other (`publishing`,
`SkillFree`, `VersionFree` in the guards of everybody who locks these), but nothing
locks the registry of tools, which is part of that context: `SwitchTools` may fall in
between. What is
left of waiting for a lock is a stale clock: checks of expiry use some `at` in
`Read`, triggers use `clock`. Rows never lose their content, so evidence for a
subject is evidence for its hash; a skill version's release context does change,
and is the snapshot an evaluation keeps. The latest evaluation, in the code the one with
the greatest `created_at`, is here the last one appended: the host takes `created_at`
when it flushes the row, with the subject locked, so the two orders agree while the
clocks of the hosts do. Each write passes the trigger of its
table (`GuardMemoryWrite`, `GuardVersionPublish`, `GuardDeployment`, `GuardNoCanary`,
`RetireTrigger`). `testing` and `approved`, which a skill passes through within the
transaction of its publication, are not statuses of the model. What `MemoryLifecycle` shares a name for with
`SkillRelease` carries the word *memory* in its name (`PublishMemory` is `publish`,
`ReviseMemory` is `revise`), so that one module of proofs can be about both.

**PlanExecution.** `worker.pc` is the place in `_execute_plan_and_execute`: its
head (`top`), inside a step, reflecting on a step or on the result, judging,
completing, finished. `worker.cp` is the `PlanCheckpoint` in memory, `saved` the one
in the session, `worker.events` the events of the last step of the loop that are
not recorded yet. `Record` is `record_event`: `Project` writes the rows of `plans`,
`plan_steps` and evaluations, `ProjectContexts` those of `context_snapshots`,
`Refused` says when the projection or one of the two triggers of migration 0012
raises. `Resume` is `prepare_claim` and the head of the loop: `Advanced` is
`_reconcile_plan_recovery`, `RestoredPlan` is `_restore_plan`. A context is named by
what it is built from, so that two contexts of one version can be told apart; an
output by its step and by whether the Task accepts it. `ordered_steps` is the order
`OrderedBefore` of a step's round (`TakenAfter`) and its place in the Plan; the loop
takes the first step that its checkpoint does not count as done (`NextStep`).

**ModelCalls.** `worker.cp` is the checkpoint in memory, `worker.events` what the
loop has emitted and the forwarder not yet recorded (it may be rounds ahead),
`session` the columns of `runtime_sessions`, among them the last context and call,
to which steps are bound when their event is recorded. `GatewayBegins` is
`_begin_call`: it saves the checkpoint itself, past the stream. `Refused` collects
what the projection, a unique key or a trigger of migration 0015 raises.
`worker.above` are the policy rows a first preparation reads; `Recall` searches,
`Prepare` inserts behind the trigger, and the two have different clocks. A context is
named by the calls and the knowledge it is built from; a call costs one token.

**Storage.** `caller[p].pc` is the place in `store_runtime_artifact` (reserve, store,
finalize or fail, or wait as a replay), `upload`, `list` or `create_turn`. A statement
that reads rows `FOR UPDATE` is two actions, as PostgreSQL runs it at READ COMMITTED:
it finds what is committed (`seen`), then waits for the locks and keeps what still
matches (`held`). The bucket is a set of hashes: two rows of the same bytes share
their object.

Definitions headed *Fault:* are slips the code does not contain (a dropped
guard, a missing reset). Each is swapped in for the definition after it to see
that a property notices; `PROJECT.json` lists which for which.

## 3. What TLC checks

| Run | Question | Bounds |
|---|---|---|
| `lease_check` | two slots with one `worker_id` fight for a Run, and one slot's task may die: ownership, cursor, outcome, and does every Run leave the queue? | 1 Run, 2 slots, 3 tokens, 2 checkpoints an attempt, 1 disruption; 0.3 M states |
| `coordination_safety` | budgets, messages, checkpoints and cancellation of a tree | 3 Runs (two children, or a grandchild), 2 disruptions |
| `coordination_live` | is a settled parent woken, are results consumed? | the same, 1 disruption |
| `coordination_wake` | is every parent woken, as documented? | the same, 1 disruption |
| `gateway_safety` | approvals, ownership, finality, replay | 2 workers, a sensitive and a plain call, 2 tries, 1 disruption; 0.8 M states |
| `gateway_live` | does an approval wait end? | 2 workers, 2 calls, 1 try, 1 disruption |
| `conversation_safety` | turns, retries, compactions, review | 2 turns, 5 Runs, 1 intervention; 2.5 M states |
| `memory_safety` | evidence, versions and generation of memories | 2 rows, 2 callers, 2 validations or generations at a time, time 0..1, 2 approvals, 1 setback; 0.7 M states |
| `skill_safety` | stable pointer, canaries, resolution, evidence of versions | 2 versions, 3 deployments, 2 scopes, 2 callers, 1 Run, revision at most 10; 0.5 M states |
| `plan_check` | order, recovery, budgets and end of a planned Run | plans of 1 or 2 steps (one declared in reverse) or cyclic, 2 reflections, 1 replan, 2 rounds a step, 1 takeover; 1.8 M states |
| `calls_check` | calls, contexts, steps and knowledge of a Run whose workers die | 2 items of 2 scopes, 3 policies, 2 restrictions, 3 iterations, 2 tokens, 2 takeovers; 3.0 M states |
| `storage_check` | rows against objects, limits and fates under overlapping requests | 2 callers, 1 artifact and 3 attachments (two share their bytes), limit 1, 1 turn, 1 disruption; 0.6 M states |

**What the passing runs show.**

* `ExclusiveOwner`: the token alone keeps two slots apart, whatever the two clocks
  say.
* `CursorMeetsOwner`, `CommitMatchesStream`: after any takeover the new owner's
  numbering meets the cursor, so the *contiguous* error cannot fire for an owner, and
  the checkpoint that a completed or suspended attempt commits is the one already
  saved. (A Run that is closed without success may fall back to an older one.)
* `RefinesRunOutcome`: each Run behaves as `RunOutcome` promises.
* `QueueDrains`: eventually no Run is left in a claimable status.
* `ReservationsMatch`: a ledger holds exactly the grants of active delegations.
* `CheckpointMatchesTree`, `ProceedsWithAllResults`: the message, the checkpoint and
  the rows of the children agree over every crash, as long as the parent is open: what
  is acknowledged is in the saved checkpoint, a checkpoint waits for children that
  exist, and no parent goes on from a wait without every result. A parent that fails or
  times out is closed with the checkpoint its attempt started from, in which an
  acknowledged result may be missing; nobody resumes it.
* `CancelReachesAll`: tree cancellation reaches every Run below, computed from
  parent links and not from the closure table that the code reads.
* `WakesWhenSettled`, `ResultsReachParent`: no wake-up is lost and every result sent
  is consumed.
* `ApprovedBeforeEffect`, `OwnersResultIsAccepted`, `ObservedIsDurable`,
  `ReplayRepeatsNothing`, `ApprovalWakes`: as in section 1.
  `ReplayRepeatsNothing` is about histories without disruption: at-most-once does not
  survive a worker that dies between the effect and `_finish_call`.
* `OneTurnActive`, `CompletedTurnIsFinal`: one turn at a time, answered for good.
* `HistoryIsWhole`, `SummaryKeepsAnswers`: each earlier answer is given to the model
  exactly once, and overlapping compactions lose none.
* `OneChainPerTrajectory`: work done outside a transaction, or requested twice, is
  recorded once, and of one logical memory at most one version is active: no older
  one takes over, although candidates of every version coexist.
* `PublishesOnEvidence`, `ReleasesOnEvidence`: the refinements of `Publication`. The
  approval is valid, and the memory unexpired, when the row is written, by the
  database's clock and not only when the service looked. The evaluation of a version
  passed in the release context that the publication read; the states of skill and
  version are still those, because they are locked, but a tool may have been disabled
  since, and the code publishes all the same.
* `CanaryBesideStable`: each scope has one canary, never of the stable version.
* `ResolvesWhatIsInUse`: a resolution may be torn between the stable pointer and the
  canaries, yet the version it returns was in use at some moment during it.
* `DependenciesFirst`, `StepsAreNotRepeated`: from whatever prefix of the events a
  worker is resumed, no step runs before those it depends on and none runs again.
* `CompletionIsEarned`: a Run is completed only with a completed Plan and a result
  that the Task accepts.
* `FinalCheckpointIsLast`: once the checkpoint `completed` is saved nothing is planned
  or executed again. (The Run of a worker that dies there ends as failed.)
* `PlanTerminates`: the budgets bound the loop over takeovers.
* `PlansAreHistory`: the rows of plans are `PlanRevisions`, so no closed Plan is reopened
  and none is opened beside an active one.
* `EventsAreAccepted`: in React mode no event of a successor is refused, whatever the
  worker before it left behind: contexts are replayed as they were, keys are fresh.
* `CallBudgetHolds`: rounds stay within both budgets, and each call beyond one a round
  is owed to a takeover.
* `ProvenanceIsExact`: a usage counts the contexts and calls that carry its item; a
  step names the call that led to it.
* `RecallIsPermitted`: knowledge enters a Run once, in use when its usage row is
  inserted, where the trigger judges (nothing locks the source from there to the
  commit), and every policy that was read permits it.
* `FactsFollowRun`: what is recorded about the effect of knowledge is how the Run ended.
* `AvailableIsStored`: a row that says there are bytes has them, and what a caller was
  told is stored stays stored.
* `StagedBounded`: how far overlapping uploads can exceed the limit.
* `OneFate`: an attachment is taken by one turn or deleted, and neither twice.
* `UploadsSettle`: without a crash, each reserved row becomes available or failed.

**Where the text of the repository and its code differ.** `coordination_wake` has the
history as its counterexample; `PROJECT.json` quotes the lines: a child that fails in
preparation (`fail_unprepared_claim`) does not settle its delegation. No message, no
release, no wake-up, and the reconciler skips a parent with an active delegation:
the parent waits for ever.

The others have no run of their own; all are histories of the models.

* `transition_run` to cancelled closes one Run, its descendants run on, and
  `cancel_tree` then returns early (docs/runtime.md:43 says that cancelling a parent
  cancels the tree). It also leaves approval requests open (docs/tool-gateway.md:24
  says cancelling the Run ends them).
* A child cancelled by itself sends no result. The reconciler wakes the parent, the
  loop misses a result and parks it again, without end (docs/runtime.md:43).
* A checkpoint still queued in the event stream overwrites the newer one that the
  gateway saved before an effect (docs/runtime.md:29 says that the checkpoint is saved
  before the effect).
* `retry_turn` does not look for a compaction in progress, so that a conversation may
  have two open Runs (docs/api.md:119 says at most one).
* docs/state-machines.md:110 sends a rejected Run from WaitingForApproval to Failed
  while `_finish` makes it running, so that the model sees the rejection.
* A worker lost between `PLAN_STEP_COMPLETED` and its checkpoint: `prepare_claim` takes
  as latest output that of the completed step *declared* last (service.py:488), which
  need not be the one executed last. `CompletionIsEarned` says what still holds.
* Two takeovers during one replanning restore the Plan that was just superseded and
  start its steps; the trigger refuses them and the Run fails (loop.py:2294).
* The context of a model call is recorded, the checkpoint after it is not. The
  successor builds another context of the same version, `record_event` raises
  *replayed context version has different content*, and the Run fails
  (`ContextsReplay`; docs/runtime.md:37 has a takeover go on).
* A *direct* Run taken over after its call was recorded starts `model:1` again, which
  the unique key of `model_calls` refuses: the Run fails (docs/runtime.md:19 has it
  resumed).
* An operator who closes a Run, or a takeover that fails in preparation, leaves
  knowledge facts open for ever (docs/runtime.md:118), and perhaps a call `streaming`.
* Memory that ends between recall and insertion fails the whole Run: the search
  judges by the time of the transaction, the trigger by the clock.
* A worker dies before `TOOL_CALL_COMPLETED` is recorded: the step of that tool stays
  bound to the call before (the comment at service.py:1837 says it is bound again).
* Overlapping uploads exceed `max_count` (docs/configuration.md:40): each locks the rows
  it found, and none sees the one being inserted. `StagedBounded` is what holds.
* `list` writes `expired` over an attachment that a turn has consumed or a request has
  deleted since it was read (docs/domain-model.md:71).
* A process that dies between reservation and finalization leaves its row `uploading`
  for ever; every replay ends in `ARTIFACT_UPLOAD_INCOMPLETE`.
* A Plan recorded as completed whose result is judged again after a takeover, and
  rejected this time, cannot be superseded: the Run fails.

**Why the bounds are enough.** The races have at most two workers of one Run and
one outsider, which is what the instances have: a stale worker, its successor and
an operator or a clock. Two checkpoints let a late one follow a newer one; the run
of the queue has one disruption, and pairs of them are covered by the
proofs. Two takeovers in `calls_check` let a replay be replayed, and its policies
differ in scope, limit and switch. Its token limit is reached before the iteration
limit, so the latter is exercised by the proof of `CallBudgetHolds` only; both count
calls that report their usage, as the code does. With the one turn of `storage_check`,
that no second turn takes an attachment again is covered by the proof of `OneFate`
only. Trees of three Runs have siblings (the last-child
race) and a grandchild (closure rows). Five Runs are the fewest in which a failed compaction is retried
after a later one, with two answers to tell apart. A disruption is a crash, a lost
lease or a call by an operator; the bounds allow a second one during the recovery
from the first, except where a single one is stated. Symmetry is used in runs without
liveness only. `CHECK_DEADLOCK FALSE` stands where every Run may be closed and nothing is
left to do, or a bound ends the history.

**Fairness.** Each slot is an asyncio task that polls in a loop and whose
attempts end (every Run has a timeout): weak fairness on `WorkerStep`. Clocks
advance: weak fairness on the expiry of a lease that nobody renews, and of an
approval request (`expires_at`). The reconcilers run in every poll of a slot: weak
fairness on `Reconcile` and `Expire`. A loop whose claim is held goes on and its
events are recorded: weak fairness on `LoopStep`, `Record`, `Resume` and
`CompleteClaim` of `PlanExecution`. A request that has begun goes on, because the
object store and the database answer or raise: weak fairness on `Proceed` of
`Storage`. Nothing is assumed of operators, models,
humans or heartbeats, and faults are finitely many.

## 4. What is proved

Each theorem holds for every value of the constants, from the assumptions that the
module names (null values are no ids, bounds are numbers, every slot has a
`worker_id`, risky calls are calls, the planner's answers are sequences of steps, row
numbers are subjects of evidence), which TLC evaluates in the runs. Two theorems state a
hypothesis more: `CancellationIsComplete` that the Runs of a tree are finitely many (the
walk along parent links ends), `ExcessIsBounded` that the requests of one moment are
finitely many and at least one. The last column is the property of a run that the
theorem states; the others state an invariant that no run lists.

| Module | Theorem | Proves |
|---|---|---|
| `RunLeaseProofs` | `TypeCorrect`, `ClosedRunsAreReleased` | types; a closed Run has no lease |
| | `OwnerIsExclusive` | `ExclusiveOwner` |
| | `CursorIsMet` | `CursorMeetsOwner` |
| | `CommitIsDurable` | `CommitMatchesStream` |
| | `ImplementsRunOutcome` | `RefinesRunOutcome` |
| `CoordinationProofs` | `TreesAreSound` | the inductive invariant |
| | `BudgetsBalance` | `ReservationsMatch` |
| | `CheckpointsAreTrue` | `CheckpointMatchesTree` |
| | `ParentsHaveAllResults` | `ProceedsWithAllResults` |
| | `CancellationIsComplete` | `CancelReachesAll` |
| `ToolGatewayProofs` | `EffectsAreApproved` | `ApprovedBeforeEffect` |
| | `OwnersAreHeard` | `OwnersResultIsAccepted` |
| | `SeenIsStored` | `ObservedIsDurable` |
| | `ReplaysAreHarmless` | `ReplayRepeatsNothing` |
| `ConversationsProofs` | `TurnsTakeTurns` | `OneTurnActive` |
| | `ContextsAreWhole` | `HistoryIsWhole` |
| | `AnswersAreFinal` | `CompletedTurnIsFinal` |
| | `SummaryOnlyGrows` | `SummaryKeepsAnswers` |
| `GrowthProofs` | `ChainIsUnique` | `OneChainPerTrajectory` |
| | `MemoriesImplementPublication` | `PublishesOnEvidence` |
| | `CanariesAreBeside` | `CanaryBesideStable` |
| | `ResolutionsAreCurrent` | `ResolvesWhatIsInUse` |
| | `SkillsImplementPublication` | `ReleasesOnEvidence` |
| `PlanExecutionProofs` | `PlanIsFollowed` | the inductive invariant |
| | `DependenciesComeFirst` | `DependenciesFirst` |
| | `WorkIsNotRepeated` | `StepsAreNotRepeated` |
| | `CompletionsAreEarned` | `CompletionIsEarned` |
| | `FinalCheckpointHolds` | `FinalCheckpointIsLast` |
| | `ImplementsPlanRevisions` | `PlansAreHistory` |
| `ModelCallsProofs` | `KnowledgeIsPermitted` | `RecallIsPermitted` |
| | `EffectsAreKnown` | `FactsFollowRun` |
| | `StreamIsFollowed` | the inductive invariant |
| | `ReactEventsAreAccepted` | `EventsAreAccepted` |
| | `BudgetsOutliveTakeovers` | `CallBudgetHolds` |
| | `ProvenanceSurvives` | `ProvenanceIsExact` |
| `StorageProofs` | `RowsHaveBytes` | `AvailableIsStored` |
| | `FateIsOne` | `OneFate` |
| | `ExcessIsBounded` | `StagedBounded` |

### The inductive invariants, and why they are needed

**RunLease.** `TypeOK` is not inductive: a step of a slot reads the row of the Run
it names, so `TypeInv` adds that a slot attached to a Run names one and holds a
token. `ExclusiveOwner` follows from `TokensDistinct` (no two attached slots hold
one token), inductive because `Claim` takes a token that is in no row and in
no slot; owners of one Run hold the token in its row. Cursor and checkpoint need
`IInv`, which adds `CountersInOrder` (what is forwarded is bounded by what is emitted)
and `SessionInSync` (where the session of the *owner* stands, for each `pc`). It says
nothing of slots that lost their lease, and needs not: each of their writes is behind
the ownership check, which `TokensDistinct` makes fail. Refinement then goes action by
action: a step advances one Run's checkpoint (`RecordEvent`), closes it, or
stutters. A closed Run has no lease, so no worker can reopen it; for
`SuspendClaim`, which tests ownership only, this is the reason it is safe.

**Coordination.** The row of a parent, what its forwarder still has to write and what the
loop holds are one chain of checkpoints (`Chain`): each keeps the results of the one
before and leaves a wait only with all of them, each settled, so that it does not
matter how far the chain was recorded when an attempt died. `Row` ties a link to its
Run, its closure rows to the parent's, and an acknowledged message to the checkpoint
that has its result, while the parent is open: the chain of a closed Run has ended, and its
row may hold the checkpoint the failed attempt started from. `Reserved` counts the grants of active delegations. The children
that a Run names are its own or not created yet (`Owned`): without this another parent
could settle or adopt a child in between. Cancellation walks closure rows; that these
are all the Runs below is an induction along parent links (`BelowIsSubtree`).

**ToolGateway.** The properties speak of slots and rows, while operators change rows
without looking at slots. `RequestsMatch` ties them: an open request means a call that
does not run yet, and a refused one a call that is settled, so no decision or expiry
reaches a call in an executor. `ClosedIsReleased` says that an owner's Run is open, and
`SlotInv` that what a slot has seen, in memory or in its queue of checkpoints, is
settled. Each step is one of four kinds (in memory, by the owner on one row, giving up
a slot, from outside), and for all of them `SlotStays` carries the invariant over to
the slots that take no part: settled rows and given approvals stay (`Stays`).
`ReplayRepeatsNothing` needs `Quiet`, of histories without disruption: exactly the holder
of the Run is busy, who begins a call finds it without effect, and a call that had its
effect is spent, because it is settled, the Run is closed, or the attempt that executed
it either reports it next or aborts.

**Conversations.** `OneTurnActive` and `TurnMirrorsRun` support one another, once every
row that a turn or a Run names exists (`References`). The history needs `Summaries`:
the summary, and every compaction under way, covers exactly the completed turns up to
some completed turn. It is kept because of `PastStays`: completed turns, and all turns
but the last, never change, so a summary stays right while it is being written; a
compaction that ends late is refused if its turn is not after the present one.

**MemoryLifecycle.** `OneChainPerTrajectory` needs that versions of one logical memory
have different numbers (`VersionsDiffer`) and that a row once published is never a
candidate again (`PublishedOnce`). The latter also gives the refinement: of all steps
only `PublishMemory` makes a row active, and it reads the evidence in that transaction.

**SkillRelease.** `CanaryBesideStable` is inductive with the types of the rows. For the
resolution, `ResolutionsSeen` says that whatever it may still return after its first
statement is already in the history of what was in use while it ran. For the
refinement, `PublishingHolds` says that what a publication has read under its locks is
still so when it writes: the version is the same draft with the same latest evaluation,
and the skill has the status it had; nothing is said of the tools.

**PlanExecution.** All theorems have one invariant, `PInv`. It says of the rows that they
fit (`RowsFit`): a step that runs or is completed has its dependencies completed, a
completed Plan all its steps, and every Plan but the last was given up with no step left
to run. Of the saved checkpoint, that it counts no step as done that is not completed in
its row, and asks for a new Plan only when its own was given up (`CpFits`). A worker is
described by the place of the loop (`AtPc`) and by what is left of the events of its last
step: `Stream` lists the forms these have (a Plan created and the checkpoint after it, a
step completed and the checkpoint after it, a Plan superseded, a Plan closed, ...), each
with what the rows lack until it is recorded (`DrainedBut`). Recording the head of one form
leaves another, and every checkpoint in a form fits the rows of the moment at which it is
saved, so that a worker may be lost after any event. A successor is brought to the facts by
`_reconcile_plan_recovery`; of the event that may be missing from its checkpoint, a step
completed or a Plan superseded, the rows are proof enough. That the step taken next has its
dependencies done (`NextIsRunnable`) rests on `TakenAfter`: the keys of earlier rounds are done
when a step of a round is first among those that remain. TLC had checked `PInv` before
within the bounds of `plan_check`.

**ModelCalls.** `RecallPending`: what a first preparation recalled is permitted by the
policies it read, and the row is pending until it commits. `PendingIsFresh`: before that
nothing is known of the Run. `EndedFacts`: a fact that has ended says how the Run did.
The other three properties have one invariant, `MInv`. It reads the events of a Run as a
stream in which every round has eight places (step started, context, call started, call
ended, step completed, checkpoint, tool completed, checkpoint of the next round). There
are a history `H`, the call whose answer each round used, and a place `from`, such that
the events of the worker fill the places after `from` with what `H` demands (`Fits`), and
the rows hold what the places up to `from` have left there (`RowsReached`). A successor
starts again at the place of the saved checkpoint, which is behind what is recorded or
just after it, so it replays contexts that are recorded as they were, and takes keys
that are not (`KeysFresh`). `CallsOwed` counts: a call beyond one a round was paid for by
the takeover before it, and one more is owed while the successor has not called yet.
TLC had checked `MInv` before on one item, three rounds and two takeovers (0.35 M states).

**Storage.** `SentFirst`: who is about to write a row has sent its bytes. `UploadIsNew`:
the row of an upload does not exist until it commits, and nobody else uploads under its
key. `FoundExist`: the rows that a request found are rows, so no other request inserts
them anew; that a fate is kept is then shown step by step. How far uploads exceed the
limit is shown with `OneRowEach`: order the uploads under way by when they read. What an
upload has not seen was inserted by those that read before it and have ended since; the
latest reader counted below the limit (`LockedRoom`), and everyone else adds one row.

**Only model-checked.** All liveness (`QueueDrains`, `WakesWhenSettled`,
`ResultsReachParent`, `ApprovalWakes`, `PlanTerminates`, `UploadsSettle`), because the
provers used here do not reason about fairness. Every invariant, every action property and
every refinement that a passing run checks is a theorem.

## 5. Plan

Done, in this order: the queue (`RunLease` over `RunOutcome`), delegation
(`Coordination`), tools (`ToolGateway`), `Conversations`, growth (`GrowthReview` with
`MemoryLifecycle` and `SkillRelease` over `Publication`), plan-and-execute
(`PlanExecution` over `PlanRevisions`), model calls and knowledge (`ModelCalls`), bytes
(`Storage`), and the theorems of section 4. What is left, by weight:

1. Row locks: the transactions of `cancel_tree`, `complete_claim`, `decide` and
   `retry_turn` as sequences of locks, to see which pairs can deadlock.
2. The rate-limit window of the Model Gateway and the coordination policy, as pure
   operators against reference definitions.

## 6. Not modelled

HTTP, authentication and tenant isolation (row-level security is assumed to give a
transaction its tenant's rows); the checkpoint with which a Run is closed, except in
`RunLease` and `Coordination`, whose properties could tell (no other reads that of a
closed Run); what models and tools answer, beyond
success, failure and which calls or delegations they ask for; revision numbers, which refuse a stale command before it
changes anything; idempotent replays of API calls that change nothing; the
character budgets of a context; deadlocks among row locks, which PostgreSQL turns
into an abort that here is the raising of the transaction (`CommitRaises`).
