----------------------------- MODULE ModelCalls -----------------------------
(***************************************************************************)
(* What one Run asked of models and what it knew when it asked: the rows   *)
(* of context_snapshots, model_calls, run_steps and                        *)
(* runtime_knowledge_usages, written by runtime/service.py from the events *)
(* of the native loop in direct or react mode (runtime/native/loop.py),    *)
(* over the death of any number of workers.                                *)
(*                                                                         *)
(* Knowledge is recalled once, when the first worker prepares the Run, and *)
(* frozen in the session: later workers work from that selection whatever  *)
(* is published or withdrawn meanwhile.  The loop does not wait for its    *)
(* events: it may be rounds ahead of what is recorded, and the gateway     *)
(* saves a checkpoint of its own while older ones are in the stream.       *)
(* Every model call costs one token, and a round asks for one tool.        *)
(***************************************************************************)
EXTENDS RunStates, Naturals, Sequences, FiniteSets

CONSTANTS
    Items,           \* rows of memories and skill_versions
    Scope,           \* the scope of each
    Policies,        \* knowledge policies in use: [enabled, scopes, limit]
    Restrictions,    \* of a delegation: [scopes, limit]
    MaxIterations,   \* budgets.max_iterations
    TokenLimit,      \* budgets.token_limit
    MaxTakeovers     \* bound: crashes and suspensions

ASSUME BudgetAssumption ==
    /\ MaxIterations \in Nat \ {0} /\ TokenLimit \in Nat \ {0} /\ MaxTakeovers \in Nat

ASSUME KnowledgeAssumption ==
    /\ IsFiniteSet(Items)
    /\ \A policy \in Policies : policy.enabled \in BOOLEAN /\ policy.limit \in Nat
    /\ \A restriction \in Restrictions : restriction.limit \in Nat

VARIABLES
    direct,      \* the execution mode of the Run: direct, or react
    catalog,     \* the status of each item
    session,     \* runtime_sessions
    usages,      \* runtime_knowledge_usages, by item
    contexts,    \* context_snapshots, by version (one a round)
    calls,       \* model_calls, in the order they started
    reasoning,   \* run_steps "reasoning:<iteration>", by iteration
    tool,        \* run_steps of the tool calls, by iteration
    run,         \* Run.status
    worker,      \* the worker that holds the lease
    takeovers    \* crashes and suspensions so far

rows == <<usages, contexts, calls, reasoning, tool>>
vars == <<direct, catalog, session, rows, run, worker, takeovers>>

-----------------------------------------------------------------------------
(* Knowledge policies (runtime/preparation.py).                            *)

LeastOf(a, b) == IF a <= b THEN a ELSE b

NoRestriction(policy) == [scopes |-> policy.scopes, limit |-> policy.limit]

\* _memory_intersection and _skill_intersection, where what a restriction does
\* not name is not restricted.
Intersection(left, right, restriction) ==
    LET scopes == left.scopes \intersect right.scopes \intersect restriction.scopes
        limit == LeastOf(LeastOf(left.limit, right.limit), restriction.limit)
    IN  [enabled |-> left.enabled /\ right.enabled /\ scopes # {} /\ limit > 0,
         scopes |-> scopes, limit |-> limit]

\* build_knowledge_policy_snapshot: Tenant and AgentVersion.
PolicySnapshot(tenant, agent) == Intersection(tenant, agent, NoRestriction(tenant))

\* Fault: the child's own policy, cut by the restrictions of its delegation.
WidenedPolicy(parent, child, restriction) == Intersection(child, child, restriction)

\* narrow_knowledge_policy: the snapshot of the parent, the policy of the child
\* and the restrictions of the delegation.
NarrowedPolicy(parent, child, restriction) == Intersection(parent, child, restriction)

\* The policies that a first preparation reads: of the Tenant and of the Agent
\* version or, for a child, what its delegation kept of those of its parent.
PoliciesAbove ==
    {above \in [child : BOOLEAN, tenant : Policies, parent : Policies, agent : Policies,
                restriction : Restrictions] : above.child \/ above.parent = above.tenant}

\* The knowledge_policy_snapshot of the session.
EffectivePolicy(above) ==
    IF above.child
    THEN NarrowedPolicy(PolicySnapshot(above.tenant, above.parent), above.agent, above.restriction)
    ELSE PolicySnapshot(above.tenant, above.agent)

\* What search_in_session and resolve_available_in_session may return, in any
\* ranking and cut at any length.
Recallable(above) ==
    LET policy == EffectivePolicy(above)
    IN  {chosen \in SUBSET {i \in Items : catalog[i] = "in use" /\ Scope[i] \in policy.scopes} :
            Cardinality(chosen) <= IF policy.enabled THEN policy.limit ELSE 0}

-----------------------------------------------------------------------------
(* Rows and events.                                                        *)

NoUsage == [status |-> "none", contexts |-> 0, calls |-> 0]
OpenUsage == {"selected", "consumed"}
UsageOutcome == {"succeeded", "failed", "cancelled", "timed_out"}

\* A context by what it is built from: the rounds before it and the knowledge.
Snapshot(history, refs) == [recorded |-> TRUE, history |-> history, refs |-> refs]
NoContext == [recorded |-> FALSE, history |-> <<>>, refs |-> {}]

\* A call key "model:<round>:replay:<n>"; the base key has replay 0.
Key(round, n) == [round |-> round, replay |-> n]

NewCall(key, context) == [key |-> key, context |-> context, status |-> "streaming"]
NoStep == [status |-> "none", context |-> 0, call |-> 0]

\* new_react_checkpoint.  history has the call whose answer each round used.
NewCheckpoint ==
    [state |-> "reasoning", iteration |-> 1, context |-> 0, history |-> <<>>, usage |-> 0]

NoSession ==
    [ready |-> FALSE, selection |-> {}, context |-> 0, call |-> 0, cp |-> NewCheckpoint]

\* above: the policies read by a first preparation, until it commits.
Idle == [pc |-> "off", above |-> {}, cp |-> NewCheckpoint, refs |-> {}, keys |-> {},
         key |-> Key(0, 0), events |-> <<>>, outcome |-> "none"]

StepStarted(round) == [ev |-> "STEP_STARTED", round |-> round]
StepCompleted(round) == [ev |-> "STEP_COMPLETED", round |-> round]
ContextCreated(version, content) ==
    [ev |-> "CONTEXT_SNAPSHOT_CREATED", version |-> version, content |-> content]
CallStarted(key) == [ev |-> "MODEL_CALL_STARTED", key |-> key]
CallEnded(key, status) == [ev |-> "MODEL_CALL_ENDED", key |-> key, status |-> status]
ToolCompleted(round) == [ev |-> "TOOL_CALL_COMPLETED", round |-> round]
Save(cp) == [ev |-> "CHECKPOINT_SAVED", cp |-> cp]

CallWith(key) == {c \in DOMAIN calls : calls[c].key = key}
TheCall(key) == CHOOSE c \in DOMAIN calls : calls[c].key = key

Init ==
    /\ direct \in BOOLEAN
    /\ catalog \in [Items -> {"candidate", "in use"}]
    /\ session = NoSession
    /\ usages = [i \in Items |-> NoUsage]
    /\ contexts = [v \in 1..MaxIterations |-> NoContext]
    /\ calls = <<>>
    /\ reasoning = [r \in 1..MaxIterations |-> NoStep]
    /\ tool = [r \in 1..MaxIterations |-> NoStep]
    /\ run = "pending"
    /\ worker = Idle
    /\ takeovers = 0

-----------------------------------------------------------------------------
(* prepare_claim                                                           *)

\* The first preparation recalls what is in use now ...
Recall ==
    /\ run = "pending" /\ worker.pc = "off"
    /\ \E above \in PoliciesAbove : \E chosen \in Recallable(above) :
          worker' = [Idle EXCEPT !.pc = "preparing", !.above = {above}, !.refs = chosen]
    /\ UNCHANGED <<direct, catalog, session, rows, run, takeovers>>

\* guard_runtime_knowledge_usage, on insertion.
SourceInUse == \A i \in worker.refs : catalog[i] = "in use"

\* _ensure_knowledge_usages
EnsuredUsages ==
    [i \in Items |-> IF i \in worker.refs
                     THEN [NoUsage EXCEPT !.status = "selected"] ELSE usages[i]]

\* ... and commits the session, the selection and its usage rows, if the trigger
\* finds all of it still in use.
Prepare ==
    /\ worker.pc = "preparing"
    /\ SourceInUse
    /\ session' = [NoSession EXCEPT !.ready = TRUE, !.selection = worker.refs]
    /\ usages' = EnsuredUsages
    /\ run' = "running"
    /\ worker' = [worker EXCEPT !.pc = "loop", !.above = {}]
    /\ UNCHANGED <<direct, catalog, contexts, calls, reasoning, tool, takeovers>>

\* The first preparation raises: fail_unprepared_claim.
PrepareRaises ==
    /\ worker.pc = "preparing"
    /\ run' = "failed"
    /\ worker' = Idle
    /\ UNCHANGED <<direct, catalog, session, rows, takeovers>>

\* Fault: the call of a lost worker stays open.
StillStreaming == calls

\* Calls that a lost worker left open.
Interrupted ==
    [c \in DOMAIN calls |-> IF calls[c].status = "streaming"
                            THEN [calls[c] EXCEPT !.status = "interrupted"] ELSE calls[c]]

\* A takeover: open calls are interrupted; the worker is given every call key,
\* the checkpoint, and the frozen selection.
Recover ==
    /\ run = "running" /\ worker.pc = "off"
    /\ calls' = Interrupted
    /\ worker' = [Idle EXCEPT !.pc = "loop", !.cp = session.cp, !.refs = session.selection,
                              !.keys = {calls[c].key : c \in DOMAIN calls}]
    /\ UNCHANGED <<direct, catalog, session, usages, contexts, reasoning, tool, run, takeovers>>

\* A takeover that cannot be prepared: fail_unprepared_claim, which leaves
\* calls and knowledge as they are.
RecoverRaises ==
    /\ run = "running" /\ worker.pc = "off"
    /\ run' = "failed"
    /\ UNCHANGED <<direct, catalog, session, rows, worker, takeovers>>

-----------------------------------------------------------------------------
(* The loop.                                                               *)

\* (The loop of a Run that was closed goes on until its next write, but what it
\* does is in no row.)
LoopAt(pc) == worker.pc = pc /\ run = "running"

Finish(outcome, events) ==
    worker' = [worker EXCEPT !.pc = "finish", !.outcome = outcome, !.events = @ \o events]

\* The events of the first half of _model_round, with the step they belong to.
Ask(key, context, history) ==
    worker' = [worker EXCEPT !.pc = "calling", !.key = key,
        !.events = @ \o <<StepStarted(key.round),
                          ContextCreated(context, Snapshot(history, worker.refs)),
                          CallStarted(key)>>]

\* _execute_direct: one call, under the first key whatever was recorded before.
StartDirect ==
    /\ direct /\ LoopAt("loop")
    /\ Ask(Key(1, 0), 1, <<>>)
    /\ UNCHANGED <<direct, catalog, session, rows, run, takeovers>>

\* Fault: the base key, whatever an earlier worker used.
AlwaysBaseKey(round) == Key(round, 0)

\* _next_call_key
NextKey(round) ==
    LET used == {k.replay : k \in {key \in worker.keys : key.round = round}}
    IN  Key(round, CHOOSE n \in 0..Cardinality(used) :
                      n \notin used /\ \A m \in 0..(n - 1) : m \in used)

BudgetLeft == worker.cp.iteration <= MaxIterations /\ worker.cp.usage < TokenLimit

\* The head of the loop of _execute_react.
StartRound ==
    /\ ~ direct /\ LoopAt("loop")
    /\ worker.cp.state = "reasoning" /\ BudgetLeft
    /\ Ask(NextKey(worker.cp.iteration), worker.cp.context + 1, worker.cp.history)
    /\ UNCHANGED <<direct, catalog, session, rows, run, takeovers>>

\* MAX_ITERATIONS_EXCEEDED, TOKEN_BUDGET_EXHAUSTED, or CHECKPOINT_TERMINAL.
StopRounds ==
    /\ ~ direct /\ LoopAt("loop")
    /\ \/ worker.cp.state = "reasoning" /\ ~ BudgetLeft
       \/ worker.cp.state = "completed"
    /\ Finish("failed", <<>>)
    /\ UNCHANGED <<direct, catalog, session, rows, run, takeovers>>

\* The checkpoint after an answer.
Answered(state) ==
    [worker.cp EXCEPT !.state = state, !.context = @ + 1, !.usage = @ + 1,
                      !.history = Append(@, worker.key)]

AnswerEvents(cp) ==
    <<CallEnded(worker.key, "completed"), StepCompleted(worker.key.round), Save(cp)>>

\* The model asks for a tool.  Direct mode refuses (MODE_CAPABILITY_VIOLATION).
AnswerTool ==
    /\ LoopAt("calling")
    /\ LET cp == Answered("waiting_for_tool")
       IN  IF direct
           THEN Finish("failed", AnswerEvents(cp))
           ELSE worker' = [worker EXCEPT !.pc = "loop", !.cp = cp,
                                         !.events = @ \o AnswerEvents(cp)]
    /\ UNCHANGED <<direct, catalog, session, rows, run, takeovers>>

\* The model gives a result.
AnswerFinal ==
    /\ LoopAt("calling")
    /\ Finish("completed", AnswerEvents(Answered("completed")))
    /\ UNCHANGED <<direct, catalog, session, rows, run, takeovers>>

\* TOOL_NOT_AUTHORIZED, EMPTY_MODEL_OUTPUT: without a checkpoint.
AnswerUnusable ==
    /\ ~ direct /\ LoopAt("calling")
    /\ Finish("failed", <<CallEnded(worker.key, "completed"), StepCompleted(worker.key.round)>>)
    /\ UNCHANGED <<direct, catalog, session, rows, run, takeovers>>

\* ModelError
AnswerError ==
    /\ LoopAt("calling")
    /\ Finish("failed", <<CallEnded(worker.key, "failed")>>)
    /\ UNCHANGED <<direct, catalog, session, rows, run, takeovers>>

\* The gateway begins a call: it saves the checkpoint itself, and creates the
\* step, bound to the last context and call that are recorded by now, unless an
\* earlier worker has.
GatewayBegins ==
    LET round == worker.cp.iteration IN
    /\ ~ direct /\ LoopAt("loop") /\ worker.cp.state = "waiting_for_tool"
    /\ session' = [session EXCEPT !.cp = worker.cp]
    /\ tool' = IF tool[round].status # "none" THEN tool
               ELSE [tool EXCEPT ![round] = [status |-> "running", context |-> session.context,
                                             call |-> session.call]]

\* _execute_pending_actions: the call returns, and the next round begins.
RunTool ==
    /\ GatewayBegins
    /\ LET cp == [worker.cp EXCEPT !.state = "reasoning", !.iteration = @ + 1]
       IN  worker' = [worker EXCEPT !.cp = cp,
                          !.events = @ \o <<ToolCompleted(worker.cp.iteration), Save(cp)>>]
    /\ UNCHANGED <<direct, catalog, usages, contexts, calls, reasoning, run, takeovers>>

\* The gateway rejects the call, or the executor raises.
ToolRaises ==
    /\ GatewayBegins
    /\ Finish("failed", <<>>)
    /\ UNCHANGED <<direct, catalog, usages, contexts, calls, reasoning, run, takeovers>>

\* ToolApprovalRequired: the loop gives up its claim until the Run is woken.
ToolNeedsApproval ==
    /\ GatewayBegins
    /\ takeovers < MaxTakeovers
    /\ takeovers' = takeovers + 1
    /\ Finish("suspended", <<>>)
    /\ UNCHANGED <<direct, catalog, usages, contexts, calls, reasoning, run>>

\* The cancellation the loop sees at its head.
StopLoop ==
    /\ LoopAt("loop")
    /\ Finish("cancelled", <<>>)
    /\ UNCHANGED <<direct, catalog, session, rows, run, takeovers>>

-----------------------------------------------------------------------------
(* record_event: _project_native_event, _step_started, _step_completed.    *)

NewContext(e) == ~ contexts[e.version].recorded

\* A fact that has ended admits no update (the trigger).
Markable(refs) == \A i \in refs : usages[i].status \in OpenUsage

\* When the projection, a unique key or a trigger refuses an event.
Refused(e) ==
    \/ /\ e.ev = "CONTEXT_SNAPSHOT_CREATED"
       /\ IF NewContext(e) THEN ~ Markable(e.content.refs) ELSE contexts[e.version] # e.content
    \/ /\ e.ev = "MODEL_CALL_STARTED"
       /\ \/ session.context = 0
          \/ CallWith(e.key) # {}
          \/ e.key.replay > 0 /\ CallWith(Key(e.key.round, 0)) = {}
          \/ ~ Markable(contexts[session.context].refs)
    \/ /\ e.ev = "MODEL_CALL_ENDED"
       /\ \/ CallWith(e.key) = {}
          \/ \E c \in CallWith(e.key) : calls[c].status # "streaming"
    \/ e.ev = "TOOL_CALL_COMPLETED" /\ tool[e.round].status = "none"

\* Fault: a context that is replayed counts again.
MarkReplayed(e) ==
    [i \in Items |-> IF i \in e.content.refs
        THEN [usages[i] EXCEPT !.status = "consumed", !.contexts = @ + 1] ELSE usages[i]]

\* _mark_knowledge_context, which a replayed context does not reach.
MarkContext(e) ==
    [i \in Items |-> IF i \in e.content.refs /\ NewContext(e)
        THEN [usages[i] EXCEPT !.status = "consumed", !.contexts = @ + 1] ELSE usages[i]]

RecordContext(e) ==
    /\ contexts' = [contexts EXCEPT ![e.version] = e.content]
    /\ usages' = MarkContext(e)
    /\ session' = [session EXCEPT !.context = e.version]
    /\ UNCHANGED <<calls, reasoning, tool>>

\* _mark_knowledge_model_call, by the context the call is bound to.
MarkModelCall ==
    [i \in Items |-> IF i \in contexts[session.context].refs
        THEN [usages[i] EXCEPT !.status = "consumed", !.calls = @ + 1] ELSE usages[i]]

RecordCallStarted(e) ==
    /\ calls' = Append(calls, NewCall(e.key, session.context))
    /\ usages' = MarkModelCall
    /\ session' = [session EXCEPT !.call = Len(calls) + 1]
    /\ UNCHANGED <<contexts, reasoning, tool>>

RecordCallEnded(e) ==
    /\ calls' = [calls EXCEPT ![TheCall(e.key)].status = e.status]
    /\ UNCHANGED <<session, usages, contexts, reasoning, tool>>

\* A reasoning step starts unbound: its context and call come after it.
RecordStepStarted(e) ==
    /\ reasoning' = IF reasoning[e.round].status # "none" THEN reasoning
                    ELSE [reasoning EXCEPT ![e.round] = [NoStep EXCEPT !.status = "running"]]
    /\ UNCHANGED <<session, usages, contexts, calls, tool>>

\* It is bound to the last ones when it completes; once completed it stays.
RecordStepCompleted(e) ==
    /\ reasoning' = IF reasoning[e.round].status = "completed" THEN reasoning
                    ELSE [reasoning EXCEPT ![e.round] = [status |-> "completed",
                              context |-> session.context, call |-> session.call]]
    /\ UNCHANGED <<session, usages, contexts, calls, tool>>

\* The step of a tool call is bound again to the last ones, now that those of its
\* round are recorded.
RecordToolCompleted(e) ==
    /\ tool' = [tool EXCEPT ![e.round].context = session.context, ![e.round].call = session.call]
    /\ UNCHANGED <<session, usages, contexts, calls, reasoning>>

RecordCheckpoint(e) ==
    /\ session' = [session EXCEPT !.cp = e.cp]
    /\ UNCHANGED rows

Project(e) ==
    \/ e.ev = "CONTEXT_SNAPSHOT_CREATED" /\ RecordContext(e)
    \/ e.ev = "MODEL_CALL_STARTED" /\ RecordCallStarted(e)
    \/ e.ev = "MODEL_CALL_ENDED" /\ RecordCallEnded(e)
    \/ e.ev = "STEP_STARTED" /\ RecordStepStarted(e)
    \/ e.ev = "STEP_COMPLETED" /\ RecordStepCompleted(e)
    \/ e.ev = "TOOL_CALL_COMPLETED" /\ RecordToolCompleted(e)
    \/ e.ev = "CHECKPOINT_SAVED" /\ RecordCheckpoint(e)

Record ==
    /\ worker.events # <<>> /\ run = "running"
    /\ ~ Refused(Head(worker.events))
    /\ Project(Head(worker.events))
    /\ worker' = [worker EXCEPT !.events = Tail(@)]
    /\ UNCHANGED <<direct, catalog, run, takeovers>>

-----------------------------------------------------------------------------
(* The end of the Run.                                                     *)

\* Fault: only knowledge that reached a context is finalized.
FinalizedConsumed(outcome) ==
    [i \in Items |-> IF usages[i].status = "consumed"
        THEN [usages[i] EXCEPT !.status =
                 IF outcome = "completed" THEN "succeeded" ELSE outcome]
        ELSE usages[i]]

\* _finalize_knowledge_usages
Finalized(outcome) ==
    [i \in Items |-> IF usages[i].status \in OpenUsage
        THEN [usages[i] EXCEPT !.status =
                 IF outcome = "completed" THEN "succeeded" ELSE outcome]
        ELSE usages[i]]

\* complete_claim closes Run and knowledge together, unless the Run is closed.  The
\* checkpoint it writes as well is left out: nothing reads that of a closed Run.
Close(outcome) ==
    /\ run = "running"
    /\ run' = outcome
    /\ usages' = Finalized(outcome)
    /\ worker' = Idle
    /\ UNCHANGED <<direct, catalog, session, contexts, calls, reasoning, tool, takeovers>>

CompleteClaim ==
    /\ LoopAt("finish") /\ worker.events = <<>>
    /\ worker.outcome # "suspended"
    /\ Close(worker.outcome)

\* suspend_claim
SuspendClaim ==
    /\ LoopAt("finish") /\ worker.events = <<>>
    /\ worker.outcome = "suspended"
    /\ session' = [session EXCEPT !.cp = worker.cp]
    /\ worker' = Idle
    /\ UNCHANGED <<direct, catalog, rows, run, takeovers>>

\* fail_claim: the Run's timeout, or an event that is refused or raises.
FailClaim ==
    /\ worker.pc \in {"loop", "calling", "finish"}
    /\ \E outcome \in {"failed", "timed_out"} : Close(outcome)

\* cancel_tree or transition_run, which wait for the row that a preparation has
\* locked: calls and knowledge stay as they are.
OperatorCloses ==
    /\ worker.pc # "preparing"
    /\ run' \in RunTransitions[run] \intersect TerminalStatus
    /\ UNCHANGED <<direct, catalog, session, rows, worker, takeovers>>

\* RuntimeLeaseLost: the worker of a closed Run stops at its next write.
ClaimLost ==
    /\ run \in TerminalStatus /\ worker.pc # "off"
    /\ worker' = Idle
    /\ UNCHANGED <<direct, catalog, session, rows, run, takeovers>>

\* The worker dies, or loses its lease; what it had not recorded is lost.
Crash ==
    /\ worker.pc # "off" /\ takeovers < MaxTakeovers
    /\ takeovers' = takeovers + 1
    /\ worker' = Idle
    /\ UNCHANGED <<direct, catalog, session, rows, run>>

\* Growth publishes an item, or ends it: superseded, expired, retired.  (Once the
\* selection is frozen no step of the Run reads the catalog.)
Publish ==
    /\ run = "pending"
    /\ \E i \in Items :
          \/ catalog[i] = "candidate" /\ catalog' = [catalog EXCEPT ![i] = "in use"]
          \/ catalog[i] = "in use" /\ catalog' = [catalog EXCEPT ![i] = "ended"]
    /\ UNCHANGED <<direct, session, rows, run, worker, takeovers>>

-----------------------------------------------------------------------------
Next ==
    \/ Recall \/ Prepare \/ PrepareRaises \/ Recover \/ RecoverRaises
    \/ StartDirect \/ StartRound \/ StopRounds \/ AnswerTool \/ AnswerFinal \/ AnswerUnusable \/ AnswerError
    \/ RunTool \/ ToolRaises \/ ToolNeedsApproval \/ StopLoop
    \/ Record \/ CompleteClaim \/ SuspendClaim \/ FailClaim \/ OperatorCloses \/ ClaimLost \/ Crash \/ Publish

Spec == Init /\ [][Next]_vars

-----------------------------------------------------------------------------
(* Properties.                                                             *)

\* In react mode, whatever the worker before it left behind, no event of the
\* worker that holds the Run is refused: contexts are replayed as they were, call
\* keys are fresh, replays have a base, no trigger raises.  (A direct Run that is
\* taken over after its call was recorded starts it again under the same key.)
EventsAreAccepted ==
    (~ direct /\ worker.events # <<>>) => ~ Refused(Head(worker.events))

\* Knowledge enters a Run once, when it is first prepared: it is in use when its
\* usage row is inserted, where the trigger judges (nothing locks the source from
\* there to the commit), and every policy its preparation read permits it.
RecallIsPermitted ==
    [][\A i \in Items : usages[i].status = "none" /\ usages'[i].status # "none" =>
            /\ ~ session.ready
            /\ catalog[i] = "in use"
            /\ \E above \in worker.above :
                  /\ \A policy \in {above.tenant, above.agent}
                                   \union (IF above.child THEN {above.parent} ELSE {}) :
                        policy.enabled /\ Scope[i] \in policy.scopes
                  /\ above.child => Scope[i] \in above.restriction.scopes]_vars

\* A usage counts the contexts and calls of the Run that carry the item, each
\* once however often it was replayed.
UsageMatchesRows ==
    \A i \in Items :
        /\ usages[i].contexts = Cardinality({v \in DOMAIN contexts : i \in contexts[v].refs})
        /\ usages[i].calls =
              Cardinality({c \in DOMAIN calls : i \in contexts[calls[c].context].refs})

\* What is known about the effect of knowledge is how the Run ended: a worker that
\* closes its Run leaves no fact open, and no fact ends before the Run or in
\* another way.  (An operator who closes a Run, or a takeover that cannot be
\* prepared, leaves facts open for ever.)
FactsFollowRun ==
    [][\A i \in Items :
        /\ run' # run /\ run' \in TerminalStatus /\ worker.pc # "off" /\ worker'.pc = "off" =>
              usages'[i].status \notin OpenUsage
        /\ usages'[i].status \in UsageOutcome =>
              run' = IF usages'[i].status = "succeeded" THEN "completed"
                     ELSE usages'[i].status]_vars

\* Takeovers neither enlarge the budgets nor leave two calls open: the rounds
\* that were answered are within both budgets, and each call beyond one a round
\* is owed to a takeover.
CallBudgetHolds ==
    LET rounds == {calls[c].key.round : c \in DOMAIN calls}
    IN  ~ direct =>
            /\ Cardinality(rounds) <= LeastOf(MaxIterations, TokenLimit)
            /\ Len(calls) <= Cardinality(rounds) + takeovers
            /\ Cardinality({c \in DOMAIN calls : calls[c].status = "streaming"}) <= 1

\* A completed reasoning step names a call of its own round that was answered,
\* with the context it was asked in.  The step of a tool call never names the call
\* of a later round, and while no worker was lost it names the very call whose
\* answer asked for it, as soon as the stream is recorded.  (A worker that dies in
\* between leaves it with the call before: only TOOL_CALL_COMPLETED corrects it.)
StepsNameTheirCall ==
    \A r \in 1..MaxIterations :
        /\ reasoning[r].status = "completed" =>
              /\ reasoning[r].call \in DOMAIN calls
              /\ calls[reasoning[r].call].key.round = r
              /\ calls[reasoning[r].call].status = "completed"
              /\ calls[reasoning[r].call].context = reasoning[r].context
        /\ tool[r].call # 0 => calls[tool[r].call].key.round <= r
        /\ takeovers = 0 /\ run = "running" /\ worker.events = <<>> /\ r < session.cp.iteration =>
              tool[r].call = TheCall(session.cp.history[r])

\* What the Run keeps for its provenance agrees after any number of replays:
\* which knowledge went into which calls, and which call led to which step.
ProvenanceIsExact == UsageMatchesRows /\ StepsNameTheirCall
=============================================================================
