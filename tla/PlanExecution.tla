---------------------------- MODULE PlanExecution ----------------------------
(***************************************************************************)
(* One Run in plan_and_execute mode.  The loop of runtime/native/loop.py   *)
(* plans, executes the steps of the Plan in dependency order, reflects on  *)
(* what was rejected, replans, judges the result and completes the Run.    *)
(* It never reads the database: it emits runtime events, and               *)
(* runtime/service.py records them one transaction at a time, each         *)
(* projected on the rows of plans, plan_steps and runtime_evaluations or   *)
(* saved as the checkpoint.  A worker that dies loses the events that were *)
(* not recorded; the next one starts from the checkpoint and moves it      *)
(* forward to the facts (_reconcile_plan_recovery).                        *)
(*                                                                         *)
(* As the loop reads nothing that recording writes, a step of the loop     *)
(* waits here until the events of its last step are recorded: the rows a   *)
(* crash leaves are those of some prefix of the stream either way.         *)
(***************************************************************************)
EXTENDS Naturals, Sequences, SequencesExt, FiniteSets

CONSTANTS
    Keys,            \* the step keys a planner may use
    Answers,         \* what the planner may answer: sequences of [key, deps]
    MaxReflections,  \* budgets.max_reflections
    MaxReplans,      \* budgets.max_replans
    MaxRounds,       \* budgets.max_step_iterations
    Judge,           \* run_config.completion_model_judge
    MaxTakeovers     \* bound: crashes and suspensions explored

ASSUME BudgetsAssumption ==
    /\ MaxReflections \in Nat /\ MaxReplans \in Nat /\ MaxRounds \in Nat \ {0}
    /\ MaxTakeovers \in Nat /\ Judge \in BOOLEAN

ASSUME AnswersAssumption == Answers \subseteq Seq([key : Keys, deps : SUBSET Keys])

VARIABLES
    plans,      \* the rows of plans and plan_steps, by revision
    saved,      \* runtime_session.checkpoint
    contexts,   \* the rows of context_snapshots newer than the checkpoint
    run,        \* Run.status and Run.result
    worker,     \* the loop of the worker that holds the lease
    takeovers   \* crashes and suspensions so far

vars == <<plans, saved, contexts, run, worker, takeovers>>

-----------------------------------------------------------------------------
(* The Plan a planner may return, and the order its steps run in.          *)

NoPlan == <<>>

StepKeys(plan) == {s.key : s \in Range(plan)}

\* ordered_steps works in rounds; a round takes the steps whose dependencies
\* earlier rounds have taken.  The keys taken by each number of rounds.
TakenAfter(plan) ==
    LET Taken[n \in 0..Len(plan)] ==
            IF n = 0 THEN {}
            ELSE Taken[n - 1] \cup {s.key : s \in {t \in Range(plan) : t.deps \subseteq Taken[n - 1]}}
    IN  Taken

\* Fault: the declared order, whatever the dependencies.
DeclaredBefore(plan, i, j) == i < j

\* The order of ordered_steps: an earlier round, then the declared order.
OrderedBefore(plan, i, j) ==
    \/ \E n \in 0..Len(plan) : plan[i].key \in TakenAfter(plan)[n] /\ plan[j].key \notin TakenAfter(plan)[n]
    \/ /\ \A n \in 0..Len(plan) : plan[i].key \in TakenAfter(plan)[n] <=> plan[j].key \in TakenAfter(plan)[n]
       /\ i < j

\* parse_plan and _validate_graph: unique keys, known dependencies, no cycle.
ValidGraph(plan) ==
    /\ plan # <<>>
    /\ \A i, j \in DOMAIN plan : plan[i].key = plan[j].key => i = j
    /\ \A s \in Range(plan) : s.deps \subseteq StepKeys(plan) \ {s.key}
    /\ TakenAfter(plan)[Len(plan)] = StepKeys(plan)

-----------------------------------------------------------------------------
(* Checkpoints, rows and events.                                           *)

\* What a step produced; fit says whether Task.acceptance would accept it.
Outputs == [key : Keys, fit : BOOLEAN]
NoOutput == [key |-> "none", fit |-> FALSE]

\* PlanCheckpoint.step_state: the bounded tool state of one step.
NoStepState == [key |-> "none", round |-> 0, pending |-> FALSE]

\* load_plan_checkpoint(None)
NewCheckpoint ==
    [state |-> "planning", revision |-> 0, done |-> {}, output |-> NoOutput,
     decision |-> "none", reflections |-> 0, step |-> NoStepState,
     instruction |-> FALSE, context |-> 0]

\* The checkpoint that opens the next revision: the output is dropped.
PlanningAgain(cp) ==
    [NewCheckpoint EXCEPT !.revision = cp.revision, !.reflections = cp.reflections,
                          !.instruction = cp.instruction, !.context = cp.context]

Executing(cp) ==
    [cp EXCEPT !.state = "executing", !.decision = "none", !.step = NoStepState]

\* The context of a model call: its version, and what it is built from.
Context(cp, content) ==
    [ev |-> "CONTEXT_SNAPSHOT_CREATED", version |-> cp.context + 1, content |-> content]
Save(cp) == [ev |-> "CHECKPOINT_SAVED", cp |-> cp]
PlanCreated(rev, plan) == [ev |-> "PLAN_CREATED", rev |-> rev, plan |-> plan]
PlanStatus(rev, status) == [ev |-> "PLAN_STATUS_CHANGED", rev |-> rev, status |-> status]
StepStarted(rev, key) == [ev |-> "PLAN_STEP_STARTED", rev |-> rev, key |-> key]
StepCompleted(rev, key, output) ==
    [ev |-> "PLAN_STEP_COMPLETED", rev |-> rev, key |-> key, output |-> output]
StepFailed(rev, key) == [ev |-> "PLAN_STEP_FAILED", rev |-> rev, key |-> key]
Reflected(rev, decision) == [ev |-> "REFLECTION", rev |-> rev, decision |-> decision]

NewRow(plan) ==
    [status |-> "active", plan |-> plan, decisions |-> <<>>,
     steps |-> [k \in StepKeys(plan) |-> [status |-> "pending", output |-> NoOutput]]]

Terminal == {"completed", "failed", "cancelled", "timed_out"}

-----------------------------------------------------------------------------
(* record_event: one event projected on the rows.                          *)

\* A context at or below the checkpoint's version is never built again, so
\* contexts[1] is the one after it.
NoSnapshot == <<>>
SnapshotOf(version) ==
    IF version - saved.context \in DOMAIN contexts
    THEN contexts[version - saved.context] ELSE NoSnapshot

\* Fault: a closed Plan may be closed again, without guard_plan_semantics.
RefusedSteps(e) ==
    /\ e.ev \in {"PLAN_STEP_STARTED", "PLAN_STEP_COMPLETED", "PLAN_STEP_FAILED"}
    /\ plans[e.rev].steps[e.key].status \in {"completed", "failed"}

\* The two triggers of migration 20260718_0012 and the lookups that raise.
Refused(e) ==
    \/ /\ e.ev = "PLAN_STATUS_CHANGED"
       /\ plans[e.rev].status \notin {"active", e.status}
    \/ /\ e.ev \in {"PLAN_STEP_STARTED", "PLAN_STEP_COMPLETED", "PLAN_STEP_FAILED"}
       /\ plans[e.rev].steps[e.key].status \in {"completed", "failed"}
    \/ /\ e.ev = "PLAN_CREATED"
       /\ IF e.rev \in DOMAIN plans THEN plans[e.rev].plan # e.plan
          ELSE e.rev > 1 /\ e.rev - 1 \notin DOMAIN plans
    \/ /\ e.ev = "CONTEXT_SNAPSHOT_CREATED"
       /\ SnapshotOf(e.version) \notin {NoSnapshot, e.content}

ProjectPlanCreated(e) ==
    IF e.rev \in DOMAIN plans THEN plans ELSE Append(plans, NewRow(e.plan))

\* A superseded or failed Plan takes its open steps with it.
ProjectPlanStatus(e) ==
    IF plans[e.rev].status = e.status THEN plans
    ELSE [plans EXCEPT
            ![e.rev].status = e.status,
            ![e.rev].steps = [k \in DOMAIN @ |->
                IF e.status # "completed" /\ @[k].status \in {"pending", "running"}
                THEN [@[k] EXCEPT !.status = "failed"] ELSE @[k]]]

ProjectStep(e) ==
    [plans EXCEPT ![e.rev].steps[e.key] =
        CASE e.ev = "PLAN_STEP_STARTED" -> [@ EXCEPT !.status = "running"]
          [] e.ev = "PLAN_STEP_COMPLETED" -> [status |-> "completed", output |-> e.output]
          [] e.ev = "PLAN_STEP_FAILED" -> [status |-> "pending", output |-> NoOutput]]

Project(e) ==
    CASE e.ev = "PLAN_CREATED" -> ProjectPlanCreated(e)
      [] e.ev = "PLAN_STATUS_CHANGED" -> ProjectPlanStatus(e)
      [] e.ev = "REFLECTION" ->
            [plans EXCEPT ![e.rev].decisions = Append(@, e.decision)]
      [] e.ev \in {"CHECKPOINT_SAVED", "CONTEXT_SNAPSHOT_CREATED"} -> plans
      [] OTHER -> ProjectStep(e)

ProjectContexts(e) ==
    CASE e.ev = "CONTEXT_SNAPSHOT_CREATED" ->
            IF SnapshotOf(e.version) = NoSnapshot THEN Append(contexts, e.content) ELSE contexts
      [] e.ev = "CHECKPOINT_SAVED" ->
            SubSeq(contexts, 1 + e.cp.context - saved.context, Len(contexts))
      [] OTHER -> contexts

-----------------------------------------------------------------------------
(* What the next worker starts from.                                       *)

LastRow == plans[Len(plans)]

CompletedSteps(row) == {k \in DOMAIN row.steps : row.steps[k].status = "completed"}

\* prepare_claim reads the completed steps in declared order (position).
LastOutput(row) ==
    LET done == SelectSeq(row.plan, LAMBDA s : s.key \in CompletedSteps(row))
    IN  row.steps[done[Len(done)].key].output

\* The rows _reconcile_plan_recovery looks at: the latest Plan, not behind
\* the checkpoint, still active or completed.
Usable(cp) ==
    /\ plans # <<>>
    /\ Len(plans) >= cp.revision
    /\ LastRow.status \in {"active", "completed"}

\* Fault: completed steps the checkpoint misses are not looked for.
NewRevisionAhead(cp) ==
    Len(plans) > cp.revision \/ Len(LastRow.decisions) > cp.reflections

FactsAhead(cp) ==
    \/ Len(plans) > cp.revision
    \/ ~ (CompletedSteps(LastRow) \subseteq cp.done)
    \/ Len(LastRow.decisions) > cp.reflections

\* _reconcile_plan_recovery, where Usable(cp) /\ FactsAhead(cp).  The
\* reflections counted are those of this revision only.
Advanced(cp) ==
    LET reflected == Len(LastRow.decisions) > cp.reflections
        done == CompletedSteps(LastRow)
    IN  [state |-> IF reflected THEN "reflecting" ELSE "executing",
         revision |-> Len(plans),
         done |-> done,
         output |-> IF done # {} THEN LastOutput(LastRow) ELSE cp.output,
         decision |-> IF reflected THEN Last(LastRow.decisions) ELSE "none",
         reflections |-> IF reflected THEN Len(LastRow.decisions) ELSE cp.reflections,
         step |-> NoStepState,
         instruction |-> reflected \/ cp.instruction,
         context |-> cp.context + Len(contexts)]

Reconciled(cp) == IF Usable(cp) /\ FactsAhead(cp) THEN Advanced(cp) ELSE cp

\* _restore_plan: the rows of the checkpoint's revision, whatever its status.
RestoredPlan(cp) ==
    IF Usable(cp) THEN LastRow.plan
    ELSE IF cp.revision = 0 \/ cp.state = "planning" \/ cp.revision # Len(plans)
         THEN NoPlan ELSE LastRow.plan

-----------------------------------------------------------------------------
Idle == [pc |-> "off", cp |-> NewCheckpoint, plan |-> NoPlan, replans |-> 0,
         instruction |-> FALSE, events |-> <<>>, outcome |-> "none"]

Init ==
    /\ plans = <<>>
    /\ saved = NewCheckpoint
    /\ contexts = <<>>
    /\ run = [status |-> "running", result |-> NoOutput]
    /\ worker = Idle
    /\ takeovers = 0

\* The loop goes on at pc after these events, with this checkpoint.
Emit(pc, cp, events) ==
    worker' = [worker EXCEPT !.pc = pc, !.cp = cp, !.events = events]

\* _fail, _cancelled, or RUN_COMPLETED: the outcome complete_claim will write.
Finish(outcome, cp, events) ==
    worker' = [worker EXCEPT !.pc = "finish", !.cp = cp, !.events = events,
                             !.outcome = outcome]

LoopAt(pc) == worker.pc = pc /\ worker.events = <<>>

\* Fault: a terminal checkpoint is resumed like any other.
ResumeTerminal ==
    /\ run.status = "running" /\ worker.pc = "off"
    /\ worker' = [Idle EXCEPT !.pc = "top", !.cp = Reconciled(saved),
                              !.plan = RestoredPlan(saved)]
    /\ UNCHANGED <<plans, saved, contexts, run, takeovers>>

\* prepare_claim and the head of _execute_plan_and_execute.
Resume ==
    /\ run.status = "running" /\ worker.pc = "off"
    /\ LET cp == Reconciled(saved)
           base == [Idle EXCEPT !.cp = cp, !.plan = RestoredPlan(saved),
                                !.instruction = cp.instruction,
                                !.replans = IF cp.revision > 0 THEN cp.revision - 1 ELSE 0]
       IN  worker' =
             CASE saved.state = "completed" ->       \* CHECKPOINT_TERMINAL
                    [base EXCEPT !.pc = "finish", !.cp = NewCheckpoint, !.outcome = "failed"]
               [] saved.state # "completed" /\ cp.state = "reflecting" /\ cp.decision = "fail" ->
                    [base EXCEPT !.pc = "finish", !.outcome = "failed"]
               [] saved.state # "completed" /\ cp.state = "reflecting" /\ cp.decision = "replan" ->
                    [base EXCEPT !.pc = "top", !.plan = NoPlan, !.cp = PlanningAgain(cp),
                                 !.events = <<PlanStatus(cp.revision, "superseded")>>]
               [] saved.state # "completed" /\ cp.state = "reflecting" /\ cp.decision = "retry" ->
                    [base EXCEPT !.pc = "top", !.cp = Executing(cp)]
               [] saved.state # "completed" /\ cp.state # "reflecting" ->
                    [base EXCEPT !.pc = "top"]
    /\ UNCHANGED <<plans, saved, contexts, run, takeovers>>

\* _create_plan_revision: an answer that is not a valid Plan fails the Run.
CreatePlan ==
    /\ LoopAt("top") /\ worker.plan = NoPlan
    /\ \E plan \in Answers :
          LET cp == [NewCheckpoint EXCEPT !.state = "executing",
                        !.revision = worker.cp.revision + 1,
                        !.reflections = worker.cp.reflections,
                        !.context = worker.cp.context + 1]
              context == Context(worker.cp, <<"planning", cp.revision, worker.instruction>>)
          IN  IF ValidGraph(plan)
              THEN worker' = [worker EXCEPT !.plan = plan, !.cp = cp,
                     !.events = <<context, PlanCreated(cp.revision, plan), Save(cp)>>]
              ELSE Finish("failed", worker.cp, <<>>)
    /\ UNCHANGED <<plans, saved, contexts, run, takeovers>>

\* The steps of the Plan that the checkpoint does not count as done.
Remaining == {i \in DOMAIN worker.plan : worker.plan[i].key \notin worker.cp.done}

\* The next one in the order of ordered_steps.
NextStep == CHOOSE i \in Remaining : \A j \in Remaining \ {i} : OrderedBefore(worker.plan, i, j)

\* _execute_plan_step picks up the tool state the checkpoint holds for it.
StartStep ==
    /\ LoopAt("top") /\ worker.plan # NoPlan /\ Remaining # {}
    /\ LET key == worker.plan[NextStep].key
           state == IF worker.cp.step.key = key THEN worker.cp.step
                    ELSE [NoStepState EXCEPT !.key = key]
       IN  Emit("step", [worker.cp EXCEPT !.step = state],
                <<StepStarted(worker.cp.revision, key)>>)
    /\ UNCHANGED <<plans, saved, contexts, run, takeovers>>

StepContext ==
    LET cp == worker.cp
    IN  Context(cp, <<"plan_step", cp.revision, cp.step, cp.done, cp.output, worker.instruction>>)

\* Fault: a round that asks for tools does not count.
AskToolsFreely ==
    /\ LoopAt("step")
    /\ ~ worker.cp.step.pending /\ worker.cp.step.round < MaxRounds
    /\ Emit("step", [worker.cp EXCEPT !.step.pending = TRUE], <<>>)
    /\ UNCHANGED <<plans, saved, contexts, run, takeovers>>

\* A round whose answer asks for tools: saved before any of them runs.
AskTools ==
    /\ LoopAt("step")
    /\ ~ worker.cp.step.pending /\ worker.cp.step.round < MaxRounds
    /\ LET cp == [worker.cp EXCEPT !.state = "executing", !.decision = "none",
                                   !.step.round = @ + 1, !.step.pending = TRUE,
                                   !.instruction = worker.instruction,
                                   !.context = @ + 1]
       IN  Emit("step", cp, <<StepContext, Save(cp)>>)
    /\ UNCHANGED <<plans, saved, contexts, run, takeovers>>

RunTools ==
    /\ LoopAt("step") /\ worker.cp.step.pending
    /\ LET cp == [worker.cp EXCEPT !.step.pending = FALSE]
       IN  Emit("step", cp, <<Save(cp)>>)
    /\ UNCHANGED <<plans, saved, contexts, run, takeovers>>

\* ToolApprovalRequired: suspend_claim, after the events are recorded.
Suspend ==
    /\ LoopAt("step") /\ worker.cp.step.pending
    /\ takeovers < MaxTakeovers
    /\ takeovers' = takeovers + 1
    /\ saved' = worker.cp
    /\ worker' = Idle
    /\ UNCHANGED <<plans, contexts, run>>

\* The round that answers with an output, and its step validation.
AnswerStep ==
    /\ LoopAt("step")
    /\ ~ worker.cp.step.pending /\ worker.cp.step.round < MaxRounds
    /\ \E fit \in BOOLEAN, passed \in BOOLEAN :
          LET key == worker.cp.step.key
              output == [key |-> key, fit |-> fit]
              cp == [worker.cp EXCEPT !.output = output, !.decision = "none",
                                      !.step = NoStepState, !.instruction = FALSE,
                                      !.context = @ + 1]
              next == [cp EXCEPT !.state = "executing", !.done = @ \cup {key}]
          IN  IF passed
              THEN worker' = [worker EXCEPT !.pc = "top", !.cp = next, !.instruction = FALSE,
                     !.events = <<StepContext, StepCompleted(cp.revision, key, output), Save(next)>>]
              ELSE Emit("reflectStep", [cp EXCEPT !.state = "reflecting"],
                        <<StepContext, StepFailed(cp.revision, key)>>)
    /\ UNCHANGED <<plans, saved, contexts, run, takeovers>>

\* _reflect: one more model call, a decision, an evaluation, a checkpoint.
Decided(decision) ==
    [worker.cp EXCEPT !.state = "reflecting", !.decision = decision,
                      !.reflections = @ + 1, !.step = NoStepState,
                      !.instruction = TRUE, !.context = @ + 1]

RecordedReflection(decision) ==
    <<Context(worker.cp, <<"reflection", worker.cp.revision, worker.cp.output>>),
      Reflected(worker.cp.revision, decision), Save(Decided(decision))>>

MayReflect == worker.cp.reflections < MaxReflections

GiveUpPlan ==
    Finish("failed", Decided("fail"),
           RecordedReflection("fail") \o <<PlanStatus(worker.cp.revision, "failed")>>)

\* A new revision, where the replan budget allows one more.
Replan(decision) ==
    LET cp == Decided(decision)
        again == PlanningAgain(cp)
    IN  IF worker.replans >= MaxReplans
        THEN Finish("failed", cp, RecordedReflection(decision))
        ELSE worker' = [worker EXCEPT !.pc = "top", !.cp = again, !.plan = NoPlan,
                !.replans = @ + 1, !.instruction = TRUE,
                !.events = RecordedReflection(decision)
                           \o <<PlanStatus(cp.revision, "superseded"), Save(again)>>]

\* A rejected step: try it again, replan, or give up.
ReflectOnStep ==
    /\ LoopAt("reflectStep") /\ MayReflect
    /\ \/ worker' = [worker EXCEPT !.pc = "top", !.cp = Executing(Decided("retry")),
                        !.instruction = TRUE, !.events = RecordedReflection("retry")]
       \/ Replan("replan")
       \/ GiveUpPlan
    /\ UNCHANGED <<plans, saved, contexts, run, takeovers>>

\* A rejected result: a completed Plan is not edited, so retry replans too.
ReflectOnResult ==
    /\ LoopAt("reflectResult") /\ MayReflect
    /\ \/ \E decision \in {"retry", "replan"} : Replan(decision)
       \/ GiveUpPlan
    /\ UNCHANGED <<plans, saved, contexts, run, takeovers>>

\* REFLECTION_BUDGET_EXHAUSTED
ReflectionBudgetExhausted ==
    /\ LoopAt("reflectStep") \/ LoopAt("reflectResult")
    /\ ~ MayReflect
    /\ Finish("failed", worker.cp, <<>>)
    /\ UNCHANGED <<plans, saved, contexts, run, takeovers>>

\* Fault: with a judge, the deterministic evaluation is not asked.
EvaluateByJudge ==
    /\ LoopAt("top") /\ worker.plan # NoPlan /\ Remaining = {}
    /\ Emit("judge", worker.cp, <<>>)
    /\ UNCHANGED <<plans, saved, contexts, run, takeovers>>

\* All steps are done: evaluate_completion on the latest output.
EvaluateResult ==
    /\ LoopAt("top") /\ worker.plan # NoPlan /\ Remaining = {}
    /\ Emit(IF ~ worker.cp.output.fit THEN "reflectResult"
            ELSE IF Judge THEN "judge" ELSE "complete", worker.cp, <<>>)
    /\ UNCHANGED <<plans, saved, contexts, run, takeovers>>

JudgeResult ==
    /\ LoopAt("judge")
    /\ \E verdict \in {"complete", "reflectResult"} :
          LET cp == [worker.cp EXCEPT !.state = "finalizing", !.decision = "none",
                                      !.step = NoStepState, !.instruction = FALSE,
                                      !.context = @ + 1]
          IN  Emit(verdict, cp,
                <<Context(worker.cp, <<"judge", cp.revision, cp.output>>), Save(cp)>>)
    /\ UNCHANGED <<plans, saved, contexts, run, takeovers>>

CompletePlan ==
    /\ LoopAt("complete")
    /\ LET cp == [worker.cp EXCEPT !.state = "completed", !.decision = "none",
                                   !.step = NoStepState, !.instruction = FALSE]
       IN  Finish("completed", cp, <<PlanStatus(cp.revision, "completed"), Save(cp)>>)
    /\ UNCHANGED <<plans, saved, contexts, run, takeovers>>

\* A model or tool error, an exhausted round, tool or token budget, or the
\* cancellation the loop sees at its head and between rounds.
StopLoop ==
    /\ \E pc \in {"top", "step", "reflectStep", "reflectResult", "judge"} : LoopAt(pc)
    /\ \E outcome \in {"failed", "cancelled"} : Finish(outcome, worker.cp, <<>>)
    /\ UNCHANGED <<plans, saved, contexts, run, takeovers>>

-----------------------------------------------------------------------------
\* record_event, one transaction; a refused one fails the Run (fail_claim, which
\* also writes back the checkpoint the attempt started from: left out, because
\* nothing reads the checkpoint of a closed Run).
Record ==
    /\ worker.events # <<>>
    /\ LET e == Head(worker.events)
       IN  IF Refused(e)
           THEN /\ run' = [run EXCEPT !.status = "failed"]
                /\ worker' = Idle
                /\ UNCHANGED <<plans, saved, contexts>>
           ELSE /\ plans' = Project(e)
                /\ contexts' = ProjectContexts(e)
                /\ saved' = IF e.ev = "CHECKPOINT_SAVED" THEN e.cp ELSE saved
                /\ worker' = [worker EXCEPT !.events = Tail(@)]
                /\ UNCHANGED run
    /\ UNCHANGED takeovers

\* complete_claim, once the stream is drained.
CompleteClaim ==
    /\ LoopAt("finish")
    /\ run' = [status |-> worker.outcome,
               result |-> IF worker.outcome = "completed" THEN worker.cp.output ELSE NoOutput]
    /\ saved' = worker.cp
    /\ worker' = Idle
    /\ UNCHANGED <<plans, contexts, takeovers>>

\* TimeoutError in _run_provider: fail_claim, whatever is still in the stream; the
\* checkpoint is left out as in Record.
Timeout ==
    /\ worker.pc # "off"
    /\ run' = [run EXCEPT !.status = "timed_out"]
    /\ worker' = Idle
    /\ UNCHANGED <<plans, saved, contexts, takeovers>>

\* The worker dies, or loses its lease; what it had not recorded is lost.
Crash ==
    /\ worker.pc # "off" /\ takeovers < MaxTakeovers
    /\ takeovers' = takeovers + 1
    /\ worker' = Idle
    /\ UNCHANGED <<plans, saved, contexts, run>>

-----------------------------------------------------------------------------
LoopStep ==
    \/ CreatePlan \/ StartStep \/ AskTools \/ RunTools \/ AnswerStep
    \/ ReflectOnStep \/ ReflectOnResult \/ ReflectionBudgetExhausted
    \/ EvaluateResult \/ JudgeResult \/ CompletePlan \/ StopLoop

Stopped == run.status \in Terminal /\ UNCHANGED vars

Next ==
    Resume \/ LoopStep \/ Suspend \/ Record \/ CompleteClaim \/ Timeout \/ Crash \/ Stopped

Spec == Init /\ [][Next]_vars

\* A claimed loop goes on, its stream is recorded, and a Run nobody holds is
\* claimed again: the worker polls (RunLease).
Fairness == WF_vars(Resume) /\ WF_vars(LoopStep) /\ WF_vars(Record) /\ WF_vars(CompleteClaim)

FairSpec == Spec /\ Fairness

-----------------------------------------------------------------------------
(* Properties.                                                             *)

\* No worker runs a step before the steps it depends on are recorded as
\* completed, whatever it was resumed from.
DependenciesFirst ==
    \A r \in DOMAIN plans : \A s \in Range(plans[r].plan) :
        plans[r].steps[s.key].status \in {"running", "completed"} =>
            s.deps \subseteq CompletedSteps(plans[r])

\* Whatever a worker was resumed from, it starts no step of an active Plan that
\* is recorded as completed.
StepsAreNotRepeated ==
    LET e == Head(worker.events)
    IN  worker.events # <<>> /\ e.ev = "PLAN_STEP_STARTED" /\ plans[e.rev].status = "active"
            => e.key \notin CompletedSteps(plans[e.rev])

\* A completed Run was earned: its last Plan is completed with every step,
\* and the result passed the Task's acceptance.
CompletionIsEarned ==
    run.status = "completed" =>
        /\ plans # <<>> /\ LastRow.status = "completed"
        /\ CompletedSteps(LastRow) = StepKeys(LastRow.plan)
        /\ run.result.fit

\* Once the final checkpoint is saved, no takeover plans, executes or reflects
\* again, and only the worker that saved it can complete the Run.
FinalCheckpointIsLast ==
    [][(saved.state = "completed" /\ run.status = "running") =>
            /\ plans' = plans
            /\ saved'.state = "completed" \/ run'.status \in Terminal]_vars

\* The rows are a Plan history: the refinement of PlanRevisions.
History == INSTANCE PlanRevisions WITH history <- [r \in DOMAIN plans |-> plans[r].status]
PlansAreHistory == History!Spec

\* Every Run ends: the budgets bound the loop across any number of takeovers.
PlanTerminates == <>(run.status \in Terminal)

\* A takeover builds every context again as it was recorded: no replay is
\* refused, and the Run goes on.  (The code does not have it:
\* see the README.)
ContextsReplay ==
    LET e == Head(worker.events)
    IN  worker.events # <<>> /\ e.ev = "CONTEXT_SNAPSHOT_CREATED" => ~ Refused(e)
=============================================================================
