---------------------------- MODULE Conversations ----------------------------
(***************************************************************************)
(* One conversation: its turns, their Tasks and Runs, and its summary.     *)
(*                                                                         *)
(* A turn is a user's message; it has one Task and points to the current   *)
(* Run of that Task, whose status and answer a trigger copies into it.  A  *)
(* failed latest turn can be retried with a new Run.  A compaction is a    *)
(* Task and a Run of its own that replaces finished turns by a summary.    *)
(* When a Run of a turn is prepared, its context is selected: the summary  *)
(* and the finished turns that the summary does not cover.                 *)
(*                                                                         *)
(* An answer is named by the Run that wrote it, so a summary and a context *)
(* are sets of Runs.  The character budgets of the context are left out.   *)
(* RunLease models how workers hold a Run; here every Run has at most one. *)
(***************************************************************************)
EXTENDS Naturals, Sequences, FiniteSets, FiniteSetsExt

CONSTANTS
    MaxTurns,          \* bound: turns of the conversation
    MaxRuns,           \* bound: Runs of the conversation, compactions included
    MaxInterventions   \* bound: calls of transition_task and transition_run

ASSUME BoundAssumption == /\ MaxTurns \in Nat
                          /\ MaxRuns \in Nat
                          /\ MaxInterventions \in Nat

VARIABLES
    conversation,    \* conversations: status, summary, summary_through_sequence
    turn,            \* conversation_turns, by sequence
    task,            \* tasks of the turns and of the compactions
    run,             \* runs of those tasks
    interventions    \* how much of the intervention bound is spent

vars == <<conversation, turn, task, run, interventions>>

-----------------------------------------------------------------------------
(* Rows                                                                    *)

Closed == {"completed", "failed", "timed_out", "cancelled"}
RunStatus == {"pending", "running", "waiting_for_approval"} \union Closed
TurnStatus == {"queued", "running", "waiting_for_approval",
               "completed", "failed", "cancelled"}
TaskStatus == {"running", "waiting_for_review", "revision_required",
               "completed", "failed", "cancelled"}

RunIds == 1..MaxRuns

Conversation == [status : {"active", "archived"}, through : 0..MaxTurns,
                 summary : SUBSET RunIds]
Turn == [task : RunIds, run : RunIds, status : TurnStatus]

\* The Task of a compaction is marked with the turn it reaches and holds the
\* answers it is to summarise; the Task of a turn reaches 0.
Task == [status : TaskStatus, through : 0..MaxTurns, source : SUBSET RunIds]

\* prepared: the session exists, and the context in it is frozen.
Run == [task : RunIds, status : RunStatus, prepared : BOOLEAN,
        context : [summary : SUBSET RunIds, recent : SUBSET RunIds]]
NoContext == [summary |-> {}, recent |-> {}]

Init == /\ conversation = [status |-> "active", through |-> 0, summary |-> {}]
        /\ turn = <<>>
        /\ task = <<>>
        /\ run = <<>>
        /\ interventions = 0

Open(r) == run[r].status \notin Closed

\* _last_run and _require_no_active_run: only the Run of the last turn counts.
LastRunClosed == turn # <<>> => ~Open(turn[Len(turn)].run)

CompactionActive == \E r \in DOMAIN run : Open(r) /\ task[run[r].task].through > 0

\* The answers of the completed turns among the given ones.
Answers(turns) == {turn[t].run : t \in {u \in turns : turn[u].status = "completed"}}

\* Fault: the last turn that the summary covers is given again in full.
ContextOverlapping(r) ==
    LET current == {t \in DOMAIN turn : turn[t].run = r}
        earlier == {s \in DOMAIN turn : \E t \in current : s < t}
    IN  IF current = {} THEN NoContext
        ELSE [summary |-> conversation.summary,
              recent  |-> Answers({s \in earlier : s >= conversation.through})]

\* select_conversation_context: a Run that no turn points to has no context.
Context(r) ==
    LET current == {t \in DOMAIN turn : turn[t].run = r}
        earlier == {s \in DOMAIN turn : \E t \in current : s < t}
    IN  IF current = {} THEN NoContext
        ELSE [summary |-> conversation.summary,
              recent  |-> Answers({s \in earlier : s > conversation.through})]

StartRun(k) == /\ Len(run) < MaxRuns
               /\ run' = Append(run, [task |-> k, status |-> "pending",
                                      prepared |-> FALSE, context |-> NoContext])

Projected(s) == CASE s = "pending" -> "queued"
                  [] s = "timed_out" -> "failed"
                  [] OTHER -> s

\* Fault: the trigger finds the turn by the Task of the Run.
ShownByTask(r, s) == [t \in DOMAIN turn |->
                        IF turn[t].task = run[r].task
                        THEN [turn[t] EXCEPT !.status = Projected(s), !.run = r]
                        ELSE turn[t]]

\* project_conversation_turn_from_run, the trigger on every update of a Run.
Shown(r, s) == [t \in DOMAIN turn |->
                  IF turn[t].run = r THEN [turn[t] EXCEPT !.status = Projected(s)]
                  ELSE turn[t]]

MoveRun(r, s) == /\ run' = [run EXCEPT ![r].status = s]
                 /\ turn' = Shown(r, s)

\* The Task follows its Run only while it is running.
TaskFollows(r, s) == LET k == run[r].task
                     IN  task' = IF task[k].status = "running"
                                 THEN [task EXCEPT ![k].status = s] ELSE task

-----------------------------------------------------------------------------
(* The conversation service                                                *)

CreateTurn ==
    /\ conversation.status = "active"
    /\ LastRunClosed
    /\ ~CompactionActive
    /\ Len(turn) < MaxTurns
    /\ StartRun(Len(task) + 1)
    /\ task' = Append(task, [status |-> "running", through |-> 0, source |-> {}])
    /\ turn' = Append(turn, [task |-> Len(task) + 1, run |-> Len(run) + 1,
                             status |-> "queued"])
    /\ UNCHANGED <<conversation, interventions>>

Compactable == {t \in DOMAIN turn : /\ t > conversation.through
                                    /\ turn[t].status = "completed"}

Compact ==
    /\ conversation.status = "active"
    /\ LastRunClosed
    /\ ~CompactionActive
    /\ Compactable # {}
    /\ StartRun(Len(task) + 1)
    /\ task' = Append(task, [status |-> "running", through |-> Max(Compactable),
                             source |-> conversation.summary \union Answers(Compactable)])
    /\ UNCHANGED <<conversation, turn, interventions>>

\* patch: the Run of a compaction does not hold the archiving back.
Archive ==
    /\ conversation.status = "active"
    /\ LastRunClosed
    /\ conversation' = [conversation EXCEPT !.status = "archived"]
    /\ UNCHANGED <<turn, task, run, interventions>>

\* Fault: any failed turn can be retried.
RetryAnyTurn(t) ==
    /\ conversation.status = "active"
    /\ run[turn[t].run].status \in {"failed", "timed_out"}
    /\ task[turn[t].task].status \in {"running", "failed"}
    /\ StartRun(turn[t].task)
    /\ task' = [task EXCEPT ![turn[t].task].status = "running"]
    /\ turn' = [turn EXCEPT ![t].run = Len(run) + 1, ![t].status = "queued"]
    /\ UNCHANGED <<conversation, interventions>>

\* A compaction in progress does not hold the retry back.
RetryTurn(t) ==
    /\ conversation.status = "active"
    /\ t = Len(turn)   \* last_turn_id
    /\ run[turn[t].run].status \in {"failed", "timed_out"}
    /\ task[turn[t].task].status \in {"running", "failed"}
    /\ StartRun(turn[t].task)
    /\ task' = [task EXCEPT ![turn[t].task].status = "running"]
    /\ turn' = [turn EXCEPT ![t].run = Len(run) + 1, ![t].status = "queued"]
    /\ UNCHANGED <<conversation, interventions>>

-----------------------------------------------------------------------------
(* The control plane, which knows Tasks and Runs                           *)

\* cancel_tree, which cancel_turn calls with the Run the turn had a moment ago.
\* A Run that is closed, and its Task, stay as they are.
CancelRun(r) ==
    /\ Open(r)
    /\ MoveRun(r, "cancelled")
    /\ task' = [task EXCEPT ![run[r].task].status =
                    IF @ \in {"completed", "failed", "cancelled"} THEN @ ELSE "cancelled"]
    /\ UNCHANGED <<conversation, interventions>>

\* create_run: a Task sent back by review gets a further Run.  The turn of that
\* Task keeps its Run and its answer.
CreateRun(k) ==
    /\ task[k].status = "revision_required"
    /\ StartRun(k)
    /\ task' = [task EXCEPT ![k].status = "running"]
    /\ UNCHANGED <<conversation, turn, interventions>>

\* retry_run: refused for the Task of a turn, open to a compaction, and as often
\* as one likes for the same failed Run.
RetryRun(r) ==
    LET k == run[r].task
    IN  /\ \A t \in DOMAIN turn : turn[t].task # k
        /\ run[r].status \in {"failed", "timed_out"}
        /\ task[k].status \in {"running", "revision_required", "failed"}
        /\ StartRun(k)
        /\ task' = [task EXCEPT ![k].status = "running"]
        /\ UNCHANGED <<conversation, turn, interventions>>

Intervene == /\ interventions < MaxInterventions
             /\ interventions' = interventions + 1

\* TASK_TRANSITIONS
TaskMoves == [s \in TaskStatus |->
                CASE s = "running" -> {"waiting_for_review", "failed", "cancelled"}
                  [] s = "waiting_for_review" -> {"revision_required", "completed"}
                  [] s = "revision_required" -> {"running", "failed"}
                  [] s = "failed" -> {"running"}
                  [] OTHER -> {}]

TransitionTask(k, target) ==
    /\ target \in TaskMoves[task[k].status]
    /\ Intervene
    /\ task' = [task EXCEPT ![k].status = target]
    /\ UNCHANGED <<conversation, turn, run>>

\* RUN_TRANSITIONS; planning, running and the waits for tools are "running".
RunMoves == [s \in RunStatus |->
               CASE s = "pending" -> {"running", "cancelled", "timed_out"}
                 [] s = "running" -> {"waiting_for_approval"} \union Closed
                 [] s = "waiting_for_approval" -> {"running", "failed", "cancelled"}
                 [] OTHER -> {}]

\* An operator who completes the Run of a compaction does not write a summary.
TransitionRun(r, target) ==
    /\ target \in RunMoves[run[r].status]
    /\ Intervene
    /\ MoveRun(r, target)
    /\ CASE target = "completed" -> TaskFollows(r, "waiting_for_review")
         [] target = "cancelled" -> TaskFollows(r, "cancelled")
         [] OTHER -> task' = task
    /\ UNCHANGED conversation

-----------------------------------------------------------------------------
(* The worker that holds a Run                                             *)

\* prepare_claim selects and freezes the context of the turn whose Run this is;
\* a later attempt on the same Run finds it frozen.
PrepareClaim(r) ==
    /\ run[r].status \in {"pending", "running"}
    /\ ~run[r].prepared
    /\ run' = [run EXCEPT ![r].status = "running", ![r].prepared = TRUE,
                          ![r].context = Context(r)]
    /\ turn' = Shown(r, "running")
    /\ UNCHANGED <<conversation, task, interventions>>

\* suspend_claim, and the decision that wakes the Run.
SuspendClaim(r) ==
    /\ run[r].status = "running"
    /\ run[r].prepared
    /\ MoveRun(r, "waiting_for_approval")
    /\ UNCHANGED <<conversation, task, interventions>>

Decide(r) ==
    /\ run[r].status = "waiting_for_approval"
    /\ MoveRun(r, "running")
    /\ UNCHANGED <<conversation, task, interventions>>

\* Fault: whichever compaction ends last writes the summary.
SummarisedLast(k) == [conversation EXCEPT !.summary = task[k].source,
                                          !.through = task[k].through]

\* A compaction that ends after one that reaches further is dropped.
Summarised(k) == IF task[k].through < conversation.through THEN conversation
                 ELSE [conversation EXCEPT !.summary = task[k].source,
                                           !.through = task[k].through]

\* complete_claim.  A Run waiting for an approval can still have its worker when
\* an operator moved it there.
CompleteClaim(r, outcome) ==
    LET k == run[r].task
        compacts == task[k].through > 0 /\ outcome = "completed"
    IN  /\ Open(r)
        /\ run[r].prepared
        /\ MoveRun(r, outcome)
        /\ conversation' = IF compacts THEN Summarised(k) ELSE conversation
        /\ TaskFollows(r, CASE compacts -> "completed"
                            [] outcome = "completed" -> "waiting_for_review"
                            [] outcome = "cancelled" -> "cancelled"
                            [] OTHER -> "failed")
        /\ UNCHANGED interventions

\* fail_unprepared_claim: also when the preparation of a later attempt fails.
FailUnpreparedClaim(r) ==
    /\ run[r].status \in {"pending", "running"}
    /\ MoveRun(r, "failed")
    /\ TaskFollows(r, "failed")
    /\ UNCHANGED <<conversation, interventions>>

-----------------------------------------------------------------------------
(* The specification                                                       *)

Service == \/ CreateTurn
           \/ Compact
           \/ Archive
           \/ \E t \in DOMAIN turn : RetryTurn(t)

ControlPlane == \/ \E r \in DOMAIN run : CancelRun(r) \/ RetryRun(r)
                \/ \E k \in DOMAIN task : CreateRun(k)
                \/ \E k \in DOMAIN task, s \in TaskStatus : TransitionTask(k, s)
                \/ \E r \in DOMAIN run, s \in RunStatus : TransitionRun(r, s)

Worker(r) == \/ PrepareClaim(r)
             \/ SuspendClaim(r)
             \/ Decide(r)
             \/ \E outcome \in Closed : CompleteClaim(r, outcome)
             \/ FailUnpreparedClaim(r)

Next == Service \/ ControlPlane \/ \E r \in DOMAIN run : Worker(r)

Spec == Init /\ [][Next]_vars

-----------------------------------------------------------------------------
(* Properties                                                              *)

\* Every row keeps its type; in particular a turn never shows a status that its
\* column's CHECK does not know (timed_out is one of those).
TypeOK == /\ conversation \in Conversation
          /\ turn \in Seq(Turn) /\ Len(turn) <= MaxTurns
          /\ task \in Seq(Task)
          /\ run \in Seq(Run) /\ Len(run) <= MaxRuns
          /\ interventions \in 0..MaxInterventions

\* At most the last turn has an open Run: two turns are never answered at once,
\* whatever retries and cancellations came between create_turn's checks.
OneTurnActive == \A t \in DOMAIN turn : t < Len(turn) => ~Open(turn[t].run)

\* The Run of a turn is given each answer of the completed turns before it once,
\* in the summary or in full, although compactions end while turns are retried.
HistoryIsWhole == \A t \in DOMAIN turn :
    run[turn[t].run].prepared =>
        LET given == run[turn[t].run].context
        IN  /\ given.summary \union given.recent = Answers(1..(t - 1))
            /\ given.summary \intersect given.recent = {}

\* A turn shows the status of its current Run, also right after a retry.
TurnMirrorsRun == \A t \in DOMAIN turn :
    turn[t].status = Projected(run[turn[t].run].status)

\* An answer that is shown stays: no retry, further Run of the reviewed Task or
\* late worker changes a completed turn or the Run it points to.
CompletedTurnIsFinal ==
    [][\A t \in DOMAIN turn : turn[t].status = "completed" => turn'[t] = turn[t]]_vars

\* The summary never loses an answer and never moves back, in whatever order two
\* compactions end.
SummaryKeepsAnswers == [][/\ conversation.summary \subseteq conversation'.summary
                          /\ conversation.through <= conversation'.through]_vars
=============================================================================
