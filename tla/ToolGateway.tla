----------------------------- MODULE ToolGateway -----------------------------
(***************************************************************************)
(* The tool calls of one Run.                                              *)
(*                                                                         *)
(* A round of the React loop names the calls it is about to make in a      *)
(* checkpoint and takes them one after the other through the gateway.      *)
(* Beginning a call is one transaction: it saves the checkpoint, creates   *)
(* or takes over the row of the call, and asks a human first if the tool   *)
(* is sensitive.  Then the executor runs outside any transaction, and a    *)
(* second transaction writes its result, if the worker still owns the Run  *)
(* and the call.  A worker that lost its lease goes on executing until a   *)
(* transaction refuses it.                                                 *)
(*                                                                         *)
(* Checkpoints also reach the database by the event stream, later and in   *)
(* order.  RunLease models leases and the stream in detail; here one       *)
(* worker owns the Run at a time (RunLease!ExclusiveOwner), a Run starts   *)
(* running, and completed, failed and timed_out are one status.            *)
(***************************************************************************)
EXTENDS Naturals, Sequences, FiniteSets

CONSTANTS
    Workers,         \* execution slots
    NoWorker,
    Calls,           \* the calls the model may ask for, by idempotency key
    RiskyCalls,      \* those of a tool whose risk needs an approval
    NoCall,
    OperatorTargets, \* statuses that operators move the Run to
    MaxTries,        \* retry_policy.max_attempts
    MaxDisruptions   \* bound: crashes, lost leases, API calls

ASSUME GatewayAssumption == /\ NoWorker \notin Workers
                            /\ RiskyCalls \subseteq Calls
                            /\ NoCall \notin Calls
                            /\ MaxTries \in Nat \ {0}
                            /\ MaxDisruptions \in Nat

VARIABLES
    run,          \* runs.status, the worker that owns the lease, the checkpoint
    call,         \* tool_calls
    approval,     \* tool_approval_requests, by call
    returned,     \* how often the executor of a call has returned successfully
    worker,       \* what each slot holds in memory
    disruptions   \* how much of the disruption bound is spent

vars == <<run, call, approval, returned, worker, disruptions>>

-----------------------------------------------------------------------------
(* Rows and slots                                                          *)

Closed == {"closed", "cancelled"}
Status == {"running", "waiting_for_tool", "waiting_for_approval", "paused"} \union Closed

\* The calls a checkpoint is about to make, and those whose results it holds.
Checkpoint == [state : {"observing", "acting", "final"},
               calls : SUBSET Calls,
               seen  : SUBSET Calls]
Start == [state |-> "observing", calls |-> {}, seen |-> {}]

Run == [status : Status, holder : Workers \union {NoWorker}, cp : Checkpoint]

\* The row of a call: its status, the attempt whose token it carries (NoWorker
\* when that attempt is over), and the executions it has recorded as retried.
Results == {"succeeded", "failed", "timed_out"}
Settled == Results \union {"cancelled"}
Call == [status : {"none", "pending", "running"} \union Settled,
         token  : Workers \union {NoWorker},
         tries  : 0..(MaxTries - 1)]
NoRow == [status |-> "none", token |-> NoWorker, tries |-> 0]

Approved == {"approved_once", "approved_run"}
Approval == {"none", "requested", "rejected", "expired", "cancelled"} \union Approved

\*   executing   in the loop, or between two calls of a round
\*   begun       the executor runs for .at          effected   it has returned
\*   suspended   the loop waits for the approval of .at
\*   returned    the loop has returned an outcome   aborting   fail_claim follows
Slot == [pc     : {"idle", "executing", "begun", "effected", "suspended",
                   "returned", "aborting"},
         cp     : Checkpoint,
         stream : Seq(Checkpoint),
         made   : SUBSET Calls,
         at     : Calls \union {NoCall},
         result : Results]
IdleSlot == [pc |-> "idle", cp |-> Start, stream |-> <<>>, made |-> {},
             at |-> NoCall, result |-> "failed"]

Init == /\ run = [status |-> "running", holder |-> NoWorker, cp |-> Start]
        /\ call = [k \in Calls |-> NoRow]
        /\ approval = [k \in Calls |-> "none"]
        /\ returned = [k \in Calls |-> 0]
        /\ worker = [w \in Workers |-> IdleSlot]
        /\ disruptions = 0

-----------------------------------------------------------------------------
(* Helpers                                                                 *)

\* _owns
Owns(w) == run.holder = w /\ worker[w].pc # "idle"

\* _owned_run of the gateway: fewer statuses than the one of the runtime service.
OwnsActive(w) == Owns(w) /\ run.status \in {"running", "waiting_for_tool"}

Disrupt == /\ disruptions < MaxDisruptions
           /\ disruptions' = disruptions + 1

Goto(w, pc) == worker' = [worker EXCEPT ![w].pc = pc]

Emit(w, cp, pc) == worker' = [worker EXCEPT ![w].cp = cp,
                                            ![w].stream = Append(@, cp),
                                            ![w].made = {},
                                            ![w].at = NoCall,
                                            ![w].pc = pc]

\* The attempt is over.  Its token stays in the rows, but nobody holds it.
Detach(w) == [k \in Calls |-> IF call[k].token = w
                              THEN [call[k] EXCEPT !.token = NoWorker]
                              ELSE call[k]]
Release(w) == /\ worker' = [worker EXCEPT ![w] = IdleSlot]
              /\ call' = Detach(w)

\* A row that is not settled yet is closed.
Settle(row, status) == IF row.status \in {"pending", "running"}
                       THEN [row EXCEPT !.status = status]
                       ELSE row

-----------------------------------------------------------------------------
(* The loop                                                                *)

\* claim_next_run and prepare_claim; a final checkpoint is refused by the loop.
Claim(w) ==
    /\ worker[w].pc = "idle"
    /\ run.holder = NoWorker
    /\ run.status \in {"running", "waiting_for_tool"}
    /\ run' = [run EXCEPT !.holder = w]
    /\ worker' = [worker EXCEPT ![w] =
            [IdleSlot EXCEPT !.cp = run.cp,
                             !.pc = IF run.cp.state = "final" THEN "returned" ELSE "executing"]]
    /\ UNCHANGED <<call, approval, returned, disruptions>>

Executing(w) == worker[w].pc = "executing"

\* The calls of a checkpoint that was lost are asked for anew, under other keys.
Fresh(k) == /\ call[k].status = "none"
            /\ \A w \in Workers : k \notin worker[w].cp.calls
            /\ k \notin run.cp.calls

\* A model round that asks for tools: the checkpoint before the action.
ModelActs(w, calls) ==
    /\ Executing(w)
    /\ worker[w].cp.state = "observing"
    /\ calls # {} /\ \A k \in calls : Fresh(k)
    /\ Emit(w, [worker[w].cp EXCEPT !.state = "acting", !.calls = calls], "executing")
    /\ UNCHANGED <<run, call, approval, returned, disruptions>>

\* A model round that answers.
ModelAnswers(w) ==
    /\ Executing(w)
    /\ worker[w].cp.state = "observing"
    /\ Emit(w, [worker[w].cp EXCEPT !.state = "final"], "returned")
    /\ UNCHANGED <<run, call, approval, returned, disruptions>>

\* The loop returns a failed or a cancelled outcome: a model error, an exhausted
\* budget, a refused definition, a cancellation after a refused heartbeat.
LoopEnds(w) ==
    /\ Executing(w)
    /\ Goto(w, "returned")
    /\ UNCHANGED <<run, call, approval, returned, disruptions>>

\* All calls of the round are made: the checkpoint with their results.
Observe(w) ==
    LET cp == worker[w].cp IN
    /\ Executing(w)
    /\ cp.state = "acting"
    /\ worker[w].made = cp.calls
    /\ Emit(w, [state |-> "observing", calls |-> {}, seen |-> cp.seen \union cp.calls],
            "executing")
    /\ UNCHANGED <<run, call, approval, returned, disruptions>>

\* record_event for CHECKPOINT_SAVED.
RecordCheckpoint(w) ==
    /\ worker[w].stream # <<>>
    /\ Owns(w)
    /\ run' = [run EXCEPT !.cp = Head(worker[w].stream)]
    /\ worker' = [worker EXCEPT ![w].stream = Tail(@)]
    /\ UNCHANGED <<call, approval, returned, disruptions>>

-----------------------------------------------------------------------------
(* The gateway                                                             *)

\* The next call of the round.
NextCall(w, k) == /\ Executing(w)
                  /\ worker[w].cp.state = "acting"
                  /\ k \in worker[w].cp.calls \ worker[w].made

\* _persist_pre_action_checkpoint
Saved(w, status) == [run EXCEPT !.cp = worker[w].cp, !.status = status]

\* _begin_call raises ToolLeaseLost, and the loop fails.
BeginLost(w, k) ==
    /\ NextCall(w, k)
    /\ ~ OwnsActive(w)
    /\ Goto(w, "returned")
    /\ UNCHANGED <<run, call, approval, returned, disruptions>>

\* Fault: the row is taken for one that somebody else left unfinished.
NeverRecorded(k) == FALSE

\* _TERMINAL_CALL_STATUSES
Recorded(k) == call[k].status \in Settled

\* The row is settled already: its result is returned from the database.
BeginCached(w, k) ==
    /\ NextCall(w, k) /\ OwnsActive(w)
    /\ Recorded(k)
    /\ run' = Saved(w, run.status)
    /\ worker' = [worker EXCEPT ![w].made = @ \union {k}]
    /\ UNCHANGED <<call, approval, returned, disruptions>>

\* A new call is refused by the policy snapshot or the input schema.
BeginRejected(w, k) ==
    /\ NextCall(w, k) /\ OwnsActive(w)
    /\ call[k].status = "none"
    /\ run' = Saved(w, run.status)
    /\ call' = [call EXCEPT ![k] = [NoRow EXCEPT !.status = "failed", !.token = w]]
    /\ worker' = [worker EXCEPT ![w].made = @ \union {k}]
    /\ UNCHANGED <<approval, returned, disruptions>>

\* _run_scope_grant: the calls of RiskyCalls are all of one tool.
RunScopeGrant == \E k \in RiskyCalls : approval[k] = "approved_run"

\* A new call of a sensitive tool, or one whose request is still open: the loop
\* suspends.
BeginPending(w, k) ==
    /\ NextCall(w, k) /\ OwnsActive(w)
    /\ \/ /\ call[k].status = "none" /\ k \in RiskyCalls /\ ~ RunScopeGrant
          /\ call' = [call EXCEPT ![k] = [NoRow EXCEPT !.status = "pending", !.token = w]]
          /\ approval' = [approval EXCEPT ![k] = "requested"]
       \/ /\ call[k].status # "none" /\ ~ Recorded(k) /\ approval[k] = "requested"
          /\ UNCHANGED <<call, approval>>
    /\ run' = Saved(w, "waiting_for_approval")
    /\ worker' = [worker EXCEPT ![w].pc = "suspended", ![w].at = k]
    /\ UNCHANGED <<returned, disruptions>>

\* Fault: the token of the attempt that began the call is kept.
TakeOverKept(w, k) == [call[k] EXCEPT !.status = "running"]

\* The row of a call taken over by this attempt.
TakeOver(w, k) == [call[k] EXCEPT !.status = "running", !.token = w]

\* The executor may run: a new call that needs no approval, or one that another
\* attempt began or that was approved meanwhile.  A row that carries the token
\* of this attempt would be refused, but an attempt begins a call only once.
BeginCall(w, k) ==
    /\ NextCall(w, k) /\ OwnsActive(w)
    /\ \/ /\ call[k].status = "none"
          /\ k \in RiskyCalls => RunScopeGrant
          /\ call' = [call EXCEPT ![k] = [NoRow EXCEPT !.status = "running", !.token = w]]
       \/ /\ call[k].status # "none" /\ ~ Recorded(k)
          /\ approval[k] # "requested"
          /\ k \in RiskyCalls => approval[k] # "none" \/ RunScopeGrant
          /\ call' = [call EXCEPT ![k] = TakeOver(w, k)]
    /\ run' = Saved(w, "waiting_for_tool")
    /\ worker' = [worker EXCEPT ![w].pc = "begun", ![w].at = k]
    /\ UNCHANGED <<approval, returned, disruptions>>

\* _checkpoint_attempts and _finish_call write under the same condition.
MayWrite(w) == /\ Owns(w)
               /\ call[worker[w].at].status = "running"
               /\ call[worker[w].at].token = w

\* The executor returns.  Only successful returns are counted: a failure or a
\* timeout may or may not have taken effect.
Execute(w, result) ==
    LET k == worker[w].at IN
    /\ worker[w].pc = "begun"
    /\ worker' = [worker EXCEPT ![w].pc = "effected", ![w].result = result]
    /\ returned' = IF result = "succeeded" /\ returned[k] < 2
                   THEN [returned EXCEPT ![k] = @ + 1]
                   ELSE returned
    /\ UNCHANGED <<run, call, approval, disruptions>>

\* _should_retry; attempts of earlier owners count.
AttemptsLeft(k) == call[k].tries + 1 < MaxTries

\* A retryable failure below the limit: the attempts are saved, the executor
\* runs again.
Retry(w) ==
    LET k == worker[w].at IN
    /\ worker[w].pc = "begun"
    /\ AttemptsLeft(k)
    /\ IF MayWrite(w)
       THEN /\ call' = [call EXCEPT ![k].tries = @ + 1]
            /\ UNCHANGED worker
       ELSE /\ Goto(w, "returned")
            /\ UNCHANGED call
    /\ UNCHANGED <<run, approval, returned, disruptions>>

\* Fault: a refused write is taken for a written result.
FinishUnchecked(w) ==
    LET k == worker[w].at IN
    /\ worker[w].pc = "effected"
    /\ worker' = [worker EXCEPT ![w].pc = "executing", ![w].at = NoCall,
                                ![w].made = @ \union {k}]
    /\ IF MayWrite(w)
       THEN /\ call' = [call EXCEPT ![k].status = worker[w].result]
            /\ run' = [run EXCEPT !.status = "running"]
       ELSE UNCHANGED <<run, call>>
    /\ UNCHANGED <<approval, returned, disruptions>>

\* _finish_call; when it refuses, ToolLeaseLost fails the loop.
FinishCall(w) ==
    LET k == worker[w].at IN
    /\ worker[w].pc = "effected"
    /\ IF MayWrite(w)
       THEN /\ call' = [call EXCEPT ![k].status = worker[w].result]
            /\ run' = [run EXCEPT !.status = "running"]
            /\ worker' = [worker EXCEPT ![w].pc = "executing", ![w].at = NoCall,
                                        ![w].made = @ \union {k}]
       ELSE /\ Goto(w, "returned")
            /\ UNCHANGED <<run, call>>
    /\ UNCHANGED <<approval, returned, disruptions>>

\* The run timeout cancels the executor: _finish_call writes cancelled.
CancelExecutor(w) ==
    /\ worker[w].pc = "begun"
    /\ Goto(w, "aborting")
    /\ IF MayWrite(w)
       THEN /\ call' = [call EXCEPT ![worker[w].at].status = "cancelled"]
            /\ run' = [run EXCEPT !.status = "running"]
       ELSE UNCHANGED <<run, call>>
    /\ UNCHANGED <<approval, returned, disruptions>>

\* The run timeout fires elsewhere: what was in flight is rolled back.
Abort(w) ==
    /\ worker[w].pc \in {"executing", "effected"}
    /\ Goto(w, "aborting")
    /\ UNCHANGED <<run, call, approval, returned, disruptions>>

-----------------------------------------------------------------------------
(* The end of an attempt                                                   *)

\* Fault: a decision that came before the suspension is overwritten.
ParkedAlways(k) == "waiting_for_approval"

\* suspend_claim looks whether the request was decided meanwhile.
Parked(k) == IF approval[k] = "requested" THEN "waiting_for_approval" ELSE "running"

SuspendClaim(w) ==
    /\ worker[w].pc = "suspended"
    /\ worker[w].stream = <<>>
    /\ Owns(w)
    /\ run' = [status |-> Parked(worker[w].at), holder |-> NoWorker, cp |-> worker[w].cp]
    /\ Release(w)
    /\ UNCHANGED <<approval, returned, disruptions>>

\* complete_claim, after the stream, and fail_claim, whatever it still holds.  The
\* checkpoint they write to the closed Run, the newest of the loop or the one it
\* started from, is left out: nobody resumes from it, and it shows no result that
\* these two, for which ObservedIsDurable holds, do not.
CloseClaim(w) ==
    /\ \/ worker[w].pc = "returned" /\ worker[w].stream = <<>>
       \/ worker[w].pc = "aborting"
    /\ Owns(w)
    /\ run' = [run EXCEPT !.status = "closed", !.holder = NoWorker]
    /\ Release(w)
    /\ UNCHANGED <<approval, returned, disruptions>>

\* Whatever the attempt wanted to write last is refused.
ClaimLost(w) ==
    /\ worker[w].pc \in {"suspended", "returned", "aborting"}
    /\ ~ Owns(w)
    /\ Release(w)
    /\ UNCHANGED <<run, approval, returned, disruptions>>

Crash(w) ==
    /\ worker[w].pc # "idle"
    /\ Disrupt
    /\ Release(w)
    /\ UNCHANGED <<run, approval, returned>>

\* The lease runs out: freely if its worker died, else by late heartbeats.
LeaseExpires ==
    /\ run.holder # NoWorker
    /\ run' = [run EXCEPT !.holder = NoWorker]
    /\ IF worker[run.holder].pc = "idle" THEN UNCHANGED disruptions ELSE Disrupt
    /\ UNCHANGED <<call, approval, returned, worker>>

-----------------------------------------------------------------------------
(* Approvals and operators                                                 *)

\* Fault: the decision is recorded on the request only.
FinishRequestOnly(k, status) ==
    /\ approval' = [approval EXCEPT ![k] = status]
    /\ run' = [run EXCEPT !.status = IF @ = "waiting_for_approval" THEN "running" ELSE @]
    /\ UNCHANGED call

\* _finish: request, call and Run in one transaction.
FinishApproval(k, status) ==
    /\ approval' = [approval EXCEPT ![k] = status]
    /\ call' = IF status \in Approved THEN call
               ELSE [call EXCEPT ![k] = Settle(@, IF status = "cancelled"
                                                 THEN "cancelled" ELSE "failed")]
    /\ run' = [run EXCEPT !.status = IF @ = "waiting_for_approval" THEN "running" ELSE @]

\* decide: a Run that is closed already turns any decision into cancelled.
Decide(k, decision) ==
    /\ approval[k] = "requested"
    /\ decision \in Approved \union {"rejected"}
    /\ FinishApproval(k, IF run.status \in Closed THEN "cancelled" ELSE decision)
    /\ UNCHANGED <<returned, worker, disruptions>>

\* The request expires: reconcile_expired_tool_approvals, or a late decide or get.
Expire(k) ==
    /\ approval[k] = "requested"
    /\ FinishApproval(k, "expired")
    /\ UNCHANGED <<returned, worker, disruptions>>

CancelOpenCalls == [k \in Calls |-> Settle(call[k], "cancelled")]

\* cancel_tree on this Run.
CancelRun ==
    /\ run.status # "cancelled"
    /\ Disrupt
    /\ run' = IF run.status \in Closed THEN run
              ELSE [run EXCEPT !.status = "cancelled", !.holder = NoWorker]
    /\ call' = CancelOpenCalls
    /\ approval' = [k \in Calls |-> IF approval[k] = "requested" THEN "cancelled"
                                    ELSE approval[k]]
    /\ UNCHANGED <<returned, worker>>

\* RUN_TRANSITIONS, on the statuses of this module.
Moves == [s \in Status |->
            CASE s = "running" -> Status \ {"running"}
              [] s = "waiting_for_approval" -> {"running"} \union Closed
              [] s \in {"waiting_for_tool", "paused"} -> {"running", "cancelled"}
              [] OTHER -> {}]

\* transition_run: cancelling also closes the calls, but leaves the requests.
TransitionRun(target) ==
    /\ target \in Moves[run.status] \intersect OperatorTargets
    /\ Disrupt
    /\ run' = [run EXCEPT !.status = target,
                          !.holder = IF target \in Closed THEN NoWorker ELSE @]
    /\ call' = IF target = "cancelled" THEN CancelOpenCalls ELSE call
    /\ UNCHANGED <<approval, returned, worker>>

-----------------------------------------------------------------------------
(* The specification                                                       *)

Gateway(w, k) == \/ BeginLost(w, k)
                 \/ BeginCached(w, k)
                 \/ BeginRejected(w, k)
                 \/ BeginPending(w, k)
                 \/ BeginCall(w, k)

WorkerStep(w) ==
    \/ Claim(w)
    \/ \E calls \in SUBSET Calls : ModelActs(w, calls)
    \/ ModelAnswers(w)
    \/ LoopEnds(w)
    \/ Observe(w)
    \/ RecordCheckpoint(w)
    \/ \E k \in Calls : Gateway(w, k)
    \/ \E result \in Results : Execute(w, result)
    \/ Retry(w)
    \/ FinishCall(w)
    \/ CancelExecutor(w)
    \/ Abort(w)
    \/ SuspendClaim(w)
    \/ CloseClaim(w)
    \/ ClaimLost(w)

Environment ==
    \/ \E w \in Workers : Crash(w)
    \/ LeaseExpires
    \/ \E k \in Calls : \/ \E decision \in Approval : Decide(k, decision)
                        \/ Expire(k)
    \/ CancelRun
    \/ \E target \in Status : TransitionRun(target)

Next == (\E w \in Workers : WorkerStep(w)) \/ Environment

Spec == Init /\ [][Next]_vars

\* Slots poll and attempts end (the run timeout); a request that nobody decides
\* expires; the lease of a dead worker runs out.
Fairness == /\ \A w \in Workers : WF_vars(WorkerStep(w))
            /\ \A k \in Calls : WF_vars(Expire(k))
            /\ WF_vars(LeaseExpires /\ UNCHANGED disruptions)

FairSpec == Spec /\ Fairness

-----------------------------------------------------------------------------
(* Properties                                                              *)

TypeOK == /\ run \in Run
          /\ call \in [Calls -> Call]
          /\ approval \in [Calls -> Approval]
          /\ returned \in [Calls -> 0..2]
          /\ worker \in [Workers -> Slot]
          /\ disruptions \in 0..MaxDisruptions

InExecutor(w, k) == worker[w].pc \in {"begun", "effected"} /\ worker[w].at = k

\* No executor of a sensitive tool runs without a human's approval of that call
\* or of the tool for the whole Run: not after a rejection or an expiry that
\* raced the suspension, and not in the attempt that takes over a crashed one.
ApprovedBeforeEffect == \A w \in Workers, k \in RiskyCalls :
    InExecutor(w, k) => approval[k] \in Approved \/ RunScopeGrant

\* While the owner of the Run executes a call, the row of that call is running
\* and carries its token: the result of an owner is never refused, so
\* TOOL_LEASE_LOST means that the lease is really lost.
OwnersResultIsAccepted == \A w \in Workers, k \in Calls :
    InExecutor(w, k) /\ Owns(w) => call[k].status = "running" /\ call[k].token = w

\* A result that a checkpoint has shown to the model is in the database: whoever
\* resumes from the checkpoint sees what its predecessor saw.
ObservedIsDurable ==
    /\ \A k \in run.cp.seen : call[k].status \in Settled
    /\ \A w \in Workers : \A k \in worker[w].cp.seen : call[k].status \in Settled

\* A Run that waits for an approval with a call pending leaves the wait, also
\* when the decision came before the suspension was written.
ApprovalWakes ==
    run.status = "waiting_for_approval" /\ (\E k \in Calls : call[k].status = "pending")
    ~> run.status # "waiting_for_approval"

\* The executor of a call succeeds once, however often the Run suspends for an
\* approval and replays the round from its checkpoint, unless a worker is lost or
\* an operator steps in.  (Then it may succeed twice: a worker that dies between
\* the effect and _finish_call leaves a row that the next one executes again.)
ReplayRepeatsNothing == disruptions = 0 => \A k \in Calls : returned[k] <= 1

=============================================================================
