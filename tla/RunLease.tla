------------------------------- MODULE RunLease -------------------------------
(***************************************************************************)
(* The Run queue and the workers that drain it.                            *)
(*                                                                         *)
(* PostgreSQL keeps one row per Run (its status and its lease) and one row *)
(* per RuntimeSession (event cursor and checkpoint).  A worker slot claims *)
(* a Run under a fresh lease token, prepares the session, lets the Runtime *)
(* provider execute and forwards the provider's events into the database,  *)
(* and finally commits an outcome.  Every database call of a worker is one *)
(* transaction and one action here; between two of them anything may       *)
(* happen: another worker, an API call, a crash, a clock.                  *)
(*                                                                         *)
(* A lease is compared with two clocks: claim_next_run reads the clock of  *)
(* the database, every later ownership check reads the clock of the worker *)
(* host.  The two are not synchronised here: each lease carries the set of *)
(* clocks by which it has not expired yet.                                 *)
(***************************************************************************)
EXTENDS Naturals, FiniteSets, RunStates

CONSTANTS
    Runs,             \* the Run rows of the queue
    Workers,          \* execution slots of all worker processes
    WorkerIds,        \* the worker_id strings
    WorkerId,         \* the worker_id of each slot; two processes may share one
    FragileWorkers,   \* slots whose polling call may raise, which ends the slot
    Tokens,           \* lease tokens (gen_random_uuid)
    NoToken,          \* the lease columns are NULL
    NoWorker,
    NoRun,
    MaxCheckpoints,   \* bound: checkpoints one attempt emits
    MaxDisruptions    \* bound: crashes, late heartbeats, API calls, suspensions

ASSUME IdAssumption == /\ NoToken \notin Tokens
                       /\ NoRun \notin Runs
                       /\ WorkerId \in [Workers -> WorkerIds]
                       /\ FragileWorkers \subseteq Workers
ASSUME BoundAssumption == /\ MaxCheckpoints \in Nat
                          /\ MaxDisruptions \in Nat

VARIABLES
    status,       \* runs.status
    lease,        \* runs.lease_owner, lease_token, lease_expires_at
    session,      \* runtime_sessions: status, last_event_sequence, checkpoint
    worker,       \* the slots: where each one is, and what it holds in memory
    disruptions   \* how much of the disruption bound is spent

vars == <<status, lease, session, worker, disruptions>>

-----------------------------------------------------------------------------
(* Rows and slots                                                          *)

Clocks == {"database", "host"}

Lease == [owner : WorkerIds \union {NoWorker},
          token : Tokens \union {NoToken},
          live  : SUBSET Clocks]

\* _clear_lease
NoLease == [owner |-> NoWorker, token |-> NoToken, live |-> {}]

\* A session row.  "none": the row does not exist yet.  The checkpoint is the
\* number of progress steps it covers, and whether its loop_state is terminal.
SessionStatus == {"none", "created", "running", "paused", "suspended",
                  "completed", "failed", "cancelled"}

Session == [status   : SessionStatus,
            lastSeq  : Nat,
            step     : Nat,
            final    : BOOLEAN]

NoSession == [status |-> "none", lastSeq |-> 0, step |-> 0, final |-> FALSE]

\* Where a slot is in execute_once.
\*   idle        polling                      claimed    before prepare_claim
\*   unprepared  prepare_claim raised         prepared   before bind_session
\*   executing   execute_provider runs        returned   it returned an outcome
\*   aborting    an exception or the run timeout leads to fail_claim
\*   dead        the polling call raised: execute_loop has ended
Attached == {"claimed", "unprepared", "prepared", "executing", "returned", "aborting"}

Outcomes == {"none", "completed", "failed", "cancelled", "timed_out", "suspended"}

\* What the slot holds in memory.  The attempt numbers its events from seqBase
\* and its checkpoints from stepBase; event 1 is RUN_STARTED or RUN_RESUMED and
\* every later one is a CHECKPOINT_SAVED one step further.  Events emitted but
\* not forwarded yet wait in the list the provider keeps in memory.
Slot == [pc         : Attached \union {"idle", "dead"},
         run        : Runs \union {NoRun},
         token      : Tokens \union {NoToken},
         recovering : BOOLEAN,
         seqBase    : Nat,
         stepBase   : Nat,
         emitted    : Nat,
         forwarded  : Nat,
         stream     : {"open", "lost", "error"},
         cancel     : BOOLEAN,
         outcome    : Outcomes]

IdleSlot == [pc |-> "idle", run |-> NoRun, token |-> NoToken, recovering |-> FALSE,
             seqBase |-> 0, stepBase |-> 0, emitted |-> 0, forwarded |-> 0,
             stream |-> "open", cancel |-> FALSE, outcome |-> "none"]

Init == /\ status = [r \in Runs |-> "pending"]
        /\ lease = [r \in Runs |-> NoLease]
        /\ session = [r \in Runs |-> NoSession]
        /\ worker = [w \in Workers |-> IdleSlot]
        /\ disruptions = 0

-----------------------------------------------------------------------------
(* Ownership                                                               *)

\* The slot holds the token of the row it claimed: nobody took it over since.
HoldsToken(w) == /\ worker[w].pc \in Attached
                 /\ lease[worker[w].run].token = worker[w].token

\* Fault: the lease is told by the worker's name alone.
OwnsByName(w) == /\ worker[w].pc \in Attached
                 /\ lease[worker[w].run].owner = WorkerId[w]
                 /\ "host" \in lease[worker[w].run].live

\* _owns: owner, token, and lease_expires_at > now on the worker's own clock.
Owns(w) == /\ HoldsToken(w)
           /\ lease[worker[w].run].owner = WorkerId[w]
           /\ "host" \in lease[worker[w].run].live

\* _owned_run: ownership and a status a worker may write in.
OwnsActive(w) == Owns(w) /\ status[worker[w].run] \in ActiveStatus

TokensInUse == {lease[r].token : r \in Runs} \union {worker[w].token : w \in Workers}

\* The progress step that the newest checkpoint of the attempt covers.
EmittedStep(w) == IF worker[w].emitted > 1
                  THEN worker[w].stepBase + worker[w].emitted - 1
                  ELSE worker[w].stepBase

\* The environment spends the disruption bound.
Disrupt == /\ disruptions < MaxDisruptions
           /\ disruptions' = disruptions + 1

Slots(w, s) == worker' = [worker EXCEPT ![w] = s]
Release(w) == Slots(w, IdleSlot)

-----------------------------------------------------------------------------
(* Claiming and preparing                                                  *)

\* Fault: only a Run without a lease is taken, an expired lease is not.
TakeableUnleased(r) == status[r] \in ClaimableStatus /\ lease[r].token = NoToken

\* What the query of claim_next_run selects.
Takeable(r) == /\ status[r] \in ClaimableStatus
               /\ \/ lease[r].token = NoToken
                  \/ "database" \notin lease[r].live

\* claim_next_run.  The query orders by priority and age but skips locked rows,
\* so which of the candidates is taken is left open.
Claim(w, r, t) ==
    /\ worker[w].pc = "idle"
    /\ Takeable(r)
    /\ t \notin TokensInUse
    /\ lease' = [lease EXCEPT ![r] = [owner |-> WorkerId[w], token |-> t, live |-> Clocks]]
    /\ Slots(w, [IdleSlot EXCEPT !.pc = "claimed", !.run = r, !.token = t,
                                 !.recovering = status[r] # "pending"])
    /\ UNCHANGED <<status, session, disruptions>>

\* claim_next_run returns no row: the slot sleeps and polls again.
PollEmpty(w) ==
    /\ worker[w].pc = "idle"
    /\ \A r \in Runs : ~ Takeable(r)
    /\ UNCHANGED vars

\* execute_once raises outside its try block (a reconciliation or the claim
\* itself): the task of this slot ends and nothing starts it again.
PollRaises(w) ==
    /\ w \in FragileWorkers
    /\ worker[w].pc = "idle"
    /\ Disrupt
    /\ Slots(w, [IdleSlot EXCEPT !.pc = "dead"])
    /\ UNCHANGED <<status, lease, session>>

\* Fault: every attempt numbers its events from zero.
PrepareFromZero(w) ==
    LET r == worker[w].run IN
    /\ worker[w].pc = "claimed"
    /\ OwnsActive(w)
    /\ worker[w].recovering => session[r].status # "none"
    /\ session' = [session EXCEPT ![r].status = IF @ = "none" THEN "created" ELSE @]
    /\ status' = [status EXCEPT ![r] = IF @ = "pending" THEN "planning" ELSE @]
    /\ Slots(w, [worker[w] EXCEPT !.pc = "prepared", !.stepBase = session[r].step])
    /\ UNCHANGED <<lease, disruptions>>

\* prepare_claim.  A Run that was not pending needs its session row; a fresh one
\* gets the row and moves to planning.  The request carries the event cursor and
\* the checkpoint that the attempt continues from.
PrepareClaim(w) ==
    LET r == worker[w].run IN
    /\ worker[w].pc = "claimed"
    /\ OwnsActive(w)
    /\ worker[w].recovering => session[r].status # "none"
    /\ session' = IF session[r].status = "none"
                  THEN [session EXCEPT ![r].status = "created"]
                  ELSE session
    /\ status' = IF status[r] = "pending"
                 THEN [status EXCEPT ![r] = "planning"]
                 ELSE status
    /\ Slots(w, [worker[w] EXCEPT !.pc = "prepared",
                                  !.seqBase = session[r].lastSeq,
                                  !.stepBase = session[r].step])
    /\ UNCHANGED <<lease, disruptions>>

\* RuntimeRecoveryUnsupported, a missing model endpoint, a failing database call:
\* the transaction rolls back and the claim is not prepared.
PrepareRaises(w) ==
    /\ worker[w].pc = "claimed"
    /\ Slots(w, [worker[w] EXCEPT !.pc = "unprepared"])
    /\ UNCHANGED <<status, lease, session, disruptions>>

\* RuntimeLeaseLost while preparing or binding: the slot only cancels its provider.
ClaimLost(w) ==
    /\ worker[w].pc \in {"claimed", "prepared"}
    /\ ~ OwnsActive(w)
    /\ Release(w)
    /\ UNCHANGED <<status, lease, session, disruptions>>

\* fail_unprepared_claim
FailUnprepared(w) ==
    LET r == worker[w].run IN
    /\ worker[w].pc = "unprepared"
    /\ IF Owns(w) /\ status[r] \notin TerminalStatus
       THEN /\ status' = [status EXCEPT ![r] = "failed"]
            /\ lease' = [lease EXCEPT ![r] = NoLease]
       ELSE UNCHANGED <<status, lease>>
    /\ Release(w)
    /\ UNCHANGED <<session, disruptions>>

\* create_session and bind_session; execute_provider starts and emits its first
\* event.  A checkpoint that is already terminal is refused by the loop, which
\* then returns a failed outcome without another checkpoint.
BindSession(w) ==
    LET r == worker[w].run IN
    /\ worker[w].pc = "prepared"
    /\ OwnsActive(w)
    /\ session' = [session EXCEPT ![r].status = "created"]
    /\ Slots(w, [worker[w] EXCEPT !.pc = IF session[r].final THEN "returned" ELSE "executing",
                                  !.outcome = IF session[r].final THEN "failed" ELSE "none",
                                  !.emitted = 1])
    /\ UNCHANGED <<status, lease, disruptions>>

-----------------------------------------------------------------------------
(* Executing                                                               *)

\* The loop reaches its next boundary and emits CHECKPOINT_SAVED.
EmitCheckpoint(w) ==
    /\ worker[w].pc = "executing"
    /\ worker[w].emitted <= MaxCheckpoints
    /\ Slots(w, [worker[w] EXCEPT !.emitted = @ + 1])
    /\ UNCHANGED <<status, lease, session, disruptions>>

\* The forwarding and the heartbeat tasks of the slot run.  A timeout calls
\* fail_claim before they are stopped; any other exception stops them first.
Streaming(w) == \/ worker[w].pc \in {"executing", "returned"}
                \/ worker[w].pc = "aborting" /\ worker[w].outcome = "timed_out"

\* The forwarding task holds an event that is not in the database yet.
Forwarding(w) == /\ Streaming(w)
                 /\ worker[w].stream = "open"
                 /\ worker[w].forwarded < worker[w].emitted

\* record_event for the oldest event that the provider still holds.
Apply(w, k) ==
    LET r == worker[w].run
        completes == worker[w].outcome = "completed" /\ k = worker[w].emitted
    IN  IF k = 1
        THEN /\ session' = [session EXCEPT ![r].lastSeq = worker[w].seqBase + k,
                                           ![r].status = "running"]
             /\ status' = IF status[r] \in {"planning", "paused"}
                          THEN [status EXCEPT ![r] = "running"]
                          ELSE status
        ELSE /\ session' = [session EXCEPT ![r].lastSeq = worker[w].seqBase + k,
                                           ![r].step = worker[w].stepBase + k - 1,
                                           ![r].final = completes]
             /\ UNCHANGED status

RecordEvent(w) ==
    LET r == worker[w].run
        k == worker[w].forwarded + 1
        seq == worker[w].seqBase + k
        expected == session[r].lastSeq + 1
    IN  /\ Forwarding(w)
        /\ OwnsActive(w)
        /\ Slots(w, IF seq > expected
                    THEN [worker[w] EXCEPT !.stream = "error"]
                    ELSE [worker[w] EXCEPT !.forwarded = k])
        /\ IF seq = expected
           THEN Apply(w, k)
           ELSE UNCHANGED <<status, session>>
        /\ UNCHANGED <<lease, disruptions>>

\* record_event raises and the forwarding task ends: RuntimeLeaseLost, or the
\* event cannot be projected and the transaction rolls back.
EventRaises(w, stream) ==
    /\ Forwarding(w)
    /\ stream = "lost" <=> ~ OwnsActive(w)
    /\ Slots(w, [worker[w] EXCEPT !.stream = stream])
    /\ UNCHANGED <<status, lease, session, disruptions>>

\* heartbeat.  When it is refused the provider is asked to cancel.
Heartbeat(w) ==
    LET r == worker[w].run IN
    /\ Streaming(w)
    /\ ~ worker[w].cancel
    /\ IF OwnsActive(w)
       THEN /\ lease' = [lease EXCEPT ![r].live = Clocks]
            /\ UNCHANGED worker
       ELSE /\ Slots(w, [worker[w] EXCEPT !.cancel = TRUE])
            /\ UNCHANGED lease
    /\ UNCHANGED <<status, session, disruptions>>

\* execute_provider returns.  A completed outcome comes with a last checkpoint
\* whose loop_state is terminal; a cancelled one needs a cancellation request.
ExecuteReturns(w, outcome) ==
    /\ worker[w].pc = "executing"
    /\ outcome \in {"completed", "failed", "cancelled", "suspended"}
    /\ outcome = "cancelled" => worker[w].cancel
    /\ outcome = "suspended" => disruptions < MaxDisruptions
    /\ Slots(w, [worker[w] EXCEPT !.pc = "returned",
                                  !.outcome = outcome,
                                  !.emitted = IF outcome = "completed" THEN @ + 1 ELSE @])
    /\ disruptions' = IF outcome = "suspended" THEN disruptions + 1 ELSE disruptions
    /\ UNCHANGED <<status, lease, session>>

\* create_session or bind_session raises, execute_provider raises, or the run
\* timeout fires: the stream is cancelled and what it still held is lost.
ExecutionAborts(w, outcome) ==
    /\ \/ worker[w].pc = "prepared" /\ outcome = "failed"
       \/ worker[w].pc = "executing" /\ outcome \in {"failed", "timed_out"}
    /\ Slots(w, [worker[w] EXCEPT !.pc = "aborting", !.outcome = outcome])
    /\ UNCHANGED <<status, lease, session, disruptions>>

-----------------------------------------------------------------------------
(* Committing                                                              *)

\* Fault: the outcome is committed without awaiting the stream.
Undrained(w) == worker[w].pc = "returned" /\ worker[w].stream = "open"

\* Awaiting the stream: every event was forwarded, or the stream failed.
Drained(w) == /\ worker[w].pc = "returned"
              /\ worker[w].stream = "open"
              /\ worker[w].forwarded = worker[w].emitted

\* Fault: the outcome is written whoever owns the Run by now.
MayCommitAnyway(w) == worker[w].pc \in Attached

MayCommit(w) == Owns(w) /\ status[worker[w].run] \notin TerminalStatus

\* Fault: the Run status is written into the session row.
CommitSwapped(w, target, sessionStatus, step, final) ==
    LET r == worker[w].run IN
    /\ status' = [status EXCEPT ![r] = target]
    /\ lease' = [lease EXCEPT ![r] = NoLease]
    /\ session' = [session EXCEPT ![r].status = target,
                                  ![r].step = step,
                                  ![r].final = final]

\* complete_claim, when it commits.
CommitTerminal(w, target, sessionStatus, step, final) ==
    LET r == worker[w].run IN
    /\ status' = [status EXCEPT ![r] = target]
    /\ lease' = [lease EXCEPT ![r] = NoLease]
    /\ session' = [session EXCEPT ![r].status = sessionStatus,
                                  ![r].step = step,
                                  ![r].final = final]

\* complete_claim for the outcome of the provider.  A failed outcome may carry
\* no checkpoint.
CompleteClaim(w) ==
    /\ Drained(w)
    /\ worker[w].outcome \in {"completed", "failed", "cancelled"}
    /\ IF MayCommit(w)
       THEN \/ CommitTerminal(w, worker[w].outcome, worker[w].outcome,
                              EmittedStep(w), session[worker[w].run].final)
            \/ /\ worker[w].outcome # "completed"
               /\ CommitTerminal(w, worker[w].outcome, worker[w].outcome, 0, FALSE)
       ELSE UNCHANGED <<status, lease, session>>
    /\ Release(w)
    /\ UNCHANGED disruptions

\* fail_claim: complete_claim with the checkpoint the attempt started from.
FailClaim(w) ==
    LET r == worker[w].run IN
    /\ worker[w].pc = "aborting"
    /\ IF MayCommit(w)
       THEN CommitTerminal(w, worker[w].outcome, "failed", worker[w].stepBase, FALSE)
       ELSE UNCHANGED <<status, lease, session>>
    /\ Release(w)
    /\ UNCHANGED disruptions

\* suspend_claim: it tests ownership and nothing else.  A Run that waits for a
\* tool approval which was decided meanwhile goes back to running.
SuspendClaim(w, target) ==
    LET r == worker[w].run IN
    /\ Drained(w)
    /\ worker[w].outcome = "suspended"
    /\ target \in {"waiting_for_subagent", "waiting_for_approval", "running"}
    /\ IF Owns(w)
       THEN /\ status' = [status EXCEPT ![r] = target]
            /\ lease' = [lease EXCEPT ![r] = NoLease]
            /\ session' = [session EXCEPT ![r].status = "suspended",
                                          ![r].step = EmittedStep(w),
                                          ![r].final = FALSE]
       ELSE UNCHANGED <<status, lease, session>>
    /\ Release(w)
    /\ UNCHANGED disruptions

\* Awaiting the stream raises: RuntimeLeaseLost ends the attempt silently, any
\* other error leads to fail_claim.
StreamRaises(w) ==
    /\ worker[w].pc = "returned"
    /\ worker[w].stream # "open"
    /\ IF worker[w].stream = "lost"
       THEN Release(w)
       ELSE Slots(w, [worker[w] EXCEPT !.pc = "aborting", !.outcome = "failed"])
    /\ UNCHANGED <<status, lease, session, disruptions>>

\* complete_claim or suspend_claim raises (a constraint, a malformed checkpoint):
\* the transaction rolls back and the attempt is recorded as failed.
CommitRaises(w) ==
    /\ Drained(w)
    /\ Slots(w, [worker[w] EXCEPT !.pc = "aborting", !.outcome = "failed"])
    /\ UNCHANGED <<status, lease, session, disruptions>>

-----------------------------------------------------------------------------
(* The environment: processes, clocks, operators                           *)

\* The worker process dies and is started again: memory is gone, rows stay.
Crash(w) ==
    /\ worker[w].pc \in Attached
    /\ Disrupt
    /\ Release(w)
    /\ UNCHANGED <<status, lease, session>>

\* lease_expires_at passes on one of the clocks.  A lease nobody renews passes
\* freely; a lease whose holder still runs passes only when heartbeats are late.
LeaseExpires(r, clock) ==
    /\ clock \in lease[r].live
    /\ lease' = [lease EXCEPT ![r].live = @ \ {clock}]
    /\ IF \E w \in Workers : HoldsToken(w) /\ worker[w].run = r
       THEN Disrupt
       ELSE UNCHANGED disruptions
    /\ UNCHANGED <<status, session, worker>>

\* transition_run: the API moves a Run along RUN_TRANSITIONS, whoever holds it.
TransitionRun(r, target) ==
    /\ target \in RunTransitions[status[r]]
    /\ Disrupt
    /\ status' = [status EXCEPT ![r] = target]
    /\ lease' = IF target \in TerminalStatus THEN [lease EXCEPT ![r] = NoLease] ELSE lease
    /\ session' = IF target = "cancelled" /\ session[r].status # "none"
                  THEN [session EXCEPT ![r].status = "cancelled"]
                  ELSE session
    /\ UNCHANGED worker

\* Fault: cancelling leaves the lease to its worker.
CancelKeepsLease(r) ==
    /\ status[r] \notin TerminalStatus
    /\ Disrupt
    /\ status' = [status EXCEPT ![r] = "cancelled"]
    /\ session' = IF session[r].status \in {"none", "completed", "failed", "cancelled"}
                  THEN session
                  ELSE [session EXCEPT ![r].status = "cancelled"]
    /\ UNCHANGED <<lease, worker>>

\* cancel_tree on one Run.
CancelRun(r) ==
    /\ status[r] \notin TerminalStatus
    /\ Disrupt
    /\ status' = [status EXCEPT ![r] = "cancelled"]
    /\ lease' = [lease EXCEPT ![r] = NoLease]
    /\ session' = IF session[r].status \in {"none", "completed", "failed", "cancelled"}
                  THEN session
                  ELSE [session EXCEPT ![r].status = "cancelled"]
    /\ UNCHANGED worker

\* reconcile_coordination_waiters, for a parent whose children are all terminal.
WakeWaiter(r) ==
    /\ status[r] = "waiting_for_subagent"
    /\ status' = [status EXCEPT ![r] = "running"]
    /\ lease' = [lease EXCEPT ![r] = NoLease]
    /\ session' = IF session[r].status = "suspended"
                  THEN [session EXCEPT ![r].status = "paused"]
                  ELSE session
    /\ UNCHANGED <<worker, disruptions>>

\* A tool approval is decided or expires.
ApprovalDecided(r) ==
    /\ status[r] = "waiting_for_approval"
    /\ status' = [status EXCEPT ![r] = "running"]
    /\ UNCHANGED <<lease, session, worker, disruptions>>

-----------------------------------------------------------------------------
(* The specification                                                       *)

WorkerStep(w) ==
    \/ \E r \in Runs, t \in Tokens : Claim(w, r, t)
    \/ PollEmpty(w)
    \/ PrepareClaim(w)
    \/ PrepareRaises(w)
    \/ ClaimLost(w)
    \/ FailUnprepared(w)
    \/ BindSession(w)
    \/ EmitCheckpoint(w)
    \/ RecordEvent(w)
    \/ \E stream \in {"lost", "error"} : EventRaises(w, stream)
    \/ Heartbeat(w)
    \/ \E outcome \in Outcomes : ExecuteReturns(w, outcome)
    \/ \E outcome \in Outcomes : ExecutionAborts(w, outcome)
    \/ CompleteClaim(w)
    \/ FailClaim(w)
    \/ \E target \in RunStatus : SuspendClaim(w, target)
    \/ CommitRaises(w)
    \/ StreamRaises(w)

Environment ==
    \/ \E w \in Workers : PollRaises(w) \/ Crash(w)
    \/ \E r \in Runs : \/ \E clock \in Clocks : LeaseExpires(r, clock)
                       \/ \E target \in RunStatus : TransitionRun(r, target)
                       \/ CancelRun(r)
                       \/ WakeWaiter(r)
                       \/ ApprovalDecided(r)

Next == (\E w \in Workers : WorkerStep(w)) \/ Environment

Spec == Init /\ [][Next]_vars

\* A slot that can take a step takes one eventually: the provider returns or the
\* run timeout fires, a poll follows a poll.  An abandoned lease runs out on the
\* clock of the database.  Nothing is assumed of operators or crashes, except
\* that MaxDisruptions bounds them.
Abandoned(r) == \A w \in Workers : ~ (HoldsToken(w) /\ worker[w].run = r)
Fairness == /\ \A w \in Workers : WF_vars(WorkerStep(w))
            /\ \A r \in Runs : WF_vars(Abandoned(r) /\ LeaseExpires(r, "database"))

FairSpec == Spec /\ Fairness

-----------------------------------------------------------------------------
(* Properties                                                              *)

TypeOK == /\ status \in [Runs -> RunStatus]
          /\ lease \in [Runs -> Lease]
          /\ session \in [Runs -> Session]
          /\ worker \in [Workers -> Slot]
          /\ disruptions \in 0..MaxDisruptions

\* A closed Run has no lease: every path that writes a terminal status also
\* clears the lease.  suspend_claim relies on it, because it tests ownership
\* only and would otherwise reopen a Run that was cancelled meanwhile.
TerminalReleased == \A r \in Runs : status[r] \in TerminalStatus => lease[r] = NoLease

\* Two slots never both pass the ownership check for the same Run, not even two
\* processes configured with the same worker_id: the token alone tells them apart.
ExclusiveOwner == \A v, w \in Workers :
    Owns(v) /\ Owns(w) /\ worker[v].run = worker[w].run => v = w

\* The events of the owner meet the cursor exactly: the error "runtime event
\* sequence must be contiguous" cannot fire and no event of the owner is
\* dropped as a duplicate, although every takeover restarts the numbering.
CursorMeetsOwner == \A w \in Workers :
    Owns(w) /\ Streaming(w) /\ worker[w].stream = "open"
    => session[worker[w].run].lastSeq = worker[w].seqBase + worker[w].forwarded

\* The newest checkpoint of an attempt that may commit is the one the event stream
\* has already made durable: a Run that is completed or suspended is not rewound.
CommitMatchesStream == \A w \in Workers :
    Owns(w) /\ Drained(w) => session[worker[w].run].step = EmittedStep(w)

\* Outcome and progress of each Run, for the abstract specification.
ResultOf(s) == IF s \in TerminalStatus THEN s ELSE "open"
Abstract == INSTANCE RunOutcome WITH
                Runs <- Runs,
                Results <- TerminalStatus,
                outcome <- [r \in Runs |-> ResultOf(status[r])],
                progress <- [r \in Runs |-> session[r].step]

\* Whatever workers, operators and crashes do, a Run is closed once and its
\* durable progress never moves back while it is open: a stale worker neither
\* overwrites an outcome nor a newer checkpoint.
RefinesRunOutcome == Abstract!Spec

\* Once disruptions stop, every Run leaves the queue for good: a Run whose
\* worker died is taken over and is closed or parked.
QueueDrains == <>[](\A r \in Runs : status[r] \notin ClaimableStatus)

=============================================================================
