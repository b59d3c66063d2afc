----------------------------- MODULE Coordination -----------------------------
(***************************************************************************)
(* Parent and child Runs.                                                  *)
(*                                                                         *)
(* A Run whose model asks for delegations creates child Runs, each with a  *)
(* budget reserved from the parent's ledger, saves a checkpoint that names *)
(* them and gives its worker back.  The transaction that closes a child    *)
(* settles the delegation and the budget, queues a result message and, for *)
(* the last child, wakes the parent.  The next worker of the parent finds  *)
(* the results in the database and goes on from the checkpoint.            *)
(*                                                                         *)
(* RunLease models the leases; here a Run has at most one attempt, the one *)
(* that owns the lease (RunLease!ExclusiveOwner), and an attempt that lost *)
(* its lease is gone: each of its later transactions is refused.  The      *)
(* checkpoints an attempt emits reach the database later, in order.        *)
(* Planning and waiting_for_tool count as running, timed_out as failed,    *)
(* and the three budgets (tokens, cost, tool calls) are one.               *)
(***************************************************************************)
EXTENDS Naturals, Sequences, FiniteSets

CONSTANTS
    Runs,            \* Run rows; a delegation is named by the child it creates
    Root,            \* the Run that nobody delegated
    NoRun,
    RootLimit,       \* token budget of the root
    Grant,           \* budget of every delegation
    MaxDepth,        \* coordination policy: max_depth,
    MaxChildren,     \* max_children
    MaxParallel,     \* and max_parallelism
    MaxDisruptions   \* bound: crashes and API calls

ASSUME RunAssumption == Root \in Runs /\ NoRun \notin Runs
ASSUME PolicyAssumption == /\ RootLimit \in Nat
                           /\ Grant \in Nat
                           /\ MaxDepth \in Nat
                           /\ MaxChildren \in Nat
                           /\ MaxParallel \in Nat
                           /\ MaxDisruptions \in Nat

VARIABLES
    run,          \* runs.status and the durable checkpoint of its session
    link,         \* delegation, closure rows and result message of a child
    ledger,       \* run_budget_ledgers
    attempt,      \* what the owning worker holds in memory
    disruptions   \* how much of the disruption bound is spent

vars == <<run, link, ledger, attempt, disruptions>>

-----------------------------------------------------------------------------
(* Rows                                                                    *)

Closed == {"completed", "failed", "cancelled"}
Status == {"absent", "pending", "running", "waiting"} \union Closed

\* A React checkpoint: where the loop is, the delegations it is about to make
\* (acting) or waits for (waiting), and the results it has consumed.
LoopState == {"start", "acting", "waiting", "observing", "final"}
Checkpoint == [state : LoopState, calls : SUBSET Runs, consumed : SUBSET Runs]
Start == [state |-> "start", calls |-> {}, consumed |-> {}]

\* The row of a delegation, the ancestors of its child in the closure table and
\* the result message of the child to the parent.
Active == "accepted"
Link == [parent    : Runs \union {NoRun},
         ancestors : SUBSET Runs,
         state     : {"none", Active} \union Closed,
         message   : {"none", "queued", "delivered", "acknowledged"}]
NoLink == [parent |-> NoRun, ancestors |-> {}, state |-> "none", message |-> "none"]

Ledger == [limit : Nat, direct : Nat, consumed : Nat, reserved : Nat]
LedgerOf(limit) == [limit |-> limit, direct |-> 0, consumed |-> 0, reserved |-> 0]

\* ck_budget_ledgers_token_bound
Bounded(l) == l.direct + l.consumed + l.reserved <= l.limit

\* The attempt that owns the lease: the checkpoint of its request, its newest one,
\* those not recorded yet, the results it was handed, and the calls of the newest
\* checkpoint that it has made.
Attempt == [pc       : {"none", "executing", "returned", "aborting"},
            base     : Checkpoint,
            cp       : Checkpoint,
            stream   : Seq(Checkpoint),
            inbox    : SUBSET Runs,
            accepted : SUBSET Runs,
            outcome  : {"none", "suspended"} \union Closed]
NoAttempt == [pc |-> "none", base |-> Start, cp |-> Start, stream |-> <<>>, inbox |-> {},
              accepted |-> {}, outcome |-> "none"]

Init == /\ run = [r \in Runs |-> [status |-> IF r = Root THEN "pending" ELSE "absent",
                                  cp |-> Start]]
        /\ link = [r \in Runs |-> NoLink]
        /\ ledger = [r \in Runs |-> LedgerOf(IF r = Root THEN RootLimit ELSE 0)]
        /\ attempt = [r \in Runs |-> NoAttempt]
        /\ disruptions = 0

-----------------------------------------------------------------------------
(* Trees                                                                   *)

Children(r) == {c \in Runs : link[c].parent = r}
ActiveChildren(r) == {c \in Children(r) : link[c].state = Active}
IsOpen(r) == run[r].status \in {"pending", "running", "waiting"}
Results(r) == {c \in Children(r) : link[c].message # "none"}

Disrupt == /\ disruptions < MaxDisruptions
           /\ disruptions' = disruptions + 1

\* The attempt emits a checkpoint and goes on, or returns with an outcome.
Emit(r, cp, pc, outcome) ==
    attempt' = [attempt EXCEPT ![r].cp = cp,
                               ![r].stream = Append(@, cp),
                               ![r].accepted = {},
                               ![r].pc = pc,
                               ![r].outcome = outcome]

Return(r, outcome) ==
    attempt' = [attempt EXCEPT ![r].pc = "returned", ![r].outcome = outcome]

EndAttempt(r) == attempt' = [attempt EXCEPT ![r] = NoAttempt]

-----------------------------------------------------------------------------
(* Taking a Run                                                            *)

Claimable(r) == /\ run[r].status \in {"pending", "running"}
                /\ attempt[r].pc = "none"

\* Fault: a message is acknowledged when it is handed to the worker.
DeliverAcknowledged(r) ==
    [c \in Runs |-> IF c \in Results(r)
                    THEN [link[c] EXCEPT !.message = "acknowledged"]
                    ELSE link[c]]

\* _coordination_recovery: results the checkpoint has consumed are acknowledged
\* again, the others are handed to the attempt.
Deliver(r) ==
    [c \in Runs |->
        CASE c \in Results(r) /\ c \in run[r].cp.consumed ->
                [link[c] EXCEPT !.message = "acknowledged"]
          [] c \in Results(r) \ run[r].cp.consumed /\ link[c].message = "queued" ->
                [link[c] EXCEPT !.message = "delivered"]
          [] OTHER -> link[c]]

\* Fault: only messages that nobody was handed before.
InboxQueued(r) == {c \in Results(r) : link[c].message = "queued"}

\* The results that go into recovery_state.coordination_messages.
Inbox(r) == Results(r) \ run[r].cp.consumed

\* claim_next_run and prepare_claim.  A terminal checkpoint cannot be resumed.
Prepare(r) ==
    /\ Claimable(r)
    /\ run' = [run EXCEPT ![r].status = "running"]
    /\ link' = Deliver(r)
    /\ attempt' = [attempt EXCEPT ![r] =
            [NoAttempt EXCEPT
                !.pc = IF run[r].cp.state = "final" THEN "returned" ELSE "executing",
                !.outcome = IF run[r].cp.state = "final" THEN "failed" ELSE "none",
                !.base = run[r].cp,
                !.cp = run[r].cp,
                !.inbox = Inbox(r)]]
    /\ UNCHANGED <<ledger, disruptions>>

\* prepare_claim raises and fail_unprepared_claim closes the Run, and only the
\* Run: an inbound delegation is left as it is.
FailUnprepared(r) ==
    /\ Claimable(r)
    /\ run' = [run EXCEPT ![r].status = "failed"]
    /\ UNCHANGED <<link, ledger, attempt, disruptions>>

-----------------------------------------------------------------------------
(* The loop                                                                *)

Executing(r) == attempt[r].pc = "executing"

\* Fault: one result is enough to go on.
AnyResult(r) == \E c \in attempt[r].cp.calls : c \in attempt[r].inbox \ attempt[r].cp.consumed

\* The results of all the children that the checkpoint waits for are there.
AllResults(r) == \A c \in attempt[r].cp.calls : c \in attempt[r].inbox \ attempt[r].cp.consumed

\* _resume_coordination
Resume(r) ==
    LET cp == attempt[r].cp IN
    /\ Executing(r)
    /\ cp.state = "waiting"
    /\ IF AllResults(r)
       THEN Emit(r, [state |-> "observing", calls |-> {},
                     consumed |-> cp.consumed \union cp.calls], "executing", "none")
       ELSE Return(r, "suspended")
    /\ UNCHANGED <<run, link, ledger, disruptions>>

Mentioned(cp) == cp.calls \union cp.consumed

\* A call the model has not made before.  The calls of a checkpoint that was lost
\* in a crash are made anew, under other call ids.
Fresh(c) == /\ c # Root
            /\ run[c].status = "absent"
            /\ \A r \in Runs : /\ c \notin Mentioned(run[r].cp) \union Mentioned(attempt[r].cp)
                               /\ c \notin Mentioned(attempt[r].base)
                               /\ \A i \in DOMAIN attempt[r].stream :
                                      c \notin Mentioned(attempt[r].stream[i])

\* A model round that asks for delegations: _pending_actions and the checkpoint
\* that names them.
ModelDelegates(r, calls) ==
    /\ Executing(r)
    /\ attempt[r].cp.state \in {"start", "observing"}
    /\ calls # {} /\ \A c \in calls : Fresh(c)
    /\ Emit(r, [attempt[r].cp EXCEPT !.state = "acting", !.calls = calls],
            "executing", "none")
    /\ UNCHANGED <<run, link, ledger, disruptions>>

\* A model round that answers: the final checkpoint.
ModelAnswers(r) ==
    /\ Executing(r)
    /\ attempt[r].cp.state \in {"start", "observing"}
    /\ Emit(r, [attempt[r].cp EXCEPT !.state = "final"], "returned", "completed")
    /\ UNCHANGED <<run, link, ledger, disruptions>>

\* Anything the loop answers with a failed outcome: a model error, an exhausted
\* budget, a delegation refused for its target, a database error in the handler.
LoopFails(r) ==
    /\ Executing(r)
    /\ Return(r, "failed")
    /\ UNCHANGED <<run, link, ledger, disruptions>>

\* A heartbeat is refused: the provider is cancelled and says so.
LoopCancelled(r) ==
    /\ Executing(r)
    /\ run[r].status # "running"
    /\ Return(r, "cancelled")
    /\ UNCHANGED <<run, link, ledger, disruptions>>

\* _validate_tree and _reserve
MayDelegate(r) ==
    /\ run[r].status = "running"
    /\ Cardinality(link[r].ancestors) + 1 <= MaxDepth
    /\ Cardinality(Children(r)) < MaxChildren
    /\ Cardinality(ActiveChildren(r)) < MaxParallel
    /\ Bounded([ledger[r] EXCEPT !.reserved = @ + Grant])

\* Fault: the closure table gets the direct relation only.
ClosureDirectOnly(r) == {r}

\* _insert_closure: the ancestors of a child of r.
ClosureOf(r) == link[r].ancestors \union {r}

\* delegate accepts: child Run, delegation, closure rows, ledger and reservation
\* are one transaction.
CreateChild(r, c) ==
    /\ run' = [run EXCEPT ![c] = [status |-> "pending", cp |-> Start]]
    /\ link' = [link EXCEPT ![c] = [parent |-> r, ancestors |-> ClosureOf(r),
                                    state |-> Active, message |-> "none"]]
    /\ ledger' = [ledger EXCEPT ![r].reserved = @ + Grant,
                                ![c] = LedgerOf(Grant)]

\* The next pending action of the checkpoint.  A delegation that exists already
\* under its idempotency key is replayed; a refused one fails the parent.
Delegate(r, c) ==
    /\ Executing(r)
    /\ attempt[r].cp.state = "acting"
    /\ c \in attempt[r].cp.calls \ attempt[r].accepted
    /\ IF run[r].status = "running" /\ link[c].parent = r
       THEN /\ attempt' = [attempt EXCEPT ![r].accepted = @ \union {c}]
            /\ UNCHANGED <<run, link, ledger>>
       ELSE IF MayDelegate(r)
       THEN /\ CreateChild(r, c)
            /\ attempt' = [attempt EXCEPT ![r].accepted = @ \union {c}]
       ELSE /\ Return(r, "failed")
            /\ UNCHANGED <<run, link, ledger>>
    /\ UNCHANGED disruptions

\* All actions are done: the waiting checkpoint, and the loop returns.
Park(r) ==
    /\ Executing(r)
    /\ attempt[r].cp.state = "acting"
    /\ attempt[r].accepted = attempt[r].cp.calls
    /\ Emit(r, [attempt[r].cp EXCEPT !.state = "waiting"], "returned", "suspended")
    /\ UNCHANGED <<run, link, ledger, disruptions>>

\* record_event for CHECKPOINT_SAVED: the checkpoint becomes durable and the
\* results it has consumed are acknowledged, in one transaction.
RecordCheckpoint(r) ==
    LET cp == Head(attempt[r].stream) IN
    /\ attempt[r].pc \in {"executing", "returned"}
    /\ attempt[r].stream # <<>>
    /\ run[r].status = "running"
    /\ run' = [run EXCEPT ![r].cp = cp]
    /\ link' = [c \in Runs |-> IF c \in Results(r) /\ c \in cp.consumed
                               THEN [link[c] EXCEPT !.message = "acknowledged"]
                               ELSE link[c]]
    /\ attempt' = [attempt EXCEPT ![r].stream = Tail(@)]
    /\ UNCHANGED <<ledger, disruptions>>

\* The Run was moved to waiting by an operator: record_event refuses to write,
\* and the attempt ends without an outcome.
RecordRefused(r) ==
    /\ attempt[r].pc \in {"executing", "returned"}
    /\ attempt[r].stream # <<>>
    /\ run[r].status # "running"
    /\ EndAttempt(r)
    /\ UNCHANGED <<run, link, ledger, disruptions>>

\* An exception or the run timeout: fail_claim follows.
Abort(r) ==
    /\ Executing(r)
    /\ attempt' = [attempt EXCEPT ![r].pc = "aborting"]
    /\ UNCHANGED <<run, link, ledger, disruptions>>

-----------------------------------------------------------------------------
(* Closing and parking                                                     *)

\* Fault: the parent gets back only what the child has spent.
ReleasedSpent(spent) == spent

\* What a closing child takes off the reservation of its parent.
Released(spent) == Grant

\* The wake-up of a parent: its lease columns are cleared.
Wake(runs, r) == [runs EXCEPT ![r].status = "running"]

\* _complete_child_coordination and the Run row of complete_claim, for a Run that
\* closes with an outcome and a last checkpoint and has spent part of its grant.
Close(r, outcome, cp, spent) ==
    LET p == link[r].parent
        closed == [run EXCEPT ![r] = [status |-> outcome, cp |-> cp]]
        wakes == /\ link[r].state = Active
                 /\ ActiveChildren(p) = {r}
                 /\ run[p].status = "waiting"
        ended == [attempt EXCEPT ![r] = NoAttempt]
    IN  /\ run' = IF wakes THEN Wake(closed, p) ELSE closed
        /\ attempt' = IF wakes THEN [ended EXCEPT ![p] = NoAttempt] ELSE ended
        /\ IF link[r].state = Active
           THEN /\ link' = [link EXCEPT ![r].state = outcome, ![r].message = "queued"]
                /\ ledger' = [ledger EXCEPT
                        ![r].direct = spent,
                        ![p].reserved = @ - Released(spent),
                        ![p].consumed = @ + spent]
           ELSE UNCHANGED <<link, ledger>>

Drained(r) == attempt[r].pc = "returned" /\ attempt[r].stream = <<>>

\* The checkpoint that the loop returns: its newest one, or none where it gives up
\* before it has emitted any (_fail and _cancelled without a checkpoint).
Returned(r) == {attempt[r].cp}
    \union IF attempt[r].outcome # "completed" /\ attempt[r].cp = attempt[r].base
           THEN {Start} ELSE {}

\* complete_claim.  The database refuses a child ledger beyond its limit: the
\* transaction rolls back and fail_claim follows.
CompleteClaim(r, cp, spent) ==
    /\ Drained(r)
    /\ attempt[r].outcome \in Closed
    /\ cp \in Returned(r)
    /\ spent \in 0..Grant
    /\ IF link[r].state = Active => Bounded([ledger[r] EXCEPT !.direct = spent])
       THEN Close(r, attempt[r].outcome, cp, spent)
       ELSE /\ attempt' = [attempt EXCEPT ![r].pc = "aborting"]
            /\ UNCHANGED <<run, link, ledger>>
    /\ UNCHANGED disruptions

\* fail_claim: the usage of the attempt is not known, and the checkpoint that the
\* attempt started from is written over what it has recorded since.
FailClaim(r) ==
    /\ attempt[r].pc = "aborting"
    /\ Close(r, "failed", attempt[r].base, 0)
    /\ UNCHANGED disruptions

\* suspend_claim
SuspendClaim(r) ==
    /\ Drained(r)
    /\ attempt[r].outcome = "suspended"
    /\ run' = [run EXCEPT ![r] = [status |-> "waiting", cp |-> attempt[r].cp]]
    /\ EndAttempt(r)
    /\ UNCHANGED <<link, ledger, disruptions>>

-----------------------------------------------------------------------------
(* Reconciliation, crashes, operators                                      *)

\* Fault: a parent is looked for only where a result message arrived.
ReadyByMessage(r) == /\ run[r].status = "waiting"
                     /\ ActiveChildren(r) = {}
                     /\ \E c \in Children(r) : link[c].message = "queued"

\* What the query of reconcile_coordination_waiters selects.
Ready(r) == /\ run[r].status = "waiting"
            /\ Children(r) # {}
            /\ ActiveChildren(r) = {}

\* reconcile_coordination_waiters, called before every claim: a parent whose
\* children were all settled while it was not waiting yet.
Reconcile(r) ==
    /\ Ready(r)
    /\ run' = Wake(run, r)
    /\ EndAttempt(r)
    /\ UNCHANGED <<link, ledger, disruptions>>

\* The worker dies, or loses its lease to a clock: memory is gone, rows stay.
Crash(r) ==
    /\ attempt[r].pc # "none"
    /\ Disrupt
    /\ EndAttempt(r)
    /\ UNCHANGED <<run, link, ledger>>

Subtree(r) == {r} \union {d \in Runs : r \in link[d].ancestors}

\* cancel_tree: the closure rows name every Run below r; their delegations, and
\* the one that r itself came from, are cancelled and their reservations
\* released.  No result message is queued.  A Run that is cancelled already is
\* left alone, and so is everything below it.
CancelTree(r) ==
    LET tree == Subtree(r)
        cancelled == {c \in tree : link[c].state = Active}
        freed(p) == Grant * Cardinality(cancelled \intersect Children(p))
    IN  /\ run[r].status \notin {"absent", "cancelled"}
        /\ Disrupt
        /\ run' = [d \in Runs |-> IF d \in tree /\ IsOpen(d)
                                  THEN [run[d] EXCEPT !.status = "cancelled"]
                                  ELSE run[d]]
        /\ link' = [c \in Runs |-> IF c \in cancelled
                                   THEN [link[c] EXCEPT !.state = "cancelled"]
                                   ELSE link[c]]
        /\ ledger' = [p \in Runs |->
                        [ledger[p] EXCEPT !.reserved = IF freed(p) < @ THEN @ - freed(p) ELSE 0]]
        /\ attempt' = [d \in Runs |-> IF d \in tree THEN NoAttempt ELSE attempt[d]]

\* RUN_TRANSITIONS, on the statuses of this module.
Moves == [s \in Status |->
            CASE s = "pending" -> {"cancelled", "failed"}
              [] s = "running" -> {"waiting"} \union Closed
              [] s = "waiting" -> {"running", "failed", "cancelled"}
              [] OTHER -> {}]

\* transition_run: an operator moves one Run.  Delegations, children and parent
\* are left as they are.
TransitionRun(r, target) ==
    /\ target \in Moves[run[r].status]
    /\ Disrupt
    /\ run' = [run EXCEPT ![r].status = target]
    /\ IF target \in Closed THEN EndAttempt(r) ELSE UNCHANGED attempt
    /\ UNCHANGED <<link, ledger>>

-----------------------------------------------------------------------------
(* The specification                                                       *)

WorkerStep(r) ==
    \/ Prepare(r)
    \/ FailUnprepared(r)
    \/ Resume(r)
    \/ \E calls \in SUBSET Runs : ModelDelegates(r, calls)
    \/ ModelAnswers(r)
    \/ LoopFails(r)
    \/ LoopCancelled(r)
    \/ \E c \in Runs : Delegate(r, c)
    \/ Park(r)
    \/ RecordCheckpoint(r)
    \/ RecordRefused(r)
    \/ Abort(r)
    \/ \E cp \in Returned(r), spent \in 0..Grant : CompleteClaim(r, cp, spent)
    \/ FailClaim(r)
    \/ SuspendClaim(r)

Operator(r) == \/ CancelTree(r)
               \/ \E target \in Status : TransitionRun(r, target)

Next == \E r \in Runs : WorkerStep(r) \/ Reconcile(r) \/ Crash(r) \/ Operator(r)

Spec == Init /\ [][Next]_vars

\* Workers poll for ever: a claimable Run is taken, an attempt goes on until it
\* returns or times out, and reconciliation runs before every claim.
Fairness == \A r \in Runs : WF_vars(WorkerStep(r)) /\ WF_vars(Reconcile(r))

FairSpec == Spec /\ Fairness

-----------------------------------------------------------------------------
(* Properties                                                              *)

TypeOK == /\ run \in [Runs -> [status : Status, cp : Checkpoint]]
          /\ link \in [Runs -> Link]
          /\ ledger \in [Runs -> Ledger]
          /\ attempt \in [Runs -> Attempt]
          /\ disruptions \in 0..MaxDisruptions

\* Every ledger holds exactly the grants of the delegations that are still
\* active, however children close, fail, are cancelled or are delegated twice
\* after a crash: no budget leaks and none is given out twice.
ReservationsMatch == \A r \in Runs :
    ledger[r].reserved = Grant * Cardinality(ActiveChildren(r))

\* A result message is acknowledged only when the checkpoint that consumed it is
\* durable, as long as the parent can go on from it: no crash loses a result that
\* nobody will deliver again.  A parent that fails is closed with the checkpoint it
\* was resumed from, which may lack results that were acknowledged since.
AckedIsDurable == \A c \in Runs :
    /\ link[c].message = "acknowledged"
    /\ IsOpen(link[c].parent)
    => c \in run[link[c].parent].cp.consumed

\* The children a durable checkpoint waits for exist, as children of that Run: a
\* parent never waits for a child whose creation was lost.
WaitsForRealChildren == \A r \in Runs :
    run[r].cp.state = "waiting" => run[r].cp.calls \subseteq Children(r)

\* What the durable checkpoint of a Run that can go on says of the tree is true of
\* the tree, whatever died between the two: children it waits for exist, results it
\* was sent are in it.
CheckpointMatchesTree == AckedIsDurable /\ WaitsForRealChildren

\* The durable checkpoint of a parent leaves the wait only with the results of
\* all the children it waited for, each of them a settled delegation, unless the
\* step closes the parent.
ProceedsWithAllResults ==
    [][\A r \in Runs :
        run[r].cp.state = "waiting" /\ run[r].cp # run'[r].cp /\ IsOpen(r)'
        => /\ run[r].cp.calls \subseteq run'[r].cp.consumed
           /\ \A c \in run[r].cp.calls : link[c].state \in Closed]_vars

\* Every Run below r, found from parent to child and not from the closure table.
Below(r) ==
    LET level[n \in Nat] == IF n = 0 THEN {r}
                            ELSE level[n - 1] \union UNION {Children(p) : p \in level[n - 1]}
    IN  level[Cardinality(Runs)]

\* cancel_tree leaves no Run of the tree open and no delegation of it active.
CancelReachesAll ==
    [][\A r \in Runs : CancelTree(r) =>
        \A d \in Below(r) : /\ ~ IsOpen(d)'
                            /\ link'[d].state # Active]_vars

\* The Run waits and has no active delegation left.
Settled(r) == /\ run[r].status = "waiting"
              /\ Children(r) # {}
              /\ ActiveChildren(r) = {}

\* A parent whose delegations are all settled does not stay in the wait, even
\* when the last child closed before the parent was parked.
WakesWhenSettled == \A r \in Runs :
    Settled(r) ~> run[r].status # "waiting"

\* A parent that waits with all its delegations settled and all the awaited
\* results sent consumes them, unless it is closed or another child becomes
\* active: the messages are delivered again after every crash.
ResultsReachParent == \A r \in Runs :
    /\ Settled(r)
    /\ run[r].cp.state = "waiting"
    /\ run[r].cp.calls \subseteq Results(r)
    ~> \/ run[r].cp.state # "waiting"
       \/ run[r].status \in Closed
       \/ ActiveChildren(r) # {}

\* "woken transactionally after every direct Child becomes terminal. A database
\* reconciler repairs missed notifications": whatever closed the children.
WakesWhenClosed == \A r \in Runs :
    /\ run[r].status = "waiting"
    /\ Children(r) # {}
    /\ \A c \in Children(r) : ~ IsOpen(c)
    ~> run[r].status # "waiting"

=============================================================================
