--------------------------- MODULE ModelCallsProofs ---------------------------
(***************************************************************************)
(* What ModelCalls guarantees, for every set of items, every policy and    *)
(* restriction, any budgets and any number of takeovers: of knowledge      *)
(* first, then of the model calls, whose events form a stream.             *)
(***************************************************************************)
EXTENDS ModelCalls, FiniteSetTheorems, SequenceTheorems, WellFoundedInduction, TLAPS

\* The policies that a preparation read permit an item, as RecallIsPermitted says it.
Permitted(above, i) ==
    /\ \A policy \in {above.tenant, above.agent}
                     \union (IF above.child THEN {above.parent} ELSE {}) :
          policy.enabled /\ Scope[i] \in policy.scopes
    /\ above.child => Scope[i] \in above.restriction.scopes

RunType == run \in {"pending", "running"} \union TerminalStatus

Usage ==
    [status : {"none", "selected", "consumed", "succeeded", "failed", "cancelled", "timed_out"},
     contexts : Nat, calls : Nat]

UsageType == usages \in [Items -> Usage]

\* The worker is a record with the fields of Idle.
WorkerShape ==
    worker = [pc |-> worker.pc, above |-> worker.above, cp |-> worker.cp, refs |-> worker.refs, keys |-> worker.keys,
              key |-> worker.key, events |-> worker.events, outcome |-> worker.outcome]

\* Before the first preparation commits, nothing of the Run is known.
PendingIsFresh ==
    run = "pending" => ~ session.ready /\ \A i \in Items : usages[i] = NoUsage

\* A first preparation holds the pending row, and what it recalled is permitted.
RecallPending ==
    worker.pc = "preparing" =>
        /\ run = "pending"
        /\ \E above \in worker.above : \A i \in worker.refs : i \in Items /\ Permitted(above, i)

\* What the loop may report.
OutcomeType ==
    worker.pc = "finish" => worker.outcome \in {"completed", "failed", "cancelled", "suspended"}

\* A fact that has ended says how its Run ended.
EndedFacts ==
    \A i \in Items : usages[i].status \in UsageOutcome =>
        run = IF usages[i].status = "succeeded" THEN "completed" ELSE usages[i].status

KInv ==
    /\ RunType /\ UsageType /\ WorkerShape
    /\ PendingIsFresh /\ RecallPending /\ OutcomeType /\ EndedFacts

\* What RecallIsPermitted and FactsFollowRun say of one step.
RecallStep ==
    \A i \in Items : usages[i].status = "none" /\ usages'[i].status # "none" =>
            /\ ~ session.ready
            /\ catalog[i] = "in use"
            /\ \E above \in worker.above :
                  /\ \A policy \in {above.tenant, above.agent}
                                   \union (IF above.child THEN {above.parent} ELSE {}) :
                        policy.enabled /\ Scope[i] \in policy.scopes
                  /\ above.child => Scope[i] \in above.restriction.scopes

FactsStep ==
    \A i \in Items :
        /\ run' # run /\ run' \in TerminalStatus /\ worker.pc # "off" /\ worker'.pc = "off" =>
              usages'[i].status \notin OpenUsage
        /\ usages'[i].status \in UsageOutcome =>
              run' = IF usages'[i].status = "succeeded" THEN "completed"
                     ELSE usages'[i].status

Kept == KInv' /\ RecallStep /\ FactsStep

USE DEF TerminalStatus, OpenUsage, UsageOutcome

-----------------------------------------------------------------------------
(* The policies.                                                           *)

LEMMA LeastBounds ==
  ASSUME NEW a \in Nat, NEW b \in Nat
  PROVE  LeastOf(a, b) \in Nat /\ LeastOf(a, b) <= a /\ LeastOf(a, b) <= b
  BY DEF LeastOf

\* An item that an intersection permits is permitted by each of its parts.
LEMMA IntersectionPermits ==
  ASSUME NEW left, NEW right, NEW restriction, NEW scope,
         left.enabled \in BOOLEAN, right.enabled \in BOOLEAN,
         Intersection(left, right, restriction).enabled,
         scope \in Intersection(left, right, restriction).scopes
  PROVE  /\ left.enabled /\ right.enabled
         /\ scope \in left.scopes /\ scope \in right.scopes /\ scope \in restriction.scopes
  BY DEF Intersection

LEMMA SnapshotPermits ==
  ASSUME NEW tenant \in Policies, NEW agent \in Policies, NEW scope,
         PolicySnapshot(tenant, agent).enabled, scope \in PolicySnapshot(tenant, agent).scopes
  PROVE  /\ tenant.enabled /\ scope \in tenant.scopes
         /\ agent.enabled /\ scope \in agent.scopes
  BY IntersectionPermits, KnowledgeAssumption DEF PolicySnapshot

\* What is recalled is permitted by every policy that was read.
LEMMA RecallablePermitted ==
  ASSUME NEW above \in PoliciesAbove, NEW chosen \in Recallable(above), NEW i \in chosen
  PROVE  i \in Items /\ Permitted(above, i)
  <1> DEFINE policy == EffectivePolicy(above)
  <1>1. /\ chosen \subseteq Items /\ Scope[i] \in policy.scopes
        /\ Cardinality(chosen) <= IF policy.enabled THEN policy.limit ELSE 0
    BY DEF Recallable
  <1>2. IsFiniteSet(chosen) /\ chosen # {}
    BY <1>1, KnowledgeAssumption, FS_Subset
  <1>3. Cardinality(chosen) \in Nat /\ Cardinality(chosen) # 0
    BY <1>2, FS_CardinalityType, FS_EmptySet
  <1>4. policy.enabled
    BY <1>1, <1>3
  <1>5. /\ above.tenant \in Policies /\ above.agent \in Policies /\ above.parent \in Policies
        /\ above.child \in BOOLEAN
    BY DEF PoliciesAbove
  <1>6. CASE above.child
    <2> DEFINE snapshot == PolicySnapshot(above.tenant, above.parent)
    <2>1. policy = Intersection(snapshot, above.agent, above.restriction)
      BY <1>6 DEF EffectivePolicy, NarrowedPolicy
    <2>2. snapshot.enabled \in BOOLEAN /\ above.agent.enabled \in BOOLEAN
      BY <1>5, KnowledgeAssumption DEF PolicySnapshot, Intersection
    <2> HIDE DEF snapshot
    <2>3. /\ snapshot.enabled /\ Scope[i] \in snapshot.scopes
          /\ above.agent.enabled /\ Scope[i] \in above.agent.scopes
          /\ Scope[i] \in above.restriction.scopes
      BY <1>1, <1>4, <2>1, <2>2, IntersectionPermits
    <2>4. /\ above.tenant.enabled /\ Scope[i] \in above.tenant.scopes
          /\ above.parent.enabled /\ Scope[i] \in above.parent.scopes
      BY <1>5, <2>3, SnapshotPermits DEF snapshot
    <2> QED
      BY <1>1, <2>3, <2>4 DEF Permitted
  <1>7. CASE ~ above.child
    <2>1. policy = PolicySnapshot(above.tenant, above.agent)
      BY <1>7 DEF EffectivePolicy
    <2> QED
      BY <1>1, <1>4, <1>5, <1>7, <2>1, SnapshotPermits DEF Permitted
  <1> QED
    BY <1>5, <1>6, <1>7

-----------------------------------------------------------------------------
(* Every step keeps KInv and satisfies both.                               *)

LEMMA NoUsageType == NoUsage \in Usage /\ NoUsage.status = "none"
  BY DEF NoUsage, Usage

LEMMA InitKInv == Init => KInv
  <1> SUFFICES ASSUME Init PROVE KInv
    OBVIOUS
  <1>1. RunType /\ UsageType /\ PendingIsFresh /\ EndedFacts
    BY NoUsageType DEF Init, RunType, UsageType, PendingIsFresh, EndedFacts, NoSession
  <1>2. WorkerShape /\ RecallPending /\ OutcomeType
    BY DEF Init, Idle, WorkerShape, RecallPending, OutcomeType
  <1> QED
    BY <1>1, <1>2 DEF KInv

\* A step of a worker or another that writes no fact.
LEMMA FactsUntouched ==
  ASSUME KInv, UNCHANGED <<usages>>, WorkerShape', RunType',
         run' # run => run' \in TerminalStatus /\
                       ((worker.pc # "off" /\ worker'.pc = "off") => run = "pending"),
         run \in TerminalStatus => run' = run,
         run = "pending" => session' = session,
         worker'.pc = "preparing" =>
            run' = "pending" /\
               \E above \in worker'.above : \A i \in worker'.refs : i \in Items /\ Permitted(above, i),
         OutcomeType'
  PROVE  Kept
  <1> USE DEF KInv
  <1>1. UsageType'
    BY DEF UsageType
  <1>2. PendingIsFresh' /\ EndedFacts'
    BY DEF PendingIsFresh, EndedFacts, RunType, NoUsage
  <1>3. RecallPending'
    BY <1>1 DEF RecallPending
  <1>4. RecallStep
    BY DEF RecallStep
  <1>5. FactsStep
    BY DEF FactsStep, EndedFacts, PendingIsFresh, NoUsage, RunType
  <1> QED
    BY <1>1, <1>2, <1>3, <1>4, <1>5 DEF Kept

LEMMA IdleShape == Idle.pc = "off" /\ (worker' = Idle => WorkerShape' /\ OutcomeType')
  BY DEF Idle, WorkerShape, OutcomeType

\* The loop: the Run is running and stays so, and no fact is written.
LEMMA LoopKeeps ==
  ASSUME KInv, UNCHANGED <<usages, run>>, run = "running",
         WorkerShape', worker'.pc # "preparing", OutcomeType'
  PROVE  Kept
  <1>1. RunType'
    BY DEF RunType
  <1> QED
    BY <1>1, FactsUntouched

LEMMA FinishKeeps ==
  ASSUME KInv, NEW outcome \in {"completed", "failed", "cancelled", "suspended"}, NEW events,
         Finish(outcome, events)
  PROVE  WorkerShape' /\ worker'.pc = "finish" /\ OutcomeType'
  BY DEF KInv, WorkerShape, OutcomeType, Finish

LEMMA AskKeeps ==
  ASSUME KInv, NEW key, NEW context, NEW history, worker.pc = "loop", Ask(key, context, history)
  PROVE  WorkerShape' /\ worker'.pc = "calling" /\ OutcomeType'
  BY DEF KInv, WorkerShape, OutcomeType, Ask

LEMMA LoopStepKeeps ==
  ASSUME KInv,
         \/ StartDirect \/ StartRound \/ StopRounds \/ AnswerTool \/ AnswerFinal \/ AnswerUnusable
         \/ AnswerError \/ RunTool \/ ToolRaises \/ ToolNeedsApproval \/ StopLoop
  PROVE  Kept
  <1>1. run = "running" /\ UNCHANGED <<usages, run>>
    BY DEF StartDirect, StartRound, StopRounds, AnswerTool, AnswerFinal, AnswerUnusable,
           AnswerError, RunTool, ToolRaises, ToolNeedsApproval, StopLoop, GatewayBegins, LoopAt, rows
  <1>2. CASE StartDirect \/ StartRound
    BY <1>1, <1>2, AskKeeps, LoopKeeps DEF StartDirect, StartRound, LoopAt
  <1>3. CASE StopRounds \/ AnswerFinal \/ AnswerUnusable \/ AnswerError \/ ToolRaises
             \/ ToolNeedsApproval \/ StopLoop \/ (AnswerTool /\ direct)
    <2>1. \E outcome \in {"completed", "failed", "cancelled", "suspended"} : \E events :
             Finish(outcome, events)
      BY <1>3 DEF StopRounds, AnswerFinal, AnswerUnusable, AnswerError, ToolRaises,
                  ToolNeedsApproval, StopLoop, AnswerTool
    <2> QED
      BY <1>1, <2>1, FinishKeeps, LoopKeeps
  <1>4. CASE AnswerTool /\ ~ direct
    <2>1. worker' = [worker EXCEPT !.pc = "loop", !.cp = Answered("waiting_for_tool"),
                       !.events = @ \o AnswerEvents(Answered("waiting_for_tool"))]
      BY <1>4 DEF AnswerTool
    <2>2. WorkerShape' /\ worker'.pc = "loop" /\ OutcomeType'
      BY <2>1 DEF KInv, WorkerShape, OutcomeType
    <2> QED
      BY <1>1, <2>2, LoopKeeps
  <1>5. CASE RunTool
    <2>1. /\ worker.pc = "loop"
          /\ \E cp, events : worker' = [worker EXCEPT !.cp = cp, !.events = @ \o events]
      BY <1>5 DEF RunTool, GatewayBegins, LoopAt
    <2>2. WorkerShape' /\ worker'.pc = "loop" /\ OutcomeType'
      BY <2>1 DEF KInv, WorkerShape, OutcomeType
    <2> QED
      BY <1>1, <2>2, LoopKeeps
  <1> QED
    BY <1>2, <1>3, <1>4, <1>5

\* The rows of facts are written for items that have one, unless Prepare does it.
LEMMA MarkedUsage ==
  ASSUME NEW u \in Usage
  PROVE  \A v \in {[u EXCEPT !.status = "consumed", !.contexts = @ + 1],
                   [u EXCEPT !.status = "consumed", !.calls = @ + 1]} :
            v \in Usage /\ v.status = "consumed"
  <1> DEFINE m == u.contexts + 1
             n == u.calls + 1
             w == [u EXCEPT !.status = "consumed"]
  <1>1. w \in Usage /\ w.status = "consumed" /\ m \in Nat /\ n \in Nat
    BY DEF Usage
  <1>2. /\ [u EXCEPT !.status = "consumed", !.contexts = @ + 1] = [w EXCEPT !.contexts = m]
        /\ [u EXCEPT !.status = "consumed", !.calls = @ + 1] = [w EXCEPT !.calls = n]
    BY DEF Usage
  <1> HIDE DEF m, n, w
  <1>3. /\ [w EXCEPT !.contexts = m] \in Usage /\ [w EXCEPT !.contexts = m].status = "consumed"
        /\ [w EXCEPT !.calls = n] \in Usage /\ [w EXCEPT !.calls = n].status = "consumed"
    BY <1>1 DEF Usage
  <1> QED
    BY <1>2, <1>3

LEMMA OtherEvents ==
  ASSUME NEW e,
         \/ RecordCallEnded(e) \/ RecordStepStarted(e) \/ RecordStepCompleted(e)
         \/ RecordToolCompleted(e) \/ RecordCheckpoint(e)
  PROVE  usages' = usages
  BY DEF RecordCallEnded, RecordStepStarted, RecordStepCompleted, RecordToolCompleted,
         RecordCheckpoint, rows

LEMMA RecordKeeps ==
  ASSUME KInv, Record
  PROVE  Kept
  <1> DEFINE e == Head(worker.events)
  <1> USE DEF KInv
  <1>1. /\ run = "running" /\ UNCHANGED <<catalog, run>>
        /\ WorkerShape' /\ worker'.pc = worker.pc /\ OutcomeType' /\ worker'.refs = worker.refs
        /\ worker'.above = worker.above
    BY DEF Record, WorkerShape, OutcomeType
  <1>2. ~ Refused(e) /\ Project(e)
    BY DEF Record
  <1>3. /\ UsageType'
        /\ \A i \in Items :
              usages'[i] = usages[i] \/ (usages[i].status \in OpenUsage /\ usages'[i].status = "consumed")
    <2>1. CASE e.ev = "CONTEXT_SNAPSHOT_CREATED"
      <3>1. usages' = MarkContext(e)
        BY <1>2, <2>1 DEF Project, RecordContext
      <3>2. NewContext(e) => \A i \in e.content.refs : usages[i].status \in OpenUsage
        BY <1>2, <2>1 DEF Refused, Markable
      <3> QED
        <4>1. \A i \in Items : usages[i] \in Usage
          BY DEF UsageType
        <4>2. \A i \in Items : usages'[i] \in Usage /\
                 (usages'[i] = usages[i] \/ (usages[i].status \in OpenUsage /\ usages'[i].status = "consumed"))
          <5> SUFFICES ASSUME NEW i \in Items
                       PROVE  usages'[i] \in Usage /\
                 (usages'[i] = usages[i] \/ (usages[i].status \in OpenUsage /\ usages'[i].status = "consumed"))
            OBVIOUS
          <5>1. usages[i] \in Usage /\ usages'[i] \in {usages[i],
                   [usages[i] EXCEPT !.status = "consumed", !.contexts = @ + 1]}
            BY <3>1, <4>1 DEF MarkContext
          <5>2. usages'[i] # usages[i] => usages[i].status \in OpenUsage
            BY <3>1, <3>2 DEF MarkContext
          <5> QED
            BY <5>1, <5>2, MarkedUsage
        <4>3. usages' = [i \in Items |-> usages'[i]]
          BY <3>1 DEF MarkContext
        <4> QED
          BY <4>2, <4>3 DEF UsageType
    <2>2. CASE e.ev = "MODEL_CALL_STARTED"
      <3>1. usages' = MarkModelCall
        BY <1>2, <2>2 DEF Project, RecordCallStarted
      <3>2. \A i \in contexts[session.context].refs : usages[i].status \in OpenUsage
        BY <1>2, <2>2 DEF Refused, Markable
      <3> QED
        <4>1. \A i \in Items : usages[i] \in Usage
          BY DEF UsageType
        <4>2. \A i \in Items : usages'[i] \in Usage /\
                 (usages'[i] = usages[i] \/ (usages[i].status \in OpenUsage /\ usages'[i].status = "consumed"))
          <5> SUFFICES ASSUME NEW i \in Items
                       PROVE  usages'[i] \in Usage /\
                 (usages'[i] = usages[i] \/ (usages[i].status \in OpenUsage /\ usages'[i].status = "consumed"))
            OBVIOUS
          <5>1. usages[i] \in Usage /\ usages'[i] \in {usages[i],
                   [usages[i] EXCEPT !.status = "consumed", !.calls = @ + 1]}
            BY <3>1, <4>1 DEF MarkModelCall
          <5>2. usages'[i] # usages[i] => usages[i].status \in OpenUsage
            BY <3>1, <3>2 DEF MarkModelCall
          <5> QED
            BY <5>1, <5>2, MarkedUsage
        <4>3. usages' = [i \in Items |-> usages'[i]]
          BY <3>1 DEF MarkModelCall
        <4> QED
          BY <4>2, <4>3 DEF UsageType
    <2>3. CASE e.ev \notin {"CONTEXT_SNAPSHOT_CREATED", "MODEL_CALL_STARTED"}
      <3>1. \/ RecordCallEnded(e) \/ RecordStepStarted(e) \/ RecordStepCompleted(e)
            \/ RecordToolCompleted(e) \/ RecordCheckpoint(e)
        BY <1>2, <2>3 DEF Project
      <3>2. usages' = usages
        BY <3>1, OtherEvents
      <3> QED
        BY <3>2 DEF UsageType
    <2> QED
      BY <2>1, <2>2, <2>3
  <1>4. RunType'
    BY <1>1 DEF RunType
  <1>5. PendingIsFresh' /\ RecallPending' /\ EndedFacts'
    BY <1>1, <1>3, <1>4 DEF PendingIsFresh, RecallPending, EndedFacts
  <1>6. RecallStep /\ FactsStep
    BY <1>1, <1>3 DEF RecallStep, FactsStep, EndedFacts
  <1> QED
    BY <1>1, <1>3, <1>4, <1>5, <1>6 DEF Kept

\* complete_claim and fail_claim: every fact ends as the Run does.
LEMMA CloseKeeps ==
  ASSUME KInv, NEW outcome \in {"completed", "failed", "cancelled", "timed_out"}, Close(outcome)
  PROVE  Kept
  <1> USE DEF KInv
  <1> DEFINE ending == IF outcome = "completed" THEN "succeeded" ELSE outcome
  <1>1. /\ run = "running" /\ run' = outcome /\ worker' = Idle
        /\ usages' = Finalized(outcome)
    BY DEF Close
  <1>2. /\ UsageType'
        /\ \A i \in Items : IF usages[i].status \in OpenUsage
                            THEN usages'[i].status = ending ELSE usages'[i] = usages[i]
    BY <1>1 DEF Finalized, UsageType, Usage
  <1>3. \A i \in Items : usages[i].status \notin UsageOutcome
    BY <1>1 DEF EndedFacts
  <1>4. RunType' /\ WorkerShape' /\ OutcomeType' /\ worker'.pc = "off"
    BY <1>1, IdleShape DEF RunType
  <1>5. PendingIsFresh' /\ RecallPending' /\ EndedFacts'
    BY <1>1, <1>2, <1>3, <1>4 DEF PendingIsFresh, RecallPending, EndedFacts
  <1>6. RecallStep
    BY <1>2 DEF RecallStep
  <1>7. FactsStep
    BY <1>1, <1>2, <1>3 DEF FactsStep
  <1> QED
    BY <1>2, <1>4, <1>5, <1>6, <1>7 DEF Kept

LEMMA PrepareKeeps ==
  ASSUME KInv, Prepare
  PROVE  Kept
  <1> USE DEF KInv
  <1>1. /\ run = "pending" /\ ~ session.ready /\ \A i \in Items : usages[i] = NoUsage
        /\ \A i \in worker.refs : catalog[i] = "in use"
        /\ \E above \in worker.above : \A i \in worker.refs : Permitted(above, i)
        /\ run' = "running" /\ usages' = EnsuredUsages
    BY DEF Prepare, RecallPending, PendingIsFresh, SourceInUse
  <1>2. UsageType' /\ \A i \in Items : usages'[i].status =
                          IF i \in worker.refs THEN "selected" ELSE "none"
    BY <1>1, NoUsageType DEF EnsuredUsages, Usage, UsageType, NoUsage
  <1>3. WorkerShape' /\ OutcomeType' /\ worker'.pc = "loop"
    BY DEF Prepare, WorkerShape, OutcomeType
  <1>4. RunType' /\ PendingIsFresh' /\ RecallPending' /\ EndedFacts'
    BY <1>1, <1>2, <1>3 DEF RunType, PendingIsFresh, RecallPending, EndedFacts
  <1>5. RecallStep /\ FactsStep
    BY <1>1, <1>2, NoUsageType DEF RecallStep, FactsStep, Permitted
  <1> QED
    BY <1>2, <1>3, <1>4, <1>5 DEF Kept

LEMMA RecallKeeps ==
  ASSUME KInv, Recall
  PROVE  Kept
  <1>0. PICK above \in PoliciesAbove : \E chosen \in Recallable(above) :
           worker' = [Idle EXCEPT !.pc = "preparing", !.above = {above}, !.refs = chosen]
    BY DEF Recall
  <1>1. PICK chosen \in Recallable(above) :
           worker' = [Idle EXCEPT !.pc = "preparing", !.above = {above}, !.refs = chosen]
    BY <1>0
  <1>2. WorkerShape' /\ OutcomeType' /\ worker'.pc = "preparing" /\ worker'.refs = chosen
        /\ worker'.above = {above}
    BY <1>1 DEF Idle, WorkerShape, OutcomeType
  <1>3. \A i \in chosen : i \in Items /\ Permitted(above, i)
    BY RecallablePermitted
  <1>4. run = "pending" /\ UNCHANGED <<usages, session, run>> /\ RunType'
    BY DEF Recall, rows, KInv, RunType
  <1> QED
    BY <1>2, <1>3, <1>4, FactsUntouched

LEMMA RecoverKeeps ==
  ASSUME KInv, Recover
  PROVE  Kept
  <1>1. run = "running" /\ UNCHANGED <<usages, run>>
    BY DEF Recover
  <1>2. WorkerShape' /\ OutcomeType' /\ worker'.pc = "loop"
    BY DEF Recover, Idle, WorkerShape, OutcomeType
  <1> QED
    BY <1>1, <1>2, LoopKeeps

LEMMA NextKeeps == KInv /\ [Next]_vars => Kept
  <1> SUFFICES ASSUME KInv, [Next]_vars PROVE Kept
    OBVIOUS
  <1>r. RunType /\ WorkerShape /\ OutcomeType
    BY DEF KInv
  <1>1. CASE Recall \/ Prepare \/ Recover \/ Record
    BY <1>1, RecallKeeps, PrepareKeeps, RecoverKeeps, RecordKeeps
  <1>2. CASE \/ StartDirect \/ StartRound \/ StopRounds \/ AnswerTool \/ AnswerFinal
             \/ AnswerUnusable \/ AnswerError \/ RunTool \/ ToolRaises \/ ToolNeedsApproval \/ StopLoop
    BY <1>2, LoopStepKeeps
  <1>3. CASE PrepareRaises
    <2>1. run = "pending" /\ run' = "failed" /\ worker' = Idle /\ UNCHANGED <<usages, session>>
      BY <1>3 DEF PrepareRaises, KInv, RecallPending, rows
    <2> QED
      BY <2>1, IdleShape, FactsUntouched DEF RunType
  <1>4. CASE RecoverRaises
    <2>1. /\ run = "running" /\ run' = "failed" /\ worker.pc = "off"
          /\ UNCHANGED <<usages, session, worker>>
      BY <1>4 DEF RecoverRaises, rows
    <2> QED
      BY <1>r, <2>1, FactsUntouched DEF RunType, WorkerShape, OutcomeType
  <1>5. CASE CompleteClaim \/ FailClaim
    <2>1. \E outcome \in {"completed", "failed", "cancelled", "timed_out"} : Close(outcome)
      BY <1>5 DEF CompleteClaim, FailClaim, LoopAt, KInv, OutcomeType
    <2> QED
      BY <2>1, CloseKeeps
  <1>6. CASE SuspendClaim
    <2>1. run = "running" /\ worker' = Idle /\ UNCHANGED <<usages, run>>
      BY <1>6 DEF SuspendClaim, LoopAt, rows
    <2> QED
      BY <2>1, IdleShape, LoopKeeps
  <1>7. CASE OperatorCloses
    <2>1. /\ run' \in TerminalStatus /\ worker.pc # "preparing"
          /\ UNCHANGED <<usages, session, worker>>
      BY <1>7 DEF OperatorCloses, rows
    <2>2. run \notin TerminalStatus
      BY <1>7 DEF OperatorCloses, RunTransitions, RunStatus
    <2> QED
      BY <1>r, <2>1, <2>2, FactsUntouched DEF RunType, WorkerShape, OutcomeType
  <1>8. CASE ClaimLost \/ Crash
    <2>1. worker' = Idle /\ UNCHANGED <<usages, session, run>>
      BY <1>8 DEF ClaimLost, Crash, rows
    <2> QED
      BY <1>r, <2>1, IdleShape, FactsUntouched DEF RunType
  <1>9. CASE Publish \/ UNCHANGED vars
    <2>1. UNCHANGED <<usages, session, run, worker>>
      BY <1>9 DEF Publish, vars, rows
    <2> QED
      BY <1>r, <2>1, FactsUntouched DEF RunType, WorkerShape, OutcomeType, KInv, RecallPending
  <1> QED
    BY <1>1, <1>2, <1>3, <1>4, <1>5, <1>6, <1>7, <1>8, <1>9 DEF Next

\* Knowledge enters a Run only when it is first prepared, from what is in use
\* as it is inserted and what every policy above the Run permits (preparation.py,
\* _ensure_knowledge_usages and its trigger).
THEOREM KnowledgeIsPermitted == Spec => RecallIsPermitted
  <1>1. Spec => [][RecallStep]_vars
    <2>1. Kept => KInv' /\ RecallStep
      BY DEF Kept
    <2> QED
      BY <2>1, InitKInv, NextKeeps, PTL DEF Spec
  <1> QED
    BY <1>1, PTL DEF RecallIsPermitted, RecallStep

\* What is recorded about the effect of knowledge is how its Run ended, however
\* often the Run was taken over (complete_claim, fail_claim).
THEOREM EffectsAreKnown == Spec => FactsFollowRun
  <1>1. Spec => [][FactsStep]_vars
    <2>1. Kept => KInv' /\ FactsStep
      BY DEF Kept
    <2> QED
      BY <2>1, InitKInv, NextKeeps, PTL DEF Spec
  <1> QED
    BY <1>1, PTL DEF FactsFollowRun, FactsStep
-----------------------------------------------------------------------------
(* The stream.  A round has eight places, in the order in which the loop    *)
(* reports it; the events of a worker fill consecutive places, and what is  *)
(* in the rows is what stood in the places before them.                     *)

KeyType == [round : Nat, replay : Nat]
CallType ==
    [key : KeyType, context : 1..MaxIterations,
     status : {"streaming", "completed", "failed", "interrupted"}]
StepType == [status : {"none", "running", "completed"}, context : Nat, call : Nat]

\* The rounds that both budgets allow.
Limit == LeastOf(MaxIterations, TokenLimit)
Histories == [1..Limit -> KeyType]

Prefix(H, n) == [j \in 1..n |-> H[j]]

\* The checkpoint of a round before its answer, and after it.
CpBefore(H, r) ==
    [state |-> "reasoning", iteration |-> r, context |-> r - 1,
     history |-> Prefix(H, r - 1), usage |-> r - 1]
CpAfter(H, r, state) ==
    [state |-> state, iteration |-> r, context |-> r, history |-> Prefix(H, r), usage |-> r]

Finished == {"waiting_for_tool", "completed"}

\* The place of the next event of a worker that begins from a checkpoint.
PlaceOf(cp) == IF cp.state = "reasoning" THEN 8 * cp.iteration ELSE 8 * cp.iteration + 6

\* A checkpoint on the way of a history that has known rounds.
OnTheWay(cp, H, known) ==
    \/ \E r \in 1..(known + 1) : cp = CpBefore(H, r)
    \/ \E r \in 1..known, state \in Finished : cp = CpAfter(H, r, state)

\* What may stand in place n of the stream of a Run with these refs.  Only the
\* last event of a worker says that a call has failed.  (A direct Run has one
\* round, and its checkpoints are not read.)
Fits(e, n, H, known, refs, last, oneRound) ==
    \E r \in 1..Limit :
        \/ n = 8 * r /\ e = StepStarted(r)
        \/ n = 8 * r + 1 /\ r <= known
              /\ e = ContextCreated(r, Snapshot(Prefix(H, r - 1), refs))
        \/ n = 8 * r + 2 /\ r <= known /\ e = CallStarted(H[r])
        \/ n = 8 * r + 3 /\ r <= known
              /\ (e = CallEnded(H[r], "completed") \/ (last /\ e = CallEnded(H[r], "failed")))
        \/ n = 8 * r + 4 /\ r <= known /\ e = StepCompleted(r)
        \/ n = 8 * r + 5 /\ r <= known /\ e.ev = "CHECKPOINT_SAVED" /\ e = Save(e.cp)
              /\ IF oneRound THEN e.cp.iteration = 1
                 ELSE \E state \in Finished : e.cp = CpAfter(H, r, state)
        \/ n = 8 * r + 6 /\ r <= known /\ ~ oneRound /\ e = ToolCompleted(r)
        \/ n = 8 * r + 7 /\ r <= known /\ ~ oneRound /\ e = Save(CpBefore(H, r + 1))

Looping == worker.pc \in {"loop", "calling", "finish"}

\* A worker that gives up its claim: the takeover it causes is counted already.
Suspending == worker.pc = "finish" /\ worker.outcome = "suspended"
Charged == IF Suspending THEN takeovers - 1 ELSE takeovers

Checkpoint ==
    [state : {"reasoning"} \union Finished, iteration : Nat, context : Nat,
     history : Seq(KeyType), usage : Nat]
ContextType == [recorded : BOOLEAN, history : Seq(KeyType), refs : SUBSET Items]
Event ==
    [ev : {"STEP_STARTED", "STEP_COMPLETED", "TOOL_CALL_COMPLETED"}, round : Nat]
    \union [ev : {"CONTEXT_SNAPSHOT_CREATED"}, version : 1..MaxIterations, content : ContextType]
    \union [ev : {"MODEL_CALL_STARTED"}, key : KeyType]
    \union [ev : {"MODEL_CALL_ENDED"}, key : KeyType, status : {"completed", "failed"}]
    \union [ev : {"CHECKPOINT_SAVED"}, cp : Checkpoint]

SessionType ==
    [ready : BOOLEAN, selection : SUBSET Items, context : 0..MaxIterations, call : Nat,
     cp : Checkpoint]

RowsType ==
    /\ session \in SessionType /\ session.call <= Len(calls)
    /\ contexts \in [1..MaxIterations -> ContextType]
    /\ calls \in Seq(CallType)
    /\ reasoning \in [1..MaxIterations -> StepType]
    /\ tool \in [1..MaxIterations -> StepType]
    /\ takeovers \in Nat /\ direct \in BOOLEAN
    /\ worker.events \in Seq(Event) /\ worker.cp \in Checkpoint

\* Before the first preparation commits there are no rows, and the facts of a
\* running Run are open.
RunFollowed ==
    /\ run = "pending" =>
          /\ ~ Looping /\ calls = <<>>
          /\ \A v \in 1..MaxIterations : contexts[v] = NoContext
    /\ run = "running" /\ takeovers = 0 => Looping
    /\ ~ Looping => worker.events = <<>>
    /\ worker.pc = "preparing" => worker.cp = NewCheckpoint /\ worker.keys = {}
    /\ Suspending => takeovers > 0 /\ ~ direct
    /\ run = "running" \/ Looping =>
          \A i \in session.selection : usages[i].status \in OpenUsage

ContextsFrozen ==
    /\ \A v \in 1..MaxIterations :
          contexts[v].refs = IF contexts[v].recorded THEN session.selection ELSE {}
    /\ session.context # 0 => contexts[session.context].recorded

\* A call belongs to the context of its round, and has a key of its own.
CallsFit ==
    /\ \A c, d \in DOMAIN calls : calls[c].key = calls[d].key => c = d
    /\ \A c \in DOMAIN calls :
          /\ contexts[calls[c].context].recorded
          /\ calls[c].key.round = calls[c].context
          /\ calls[c].status = "streaming" => c = session.call

StepsBound ==
    \A r \in 1..MaxIterations :
        /\ reasoning[r].status = "completed" =>
              /\ reasoning[r].call \in DOMAIN calls
              /\ calls[reasoning[r].call].key.round = r
              /\ calls[reasoning[r].call].status = "completed"
              /\ calls[reasoning[r].call].context = reasoning[r].context
        /\ tool[r].call \in 0..Len(calls)
        /\ tool[r].call # 0 => calls[tool[r].call].key.round <= r
        /\ direct => tool[r].call = 0

Rounds == {calls[c].key.round : c \in DOMAIN calls}

\* Calls beyond one a round; one more is owed to a takeover that has not led to
\* a call yet.
CallsOwed ==
    ~ direct =>
        /\ Len(calls) <= Cardinality(Rounds) + Charged
        /\ run = "running" /\ ~ Looping => Len(calls) < Cardinality(Rounds) + Charged

\* The checkpoint of the session lies on the way, and no context beyond it is
\* recorded.
RowsFollow(H, known) ==
    /\ \A r \in 1..known : H[r].round = r
    /\ direct => session.cp.iteration = 1
    /\ ~ direct =>
          /\ OnTheWay(session.cp, H, known)
          /\ \A v \in 1..MaxIterations : contexts[v].recorded =>
                /\ v \in 1..Limit /\ v - 1 <= known
                /\ contexts[v] = Snapshot(Prefix(H, v - 1), session.selection)
                /\ 8 * v <= PlaceOf(session.cp)

Top(from) == from + Len(worker.events) + 1

\* Where a worker is in the stream that it has reported.
WorkerFollows(H, known, from) ==
    /\ worker.refs = session.selection
    /\ \A i \in 1..Len(worker.events) :
          /\ Fits(worker.events[i], from + i, H, known, worker.refs,
                  i = Len(worker.events) /\ worker.pc = "finish", direct)
          /\ worker.events[i].ev = "TOOL_CALL_COMPLETED" =>
                tool[worker.events[i].round].status # "none"
    /\ direct =>
          /\ worker.pc = "loop" => from = 7 /\ worker.events = <<>>
          /\ worker.cp.iteration = 1
    /\ direct /\ worker.pc = "calling" => known = 1 /\ worker.key = H[1] /\ Top(from) = 11
    /\ ~ direct /\ (worker.pc = "loop" \/ Suspending) =>
          OnTheWay(worker.cp, H, known) /\ worker.cp.context = known /\ Top(from) = PlaceOf(worker.cp)
    /\ ~ direct /\ worker.pc = "calling" =>
          /\ known \in 1..Limit /\ worker.cp = CpBefore(H, known)
          /\ worker.key = H[known] /\ Top(from) = 8 * known + 3
    /\ ~ direct =>
          /\ PlaceOf(session.cp) <= Top(from)
          /\ \A r \in 1..Limit : 8 * r <= from + 1 => 8 * r <= PlaceOf(session.cp)

\* What the places before from have left in the rows.
RowsReached(H, known, from) ==
    /\ ~ direct => \A v \in 1..MaxIterations : contexts[v].recorded => 8 * v <= from + 1
    /\ \A r \in 1..Limit :
          /\ from \in (8 * r + 1)..(8 * r + 4) => session.context = r
          /\ from \in (8 * r + 2)..(8 * r + 4) \/ (takeovers = 0 /\ from = 8 * r + 5) =>
                r <= known /\ session.call # 0 /\ calls[session.call].key = H[r]
          /\ from = 8 * r + 2 => calls[session.call].status = "streaming"
          /\ from = 8 * r + 3 => \/ calls[session.call].status = "completed"
                                 \/ worker.events = <<>> /\ worker.pc = "finish"
          /\ takeovers = 0 /\ ~ direct /\ 8 * r + 6 <= from =>
                r <= known /\ tool[r].call # 0 /\ calls[tool[r].call].key = H[r]
    /\ \A c \in DOMAIN calls : calls[c].status = "streaming" => from = 8 * calls[c].key.round + 2
    /\ ~ direct /\ (\E c \in DOMAIN calls : 8 * calls[c].key.round + 2 > from) =>
          Len(calls) < Cardinality(Rounds) + Charged

\* The keys of the rounds that are not recorded yet are fresh, and their bases
\* are recorded.
KeysFresh(H, known, from) ==
    ~ direct =>
        /\ IsFiniteSet(worker.keys)
        /\ \A k \in worker.keys : CallWith(k) # {}
        /\ \A c \in DOMAIN calls : \/ calls[c].key \in worker.keys
                                   \/ calls[c].key.round <= known /\ 8 * calls[c].key.round + 2 <= from
        /\ \A r \in 1..known : 8 * r + 2 > from =>
              CallWith(H[r]) = {} /\ (H[r].replay > 0 => CallWith(Key(r, 0)) # {})

Follows(H, known, from) ==
    /\ RowsFollow(H, known)
    /\ Looping => /\ WorkerFollows(H, known, from) /\ RowsReached(H, known, from)
                  /\ KeysFresh(H, known, from)

MInv ==
    /\ KInv /\ RowsType
    /\ RunFollowed /\ ContextsFrozen /\ CallsFit /\ StepsBound /\ CallsOwed /\ UsageMatchesRows
    /\ \E H \in Histories, known \in 0..Limit, from \in Nat : Follows(H, known, from)

-----------------------------------------------------------------------------
(* Numbers, sequences and histories.                                       *)

LEMMA LimitBounds ==
    Limit \in Nat \ {0} /\ Limit <= MaxIterations /\ Limit <= TokenLimit
  BY BudgetAssumption DEF Limit, LeastOf

LEMMA PrefixFacts ==
  ASSUME NEW H \in Histories, NEW n \in 0..Limit
  PROVE  /\ Prefix(H, n) \in Seq(KeyType) /\ Len(Prefix(H, n)) = n
         /\ \A j \in 1..n : Prefix(H, n)[j] = H[j]
  <1>1. n \in Nat /\ 1..n \subseteq 1..Limit
    BY LimitBounds
  <1>2. Prefix(H, n) \in [1..n -> KeyType]
    BY <1>1 DEF Prefix, Histories
  <1>3. Prefix(H, n) \in Seq(KeyType)
    BY <1>1, <1>2, SeqDef
  <1>4. DOMAIN Prefix(H, n) = 1..n /\ DOMAIN Prefix(H, n) = 1..Len(Prefix(H, n))
    BY <1>2, <1>3, LenProperties
  <1>5. Len(Prefix(H, n)) = n
    BY <1>1, <1>3, <1>4, LenProperties
  <1> QED
    BY <1>3, <1>5 DEF Prefix

LEMMA PrefixEmpty == \A H : Prefix(H, 0) = <<>>
  BY DEF Prefix

LEMMA PrefixAppend ==
  ASSUME NEW H \in Histories, NEW r \in 1..Limit
  PROVE  Append(Prefix(H, r - 1), H[r]) = Prefix(H, r)
  <1>1. /\ r - 1 \in 0..Limit /\ r \in 0..Limit /\ H[r] \in KeyType
    BY LimitBounds DEF Histories
  <1>2. /\ Prefix(H, r - 1) \in Seq(KeyType) /\ Len(Prefix(H, r - 1)) = r - 1
        /\ \A j \in 1..(r - 1) : Prefix(H, r - 1)[j] = H[j]
        /\ Prefix(H, r) \in Seq(KeyType) /\ Len(Prefix(H, r)) = r
        /\ \A j \in 1..r : Prefix(H, r)[j] = H[j]
    BY <1>1, PrefixFacts
  <1>3. /\ Append(Prefix(H, r - 1), H[r]) \in Seq(KeyType)
        /\ Len(Append(Prefix(H, r - 1), H[r])) = r
        /\ \A j \in 1..(r - 1) : Append(Prefix(H, r - 1), H[r])[j] = H[j]
        /\ Append(Prefix(H, r - 1), H[r])[r] = H[r]
    BY <1>1, <1>2, AppendProperties
  <1>4. \A j \in 1..r : Append(Prefix(H, r - 1), H[r])[j] = Prefix(H, r)[j]
    BY <1>1, <1>2, <1>3
  <1> QED
    BY <1>2, <1>3, <1>4, SeqEqual

\* Two histories that agree so far have the same prefixes.
LEMMA PrefixAgrees ==
  ASSUME NEW G, NEW H, NEW n \in Nat, NEW m \in 0..n, \A j \in 1..n : G[j] = H[j]
  PROVE  Prefix(G, m) = Prefix(H, m)
  BY DEF Prefix

\* What fits a history fits a longer one.
LEMMA WayAgrees ==
  ASSUME NEW G, NEW H, NEW cp, NEW known \in Nat, NEW later \in Nat, known <= later,
         \A j \in 1..known : G[j] = H[j], OnTheWay(cp, H, known)
  PROVE  OnTheWay(cp, G, later)
  <1>1. \A r \in 1..(known + 1) : Prefix(G, r - 1) = Prefix(H, r - 1) /\ r \in 1..(later + 1)
    BY PrefixAgrees
  <1>2. \A r \in 1..known : Prefix(G, r) = Prefix(H, r) /\ r \in 1..later
    BY PrefixAgrees
  <1> QED
    BY <1>1, <1>2 DEF OnTheWay, CpBefore, CpAfter

LEMMA FitsAgrees ==
  ASSUME NEW G, NEW H, NEW known \in Nat, NEW later \in Nat, known <= later,
         \A j \in 1..known : G[j] = H[j],
         NEW e, NEW n, NEW refs, NEW last, NEW next, NEW oneRound, last => next,
         Fits(e, n, H, known, refs, last, oneRound)
  PROVE  Fits(e, n, G, later, refs, next, oneRound)
  <1>1. PICK r \in 1..Limit :
        \/ n = 8 * r /\ e = StepStarted(r)
        \/ n = 8 * r + 1 /\ r <= known
              /\ e = ContextCreated(r, Snapshot(Prefix(H, r - 1), refs))
        \/ n = 8 * r + 2 /\ r <= known /\ e = CallStarted(H[r])
        \/ n = 8 * r + 3 /\ r <= known
              /\ (e = CallEnded(H[r], "completed") \/ (last /\ e = CallEnded(H[r], "failed")))
        \/ n = 8 * r + 4 /\ r <= known /\ e = StepCompleted(r)
        \/ n = 8 * r + 5 /\ r <= known /\ e.ev = "CHECKPOINT_SAVED" /\ e = Save(e.cp)
              /\ IF oneRound THEN e.cp.iteration = 1
                 ELSE \E state \in Finished : e.cp = CpAfter(H, r, state)
        \/ n = 8 * r + 6 /\ r <= known /\ ~ oneRound /\ e = ToolCompleted(r)
        \/ n = 8 * r + 7 /\ r <= known /\ ~ oneRound /\ e = Save(CpBefore(H, r + 1))
    BY DEF Fits
  <1>2. r <= known => /\ r <= later /\ G[r] = H[r]
                      /\ Prefix(G, r - 1) = Prefix(H, r - 1) /\ Prefix(G, r) = Prefix(H, r)
    BY LimitBounds, PrefixAgrees
  <1>3. r <= known => /\ \A state : CpAfter(G, r, state) = CpAfter(H, r, state)
                      /\ CpBefore(G, r + 1) = CpBefore(H, r + 1)
    BY <1>2, LimitBounds DEF CpAfter, CpBefore
  <1> QED
    BY <1>1, <1>2, <1>3 DEF Fits

-----------------------------------------------------------------------------
(* What MInv says of the properties.                                       *)

LEMMA UniqueCall ==
  ASSUME RowsType, CallsFit, NEW c \in DOMAIN calls
  PROVE  TheCall(calls[c].key) = c /\ CallWith(calls[c].key) = {c}
  <1>1. CallWith(calls[c].key) = {c}
    BY DEF CallWith, CallsFit
  <1> QED
    BY <1>1 DEF TheCall, CallWith

LEMMA AcceptedFromMInv ==
  ASSUME MInv
  PROVE  EventsAreAccepted
  <1> SUFFICES ASSUME ~ direct, worker.events # <<>>
               PROVE  ~ Refused(Head(worker.events))
    BY DEF EventsAreAccepted
  <1>1. PICK H \in Histories, known \in 0..Limit, from \in Nat : Follows(H, known, from)
    BY DEF MInv
  <1>2. Looping /\ RowsType /\ CallsFit /\ ContextsFrozen
          /\ \A i \in session.selection : usages[i].status \in OpenUsage
    BY DEF MInv, RunFollowed
  <1>3. /\ RowsFollow(H, known) /\ WorkerFollows(H, known, from)
        /\ RowsReached(H, known, from) /\ KeysFresh(H, known, from)
    BY <1>1, <1>2 DEF Follows
  <1> DEFINE last == 1 = Len(worker.events) /\ worker.pc = "finish"
  <1>4. PICK e : e = Head(worker.events)
    OBVIOUS
  <1>5. 1 \in 1..Len(worker.events) /\ e = worker.events[1]
    BY <1>2, <1>4, EmptySeq DEF RowsType
  <1>6. /\ Fits(e, from + 1, H, known, worker.refs, last, direct)
        /\ e.ev = "TOOL_CALL_COMPLETED" => tool[e.round].status # "none"
    BY <1>3, <1>5 DEF WorkerFollows
  <1> HIDE DEF last
  <1>7. PICK r \in 1..Limit :
        \/ from + 1 = 8 * r /\ e = StepStarted(r)
        \/ from + 1 = 8 * r + 1 /\ r <= known
              /\ e = ContextCreated(r, Snapshot(Prefix(H, r - 1), worker.refs))
        \/ from + 1 = 8 * r + 2 /\ r <= known /\ e = CallStarted(H[r])
        \/ from + 1 = 8 * r + 3 /\ r <= known
              /\ (e = CallEnded(H[r], "completed") \/ (last /\ e = CallEnded(H[r], "failed")))
        \/ from + 1 = 8 * r + 4 /\ r <= known /\ e = StepCompleted(r)
        \/ from + 1 = 8 * r + 5 /\ r <= known /\ e.ev = "CHECKPOINT_SAVED"
        \/ from + 1 = 8 * r + 6 /\ r <= known /\ ~ direct /\ e = ToolCompleted(r)
        \/ from + 1 = 8 * r + 7 /\ r <= known /\ ~ direct /\ e = Save(CpBefore(H, r + 1))
    BY <1>6 DEF Fits
  <1>8. r \in 1..MaxIterations /\ r \in Nat /\ worker.refs = session.selection
    BY <1>3, LimitBounds, BudgetAssumption DEF WorkerFollows
  <1>9. CASE from + 1 = 8 * r + 1 /\ r <= known
               /\ e = ContextCreated(r, Snapshot(Prefix(H, r - 1), worker.refs))
    <2>1. /\ e.ev = "CONTEXT_SNAPSHOT_CREATED" /\ e.version = r
          /\ e.content = Snapshot(Prefix(H, r - 1), session.selection)
          /\ e.content.refs = session.selection
      BY <1>8, <1>9 DEF ContextCreated, Snapshot
    <2>2. contexts[r].recorded => contexts[r] = e.content
      BY <1>3, <1>8, <2>1 DEF RowsFollow
    <2> QED
      BY <1>2, <1>4, <2>1, <2>2 DEF Refused, NewContext, Markable
  <1>10. CASE from + 1 = 8 * r + 2 /\ r <= known /\ e = CallStarted(H[r])
    <2>1. e.ev = "MODEL_CALL_STARTED" /\ e.key = H[r]
      BY <1>10 DEF CallStarted
    <2>2. from \in (8 * r + 1)..(8 * r + 4) /\ 8 * r + 2 > from /\ r \in 1..known
      BY <1>8, <1>10
    <2>3. session.context = r
      BY <1>3, <2>2 DEF RowsReached
    <2>4. CallWith(H[r]) = {} /\ (H[r].replay > 0 => CallWith(Key(r, 0)) # {}) /\ H[r].round = r
      BY <1>3, <2>2 DEF KeysFresh, RowsFollow
    <2>5. Markable(contexts[session.context].refs)
      BY <1>2, <1>8, <2>3 DEF Markable, ContextsFrozen
    <2> QED
      BY <1>4, <1>8, <2>1, <2>3, <2>4, <2>5 DEF Refused
  <1>11. CASE from + 1 = 8 * r + 3 /\ r <= known
               /\ (e = CallEnded(H[r], "completed") \/ (last /\ e = CallEnded(H[r], "failed")))
    <2>1. e.ev = "MODEL_CALL_ENDED" /\ e.key = H[r]
      BY <1>11 DEF CallEnded
    <2>2. from \in (8 * r + 2)..(8 * r + 4) /\ from = 8 * r + 2
      BY <1>8, <1>11
    <2>3. /\ session.call # 0 /\ calls[session.call].key = H[r]
          /\ calls[session.call].status = "streaming"
      BY <1>3, <2>2 DEF RowsReached
    <2>4. session.call \in DOMAIN calls
      BY <1>2, <2>3, LenProperties DEF RowsType, SessionType
    <2>5. CallWith(H[r]) = {session.call}
      BY <1>2, <2>3, <2>4, UniqueCall
    <2> QED
      BY <1>4, <2>1, <2>3, <2>5 DEF Refused
  <1>12. CASE from + 1 = 8 * r + 6 /\ r <= known /\ ~ direct /\ e = ToolCompleted(r)
    BY <1>4, <1>6, <1>12 DEF Refused, ToolCompleted
  <1>13. CASE e = StepStarted(r) \/ e = StepCompleted(r) \/ e.ev = "CHECKPOINT_SAVED"
              \/ e = Save(CpBefore(H, r + 1))
    BY <1>4, <1>13 DEF Refused, StepStarted, StepCompleted, Save
  <1> QED
    BY <1>7, <1>9, <1>10, <1>11, <1>12, <1>13

LEMMA RoundsFinite ==
  ASSUME RowsType
  PROVE  IsFiniteSet(DOMAIN calls)
  <1>1. Len(calls) \in Nat /\ DOMAIN calls = 1..Len(calls)
    BY LenProperties DEF RowsType
  <1> QED
    BY <1>1, FS_Interval

LEMMA BudgetFromMInv ==
  ASSUME MInv
  PROVE  CallBudgetHolds
  <1> SUFFICES ASSUME ~ direct
               PROVE  /\ Cardinality(Rounds) <= LeastOf(MaxIterations, TokenLimit)
                      /\ Len(calls) <= Cardinality(Rounds) + takeovers
                      /\ Cardinality({c \in DOMAIN calls : calls[c].status = "streaming"}) <= 1
    BY DEF CallBudgetHolds, Rounds
  <1>1. PICK H \in Histories, known \in 0..Limit, from \in Nat : Follows(H, known, from)
    BY DEF MInv
  <1>2. RowsType /\ CallsFit
    BY DEF MInv
  <1>3. Rounds \subseteq 1..Limit
    <2> SUFFICES ASSUME NEW c \in DOMAIN calls PROVE calls[c].key.round \in 1..Limit
      BY DEF Rounds
    <2>1. calls[c].context \in 1..MaxIterations
      <3>1. c \in 1..Len(calls) /\ calls[c] \in CallType
        BY <1>2, LenProperties, ElementOfSeq DEF RowsType
      <3> QED
        BY <3>1 DEF CallType
    <2> QED
      BY <1>1, <1>2, <2>1 DEF CallsFit, Follows, RowsFollow
  <1>4. IsFiniteSet(1..Limit) /\ Cardinality(1..Limit) = Limit
    BY LimitBounds, FS_Interval
  <1>5. Cardinality(Rounds) <= Limit
    BY <1>3, <1>4, FS_Subset
  <1>6. Cardinality({c \in DOMAIN calls : calls[c].status = "streaming"}) <= 1
    <2>1. {c \in DOMAIN calls : calls[c].status = "streaming"} \subseteq {session.call}
      BY <1>2 DEF CallsFit
    <2>2. IsFiniteSet({session.call}) /\ Cardinality({session.call}) = 1
      BY FS_Singleton
    <2> QED
      BY <2>1, <2>2, FS_Subset
  <1>7. Len(calls) <= Cardinality(Rounds) + takeovers
    <2>1. Len(calls) \in Nat /\ Cardinality(Rounds) \in Nat /\ takeovers \in Nat
      BY <1>2, <1>3, <1>4, FS_Subset, FS_CardinalityType, LenProperties DEF RowsType
    <2> QED
      BY <2>1 DEF MInv, CallsOwed, Charged
  <1> QED
    BY <1>5, <1>6, <1>7 DEF Limit

LEMMA ProvenanceFromMInv ==
  ASSUME MInv
  PROVE  ProvenanceIsExact
  <1> SUFFICES StepsNameTheirCall
    BY DEF MInv, ProvenanceIsExact
  <1>1. PICK H \in Histories, known \in 0..Limit, from \in Nat : Follows(H, known, from)
    BY DEF MInv
  <1>2. RowsType /\ CallsFit /\ StepsBound
    BY DEF MInv
  <1> SUFFICES ASSUME NEW r \in 1..MaxIterations, takeovers = 0, run = "running",
                      worker.events = <<>>, r < session.cp.iteration
               PROVE  tool[r].call = TheCall(session.cp.history[r])
    BY <1>2 DEF StepsNameTheirCall, StepsBound
  <1>3. Looping
    BY DEF MInv, RunFollowed
  <1>4. /\ RowsFollow(H, known) /\ WorkerFollows(H, known, from) /\ RowsReached(H, known, from)
        /\ Len(worker.events) = 0
    BY <1>1, <1>3 DEF Follows
  <1>5. ~ direct
    BY <1>4 DEF RowsFollow
  <1>6. OnTheWay(session.cp, H, known) /\ PlaceOf(session.cp) <= from + 1
    BY <1>4, <1>5 DEF RowsFollow, WorkerFollows, Top
  <1>7. /\ r <= known /\ r \in 1..Limit /\ session.cp.history[r] = H[r] /\ 8 * r + 6 <= from
    <2>1. CASE \E q \in 1..(known + 1) : session.cp = CpBefore(H, q)
      <3>1. PICK q \in 1..(known + 1) : session.cp = CpBefore(H, q)
        BY <2>1
      <3>2. q \in Nat /\ r < q /\ q - 1 \in 0..Limit /\ 8 * q <= from + 1
               /\ session.cp.history = Prefix(H, q - 1)
        <4>1. session.cp.iteration = q /\ session.cp.state = "reasoning"
                 /\ session.cp.history = Prefix(H, q - 1)
          BY <3>1 DEF CpBefore
        <4>2. q \in Nat /\ q - 1 \in 0..Limit
          BY LimitBounds
        <4> QED
          BY <1>6, <4>1, <4>2 DEF PlaceOf
      <3>3. r \in 1..(q - 1)
        BY <3>2
      <3>4. session.cp.history[r] = H[r]
        BY <3>2, <3>3, PrefixFacts
      <3> QED
        BY <3>2, <3>3, <3>4, LimitBounds
    <2>2. CASE \E q \in 1..known, state \in Finished : session.cp = CpAfter(H, q, state)
      <3>1. PICK q \in 1..known, state \in Finished : session.cp = CpAfter(H, q, state)
        BY <2>2
      <3>2. q \in Nat /\ r < q /\ q \in 0..Limit /\ 8 * q + 6 <= from + 1
               /\ session.cp.history = Prefix(H, q)
        <4>1. session.cp.iteration = q /\ session.cp.state # "reasoning"
                 /\ session.cp.history = Prefix(H, q)
          BY <3>1 DEF CpAfter, Finished
        <4>2. q \in Nat /\ q \in 0..Limit
          BY LimitBounds
        <4> QED
          BY <1>6, <4>1, <4>2 DEF PlaceOf
      <3>3. r \in 1..q
        BY <3>2
      <3>4. session.cp.history[r] = H[r]
        BY <3>2, <3>3, PrefixFacts
      <3> QED
        BY <3>2, <3>3, <3>4, LimitBounds
    <2> QED
      BY <1>6, <2>1, <2>2 DEF OnTheWay
  <1>8. tool[r].call # 0 /\ calls[tool[r].call].key = H[r]
    BY <1>4, <1>5, <1>7 DEF RowsReached
  <1>9. tool[r].call \in DOMAIN calls
    BY <1>2, <1>8, LenProperties DEF StepsBound, RowsType
  <1> QED
    BY <1>2, <1>7, <1>8, <1>9, UniqueCall

-----------------------------------------------------------------------------
(* The first state, and the steps that write no row.                       *)

LEMMA FirstCheckpoint ==
  ASSUME NEW H \in Histories, NEW known \in Nat
  PROVE  /\ NewCheckpoint \in Checkpoint /\ NewCheckpoint.iteration = 1
         /\ OnTheWay(NewCheckpoint, H, known) /\ PlaceOf(NewCheckpoint) = 8
  <1>1. NewCheckpoint = CpBefore(H, 1)
    BY PrefixEmpty DEF NewCheckpoint, CpBefore
  <1>2. NewCheckpoint \in Checkpoint /\ NewCheckpoint.iteration = 1 /\ NewCheckpoint.state = "reasoning"
    BY EmptySeq DEF NewCheckpoint, Checkpoint, Finished
  <1>3. 1 \in 1..(known + 1)
    OBVIOUS
  <1> QED
    BY <1>1, <1>2, <1>3 DEF OnTheWay, PlaceOf

LEMMA SomeHistory == \E H \in Histories : \A r \in 1..Limit : H[r].round = r
  <1> DEFINE H == [r \in 1..Limit |-> Key(r, 0)]
  <1>1. \A r \in 1..Limit : Key(r, 0) \in KeyType /\ Key(r, 0).round = r
    BY DEF Key, KeyType
  <1>2. H \in Histories /\ \A r \in 1..Limit : H[r] = Key(r, 0)
    BY <1>1 DEF Histories
  <1> HIDE DEF H
  <1> QED
    BY <1>1, <1>2

LEMMA RoundsType ==
  ASSUME RowsType
  PROVE  IsFiniteSet(Rounds) /\ Cardinality(Rounds) \in Nat /\ Len(calls) \in Nat
            /\ DOMAIN calls = 1..Len(calls) /\ \A c \in DOMAIN calls : calls[c] \in CallType
  <1>1. /\ Len(calls) \in Nat /\ DOMAIN calls = 1..Len(calls)
        /\ \A c \in DOMAIN calls : calls[c] \in CallType
    BY LenProperties, ElementOfSeq DEF RowsType
  <1> DEFINE f == [c \in DOMAIN calls |-> calls[c].key.round]
  <1>2. f \in Surjection(DOMAIN calls, Rounds)
    BY DEF Surjection, Rounds
  <1>3. IsFiniteSet(DOMAIN calls)
    BY <1>1, FS_Interval
  <1> QED
    BY <1>1, <1>2, <1>3, FS_Surjection, FS_CardinalityType

LEMMA IdleQuiet ==
    Idle.pc = "off" /\ Idle.events = <<>> /\ Idle.cp = NewCheckpoint /\ Idle.keys = {}
  BY DEF Idle

LEMMA InitMInv == Init => MInv
  <1> SUFFICES ASSUME Init PROVE MInv
    OBVIOUS
  <1>1. PICK H \in Histories : \A r \in 1..Limit : H[r].round = r
    BY SomeHistory
  <1>2. NewCheckpoint \in Checkpoint /\ NewCheckpoint.iteration = 1
           /\ OnTheWay(NewCheckpoint, H, 0) /\ PlaceOf(NewCheckpoint) = 8
    BY FirstCheckpoint
  <1>3. /\ NoSession \in SessionType /\ NoSession.call = 0 /\ NoSession.context = 0
        /\ NoSession.cp = NewCheckpoint
    BY <1>2, BudgetAssumption DEF NoSession, SessionType
  <1>4. /\ NoContext \in ContextType /\ NoContext.refs = {} /\ ~ NoContext.recorded
        /\ NoStep \in StepType /\ NoStep.status = "none" /\ NoStep.call = 0
    BY EmptySeq DEF NoContext, ContextType, NoStep, StepType
  <1>5. /\ calls = <<>> /\ DOMAIN calls = {} /\ Len(calls) = 0
        /\ \A S : <<>> \in Seq(S)
    <2>1. calls = <<>>
      BY DEF Init
    <2>2. \A S : <<>> \in Seq(S)
      BY EmptySeq
    <2>3. calls \in Seq(CallType) /\ Len(calls) = 0
      BY <2>1, <2>2, EmptySeq
    <2>4. DOMAIN calls = 1..Len(calls)
      BY <2>3, LenProperties
    <2> QED
      BY <2>1, <2>2, <2>3, <2>4
  <1>6. worker.events = <<>> /\ worker.cp = NewCheckpoint /\ worker.pc = "off" /\ ~ Looping /\ ~ Suspending
    BY IdleQuiet DEF Init, Looping, Suspending
  <1>7. RowsType
    <2>1. session = NoSession /\ calls = <<>> /\ takeovers = 0 /\ direct \in BOOLEAN
             /\ contexts = [v \in 1..MaxIterations |-> NoContext]
             /\ reasoning = [r \in 1..MaxIterations |-> NoStep]
             /\ tool = [r \in 1..MaxIterations |-> NoStep]
      BY DEF Init
    <2> QED
      BY <1>2, <1>3, <1>4, <1>5, <1>6, <2>1 DEF RowsType
  <1>8. RunFollowed
    BY <1>5, <1>6 DEF Init, RunFollowed
  <1>9. ContextsFrozen /\ CallsFit /\ StepsBound
    <2>1. ContextsFrozen
      BY <1>3, <1>4 DEF Init, ContextsFrozen
    <2>2. CallsFit
      BY <1>5 DEF CallsFit
    <2>3. StepsBound
      <3>1. \A r \in 1..MaxIterations : reasoning[r] = NoStep /\ tool[r] = NoStep
        BY DEF Init
      <3> QED
        BY <1>4, <1>5, <3>1 DEF StepsBound
    <2> QED
      BY <2>1, <2>2, <2>3
  <1>10. CallsOwed
    <2>1. Rounds = {}
      BY <1>5 DEF Rounds
    <2>2. Cardinality(Rounds) = 0
      BY <2>1, FS_EmptySet
    <2>3. takeovers = 0 /\ run = "pending"
      BY DEF Init
    <2> QED
      BY <1>5, <1>6, <2>2, <2>3 DEF CallsOwed, Charged
  <1>11. UsageMatchesRows
    <2> SUFFICES ASSUME NEW i \in Items
                 PROVE  /\ usages[i].contexts = Cardinality({v \in DOMAIN contexts : i \in contexts[v].refs})
                        /\ usages[i].calls =
                              Cardinality({c \in DOMAIN calls : i \in contexts[calls[c].context].refs})
      BY DEF UsageMatchesRows
    <2>1. usages[i].contexts = 0 /\ usages[i].calls = 0
      BY DEF Init, NoUsage
    <2>2. {v \in DOMAIN contexts : i \in contexts[v].refs} = {}
      BY <1>4 DEF Init
    <2>3. {c \in DOMAIN calls : i \in contexts[calls[c].context].refs} = {}
      BY <1>5
    <2> QED
      BY <2>1, <2>2, <2>3, FS_EmptySet
  <1>12. Follows(H, 0, 0)
    <2>1. session.cp = NewCheckpoint /\ \A v \in 1..MaxIterations : ~ contexts[v].recorded
      BY <1>3, <1>4 DEF Init
    <2>2. RowsFollow(H, 0)
      BY <1>2, <2>1 DEF RowsFollow
    <2> QED
      BY <1>6, <2>2 DEF Follows
  <1>13. 0 \in 0..Limit /\ 0 \in Nat
    BY LimitBounds
  <1>14. \E G \in Histories, known \in 0..Limit, from \in Nat : Follows(G, known, from)
    BY <1>12, <1>13
  <1> QED
    BY <1>7, <1>8, <1>9, <1>10, <1>11, <1>14, InitKInv DEF MInv

\* A step that writes no row, whatever it does to the checkpoint.
LEMMA RowsSame ==
  ASSUME ContextsFrozen, CallsFit, StepsBound, UsageMatchesRows,
         UNCHANGED <<direct, contexts, calls, reasoning, tool>>,
         \A i \in Items : usages'[i].contexts = usages[i].contexts /\ usages'[i].calls = usages[i].calls,
         session'.context = session.context, session'.call = session.call,
         session'.selection = session.selection
  PROVE  ContextsFrozen' /\ CallsFit' /\ StepsBound' /\ UsageMatchesRows'
  <1>1. ContextsFrozen'
    BY DEF ContextsFrozen
  <1>2. CallsFit'
    BY DEF CallsFit
  <1>3. StepsBound'
    BY DEF StepsBound
  <1>4. UsageMatchesRows'
    BY DEF UsageMatchesRows
  <1> QED
    BY <1>1, <1>2, <1>3, <1>4

\* The worker stops, or none has begun; the rows stay.
LEMMA WorkerStops ==
  ASSUME MInv, KInv', UNCHANGED <<direct, session, usages, contexts, calls, reasoning, tool>>,
         takeovers' \in Nat, takeovers <= takeovers',
         worker'.pc \in {"off", "preparing"}, worker'.events = <<>>, worker'.cp = NewCheckpoint,
         worker'.keys = {},
         run' = "pending" => run = "pending",
         run' = "running" =>
            run = "running" /\ takeovers' > 0 /\ (Looping => takeovers < takeovers')
  PROVE  MInv'
  <1> USE DEF MInv
  <1>0. NewCheckpoint \in Checkpoint
    BY SomeHistory, FirstCheckpoint
  <1>1. RowsType'
    BY <1>0, EmptySeq DEF RowsType
  <1>2. ~ Looping' /\ ~ Suspending'
    BY DEF Looping, Suspending
  <1>3. RunFollowed'
    BY <1>2 DEF RunFollowed
  <1>4. ContextsFrozen' /\ CallsFit' /\ StepsBound' /\ UsageMatchesRows'
    BY RowsSame
  <1>5. CallsOwed'
    <2>1. Rounds' = Rounds /\ Cardinality(Rounds) \in Nat /\ Len(calls) \in Nat /\ takeovers \in Nat
      BY RoundsType DEF Rounds, RowsType
    <2>2. Charged <= takeovers /\ Charged \in Int /\ Charged' = takeovers'
      BY <1>2, <2>1 DEF Charged
    <2>3. ~ Looping => Charged = takeovers
      BY DEF Looping, Charged, Suspending
    <2> QED
      BY <1>2, <2>1, <2>2, <2>3 DEF CallsOwed
  <1>6. ASSUME NEW H \in Histories, NEW known \in 0..Limit, NEW from \in Nat, Follows(H, known, from)
        PROVE  Follows(H, known, from)'
    BY <1>2, <1>6 DEF Follows, RowsFollow
  <1> QED
    BY <1>1, <1>3, <1>4, <1>5, <1>6

LEMMA OperatorMInv ==
  ASSUME MInv, KInv', UNCHANGED <<direct, session, rows, worker, takeovers>>,
         run' = run \/ run' \in TerminalStatus
  PROVE  MInv'
  <1> USE DEF MInv, rows
  <1>1. RowsType'
    BY DEF RowsType
  <1>2. Looping' = Looping /\ Suspending' = Suspending /\ Charged' = Charged /\ Rounds' = Rounds
    BY DEF Looping, Suspending, Charged, Rounds
  <1>3. RunFollowed' /\ CallsOwed'
    BY <1>2 DEF RunFollowed, CallsOwed
  <1>4. ContextsFrozen' /\ CallsFit' /\ StepsBound' /\ UsageMatchesRows'
    BY RowsSame
  <1>5. ASSUME NEW H \in Histories, NEW known \in 0..Limit, NEW from \in Nat, Follows(H, known, from)
        PROVE  Follows(H, known, from)'
    <2>1. RowsFollow(H, known)'
      BY <1>5 DEF Follows, RowsFollow
    <2>2. Looping => WorkerFollows(H, known, from)'
      BY <1>2, <1>5 DEF Follows, WorkerFollows, Top
    <2>3. Looping => RowsReached(H, known, from)'
      BY <1>2, <1>5 DEF Follows, RowsReached
    <2>4. Looping => KeysFresh(H, known, from)'
      BY <1>5 DEF Follows, KeysFresh, CallWith
    <2> QED
      BY <1>2, <2>1, <2>2, <2>3, <2>4 DEF Follows
  <1> QED
    BY <1>1, <1>3, <1>4, <1>5

LEMMA CloseMInv ==
  ASSUME MInv, KInv', NEW outcome \in {"completed", "failed", "cancelled", "timed_out"}, Close(outcome)
  PROVE  MInv'
  <1> USE DEF MInv
  <1>0. /\ worker' = Idle /\ UNCHANGED <<direct, session, contexts, calls, reasoning, tool, takeovers>>
        /\ run' = outcome /\ usages' = Finalized(outcome)
    BY DEF Close
  <1>1. NewCheckpoint \in Checkpoint
    BY SomeHistory, FirstCheckpoint
  <1>2. RowsType'
    BY <1>0, <1>1, IdleQuiet, EmptySeq DEF RowsType
  <1>3. ~ Looping' /\ ~ Suspending'
    BY <1>0, IdleQuiet DEF Looping, Suspending
  <1>4. RunFollowed'
    BY <1>0, <1>3, IdleQuiet DEF RunFollowed
  <1>5. ContextsFrozen' /\ CallsFit' /\ StepsBound'
    BY <1>0 DEF ContextsFrozen, CallsFit, StepsBound
  <1>6. CallsOwed'
    <2>1. Rounds' = Rounds /\ Cardinality(Rounds) \in Nat /\ Len(calls) \in Nat /\ takeovers \in Nat
      BY <1>0, RoundsType DEF Rounds, RowsType
    <2>2. Charged <= Charged' /\ Charged \in Int /\ Charged' \in Int
      BY <1>0, <1>3, <2>1 DEF Charged
    <2> QED
      BY <1>0, <1>3, <2>1, <2>2 DEF CallsOwed
  <1>7. UsageMatchesRows'
    <2>1. \A i \in Items : usages'[i].contexts = usages[i].contexts /\ usages'[i].calls = usages[i].calls
      BY <1>0 DEF Finalized, KInv, UsageType, Usage
    <2> QED
      BY <1>0, <2>1 DEF UsageMatchesRows
  <1>8. ASSUME NEW H \in Histories, NEW known \in 0..Limit, NEW from \in Nat, Follows(H, known, from)
        PROVE  Follows(H, known, from)'
    BY <1>0, <1>3, <1>8 DEF Follows, RowsFollow
  <1> QED
    BY <1>2, <1>4, <1>5, <1>6, <1>7, <1>8

LEMMA SuspendMInv ==
  ASSUME MInv, KInv', SuspendClaim
  PROVE  MInv'
  <1> USE DEF MInv
  <1>0. /\ worker' = Idle /\ UNCHANGED <<direct, contexts, calls, reasoning, tool, usages, takeovers, run>>
        /\ session' = [session EXCEPT !.cp = worker.cp]
        /\ worker.events = <<>> /\ Suspending /\ Looping /\ run = "running"
    BY DEF SuspendClaim, LoopAt, rows, Suspending, Looping
  <1>1. NewCheckpoint \in Checkpoint
    BY SomeHistory, FirstCheckpoint
  <1>s. /\ session' \in SessionType /\ session'.context = session.context /\ session'.call = session.call
        /\ session'.selection = session.selection /\ session'.cp = worker.cp
    BY <1>0 DEF RowsType, SessionType
  <1>2. RowsType'
    BY <1>0, <1>1, <1>s, IdleQuiet, EmptySeq DEF RowsType
  <1>3. ~ Looping' /\ ~ Suspending'
    BY <1>0, IdleQuiet DEF Looping, Suspending
  <1>4. RunFollowed'
    BY <1>0, <1>3, <1>s, IdleQuiet DEF RunFollowed, RowsType
  <1>5. ContextsFrozen' /\ CallsFit' /\ StepsBound' /\ UsageMatchesRows'
    BY <1>0, <1>s, RowsSame
  <1>6. CallsOwed'
    <2>1. Rounds' = Rounds /\ Cardinality(Rounds) \in Nat /\ Len(calls) \in Nat /\ takeovers \in Nat
      BY <1>0, RoundsType DEF Rounds, RowsType
    <2>2. Charged' = Charged + 1 /\ Charged \in Int
      BY <1>0, <1>3, <2>1 DEF Charged
    <2> QED
      BY <1>0, <1>3, <2>1, <2>2 DEF CallsOwed
  <1>7. ASSUME NEW H \in Histories, NEW known \in 0..Limit, NEW from \in Nat, Follows(H, known, from)
        PROVE  Follows(H, known, from)'
    <2>1. RowsFollow(H, known) /\ WorkerFollows(H, known, from) /\ RowsReached(H, known, from)
      BY <1>0, <1>7 DEF Follows
    <2>2. ~ direct
      BY <1>0 DEF RunFollowed
    <2>3. OnTheWay(worker.cp, H, known) /\ PlaceOf(worker.cp) = from + 1
      BY <1>0, <2>1, <2>2 DEF WorkerFollows, Top
    <2>4. RowsFollow(H, known)'
      BY <1>0, <1>s, <2>1, <2>2, <2>3 DEF RowsFollow, RowsReached
    <2> QED
      BY <1>3, <2>4 DEF Follows
  <1> QED
    BY <1>2, <1>4, <1>5, <1>6, <1>7

LEMMA QuietMInv ==
  ASSUME MInv, KInv',
         \/ Recall \/ PrepareRaises \/ RecoverRaises \/ OperatorCloses \/ ClaimLost \/ Crash
         \/ Publish \/ UNCHANGED vars
  PROVE  MInv'
  <1>1. takeovers \in Nat
    BY DEF MInv, RowsType
  <1>2. CASE PrepareRaises \/ ClaimLost \/ Crash
    <2>1. worker' = Idle /\ UNCHANGED <<direct, session, usages, contexts, calls, reasoning, tool>>
      BY <1>2 DEF PrepareRaises, ClaimLost, Crash, rows
    <2>2. /\ takeovers' \in Nat /\ takeovers <= takeovers'
          /\ run' = "pending" => run = "pending"
          /\ run' = "running" =>
                run = "running" /\ takeovers' > 0 /\ (Looping => takeovers < takeovers')
      BY <1>1, <1>2 DEF PrepareRaises, ClaimLost, Crash
    <2> QED
      BY <2>1, <2>2, IdleQuiet, WorkerStops
  <1>3. CASE Recall
    <2>1. \E above, chosen :
             worker' = [Idle EXCEPT !.pc = "preparing", !.above = {above}, !.refs = chosen]
      BY <1>3 DEF Recall
    <2>2. /\ worker'.pc = "preparing" /\ worker'.events = <<>> /\ worker'.cp = NewCheckpoint
          /\ worker'.keys = {}
      BY <2>1, IdleQuiet DEF Idle
    <2>3. /\ UNCHANGED <<direct, session, usages, contexts, calls, reasoning, tool>>
          /\ run' = "pending" /\ run = "pending" /\ takeovers' = takeovers
      BY <1>3 DEF Recall, rows
    <2> QED
      BY <1>1, <2>2, <2>3, WorkerStops
  <1>4. CASE RecoverRaises \/ OperatorCloses \/ Publish \/ UNCHANGED vars
    <2>1. UNCHANGED <<direct, session, rows, worker, takeovers>>
      BY <1>4 DEF RecoverRaises, OperatorCloses, Publish, vars
    <2>2. run' = run \/ run' \in TerminalStatus
      BY <1>4 DEF RecoverRaises, OperatorCloses, Publish, vars
    <2> QED
      BY <2>1, <2>2, OperatorMInv
  <1> QED
    BY <1>2, <1>3, <1>4

\* The two kinds of checkpoints on the way.
LEMMA WayCases ==
  ASSUME NEW H \in Histories, NEW known \in 0..Limit, NEW cp, OnTheWay(cp, H, known)
  PROVE  \E r \in Nat \ {0} :
            \/ /\ r <= known + 1 /\ cp = CpBefore(H, r) /\ cp.state = "reasoning"
               /\ cp.iteration = r /\ cp.context = r - 1 /\ cp.usage = r - 1
               /\ cp.history = Prefix(H, r - 1) /\ PlaceOf(cp) = 8 * r
            \/ /\ r <= known /\ cp.state \in Finished /\ cp = CpAfter(H, r, cp.state)
               /\ cp.iteration = r /\ cp.context = r /\ cp.usage = r
               /\ cp.history = Prefix(H, r) /\ PlaceOf(cp) = 8 * r + 6
  <1>0. known \in Nat
    BY LimitBounds
  <1>1. CASE \E r \in 1..(known + 1) : cp = CpBefore(H, r)
    <2>1. PICK r \in 1..(known + 1) : cp = CpBefore(H, r)
      BY <1>1
    <2>2. r \in Nat \ {0} /\ r <= known + 1
      BY <1>0
    <2>3. /\ cp.state = "reasoning" /\ cp.iteration = r /\ cp.context = r - 1 /\ cp.usage = r - 1
          /\ cp.history = Prefix(H, r - 1)
      BY <2>1 DEF CpBefore
    <2> QED
      BY <2>1, <2>2, <2>3 DEF PlaceOf
  <1>2. CASE \E r \in 1..known, state \in Finished : cp = CpAfter(H, r, state)
    <2>1. PICK r \in 1..known, state \in Finished : cp = CpAfter(H, r, state)
      BY <1>2
    <2>2. r \in Nat \ {0} /\ r <= known
      BY <1>0
    <2>3. /\ cp.state = state /\ cp.iteration = r /\ cp.context = r /\ cp.usage = r
          /\ cp.history = Prefix(H, r)
      BY <2>1 DEF CpAfter
    <2>4. cp.state # "reasoning"
      BY <2>3 DEF Finished
    <2> QED
      BY <2>1, <2>2, <2>3, <2>4 DEF PlaceOf
  <1> QED
    BY <1>1, <1>2 DEF OnTheWay

-----------------------------------------------------------------------------
(* A worker begins.                                                        *)

\* The first worker: no row is written yet.
LEMMA PrepareMInv ==
  ASSUME MInv, KInv', Prepare
  PROVE  MInv'
  <1> USE DEF MInv
  <1>0. /\ run = "pending" /\ run' = "running" /\ worker.refs \subseteq Items
        /\ \A i \in Items : usages[i] = NoUsage
    BY DEF Prepare, KInv, RecallPending, PendingIsFresh
  <1>1. /\ session' = [NoSession EXCEPT !.ready = TRUE, !.selection = worker.refs]
        /\ usages' = EnsuredUsages
        /\ UNCHANGED <<direct, contexts, calls, reasoning, tool, takeovers>>
    BY DEF Prepare
  <1>2. /\ worker.events = <<>> /\ worker.cp = NewCheckpoint /\ worker.keys = {}
        /\ calls = <<>> /\ \A v \in 1..MaxIterations : contexts[v] = NoContext
    BY <1>0 DEF Prepare, RunFollowed, Looping
  <1>3. /\ worker'.pc = "loop" /\ worker'.events = <<>> /\ worker'.cp = NewCheckpoint
        /\ worker'.keys = {} /\ worker'.refs = worker.refs
    BY <1>2 DEF Prepare, KInv, WorkerShape
  <1>4. Len(calls) = 0 /\ DOMAIN calls = {} /\ Len(worker'.events) = 0
    BY <1>2, <1>3, EmptySeq, LenProperties DEF RowsType
  <1>5. /\ session'.context = 0 /\ session'.call = 0 /\ session'.cp = NewCheckpoint
        /\ session'.selection = worker.refs /\ session' \in SessionType
        /\ NewCheckpoint \in Checkpoint
    <2>1. NewCheckpoint \in Checkpoint /\ 0 \in 0..MaxIterations
      BY SomeHistory, FirstCheckpoint, BudgetAssumption
    <2> QED
      BY <1>0, <1>1, <2>1 DEF NoSession, SessionType
  <1>6. Looping' /\ ~ Suspending'
    BY <1>3 DEF Looping, Suspending
  <1>7. RowsType'
    BY <1>1, <1>3, <1>4, <1>5, EmptySeq DEF RowsType
  <1>8. \A i \in Items : /\ usages'[i].contexts = 0 /\ usages'[i].calls = 0
                         /\ i \in worker.refs => usages'[i].status = "selected"
    BY <1>0, <1>1 DEF EnsuredUsages, NoUsage
  <1>9. RunFollowed'
    BY <1>0, <1>3, <1>5, <1>6, <1>8 DEF RunFollowed
  <1>10. NoContext.refs = {} /\ ~ NoContext.recorded
    BY DEF NoContext
  <1>11. ContextsFrozen' /\ CallsFit' /\ StepsBound'
    <2>1. ContextsFrozen'
      BY <1>1, <1>2, <1>5, <1>10 DEF ContextsFrozen
    <2>2. CallsFit'
      BY <1>1, <1>4 DEF CallsFit
    <2>3. StepsBound'
      BY <1>1 DEF StepsBound
    <2> QED
      BY <2>1, <2>2, <2>3
  <1>12. CallsOwed'
    <2>1. Rounds' = {}
      BY <1>1, <1>4 DEF Rounds
    <2>2. Cardinality(Rounds') = 0
      BY <2>1, FS_EmptySet
    <2>3. takeovers \in Nat /\ Charged' = takeovers
      BY <1>1, <1>6 DEF Charged, RowsType
    <2> QED
      BY <1>1, <1>4, <1>6, <2>2, <2>3 DEF CallsOwed
  <1>13. UsageMatchesRows'
    <2> SUFFICES ASSUME NEW i \in Items
                 PROVE  /\ usages'[i].contexts = Cardinality({v \in DOMAIN contexts' : i \in contexts'[v].refs})
                        /\ usages'[i].calls =
                              Cardinality({c \in DOMAIN calls' : i \in contexts'[calls'[c].context].refs})
      BY DEF UsageMatchesRows
    <2>1. {v \in DOMAIN contexts' : i \in contexts'[v].refs} = {}
      BY <1>1, <1>2, <1>10 DEF RowsType
    <2>2. {c \in DOMAIN calls' : i \in contexts'[calls'[c].context].refs} = {}
      BY <1>1, <1>4
    <2> QED
      BY <1>8, <2>1, <2>2, FS_EmptySet
  <1>14. PICK H \in Histories : \A r \in 1..Limit : H[r].round = r
    BY SomeHistory
  <1>15. /\ OnTheWay(NewCheckpoint, H, 0) /\ PlaceOf(NewCheckpoint) = 8
         /\ NewCheckpoint.iteration = 1 /\ NewCheckpoint.context = 0
    BY FirstCheckpoint DEF NewCheckpoint
  <1>16. Limit \in Nat
    BY LimitBounds
  <1>17. RowsFollow(H, 0)'
    BY <1>1, <1>2, <1>5, <1>10, <1>15 DEF RowsFollow
  <1>18. WorkerFollows(H, 0, 7)'
    BY <1>3, <1>4, <1>5, <1>6, <1>15, <1>16 DEF WorkerFollows, Top
  <1>19. RowsReached(H, 0, 7)'
    BY <1>1, <1>2, <1>4, <1>10, <1>16 DEF RowsReached
  <1>20. KeysFresh(H, 0, 7)'
    BY <1>1, <1>3, <1>4, FS_EmptySet DEF KeysFresh
  <1>21. 0 \in 0..Limit /\ 7 \in Nat /\ Follows(H, 0, 7)'
    BY <1>16, <1>17, <1>18, <1>19, <1>20 DEF Follows
  <1>22. (\E G \in Histories, known \in 0..Limit, from \in Nat : Follows(G, known, from))'
    BY <1>21
  <1> QED
    BY <1>7, <1>9, <1>11, <1>12, <1>13, <1>22

LEMMA InterruptedCalls ==
  ASSUME RowsType
  PROVE  /\ Interrupted \in Seq(CallType) /\ Len(Interrupted) = Len(calls)
         /\ DOMAIN Interrupted = DOMAIN calls
         /\ \A c \in DOMAIN calls :
               /\ Interrupted[c].key = calls[c].key /\ Interrupted[c].context = calls[c].context
               /\ Interrupted[c].status # "streaming"
               /\ calls[c].status = "completed" => Interrupted[c].status = "completed"
  <1>1. /\ Len(calls) \in Nat /\ DOMAIN calls = 1..Len(calls)
        /\ \A c \in DOMAIN calls : calls[c] \in CallType
    BY RoundsType
  <1>2. \A c \in DOMAIN calls : Interrupted[c] \in CallType
               /\ Interrupted[c].key = calls[c].key /\ Interrupted[c].context = calls[c].context
               /\ Interrupted[c].status # "streaming"
               /\ (calls[c].status = "completed" => Interrupted[c].status = "completed")
    BY <1>1 DEF Interrupted, CallType
  <1>3. Interrupted \in [1..Len(calls) -> CallType]
    BY <1>1, <1>2 DEF Interrupted
  <1>4. Interrupted \in Seq(CallType)
    BY <1>1, <1>3, SeqDef
  <1>5. Len(Interrupted) = Len(calls)
    BY <1>1, <1>3, <1>4, LenProperties
  <1> QED
    BY <1>1, <1>2, <1>3, <1>4, <1>5

LEMMA RecoverMInv ==
  ASSUME MInv, KInv', Recover
  PROVE  MInv'
  <1> USE DEF MInv
  <1>0. /\ run = "running" /\ worker.pc = "off" /\ calls' = Interrupted
        /\ UNCHANGED <<direct, session, usages, contexts, reasoning, tool, run, takeovers>>
    BY DEF Recover
  <1>1. /\ worker'.pc = "loop" /\ worker'.cp = session.cp /\ worker'.refs = session.selection
        /\ worker'.keys = {calls[c].key : c \in DOMAIN calls} /\ worker'.events = <<>>
    BY DEF Recover, Idle
  <1>2. ~ Looping /\ ~ Suspending /\ Looping' /\ ~ Suspending' /\ takeovers # 0 /\ Charged' = Charged
    BY <1>0, <1>1 DEF Looping, Suspending, RunFollowed, Charged
  <1>3. /\ calls' \in Seq(CallType) /\ Len(calls') = Len(calls) /\ DOMAIN calls' = DOMAIN calls
        /\ \A c \in DOMAIN calls :
               /\ calls'[c].key = calls[c].key /\ calls'[c].context = calls[c].context
               /\ calls'[c].status # "streaming"
               /\ calls[c].status = "completed" => calls'[c].status = "completed"
    BY <1>0, InterruptedCalls
  <1>4. Len(worker'.events) = 0 /\ session.cp \in Checkpoint
    BY <1>1, EmptySeq DEF RowsType, SessionType
  <1>5. RowsType'
    BY <1>0, <1>1, <1>3, <1>4, EmptySeq DEF RowsType
  <1>6. RunFollowed'
    BY <1>0, <1>1, <1>2 DEF RunFollowed
  <1>7. ContextsFrozen' /\ CallsFit' /\ StepsBound'
    <2>1. ContextsFrozen'
      BY <1>0 DEF ContextsFrozen
    <2>2. CallsFit'
      BY <1>0, <1>3 DEF CallsFit
    <2>3. StepsBound'
      <3>1. \A r \in 1..MaxIterations : tool[r].call # 0 => tool[r].call \in DOMAIN calls
        BY RoundsType DEF StepsBound
      <3> QED
        BY <1>0, <1>3, <3>1 DEF StepsBound
    <2> QED
      BY <2>1, <2>2, <2>3
  <1>8. Rounds' = Rounds
    BY <1>3 DEF Rounds
  <1>9. CallsOwed'
    BY <1>0, <1>2, <1>3, <1>8 DEF CallsOwed
  <1>10. UsageMatchesRows'
    <2>1. \A i \in Items : {c \in DOMAIN calls' : i \in contexts'[calls'[c].context].refs}
                         = {c \in DOMAIN calls : i \in contexts[calls[c].context].refs}
      BY <1>0, <1>3
    <2> QED
      BY <1>0, <2>1 DEF UsageMatchesRows
  <1>11. PICK H \in Histories, known \in 0..Limit, from \in Nat : Follows(H, known, from)
    OBVIOUS
  <1>12. RowsFollow(H, known) /\ Limit \in Nat
    BY <1>11, LimitBounds DEF Follows
  <1>13. CASE direct
    <2>1. session.cp.iteration = 1
      BY <1>12, <1>13 DEF RowsFollow
    <2>2. RowsFollow(H, 0)'
      BY <1>0, <1>13, <2>1 DEF RowsFollow
    <2>3. WorkerFollows(H, 0, 7)'
      BY <1>0, <1>1, <1>2, <1>4, <1>13, <2>1 DEF WorkerFollows
    <2>4. RowsReached(H, 0, 7)'
      BY <1>0, <1>2, <1>3, <1>12, <1>13 DEF RowsReached
    <2>5. KeysFresh(H, 0, 7)'
      BY <1>0, <1>13 DEF KeysFresh
    <2>6. 0 \in 0..Limit /\ 7 \in Nat /\ Follows(H, 0, 7)'
      BY <1>12, <2>2, <2>3, <2>4, <2>5 DEF Follows
    <2>7. (\E G \in Histories, n \in 0..Limit, place \in Nat : Follows(G, n, place))'
      BY <2>6
    <2> QED
      BY <1>5, <1>6, <1>7, <1>9, <1>10, <2>7
  <1>14. CASE ~ direct
    <2>1. OnTheWay(session.cp, H, known)
      BY <1>12, <1>14 DEF RowsFollow
    <2>2. PICK r \in Nat \ {0} :
            \/ /\ r <= known + 1 /\ session.cp = CpBefore(H, r)
               /\ session.cp.context = r - 1 /\ PlaceOf(session.cp) = 8 * r
            \/ /\ r <= known /\ session.cp.state \in Finished
               /\ session.cp = CpAfter(H, r, session.cp.state)
               /\ session.cp.context = r /\ PlaceOf(session.cp) = 8 * r + 6
      BY <2>1, WayCases
    <2>3. PICK n, place : n = session.cp.context /\ place = PlaceOf(session.cp) - 1
      OBVIOUS
    <2>4. /\ n \in 0..known /\ n \in 0..Limit /\ place \in Nat /\ PlaceOf(session.cp) = place + 1
          /\ \/ n = r - 1 /\ place = 8 * r - 1
             \/ n = r /\ place = 8 * r + 5
      BY <1>12, <2>2, <2>3
    <2>5. OnTheWay(session.cp, H, n)
      BY <2>2, <2>4 DEF OnTheWay
    <2>6. RowsFollow(H, n)'
      <3>1. \A q \in 1..n : H[q].round = q
        BY <1>12, <2>4 DEF RowsFollow
      <3>2. \A v \in 1..MaxIterations : contexts[v].recorded => v - 1 <= n
        <4> SUFFICES ASSUME NEW v \in 1..MaxIterations, contexts[v].recorded PROVE v - 1 <= n
          OBVIOUS
        <4>1. 8 * v <= place + 1 /\ v \in Nat
          BY <1>12, <1>14, <2>4, BudgetAssumption DEF RowsFollow
        <4> QED
          BY <2>4, <4>1
      <3> QED
        BY <1>0, <1>12, <1>14, <2>5, <3>1, <3>2 DEF RowsFollow
    <2>7. WorkerFollows(H, n, place)'
      <3>1. Top(place)' = place + 1
        BY <1>4, <2>4 DEF Top
      <3> QED
        BY <1>0, <1>1, <1>2, <1>4, <1>14, <2>3, <2>4, <2>5, <3>1 DEF WorkerFollows
    <2>8. RowsReached(H, n, place)'
      <3>1. \A v \in 1..MaxIterations : contexts[v].recorded => 8 * v <= place + 1
        BY <1>12, <1>14, <2>4 DEF RowsFollow
      <3>2. \A q \in 1..Limit : place \notin (8 * q + 1)..(8 * q + 4)
        BY <1>12, <2>4
      <3>3. \A q \in 1..Limit : place # 8 * q + 2 /\ place # 8 * q + 3
        BY <1>12, <2>4
      <3>4. \A q \in 1..Limit : place \notin (8 * q + 2)..(8 * q + 4)
        BY <1>12, <2>4
      <3>5. Len(calls') < Cardinality(Rounds') + Charged'
        BY <1>0, <1>2, <1>3, <1>8, <1>14 DEF CallsOwed
      <3> QED
        BY <1>0, <1>2, <1>3, <3>1, <3>2, <3>3, <3>4, <3>5 DEF RowsReached
    <2>9. KeysFresh(H, n, place)'
      <3>1. IsFiniteSet(worker'.keys)
        <4> DEFINE f == [c \in DOMAIN calls |-> calls[c].key]
        <4>1. f \in Surjection(DOMAIN calls, worker'.keys)
          BY <1>1 DEF Surjection
        <4> QED
          BY <4>1, RoundsFinite, FS_Surjection
      <3>2. \A k \in worker'.keys : CallWith(k)' # {}
        BY <1>1, <1>3 DEF CallWith
      <3>3. \A c \in DOMAIN calls' : calls'[c].key \in worker'.keys
        BY <1>1, <1>3
      <3>4. \A q \in 1..n : ~ (8 * q + 2 > place)
        BY <2>4
      <3> QED
        BY <3>1, <3>2, <3>3, <3>4 DEF KeysFresh
    <2>10. Follows(H, n, place)'
      BY <2>6, <2>7, <2>8, <2>9 DEF Follows
    <2>11. (\E G \in Histories, m \in 0..Limit, p \in Nat : Follows(G, m, p))'
      BY <2>4, <2>10
    <2> QED
      BY <1>5, <1>6, <1>7, <1>9, <1>10, <2>11
  <1> QED
    BY <1>13, <1>14

-----------------------------------------------------------------------------
(* The loop.                                                               *)

LEMMA SmallestOf ==
  ASSUME NEW T, T \subseteq Nat, T # {}
  PROVE  \E n \in T : \A m \in T : n <= m
  <1> DEFINE R == OpToRel(<, Nat)
  <1>1. \A n, m \in Nat : m < n => <<m, n>> \in R
    BY DEF OpToRel
  <1>2. IsWellFoundedOn(R, Nat)
    BY NatLessThanWellFounded, Zenon
  <1> HIDE DEF R
  <1>3. PICK n \in T : \A m \in T : ~ (<<m, n>> \in R)
    BY <1>2, WFMin
  <1>4. \A m \in T : n \in Nat /\ m \in Nat /\ ~ (m < n)
    BY <1>1, <1>3
  <1> QED
    BY <1>4

\* _next_call_key: the least replay that is not used.
LEMMA NextKeyFresh ==
  ASSUME NEW round \in Nat, IsFiniteSet(worker.keys)
  PROVE  \E n \in Nat :
            /\ NextKey(round) = Key(round, n)
            /\ \A k \in worker.keys : k.round = round => k.replay # n
            /\ n > 0 => \E k \in worker.keys : k.round = round /\ k.replay = 0
  <1> DEFINE mine == {key \in worker.keys : key.round = round}
             used == {k.replay : k \in mine}
             free == {n \in Nat : n \notin used}
             size == Cardinality(used)
  <1>1. IsFiniteSet(mine)
    BY FS_Subset
  <1>2. IsFiniteSet(used)
    <2> DEFINE f == [k \in mine |-> k.replay]
    <2>1. f \in Surjection(mine, used)
      BY DEF Surjection
    <2> QED
      BY <1>1, <2>1, FS_Surjection
  <1>3. size \in Nat
    BY <1>2, FS_CardinalityType
  <1>4. \E n \in free : n <= size
    <2> HIDE DEF used
    <2>1. ASSUME 0..size \subseteq used PROVE FALSE
      <3>1. Cardinality(0..size) <= size
        BY <1>2, <2>1, FS_Subset
      <3>2. Cardinality(0..size) = size + 1
        <4> HIDE DEF size
        <4> QED
          BY <1>3, FS_Interval
      <3> QED
        BY <1>3, <3>1, <3>2
    <2> HIDE DEF size
    <2>2. PICK n \in 0..size : n \notin used
      BY <2>1
    <2>3. n \in Nat /\ n <= size
      BY <1>3
    <2> QED
      BY <2>2, <2>3
  <1>5. PICK least \in free : \A m \in free : least <= m
    BY <1>4, SmallestOf
  <1>6. least \in 0..size /\ least \notin used /\ \A m \in 0..(least - 1) : m \in used
    BY <1>3, <1>4, <1>5
  <1> DEFINE n == CHOOSE n \in 0..size : n \notin used /\ \A m \in 0..(n - 1) : m \in used
  <1>7. n \in 0..size /\ n \notin used /\ \A m \in 0..(n - 1) : m \in used
    BY <1>6
  <1>8. NextKey(round) = Key(round, n)
    BY DEF NextKey
  <1> HIDE DEF n
  <1>9. n \in Nat /\ (n > 0 => 0 \in used)
    BY <1>3, <1>7
  <1>10. \A k \in worker.keys : k.round = round => k.replay # n
    BY <1>7
  <1>11. 0 \in used => \E k \in worker.keys : k.round = round /\ k.replay = 0
    OBVIOUS
  <1> HIDE DEF used
  <1> QED
    BY <1>8, <1>9, <1>10, <1>11

LEMMA ThreeEvents ==
  ASSUME NEW a \in Event, NEW b \in Event, NEW c \in Event
  PROVE  /\ <<a, b, c>> \in Seq(Event) /\ Len(<<a, b, c>>) = 3
         /\ <<a, b, c>>[1] = a /\ <<a, b, c>>[2] = b /\ <<a, b, c>>[3] = c
  OBVIOUS

LEMMA TwoEvents ==
  ASSUME NEW a \in Event, NEW b \in Event
  PROVE  /\ <<a, b>> \in Seq(Event) /\ Len(<<a, b>>) = 2
         /\ <<a, b>>[1] = a /\ <<a, b>>[2] = b
  OBVIOUS

LEMMA OneEvent ==
  ASSUME NEW a \in Event
  PROVE  <<a>> \in Seq(Event) /\ Len(<<a>>) = 1 /\ <<a>>[1] = a
  OBVIOUS

\* What the worker has reported, at its places.
Reported(H, known, from) ==
    \A i \in 1..Len(worker.events) :
        /\ Fits(worker.events[i], from + i, H, known, worker.refs,
                i = Len(worker.events) /\ worker.pc = "finish", direct)
        /\ worker.events[i].ev = "TOOL_CALL_COMPLETED" =>
              tool[worker.events[i].round].status # "none"

LEMMA FitsRound ==
  ASSUME NEW e, NEW n, NEW H, NEW known, NEW refs, NEW last, NEW oneRound,
         Fits(e, n, H, known, refs, last, oneRound), e.ev = "TOOL_CALL_COMPLETED"
  PROVE  e.round \in 1..Limit
  BY DEF Fits, StepStarted, ContextCreated, CallStarted, CallEnded, StepCompleted, ToolCompleted, Save

\* A worker that reports more, in the places that follow.
LEMMA MoreReported ==
  ASSUME worker.events \in Seq(Event), NEW G, NEW H, NEW known \in Nat, NEW later \in Nat,
         known <= later, \A j \in 1..known : G[j] = H[j],
         NEW from \in Nat, worker.pc # "finish", Reported(H, known, from),
         NEW new \in Seq(Event), worker'.events = worker.events \o new,
         worker'.refs = worker.refs, direct' = direct,
         \A r \in 1..Limit : tool[r].status # "none" => tool'[r].status # "none",
         \A j \in 1..Len(new) :
            /\ Fits(new[j], from + Len(worker.events) + j, G, later, worker.refs,
                    j = Len(new) /\ worker'.pc = "finish", direct)
            /\ new[j].ev = "TOOL_CALL_COMPLETED" => tool'[new[j].round].status # "none"
  PROVE  /\ worker'.events \in Seq(Event)
         /\ Len(worker'.events) = Len(worker.events) + Len(new)
         /\ Reported(G, later, from)'
  <1>1. PICK n, m : n = Len(worker.events) /\ m = Len(new)
    OBVIOUS
  <1>2. n \in Nat /\ m \in Nat
    BY <1>1, LenProperties
  <1>3. /\ worker'.events \in Seq(Event) /\ Len(worker'.events) = n + m
        /\ \A i \in 1..(n + m) :
              worker'.events[i] = IF i <= n THEN worker.events[i] ELSE new[i - n]
    BY <1>1, ConcatProperties
  <1>4. ASSUME NEW i \in 1..(n + m)
        PROVE  /\ Fits(worker'.events[i], from + i, G, later, worker.refs,
                       i = n + m /\ worker'.pc = "finish", direct)
               /\ worker'.events[i].ev = "TOOL_CALL_COMPLETED" =>
                     tool'[worker'.events[i].round].status # "none"
    <2>1. CASE i <= n
      <3>1. i \in 1..n /\ worker'.events[i] = worker.events[i]
        BY <1>2, <1>3, <2>1
      <3>2. /\ Fits(worker.events[i], from + i, H, known, worker.refs,
                    i = Len(worker.events) /\ worker.pc = "finish", direct)
            /\ worker.events[i].ev = "TOOL_CALL_COMPLETED" =>
                  tool[worker.events[i].round].status # "none"
        BY <1>1, <3>1 DEF Reported
      <3>3. (i = Len(worker.events) /\ worker.pc = "finish") => (i = n + m /\ worker'.pc = "finish")
        OBVIOUS
      <3>4. Fits(worker.events[i], from + i, G, later, worker.refs,
                 i = n + m /\ worker'.pc = "finish", direct)
        BY <3>2, <3>3, FitsAgrees
      <3>5. worker.events[i].ev = "TOOL_CALL_COMPLETED" => worker.events[i].round \in 1..Limit
        BY <3>4, FitsRound
      <3> QED
        BY <3>1, <3>2, <3>4, <3>5
    <2>2. CASE i > n
      <3>1. PICK j : j = i - n
        OBVIOUS
      <3>a. j \in 1..m /\ i = n + j /\ from + n + j = from + i /\ i \in 1..(n + m) /\ ~ (i <= n)
        BY <1>2, <2>2, <3>1
      <3>b. j = m => i = n + m
        BY <3>a
      <3>c. worker'.events[i] = new[j]
        BY <1>3, <3>1, <3>a
      <3>2. j \in 1..m /\ worker'.events[i] = new[j] /\ from + n + j = from + i
               /\ (j = m => i = n + m)
        BY <3>a, <3>b, <3>c
      <3>3. /\ Fits(new[j], from + n + j, G, later, worker.refs,
                    j = m /\ worker'.pc = "finish", direct)
            /\ new[j].ev = "TOOL_CALL_COMPLETED" => tool'[new[j].round].status # "none"
        BY <1>1, <3>2
      <3>4. PICK e, p : e = new[j] /\ p = from + i
        OBVIOUS
      <3>5. Fits(e, p, G, later, worker.refs, j = m /\ worker'.pc = "finish", direct)
        BY <3>2, <3>3, <3>4
      <3>6. /\ later <= later /\ \A q \in 1..later : G[q] = G[q]
            /\ (j = m /\ worker'.pc = "finish") => (i = n + m /\ worker'.pc = "finish")
        BY <3>2
      <3>7. Fits(e, p, G, later, worker.refs, i = n + m /\ worker'.pc = "finish", direct)
        BY <3>5, <3>6, FitsAgrees
      <3> QED
        BY <3>2, <3>3, <3>4, <3>7
    <2>3. i <= n \/ i > n
      BY <1>2
    <2> QED
      BY <2>1, <2>2, <2>3, Zenon
  <1>5. Reported(G, later, from)'
    BY <1>3, <1>4 DEF Reported
  <1> QED
    BY <1>1, <1>3, <1>5

\* A step of the loop that writes no row.
LEMMA LoopMInv ==
  ASSUME MInv, KInv', run = "running", worker.pc \in {"loop", "calling"},
         UNCHANGED <<direct, session, rows, run, takeovers>>,
         worker'.pc \in {"loop", "calling", "finish"},
         worker'.pc = "finish" => worker'.outcome # "suspended",
         worker'.events \in Seq(Event), worker'.cp \in Checkpoint,
         NEW G \in Histories, NEW later \in 0..Limit, NEW from \in Nat,
         RowsFollow(G, later)', WorkerFollows(G, later, from)',
         RowsReached(G, later, from)', KeysFresh(G, later, from)'
  PROVE  MInv'
  <1> USE DEF MInv, rows
  <1>1. Looping /\ ~ Suspending /\ Looping' /\ ~ Suspending' /\ Charged' = Charged
    BY DEF Looping, Suspending, Charged
  <1>2. RowsType'
    BY DEF RowsType
  <1>3. RunFollowed'
    BY <1>1 DEF RunFollowed
  <1>4. ContextsFrozen' /\ CallsFit' /\ StepsBound' /\ UsageMatchesRows'
    BY RowsSame
  <1>5. Rounds' = Rounds
    BY DEF Rounds
  <1>6. CallsOwed'
    BY <1>1, <1>5 DEF CallsOwed
  <1>7. Follows(G, later, from)'
    BY DEF Follows
  <1>8. (\E H \in Histories, known \in 0..Limit, place \in Nat : Follows(H, known, place))'
    BY <1>7
  <1> QED
    BY <1>2, <1>3, <1>4, <1>6, <1>8

LEMMA RowsFollowOn ==
  ASSUME NEW G \in Histories, NEW H \in Histories, NEW known \in 0..Limit, NEW later \in 0..Limit,
         known <= later, \A j \in 1..known : G[j] = H[j], \A r \in 1..later : G[r].round = r,
         RowsFollow(H, known), UNCHANGED <<direct, contexts>>,
         session'.selection = session.selection,
         \/ session'.cp = session.cp
         \/ ~ direct /\ OnTheWay(session'.cp, G, later) /\ PlaceOf(session.cp) <= PlaceOf(session'.cp)
  PROVE  RowsFollow(G, later)'
  <1>0. known \in Nat /\ later \in Nat /\ Limit \in Nat
    BY LimitBounds
  <1>1. CASE direct
    BY <1>1 DEF RowsFollow
  <1>2. CASE ~ direct
    <2>1. OnTheWay(session.cp, H, known)
      BY <1>2 DEF RowsFollow
    <2>2. OnTheWay(session.cp, G, later)
      BY <1>0, <2>1, WayAgrees
    <2>3. OnTheWay(session'.cp, G, later)
      BY <2>2
    <2>4. PlaceOf(session.cp) \in Nat
      <3>1. PICK r \in Nat \ {0} : PlaceOf(session.cp) = 8 * r \/ PlaceOf(session.cp) = 8 * r + 6
        BY <2>1, WayCases
      <3> QED
        BY <3>1
    <2>5. PlaceOf(session'.cp) \in Nat
      <3>1. PICK r \in Nat \ {0} : PlaceOf(session'.cp) = 8 * r \/ PlaceOf(session'.cp) = 8 * r + 6
        BY <2>3, WayCases
      <3> QED
        BY <3>1
    <2>6. PlaceOf(session.cp) <= PlaceOf(session'.cp)
      BY <2>4
    <2>7. ASSUME NEW v \in 1..MaxIterations, contexts[v].recorded
          PROVE  /\ v \in 1..Limit /\ v - 1 <= later
                 /\ contexts[v] = Snapshot(Prefix(G, v - 1), session.selection)
                 /\ 8 * v <= PlaceOf(session'.cp)
      <3>1. /\ v \in 1..Limit /\ v - 1 <= known
            /\ contexts[v] = Snapshot(Prefix(H, v - 1), session.selection)
            /\ 8 * v <= PlaceOf(session.cp)
        BY <1>2, <2>7 DEF RowsFollow
      <3>2. v \in Nat /\ v - 1 \in 0..known
        BY <1>0, <3>1
      <3>3. Prefix(G, v - 1) = Prefix(H, v - 1)
        BY <1>0, <3>2, PrefixAgrees
      <3> QED
        BY <1>0, <2>4, <2>5, <2>6, <3>1, <3>2, <3>3
    <2> QED
      BY <1>2, <2>3, <2>7 DEF RowsFollow
  <1> QED
    BY <1>1, <1>2

LEMMA RowsReachedOn ==
  ASSUME NEW G \in Histories, NEW H \in Histories, NEW known \in 0..Limit, NEW later \in 0..Limit,
         known <= later, \A j \in 1..known : G[j] = H[j], NEW from \in Nat,
         RowsReached(H, known, from), worker.pc # "finish",
         UNCHANGED <<direct, contexts, calls>>,
         session'.context = session.context, session'.call = session.call,
         takeovers' = 0 => takeovers = 0, Charged' = Charged,
         \A r \in 1..Limit : 8 * r + 6 <= from => tool'[r] = tool[r]
  PROVE  RowsReached(G, later, from)'
  <1>0. known \in Nat /\ later \in Nat /\ Limit \in Nat
    BY LimitBounds
  <1>1. \A r \in 1..Limit : r <= known => r <= later /\ G[r] = H[r]
    BY <1>0
  <1>2. Rounds' = Rounds
    BY DEF Rounds
  <1>3. ~ direct => \A v \in 1..MaxIterations : contexts[v].recorded => 8 * v <= from + 1
    BY DEF RowsReached
  <1>4. ASSUME NEW r \in 1..Limit
        PROVE  /\ from \in (8 * r + 1)..(8 * r + 4) => session'.context = r
               /\ from \in (8 * r + 2)..(8 * r + 4) \/ (takeovers' = 0 /\ from = 8 * r + 5) =>
                     r <= later /\ session'.call # 0 /\ calls'[session'.call].key = G[r]
               /\ from = 8 * r + 2 => calls'[session'.call].status = "streaming"
               /\ from = 8 * r + 3 => calls'[session'.call].status = "completed"
               /\ takeovers' = 0 /\ ~ direct' /\ 8 * r + 6 <= from =>
                     r <= later /\ tool'[r].call # 0 /\ calls'[tool'[r].call].key = G[r]
    <2>1. /\ from \in (8 * r + 1)..(8 * r + 4) => session.context = r
          /\ from \in (8 * r + 2)..(8 * r + 4) \/ (takeovers = 0 /\ from = 8 * r + 5) =>
                r <= known /\ session.call # 0 /\ calls[session.call].key = H[r]
          /\ from = 8 * r + 2 => calls[session.call].status = "streaming"
          /\ from = 8 * r + 3 => calls[session.call].status = "completed"
          /\ takeovers = 0 /\ ~ direct /\ 8 * r + 6 <= from =>
                r <= known /\ tool[r].call # 0 /\ calls[tool[r].call].key = H[r]
      BY DEF RowsReached
    <2> QED
      BY <1>1, <2>1
  <1>5. \A c \in DOMAIN calls : calls[c].status = "streaming" => from = 8 * calls[c].key.round + 2
    BY DEF RowsReached
  <1>6. ~ direct /\ (\E c \in DOMAIN calls : 8 * calls[c].key.round + 2 > from) =>
          Len(calls) < Cardinality(Rounds) + Charged
    BY DEF RowsReached
  <1> QED
    BY <1>2, <1>3, <1>4, <1>5, <1>6 DEF RowsReached

LEMMA KeysFreshOn ==
  ASSUME NEW H, NEW known, NEW from, KeysFresh(H, known, from),
         UNCHANGED <<direct, calls>>, worker'.keys = worker.keys
  PROVE  KeysFresh(H, known, from)'
  BY DEF KeysFresh, CallWith

\* The loop ends, and reports new.
LEMMA FinishMInv ==
  ASSUME MInv, KInv', run = "running", worker.pc \in {"loop", "calling"},
         UNCHANGED <<direct, session, rows, run, takeovers>>,
         NEW outcome \in {"completed", "failed", "cancelled"}, NEW new \in Seq(Event),
         Finish(outcome, new),
         NEW H \in Histories, NEW known \in 0..Limit, NEW from \in Nat, Follows(H, known, from),
         \A j \in 1..Len(new) :
            /\ Fits(new[j], from + Len(worker.events) + j, H, known, worker.refs,
                    j = Len(new) /\ worker'.pc = "finish", direct)
            /\ new[j].ev # "TOOL_CALL_COMPLETED"
  PROVE  MInv'
  <1> USE DEF rows
  <1>1. /\ worker'.pc = "finish" /\ worker'.outcome = outcome /\ worker'.events = worker.events \o new
        /\ worker'.cp = worker.cp /\ worker'.refs = worker.refs /\ worker'.keys = worker.keys
    BY DEF Finish, MInv, KInv, WorkerShape
  <1>2. Looping /\ ~ Suspending /\ ~ Suspending' /\ RowsType /\ Charged' = Charged
    BY <1>1 DEF Looping, Suspending, MInv, Charged
  <1>3. /\ RowsFollow(H, known) /\ WorkerFollows(H, known, from)
        /\ RowsReached(H, known, from) /\ KeysFresh(H, known, from)
    BY <1>2 DEF Follows
  <1>4. known \in Nat /\ known <= known /\ \A j \in 1..known : H[j] = H[j]
    BY LimitBounds
  <1>5. RowsFollow(H, known)'
    BY <1>3 DEF RowsFollow
  <1>6. RowsReached(H, known, from)'
    BY <1>2, <1>3, <1>4, RowsReachedOn
  <1>7. KeysFresh(H, known, from)'
    BY <1>1, <1>3, KeysFreshOn
  <1>8. /\ worker'.events \in Seq(Event)
        /\ Len(worker'.events) = Len(worker.events) + Len(new)
        /\ Reported(H, known, from)'
    <2>1. worker.events \in Seq(Event) /\ worker.pc # "finish" /\ Reported(H, known, from)
      BY <1>2, <1>3 DEF RowsType, Reported, WorkerFollows
    <2> QED
      BY <1>1, <1>4, <2>1, MoreReported
  <1>9. WorkerFollows(H, known, from)'
    <2>1. Len(worker.events) \in Nat /\ Len(new) \in Nat /\ Len(worker'.events) \in Nat
      BY <1>2, <1>8, LenProperties DEF RowsType
    <2>2. ~ direct => /\ PlaceOf(session.cp) \in Nat /\ PlaceOf(session.cp) <= Top(from)
                      /\ \A r \in 1..Limit : 8 * r <= from + 1 => 8 * r <= PlaceOf(session.cp)
      <3>1. \/ direct
            \/ \E r \in Nat \ {0} : PlaceOf(session.cp) = 8 * r \/ PlaceOf(session.cp) = 8 * r + 6
        BY <1>3, WayCases DEF RowsFollow
      <3> QED
        BY <1>3, <3>1 DEF WorkerFollows
    <2>3. ~ direct => PlaceOf(session'.cp) <= Top(from)'
      BY <1>8, <2>1, <2>2 DEF Top
    <2>4. /\ worker.refs = session.selection
          /\ direct => worker.cp.iteration = 1
      BY <1>3 DEF WorkerFollows
    <2> QED
      BY <1>1, <1>2, <1>8, <2>2, <2>3, <2>4 DEF WorkerFollows, Reported
  <1> QED
    BY <1>1, <1>2, <1>5, <1>6, <1>7, <1>8, <1>9, LoopMInv DEF RowsType

\* MAX_ITERATIONS_EXCEEDED and the like, or the cancellation: nothing is reported.
LEMMA StopMInv ==
  ASSUME MInv, KInv', StopRounds \/ StopLoop
  PROVE  MInv'
  <1>1. /\ run = "running" /\ worker.pc = "loop"
        /\ UNCHANGED <<direct, session, rows, run, takeovers>>
        /\ \E outcome \in {"failed", "cancelled"} : Finish(outcome, <<>>)
    BY DEF StopRounds, StopLoop, LoopAt
  <1>2. PICK H \in Histories, known \in 0..Limit, from \in Nat : Follows(H, known, from)
    BY DEF MInv
  <1>3. <<>> \in Seq(Event) /\ Len(<<>>) = 0
    BY EmptySeq
  <1>4. PICK outcome \in {"completed", "failed", "cancelled"} : Finish(outcome, <<>>)
    BY <1>1
  <1>5. \A j \in 1..Len(<<>>) : FALSE
    BY <1>3
  <1> QED
    BY <1>1, <1>2, <1>3, <1>4, <1>5, FinishMInv

\* A worker that waits for an answer.
LEMMA Calling ==
  ASSUME MInv, LoopAt("calling"), NEW H \in Histories, NEW known \in 0..Limit, NEW from \in Nat,
         Follows(H, known, from)
  PROVE  \E k \in 1..Limit :
            /\ k <= known /\ worker.key = H[k] /\ worker.key.round = k /\ worker.key \in KeyType
            /\ from + Len(worker.events) = 8 * k + 2
            /\ \A state \in Finished :
                  /\ Answered(state) \in Checkpoint /\ Answered(state).iteration = worker.cp.iteration
                  /\ IF direct THEN worker.cp.iteration = 1
                     ELSE k = known /\ Answered(state) = CpAfter(H, k, state)
  <1>1. Looping /\ worker.pc = "calling" /\ RowsType /\ Limit \in Nat \ {0}
    BY LimitBounds DEF LoopAt, Looping, MInv
  <1>2. WorkerFollows(H, known, from) /\ RowsFollow(H, known)
    BY <1>1 DEF Follows
  <1>3. Len(worker.events) \in Nat /\ worker.cp \in Checkpoint
    BY <1>1, LenProperties DEF RowsType
  <1>4. PICK k : k = IF direct THEN 1 ELSE known
    OBVIOUS
  <1>5. k \in 1..Limit /\ k <= known /\ worker.key = H[k] /\ from + Len(worker.events) = 8 * k + 2
    <2>1. CASE direct
      BY <1>1, <1>2, <1>3, <1>4, <2>1 DEF WorkerFollows, Top
    <2>2. CASE ~ direct
      BY <1>1, <1>2, <1>3, <1>4, <2>2 DEF WorkerFollows, Top
    <2> QED
      BY <2>1, <2>2
  <1>6. worker.key.round = k /\ worker.key \in KeyType
    BY <1>1, <1>2, <1>5 DEF RowsFollow, Histories
  <1>7. ASSUME NEW state \in Finished
        PROVE  /\ Answered(state) \in Checkpoint /\ Answered(state).iteration = worker.cp.iteration
               /\ IF direct THEN worker.cp.iteration = 1
                  ELSE k = known /\ Answered(state) = CpAfter(H, k, state)
    <2>1. PICK c, u, h : /\ c = worker.cp.context + 1 /\ u = worker.cp.usage + 1
                         /\ h = Append(worker.cp.history, worker.key)
      OBVIOUS
    <2>2. c \in Nat /\ u \in Nat /\ h \in Seq(KeyType)
      BY <1>3, <1>6, <2>1, AppendProperties DEF Checkpoint
    <2>3. Answered(state) = [worker.cp EXCEPT !.state = state, !.context = c, !.usage = u, !.history = h]
      BY <2>1 DEF Answered
    <2>4. Answered(state) = [state |-> state, iteration |-> worker.cp.iteration, context |-> c,
                             history |-> h, usage |-> u]
      BY <1>3, <2>3 DEF Checkpoint
    <2>5. worker.cp.iteration \in Nat
      BY <1>3 DEF Checkpoint
    <2>6. Answered(state) \in Checkpoint /\ Answered(state).iteration = worker.cp.iteration
      BY <2>2, <2>4, <2>5 DEF Checkpoint
    <2>7. CASE direct
      BY <1>2, <2>6, <2>7 DEF WorkerFollows
    <2>8. CASE ~ direct
      <3>1. k = known /\ worker.cp = CpBefore(H, k)
        BY <1>1, <1>2, <1>4, <2>8 DEF WorkerFollows
      <3>2. /\ worker.cp.iteration = k /\ worker.cp.context = k - 1 /\ worker.cp.usage = k - 1
            /\ worker.cp.history = Prefix(H, k - 1)
        BY <3>1 DEF CpBefore
      <3>3. k \in Nat /\ c = k /\ u = k
        BY <1>1, <1>5, <2>1, <3>2
      <3>4. h = Prefix(H, k)
        BY <1>5, <2>1, <3>2, PrefixAppend
      <3> QED
        BY <2>4, <2>6, <2>8, <3>1, <3>2, <3>3, <3>4 DEF CpAfter
    <2> QED
      BY <2>7, <2>8
  <1> QED
    BY <1>5, <1>6, <1>7

\* The events of an answer, in their places.
LEMMA AnswerFits ==
  ASSUME NEW H \in Histories, NEW known \in 0..Limit, NEW k \in 1..Limit, k <= known,
         NEW refs, NEW last
  PROVE  /\ Fits(CallEnded(H[k], "completed"), 8 * k + 3, H, known, refs, last, direct)
         /\ last => Fits(CallEnded(H[k], "failed"), 8 * k + 3, H, known, refs, last, direct)
         /\ Fits(StepCompleted(k), 8 * k + 4, H, known, refs, last, direct)
         /\ \A cp : (IF direct THEN cp.iteration = 1 ELSE \E state \in Finished : cp = CpAfter(H, k, state))
               => Fits(Save(cp), 8 * k + 5, H, known, refs, last, direct)
  <1>1. Fits(CallEnded(H[k], "completed"), 8 * k + 3, H, known, refs, last, direct)
    BY DEF Fits
  <1>2. last => Fits(CallEnded(H[k], "failed"), 8 * k + 3, H, known, refs, last, direct)
    BY DEF Fits
  <1>3. Fits(StepCompleted(k), 8 * k + 4, H, known, refs, last, direct)
    BY DEF Fits
  <1>4. ASSUME NEW cp,
               IF direct THEN cp.iteration = 1 ELSE \E state \in Finished : cp = CpAfter(H, k, state)
        PROVE  Fits(Save(cp), 8 * k + 5, H, known, refs, last, direct)
    <2>1. PICK e : e = Save(cp)
      OBVIOUS
    <2>2. e.ev = "CHECKPOINT_SAVED" /\ e.cp = cp /\ e = Save(e.cp)
      BY <2>1 DEF Save
    <2>3. Fits(e, 8 * k + 5, H, known, refs, last, direct)
      BY <1>4, <2>2 DEF Fits
    <2> QED
      BY <2>1, <2>3
  <1> QED
    BY <1>1, <1>2, <1>3, <1>4

LEMMA AnswerEventTypes ==
  ASSUME NEW key \in KeyType, NEW cp \in Checkpoint
  PROVE  /\ CallEnded(key, "completed") \in Event /\ CallEnded(key, "failed") \in Event
         /\ StepCompleted(key.round) \in Event /\ Save(cp) \in Event
         /\ CallEnded(key, "completed").ev # "TOOL_CALL_COMPLETED"
         /\ CallEnded(key, "failed").ev # "TOOL_CALL_COMPLETED"
         /\ StepCompleted(key.round).ev # "TOOL_CALL_COMPLETED" /\ Save(cp).ev # "TOOL_CALL_COMPLETED"
  <1>1. CallEnded(key, "completed") \in Event /\ CallEnded(key, "failed") \in Event
    BY DEF CallEnded, Event
  <1>2. StepCompleted(key.round) \in Event
    BY DEF StepCompleted, Event, KeyType
  <1>3. Save(cp) \in Event
    BY DEF Save, Event
  <1> QED
    BY <1>1, <1>2, <1>3 DEF CallEnded, StepCompleted, Save

\* The answer ends the loop.
LEMMA AnswerEndsMInv ==
  ASSUME MInv, KInv',
         AnswerFinal \/ AnswerUnusable \/ AnswerError \/ (AnswerTool /\ direct)
  PROVE  MInv'
  <1>1. LoopAt("calling") /\ UNCHANGED <<direct, session, rows, run, takeovers>>
    BY DEF AnswerFinal, AnswerUnusable, AnswerError, AnswerTool
  <1>2. run = "running" /\ worker.pc = "calling"
    BY <1>1 DEF LoopAt
  <1>3. PICK H \in Histories, known \in 0..Limit, from \in Nat : Follows(H, known, from)
    BY DEF MInv
  <1>4. PICK k \in 1..Limit :
            /\ k <= known /\ worker.key = H[k] /\ worker.key.round = k /\ worker.key \in KeyType
            /\ from + Len(worker.events) = 8 * k + 2
            /\ \A state \in Finished :
                  /\ Answered(state) \in Checkpoint /\ Answered(state).iteration = worker.cp.iteration
                  /\ IF direct THEN worker.cp.iteration = 1
                     ELSE k = known /\ Answered(state) = CpAfter(H, k, state)
    BY <1>1, <1>3, Calling
  <1>5. PICK place : place = from + Len(worker.events)
    OBVIOUS
  <1>6. k \in Nat /\ place = 8 * k + 2
    BY <1>4, <1>5, LimitBounds
  <1>7. CASE AnswerFinal \/ (AnswerTool /\ direct)
    <2>1. PICK state \in Finished, outcome \in {"completed", "failed", "cancelled"} :
             Finish(outcome, AnswerEvents(Answered(state)))
      BY <1>7 DEF AnswerFinal, AnswerTool, Finished
    <2>2. PICK cp, a, b, c : /\ cp = Answered(state) /\ a = CallEnded(worker.key, "completed")
                             /\ b = StepCompleted(worker.key.round) /\ c = Save(cp)
      OBVIOUS
    <2>3. PICK new : new = AnswerEvents(cp)
      OBVIOUS
    <2>4. cp \in Checkpoint /\ (IF direct THEN cp.iteration = 1 ELSE cp = CpAfter(H, k, state))
      BY <1>4, <2>2
    <2>5. /\ a \in Event /\ b \in Event /\ c \in Event
          /\ a.ev # "TOOL_CALL_COMPLETED" /\ b.ev # "TOOL_CALL_COMPLETED" /\ c.ev # "TOOL_CALL_COMPLETED"
      BY <1>4, <2>2, <2>4, AnswerEventTypes
    <2>6. new \in Seq(Event) /\ Len(new) = 3 /\ new[1] = a /\ new[2] = b /\ new[3] = c
      BY <2>2, <2>3, <2>5, ThreeEvents DEF AnswerEvents
    <2>7. \A last : /\ Fits(a, place + 1, H, known, worker.refs, last, direct)
                    /\ Fits(b, place + 2, H, known, worker.refs, last, direct)
                    /\ Fits(c, place + 3, H, known, worker.refs, last, direct)
      <3> TAKE last
      <3>1. place + 1 = 8 * k + 3 /\ place + 2 = 8 * k + 4 /\ place + 3 = 8 * k + 5
        BY <1>6
      <3> QED
        BY <1>4, <2>2, <2>4, <3>1, AnswerFits
    <2>8. ASSUME NEW j \in 1..Len(new)
          PROVE  /\ Fits(new[j], place + j, H, known, worker.refs,
                         j = Len(new) /\ worker'.pc = "finish", direct)
                 /\ new[j].ev # "TOOL_CALL_COMPLETED"
      <3>1. j = 1 \/ j = 2 \/ j = 3
        BY <2>6
      <3> QED
        BY <2>5, <2>6, <2>7, <3>1
    <2>9. Finish(outcome, new)
      BY <2>1, <2>2, <2>3
    <2> QED
      BY <1>1, <1>2, <1>3, <1>5, <2>6, <2>8, <2>9, FinishMInv
  <1>8. CASE AnswerUnusable
    <2>1. PICK a, b : /\ a = CallEnded(worker.key, "completed") /\ b = StepCompleted(worker.key.round)
      OBVIOUS
    <2>2. PICK new : new = <<a, b>>
      OBVIOUS
    <2>3. a \in Event /\ b \in Event /\ a.ev # "TOOL_CALL_COMPLETED" /\ b.ev # "TOOL_CALL_COMPLETED"
      <3>1. Answered("completed") \in Checkpoint
        BY <1>4 DEF Finished
      <3> QED
        BY <1>4, <2>1, <3>1, AnswerEventTypes
    <2>4. new \in Seq(Event) /\ Len(new) = 2 /\ new[1] = a /\ new[2] = b
      BY <2>2, <2>3, TwoEvents
    <2>5. \A last : /\ Fits(a, place + 1, H, known, worker.refs, last, direct)
                    /\ Fits(b, place + 2, H, known, worker.refs, last, direct)
      <3> TAKE last
      <3>1. place + 1 = 8 * k + 3 /\ place + 2 = 8 * k + 4
        BY <1>6
      <3> QED
        BY <1>4, <2>1, <3>1, AnswerFits
    <2>6. ASSUME NEW j \in 1..Len(new)
          PROVE  /\ Fits(new[j], place + j, H, known, worker.refs,
                         j = Len(new) /\ worker'.pc = "finish", direct)
                 /\ new[j].ev # "TOOL_CALL_COMPLETED"
      <3>1. j = 1 \/ j = 2
        BY <2>4
      <3> QED
        BY <2>3, <2>4, <2>5, <3>1
    <2>7. Finish("failed", new)
      BY <1>8, <2>1, <2>2 DEF AnswerUnusable
    <2> QED
      BY <1>1, <1>2, <1>3, <1>5, <2>4, <2>6, <2>7, FinishMInv
  <1>9. CASE AnswerError
    <2>1. PICK a : a = CallEnded(worker.key, "failed")
      OBVIOUS
    <2>2. PICK new : new = <<a>>
      OBVIOUS
    <2>3. a \in Event /\ a.ev # "TOOL_CALL_COMPLETED"
      <3>1. Answered("completed") \in Checkpoint
        BY <1>4 DEF Finished
      <3> QED
        BY <1>4, <2>1, <3>1, AnswerEventTypes
    <2>4. new \in Seq(Event) /\ Len(new) = 1 /\ new[1] = a
      BY <2>2, <2>3, OneEvent
    <2>5. Finish("failed", new)
      BY <1>9, <2>1, <2>2 DEF AnswerError
    <2>6. worker'.pc = "finish"
      BY <2>5 DEF Finish, MInv, KInv, WorkerShape
    <2>7. ASSUME NEW j \in 1..Len(new)
          PROVE  /\ Fits(new[j], place + j, H, known, worker.refs,
                         j = Len(new) /\ worker'.pc = "finish", direct)
                 /\ new[j].ev # "TOOL_CALL_COMPLETED"
      <3>1. j = 1 /\ place + j = 8 * k + 3 /\ j = Len(new) /\ new[j] = a
        BY <1>6, <2>4
      <3>2. Fits(a, 8 * k + 3, H, known, worker.refs, j = Len(new) /\ worker'.pc = "finish", direct)
        BY <1>4, <2>1, <2>6, <3>1, AnswerFits
      <3> QED
        BY <2>3, <3>1, <3>2
    <2> QED
      BY <1>1, <1>2, <1>3, <1>5, <2>4, <2>5, <2>7, FinishMInv
  <1> QED
    BY <1>7, <1>8, <1>9

\* The model asks for a tool, and the loop goes on.
LEMMA AnswerToolMInv ==
  ASSUME MInv, KInv', AnswerTool, ~ direct
  PROVE  MInv'
  <1>1. LoopAt("calling") /\ UNCHANGED <<direct, session, rows, run, takeovers>>
    BY DEF AnswerTool
  <1>2. run = "running" /\ worker.pc = "calling" /\ Looping /\ ~ Suspending /\ RowsType
    BY <1>1 DEF LoopAt, Looping, Suspending, MInv
  <1>3. PICK H \in Histories, known \in 0..Limit, from \in Nat : Follows(H, known, from)
    BY DEF MInv
  <1>4. PICK k \in 1..Limit :
            /\ k <= known /\ worker.key = H[k] /\ worker.key.round = k /\ worker.key \in KeyType
            /\ from + Len(worker.events) = 8 * k + 2
            /\ \A state \in Finished :
                  /\ Answered(state) \in Checkpoint /\ Answered(state).iteration = worker.cp.iteration
                  /\ IF direct THEN worker.cp.iteration = 1
                     ELSE k = known /\ Answered(state) = CpAfter(H, k, state)
    BY <1>1, <1>3, Calling
  <1>5. PICK cp, a, b, c : /\ cp = Answered("waiting_for_tool") /\ a = CallEnded(worker.key, "completed")
                           /\ b = StepCompleted(worker.key.round) /\ c = Save(cp)
    OBVIOUS
  <1>6. PICK new : new = AnswerEvents(cp)
    OBVIOUS
  <1>p. PICK place : place = from + Len(worker.events)
    OBVIOUS
  <1>7. /\ k \in Nat /\ place = 8 * k + 2 /\ k = known /\ Limit \in Nat
        /\ cp \in Checkpoint /\ cp = CpAfter(H, k, "waiting_for_tool")
    BY <1>4, <1>5, <1>p, LimitBounds DEF Finished
  <1>8. /\ worker'.pc = "loop" /\ worker'.cp = cp /\ worker'.events = worker.events \o new
        /\ worker'.refs = worker.refs /\ worker'.keys = worker.keys
    <2>1. worker' = [worker EXCEPT !.pc = "loop", !.cp = cp, !.events = @ \o new]
      BY <1>5, <1>6 DEF AnswerTool
    <2> QED
      BY <2>1 DEF MInv, KInv, WorkerShape
  <1>9. /\ a \in Event /\ b \in Event /\ c \in Event
        /\ a.ev # "TOOL_CALL_COMPLETED" /\ b.ev # "TOOL_CALL_COMPLETED" /\ c.ev # "TOOL_CALL_COMPLETED"
    BY <1>4, <1>5, <1>7, AnswerEventTypes
  <1>10. new \in Seq(Event) /\ Len(new) = 3 /\ new[1] = a /\ new[2] = b /\ new[3] = c
    BY <1>5, <1>6, <1>9, ThreeEvents DEF AnswerEvents
  <1>11. \A last : /\ Fits(a, place + 1, H, known, worker.refs, last, direct)
                   /\ Fits(b, place + 2, H, known, worker.refs, last, direct)
                   /\ Fits(c, place + 3, H, known, worker.refs, last, direct)
    <2> TAKE last
    <2>1. place + 1 = 8 * k + 3 /\ place + 2 = 8 * k + 4 /\ place + 3 = 8 * k + 5
      BY <1>7
    <2>2. \E state \in Finished : cp = CpAfter(H, k, state)
      BY <1>7 DEF Finished
    <2> QED
      BY <1>4, <1>5, <2>1, <2>2, AnswerFits
  <1>r. direct' = direct /\ tool' = tool
    BY <1>1 DEF rows
  <1>12. ASSUME NEW j \in 1..Len(new)
         PROVE  /\ Fits(new[j], place + j, H, known, worker.refs,
                        j = Len(new) /\ worker'.pc = "finish", direct)
                /\ new[j].ev # "TOOL_CALL_COMPLETED"
    <2>1. j = 1 \/ j = 2 \/ j = 3
      BY <1>10
    <2> QED
      BY <1>9, <1>10, <1>11, <2>1
  <1>13. /\ RowsFollow(H, known) /\ WorkerFollows(H, known, from)
         /\ RowsReached(H, known, from) /\ KeysFresh(H, known, from)
    BY <1>2, <1>3 DEF Follows
  <1>14. known \in Nat /\ known <= known /\ \A j \in 1..known : H[j] = H[j]
    BY <1>7
  <1>15. RowsFollow(H, known)'
    BY <1>1, <1>13 DEF RowsFollow, rows
  <1>16. Charged' = Charged
    BY <1>1, <1>2, <1>8 DEF Charged, Suspending
  <1>17. RowsReached(H, known, from)'
    BY <1>1, <1>2, <1>13, <1>14, <1>16, RowsReachedOn DEF rows
  <1>18. KeysFresh(H, known, from)'
    BY <1>1, <1>8, <1>13, KeysFreshOn DEF rows
  <1>19. /\ worker'.events \in Seq(Event)
         /\ Len(worker'.events) = Len(worker.events) + Len(new)
         /\ Reported(H, known, from)'
    <2>1. worker.events \in Seq(Event) /\ worker.pc # "finish" /\ Reported(H, known, from)
      BY <1>2, <1>13 DEF RowsType, Reported, WorkerFollows
    <2> QED
      BY <1>p, <1>r, <1>8, <1>10, <1>12, <1>14, <2>1, MoreReported
  <1>20. WorkerFollows(H, known, from)'
    <2>1. Len(worker.events) \in Nat
      BY <1>2, LenProperties DEF RowsType
    <2>a. Len(worker'.events) = Len(worker.events) + 3
      BY <1>10, <1>19
    <2>b. k \in Nat /\ from + Len(worker.events) = 8 * k + 2
      BY <1>p, <1>7
    <2>2. Top(from) = 8 * k + 3 /\ Top(from)' = 8 * k + 6
      BY <2>1, <2>a, <2>b DEF Top
    <2>3. cp.state # "reasoning" /\ cp.iteration = k /\ cp.context = k
      BY <1>7 DEF CpAfter
    <2>4. PlaceOf(cp) = 8 * k + 6
      BY <2>3 DEF PlaceOf
    <2>5. OnTheWay(cp, H, known)
      <3>1. k \in 1..known /\ "waiting_for_tool" \in Finished
        BY <1>7 DEF Finished
      <3> QED
        BY <1>7, <3>1 DEF OnTheWay
    <2>6. /\ PlaceOf(session.cp) \in Nat /\ PlaceOf(session.cp) <= Top(from)
          /\ \A r \in 1..Limit : 8 * r <= from + 1 => 8 * r <= PlaceOf(session.cp)
      <3>1. \E r \in Nat \ {0} : PlaceOf(session.cp) = 8 * r \/ PlaceOf(session.cp) = 8 * r + 6
        BY <1>13, WayCases DEF RowsFollow
      <3> QED
        BY <1>13, <3>1 DEF WorkerFollows
    <2>7. PlaceOf(session'.cp) <= Top(from)'
      BY <1>1, <1>7, <2>2, <2>6
    <2>8. worker.refs = session.selection
      BY <1>13 DEF WorkerFollows
    <2> QED
      BY <1>1, <1>7, <1>8, <1>19, <2>2, <2>3, <2>4, <2>5, <2>6, <2>7, <2>8 DEF WorkerFollows, Reported
  <1> QED
    BY <1>1, <1>2, <1>7, <1>8, <1>15, <1>17, <1>18, <1>19, <1>20, LoopMInv

\* The events with which a round begins, in their places.
LEMMA AskFits ==
  ASSUME NEW H \in Histories, NEW known \in 0..Limit, NEW k \in 1..Limit, k <= known,
         NEW refs, NEW last, H[k].round = k, k <= MaxIterations, refs \subseteq Items
  PROVE  /\ Fits(StepStarted(k), 8 * k, H, known, refs, last, direct)
         /\ Fits(ContextCreated(k, Snapshot(Prefix(H, k - 1), refs)), 8 * k + 1,
                 H, known, refs, last, direct)
         /\ Fits(CallStarted(H[k]), 8 * k + 2, H, known, refs, last, direct)
         /\ StepStarted(k) \in Event /\ StepStarted(k).ev # "TOOL_CALL_COMPLETED"
         /\ ContextCreated(k, Snapshot(Prefix(H, k - 1), refs)) \in Event
         /\ ContextCreated(k, Snapshot(Prefix(H, k - 1), refs)).ev # "TOOL_CALL_COMPLETED"
         /\ CallStarted(H[k]) \in Event /\ CallStarted(H[k]).ev # "TOOL_CALL_COMPLETED"
  <1>1. Fits(StepStarted(k), 8 * k, H, known, refs, last, direct)
    BY DEF Fits
  <1>2. Fits(ContextCreated(k, Snapshot(Prefix(H, k - 1), refs)), 8 * k + 1,
             H, known, refs, last, direct)
    BY DEF Fits
  <1>3. Fits(CallStarted(H[k]), 8 * k + 2, H, known, refs, last, direct)
    BY DEF Fits
  <1>4. StepStarted(k) \in Event /\ StepStarted(k).ev # "TOOL_CALL_COMPLETED"
    BY LimitBounds DEF StepStarted, Event
  <1>5. H[k] \in KeyType
    BY DEF Histories
  <1>6. CallStarted(H[k]) \in Event /\ CallStarted(H[k]).ev # "TOOL_CALL_COMPLETED"
    BY <1>5 DEF CallStarted, Event
  <1>7. k - 1 \in 0..Limit /\ k \in 1..MaxIterations
    BY LimitBounds
  <1>8. Prefix(H, k - 1) \in Seq(KeyType)
    BY <1>7, PrefixFacts
  <1>9. PICK s : s = Snapshot(Prefix(H, k - 1), refs)
    OBVIOUS
  <1>10. s \in ContextType
    BY <1>8, <1>9 DEF Snapshot, ContextType
  <1>11. ContextCreated(k, s) \in Event /\ ContextCreated(k, s).ev # "TOOL_CALL_COMPLETED"
    BY <1>7, <1>10 DEF ContextCreated, Event
  <1> QED
    BY <1>1, <1>2, <1>3, <1>4, <1>6, <1>9, <1>11

\* A round begins: its key is chosen, and its first events are reported.
LEMMA AskReported ==
  ASSUME MInv, LoopAt("loop"), direct' = direct, UNCHANGED rows,
         NEW H \in Histories, NEW G \in Histories, NEW known \in Nat, NEW later \in 0..Limit,
         known <= later, \A j \in 1..known : G[j] = H[j],
         NEW from \in Nat, Reported(H, known, from), worker.refs = session.selection,
         NEW k \in 1..Limit, k <= later, G[k].round = k, from + Len(worker.events) = 8 * k - 1,
         NEW history, history = Prefix(G, k - 1), NEW context, context = k,
         Ask(G[k], context, history)
  PROVE  /\ worker'.pc = "calling" /\ worker'.refs = worker.refs /\ worker'.keys = worker.keys
         /\ worker'.cp = worker.cp /\ worker'.key = G[k]
         /\ worker'.events \in Seq(Event) /\ Top(from)' = 8 * k + 3
         /\ Reported(G, later, from)'
  <1>1. RowsType /\ worker.pc = "loop" /\ worker.refs \subseteq Items
    BY DEF MInv, RowsType, SessionType, LoopAt
  <1>2. PICK a, b, c : /\ a = StepStarted(k) /\ b = ContextCreated(k, Snapshot(Prefix(G, k - 1), worker.refs))
                       /\ c = CallStarted(G[k])
    OBVIOUS
  <1>3. PICK new : new = <<a, b, c>>
    OBVIOUS
  <1>p. PICK place : place = from + Len(worker.events)
    OBVIOUS
  <1>q. k \in Nat /\ Len(worker.events) \in Nat
    BY <1>1, LimitBounds, LenProperties DEF RowsType
  <1>4. k \in Nat /\ k <= MaxIterations /\ worker.events \in Seq(Event)
    BY <1>1, LimitBounds, BudgetAssumption DEF RowsType
  <1>5. worker' = [worker EXCEPT !.pc = "calling", !.key = G[k], !.events = @ \o new]
    BY <1>2, <1>3 DEF Ask
  <1>6. /\ worker'.pc = "calling" /\ worker'.refs = worker.refs /\ worker'.keys = worker.keys
        /\ worker'.cp = worker.cp /\ worker'.key = G[k] /\ worker'.events = worker.events \o new
    BY <1>5 DEF MInv, KInv, WorkerShape
  <1>7. /\ a \in Event /\ b \in Event /\ c \in Event
        /\ a.ev # "TOOL_CALL_COMPLETED" /\ b.ev # "TOOL_CALL_COMPLETED" /\ c.ev # "TOOL_CALL_COMPLETED"
        /\ \A last : /\ Fits(a, place + 1, G, later, worker.refs, last, direct)
                     /\ Fits(b, place + 2, G, later, worker.refs, last, direct)
                     /\ Fits(c, place + 3, G, later, worker.refs, last, direct)
    <2>1. place + 1 = 8 * k /\ place + 2 = 8 * k + 1 /\ place + 3 = 8 * k + 2
      <3>1. place = 8 * k - 1
        BY <1>p
      <3>2. place + 1 = 8 * k
        BY <1>q, <3>1
      <3>3. place + 2 = 8 * k + 1
        BY <1>q, <3>1
      <3>4. place + 3 = 8 * k + 2
        BY <1>q, <3>1
      <3> QED
        BY <3>2, <3>3, <3>4
    <2> QED
      BY <1>1, <1>2, <1>4, <2>1, AskFits
  <1>8. new \in Seq(Event) /\ Len(new) = 3 /\ new[1] = a /\ new[2] = b /\ new[3] = c
    BY <1>3, <1>7, ThreeEvents
  <1>9. ASSUME NEW j \in 1..Len(new)
        PROVE  /\ Fits(new[j], place + j, G, later, worker.refs,
                       j = Len(new) /\ worker'.pc = "finish", direct)
               /\ new[j].ev # "TOOL_CALL_COMPLETED"
    <2>1. j = 1 \/ j = 2 \/ j = 3
      BY <1>8
    <2> QED
      BY <1>7, <1>8, <2>1
  <1>10. later \in Nat
    BY LimitBounds
  <1>11. /\ worker'.events \in Seq(Event)
         /\ Len(worker'.events) = Len(worker.events) + Len(new)
         /\ Reported(G, later, from)'
    <2>1. worker.pc # "finish" /\ tool' = tool
      BY <1>1 DEF rows
    <2> QED
      BY <2>1, <1>p, <1>4, <1>6, <1>8, <1>9, <1>10, MoreReported
  <1>12. Len(worker'.events) = Len(worker.events) + 3
    BY <1>8, <1>11
  <1>13. Top(from)' = 8 * k + 3
    BY <1>q, <1>12 DEF Top
  <1> QED
    BY <1>6, <1>11, <1>13

\* _execute_direct begins its one round.
LEMMA StartDirectMInv ==
  ASSUME MInv, KInv', StartDirect
  PROVE  MInv'
  <1>1. /\ direct /\ LoopAt("loop") /\ run = "running" /\ worker.pc = "loop"
        /\ UNCHANGED <<direct, session, rows, run, takeovers>> /\ Ask(Key(1, 0), 1, <<>>)
    BY DEF StartDirect, LoopAt
  <1>2. Looping /\ ~ Suspending /\ RowsType
    BY <1>1 DEF Looping, Suspending, MInv
  <1>3. PICK H \in Histories, known \in 0..Limit, from \in Nat : Follows(H, known, from)
    BY DEF MInv
  <1>4. /\ RowsFollow(H, known) /\ WorkerFollows(H, known, from) /\ RowsReached(H, known, from)
    BY <1>2, <1>3 DEF Follows
  <1>5. PICK G : G = [H EXCEPT ![1] = Key(1, 0)]
    OBVIOUS
  <1>6. 1 \in 1..Limit /\ 1 \in 0..Limit /\ 1 \in Nat /\ Limit \in Nat
    BY LimitBounds
  <1>7. G \in Histories /\ G[1] = Key(1, 0) /\ G[1].round = 1
    <2>1. Key(1, 0) \in KeyType /\ Key(1, 0).round = 1
      BY DEF Key, KeyType
    <2>2. H \in [1..Limit -> KeyType]
      BY DEF Histories
    <2> QED
      BY <1>5, <1>6, <2>1, <2>2 DEF Histories
  <1>8. from = 7 /\ worker.events = <<>> /\ worker.refs = session.selection /\ worker.cp.iteration = 1
    BY <1>1, <1>4 DEF WorkerFollows
  <1>9. Len(worker.events) = 0 /\ from + Len(worker.events) = 8 * 1 - 1
    BY <1>8, EmptySeq
  <1>10. Reported(G, 1, from)
    BY <1>9 DEF Reported
  <1>11. /\ worker'.pc = "calling" /\ worker'.refs = worker.refs /\ worker'.keys = worker.keys
         /\ worker'.cp = worker.cp /\ worker'.key = G[1]
         /\ worker'.events \in Seq(Event) /\ Top(from)' = 8 * 1 + 3
         /\ Reported(G, 1, from)'
    <2>1. 1 <= 1 /\ \A j \in 1..1 : G[j] = G[j]
      OBVIOUS
    <2>2. PICK history, context, k : history = <<>> /\ context = 1 /\ k = 1
      OBVIOUS
    <2>3. history = Prefix(G, k - 1)
      BY <2>2, PrefixEmpty
    <2>4. Ask(G[k], context, history)
      BY <1>1, <1>7, <2>2
    <2> QED
      BY <1>1, <1>6, <1>7, <1>8, <1>9, <1>10, <2>1, <2>2, <2>3, <2>4, AskReported
  <1>12. RowsFollow(G, 1)'
    <2>1. session'.cp.iteration = 1
      BY <1>1, <1>4 DEF RowsFollow
    <2> QED
      BY <1>1, <1>7, <2>1 DEF RowsFollow
  <1>13. WorkerFollows(G, 1, from)'
    <2>1. Top(from)' = 11
      BY <1>11
    <2> QED
      BY <1>1, <1>8, <1>11, <2>1 DEF WorkerFollows, Reported
  <1>14. RowsReached(G, 1, from)'
    <2>1. \A r \in 1..Limit : /\ from \notin (8 * r + 1)..(8 * r + 4) /\ from \notin (8 * r + 2)..(8 * r + 4)
                              /\ from # 8 * r + 2 /\ from # 8 * r + 3 /\ from # 8 * r + 5
      BY <1>6, <1>8
    <2>2. \A c \in DOMAIN calls : calls[c].status = "streaming" => from = 8 * calls[c].key.round + 2
      BY <1>4 DEF RowsReached
    <2> QED
      BY <1>1, <2>1, <2>2 DEF RowsReached, rows
  <1>15. KeysFresh(G, 1, from)'
    BY <1>1 DEF KeysFresh
  <1>16. worker'.cp \in Checkpoint
    BY <1>2, <1>11 DEF RowsType
  <1> QED
    BY <1>1, <1>6, <1>7, <1>11, <1>12, <1>13, <1>14, <1>15, <1>16, LoopMInv

\* A round of _execute_react begins, under a key that no earlier call has.
LEMMA StartRoundMInv ==
  ASSUME MInv, KInv', StartRound
  PROVE  MInv'
  <1>1. /\ ~ direct /\ LoopAt("loop") /\ run = "running" /\ worker.pc = "loop"
        /\ worker.cp.state = "reasoning" /\ BudgetLeft
        /\ UNCHANGED <<direct, session, rows, run, takeovers>>
        /\ Ask(NextKey(worker.cp.iteration), worker.cp.context + 1, worker.cp.history)
    BY DEF StartRound, LoopAt
  <1>2. Looping /\ ~ Suspending /\ RowsType /\ CallsFit
    BY <1>1 DEF Looping, Suspending, MInv
  <1>3. PICK H \in Histories, known \in 0..Limit, from \in Nat : Follows(H, known, from)
    BY DEF MInv
  <1>4. /\ RowsFollow(H, known) /\ WorkerFollows(H, known, from)
        /\ RowsReached(H, known, from) /\ KeysFresh(H, known, from)
    BY <1>2, <1>3 DEF Follows
  <1>5. /\ OnTheWay(worker.cp, H, known) /\ worker.cp.context = known
        /\ Top(from) = PlaceOf(worker.cp)
    BY <1>1, <1>4 DEF WorkerFollows
  <1>6. PICK k \in Nat \ {0} :
           /\ k <= known + 1 /\ worker.cp = CpBefore(H, k) /\ worker.cp.iteration = k
           /\ worker.cp.context = k - 1 /\ worker.cp.usage = k - 1
           /\ worker.cp.history = Prefix(H, k - 1) /\ PlaceOf(worker.cp) = 8 * k
    <2>1. worker.cp.state \notin Finished
      BY <1>1 DEF Finished
    <2> QED
      BY <1>5, <2>1, WayCases
  <1>7. known = k - 1 /\ k \in 1..Limit /\ known \in Nat /\ Limit \in Nat /\ k \in 0..Limit /\ known <= k
    <2>1. known = k - 1
      BY <1>5, <1>6
    <2>2. k <= MaxIterations /\ k - 1 < TokenLimit
      BY <1>1, <1>6 DEF BudgetLeft
    <2>3. k <= Limit
      BY <1>6, <2>2, BudgetAssumption DEF Limit, LeastOf
    <2> QED
      BY <2>1, <2>3, LimitBounds
  <1>8. IsFiniteSet(worker.keys) /\ (\A key \in worker.keys : CallWith(key) # {})
    BY <1>1, <1>4 DEF KeysFresh
  <1>9. PICK n \in Nat :
            /\ NextKey(k) = Key(k, n)
            /\ \A key \in worker.keys : key.round = k => key.replay # n
            /\ n > 0 => \E key \in worker.keys : key.round = k /\ key.replay = 0
    BY <1>8, NextKeyFresh
  <1>10. PICK G : G = [H EXCEPT ![k] = Key(k, n)]
    OBVIOUS
  <1>11. /\ G \in Histories /\ G[k] = Key(k, n) /\ G[k].round = k /\ G[k].replay = n
         /\ \A j \in 1..known : G[j] = H[j]
    <2>1. Key(k, n) \in KeyType /\ Key(k, n).round = k /\ Key(k, n).replay = n
      BY DEF Key, KeyType
    <2>2. H \in [1..Limit -> KeyType]
      BY DEF Histories
    <2>3. G \in Histories /\ G[k] = Key(k, n)
      BY <1>7, <1>10, <2>1, <2>2 DEF Histories
    <2>4. \A j \in 1..known : j \in 1..Limit /\ j # k
      BY <1>7
    <2>5. \A j \in 1..known : G[j] = H[j]
      BY <1>10, <2>2, <2>4
    <2> QED
      BY <2>1, <2>3, <2>5
  <1>12. /\ CallWith(Key(k, n)) = {}
         /\ n > 0 => CallWith(Key(k, 0)) # {}
    <2>1. ASSUME NEW c \in DOMAIN calls, calls[c].key = Key(k, n)
          PROVE  FALSE
      <3>1. calls[c].key.round = k /\ calls[c].key.replay = n
        BY <2>1 DEF Key
      <3>2. \/ calls[c].key \in worker.keys
            \/ calls[c].key.round <= known
        BY <1>1, <1>4 DEF KeysFresh
      <3> QED
        BY <1>7, <1>9, <3>1, <3>2
    <2>2. ASSUME n > 0 PROVE CallWith(Key(k, 0)) # {}
      <3>1. PICK key \in worker.keys : key.round = k /\ key.replay = 0
        BY <1>9, <2>2
      <3>2. PICK c \in DOMAIN calls : calls[c].key = key
        BY <1>8 DEF CallWith
      <3>3. key \in KeyType
        BY <1>2, <3>2, RoundsType DEF CallType
      <3>4. key = Key(k, 0)
        BY <3>1, <3>3 DEF KeyType, Key
      <3> QED
        BY <3>2, <3>4 DEF CallWith
    <2> QED
      BY <2>1, <2>2 DEF CallWith
  <1>13. \A r \in 1..k : G[r].round = r
    <2>1. \A r \in 1..known : H[r].round = r
      BY <1>4 DEF RowsFollow
    <2>2. \A r \in 1..k : r = k \/ r \in 1..known
      BY <1>7
    <2> QED
      BY <1>11, <2>1, <2>2
  <1>14. Prefix(G, k - 1) = Prefix(H, k - 1) /\ CpBefore(G, k) = CpBefore(H, k)
    <2>1. Prefix(G, known) = Prefix(H, known)
      BY <1>11 DEF Prefix
    <2> QED
      BY <1>7, <2>1 DEF CpBefore
  <1>15. from + Len(worker.events) = 8 * k - 1 /\ Len(worker.events) \in Nat
    <2>1. Len(worker.events) \in Nat
      BY <1>2, LenProperties DEF RowsType
    <2> QED
      BY <1>5, <1>6, <2>1 DEF Top
  <1>16. worker.refs = session.selection /\ Reported(H, known, from)
    BY <1>4 DEF WorkerFollows, Reported
  <1>17. /\ worker'.pc = "calling" /\ worker'.refs = worker.refs /\ worker'.keys = worker.keys
         /\ worker'.cp = worker.cp /\ worker'.key = G[k]
         /\ worker'.events \in Seq(Event) /\ Top(from)' = 8 * k + 3
         /\ Reported(G, k, from)'
    <2>1. PICK history, context : history = Prefix(G, k - 1) /\ context = k
      OBVIOUS
    <2>2. worker.cp.context + 1 = k
      BY <1>6
    <2>3. Ask(G[k], context, history)
      BY <1>1, <1>6, <1>9, <1>11, <1>14, <2>1, <2>2
    <2>4. direct' = direct /\ UNCHANGED rows /\ k <= k /\ LoopAt("loop")
      BY <1>1, <1>6
    <2> QED
      BY <1>7, <1>11, <1>15, <1>16, <2>1, <2>3, <2>4, AskReported
  <1>18. RowsFollow(G, k)'
    BY <1>1, <1>4, <1>7, <1>11, <1>13, RowsFollowOn DEF rows
  <1>19. Charged' = Charged
    BY <1>1, <1>2, <1>17 DEF Charged, Suspending
  <1>20. RowsReached(G, k, from)'
    BY <1>1, <1>4, <1>7, <1>11, <1>19, RowsReachedOn DEF rows
  <1>21. KeysFresh(G, k, from)'
    <2>1. /\ calls' = calls /\ worker'.keys = worker.keys /\ direct' = direct
          /\ \A key : CallWith(key)' = CallWith(key)
      BY <1>1, <1>17 DEF rows, CallWith
    <2>2. \A c \in DOMAIN calls : \/ calls[c].key \in worker.keys
                                  \/ calls[c].key.round <= known /\ 8 * calls[c].key.round + 2 <= from
      BY <1>1, <1>4 DEF KeysFresh
    <2>3. \A c \in DOMAIN calls : calls[c].key.round \in Nat
      BY <1>2, RoundsType DEF CallType, KeyType
    <2>4. \A c \in DOMAIN calls : \/ calls[c].key \in worker.keys
                                  \/ calls[c].key.round <= k /\ 8 * calls[c].key.round + 2 <= from
      BY <1>7, <2>2, <2>3
    <2>5. \A r \in 1..known : 8 * r + 2 > from =>
              CallWith(H[r]) = {} /\ (H[r].replay > 0 => CallWith(Key(r, 0)) # {})
      BY <1>1, <1>4 DEF KeysFresh
    <2>6. ASSUME NEW r \in 1..k, 8 * r + 2 > from
          PROVE  CallWith(G[r]) = {} /\ (G[r].replay > 0 => CallWith(Key(r, 0)) # {})
      <3>1. CASE r = k
        BY <1>11, <1>12, <3>1
      <3>2. CASE r # k
        <4>1. r \in 1..known /\ G[r] = H[r]
          BY <1>7, <1>11, <3>2
        <4> QED
          BY <2>5, <2>6, <4>1
      <3> QED
        BY <3>1, <3>2
    <2> QED
      BY <1>8, <2>1, <2>4, <2>6 DEF KeysFresh
  <1>22. WorkerFollows(G, k, from)'
    <2>1. /\ PlaceOf(session.cp) \in Nat /\ PlaceOf(session.cp) <= 8 * k
          /\ \A r \in 1..Limit : 8 * r <= from + 1 => 8 * r <= PlaceOf(session.cp)
      <3>1. \E r \in Nat \ {0} : PlaceOf(session.cp) = 8 * r \/ PlaceOf(session.cp) = 8 * r + 6
        BY <1>1, <1>4, WayCases DEF RowsFollow
      <3> QED
        BY <1>1, <1>4, <1>5, <1>6, <3>1 DEF WorkerFollows
    <2>2. PlaceOf(session.cp) <= 8 * k + 3
      BY <1>6, <2>1
    <2> QED
      BY <1>1, <1>6, <1>7, <1>14, <1>16, <1>17, <2>1, <2>2 DEF WorkerFollows, Reported, Suspending
  <1>23. worker'.cp \in Checkpoint
    BY <1>2, <1>17 DEF RowsType
  <1> QED
    BY <1>1, <1>7, <1>11, <1>17, <1>18, <1>20, <1>21, <1>22, <1>23, LoopMInv

-----------------------------------------------------------------------------
(* The gateway begins a call.                                              *)

LEMMA GatewayRows ==
  ASSUME MInv, GatewayBegins, UNCHANGED <<direct, usages, contexts, calls, reasoning>>,
         NEW H \in Histories, NEW known \in 0..Limit, NEW from \in Nat, Follows(H, known, from)
  PROVE  /\ known \in 1..Limit /\ known \in Nat /\ worker.cp = CpAfter(H, known, worker.cp.state)
         /\ worker.cp.state \in Finished /\ worker.cp.iteration = known /\ worker.cp.context = known
         /\ worker.cp.usage = known /\ worker.cp.history = Prefix(H, known)
         /\ Top(from) = 8 * known + 6 /\ PlaceOf(worker.cp) = 8 * known + 6
         /\ OnTheWay(worker.cp, H, known)
         /\ session' \in SessionType /\ session'.context = session.context
         /\ session'.call = session.call /\ session'.selection = session.selection
         /\ session'.cp = worker.cp
         /\ tool' \in [1..MaxIterations -> StepType] /\ tool'[known].status # "none"
         /\ \A r \in 1..MaxIterations : r # known => tool'[r] = tool[r]
         /\ \A r \in 1..Limit : tool[r].status # "none" => tool'[r].status # "none"
         /\ \A r \in 1..Limit : 8 * r + 6 <= from => tool'[r] = tool[r]
         /\ ContextsFrozen' /\ CallsFit' /\ StepsBound' /\ UsageMatchesRows'
         /\ RowsFollow(H, known)'
         /\ \A r \in 1..Limit : 8 * r <= from + 1 => 8 * r <= 8 * known + 6
  <1>0. Limit \in Nat /\ \A r \in 1..Limit : r \in 1..MaxIterations
    BY LimitBounds, BudgetAssumption
  <1>1. /\ ~ direct /\ run = "running" /\ worker.pc = "loop" /\ worker.cp.state = "waiting_for_tool"
        /\ session' = [session EXCEPT !.cp = worker.cp]
    BY DEF GatewayBegins, LoopAt
  <1>2. /\ Looping /\ RowsType /\ CallsFit /\ ContextsFrozen /\ StepsBound /\ UsageMatchesRows
    BY <1>1 DEF Looping, MInv
  <1>3. RowsFollow(H, known) /\ WorkerFollows(H, known, from) /\ RowsReached(H, known, from)
    BY <1>2 DEF Follows
  <1>4. /\ OnTheWay(worker.cp, H, known) /\ worker.cp.context = known
        /\ Top(from) = PlaceOf(worker.cp)
    BY <1>1, <1>3 DEF WorkerFollows
  <1>5. PICK r \in Nat \ {0} :
           /\ r <= known /\ worker.cp.state \in Finished /\ worker.cp = CpAfter(H, r, worker.cp.state)
           /\ worker.cp.iteration = r /\ worker.cp.context = r /\ worker.cp.usage = r
           /\ worker.cp.history = Prefix(H, r) /\ PlaceOf(worker.cp) = 8 * r + 6
    BY <1>1, <1>4, WayCases
  <1>6. r = known /\ known \in 1..Limit /\ known \in Nat
    BY <1>0, <1>4, <1>5
  <1>7. /\ session' \in SessionType /\ session'.context = session.context
        /\ session'.call = session.call /\ session'.selection = session.selection
        /\ session'.cp = worker.cp /\ session.context \in Nat /\ session.call \in Nat
        /\ session.call <= Len(calls)
    <2>1. session \in SessionType /\ worker.cp \in Checkpoint /\ session.call <= Len(calls)
      BY <1>2 DEF RowsType
    <2>2. session.context \in Nat /\ session.call \in Nat
      BY <2>1, BudgetAssumption DEF SessionType
    <2>3. /\ session' \in SessionType /\ session'.context = session.context
          /\ session'.call = session.call /\ session'.selection = session.selection
          /\ session'.cp = worker.cp
      BY <1>1, <2>1 DEF SessionType
    <2> QED
      BY <2>1, <2>2, <2>3
  <1>8. PICK step : step = [status |-> "running", context |-> session.context, call |-> session.call]
    OBVIOUS
  <1>9. step \in StepType /\ step.status = "running" /\ step.call = session.call
    BY <1>7, <1>8 DEF StepType
  <1>10. tool' = IF tool[known].status # "none" THEN tool ELSE [tool EXCEPT ![known] = step]
    BY <1>5, <1>6, <1>8 DEF GatewayBegins
  <1>11. tool \in [1..MaxIterations -> StepType] /\ known \in 1..MaxIterations
    BY <1>0, <1>2, <1>6 DEF RowsType
  <1>12. /\ tool' \in [1..MaxIterations -> StepType] /\ tool'[known].status # "none"
         /\ tool'[known] = tool[known] \/ tool'[known] = step
         /\ \A q \in 1..MaxIterations : q # known => tool'[q] = tool[q]
    BY <1>9, <1>10, <1>11
  <1>13. \A q \in 1..Limit : tool[q].status # "none" => tool'[q].status # "none"
    BY <1>0, <1>12
  <1>14. Top(from) = 8 * known + 6 /\ PlaceOf(worker.cp) = 8 * known + 6
    BY <1>4, <1>5, <1>6
  <1>15. from + 1 <= 8 * known + 6
    <2>1. Len(worker.events) \in Nat
      BY <1>2, LenProperties DEF RowsType
    <2> QED
      BY <1>6, <1>14, <2>1 DEF Top
  <1>16. \A q \in 1..Limit : 8 * q + 6 <= from => tool'[q] = tool[q]
    <2> SUFFICES ASSUME NEW q \in 1..Limit, 8 * q + 6 <= from PROVE tool'[q] = tool[q]
      OBVIOUS
    <2>1. q # known
      BY <1>0, <1>6, <1>15
    <2> QED
      BY <1>0, <1>12, <2>1
  <1>17. \A q \in 1..Limit : 8 * q <= from + 1 => 8 * q <= 8 * known + 6
    BY <1>0, <1>6, <1>15
  <1>18. ContextsFrozen' /\ CallsFit' /\ UsageMatchesRows'
    <2>1. ContextsFrozen'
      BY <1>2, <1>7 DEF ContextsFrozen
    <2>2. CallsFit'
      BY <1>2, <1>7 DEF CallsFit
    <2>3. UsageMatchesRows'
      BY <1>2 DEF UsageMatchesRows
    <2> QED
      BY <2>1, <2>2, <2>3
  <1>19. StepsBound'
    <2>1. session.call # 0 => calls[session.call].key.round <= known
      <3> SUFFICES ASSUME session.call # 0 PROVE calls[session.call].key.round <= known
        OBVIOUS
      <3>1. PICK c : c = session.call
        OBVIOUS
      <3>2. c \in DOMAIN calls
        BY <1>2, <1>7, <3>1, RoundsType
      <3>3. calls[c] \in CallType
        BY <1>2, <3>2, RoundsType
      <3>4. contexts[calls[c].context].recorded /\ calls[c].key.round = calls[c].context
        BY <1>2, <3>2 DEF CallsFit
      <3>5. calls[c].context \in 1..MaxIterations /\ calls[c].context \in Nat
        BY <3>3, BudgetAssumption DEF CallType
      <3>6. 8 * calls[c].context <= from + 1
        BY <1>1, <1>3, <3>4, <3>5 DEF RowsReached
      <3> QED
        BY <1>6, <1>15, <3>1, <3>4, <3>5, <3>6
    <2>2. session.call \in 0..Len(calls)
      BY <1>2, <1>7, RoundsType
    <2>3. ASSUME NEW q \in 1..MaxIterations
          PROVE  tool'[q].call \in 0..Len(calls)
                    /\ (tool'[q].call # 0 => calls[tool'[q].call].key.round <= q)
      <3>1. tool[q].call \in 0..Len(calls) /\ (tool[q].call # 0 => calls[tool[q].call].key.round <= q)
        BY <1>2 DEF StepsBound
      <3>2. CASE tool'[q] = tool[q]
        BY <3>1, <3>2
      <3>3. CASE q = known /\ tool'[q] = step
        BY <1>9, <2>1, <2>2, <3>3
      <3> QED
        BY <1>12, <3>2, <3>3
    <2> QED
      BY <1>1, <1>2, <2>3 DEF StepsBound
  <1>20. RowsFollow(H, known)'
    <2>1. known <= known /\ (\A j \in 1..known : H[j] = H[j]) /\ \A j \in 1..known : H[j].round = j
      BY <1>3, <1>6 DEF RowsFollow
    <2>2. PlaceOf(session.cp) <= PlaceOf(session'.cp)
      BY <1>1, <1>3, <1>4, <1>7 DEF WorkerFollows
    <2> QED
      BY <1>1, <1>3, <1>4, <1>7, <2>1, <2>2, RowsFollowOn
  <1> QED
    BY <1>4, <1>5, <1>6, <1>7, <1>12, <1>13, <1>14, <1>16, <1>17, <1>18, <1>19, <1>20

\* A step in which the gateway begins a call.
LEMMA GatewayMInv ==
  ASSUME MInv, KInv', GatewayBegins, UNCHANGED <<direct, usages, contexts, calls, reasoning, run>>,
         NEW H \in Histories, NEW known \in 0..Limit, NEW from \in Nat, Follows(H, known, from),
         Looping', takeovers' \in Nat, takeovers' = 0 => takeovers = 0, Charged' = Charged,
         Suspending' => takeovers' > 0,
         worker'.events \in Seq(Event), worker'.cp \in Checkpoint, worker'.keys = worker.keys,
         WorkerFollows(H, known, from)'
  PROVE  MInv'
  <1>1. /\ ~ direct /\ run = "running" /\ worker.pc = "loop"
    BY DEF GatewayBegins, LoopAt
  <1>2. Looping /\ RowsType /\ RunFollowed /\ CallsOwed /\ RowsReached(H, known, from) /\ KeysFresh(H, known, from)
    BY <1>1 DEF Looping, MInv, Follows
  <1>3. /\ session' \in SessionType /\ session'.context = session.context
        /\ session'.call = session.call /\ session'.selection = session.selection
        /\ tool' \in [1..MaxIterations -> StepType]
        /\ \A r \in 1..Limit : 8 * r + 6 <= from => tool'[r] = tool[r]
        /\ ContextsFrozen' /\ CallsFit' /\ StepsBound' /\ UsageMatchesRows'
        /\ RowsFollow(H, known)'
    BY GatewayRows
  <1>4. RowsType'
    BY <1>2, <1>3 DEF RowsType
  <1>5. RunFollowed'
    BY <1>1, <1>2, <1>3 DEF RunFollowed, Looping
  <1>6. Rounds' = Rounds
    BY DEF Rounds
  <1>7. CallsOwed'
    BY <1>2, <1>6 DEF CallsOwed
  <1>8. RowsReached(H, known, from)'
    <2>1. known <= known /\ \A j \in 1..known : H[j] = H[j]
      BY LimitBounds
    <2> QED
      BY <1>1, <1>2, <1>3, <2>1, RowsReachedOn
  <1>9. KeysFresh(H, known, from)'
    BY <1>2, KeysFreshOn
  <1>10. Follows(H, known, from)'
    BY <1>3, <1>8, <1>9 DEF Follows
  <1>11. (\E G \in Histories, n \in 0..Limit, place \in Nat : Follows(G, n, place))'
    BY <1>10
  <1> QED
    BY <1>3, <1>4, <1>5, <1>7, <1>11 DEF MInv

\* The tool returns, and the next round begins.
LEMMA RunToolMInv ==
  ASSUME MInv, KInv', RunTool
  PROVE  MInv'
  <1>1. /\ ~ direct /\ run = "running" /\ worker.pc = "loop" /\ GatewayBegins
        /\ UNCHANGED <<direct, usages, contexts, calls, reasoning, run, takeovers>>
    BY DEF RunTool, GatewayBegins, LoopAt, rows
  <1>2. PICK H \in Histories, known \in 0..Limit, from \in Nat : Follows(H, known, from)
    BY DEF MInv
  <1>3. Looping /\ ~ Suspending /\ RowsType
    BY <1>1 DEF Looping, Suspending, MInv
  <1>4. WorkerFollows(H, known, from)
    BY <1>2, <1>3 DEF Follows
  <1>5. /\ known \in 1..Limit /\ known \in Nat /\ worker.cp = CpAfter(H, known, worker.cp.state)
        /\ worker.cp.iteration = known /\ worker.cp.context = known
        /\ worker.cp.usage = known /\ worker.cp.history = Prefix(H, known)
        /\ Top(from) = 8 * known + 6 /\ PlaceOf(worker.cp) = 8 * known + 6
        /\ session'.selection = session.selection /\ session'.cp = worker.cp
        /\ tool'[known].status # "none"
        /\ \A r \in 1..Limit : tool[r].status # "none" => tool'[r].status # "none"
        /\ \A r \in 1..Limit : 8 * r <= from + 1 => 8 * r <= 8 * known + 6
    BY <1>1, <1>2, GatewayRows
  <1>6. PICK cp : cp = [worker.cp EXCEPT !.state = "reasoning", !.iteration = @ + 1]
    OBVIOUS
  <1>7. cp = CpBefore(H, known + 1)
    <2>a. PICK next : next = known + 1
      OBVIOUS
    <2>b. cp = [worker.cp EXCEPT !.state = "reasoning", !.iteration = next]
      BY <1>5, <1>6, <2>a
    <2>c. worker.cp \in Checkpoint
      BY <1>3 DEF RowsType
    <2>d. cp = [state |-> "reasoning", iteration |-> next, context |-> worker.cp.context,
                history |-> worker.cp.history, usage |-> worker.cp.usage]
      BY <2>b, <2>c DEF Checkpoint
    <2>2. cp = [state |-> "reasoning", iteration |-> known + 1, context |-> known,
                history |-> Prefix(H, known), usage |-> known]
      BY <1>5, <2>a, <2>d
    <2>3. (known + 1) - 1 = known
      BY <1>5
    <2> QED
      BY <2>2, <2>3 DEF CpBefore
  <1>8. /\ cp \in Checkpoint /\ cp.context = known /\ PlaceOf(cp) = 8 * known + 8
        /\ OnTheWay(cp, H, known)
    <2>1. /\ cp.state = "reasoning" /\ cp.iteration = known + 1 /\ cp.context = known
          /\ cp.history = Prefix(H, known) /\ cp.usage = known
      BY <1>5, <1>7 DEF CpBefore
    <2>2. Prefix(H, known) \in Seq(KeyType)
      BY PrefixFacts
    <2>3. cp \in Checkpoint
      <3>1. known + 1 \in Nat /\ (known + 1) - 1 = known
        BY <1>5
      <3> QED
        BY <1>5, <1>7, <2>2, <3>1 DEF CpBefore, Checkpoint
    <2>4. known + 1 \in 1..(known + 1)
      BY <1>5
    <2> QED
      BY <1>5, <1>7, <2>1, <2>3, <2>4 DEF PlaceOf, OnTheWay
  <1>9. PICK a, b : a = ToolCompleted(known) /\ b = Save(cp)
    OBVIOUS
  <1>10. PICK new : new = <<a, b>>
    OBVIOUS
  <1>11. worker' = [worker EXCEPT !.cp = cp, !.events = @ \o new]
    BY <1>5, <1>6, <1>9, <1>10 DEF RunTool
  <1>12. /\ worker'.pc = "loop" /\ worker'.cp = cp /\ worker'.events = worker.events \o new
         /\ worker'.refs = worker.refs /\ worker'.keys = worker.keys
    BY <1>1, <1>11 DEF MInv, KInv, WorkerShape
  <1>13. /\ a \in Event /\ b \in Event /\ a.round = known
         /\ b.ev # "TOOL_CALL_COMPLETED"
    <2>1. a \in Event /\ a.round = known
      BY <1>5, <1>9 DEF ToolCompleted, Event
    <2>2. b \in Event /\ b.ev # "TOOL_CALL_COMPLETED"
      BY <1>8, <1>9 DEF Save, Event
    <2> QED
      BY <2>1, <2>2
  <1>14. new \in Seq(Event) /\ Len(new) = 2 /\ new[1] = a /\ new[2] = b
    BY <1>10, <1>13, TwoEvents
  <1>15. PICK place : place = from + Len(worker.events)
    OBVIOUS
  <1>16. Len(worker.events) \in Nat
    BY <1>3, LenProperties DEF RowsType
  <1>k. known \in Nat /\ Top(from) = 8 * known + 6
    BY <1>5
  <1>17. place = 8 * known + 5
    BY <1>k, <1>15, <1>16 DEF Top
  <1>18. \A last : /\ Fits(a, 8 * known + 6, H, known, worker.refs, last, direct)
                   /\ Fits(b, 8 * known + 7, H, known, worker.refs, last, direct)
    <2> TAKE last
    <2>1. known <= known
      BY <1>5
    <2>2. Fits(a, 8 * known + 6, H, known, worker.refs, last, direct)
      BY <1>1, <1>5, <1>9, <2>1 DEF Fits
    <2>3. Fits(b, 8 * known + 7, H, known, worker.refs, last, direct)
      BY <1>1, <1>5, <1>7, <1>9, <2>1 DEF Fits
    <2> QED
      BY <2>2, <2>3
  <1>19. ASSUME NEW j \in 1..Len(new)
         PROVE  /\ Fits(new[j], place + j, H, known, worker.refs,
                        j = Len(new) /\ worker'.pc = "finish", direct)
                /\ new[j].ev = "TOOL_CALL_COMPLETED" => tool'[new[j].round].status # "none"
    <2>1. CASE j = 1
      <3>1. place + 1 = 8 * known + 6
        BY <1>5, <1>17
      <3> QED
        BY <1>5, <1>13, <1>14, <1>18, <2>1, <3>1
    <2>2. CASE j = 2
      <3>1. place + 2 = 8 * known + 7
        BY <1>5, <1>17
      <3> QED
        BY <1>13, <1>14, <1>18, <2>2, <3>1
    <2>3. j = 1 \/ j = 2
      BY <1>14
    <2> QED
      BY <2>1, <2>2, <2>3
  <1>20. /\ worker'.events \in Seq(Event)
         /\ Len(worker'.events) = Len(worker.events) + Len(new)
         /\ Reported(H, known, from)'
    <2>1. worker.events \in Seq(Event) /\ worker.pc # "finish" /\ Reported(H, known, from)
      BY <1>1, <1>3, <1>4 DEF RowsType, Reported, WorkerFollows
    <2>2. known <= known /\ \A j \in 1..known : H[j] = H[j]
      BY <1>5
    <2>3. direct' = direct
      BY <1>1
    <2> QED
      BY <1>5, <1>12, <1>14, <1>15, <1>19, <2>1, <2>2, <2>3, MoreReported
  <1>21. Looping' /\ ~ Suspending' /\ Charged' = Charged
    BY <1>1, <1>3, <1>12 DEF Looping, Suspending, Charged
  <1>22. WorkerFollows(H, known, from)'
    <2>1. Len(worker'.events) = Len(worker.events) + 2
      BY <1>14, <1>20
    <2>2. from + Len(worker.events) = 8 * known + 5
      BY <1>15, <1>17
    <2>3. Top(from)' = 8 * known + 8
      BY <1>k, <1>16, <2>1, <2>2 DEF Top
    <2>4. 8 * known + 6 <= 8 * known + 8 /\ worker.refs = session.selection
      BY <1>4, <1>5 DEF WorkerFollows
    <2> QED
      BY <1>1, <1>5, <1>8, <1>12, <1>20, <1>21, <2>3, <2>4 DEF WorkerFollows, Reported
  <1>23. takeovers' \in Nat /\ takeovers' = takeovers
    BY <1>1, <1>3 DEF RowsType
  <1> QED
    BY <1>1, <1>2, <1>8, <1>12, <1>20, <1>21, <1>22, <1>23, GatewayMInv

\* The call is refused, or waits for an approval.
LEMMA ToolStopsMInv ==
  ASSUME MInv, KInv', ToolRaises \/ ToolNeedsApproval
  PROVE  MInv'
  <1>1. /\ ~ direct /\ run = "running" /\ worker.pc = "loop" /\ GatewayBegins
        /\ UNCHANGED <<direct, usages, contexts, calls, reasoning, run>>
        /\ \/ takeovers' = takeovers /\ Finish("failed", <<>>)
           \/ takeovers' = takeovers + 1 /\ Finish("suspended", <<>>)
    BY DEF ToolRaises, ToolNeedsApproval, GatewayBegins, LoopAt, rows
  <1>2. PICK H \in Histories, known \in 0..Limit, from \in Nat : Follows(H, known, from)
    BY DEF MInv
  <1>3. Looping /\ ~ Suspending /\ RowsType
    BY <1>1 DEF Looping, Suspending, MInv
  <1>4. WorkerFollows(H, known, from)
    BY <1>2, <1>3 DEF Follows
  <1>5. /\ known \in 1..Limit /\ known \in Nat /\ worker.cp.context = known
        /\ Top(from) = 8 * known + 6 /\ PlaceOf(worker.cp) = 8 * known + 6
        /\ OnTheWay(worker.cp, H, known)
        /\ session'.selection = session.selection /\ session'.cp = worker.cp
        /\ \A r \in 1..Limit : tool[r].status # "none" => tool'[r].status # "none"
        /\ \A r \in 1..Limit : 8 * r <= from + 1 => 8 * r <= 8 * known + 6
    BY <1>1, <1>2, GatewayRows
  <1>6. PICK new : new = <<>>
    OBVIOUS
  <1>7. new \in Seq(Event) /\ Len(new) = 0
    BY <1>6, EmptySeq
  <1>8. PICK outcome \in {"failed", "suspended"} :
            Finish(outcome, new) /\ takeovers' = IF outcome = "failed" THEN takeovers ELSE takeovers + 1
    BY <1>1, <1>6
  <1>9. /\ worker'.pc = "finish" /\ worker'.outcome = outcome /\ worker'.events = worker.events \o new
        /\ worker'.cp = worker.cp /\ worker'.refs = worker.refs /\ worker'.keys = worker.keys
    BY <1>8 DEF Finish, MInv, KInv, WorkerShape
  <1>10. /\ worker'.events \in Seq(Event)
         /\ Len(worker'.events) = Len(worker.events) + Len(new)
         /\ Reported(H, known, from)'
    <2>1. worker.events \in Seq(Event) /\ worker.pc # "finish" /\ Reported(H, known, from)
      BY <1>1, <1>3, <1>4 DEF RowsType, Reported, WorkerFollows
    <2>2. known <= known /\ \A j \in 1..known : H[j] = H[j]
      BY <1>5
    <2>3. direct' = direct /\ \A j \in 1..Len(new) : FALSE
      BY <1>1, <1>7
    <2> QED
      BY <1>5, <1>7, <1>9, <2>1, <2>2, <2>3, MoreReported
  <1>11. takeovers \in Nat /\ takeovers' \in Nat /\ (takeovers' = 0 => takeovers = 0)
    BY <1>3, <1>8 DEF RowsType
  <1>12. Looping' /\ (Suspending' <=> outcome = "suspended") /\ Charged' = Charged
    <2>1. Looping' /\ (Suspending' <=> outcome = "suspended")
      BY <1>9 DEF Looping, Suspending
    <2> QED
      BY <1>3, <1>8, <1>11, <2>1 DEF Charged
  <1>13. WorkerFollows(H, known, from)'
    <2>1. Top(from)' = 8 * known + 6
      <3>1. Len(worker'.events) = Len(worker.events)
        <4>1. Len(worker.events) \in Nat
          BY <1>3, LenProperties DEF RowsType
        <4> QED
          BY <1>7, <1>10, <4>1
      <3> QED
        BY <1>5, <3>1 DEF Top
    <2>2. worker.refs = session.selection /\ 8 * known + 6 <= 8 * known + 6
      BY <1>4, <1>5 DEF WorkerFollows
    <2> QED
      BY <1>1, <1>5, <1>9, <1>10, <2>1, <2>2 DEF WorkerFollows, Reported
  <1>14. Suspending' => takeovers' > 0
    BY <1>8, <1>11, <1>12
  <1>15. worker'.cp \in Checkpoint
    BY <1>3, <1>9 DEF RowsType
  <1> QED
    BY <1>1, <1>2, <1>9, <1>10, <1>11, <1>12, <1>13, <1>14, <1>15, GatewayMInv

-----------------------------------------------------------------------------
(* An event is recorded: the stream moves on by one place.                 *)

LEMMA RecordTail ==
  ASSUME MInv, Record, NEW H \in Histories, NEW known \in 0..Limit, NEW from \in Nat,
         Follows(H, known, from), NEW e, e = Head(worker.events)
  PROVE  /\ run = "running" /\ Looping
         /\ RowsFollow(H, known) /\ WorkerFollows(H, known, from)
         /\ RowsReached(H, known, from) /\ KeysFresh(H, known, from)
         /\ e \in Event /\ ~ Refused(e) /\ Project(e) /\ UNCHANGED <<direct, run, takeovers>>
         /\ worker'.pc = worker.pc /\ worker'.cp = worker.cp /\ worker'.refs = worker.refs
         /\ worker'.keys = worker.keys /\ worker'.key = worker.key /\ worker'.outcome = worker.outcome
         /\ worker'.events \in Seq(Event)
         /\ Len(worker.events) \in Nat /\ Len(worker'.events) = Len(worker.events) - 1
         /\ Len(worker'.events) \in Nat /\ worker.events # <<>>
         /\ Len(worker'.events) = 0 => worker'.events = <<>>
         /\ \A i \in 1..Len(worker'.events) : worker'.events[i] = worker.events[i + 1]
         /\ Fits(e, from + 1, H, known, worker.refs,
                 1 = Len(worker.events) /\ worker.pc = "finish", direct)
         /\ e.ev = "TOOL_CALL_COMPLETED" => tool[e.round].status # "none"
         /\ direct => worker.pc # "loop"
  <1>1. /\ run = "running" /\ worker.events # <<>> /\ ~ Refused(e) /\ Project(e)
        /\ worker' = [worker EXCEPT !.events = Tail(@)] /\ UNCHANGED <<direct, run, takeovers>>
    BY DEF Record
  <1>2. Looping /\ RowsType
    BY <1>1 DEF MInv, RunFollowed
  <1>3. /\ RowsFollow(H, known) /\ WorkerFollows(H, known, from)
        /\ RowsReached(H, known, from) /\ KeysFresh(H, known, from)
    BY <1>2 DEF Follows
  <1>4. worker.events \in Seq(Event)
    BY <1>2 DEF RowsType
  <1>5. /\ worker'.pc = worker.pc /\ worker'.cp = worker.cp /\ worker'.refs = worker.refs
        /\ worker'.keys = worker.keys /\ worker'.key = worker.key /\ worker'.outcome = worker.outcome
        /\ worker'.events = Tail(worker.events)
    BY <1>1 DEF MInv, KInv, WorkerShape
  <1>6. /\ worker'.events \in Seq(Event) /\ Len(worker'.events) = Len(worker.events) - 1
        /\ \A i \in 1..Len(worker'.events) : worker'.events[i] = worker.events[i + 1]
        /\ e \in Event
    BY <1>1, <1>4, <1>5, HeadTailProperties
  <1>7. Len(worker.events) \in Nat /\ Len(worker'.events) \in Nat
    BY <1>4, <1>6, LenProperties
  <1>8. Len(worker'.events) = 0 => worker'.events = <<>>
    BY <1>6, EmptySeq
  <1>9. 1 \in 1..Len(worker.events) /\ e = worker.events[1]
    BY <1>1, <1>4, <1>6, <1>7, EmptySeq
  <1>10. /\ Fits(e, from + 1, H, known, worker.refs,
                 1 = Len(worker.events) /\ worker.pc = "finish", direct)
         /\ e.ev = "TOOL_CALL_COMPLETED" => tool[e.round].status # "none"
         /\ direct => worker.pc # "loop"
    BY <1>1, <1>3, <1>9 DEF WorkerFollows
  <1> QED
    BY <1>1, <1>2, <1>3, <1>5, <1>6, <1>7, <1>8, <1>10

\* A shorter queue behind a longer prefix reaches to the same place.
LEMMA SamePlace ==
  ASSUME NEW a \in Nat, NEW b, b = a + 1, NEW n \in Nat, NEW m, m = n - 1
  PROVE  b + m + 1 = a + n + 1
  OBVIOUS

\* The other events keep their places.
LEMMA RecordedFollows ==
  ASSUME MInv, Record, NEW H \in Histories, NEW known \in 0..Limit, NEW from \in Nat,
         Follows(H, known, from), NEW next \in Nat, next = from + 1,
         session'.selection = session.selection,
         \A r \in 1..Limit : tool[r].status # "none" => tool'[r].status # "none",
         ~ direct => /\ PlaceOf(session'.cp) <= Top(from)
                     /\ \A r \in 1..Limit : 8 * r <= next + 1 => 8 * r <= PlaceOf(session'.cp)
  PROVE  WorkerFollows(H, known, next)'
  <1>1. PICK e : e = Head(worker.events)
    OBVIOUS
  <1>2. /\ WorkerFollows(H, known, from) /\ UNCHANGED <<direct, run, takeovers>>
        /\ worker'.pc = worker.pc /\ worker'.cp = worker.cp /\ worker'.refs = worker.refs
        /\ worker'.key = worker.key /\ worker'.outcome = worker.outcome
        /\ Len(worker.events) \in Nat /\ Len(worker'.events) = Len(worker.events) - 1
        /\ Len(worker'.events) \in Nat
        /\ \A i \in 1..Len(worker'.events) : worker'.events[i] = worker.events[i + 1]
        /\ direct => worker.pc # "loop"
    BY <1>1, RecordTail
  <1>a. Len(worker.events) \in Nat /\ Len(worker'.events) = Len(worker.events) - 1
    BY <1>2
  <1>3. Top(next)' = Top(from)
    <2>1. PICK n : n = Len(worker.events)
      OBVIOUS
    <2>2. PICK m : m = Len(worker'.events)
      OBVIOUS
    <2>3. Top(next)' = next + m + 1
      BY <2>2 DEF Top
    <2>4. Top(from) = from + n + 1
      BY <2>1 DEF Top
    <2>5. n \in Nat /\ m = n - 1
      BY <1>a, <2>1, <2>2
    <2>6. next + m + 1 = from + n + 1
      BY <2>5, SamePlace
    <2> QED
      BY <2>3, <2>4, <2>6
  <1>4. Suspending' = Suspending
    BY <1>2 DEF Suspending
  <1>5. ASSUME NEW i \in 1..Len(worker'.events)
        PROVE  /\ Fits(worker'.events[i], next + i, H, known, worker'.refs,
                       i = Len(worker'.events) /\ worker'.pc = "finish", direct')
               /\ worker'.events[i].ev = "TOOL_CALL_COMPLETED" =>
                     tool'[worker'.events[i].round].status # "none"
    <2>1. PICK j, f, p : j = i + 1 /\ f = worker.events[i + 1] /\ p = next + i
      OBVIOUS
    <2>2. /\ j \in 1..Len(worker.events) /\ f = worker.events[j] /\ worker'.events[i] = f
          /\ p = from + j
      BY <1>2, <2>1
    <2>3. j = Len(worker.events) => i = Len(worker'.events)
      BY <1>2, <2>1
    <2>4. /\ Fits(f, p, H, known, worker.refs, j = Len(worker.events) /\ worker.pc = "finish", direct)
          /\ f.ev = "TOOL_CALL_COMPLETED" => tool[f.round].status # "none"
      BY <1>2, <2>2 DEF WorkerFollows
    <2>5. Fits(f, p, H, known, worker'.refs, i = Len(worker'.events) /\ worker'.pc = "finish", direct')
      <3>1. known \in Nat /\ known <= known /\ \A q \in 1..known : H[q] = H[q]
        BY LimitBounds
      <3>2. (j = Len(worker.events) /\ worker.pc = "finish")
               => (i = Len(worker'.events) /\ worker'.pc = "finish")
        BY <1>2, <2>3
      <3>3. Fits(f, p, H, known, worker.refs, i = Len(worker'.events) /\ worker'.pc = "finish", direct)
        BY <2>4, <3>1, <3>2, FitsAgrees
      <3> QED
        BY <1>2, <3>3
    <2>6. f.ev = "TOOL_CALL_COMPLETED" => f.round \in 1..Limit
      BY <2>4, FitsRound
    <2> QED
      BY <2>1, <2>2, <2>4, <2>5, <2>6
  <1>6. /\ worker'.refs = session'.selection /\ direct' = direct
        /\ direct => worker'.pc # "loop" /\ worker'.cp.iteration = 1
        /\ direct /\ worker'.pc = "calling" => known = 1 /\ worker'.key = H[1] /\ Top(next)' = 11
        /\ ~ direct /\ (worker'.pc = "loop" \/ Suspending') =>
              /\ OnTheWay(worker'.cp, H, known) /\ worker'.cp.context = known
              /\ Top(next)' = PlaceOf(worker'.cp)
        /\ ~ direct /\ worker'.pc = "calling" =>
              /\ known \in 1..Limit /\ worker'.cp = CpBefore(H, known)
              /\ worker'.key = H[known] /\ Top(next)' = 8 * known + 3
    BY <1>2, <1>3, <1>4 DEF WorkerFollows
  <1>7. ~ direct => PlaceOf(session'.cp) <= Top(next)'
    BY <1>3
  <1> QED
    BY <1>5, <1>6, <1>7 DEF WorkerFollows

\* Before an event is recorded, no context and no call of a later round is.
LEMMA NoLaterRound ==
  ASSUME RowsType, CallsFit, ~ direct, NEW H, NEW known, NEW from \in Nat, RowsReached(H, known, from),
         NEW c \in DOMAIN calls
  PROVE  calls[c].key.round \in Nat /\ 8 * calls[c].key.round <= from + 1
  <1>1. calls[c] \in CallType
    BY RoundsType
  <1>2. calls[c].context \in 1..MaxIterations /\ calls[c].key.round \in Nat
    BY <1>1 DEF CallType, KeyType
  <1>3. contexts[calls[c].context].recorded /\ calls[c].key.round = calls[c].context
    BY DEF CallsFit
  <1> QED
    BY <1>2, <1>3 DEF RowsReached

LEMMA RecordMInv ==
  ASSUME MInv, KInv', Record, NEW H \in Histories, NEW known \in 0..Limit, NEW from \in Nat,
         Follows(H, known, from), NEW next \in Nat, next = from + 1,
         session' \in SessionType, session'.call <= Len(calls'), session'.selection = session.selection,
         contexts' \in [1..MaxIterations -> ContextType], calls' \in Seq(CallType),
         reasoning' \in [1..MaxIterations -> StepType], tool' \in [1..MaxIterations -> StepType],
         \A i \in session.selection : usages'[i].status \in OpenUsage,
         ContextsFrozen', CallsFit', StepsBound', UsageMatchesRows',
         ~ direct => Len(calls') <= Cardinality(Rounds') + Charged,
         \A r \in 1..Limit : tool[r].status # "none" => tool'[r].status # "none",
         ~ direct => /\ PlaceOf(session'.cp) <= Top(from)
                     /\ \A r \in 1..Limit : 8 * r <= next + 1 => 8 * r <= PlaceOf(session'.cp),
         RowsFollow(H, known)', RowsReached(H, known, next)', KeysFresh(H, known, next)'
  PROVE  MInv'
  <1>1. PICK e : e = Head(worker.events)
    OBVIOUS
  <1>2. /\ run = "running" /\ Looping /\ UNCHANGED <<direct, run, takeovers>>
        /\ worker'.pc = worker.pc /\ worker'.cp = worker.cp /\ worker'.outcome = worker.outcome
        /\ worker'.events \in Seq(Event)
    BY <1>1, RecordTail
  <1>3. Looping' /\ Suspending' = Suspending /\ Charged' = Charged
    BY <1>2 DEF Looping, Suspending, Charged
  <1>4. RowsType /\ RunFollowed
    BY DEF MInv
  <1>5. RowsType'
    BY <1>2, <1>4 DEF RowsType
  <1>6. RunFollowed'
    BY <1>2, <1>3, <1>4 DEF RunFollowed, Looping
  <1>7. CallsOwed'
    BY <1>2, <1>3 DEF CallsOwed
  <1>8. Follows(H, known, next)'
    <2>1. WorkerFollows(H, known, next)'
      BY RecordedFollows
    <2> QED
      BY <2>1 DEF Follows
  <1>9. (\E G \in Histories, n \in 0..Limit, place \in Nat : Follows(G, n, place))'
    BY <1>8
  <1> QED
    BY <1>5, <1>6, <1>7, <1>9 DEF MInv

LEMMA KeysFreshNext ==
  ASSUME NEW H, NEW known \in Nat, NEW from \in Nat, NEW next, next = from + 1,
         KeysFresh(H, known, from), RowsType, UNCHANGED <<direct>>, worker'.keys = worker.keys,
         DOMAIN calls' = DOMAIN calls, \A c \in DOMAIN calls : calls'[c].key = calls[c].key
  PROVE  KeysFresh(H, known, next)'
  <1>1. \A c \in DOMAIN calls : calls[c].key.round \in Nat
    BY RoundsType DEF CallType, KeyType
  <1>2. \A key : CallWith(key)' = CallWith(key)
    BY DEF CallWith
  <1>3. ASSUME ~ direct
        PROVE  /\ \A c \in DOMAIN calls :
                     \/ calls[c].key \in worker.keys
                     \/ calls[c].key.round <= known /\ 8 * calls[c].key.round + 2 <= next
               /\ \A r \in 1..known : 8 * r + 2 > next =>
                     CallWith(H[r]) = {} /\ (H[r].replay > 0 => CallWith(Key(r, 0)) # {})
    <2>1. \A c \in DOMAIN calls :
             \/ calls[c].key \in worker.keys
             \/ calls[c].key.round <= known /\ 8 * calls[c].key.round + 2 <= from
      BY <1>3 DEF KeysFresh
    <2>2. \A r \in 1..known : 8 * r + 2 > from =>
                     CallWith(H[r]) = {} /\ (H[r].replay > 0 => CallWith(Key(r, 0)) # {})
      BY <1>3 DEF KeysFresh
    <2>3. \A r \in 1..known : 8 * r + 2 > next => 8 * r + 2 > from
      OBVIOUS
    <2>4. \A c \in DOMAIN calls : 8 * calls[c].key.round + 2 <= from => 8 * calls[c].key.round + 2 <= next
      BY <1>1
    <2> QED
      BY <2>1, <2>2, <2>3, <2>4
  <1> QED
    BY <1>2, <1>3 DEF KeysFresh

\* The checkpoint of the session stays, and no round begins next.
LEMMA CpStays ==
  ASSUME NEW H \in Histories, NEW known \in 0..Limit, NEW from \in Nat, NEW next \in Nat,
         next = from + 1, RowsFollow(H, known), WorkerFollows(H, known, from), direct' = direct,
         session'.cp = session.cp, \A r \in 1..Limit : next + 1 # 8 * r
  PROVE  ~ direct => /\ PlaceOf(session'.cp) <= Top(from)
                     /\ \A r \in 1..Limit : 8 * r <= next + 1 => 8 * r <= PlaceOf(session'.cp)
  <1> SUFFICES ASSUME ~ direct
               PROVE  /\ PlaceOf(session'.cp) <= Top(from)
                      /\ \A r \in 1..Limit : 8 * r <= next + 1 => 8 * r <= PlaceOf(session'.cp)
    OBVIOUS
  <1>1. /\ PlaceOf(session.cp) <= Top(from)
        /\ \A r \in 1..Limit : 8 * r <= from + 1 => 8 * r <= PlaceOf(session.cp)
    BY DEF WorkerFollows
  <1>2. Limit \in Nat
    BY LimitBounds
  <1>3. \A r \in 1..Limit : 8 * r <= next + 1 => 8 * r <= from + 1
    BY <1>2
  <1> QED
    BY <1>1, <1>3

\* The places of a round at which no call starts, runs or ends.
LEMMA NoCallEvent ==
  ASSUME NEW q \in Nat, NEW r \in Nat, NEW from \in Nat, NEW next \in Nat, next = from + 1,
         next = 8 * r \/ next = 8 * r + 4 \/ next = 8 * r + 5 \/ next = 8 * r + 6 \/ next = 8 * r + 7
  PROVE  /\ next # 8 * q + 1 /\ next # 8 * q + 2 /\ next # 8 * q + 3
         /\ next \in (8 * q + 1)..(8 * q + 4) => from \in (8 * q + 1)..(8 * q + 4)
         /\ next \in (8 * q + 2)..(8 * q + 4) \/ next = 8 * q + 5 => from \in (8 * q + 2)..(8 * q + 4)
  <1>1. next # 8 * q + 1 /\ next # 8 * q + 2 /\ next # 8 * q + 3
    <2>1. CASE q < r
      BY <2>1
    <2>2. CASE q = r
      BY <2>2
    <2>3. CASE q > r
      BY <2>3
    <2> QED
      BY <2>1, <2>2, <2>3
  <1> QED
    BY <1>1

\* An event that starts and ends no call.
LEMMA ReachedNext ==
  ASSUME RowsType, NEW H \in Histories, NEW known \in 0..Limit, NEW from \in Nat, NEW next \in Nat,
         next = from + 1, RowsReached(H, known, from), worker.events # <<>>,
         UNCHANGED <<direct, contexts, calls, takeovers>>, Charged' = Charged,
         session'.context = session.context, session'.call = session.call,
         NEW r \in 1..Limit,
         next = 8 * r \/ next = 8 * r + 4 \/ next = 8 * r + 5 \/ next = 8 * r + 6 \/ next = 8 * r + 7,
         \A q \in 1..Limit : tool'[q].call = IF q = r /\ next = 8 * r + 6 THEN session.call ELSE tool[q].call
  PROVE  RowsReached(H, known, next)'
  <1>1. Limit \in Nat /\ r \in Nat /\ \A q \in 1..Limit : q \in Nat
    BY LimitBounds
  <1>2. \A c \in DOMAIN calls : calls[c].key.round \in Nat
    BY RoundsType DEF CallType, KeyType
  <1>3. ~ direct => \A v \in 1..MaxIterations : contexts[v].recorded => 8 * v <= next + 1
    BY BudgetAssumption DEF RowsReached
  <1>4. ASSUME NEW q \in 1..Limit
        PROVE  /\ next \in (8 * q + 1)..(8 * q + 4) => session.context = q
               /\ next \in (8 * q + 2)..(8 * q + 4) \/ (takeovers = 0 /\ next = 8 * q + 5) =>
                     q <= known /\ session.call # 0 /\ calls[session.call].key = H[q]
               /\ next # 8 * q + 2 /\ next # 8 * q + 3
               /\ takeovers = 0 /\ ~ direct /\ 8 * q + 6 <= next =>
                     q <= known /\ tool'[q].call # 0 /\ calls[tool'[q].call].key = H[q]
    <2>1. /\ from \in (8 * q + 1)..(8 * q + 4) => session.context = q
          /\ from \in (8 * q + 2)..(8 * q + 4) \/ (takeovers = 0 /\ from = 8 * q + 5) =>
                q <= known /\ session.call # 0 /\ calls[session.call].key = H[q]
          /\ takeovers = 0 /\ ~ direct /\ 8 * q + 6 <= from =>
                q <= known /\ tool[q].call # 0 /\ calls[tool[q].call].key = H[q]
      BY DEF RowsReached
    <2>2. q \in Nat
      BY <1>1
    <2>3. next \in (8 * q + 1)..(8 * q + 4) => from \in (8 * q + 1)..(8 * q + 4)
      BY <1>1, <2>2, NoCallEvent
    <2>4. next # 8 * q + 1 /\ next # 8 * q + 2 /\ next # 8 * q + 3
      BY <1>1, <2>2, NoCallEvent
    <2>5. next \in (8 * q + 2)..(8 * q + 4) \/ (takeovers = 0 /\ next = 8 * q + 5)
             => from \in (8 * q + 2)..(8 * q + 4)
      BY <1>1, <2>2, NoCallEvent
    <2>6. takeovers = 0 /\ ~ direct /\ 8 * q + 6 <= next =>
                     q <= known /\ tool'[q].call # 0 /\ calls[tool'[q].call].key = H[q]
      <3>1. CASE q = r /\ next = 8 * r + 6
        <4>1. from = 8 * q + 5
          BY <1>1, <3>1
        <4> QED
          BY <2>1, <3>1, <4>1
      <3>2. CASE ~ (q = r /\ next = 8 * r + 6)
        <4>1. 8 * q + 6 <= next => 8 * q + 6 <= from
          BY <1>1, <2>2, <3>2
        <4>2. tool'[q].call = tool[q].call
          BY <3>2
        <4> QED
          BY <2>1, <4>1, <4>2
      <3> QED
        BY <3>1, <3>2
    <2> QED
      BY <2>1, <2>3, <2>4, <2>5, <2>6
  <1>5. \A c \in DOMAIN calls : calls[c].status # "streaming"
    <2> SUFFICES ASSUME NEW c \in DOMAIN calls, calls[c].status = "streaming" PROVE FALSE
      OBVIOUS
    <2>1. PICK n : n = calls[c].key.round
      OBVIOUS
    <2>2. from = 8 * n + 2
      BY <2>1 DEF RowsReached
    <2>3. n \in Nat
      BY <1>2, <2>1
    <2> QED
      BY <1>1, <2>2, <2>3
  <1>6. Rounds' = Rounds
    BY DEF Rounds
  <1>7. ~ direct /\ (\E c \in DOMAIN calls : 8 * calls[c].key.round + 2 > next) =>
          Len(calls) < Cardinality(Rounds) + Charged
    <2>1. \A c \in DOMAIN calls : 8 * calls[c].key.round + 2 > next => 8 * calls[c].key.round + 2 > from
      BY <1>2
    <2> QED
      BY <2>1 DEF RowsReached
  <1> QED
    BY <1>3, <1>4, <1>5, <1>6, <1>7 DEF RowsReached

LEMMA StepStartedMInv ==
  ASSUME MInv, KInv', Record, NEW H \in Histories, NEW known \in 0..Limit, NEW from \in Nat,
         Follows(H, known, from), NEW e, e = Head(worker.events), NEW next \in Nat, next = from + 1,
         NEW r \in 1..Limit, e.ev = "STEP_STARTED", next = 8 * r, e.round = r
  PROVE  MInv'
  <1>1. RecordStepStarted(e) /\ worker'.keys = worker.keys /\ UNCHANGED <<direct, takeovers>>
        /\ RowsFollow(H, known) /\ WorkerFollows(H, known, from)
        /\ RowsReached(H, known, from) /\ KeysFresh(H, known, from)
        /\ worker.events # <<>> /\ worker'.pc = worker.pc /\ worker'.outcome = worker.outcome
        /\ Looping
    BY RecordTail DEF Project
  <1>2. UNCHANGED <<session, usages, contexts, calls, tool>>
    BY <1>1 DEF RecordStepStarted
  <1>3. Limit \in Nat /\ r \in Nat /\ r \in 1..MaxIterations
    BY LimitBounds, BudgetAssumption
  <1>4. RowsType /\ RunFollowed /\ StepsBound
    BY DEF MInv
  <1>5. PICK step : step = [NoStep EXCEPT !.status = "running"]
    OBVIOUS
  <1>6. step \in StepType /\ step.status = "running"
    BY <1>5 DEF NoStep, StepType
  <1>7. reasoning' = IF reasoning[r].status # "none" THEN reasoning ELSE [reasoning EXCEPT ![r] = step]
    BY <1>1, <1>5 DEF RecordStepStarted
  <1>8. /\ reasoning' \in [1..MaxIterations -> StepType]
        /\ \A q \in 1..MaxIterations : reasoning'[q] = reasoning[q] \/ reasoning'[q].status = "running"
    <2>1. reasoning \in [1..MaxIterations -> StepType]
      BY <1>4 DEF RowsType
    <2> QED
      BY <1>3, <1>6, <1>7, <2>1
  <1>9. ContextsFrozen' /\ CallsFit' /\ UsageMatchesRows' /\ StepsBound'
    <2>1. ContextsFrozen'
      BY <1>2 DEF MInv, ContextsFrozen
    <2>2. CallsFit'
      BY <1>2 DEF MInv, CallsFit
    <2>3. UsageMatchesRows'
      BY <1>2 DEF MInv, UsageMatchesRows
    <2>4. StepsBound'
      BY <1>1, <1>2, <1>4, <1>8 DEF StepsBound
    <2> QED
      BY <2>1, <2>2, <2>3, <2>4
  <1>10. ~ direct => Len(calls') <= Cardinality(Rounds') + Charged
    <2>1. Rounds' = Rounds
      BY <1>2 DEF Rounds
    <2> QED
      BY <1>2, <2>1 DEF MInv, CallsOwed
  <1>11. RowsFollow(H, known)'
    BY <1>1, <1>2 DEF RowsFollow
  <1>12. Charged' = Charged
    BY <1>1 DEF Charged, Suspending
  <1>13. RowsReached(H, known, next)'
    <2>1. \A q \in 1..Limit : tool'[q].call = IF q = r /\ next = 8 * r + 6 THEN session.call ELSE tool[q].call
      BY <1>2, <1>3
    <2> QED
      BY <1>1, <1>2, <1>4, <1>12, <2>1, ReachedNext
  <1>14. KeysFresh(H, known, next)'
    <2>1. known \in Nat
      BY LimitBounds
    <2> QED
      BY <1>1, <1>2, <1>4, <2>1, KeysFreshNext
  <1>15. ~ direct => /\ PlaceOf(session'.cp) <= Top(from)
                     /\ \A q \in 1..Limit : 8 * q <= next + 1 => 8 * q <= PlaceOf(session'.cp)
    <2>1. \A q \in 1..Limit : next + 1 # 8 * q
      BY <1>3
    <2> QED
      BY <1>1, <1>2, <2>1, CpStays
  <1>16. /\ session' \in SessionType /\ session'.call <= Len(calls') /\ session'.selection = session.selection
         /\ contexts' \in [1..MaxIterations -> ContextType] /\ calls' \in Seq(CallType)
         /\ tool' \in [1..MaxIterations -> StepType]
         /\ \A q \in 1..Limit : tool[q].status # "none" => tool'[q].status # "none"
    BY <1>2, <1>4 DEF RowsType
  <1>17. \A i \in session.selection : usages'[i].status \in OpenUsage
    BY <1>1, <1>2, <1>4 DEF RunFollowed
  <1> QED
    BY <1>8, <1>9, <1>10, <1>11, <1>13, <1>14, <1>15, <1>16, <1>17, RecordMInv

LEMMA StepCompletedMInv ==
  ASSUME MInv, KInv', Record, NEW H \in Histories, NEW known \in 0..Limit, NEW from \in Nat,
         Follows(H, known, from), NEW e, e = Head(worker.events), NEW next \in Nat, next = from + 1,
         NEW r \in 1..Limit, e.ev = "STEP_COMPLETED", next = 8 * r + 4, r <= known, e.round = r
  PROVE  MInv'
  <1>1. RecordStepCompleted(e) /\ worker'.keys = worker.keys /\ UNCHANGED <<direct, takeovers>>
        /\ RowsFollow(H, known) /\ WorkerFollows(H, known, from)
        /\ RowsReached(H, known, from) /\ KeysFresh(H, known, from)
        /\ worker.events # <<>> /\ worker'.pc = worker.pc /\ worker'.outcome = worker.outcome
        /\ Looping
    BY RecordTail DEF Project
  <1>2. UNCHANGED <<session, usages, contexts, calls, tool>>
    BY <1>1 DEF RecordStepCompleted
  <1>3. Limit \in Nat /\ r \in Nat /\ r \in 1..MaxIterations
    BY LimitBounds, BudgetAssumption
  <1>4. RowsType /\ RunFollowed /\ StepsBound /\ CallsFit
    BY DEF MInv
  <1>5. PICK step : step = [status |-> "completed", context |-> session.context, call |-> session.call]
    OBVIOUS
  <1>6. step \in StepType
    <2>1. session.context \in Nat /\ session.call \in Nat
      BY <1>4, BudgetAssumption DEF RowsType, SessionType
    <2> QED
      BY <1>5, <2>1 DEF StepType
  <1>7. reasoning' = IF reasoning[r].status = "completed" THEN reasoning ELSE [reasoning EXCEPT ![r] = step]
    BY <1>1, <1>5 DEF RecordStepCompleted
  <1>8. /\ reasoning' \in [1..MaxIterations -> StepType]
        /\ \A q \in 1..MaxIterations : reasoning'[q] = reasoning[q] \/ (q = r /\ reasoning'[q] = step)
    <2>1. reasoning \in [1..MaxIterations -> StepType]
      BY <1>4 DEF RowsType
    <2> QED
      BY <1>3, <1>6, <1>7, <2>1
  <1>9. /\ session.call \in DOMAIN calls /\ calls[session.call].key.round = r
        /\ calls[session.call].status = "completed" /\ calls[session.call].context = session.context
    <2>1. from = 8 * r + 3 /\ from \in (8 * r + 1)..(8 * r + 4) /\ from \in (8 * r + 2)..(8 * r + 4)
      BY <1>3
    <2>2. /\ session.context = r /\ session.call # 0 /\ calls[session.call].key = H[r]
          /\ calls[session.call].status = "completed"
      BY <1>1, <2>1 DEF RowsReached
    <2>3. session.call \in DOMAIN calls
      BY <1>4, <2>2, RoundsType DEF RowsType, SessionType
    <2>4. H[r].round = r
      <3>1. r \in 1..known
        BY <1>3, LimitBounds
      <3> QED
        BY <1>1, <3>1 DEF RowsFollow
    <2> QED
      BY <1>4, <2>2, <2>3, <2>4 DEF CallsFit
  <1>10. ContextsFrozen' /\ CallsFit' /\ UsageMatchesRows' /\ StepsBound'
    <2>1. ContextsFrozen'
      BY <1>2 DEF MInv, ContextsFrozen
    <2>2. CallsFit'
      BY <1>2 DEF MInv, CallsFit
    <2>3. UsageMatchesRows'
      BY <1>2 DEF MInv, UsageMatchesRows
    <2>4. ASSUME NEW q \in 1..MaxIterations, reasoning'[q].status = "completed"
          PROVE  /\ reasoning'[q].call \in DOMAIN calls
                 /\ calls[reasoning'[q].call].key.round = q
                 /\ calls[reasoning'[q].call].status = "completed"
                 /\ calls[reasoning'[q].call].context = reasoning'[q].context
      <3>1. CASE reasoning'[q] = reasoning[q]
        BY <1>4, <2>4, <3>1 DEF StepsBound
      <3>2. CASE q = r /\ reasoning'[q] = step
        BY <1>5, <1>9, <3>2
      <3> QED
        BY <1>8, <3>1, <3>2
    <2>5. StepsBound'
      BY <1>1, <1>2, <1>4, <2>4 DEF StepsBound
    <2> QED
      BY <2>1, <2>2, <2>3, <2>5
  <1>11. ~ direct => Len(calls') <= Cardinality(Rounds') + Charged
    <2>1. Rounds' = Rounds
      BY <1>2 DEF Rounds
    <2> QED
      BY <1>2, <2>1 DEF MInv, CallsOwed
  <1>12. RowsFollow(H, known)'
    BY <1>1, <1>2 DEF RowsFollow
  <1>13. Charged' = Charged
    BY <1>1 DEF Charged, Suspending
  <1>14. RowsReached(H, known, next)'
    <2>1. \A q \in 1..Limit : tool'[q].call = IF q = r /\ next = 8 * r + 6 THEN session.call ELSE tool[q].call
      BY <1>2, <1>3
    <2> QED
      BY <1>1, <1>2, <1>4, <1>13, <2>1, ReachedNext
  <1>15. KeysFresh(H, known, next)'
    <2>1. known \in Nat
      BY LimitBounds
    <2> QED
      BY <1>1, <1>2, <1>4, <2>1, KeysFreshNext
  <1>16. ~ direct => /\ PlaceOf(session'.cp) <= Top(from)
                     /\ \A q \in 1..Limit : 8 * q <= next + 1 => 8 * q <= PlaceOf(session'.cp)
    <2>1. \A q \in 1..Limit : next + 1 # 8 * q
      BY <1>3
    <2> QED
      BY <1>1, <1>2, <2>1, CpStays
  <1>17. /\ session' \in SessionType /\ session'.call <= Len(calls') /\ session'.selection = session.selection
         /\ contexts' \in [1..MaxIterations -> ContextType] /\ calls' \in Seq(CallType)
         /\ tool' \in [1..MaxIterations -> StepType]
         /\ \A q \in 1..Limit : tool[q].status # "none" => tool'[q].status # "none"
    BY <1>2, <1>4 DEF RowsType
  <1>18. \A i \in session.selection : usages'[i].status \in OpenUsage
    BY <1>1, <1>2, <1>4 DEF RunFollowed
  <1> QED
    BY <1>8, <1>10, <1>11, <1>12, <1>14, <1>15, <1>16, <1>17, <1>18, RecordMInv

LEMMA ToolCompletedMInv ==
  ASSUME MInv, KInv', Record, NEW H \in Histories, NEW known \in 0..Limit, NEW from \in Nat,
         Follows(H, known, from), NEW e, e = Head(worker.events), NEW next \in Nat, next = from + 1,
         NEW r \in 1..Limit, e.ev = "TOOL_CALL_COMPLETED", next = 8 * r + 6, ~ direct, e.round = r
  PROVE  MInv'
  <1>1. RecordToolCompleted(e) /\ worker'.keys = worker.keys /\ UNCHANGED <<direct, takeovers>>
        /\ RowsFollow(H, known) /\ WorkerFollows(H, known, from)
        /\ RowsReached(H, known, from) /\ KeysFresh(H, known, from)
        /\ worker.events # <<>> /\ worker'.pc = worker.pc /\ worker'.outcome = worker.outcome
        /\ Looping
    BY RecordTail DEF Project
  <1>2. UNCHANGED <<session, usages, contexts, calls, reasoning>>
    BY <1>1 DEF RecordToolCompleted
  <1>3. Limit \in Nat /\ r \in Nat /\ r \in 1..MaxIterations
    BY LimitBounds, BudgetAssumption
  <1>4. RowsType /\ RunFollowed /\ StepsBound /\ CallsFit
    BY DEF MInv
  <1>5. session.context \in Nat /\ session.call \in Nat /\ session.call <= Len(calls)
    BY <1>4, BudgetAssumption DEF RowsType, SessionType
  <1>6. tool \in [1..MaxIterations -> StepType] /\ tool[r] \in StepType
    BY <1>3, <1>4 DEF RowsType
  <1>7. PICK step : step = [tool[r] EXCEPT !.context = session.context, !.call = session.call]
    OBVIOUS
  <1>8. step \in StepType /\ step.status = tool[r].status /\ step.call = session.call
    BY <1>5, <1>6, <1>7 DEF StepType
  <1>9. tool' = [tool EXCEPT ![r] = step]
    <2>1. tool' = [tool EXCEPT ![r].context = session.context, ![r].call = session.call]
      BY <1>1 DEF RecordToolCompleted
    <2> QED
      BY <1>3, <1>6, <1>7, <2>1
  <1>10. /\ tool' \in [1..MaxIterations -> StepType] /\ tool'[r] = step
         /\ \A q \in 1..MaxIterations : q # r => tool'[q] = tool[q]
    BY <1>3, <1>6, <1>8, <1>9
  <1>11. session.call # 0 => calls[session.call].key.round <= r
    <2> SUFFICES ASSUME session.call # 0 PROVE calls[session.call].key.round <= r
      OBVIOUS
    <2>1. PICK c : c = session.call
      OBVIOUS
    <2>2. c \in DOMAIN calls
      BY <1>4, <1>5, <2>1, RoundsType
    <2>3. calls[c].key.round \in Nat /\ 8 * calls[c].key.round <= from + 1
      BY <1>1, <1>4, <2>2, NoLaterRound
    <2> QED
      BY <1>3, <2>1, <2>3
  <1>12. ContextsFrozen' /\ CallsFit' /\ UsageMatchesRows' /\ StepsBound'
    <2>1. ContextsFrozen'
      BY <1>2 DEF MInv, ContextsFrozen
    <2>2. CallsFit'
      BY <1>2 DEF MInv, CallsFit
    <2>3. UsageMatchesRows'
      BY <1>2 DEF MInv, UsageMatchesRows
    <2>4. ASSUME NEW q \in 1..MaxIterations
          PROVE  tool'[q].call \in 0..Len(calls)
                    /\ (tool'[q].call # 0 => calls[tool'[q].call].key.round <= q)
      <3>1. tool[q].call \in 0..Len(calls) /\ (tool[q].call # 0 => calls[tool[q].call].key.round <= q)
        BY <1>4 DEF StepsBound
      <3>2. session.call \in 0..Len(calls)
        BY <1>4, <1>5, RoundsType
      <3>3. CASE q = r
        BY <1>8, <1>10, <1>11, <3>2, <3>3
      <3>4. CASE q # r
        BY <1>10, <3>1, <3>4
      <3> QED
        BY <3>3, <3>4
    <2>5. StepsBound'
      BY <1>1, <1>2, <1>4, <2>4 DEF StepsBound
    <2> QED
      BY <2>1, <2>2, <2>3, <2>5
  <1>13. ~ direct => Len(calls') <= Cardinality(Rounds') + Charged
    <2>1. Rounds' = Rounds
      BY <1>2 DEF Rounds
    <2> QED
      BY <1>2, <2>1 DEF MInv, CallsOwed
  <1>14. RowsFollow(H, known)'
    BY <1>1, <1>2 DEF RowsFollow
  <1>15. Charged' = Charged
    BY <1>1 DEF Charged, Suspending
  <1>16. \A q \in 1..Limit : q \in 1..MaxIterations
    BY LimitBounds, BudgetAssumption
  <1>17. RowsReached(H, known, next)'
    <2>1. \A q \in 1..Limit : tool'[q].call = IF q = r /\ next = 8 * r + 6 THEN session.call ELSE tool[q].call
      BY <1>8, <1>10, <1>16
    <2> QED
      BY <1>1, <1>2, <1>4, <1>15, <2>1, ReachedNext
  <1>18. KeysFresh(H, known, next)'
    <2>1. known \in Nat
      BY LimitBounds
    <2> QED
      BY <1>1, <1>2, <1>4, <2>1, KeysFreshNext
  <1>19. ~ direct => /\ PlaceOf(session'.cp) <= Top(from)
                     /\ \A q \in 1..Limit : 8 * q <= next + 1 => 8 * q <= PlaceOf(session'.cp)
    <2>1. \A q \in 1..Limit : next + 1 # 8 * q
      BY <1>3
    <2> QED
      BY <1>1, <1>2, <2>1, CpStays
  <1>20. /\ session' \in SessionType /\ session'.call <= Len(calls') /\ session'.selection = session.selection
         /\ contexts' \in [1..MaxIterations -> ContextType] /\ calls' \in Seq(CallType)
         /\ reasoning' \in [1..MaxIterations -> StepType]
    BY <1>2, <1>4 DEF RowsType
  <1>21. \A q \in 1..Limit : tool[q].status # "none" => tool'[q].status # "none"
    BY <1>8, <1>10, <1>16
  <1>22. \A i \in session.selection : usages'[i].status \in OpenUsage
    BY <1>1, <1>2, <1>4 DEF RunFollowed
  <1> QED
    BY <1>10, <1>12, <1>13, <1>14, <1>17, <1>18, <1>19, <1>20, <1>21, <1>22, RecordMInv

LEMMA CheckpointMInv ==
  ASSUME MInv, KInv', Record, NEW H \in Histories, NEW known \in 0..Limit, NEW from \in Nat,
         Follows(H, known, from), NEW e, e = Head(worker.events), NEW next \in Nat, next = from + 1,
         NEW r \in 1..Limit, e.ev = "CHECKPOINT_SAVED", r <= known,
         \/ next = 8 * r + 5 /\ IF direct THEN e.cp.iteration = 1
                                ELSE \E state \in Finished : e.cp = CpAfter(H, r, state)
         \/ next = 8 * r + 7 /\ ~ direct /\ e.cp = CpBefore(H, r + 1)
  PROVE  MInv'
  <1>1. RecordCheckpoint(e) /\ worker'.keys = worker.keys /\ UNCHANGED <<direct, takeovers>>
        /\ RowsFollow(H, known) /\ WorkerFollows(H, known, from)
        /\ RowsReached(H, known, from) /\ KeysFresh(H, known, from)
        /\ worker.events # <<>> /\ worker'.pc = worker.pc /\ worker'.outcome = worker.outcome
        /\ Looping /\ e \in Event
        /\ Len(worker.events) \in Nat /\ Len(worker'.events) = Len(worker.events) - 1
        /\ Len(worker'.events) \in Nat
    BY RecordTail DEF Project
  <1>2. UNCHANGED <<usages, contexts, calls, tool, reasoning>> /\ session' = [session EXCEPT !.cp = e.cp]
    BY <1>1 DEF RecordCheckpoint, rows
  <1>3. Limit \in Nat /\ r \in Nat /\ r \in 1..MaxIterations /\ known \in Nat
    BY LimitBounds, BudgetAssumption
  <1>4. RowsType /\ RunFollowed /\ StepsBound /\ CallsFit
    BY DEF MInv
  <1>5. e.cp \in Checkpoint
    BY <1>1 DEF Event
  <1>6. /\ session' \in SessionType /\ session'.cp = e.cp /\ session'.context = session.context
        /\ session'.call = session.call /\ session'.selection = session.selection
    BY <1>2, <1>4, <1>5 DEF RowsType, SessionType
  <1>7. ContextsFrozen' /\ CallsFit' /\ UsageMatchesRows' /\ StepsBound'
    <2>1. ContextsFrozen'
      BY <1>2, <1>6 DEF MInv, ContextsFrozen
    <2>2. CallsFit'
      BY <1>2, <1>6 DEF MInv, CallsFit
    <2>3. UsageMatchesRows'
      BY <1>2 DEF MInv, UsageMatchesRows
    <2>4. StepsBound'
      BY <1>1, <1>2, <1>4 DEF StepsBound
    <2> QED
      BY <2>1, <2>2, <2>3, <2>4
  <1>8. ~ direct => Len(calls') <= Cardinality(Rounds') + Charged
    <2>1. Rounds' = Rounds
      BY <1>2 DEF Rounds
    <2> QED
      BY <1>2, <2>1 DEF MInv, CallsOwed
  <1>9. ~ direct => OnTheWay(e.cp, H, known) /\ PlaceOf(e.cp) = next + 1
    <2> SUFFICES ASSUME ~ direct PROVE OnTheWay(e.cp, H, known) /\ PlaceOf(e.cp) = next + 1
      OBVIOUS
    <2>1. CASE next = 8 * r + 5 /\ \E state \in Finished : e.cp = CpAfter(H, r, state)
      <3>1. PICK state \in Finished : e.cp = CpAfter(H, r, state)
        BY <2>1
      <3>2. r \in 1..known
        BY <1>3
      <3>3. e.cp.state # "reasoning" /\ e.cp.iteration = r
        BY <3>1 DEF CpAfter, Finished
      <3>4. 8 * r + 6 = next + 1
        BY <1>3, <2>1
      <3>5. PlaceOf(e.cp) = next + 1
        BY <3>3, <3>4 DEF PlaceOf
      <3> QED
        BY <3>1, <3>2, <3>5 DEF OnTheWay
    <2>2. CASE next = 8 * r + 7 /\ e.cp = CpBefore(H, r + 1)
      <3>1. r + 1 \in 1..(known + 1)
        BY <1>3
      <3>2. e.cp.state = "reasoning" /\ e.cp.iteration = r + 1
        BY <2>2 DEF CpBefore
      <3>3. 8 * (r + 1) = next + 1
        BY <1>3, <2>2
      <3>4. PlaceOf(e.cp) = next + 1
        BY <3>2, <3>3 DEF PlaceOf
      <3> QED
        BY <2>2, <3>1, <3>4 DEF OnTheWay
    <2> QED
      BY <2>1, <2>2
  <1>10. RowsFollow(H, known)'
    <2>1. direct => e.cp.iteration = 1
      OBVIOUS
    <2>2. \A q \in 1..known : H[q].round = q
      BY <1>1 DEF RowsFollow
    <2>3. ASSUME ~ direct, NEW v \in 1..MaxIterations, contexts[v].recorded
          PROVE  /\ v \in 1..Limit /\ v - 1 <= known
                 /\ contexts[v] = Snapshot(Prefix(H, v - 1), session.selection)
                 /\ 8 * v <= PlaceOf(e.cp)
      <3>1. /\ v \in 1..Limit /\ v - 1 <= known
            /\ contexts[v] = Snapshot(Prefix(H, v - 1), session.selection)
        BY <1>1, <2>3 DEF RowsFollow
      <3>2. 8 * v <= from + 1
        BY <1>1, <2>3 DEF RowsReached
      <3>3. v \in Nat
        BY BudgetAssumption
      <3>4. 8 * v <= next + 1
        BY <3>2, <3>3
      <3> QED
        BY <1>9, <2>3, <3>1, <3>4
    <2> QED
      BY <1>1, <1>2, <1>6, <1>9, <2>1, <2>2, <2>3 DEF RowsFollow
  <1>11. Charged' = Charged
    BY <1>1 DEF Charged, Suspending
  <1>12. RowsReached(H, known, next)'
    <2>1. \A q \in 1..Limit : tool'[q].call = IF q = r /\ next = 8 * r + 6 THEN session.call ELSE tool[q].call
      BY <1>2, <1>3
    <2>2. next = 8 * r \/ next = 8 * r + 4 \/ next = 8 * r + 5 \/ next = 8 * r + 6 \/ next = 8 * r + 7
      OBVIOUS
    <2> QED
      BY <1>1, <1>2, <1>4, <1>6, <1>11, <2>1, <2>2, ReachedNext
  <1>13. KeysFresh(H, known, next)'
    BY <1>1, <1>2, <1>3, <1>4, KeysFreshNext
  <1>14. ~ direct => /\ PlaceOf(session'.cp) <= Top(from)
                     /\ \A q \in 1..Limit : 8 * q <= next + 1 => 8 * q <= PlaceOf(session'.cp)
    <2>1. next + 1 <= from + Len(worker.events) + 1
      BY <1>1
    <2> QED
      BY <1>6, <1>9, <2>1 DEF Top
  <1>15. /\ session'.call <= Len(calls')
         /\ contexts' \in [1..MaxIterations -> ContextType] /\ calls' \in Seq(CallType)
         /\ tool' \in [1..MaxIterations -> StepType] /\ reasoning' \in [1..MaxIterations -> StepType]
         /\ \A q \in 1..Limit : tool[q].status # "none" => tool'[q].status # "none"
    BY <1>2, <1>4, <1>6 DEF RowsType
  <1>16. \A i \in session.selection : usages'[i].status \in OpenUsage
    BY <1>1, <1>2, <1>4 DEF RunFollowed
  <1> QED
    BY <1>6, <1>7, <1>8, <1>10, <1>12, <1>13, <1>14, <1>15, <1>16, RecordMInv

LEMMA CallEndedMInv ==
  ASSUME MInv, KInv', Record, NEW H \in Histories, NEW known \in 0..Limit, NEW from \in Nat,
         Follows(H, known, from), NEW e, e = Head(worker.events), NEW next \in Nat, next = from + 1,
         NEW r \in 1..Limit, e.ev = "MODEL_CALL_ENDED", next = 8 * r + 3, r <= known, e.key = H[r],
         \/ e.status = "completed"
         \/ 1 = Len(worker.events) /\ worker.pc = "finish" /\ e.status = "failed"
  PROVE  MInv'
  <1>1. RecordCallEnded(e) /\ worker'.keys = worker.keys /\ UNCHANGED <<direct, takeovers>>
        /\ RowsFollow(H, known) /\ WorkerFollows(H, known, from)
        /\ RowsReached(H, known, from) /\ KeysFresh(H, known, from)
        /\ worker.events # <<>> /\ worker'.pc = worker.pc /\ worker'.outcome = worker.outcome
        /\ Looping /\ Len(worker'.events) = Len(worker.events) - 1
        /\ (Len(worker'.events) = 0 => worker'.events = <<>>)
    BY RecordTail DEF Project
  <1>2. UNCHANGED <<session, usages, contexts, reasoning, tool>>
    BY <1>1 DEF RecordCallEnded
  <1>3. Limit \in Nat /\ r \in Nat /\ r \in 1..MaxIterations /\ known \in Nat
    BY LimitBounds, BudgetAssumption
  <1>4. RowsType /\ RunFollowed /\ StepsBound /\ CallsFit
    BY DEF MInv
  <1>5. PICK c : c = session.call
    OBVIOUS
  <1>6. c \in DOMAIN calls /\ calls[c].key = H[r] /\ calls[c].status = "streaming"
    <2>1. from = 8 * r + 2 /\ from \in (8 * r + 2)..(8 * r + 4)
      BY <1>3
    <2>2. c # 0 /\ calls[c].key = H[r] /\ calls[c].status = "streaming"
      BY <1>1, <1>5, <2>1 DEF RowsReached
    <2>3. c \in DOMAIN calls
      BY <1>4, <1>5, <2>2, RoundsType DEF RowsType, SessionType
    <2> QED
      BY <2>2, <2>3
  <1>7. TheCall(e.key) = c
    BY <1>4, <1>6, UniqueCall
  <1>8. PICK call : call = [calls[c] EXCEPT !.status = e.status]
    OBVIOUS
  <1>9. e.status \in {"completed", "failed"}
    OBVIOUS
  <1>10. /\ call \in CallType /\ call.status = e.status /\ call.key = calls[c].key
         /\ call.context = calls[c].context
    <2>1. calls[c] \in CallType
      BY <1>4, <1>6, RoundsType
    <2> QED
      BY <1>8, <1>9, <2>1 DEF CallType
  <1>11. calls' = [calls EXCEPT ![c] = call]
    <2>1. calls' = [calls EXCEPT ![c].status = e.status]
      BY <1>1, <1>7 DEF RecordCallEnded
    <2> QED
      BY <1>6, <1>8, <2>1
  <1>12. /\ calls' \in Seq(CallType) /\ Len(calls') = Len(calls) /\ DOMAIN calls' = DOMAIN calls
         /\ calls'[c] = call /\ \A d \in DOMAIN calls : d # c => calls'[d] = calls[d]
    <2>1. calls \in Seq(CallType)
      BY <1>4 DEF RowsType
    <2>2. c \in 1..Len(calls)
      BY <1>6, <2>1, LenProperties
    <2>3. calls' \in Seq(CallType) /\ Len(calls') = Len(calls)
      BY <1>10, <1>11, <2>1, <2>2, ExceptSeq
    <2> QED
      BY <1>6, <1>11, <2>1, <2>3
  <1>13. \A d \in DOMAIN calls : /\ calls'[d].key = calls[d].key /\ calls'[d].context = calls[d].context
                                 /\ calls'[d].status = IF d = c THEN e.status ELSE calls[d].status
    BY <1>10, <1>12
  <1> HIDE <1>8, <1>10, <1>11
  <1>14. \A d \in DOMAIN calls : calls'[d].status # "streaming"
    <2> SUFFICES ASSUME NEW d \in DOMAIN calls, d # c PROVE calls[d].status # "streaming"
      BY <1>9, <1>13
    <2> QED
      BY <1>4, <1>5 DEF CallsFit
  <1>15. ContextsFrozen' /\ CallsFit' /\ UsageMatchesRows' /\ StepsBound'
    <2>1. ContextsFrozen'
      BY <1>2 DEF MInv, ContextsFrozen
    <2>2. CallsFit'
      BY <1>2, <1>4, <1>12, <1>13, <1>14 DEF CallsFit
    <2>3. UsageMatchesRows'
      <3>1. \A i \in Items : {d \in DOMAIN calls' : i \in contexts'[calls'[d].context].refs}
                                = {d \in DOMAIN calls : i \in contexts[calls[d].context].refs}
        BY <1>2, <1>12, <1>13
      <3> QED
        BY <1>2, <3>1 DEF MInv, UsageMatchesRows
    <2>4. ASSUME NEW q \in 1..MaxIterations, reasoning[q].status = "completed"
          PROVE  /\ reasoning[q].call \in DOMAIN calls'
                 /\ calls'[reasoning[q].call].key.round = q
                 /\ calls'[reasoning[q].call].status = "completed"
                 /\ calls'[reasoning[q].call].context = reasoning[q].context
      <3>1. /\ reasoning[q].call \in DOMAIN calls
            /\ calls[reasoning[q].call].key.round = q
            /\ calls[reasoning[q].call].status = "completed"
            /\ calls[reasoning[q].call].context = reasoning[q].context
        BY <1>4, <2>4 DEF StepsBound
      <3>2. reasoning[q].call # c
        BY <1>6, <3>1
      <3> QED
        BY <1>12, <3>1, <3>2
    <2>5. ASSUME NEW q \in 1..MaxIterations
          PROVE  /\ tool[q].call \in 0..Len(calls')
                 /\ tool[q].call # 0 => calls'[tool[q].call].key.round <= q
                 /\ direct => tool[q].call = 0
      <3>1. /\ tool[q].call \in 0..Len(calls)
            /\ tool[q].call # 0 => calls[tool[q].call].key.round <= q
            /\ direct => tool[q].call = 0
        BY <1>4 DEF StepsBound
      <3>2. tool[q].call # 0 => tool[q].call \in DOMAIN calls
        BY <1>4, <3>1, RoundsType
      <3> QED
        BY <1>12, <1>13, <3>1, <3>2
    <2>6. StepsBound'
      BY <1>1, <1>2, <2>4, <2>5 DEF StepsBound
    <2> QED
      BY <2>1, <2>2, <2>3, <2>6
  <1>16. Rounds' = Rounds
    BY <1>12, <1>13 DEF Rounds
  <1>17. ~ direct => Len(calls') <= Cardinality(Rounds') + Charged
    BY <1>12, <1>16 DEF MInv, CallsOwed
  <1>18. RowsFollow(H, known)'
    BY <1>1, <1>2 DEF RowsFollow
  <1>19. Charged' = Charged
    BY <1>1 DEF Charged, Suspending
  <1>20. RowsReached(H, known, next)'
    <2>1. ASSUME ~ direct, NEW v \in 1..MaxIterations, contexts[v].recorded
          PROVE  8 * v <= next + 1
      <3>1. 8 * v <= from + 1
        BY <1>1, <2>1 DEF RowsReached
      <3>2. v \in Nat
        BY BudgetAssumption
      <3> QED
        BY <3>1, <3>2
    <2>2. ASSUME NEW q \in 1..Limit
          PROVE  /\ next \in (8 * q + 1)..(8 * q + 4) => session.context = q
                 /\ next \in (8 * q + 2)..(8 * q + 4) \/ (takeovers = 0 /\ next = 8 * q + 5) =>
                       q <= known /\ session.call # 0 /\ calls'[session.call].key = H[q]
                 /\ next # 8 * q + 2
                 /\ next = 8 * q + 3 => \/ calls'[session.call].status = "completed"
                                        \/ worker'.events = <<>> /\ worker'.pc = "finish"
                 /\ takeovers = 0 /\ ~ direct /\ 8 * q + 6 <= next =>
                       q <= known /\ tool[q].call # 0 /\ calls'[tool[q].call].key = H[q]
      <3>1. /\ from \in (8 * q + 1)..(8 * q + 4) => session.context = q
            /\ from \in (8 * q + 2)..(8 * q + 4) => q <= known /\ session.call # 0
            /\ takeovers = 0 /\ ~ direct /\ 8 * q + 6 <= from =>
                  q <= known /\ tool[q].call # 0 /\ calls[tool[q].call].key = H[q]
        BY <1>1 DEF RowsReached
      <3>2. q \in Nat
        BY <1>3
      <3>3. /\ next # 8 * q + 1 /\ next # 8 * q + 2 /\ next # 8 * q + 5 /\ next # 8 * q + 6
            /\ next \in (8 * q + 1)..(8 * q + 4) => q = r
        BY <1>3, <3>2
      <3>4. /\ next \in (8 * q + 1)..(8 * q + 4) => from \in (8 * q + 1)..(8 * q + 4)
            /\ next \in (8 * q + 2)..(8 * q + 4) => from \in (8 * q + 2)..(8 * q + 4)
            /\ next \in (8 * q + 2)..(8 * q + 4) => q = r
            /\ next = 8 * q + 3 => next \in (8 * q + 2)..(8 * q + 4)
            /\ 8 * q + 6 <= next => 8 * q + 6 <= from
        BY <1>3, <3>2, <3>3
      <3>5. calls'[session.call].key = H[r]
        BY <1>5, <1>6, <1>13
      <3>6. \/ calls'[session.call].status = "completed"
            \/ worker'.events = <<>> /\ worker'.pc = "finish"
        <4>1. CASE e.status = "completed"
          BY <1>5, <1>6, <1>13, <4>1
        <4>2. CASE 1 = Len(worker.events) /\ worker.pc = "finish"
          BY <1>1, <4>2
        <4> QED
          BY <4>1, <4>2
      <3>7. takeovers = 0 /\ ~ direct /\ 8 * q + 6 <= next =>
                       q <= known /\ tool[q].call # 0 /\ calls'[tool[q].call].key = H[q]
        <4>1. q \in 1..MaxIterations
          BY <1>3, LimitBounds, BudgetAssumption
        <4>2. tool[q].call \in 0..Len(calls)
          BY <1>4, <4>1 DEF StepsBound
        <4>3. tool[q].call # 0 => tool[q].call \in DOMAIN calls
          BY <1>4, <4>2, RoundsType
        <4> QED
          BY <1>13, <3>1, <3>4, <4>3
      <3> QED
        BY <3>1, <3>3, <3>4, <3>5, <3>6, <3>7
    <2>3. \A d \in DOMAIN calls : calls[d].key.round \in Nat
      BY <1>4, RoundsType DEF CallType, KeyType
    <2>4. ~ direct /\ (\E d \in DOMAIN calls : 8 * calls[d].key.round + 2 > next) =>
            Len(calls) < Cardinality(Rounds) + Charged
      <3>1. \A d \in DOMAIN calls : 8 * calls[d].key.round + 2 > next => 8 * calls[d].key.round + 2 > from
        BY <2>3
      <3> QED
        BY <1>1, <3>1 DEF RowsReached
    <2>5. ~ direct' /\ (\E d \in DOMAIN calls' : 8 * calls'[d].key.round + 2 > next) =>
            Len(calls') < Cardinality(Rounds') + Charged'
      BY <1>1, <1>12, <1>13, <1>16, <1>19, <2>4
    <2>6. \A d \in DOMAIN calls' : calls'[d].status # "streaming"
      BY <1>12, <1>14
    <2>7. UNCHANGED <<direct, session, contexts, tool, takeovers>>
      BY <1>1, <1>2
    <2> QED
      BY <2>1, <2>2, <2>5, <2>6, <2>7 DEF RowsReached
  <1>21. KeysFresh(H, known, next)'
    BY <1>1, <1>3, <1>4, <1>12, <1>13, KeysFreshNext
  <1>22. ~ direct => /\ PlaceOf(session'.cp) <= Top(from)
                     /\ \A q \in 1..Limit : 8 * q <= next + 1 => 8 * q <= PlaceOf(session'.cp)
    <2>1. \A q \in 1..Limit : next + 1 # 8 * q
      BY <1>3
    <2> QED
      BY <1>1, <1>2, <2>1, CpStays
  <1>23. /\ session' \in SessionType /\ session'.call <= Len(calls') /\ session'.selection = session.selection
         /\ contexts' \in [1..MaxIterations -> ContextType]
         /\ reasoning' \in [1..MaxIterations -> StepType]
         /\ tool' \in [1..MaxIterations -> StepType]
         /\ \A q \in 1..Limit : tool[q].status # "none" => tool'[q].status # "none"
    BY <1>2, <1>4, <1>12 DEF RowsType
  <1>24. \A i \in session.selection : usages'[i].status \in OpenUsage
    BY <1>1, <1>2, <1>4 DEF RunFollowed
  <1> QED
    BY <1>12, <1>15, <1>17, <1>18, <1>20, <1>21, <1>22, <1>23, <1>24, RecordMInv


\* What a started call adds to the rows.
LEMMA CallAppended ==
  ASSUME RowsType, CallsFit, KInv, NEW e, e.key \in KeyType, RecordCallStarted(e), CallWith(e.key) = {},
         session.context \in 1..MaxIterations, contexts[session.context].recorded,
         e.key.round = session.context,
         \A d \in DOMAIN calls : calls[d].status # "streaming", UsageMatchesRows
  PROVE  /\ calls' \in Seq(CallType) /\ Len(calls) \in Nat /\ Len(calls') = Len(calls) + 1
         /\ DOMAIN calls' = DOMAIN calls \union {Len(calls) + 1} /\ Len(calls) + 1 \notin DOMAIN calls
         /\ \A d \in DOMAIN calls : calls'[d] = calls[d]
         /\ calls'[Len(calls) + 1].key = e.key /\ calls'[Len(calls) + 1].status = "streaming"
         /\ session' \in SessionType /\ session'.call = Len(calls) + 1 /\ session'.cp = session.cp
         /\ session'.context = session.context /\ session'.selection = session.selection
         /\ CallsFit' /\ UsageMatchesRows'
  <1>1. PICK call : call = NewCall(e.key, session.context)
    OBVIOUS
  <1>2. calls' = Append(calls, call) /\ usages' = MarkModelCall
        /\ session' = [session EXCEPT !.call = Len(calls) + 1] /\ UNCHANGED <<contexts, reasoning, tool>>
    BY <1>1 DEF RecordCallStarted
  <1>3. /\ call \in CallType /\ call.key = e.key /\ call.context = session.context
        /\ call.status = "streaming"
    BY <1>1 DEF NewCall, CallType
  <1>4. calls \in Seq(CallType) /\ session \in SessionType
    BY DEF RowsType
  <1>5. /\ calls' \in Seq(CallType) /\ Len(calls) \in Nat /\ Len(calls') = Len(calls) + 1
        /\ \A d \in 1..Len(calls) : calls'[d] = calls[d]
        /\ calls'[Len(calls) + 1] = call
    BY <1>2, <1>3, <1>4, AppendProperties, LenProperties
  <1>6. /\ DOMAIN calls = 1..Len(calls) /\ DOMAIN calls' = 1..(Len(calls) + 1)
    BY <1>4, <1>5, LenProperties
  <1>7. /\ DOMAIN calls' = DOMAIN calls \union {Len(calls) + 1} /\ Len(calls) + 1 \notin DOMAIN calls
    <2>1. Len(calls) \in Nat
      BY <1>5
    <2>2. /\ 1..(Len(calls) + 1) = (1..Len(calls)) \union {Len(calls) + 1}
          /\ Len(calls) + 1 \notin 1..Len(calls)
      BY <2>1
    <2> QED
      BY <1>6, <2>2
  <1>8. \A d \in DOMAIN calls : calls'[d] = calls[d]
    BY <1>5, <1>6
  <1>9. /\ session' \in SessionType /\ session'.call = Len(calls) + 1 /\ session'.cp = session.cp
        /\ session'.context = session.context /\ session'.selection = session.selection
    <2>1. PICK n : n = Len(calls) + 1
      OBVIOUS
    <2>2. n \in Nat
      BY <1>5, <2>1
    <2>3. session' = [session EXCEPT !.call = n]
      BY <1>2, <2>1
    <2>4. /\ session' \in SessionType /\ session'.call = n /\ session'.cp = session.cp
          /\ session'.context = session.context /\ session'.selection = session.selection
      BY <1>4, <2>2, <2>3 DEF SessionType
    <2> QED
      BY <2>1, <2>4
  <1>10. PICK c : c = Len(calls) + 1
    OBVIOUS
  <1>11. /\ DOMAIN calls' = DOMAIN calls \union {c} /\ c \notin DOMAIN calls /\ calls'[c] = call
         /\ session'.call = c
    BY <1>5, <1>7, <1>9, <1>10
  <1>12. CallsFit'
    <2>1. \A d \in DOMAIN calls : calls[d].key # e.key
      BY DEF CallWith
    <2>2. \A d, f \in DOMAIN calls' : calls'[d].key = calls'[f].key => d = f
      BY <1>3, <1>8, <1>11, <2>1 DEF CallsFit
    <2>3. \A d \in DOMAIN calls' :
             /\ contexts[calls'[d].context].recorded
             /\ calls'[d].key.round = calls'[d].context
             /\ calls'[d].status = "streaming" => d = c
      BY <1>3, <1>8, <1>11 DEF CallsFit
    <2> QED
      BY <1>2, <1>11, <2>2, <2>3 DEF CallsFit
  <1>13. UsageMatchesRows'
    <2> SUFFICES ASSUME NEW i \in Items
                 PROVE  /\ usages'[i].contexts = Cardinality({v \in DOMAIN contexts : i \in contexts[v].refs})
                        /\ usages'[i].calls =
                              Cardinality({d \in DOMAIN calls' : i \in contexts[calls'[d].context].refs})
      BY <1>2 DEF UsageMatchesRows
    <2>1. PICK S : S = {d \in DOMAIN calls : i \in contexts[calls[d].context].refs}
      OBVIOUS
    <2>2. PICK T : T = {d \in DOMAIN calls' : i \in contexts[calls'[d].context].refs}
      OBVIOUS
    <2>3. /\ usages[i].contexts = Cardinality({v \in DOMAIN contexts : i \in contexts[v].refs})
          /\ usages[i].calls = Cardinality(S)
      BY <2>1 DEF UsageMatchesRows
    <2>4. usages[i] \in Usage
      BY DEF KInv, UsageType
    <2>5. IsFiniteSet(S) /\ c \notin S
      <3>1. S \subseteq DOMAIN calls
        BY <2>1
      <3> QED
        BY <1>11, <3>1, RoundsFinite, FS_Subset
    <2>6. CASE i \in contexts[session.context].refs
      <3>1. usages'[i] = [usages[i] EXCEPT !.status = "consumed", !.calls = @ + 1]
        BY <1>2, <2>6 DEF MarkModelCall
      <3>2. usages'[i].contexts = usages[i].contexts /\ usages'[i].calls = usages[i].calls + 1
        BY <2>4, <3>1 DEF Usage
      <3>3. T = S \union {c}
        BY <1>3, <1>8, <1>11, <2>1, <2>2, <2>6
      <3>4. Cardinality(T) = Cardinality(S) + 1
        BY <2>5, <3>3, FS_AddElement
      <3> QED
        BY <2>2, <2>3, <3>2, <3>4
    <2>7. CASE i \notin contexts[session.context].refs
      <3>1. usages'[i] = usages[i]
        BY <1>2, <2>7 DEF MarkModelCall
      <3>2. T = S
        BY <1>3, <1>8, <1>11, <2>1, <2>2, <2>7
      <3> QED
        BY <2>2, <2>3, <3>1, <3>2
    <2> QED
      BY <2>6, <2>7
  <1> QED
    BY <1>3, <1>5, <1>7, <1>8, <1>9, <1>12, <1>13

\* A fact that is marked stays open.
LEMMA MarkedOpen ==
  ASSUME KInv, NEW e, session.selection \subseteq Items,
         \A i \in session.selection : usages[i].status \in OpenUsage,
         usages' = MarkModelCall \/ usages' = MarkContext(e)
  PROVE  \A i \in session.selection : usages'[i].status \in OpenUsage
  <1> SUFFICES ASSUME NEW i \in session.selection PROVE usages'[i].status \in OpenUsage
    OBVIOUS
  <1>1. i \in Items /\ usages[i] \in Usage /\ usages[i].status \in OpenUsage
    BY DEF KInv, UsageType
  <1>2. \/ usages'[i] = usages[i]
        \/ usages'[i] = [usages[i] EXCEPT !.status = "consumed", !.calls = @ + 1]
        \/ usages'[i] = [usages[i] EXCEPT !.status = "consumed", !.contexts = @ + 1]
    BY <1>1 DEF MarkModelCall, MarkContext
  <1> QED
    BY <1>1, <1>2 DEF Usage, OpenUsage

LEMMA CallStartedMInv ==
  ASSUME MInv, KInv', Record, NEW H \in Histories, NEW known \in 0..Limit, NEW from \in Nat,
         Follows(H, known, from), NEW e, e = Head(worker.events), NEW next \in Nat, next = from + 1,
         NEW r \in 1..Limit, e.ev = "MODEL_CALL_STARTED", next = 8 * r + 2, r <= known, e.key = H[r]
  PROVE  MInv'
  <1>1. RecordCallStarted(e) /\ worker'.keys = worker.keys /\ UNCHANGED <<direct, takeovers>>
        /\ RowsFollow(H, known) /\ WorkerFollows(H, known, from)
        /\ RowsReached(H, known, from) /\ KeysFresh(H, known, from)
        /\ worker'.pc = worker.pc /\ worker'.outcome = worker.outcome
        /\ Looping /\ ~ Refused(e)
    BY RecordTail DEF Project
  <1>2. UNCHANGED <<contexts, reasoning, tool>> /\ usages' = MarkModelCall
    BY <1>1 DEF RecordCallStarted
  <1>3. Limit \in Nat /\ r \in Nat /\ r \in 1..MaxIterations /\ known \in Nat
        /\ r \in 1..known
    BY LimitBounds, BudgetAssumption
  <1>4. RowsType /\ RunFollowed /\ StepsBound /\ CallsFit /\ ContextsFrozen /\ KInv /\ UsageMatchesRows
    BY DEF MInv
  <1>5. from = 8 * r + 1 /\ from \in (8 * r + 1)..(8 * r + 4)
    BY <1>3
  <1>6. session.context = r /\ contexts[r].recorded /\ H[r].round = r /\ H[r] \in KeyType
    <2>1. session.context = r
      BY <1>1, <1>5 DEF RowsReached
    <2>2. contexts[r].recorded
      BY <1>3, <1>4, <2>1 DEF ContextsFrozen
    <2> QED
      BY <1>1, <1>3, <2>1, <2>2 DEF RowsFollow, Histories
  <1>7. CallWith(H[r]) = {}
    BY <1>1 DEF Refused
  <1>8. \A d \in DOMAIN calls : calls[d].key.round \in Nat
    BY <1>4, RoundsType DEF CallType, KeyType
  <1>9. \A d \in DOMAIN calls : calls[d].status # "streaming"
    <2> SUFFICES ASSUME NEW d \in DOMAIN calls, calls[d].status = "streaming" PROVE FALSE
      OBVIOUS
    <2>1. PICK n : n = calls[d].key.round
      OBVIOUS
    <2>2. from = 8 * n + 2 /\ n \in Nat
      BY <1>1, <1>8, <2>1 DEF RowsReached
    <2> QED
      BY <1>3, <1>5, <2>2
  <1>10. PICK c : c = Len(calls) + 1
    OBVIOUS
  <1>11. /\ calls' \in Seq(CallType) /\ Len(calls) \in Nat /\ Len(calls') = Len(calls) + 1
         /\ DOMAIN calls' = DOMAIN calls \union {c} /\ c \notin DOMAIN calls
         /\ \A d \in DOMAIN calls : calls'[d] = calls[d]
         /\ calls'[c].key = H[r] /\ calls'[c].status = "streaming"
         /\ session' \in SessionType /\ session'.call = c /\ session'.cp = session.cp
         /\ session'.context = session.context /\ session'.selection = session.selection
         /\ CallsFit' /\ UsageMatchesRows'
    <2>1. session.context \in 1..MaxIterations /\ contexts[session.context].recorded
          /\ e.key.round = session.context /\ e.key \in KeyType /\ CallWith(e.key) = {}
      BY <1>3, <1>6, <1>7
    <2> QED
      BY <1>1, <1>4, <1>9, <1>10, <2>1, CallAppended
  <1>12. c # 0 /\ Len(calls) < Len(calls') /\ Len(calls') \in Nat
    <2>1. Len(calls) \in Nat /\ Len(calls') = Len(calls) + 1
      BY <1>11
    <2> QED
      BY <1>10, <2>1
  <1>13. ContextsFrozen' /\ StepsBound'
    <2>1. ContextsFrozen'
      BY <1>2, <1>4, <1>11 DEF ContextsFrozen
    <2>2. \A q \in 1..MaxIterations : tool[q].call \in 0..Len(calls')
             /\ (tool[q].call # 0 => calls'[tool[q].call].key.round <= q)
      <3> SUFFICES ASSUME NEW q \in 1..MaxIterations
                   PROVE  tool[q].call \in 0..Len(calls')
             /\ (tool[q].call # 0 => calls'[tool[q].call].key.round <= q)
        OBVIOUS
      <3>1. /\ tool[q].call \in 0..Len(calls)
            /\ tool[q].call # 0 => calls[tool[q].call].key.round <= q
        BY <1>4 DEF StepsBound
      <3>2. tool[q].call # 0 => tool[q].call \in DOMAIN calls
        BY <1>4, <3>1, RoundsType
      <3>3. tool[q].call \in 0..Len(calls')
        BY <1>11, <1>12, <3>1
      <3> QED
        BY <1>11, <3>1, <3>2, <3>3
    <2>3. StepsBound'
      BY <1>1, <1>2, <1>4, <1>11, <2>2 DEF StepsBound
    <2> QED
      BY <2>1, <2>3
  <1>14. Rounds' = Rounds \union {r}
    BY <1>6, <1>11 DEF Rounds
  <1>15. ~ direct => Len(calls') <= Cardinality(Rounds') + Charged
    <2> SUFFICES ASSUME ~ direct PROVE Len(calls') <= Cardinality(Rounds') + Charged
      OBVIOUS
    <2>1. IsFiniteSet(Rounds)
      BY <1>4, RoundsType
    <2>2. Cardinality(Rounds) \in Nat
      BY <2>1, FS_CardinalityType
    <2>3. Charged \in Int
      BY <1>4 DEF Charged, RowsType
    <2>4. Len(calls) <= Cardinality(Rounds) + Charged
      BY DEF MInv, CallsOwed
    <2>5. CASE r \in Rounds
      <3>1. PICK d \in DOMAIN calls : calls[d].key.round = r
        BY <2>5 DEF Rounds
      <3>2. 8 * calls[d].key.round + 2 > from
        BY <1>3, <1>5, <3>1
      <3>3. Len(calls) < Cardinality(Rounds) + Charged
        BY <1>1, <3>2 DEF RowsReached
      <3>4. Rounds' = Rounds
        BY <1>14, <2>5
      <3>5. Len(calls) \in Nat /\ Len(calls') = Len(calls) + 1
        BY <1>11
      <3> QED
        BY <2>2, <2>3, <3>3, <3>4, <3>5
    <2>6. CASE r \notin Rounds
      <3>1. Cardinality(Rounds') = Cardinality(Rounds) + 1
        BY <1>14, <2>1, <2>6, FS_AddElement
      <3>2. Len(calls) \in Nat /\ Len(calls') = Len(calls) + 1
        BY <1>11
      <3> QED
        BY <2>2, <2>3, <2>4, <3>1, <3>2
    <2> QED
      BY <2>5, <2>6
  <1>16. RowsFollow(H, known)'
    BY <1>1, <1>2, <1>11 DEF RowsFollow
  <1>17. RowsReached(H, known, next)'
    <2>1. ASSUME ~ direct, NEW v \in 1..MaxIterations, contexts[v].recorded
          PROVE  8 * v <= next + 1
      <3>1. 8 * v <= from + 1
        BY <1>1, <2>1 DEF RowsReached
      <3>2. v \in Nat
        BY BudgetAssumption
      <3> QED
        BY <3>1, <3>2
    <2>2. ASSUME NEW q \in 1..Limit
          PROVE  /\ next \in (8 * q + 1)..(8 * q + 4) => r = q
                 /\ next \in (8 * q + 2)..(8 * q + 4) \/ (takeovers = 0 /\ next = 8 * q + 5) =>
                       q <= known /\ H[r] = H[q]
                 /\ next # 8 * q + 3
                 /\ takeovers = 0 /\ ~ direct /\ 8 * q + 6 <= next =>
                       q <= known /\ tool[q].call # 0 /\ calls'[tool[q].call].key = H[q]
      <3>1. takeovers = 0 /\ ~ direct /\ 8 * q + 6 <= from =>
                  q <= known /\ tool[q].call # 0 /\ calls[tool[q].call].key = H[q]
        BY <1>1 DEF RowsReached
      <3>2. q \in Nat
        BY <1>3
      <3>3. /\ next # 8 * q + 3 /\ next # 8 * q + 5 /\ next # 8 * q + 6
            /\ next \in (8 * q + 1)..(8 * q + 4) => r = q
        BY <1>3, <3>2
      <3>4. /\ next \in (8 * q + 2)..(8 * q + 4) => r = q
            /\ 8 * q + 6 <= next => 8 * q + 6 <= from
        BY <1>3, <3>2, <3>3
      <3>5. takeovers = 0 /\ ~ direct /\ 8 * q + 6 <= next =>
                       q <= known /\ tool[q].call # 0 /\ calls'[tool[q].call].key = H[q]
        <4>1. q \in 1..MaxIterations
          BY <1>3, LimitBounds, BudgetAssumption
        <4>2. tool[q].call \in 0..Len(calls)
          BY <1>4, <4>1 DEF StepsBound
        <4>3. tool[q].call # 0 => tool[q].call \in DOMAIN calls
          BY <1>4, <4>2, RoundsType
        <4> QED
          BY <1>11, <3>1, <3>4, <4>3
      <3> QED
        BY <3>3, <3>4, <3>5
    <2>3. \A d \in DOMAIN calls' : calls'[d].status = "streaming" => next = 8 * calls'[d].key.round + 2
      BY <1>6, <1>9, <1>11
    <2>4. ~ direct => \A d \in DOMAIN calls' : ~ (8 * calls'[d].key.round + 2 > next)
      <3> SUFFICES ASSUME ~ direct, NEW d \in DOMAIN calls' PROVE ~ (8 * calls'[d].key.round + 2 > next)
        OBVIOUS
      <3>1. PICK n : n = calls'[d].key.round
        OBVIOUS
      <3>2. n \in Nat /\ 8 * n <= 8 * r + 2
        <4>1. CASE d \in DOMAIN calls
          BY <1>1, <1>4, <1>5, <1>11, <3>1, <4>1, NoLaterRound
        <4>2. CASE d = c
          <5>1. n = r
            BY <1>6, <1>11, <3>1, <4>2
          <5> QED
            BY <1>3, <5>1
        <4> QED
          BY <1>11, <4>1, <4>2
      <3> QED
        BY <1>3, <3>1, <3>2
    <2>5. UNCHANGED <<direct, contexts, tool, takeovers>>
      BY <1>1, <1>2
    <2>6. session'.context = r /\ session'.call # 0 /\ calls'[session'.call].key = H[r]
          /\ calls'[session'.call].status = "streaming"
      BY <1>6, <1>11, <1>12
    <2> QED
      BY <2>1, <2>2, <2>3, <2>4, <2>5, <2>6 DEF RowsReached
  <1>18. KeysFresh(H, known, next)'
    <2> SUFFICES ASSUME ~ direct
                 PROVE  /\ IsFiniteSet(worker.keys)
                        /\ \A k \in worker.keys : CallWith(k)' # {}
                        /\ \A d \in DOMAIN calls' :
                              \/ calls'[d].key \in worker.keys
                              \/ calls'[d].key.round <= known /\ 8 * calls'[d].key.round + 2 <= next
                        /\ \A q \in 1..known : 8 * q + 2 > next =>
                              CallWith(H[q])' = {} /\ (H[q].replay > 0 => CallWith(Key(q, 0))' # {})
      BY <1>1 DEF KeysFresh
    <2>1. /\ IsFiniteSet(worker.keys)
          /\ \A k \in worker.keys : CallWith(k) # {}
          /\ \A d \in DOMAIN calls :
                \/ calls[d].key \in worker.keys
                \/ calls[d].key.round <= known /\ 8 * calls[d].key.round + 2 <= from
          /\ \A q \in 1..known : 8 * q + 2 > from =>
                CallWith(H[q]) = {} /\ (H[q].replay > 0 => CallWith(Key(q, 0)) # {})
      BY <1>1 DEF KeysFresh
    <2>2. \A k : CallWith(k) # {} => CallWith(k)' # {}
      BY <1>11 DEF CallWith
    <2>3. ASSUME NEW d \in DOMAIN calls'
          PROVE  \/ calls'[d].key \in worker.keys
                 \/ calls'[d].key.round <= known /\ 8 * calls'[d].key.round + 2 <= next
      <3>1. CASE d \in DOMAIN calls
        <4>1. calls'[d] = calls[d] /\ calls[d].key.round \in Nat
          BY <1>8, <1>11, <3>1
        <4>2. 8 * calls[d].key.round + 2 <= from => 8 * calls[d].key.round + 2 <= next
          BY <4>1
        <4> QED
          BY <2>1, <3>1, <4>1, <4>2
      <3>2. CASE d = c
        BY <1>3, <1>6, <1>11, <3>2
      <3> QED
        BY <1>11, <3>1, <3>2
    <2>4. ASSUME NEW q \in 1..known, 8 * q + 2 > next
          PROVE  CallWith(H[q])' = {} /\ (H[q].replay > 0 => CallWith(Key(q, 0))' # {})
      <3>1. 8 * q + 2 > from /\ q # r
        BY <1>3, <2>4
      <3>2. CallWith(H[q]) = {} /\ (H[q].replay > 0 => CallWith(Key(q, 0)) # {})
        BY <2>1, <3>1
      <3>3. H[q] # H[r]
        <4>1. H[q].round = q
          BY <1>1 DEF RowsFollow
        <4> QED
          BY <1>6, <3>1, <4>1
      <3>4. CallWith(H[q])' = {}
        BY <1>11, <3>2, <3>3 DEF CallWith
      <3> QED
        BY <2>2, <3>2, <3>4
    <2> QED
      BY <2>1, <2>2, <2>3, <2>4
  <1>19. ~ direct => /\ PlaceOf(session'.cp) <= Top(from)
                     /\ \A q \in 1..Limit : 8 * q <= next + 1 => 8 * q <= PlaceOf(session'.cp)
    <2>1. \A q \in 1..Limit : next + 1 # 8 * q
      BY <1>3
    <2> QED
      BY <1>1, <1>11, <2>1, CpStays
  <1>20. session'.call <= Len(calls')
    <2>1. Len(calls) \in Nat /\ Len(calls') = Len(calls) + 1 /\ session'.call = Len(calls) + 1
      BY <1>10, <1>11
    <2> QED
      BY <2>1
  <1>21. /\ contexts' \in [1..MaxIterations -> ContextType]
         /\ reasoning' \in [1..MaxIterations -> StepType]
         /\ tool' \in [1..MaxIterations -> StepType]
         /\ \A q \in 1..Limit : tool[q].status # "none" => tool'[q].status # "none"
    BY <1>2, <1>4 DEF RowsType
  <1>22. \A i \in session.selection : usages'[i].status \in OpenUsage
    <2>1. session.selection \subseteq Items
      BY <1>4 DEF RowsType, SessionType
    <2>2. \A i \in session.selection : usages[i].status \in OpenUsage
      BY <1>1, <1>4 DEF RunFollowed
    <2> QED
      BY <1>2, <1>4, <2>1, <2>2, MarkedOpen
  <1> QED
    BY <1>11, <1>13, <1>15, <1>16, <1>17, <1>18, <1>19, <1>20, <1>21, <1>22, RecordMInv


\* What a context adds to the rows, or leaves as it was when it is replayed.
LEMMA ContextAdded ==
  ASSUME RowsType, CallsFit, ContextsFrozen, KInv, UsageMatchesRows,
         NEW r \in 1..MaxIterations, NEW history \in Seq(KeyType),
         NEW e, e.version = r, e.content = Snapshot(history, session.selection),
         RecordContext(e), ~ NewContext(e) => contexts[r] = e.content
  PROVE  /\ contexts' \in [1..MaxIterations -> ContextType] /\ contexts'[r] = e.content
         /\ \A v \in 1..MaxIterations : v # r => contexts'[v] = contexts[v]
         /\ ContextsFrozen' /\ CallsFit' /\ UsageMatchesRows'
  <1>1. PICK content : content = e.content
    OBVIOUS
  <1>2. /\ contexts' = [contexts EXCEPT ![r] = content] /\ usages' = MarkContext(e)
        /\ session' = [session EXCEPT !.context = r] /\ UNCHANGED <<calls, reasoning, tool>>
    BY <1>1 DEF RecordContext
  <1>3. session \in SessionType /\ contexts \in [1..MaxIterations -> ContextType]
    BY DEF RowsType
  <1>4. content \in ContextType /\ content.recorded = TRUE /\ content.refs = session.selection
    BY <1>1, <1>3 DEF Snapshot, ContextType, SessionType
  <1>5. /\ contexts' \in [1..MaxIterations -> ContextType] /\ contexts'[r] = content
        /\ \A v \in 1..MaxIterations : v # r => contexts'[v] = contexts[v]
    BY <1>2, <1>3, <1>4
  <1>6. session'.selection = session.selection /\ session'.context = r /\ session'.call = session.call
    BY <1>2, <1>3 DEF SessionType
  <1>7. ContextsFrozen'
    <2>1. \A v \in 1..MaxIterations :
            contexts'[v].refs = IF contexts'[v].recorded THEN session.selection ELSE {}
      <3> SUFFICES ASSUME NEW v \in 1..MaxIterations
                   PROVE  contexts'[v].refs = IF contexts'[v].recorded THEN session.selection ELSE {}
        OBVIOUS
      <3>1. contexts[v].refs = IF contexts[v].recorded THEN session.selection ELSE {}
        BY DEF ContextsFrozen
      <3>2. CASE v = r
        BY <1>4, <1>5, <3>2
      <3>3. CASE v # r
        BY <1>5, <3>1, <3>3
      <3> QED
        BY <3>2, <3>3
    <2> QED
      BY <1>4, <1>5, <1>6, <2>1 DEF ContextsFrozen
  <1>8. \A d \in DOMAIN calls : /\ calls[d].context \in 1..MaxIterations
                                /\ contexts[calls[d].context].recorded
                                /\ contexts'[calls[d].context].recorded
    <2> SUFFICES ASSUME NEW d \in DOMAIN calls
                 PROVE  /\ calls[d].context \in 1..MaxIterations
                        /\ contexts[calls[d].context].recorded
                        /\ contexts'[calls[d].context].recorded
      OBVIOUS
    <2>1. calls[d].context \in 1..MaxIterations
      BY RoundsType DEF CallType
    <2>2. contexts[calls[d].context].recorded
      BY DEF CallsFit
    <2> QED
      BY <1>4, <1>5, <2>1, <2>2
  <1>9. CallsFit'
    BY <1>2, <1>6, <1>8 DEF CallsFit
  <1>10. UsageMatchesRows'
    <2>1. CASE contexts[r].recorded
      <3>1. contexts[r] = content
        BY <1>1, <2>1 DEF NewContext
      <3>2. contexts' = contexts
        BY <1>2, <1>3, <3>1
      <3>3. \A i \in Items : usages'[i] = usages[i]
        BY <1>2, <2>1 DEF MarkContext, NewContext
      <3>4. \A i \in Items :
              /\ usages'[i].contexts = Cardinality({v \in DOMAIN contexts' : i \in contexts'[v].refs})
              /\ usages'[i].calls =
                    Cardinality({d \in DOMAIN calls : i \in contexts'[calls[d].context].refs})
        BY <3>2, <3>3 DEF UsageMatchesRows
      <3> QED
        BY <1>2, <3>4 DEF UsageMatchesRows
    <2>2. CASE ~ contexts[r].recorded
      <3> SUFFICES ASSUME NEW i \in Items
                   PROVE  /\ usages'[i].contexts = Cardinality({v \in DOMAIN contexts' : i \in contexts'[v].refs})
                          /\ usages'[i].calls =
                                Cardinality({d \in DOMAIN calls : i \in contexts'[calls[d].context].refs})
        BY <1>2 DEF UsageMatchesRows
      <3>1. PICK S : S = {v \in DOMAIN contexts : i \in contexts[v].refs}
        OBVIOUS
      <3>2. PICK T : T = {v \in DOMAIN contexts' : i \in contexts'[v].refs}
        OBVIOUS
      <3>3. /\ usages[i].contexts = Cardinality(S)
            /\ usages[i].calls = Cardinality({d \in DOMAIN calls : i \in contexts[calls[d].context].refs})
        BY <3>1 DEF UsageMatchesRows
      <3>4. usages[i] \in Usage
        BY DEF KInv, UsageType
      <3>5. \A d \in DOMAIN calls : contexts'[calls[d].context] = contexts[calls[d].context]
        BY <1>5, <1>8, <2>2
      <3>6. {d \in DOMAIN calls : i \in contexts'[calls[d].context].refs}
               = {d \in DOMAIN calls : i \in contexts[calls[d].context].refs}
        BY <3>5
      <3>7. DOMAIN contexts = 1..MaxIterations /\ DOMAIN contexts' = 1..MaxIterations
        BY <1>3, <1>5
      <3>8. contexts[r].refs = {}
        BY <2>2 DEF ContextsFrozen
      <3>9. IsFiniteSet(S) /\ r \notin S
        <4>1. S \subseteq 1..MaxIterations
          BY <3>1, <3>7
        <4>2. IsFiniteSet(1..MaxIterations)
          BY BudgetAssumption, FS_Interval
        <4> QED
          BY <3>1, <3>8, <4>1, <4>2, FS_Subset
      <3>10. CASE i \in session.selection
        <4>1. usages'[i] = [usages[i] EXCEPT !.status = "consumed", !.contexts = @ + 1]
          BY <1>1, <1>2, <1>4, <2>2, <3>10 DEF MarkContext, NewContext
        <4>2. usages'[i].contexts = usages[i].contexts + 1 /\ usages'[i].calls = usages[i].calls
          BY <3>4, <4>1 DEF Usage
        <4>3. T = S \union {r}
          BY <1>4, <1>5, <3>1, <3>2, <3>7, <3>10
        <4>4. Cardinality(T) = Cardinality(S) + 1
          BY <3>9, <4>3, FS_AddElement
        <4> QED
          BY <3>2, <3>3, <3>6, <4>2, <4>4
      <3>11. CASE i \notin session.selection
        <4>1. usages'[i] = usages[i]
          BY <1>1, <1>2, <1>4, <3>11 DEF MarkContext
        <4>2. T = S
          BY <1>4, <1>5, <3>1, <3>2, <3>7, <3>8, <3>11
        <4> QED
          BY <3>2, <3>3, <3>6, <4>1, <4>2
      <3> QED
        BY <3>10, <3>11
    <2> QED
      BY <2>1, <2>2
  <1> QED
    BY <1>1, <1>5, <1>7, <1>9, <1>10

LEMMA ContextMInv ==
  ASSUME MInv, KInv', Record, NEW H \in Histories, NEW known \in 0..Limit, NEW from \in Nat,
         Follows(H, known, from), NEW e, e = Head(worker.events), NEW next \in Nat, next = from + 1,
         NEW r \in 1..Limit, e.ev = "CONTEXT_SNAPSHOT_CREATED", next = 8 * r + 1, r <= known,
         e.version = r, e.content = Snapshot(Prefix(H, r - 1), worker.refs)
  PROVE  MInv'
  <1>1. RecordContext(e) /\ worker'.keys = worker.keys /\ UNCHANGED <<direct, takeovers>>
        /\ RowsFollow(H, known) /\ WorkerFollows(H, known, from)
        /\ RowsReached(H, known, from) /\ KeysFresh(H, known, from)
        /\ worker'.pc = worker.pc /\ worker'.outcome = worker.outcome
        /\ Looping /\ ~ Refused(e)
    BY RecordTail DEF Project
  <1>2. UNCHANGED <<calls, reasoning, tool>> /\ usages' = MarkContext(e)
        /\ session' = [session EXCEPT !.context = r]
    BY <1>1 DEF RecordContext
  <1>3. Limit \in Nat /\ r \in Nat /\ r \in 1..MaxIterations /\ known \in Nat
        /\ r \in 1..known /\ r - 1 \in 0..Limit /\ r - 1 <= known
    BY LimitBounds, BudgetAssumption
  <1>4. RowsType /\ RunFollowed /\ StepsBound /\ CallsFit /\ ContextsFrozen /\ KInv /\ UsageMatchesRows
    BY DEF MInv
  <1>5. from = 8 * r /\ 8 * r <= from + 1 /\ 8 * r <= next + 1
    BY <1>3
  <1>6. worker.refs = session.selection
    BY <1>1 DEF WorkerFollows
  <1>7. /\ session' \in SessionType /\ session'.cp = session.cp /\ session'.context = r
        /\ session'.call = session.call /\ session'.selection = session.selection
    <2>1. session \in SessionType /\ r \in 0..MaxIterations
      BY <1>3, <1>4, BudgetAssumption DEF RowsType
    <2> QED
      BY <1>2, <2>1 DEF SessionType
  <1>8. /\ contexts' \in [1..MaxIterations -> ContextType] /\ contexts'[r] = e.content
        /\ \A v \in 1..MaxIterations : v # r => contexts'[v] = contexts[v]
        /\ ContextsFrozen' /\ CallsFit' /\ UsageMatchesRows'
    <2>1. Prefix(H, r - 1) \in Seq(KeyType)
      BY <1>3, PrefixFacts
    <2>2. ~ NewContext(e) => contexts[r] = e.content
      BY <1>1 DEF Refused
    <2> QED
      BY <1>1, <1>3, <1>4, <1>6, <2>1, <2>2, ContextAdded
  <1>9. StepsBound'
    BY <1>1, <1>2, <1>4 DEF StepsBound
  <1>10. Rounds' = Rounds
    BY <1>2 DEF Rounds
  <1>11. ~ direct => Len(calls') <= Cardinality(Rounds') + Charged
    BY <1>2, <1>10 DEF MInv, CallsOwed
  <1>12. RowsFollow(H, known)'
    <2>1. ASSUME ~ direct, NEW v \in 1..MaxIterations, contexts'[v].recorded
          PROVE  /\ v \in 1..Limit /\ v - 1 <= known
                 /\ contexts'[v] = Snapshot(Prefix(H, v - 1), session.selection)
                 /\ 8 * v <= PlaceOf(session.cp)
      <3>1. CASE v = r
        <4>1. 8 * r <= PlaceOf(session.cp)
          BY <1>1, <1>5, <2>1 DEF WorkerFollows
        <4> QED
          BY <1>3, <1>6, <1>8, <3>1, <4>1
      <3>2. CASE v # r
        <4>1. contexts'[v] = contexts[v]
          BY <1>8, <3>2
        <4> QED
          BY <1>1, <2>1, <4>1 DEF RowsFollow
      <3> QED
        BY <3>1, <3>2
    <2> QED
      BY <1>1, <1>7, <2>1 DEF RowsFollow
  <1>13. Charged' = Charged
    BY <1>1 DEF Charged, Suspending
  <1>14. RowsReached(H, known, next)'
    <2>1. ASSUME ~ direct, NEW v \in 1..MaxIterations, contexts'[v].recorded
          PROVE  8 * v <= next + 1
      <3>1. CASE v = r
        BY <1>5, <3>1
      <3>2. CASE v # r
        <4>1. contexts[v].recorded
          BY <1>8, <2>1, <3>2
        <4>2. 8 * v <= from + 1
          BY <1>1, <2>1, <4>1 DEF RowsReached
        <4>3. v \in Nat
          BY BudgetAssumption
        <4> QED
          BY <4>2, <4>3
      <3> QED
        BY <3>1, <3>2
    <2>2. ASSUME NEW q \in 1..Limit
          PROVE  /\ next \in (8 * q + 1)..(8 * q + 4) => q = r
                 /\ next \notin (8 * q + 2)..(8 * q + 4) /\ next # 8 * q + 5
                 /\ next # 8 * q + 2 /\ next # 8 * q + 3
                 /\ takeovers = 0 /\ ~ direct /\ 8 * q + 6 <= next =>
                       q <= known /\ tool[q].call # 0 /\ calls[tool[q].call].key = H[q]
      <3>1. takeovers = 0 /\ ~ direct /\ 8 * q + 6 <= from =>
                  q <= known /\ tool[q].call # 0 /\ calls[tool[q].call].key = H[q]
        BY <1>1 DEF RowsReached
      <3>2. q \in Nat
        BY <1>3
      <3>3. /\ next # 8 * q + 2 /\ next # 8 * q + 3 /\ next # 8 * q + 4 /\ next # 8 * q + 5
            /\ next # 8 * q + 6 /\ next \in (8 * q + 1)..(8 * q + 4) => q = r
        BY <1>3, <3>2
      <3>4. /\ next \notin (8 * q + 2)..(8 * q + 4)
            /\ 8 * q + 6 <= next => 8 * q + 6 <= from
        BY <3>2, <3>3
      <3> QED
        BY <3>1, <3>3, <3>4
    <2>3. \A d \in DOMAIN calls : calls[d].key.round \in Nat
      BY <1>4, RoundsType DEF CallType, KeyType
    <2>4. \A d \in DOMAIN calls : calls[d].status # "streaming"
      <3> SUFFICES ASSUME NEW d \in DOMAIN calls, calls[d].status = "streaming" PROVE FALSE
        OBVIOUS
      <3>1. PICK n : n = calls[d].key.round
        OBVIOUS
      <3>2. from = 8 * n + 2 /\ n \in Nat
        BY <1>1, <2>3, <3>1 DEF RowsReached
      <3> QED
        BY <1>3, <1>5, <3>2
    <2>5. ~ direct /\ (\E d \in DOMAIN calls : 8 * calls[d].key.round + 2 > next) =>
            Len(calls) < Cardinality(Rounds) + Charged
      <3>1. \A d \in DOMAIN calls : 8 * calls[d].key.round + 2 > next => 8 * calls[d].key.round + 2 > from
        BY <2>3
      <3> QED
        BY <1>1, <3>1 DEF RowsReached
    <2>6. UNCHANGED <<direct, calls, tool, takeovers>>
      BY <1>1, <1>2
    <2> QED
      BY <1>7, <1>10, <1>13, <2>1, <2>2, <2>4, <2>5, <2>6 DEF RowsReached
  <1>15. KeysFresh(H, known, next)'
    BY <1>1, <1>2, <1>3, <1>4, KeysFreshNext
  <1>16. ~ direct => /\ PlaceOf(session'.cp) <= Top(from)
                     /\ \A q \in 1..Limit : 8 * q <= next + 1 => 8 * q <= PlaceOf(session'.cp)
    <2>1. \A q \in 1..Limit : next + 1 # 8 * q
      BY <1>3
    <2> QED
      BY <1>1, <1>7, <2>1, CpStays
  <1>17. /\ session'.call <= Len(calls') /\ calls' \in Seq(CallType)
         /\ reasoning' \in [1..MaxIterations -> StepType]
         /\ tool' \in [1..MaxIterations -> StepType]
         /\ \A q \in 1..Limit : tool[q].status # "none" => tool'[q].status # "none"
    BY <1>2, <1>4, <1>7 DEF RowsType
  <1>18. \A i \in session.selection : usages'[i].status \in OpenUsage
    <2>1. session.selection \subseteq Items
      BY <1>4 DEF RowsType, SessionType
    <2>2. \A i \in session.selection : usages[i].status \in OpenUsage
      BY <1>1, <1>4 DEF RunFollowed
    <2> QED
      BY <1>2, <1>4, <2>1, <2>2, MarkedOpen
  <1> QED
    BY <1>7, <1>8, <1>9, <1>11, <1>12, <1>14, <1>15, <1>16, <1>17, <1>18, RecordMInv

LEMMA RecordAllMInv ==
  ASSUME MInv, KInv', Record
  PROVE  MInv'
  <1>1. PICK H \in Histories, known \in 0..Limit, from \in Nat : Follows(H, known, from)
    BY DEF MInv
  <1>2. PICK e : e = Head(worker.events)
    OBVIOUS
  <1>3. PICK next : next = from + 1
    OBVIOUS
  <1>4. next \in Nat
    BY <1>3
  <1>5. Fits(e, next, H, known, worker.refs, 1 = Len(worker.events) /\ worker.pc = "finish", direct)
    BY <1>1, <1>2, <1>3, RecordTail
  <1>6. PICK r \in 1..Limit :
        \/ next = 8 * r /\ e = StepStarted(r)
        \/ next = 8 * r + 1 /\ r <= known
              /\ e = ContextCreated(r, Snapshot(Prefix(H, r - 1), worker.refs))
        \/ next = 8 * r + 2 /\ r <= known /\ e = CallStarted(H[r])
        \/ next = 8 * r + 3 /\ r <= known
              /\ \/ e = CallEnded(H[r], "completed")
                 \/ (1 = Len(worker.events) /\ worker.pc = "finish") /\ e = CallEnded(H[r], "failed")
        \/ next = 8 * r + 4 /\ r <= known /\ e = StepCompleted(r)
        \/ next = 8 * r + 5 /\ r <= known /\ e.ev = "CHECKPOINT_SAVED" /\ e = Save(e.cp)
              /\ IF direct THEN e.cp.iteration = 1
                 ELSE \E state \in Finished : e.cp = CpAfter(H, r, state)
        \/ next = 8 * r + 6 /\ r <= known /\ ~ direct /\ e = ToolCompleted(r)
        \/ next = 8 * r + 7 /\ r <= known /\ ~ direct /\ e = Save(CpBefore(H, r + 1))
    BY <1>5 DEF Fits
  <1>7. CASE next = 8 * r /\ e = StepStarted(r)
    <2>1. e.ev = "STEP_STARTED" /\ e.round = r
      BY <1>7 DEF StepStarted
    <2> QED
      BY <1>1, <1>2, <1>3, <1>4, <1>7, <2>1, StepStartedMInv
  <1>8. CASE next = 8 * r + 1 /\ r <= known
              /\ e = ContextCreated(r, Snapshot(Prefix(H, r - 1), worker.refs))
    <2>1. e.ev = "CONTEXT_SNAPSHOT_CREATED" /\ e.version = r
          /\ e.content = Snapshot(Prefix(H, r - 1), worker.refs)
      BY <1>8 DEF ContextCreated
    <2> QED
      BY <1>1, <1>2, <1>3, <1>4, <1>8, <2>1, ContextMInv
  <1>9. CASE next = 8 * r + 2 /\ r <= known /\ e = CallStarted(H[r])
    <2>1. e.ev = "MODEL_CALL_STARTED" /\ e.key = H[r]
      BY <1>9 DEF CallStarted
    <2> QED
      BY <1>1, <1>2, <1>3, <1>4, <1>9, <2>1, CallStartedMInv
  <1>10. CASE next = 8 * r + 3 /\ r <= known
              /\ \/ e = CallEnded(H[r], "completed")
                 \/ (1 = Len(worker.events) /\ worker.pc = "finish") /\ e = CallEnded(H[r], "failed")
    <2>1. e.ev = "MODEL_CALL_ENDED" /\ e.key = H[r]
          /\ \/ e.status = "completed"
             \/ 1 = Len(worker.events) /\ worker.pc = "finish" /\ e.status = "failed"
      BY <1>10 DEF CallEnded
    <2> QED
      BY <1>1, <1>2, <1>3, <1>4, <1>10, <2>1, CallEndedMInv
  <1>11. CASE next = 8 * r + 4 /\ r <= known /\ e = StepCompleted(r)
    <2>1. e.ev = "STEP_COMPLETED" /\ e.round = r
      BY <1>11 DEF StepCompleted
    <2> QED
      BY <1>1, <1>2, <1>3, <1>4, <1>11, <2>1, StepCompletedMInv
  <1>12. CASE next = 8 * r + 5 /\ r <= known /\ e.ev = "CHECKPOINT_SAVED" /\ e = Save(e.cp)
              /\ IF direct THEN e.cp.iteration = 1
                 ELSE \E state \in Finished : e.cp = CpAfter(H, r, state)
    BY <1>1, <1>2, <1>3, <1>4, <1>12, CheckpointMInv
  <1>13. CASE next = 8 * r + 6 /\ r <= known /\ ~ direct /\ e = ToolCompleted(r)
    <2>1. e.ev = "TOOL_CALL_COMPLETED" /\ e.round = r
      BY <1>13 DEF ToolCompleted
    <2> QED
      BY <1>1, <1>2, <1>3, <1>4, <1>13, <2>1, ToolCompletedMInv
  <1>14. CASE next = 8 * r + 7 /\ r <= known /\ ~ direct /\ e = Save(CpBefore(H, r + 1))
    <2>1. e.ev = "CHECKPOINT_SAVED" /\ e.cp = CpBefore(H, r + 1)
      BY <1>14 DEF Save
    <2> QED
      BY <1>1, <1>2, <1>3, <1>4, <1>14, <2>1, CheckpointMInv
  <1> QED
    BY <1>6, <1>7, <1>8, <1>9, <1>10, <1>11, <1>12, <1>13, <1>14


-----------------------------------------------------------------------------

LEMMA NextMInv ==
  ASSUME MInv, [Next]_vars
  PROVE  MInv'
  <1>1. KInv'
    BY NextKeeps DEF MInv, Kept
  <1>2. CASE \/ Recall \/ PrepareRaises \/ RecoverRaises \/ OperatorCloses \/ ClaimLost \/ Crash
             \/ Publish \/ UNCHANGED vars
    BY <1>1, <1>2, QuietMInv
  <1>3. CASE Prepare \/ Recover
    BY <1>1, <1>3, PrepareMInv, RecoverMInv
  <1>4. CASE StartDirect \/ StartRound
    BY <1>1, <1>4, StartDirectMInv, StartRoundMInv
  <1>5. CASE StopRounds \/ StopLoop
    BY <1>1, <1>5, StopMInv
  <1>6. CASE AnswerFinal \/ AnswerUnusable \/ AnswerError \/ AnswerTool
    BY <1>1, <1>6, AnswerEndsMInv, AnswerToolMInv
  <1>7. CASE RunTool \/ ToolRaises \/ ToolNeedsApproval
    BY <1>1, <1>7, RunToolMInv, ToolStopsMInv
  <1>8. CASE Record
    BY <1>1, <1>8, RecordAllMInv
  <1>9. CASE CompleteClaim \/ FailClaim
    <2>1. \E outcome \in {"completed", "failed", "cancelled", "timed_out"} : Close(outcome)
      BY <1>9 DEF MInv, CompleteClaim, FailClaim, LoopAt, KInv, OutcomeType
    <2> QED
      BY <1>1, <2>1, CloseMInv
  <1>10. CASE SuspendClaim
    BY <1>1, <1>10, SuspendMInv
  <1> QED
    BY <1>2, <1>3, <1>4, <1>5, <1>6, <1>7, <1>8, <1>9, <1>10 DEF Next

\* The rows of a Run and the stream of the worker that holds it agree, over any
\* number of takeovers (loop.py and the projections of service.py).
THEOREM StreamIsFollowed == Spec => []MInv
  BY InitMInv, NextMInv, PTL DEF Spec

\* Nothing that a worker in react mode reports is refused, whatever the workers
\* before it left behind: contexts are replayed as they were recorded, call keys
\* are fresh and replays have a base (_next_call_key, _project_native_event and
\* the triggers it meets).
THEOREM ReactEventsAreAccepted == Spec => []EventsAreAccepted
  BY StreamIsFollowed, AcceptedFromMInv, PTL

\* Takeovers neither enlarge the iteration and token budgets of a Run nor leave
\* two of its model calls open; each call beyond one a round is owed to a crash
\* or a suspension (_execute_react, prepare_claim).
THEOREM BudgetsOutliveTakeovers == Spec => []CallBudgetHolds
  BY StreamIsFollowed, BudgetFromMInv, PTL

\* What a Run keeps for its provenance agrees after any number of replays: which
\* knowledge went into which contexts and calls (_mark_knowledge_context,
\* _mark_knowledge_model_call), and which call led to which step
\* (_step_completed, _project_native_event).
THEOREM ProvenanceSurvives == Spec => []ProvenanceIsExact
  BY StreamIsFollowed, ProvenanceFromMInv, PTL
=============================================================================
