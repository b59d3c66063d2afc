------------------------- MODULE PlanExecutionProofs -------------------------
(***************************************************************************)
(* What PlanExecution guarantees for any set of answers, any budgets and   *)
(* any number of takeovers.                                                *)
(***************************************************************************)
EXTENDS PlanExecution, SequenceTheorems, WellFoundedInduction, TLAPS

StepStatus == {"pending", "running", "completed", "failed"}
Dropped == {"superseded", "failed"}
Decisions == {"retry", "replan", "fail"}
CpStates == {"planning", "executing", "reflecting", "finalizing", "completed"}
LoopPcs == {"top", "step", "reflectStep", "reflectResult", "judge", "complete"}

Step == [key : Keys, deps : SUBSET Keys]
StepRow == [status : StepStatus, output : Outputs \union {NoOutput}]
Row == [status : {"active", "completed"} \union Dropped, plan : Seq(Step), decisions : Seq(Decisions),
        steps : UNION {[K -> StepRow] : K \in SUBSET Keys}]

\* A row of plans with its steps: a step that has started has its dependencies
\* completed, a completed Plan has all of its steps completed, and a Plan that was
\* given up has none left to run.
RowFits(row) ==
    /\ ValidGraph(row.plan) /\ DOMAIN row.steps = StepKeys(row.plan)
    /\ \A s \in Range(row.plan) :
          row.steps[s.key].status \in {"running", "completed"} => s.deps \subseteq CompletedSteps(row)
    /\ row.status = "completed" => CompletedSteps(row) = StepKeys(row.plan)
    /\ row.status \in Dropped => \A k \in DOMAIN row.steps : row.steps[k].status \in {"completed", "failed"}

\* Every row but the last was given up.
RowsFit ==
    /\ plans \in Seq(Row)
    /\ \A r \in DOMAIN plans : RowFits(plans[r]) /\ (r # Len(plans) => plans[r].status \in Dropped)

\* A checkpoint; any output and any context will do.
IsCheckpoint(cp) ==
    cp \in [state : CpStates, revision : Nat, done : SUBSET Keys, output : {cp.output},
            decision : Decisions \union {"none"}, reflections : Nat,
            step : [key : Keys \union {"none"}, round : Nat, pending : BOOLEAN],
            instruction : BOOLEAN, context : {cp.context}]

\* What a saved checkpoint says of the rows: it names a Plan there is, given up if
\* the next one is to be made, and counts no step as done that is not completed.
CpFits(cp) ==
    /\ IsCheckpoint(cp) /\ cp.revision \in 0..Len(plans)
    /\ cp.state # "planning" => cp.revision # 0
    /\ cp.state = "reflecting" => cp.decision \in Decisions
    /\ cp.revision # 0 =>
          /\ cp.done \subseteq CompletedSteps(plans[cp.revision])
          /\ cp.state = "planning" => plans[cp.revision].status \in Dropped

OthersDropped(rev) == \A r \in DOMAIN plans : r # rev => plans[r].status \in Dropped

\* A step of this plan, with its dependencies among these.
Runnable(plan, key, done) == \E s \in Range(plan) : s.key = key /\ s.deps \subseteq done

\* What the loop knows at each place of its code.
AtPc ==
    LET cp == worker.cp
    IN  /\ IsCheckpoint(cp) /\ cp.state # "completed"
        /\ worker.plan # NoPlan => worker.plan \in Seq(Step) /\ ValidGraph(worker.plan)
        /\ worker.pc # "top" => worker.plan # NoPlan
        /\ worker.pc \in {"top", "step"} => cp.state # "reflecting"
        /\ cp.state = "planning" => worker.plan = NoPlan
        /\ worker.pc = "step" =>
              Runnable(worker.plan, cp.step.key, cp.done) /\ cp.step.key \notin cp.done
        /\ worker.pc \in {"reflectResult", "judge", "complete"} => StepKeys(worker.plan) \subseteq cp.done
        /\ worker.pc \in {"judge", "complete"} => cp.output.fit

\* What it knows of the rows once all but these steps are recorded as completed.
DrainedBut(K) ==
    LET cp == worker.cp
    IN  /\ cp.revision \in 0..Len(plans) /\ OthersDropped(cp.revision)
        /\ cp.state # "planning" => cp.revision # 0
        /\ worker.plan # NoPlan => cp.revision # 0 /\ plans[cp.revision].plan = worker.plan
        /\ cp.revision # 0 =>
              /\ cp.done \subseteq CompletedSteps(plans[cp.revision]) \union K
              /\ plans[cp.revision].status = "active" =>
                    worker.plan # NoPlan /\ CompletedSteps(plans[cp.revision]) \subseteq cp.done
              /\ worker.plan = NoPlan => plans[cp.revision].status \in Dropped

Drained == DrainedBut({})

\* The loop will plan again: its Plan is about to be given up.
Superseding(q) ==
    LET cp == worker.cp
    IN  /\ worker.pc = "top" /\ worker.plan = NoPlan
        /\ cp.state = "planning" /\ cp.done = {}
        /\ cp.revision \in DOMAIN plans /\ OthersDropped(cp.revision)
        /\ \/ q = <<PlanStatus(cp.revision, "superseded")>>
           \/ q = <<PlanStatus(cp.revision, "superseded"), Save(cp)>>

\* The Run will fail with its Plan.
GivingUp(q) ==
    /\ worker.pc = "finish" /\ worker.outcome = "failed"
    /\ \E rev \in DOMAIN plans : OthersDropped(rev) /\ q = <<PlanStatus(rev, "failed")>>

\* The Plan of the worker is completed, and the result accepted.
Earned ==
    LET cp == worker.cp
    IN  /\ worker.pc = "finish" /\ worker.outcome = "completed"
        /\ cp.state = "completed" /\ cp.output.fit
        /\ plans # <<>> /\ LastRow.status = "completed"

\* What is left of a stream: at its end, ...
AtEnd(q) ==
    q = <<>> /\ \/ worker.pc \in LoopPcs /\ Drained
                \/ worker.pc = "finish" /\ worker.outcome \in {"failed", "cancelled"}
                \/ Earned

EndRest(q) == AtEnd(q) \/ Superseding(q) \/ GivingUp(q)

SaveFirst(q) ==
    /\ q # <<>> /\ Head(q).ev = "CHECKPOINT_SAVED" /\ Head(q) = Save(Head(q).cp)
    /\ CpFits(Head(q).cp) /\ Head(q).cp.state # "completed"

ReflectFirst(q) ==
    q # <<>> /\ \E rev \in DOMAIN plans, decision \in Decisions : Head(q) = Reflected(rev, decision)

\* ... from a checkpoint on, ...
SaveRest(q) == EndRest(q) \/ (SaveFirst(q) /\ EndRest(Tail(q)))

ReflectRest(q) == ReflectFirst(q) /\ SaveFirst(Tail(q)) /\ EndRest(Tail(Tail(q)))

Creating(q) ==
    LET cp == worker.cp
    IN  /\ worker.pc = "top" /\ worker.plan # NoPlan
        /\ cp.revision \in 1..(Len(plans) + 1) /\ cp.state = "executing" /\ cp.done = {}
        /\ \A r \in DOMAIN plans : plans[r].status \in Dropped
        /\ q = <<PlanCreated(cp.revision, worker.plan), Save(cp)>>

Starting(q) ==
    worker.pc = "step" /\ Drained /\ q = <<StepStarted(worker.cp.revision, worker.cp.step.key)>>

Completing(q) ==
    LET cp == worker.cp
    IN  /\ worker.pc = "top" /\ cp.state = "executing" /\ worker.plan # NoPlan
        /\ \E k \in cp.done :
              /\ DrainedBut({k}) /\ Runnable(worker.plan, k, CompletedSteps(plans[cp.revision]))
              /\ cp.output \in Outputs
              /\ q = <<StepCompleted(cp.revision, k, cp.output), Save(cp)>>

FailingStep(q) ==
    /\ worker.pc = "reflectStep" /\ Drained
    /\ \E k \in StepKeys(worker.plan) : q = <<StepFailed(worker.cp.revision, k)>>

Closing(q) ==
    LET cp == worker.cp
    IN  /\ worker.pc = "finish" /\ worker.outcome = "completed"
        /\ IsCheckpoint(cp) /\ cp.state = "completed" /\ cp.output.fit
        /\ cp.revision \in DOMAIN plans /\ OthersDropped(cp.revision)
        /\ cp.done \subseteq CompletedSteps(plans[cp.revision])
        /\ CompletedSteps(plans[cp.revision]) = StepKeys(plans[cp.revision].plan)
        /\ q = <<PlanStatus(cp.revision, "completed"), Save(cp)>>

SavingLast(q) == Earned /\ CpFits(worker.cp) /\ q = <<Save(worker.cp)>>

\* ... from the first event on that is not a context, and from the start.
StreamRest(q) ==
    \/ SaveRest(q) \/ ReflectRest(q) \/ Creating(q) \/ Starting(q) \/ Completing(q)
    \/ FailingStep(q) \/ Closing(q) \/ SavingLast(q)

Stream(q) ==
    StreamRest(q) \/ (q # <<>> /\ Head(q).ev = "CONTEXT_SNAPSHOT_CREATED" /\ StreamRest(Tail(q)))

WorkerShape ==
    worker \in [pc : LoopPcs \union {"off", "finish"}, cp : {worker.cp}, plan : {worker.plan},
                replans : {worker.replans}, instruction : BOOLEAN, events : {worker.events},
                outcome : {"none", "completed", "failed", "cancelled"}]

PInv ==
    /\ RowsFit
    /\ run \in [status : {"running"} \union Terminal, result : {run.result}]
    /\ WorkerShape
    /\ worker.pc = "off" => worker = Idle
    /\ run.status # "running" => worker.pc = "off"
    /\ run.status = "running" => CpFits(saved)
    /\ run.status = "running" /\ saved.state = "completed" =>
          worker.pc = "off" \/ (worker.pc = "finish" /\ worker.events = <<>>)
    /\ run.status = "completed" => plans # <<>> /\ LastRow.status = "completed" /\ run.result.fit
    /\ worker.pc \in LoopPcs => AtPc
    /\ worker.pc # "off" => Stream(worker.events)

USE AnswersAssumption

-----------------------------------------------------------------------------
(* The order of the steps.                                                 *)

LEMMA SmallestOf ==
  ASSUME NEW T, T \subseteq Nat, T # {}
  PROVE  \E n \in T : \A m \in T : n <= m
  <1> DEFINE R == OpToRel(<, Nat)
  <1>1. \A n, m \in Nat : m < n => <<m, n>> \in R
    BY DEF OpToRel
  <1>2. IsWellFoundedOn(R, Nat)
    BY NatLessThanWellFounded, Zenon
  <1> HIDE DEF R
  <1>3. PICK n \in T : \A m \in T : ~ (<<m, n>> \in R)
    BY <1>2, WFMin
  <1>4. \A m \in T : n \in Nat /\ m \in Nat /\ ~ (m < n)
    BY <1>1, <1>3
  <1> QED
    BY <1>4

\* The keys of the steps that depend on none but these.
ReadyKeys(plan, done) == {s.key : s \in {t \in Range(plan) : t.deps \subseteq done}}

\* The rounds of ordered_steps, up to the n-th.
IsTaken(plan, n, f) ==
    f = [m \in 0..n |-> IF m = 0 THEN {} ELSE f[m - 1] \union ReadyKeys(plan, f[m - 1])]

LEMMA TakenExists ==
  ASSUME NEW plan, NEW n \in Nat
  PROVE  \E f : IsTaken(plan, n, f)
  <1> DEFINE T == {m \in Nat : ~ \E f : IsTaken(plan, m, f)}
  <1> SUFFICES ASSUME T # {} PROVE FALSE
    OBVIOUS
  <1>1. PICK m \in T : \A k \in T : m <= k
    BY SmallestOf
  <1>2. m \in Nat /\ ~ \E f : IsTaken(plan, m, f)
    OBVIOUS
  <1>3. CASE m = 0
    <2> DEFINE f == [i \in 0..0 |-> {}]
    <2>1. f = [i \in 0..0 |-> IF i = 0 THEN {} ELSE f[i - 1] \union ReadyKeys(plan, f[i - 1])]
      OBVIOUS
    <2> HIDE DEF f
    <2> QED
      BY <1>2, <1>3, <2>1 DEF IsTaken
  <1>4. CASE m # 0
    <2>1. m - 1 \in Nat /\ ~ (m <= m - 1)
      BY <1>2, <1>4
    <2>2. m - 1 \notin T
      BY <1>1, <2>1
    <2> HIDE DEF T
    <2>3. PICK g : IsTaken(plan, m - 1, g)
      BY <2>1, <2>2 DEF T
    <2> DEFINE top == g[m - 1] \union ReadyKeys(plan, g[m - 1])
               f == [i \in 0..m |-> IF i = m THEN top ELSE g[i]]
    <2>4. \A i \in 0..(m - 1) : g[i] = IF i = 0 THEN {} ELSE g[i - 1] \union ReadyKeys(plan, g[i - 1])
      BY <2>3 DEF IsTaken
    <2>5. \A i \in 0..m : i = m \/ i \in 0..(m - 1)
      BY <1>2
    <2>6. \A i \in 0..m : i # 0 => i - 1 \in 0..m /\ i - 1 # m
      BY <1>2
    <2>7. ASSUME NEW i \in 0..m
          PROVE  f[i] = IF i = 0 THEN {} ELSE f[i - 1] \union ReadyKeys(plan, f[i - 1])
      <3>1. CASE i = m
        <4>1. f[i] = top /\ f[m - 1] = g[m - 1]
          BY <1>4, <2>6, <3>1
        <4> HIDE DEF f
        <4> QED
          BY <1>4, <3>1, <4>1
      <3>2. CASE i # m
        <4>1. i \in 0..(m - 1) /\ f[i] = g[i]
          BY <2>5, <3>2
        <4>2. i # 0 => f[i - 1] = g[i - 1]
          BY <2>6
        <4> HIDE DEF f
        <4> QED
          BY <2>4, <4>1, <4>2
      <3> QED
        BY <3>1, <3>2
    <2>8. f = [i \in 0..m |-> f[i]]
      OBVIOUS
    <2> HIDE DEF f
    <2>9. f = [i \in 0..m |-> IF i = 0 THEN {} ELSE f[i - 1] \union ReadyKeys(plan, f[i - 1])]
      BY <2>7, <2>8
    <2> QED
      BY <1>2, <2>9 DEF IsTaken
  <1> QED
    BY <1>3, <1>4

LEMMA TakenSteps ==
  ASSUME NEW plan \in Seq(Step)
  PROVE  /\ TakenAfter(plan)[0] = {}
         /\ \A n \in 1..Len(plan) :
               TakenAfter(plan)[n] = TakenAfter(plan)[n - 1] \union ReadyKeys(plan, TakenAfter(plan)[n - 1])
  <1>1. Len(plan) \in Nat
    OBVIOUS
  <1> DEFINE taken == CHOOSE f : IsTaken(plan, Len(plan), f)
  <1>2. IsTaken(plan, Len(plan), taken)
    BY <1>1, TakenExists
  <1>3. TakenAfter(plan) = taken
    BY DEF TakenAfter, IsTaken, ReadyKeys
  <1> HIDE DEF taken
  <1>4. \A n \in 0..Len(plan) :
           taken[n] = IF n = 0 THEN {} ELSE taken[n - 1] \union ReadyKeys(plan, taken[n - 1])
    BY <1>2 DEF IsTaken
  <1>5. \A n \in 1..Len(plan) : n \in 0..Len(plan) /\ n # 0
    BY <1>1
  <1>6. 0 \in 0..Len(plan)
    BY <1>1
  <1>7. taken[0] = {}
    BY <1>4, <1>6
  <1>8. \A n \in 1..Len(plan) : taken[n] = taken[n - 1] \union ReadyKeys(plan, taken[n - 1])
    BY <1>4, <1>5
  <1> QED
    BY <1>3, <1>7, <1>8

\* Later rounds only add steps.
LEMMA TakenGrows ==
  ASSUME NEW plan \in Seq(Step), NEW n \in 0..Len(plan), NEW m \in 0..Len(plan), n <= m
  PROVE  TakenAfter(plan)[n] \subseteq TakenAfter(plan)[m]
  <1> DEFINE taken == TakenAfter(plan)
             Less == {k \in n..Len(plan) : ~ (taken[n] \subseteq taken[k])}
  <1>1. Len(plan) \in Nat /\ n \in Nat /\ m \in n..Len(plan)
    OBVIOUS
  <1>2. \A k \in 1..Len(plan) : taken[k - 1] \subseteq taken[k]
    BY TakenSteps
  <1> HIDE DEF taken
  <1> SUFFICES ASSUME Less # {} PROVE FALSE
    BY <1>1 DEF taken
  <1>3. Less \subseteq Nat
    BY <1>1
  <1>4. PICK k \in Less : \A j \in Less : k <= j
    BY <1>3, SmallestOf
  <1>5. k \in n..Len(plan) /\ k # n /\ ~ (taken[n] \subseteq taken[k])
    BY <1>4
  <1>6. k - 1 \in n..Len(plan) /\ ~ (k <= k - 1) /\ k \in 1..Len(plan)
    BY <1>1, <1>5
  <1>7. k - 1 \notin Less
    BY <1>4, <1>6
  <1>8. taken[n] \subseteq taken[k - 1]
    BY <1>6, <1>7
  <1> QED
    BY <1>2, <1>5, <1>6, <1>8

\* The next step in the order is one whose dependencies are done.
LEMMA NextIsRunnable ==
  ASSUME worker.plan \in Seq(Step), ValidGraph(worker.plan), Remaining # {}
  PROVE  /\ Runnable(worker.plan, worker.plan[NextStep].key, worker.cp.done)
         /\ worker.plan[NextStep].key \notin worker.cp.done
  <1> DEFINE plan == worker.plan
             done == worker.cp.done
             taken == TakenAfter(plan)
  <1>1. plan \in Seq(Step) /\ Len(plan) \in Nat /\ DOMAIN plan = 1..Len(plan)
    OBVIOUS
  <1>2. \A i \in DOMAIN plan : plan[i] \in Range(plan) /\ plan[i].key \in StepKeys(plan)
    BY DEF Range, StepKeys
  <1>3. taken[0] = {} /\ taken[Len(plan)] = StepKeys(plan)
        /\ \A n \in 1..Len(plan) : taken[n] = taken[n - 1] \union ReadyKeys(plan, taken[n - 1])
    BY TakenSteps DEF ValidGraph
  <1>4. \A i, j \in DOMAIN plan : plan[i].key = plan[j].key => i = j
    BY DEF ValidGraph
  <1>5. \A s \in Range(plan) : s.deps \subseteq StepKeys(plan)
    BY DEF ValidGraph
  <1>6. Remaining \subseteq DOMAIN plan /\ \A i \in DOMAIN plan : i \in Remaining <=> plan[i].key \notin done
    BY DEF Remaining
  <1> HIDE DEF plan, done, taken
  <1> DEFINE Rounds == {n \in 0..Len(plan) : \E i \in Remaining : plan[i].key \in taken[n]}
  <1>7. Rounds \subseteq Nat /\ Len(plan) \in Rounds
    <2>1. Len(plan) \in 0..Len(plan)
      BY <1>1
    <2> QED
      BY <1>2, <1>3, <1>6, <2>1
  <1>8. PICK n \in Rounds : \A m \in Rounds : n <= m
    BY <1>7, SmallestOf
  <1>9. n \in 1..Len(plan) /\ n - 1 \in 0..Len(plan) /\ n - 1 \notin Rounds
    <2>1. n # 0
      BY <1>3
    <2>2. n \in Nat /\ n <= Len(plan) /\ ~ (n <= n - 1)
      BY <1>1
    <2>3. n - 1 \notin Rounds
      BY <1>8, <2>2
    <2> HIDE DEF Rounds
    <2> QED
      BY <1>1, <2>1, <2>2, <2>3
  <1>10. \A i \in Remaining : plan[i].key \notin taken[n - 1]
    BY <1>9
  <1> DEFINE First == {i \in Remaining : plan[i].key \in taken[n]}
  <1>11. First \subseteq Nat /\ First # {}
    BY <1>1, <1>6
  <1>12. PICK i \in First : \A j \in First : i <= j
    BY <1>11, SmallestOf
  <1>13. \A m \in 0..Len(plan) : m < n => \A j \in Remaining : plan[j].key \notin taken[m]
    BY <1>8, <1>7, <1>9
  <1>14. taken[n] = taken[n - 1] \union ReadyKeys(plan, taken[n - 1])
    BY <1>3, <1>9
  <1>15. i \in Remaining /\ n \in 0..Len(plan) /\ plan[i].key \in taken[n]
    BY <1>9
  <1>16. ASSUME NEW j \in Remaining \ {i} PROVE OrderedBefore(plan, i, j)
    <2>1. CASE plan[j].key \notin taken[n]
      BY <1>15, <2>1 DEF OrderedBefore, taken
    <2>2. CASE plan[j].key \in taken[n]
      <3>1. j \in First
        BY <2>2
      <3>2. i <= j /\ i \in Nat /\ j \in Nat /\ i # j
        BY <1>11, <1>12, <3>1
      <3>3. ASSUME NEW m \in 0..Len(plan) PROVE plan[i].key \in taken[m] <=> plan[j].key \in taken[m]
        <4>1. CASE m < n
          BY <1>13, <1>15, <4>1
        <4>2. CASE ~ (m < n)
          <5>1. n <= m
            BY <1>1, <1>15, <4>2
          <5>2. taken[n] \subseteq taken[m]
            BY <1>1, <1>15, <5>1, TakenGrows DEF taken
          <5> QED
            BY <1>15, <2>2, <5>2
        <4> QED
          BY <4>1, <4>2
      <3>4. i < j
        BY <3>2
      <3> QED
        BY <3>3, <3>4 DEF OrderedBefore, taken
    <2> QED
      BY <2>1, <2>2
  <1>17. PICK k : k = NextStep
    OBVIOUS
  <1>18. k \in Remaining /\ \A j \in Remaining \ {k} : OrderedBefore(plan, k, j)
    BY <1>15, <1>16, <1>17 DEF NextStep, plan
  <1>19. k \in DOMAIN plan /\ plan[k].key \notin done /\ plan[k].key \in StepKeys(plan)
    BY <1>2, <1>6, <1>18
  <1> DEFINE Since == {m \in 0..Len(plan) : plan[k].key \in taken[m]}
  <1>20. Since \subseteq Nat /\ Since # {}
    <2>1. Len(plan) \in Since
      BY <1>1, <1>3, <1>19
    <2> QED
      BY <2>1
  <1>21. PICK p \in Since : \A m \in Since : p <= m
    BY <1>20, SmallestOf
  <1>22. p \in 1..Len(plan) /\ p - 1 \in 0..Len(plan) /\ plan[k].key \notin taken[p - 1]
    <2>1. p # 0 /\ p \in 0..Len(plan)
      BY <1>3
    <2>2. p \in 1..Len(plan) /\ p - 1 \in 0..Len(plan) /\ ~ (p <= p - 1)
      BY <1>1, <2>1
    <2> QED
      BY <1>21, <2>2
  <1>23. plan[k].key \in ReadyKeys(plan, taken[p - 1])
    BY <1>3, <1>22
  <1>24. PICK s \in Range(plan) : s.key = plan[k].key /\ s.deps \subseteq taken[p - 1]
    BY <1>23 DEF ReadyKeys
  <1>25. ASSUME NEW d \in s.deps, d \notin done PROVE FALSE
    <2>1. PICK j \in DOMAIN plan : plan[j].key = d
      BY <1>5, <1>24 DEF StepKeys, Range
    <2>2. j \in Remaining /\ d \in taken[p - 1]
      BY <1>6, <1>24, <1>25, <2>1
    <2>3. j # k
      BY <1>22, <2>1, <2>2
    <2>4. OrderedBefore(plan, k, j)
      BY <1>18, <2>2, <2>3
    <2>5. PICK m \in 0..Len(plan) : plan[k].key \in taken[m] /\ d \notin taken[m]
      BY <1>22, <2>1, <2>2, <2>4 DEF OrderedBefore, taken
    <2>6. p <= m
      BY <1>21, <2>5
    <2>7. p - 1 <= m
      BY <1>1, <1>22, <2>6
    <2>8. taken[p - 1] \subseteq taken[m]
      BY <1>1, <1>22, <2>7, TakenGrows DEF taken
    <2> QED
      BY <2>2, <2>5, <2>8
  <1>26. Runnable(plan, plan[k].key, done)
    BY <1>24, <1>25 DEF Runnable
  <1> QED
    BY <1>17, <1>19, <1>26 DEF plan, done

-----------------------------------------------------------------------------
(* The rows of plans.                                                      *)

\* Plans are added, steps are completed, what was given up remains so.
Grown ==
    /\ DOMAIN plans \subseteq DOMAIN plans'
    /\ \A r \in DOMAIN plans :
          /\ plans'[r].plan = plans[r].plan
          /\ CompletedSteps(plans[r]) \subseteq CompletedSteps(plans'[r])
          /\ plans[r].status \in Dropped => plans'[r].status \in Dropped

LEMMA RowsAre ==
  ASSUME RowsFit
  PROVE  /\ Len(plans) \in Nat /\ DOMAIN plans = 1..Len(plans) /\ (plans = <<>> <=> Len(plans) = 0)
         /\ \A r \in DOMAIN plans :
               /\ r \in Nat \ {0} /\ plans[r] \in Row /\ RowFits(plans[r])
               /\ plans[r].plan \in Seq(Step) /\ plans[r].steps \in [StepKeys(plans[r].plan) -> StepRow]
               /\ StepKeys(plans[r].plan) \subseteq Keys
               /\ CompletedSteps(plans[r]) \subseteq StepKeys(plans[r].plan)
  <1>1. plans \in Seq(Row) /\ Len(plans) \in Nat /\ DOMAIN plans = 1..Len(plans) /\ (plans = <<>> <=> Len(plans) = 0)
    BY EmptySeq DEF RowsFit
  <1>2. ASSUME NEW r \in DOMAIN plans
        PROVE  /\ r \in Nat \ {0} /\ plans[r] \in Row /\ RowFits(plans[r])
               /\ plans[r].plan \in Seq(Step) /\ plans[r].steps \in [StepKeys(plans[r].plan) -> StepRow]
               /\ StepKeys(plans[r].plan) \subseteq Keys
               /\ CompletedSteps(plans[r]) \subseteq StepKeys(plans[r].plan)
    <2>1. plans[r] \in Row /\ RowFits(plans[r]) /\ r \in Nat \ {0}
      BY <1>1 DEF RowsFit
    <2>2. PICK row : row = plans[r]
      OBVIOUS
    <2>3. row \in Row /\ DOMAIN row.steps = StepKeys(row.plan)
      BY <2>1, <2>2 DEF RowFits
    <2>4. row.plan \in Seq(Step)
      BY <2>3 DEF Row
    <2>5. PICK K \in SUBSET Keys : row.steps \in [K -> StepRow]
      BY <2>3 DEF Row
    <2>6. K = StepKeys(row.plan)
      BY <2>3, <2>5
    <2>7. CompletedSteps(row) \subseteq StepKeys(row.plan)
      BY <2>3 DEF CompletedSteps
    <2> QED
      BY <2>1, <2>2, <2>4, <2>5, <2>6, <2>7
  <1> QED
    BY <1>1, <1>2

\* One row is written.
LEMMA RowWritten ==
  ASSUME RowsFit, NEW r \in DOMAIN plans, NEW row \in Row, RowFits(row),
         r # Len(plans) => row.status \in Dropped, plans' = [plans EXCEPT ![r] = row]
  PROVE  /\ RowsFit' /\ Len(plans') = Len(plans) /\ DOMAIN plans' = DOMAIN plans /\ plans'[r] = row
         /\ \A q \in DOMAIN plans : q # r => plans'[q] = plans[q]
  <1>1. plans \in Seq(Row) /\ plans' \in Seq(Row) /\ Len(plans') = Len(plans) /\ DOMAIN plans' = DOMAIN plans
    BY ExceptSeq DEF RowsFit
  <1>2. plans'[r] = row /\ \A q \in DOMAIN plans : q # r => plans'[q] = plans[q]
    BY <1>1
  <1>3. \A q \in DOMAIN plans : RowFits(plans[q]) /\ (q # Len(plans) => plans[q].status \in Dropped)
    BY DEF RowsFit
  <1>4. \A q \in DOMAIN plans' : RowFits(plans'[q]) /\ (q # Len(plans') => plans'[q].status \in Dropped)
    BY <1>1, <1>2, <1>3
  <1>5. RowsFit'
    BY <1>1, <1>4 DEF RowsFit, RowFits, CompletedSteps, StepKeys
  <1> QED
    BY <1>1, <1>2, <1>5

\* A step of a Plan is written.
StepWrites(r, k, new) == plans' = [plans EXCEPT ![r].steps[k] = new]

\* An open step is written.
LEMMA StepWritten ==
  ASSUME RowsFit, NEW r \in DOMAIN plans, NEW k \in StepKeys(plans[r].plan), NEW new \in StepRow,
         plans[r].steps[k].status \notin {"completed", "failed"},
         new.status # "failed",
         new.status # "pending" => Runnable(plans[r].plan, k, CompletedSteps(plans[r])),
         StepWrites(r, k, new)
  PROVE  /\ RowsFit' /\ Grown /\ Len(plans') = Len(plans)
         /\ plans[r].status = "active" /\ r = Len(plans)
         /\ \A q \in DOMAIN plans : plans'[q].status = plans[q].status
         /\ new.status = "completed" => CompletedSteps(plans'[r]) = CompletedSteps(plans[r]) \union {k}
         /\ new.status # "completed" => CompletedSteps(plans'[r]) = CompletedSteps(plans[r])
  <1>1. PICK row : row = plans[r]
    OBVIOUS
  <1>2. /\ row \in Row /\ RowFits(row) /\ row.plan \in Seq(Step)
        /\ row.steps \in [StepKeys(row.plan) -> StepRow] /\ k \in StepKeys(row.plan)
        /\ StepKeys(row.plan) \subseteq Keys
    BY <1>1, RowsAre
  <1>3. row.steps[k].status \notin {"completed", "failed"}
    BY <1>1
  <1>4. row.status = "active"
    <2>1. k \notin CompletedSteps(row)
      BY <1>3 DEF CompletedSteps
    <2> QED
      BY <1>2, <1>3, <2>1 DEF RowFits, Row
  <1>5. r = Len(plans)
    BY <1>1, <1>4 DEF RowsFit, Dropped
  <1> DEFINE steps == [row.steps EXCEPT ![k] = new]
             next == [row EXCEPT !.steps = steps]
  <1>6. steps \in [StepKeys(row.plan) -> StepRow] /\ steps[k] = new
        /\ \A j \in StepKeys(row.plan) : j # k => steps[j] = row.steps[j]
    BY <1>2
  <1>7. plans' = [plans EXCEPT ![r] = next]
    BY <1>1 DEF StepWrites
  <1> HIDE DEF steps
  <1>8. next \in Row /\ next.plan = row.plan /\ next.status = row.status /\ next.steps = steps
    BY <1>2, <1>6 DEF Row
  <1> HIDE DEF next
  <1>9. CompletedSteps(next) = CompletedSteps(row) \union {j \in {k} : new.status = "completed"}
    BY <1>2, <1>3, <1>6, <1>8 DEF CompletedSteps
  <1>10. RowFits(next)
    <2>1. ASSUME NEW s \in Range(next.plan), next.steps[s.key].status \in {"running", "completed"}
          PROVE  s.deps \subseteq CompletedSteps(next)
      <3>1. s \in Range(row.plan) /\ s.key \in StepKeys(row.plan)
        BY <1>8 DEF StepKeys
      <3>2. CASE s.key = k
        <4>1. new.status # "pending"
          BY <1>6, <1>8, <2>1, <3>2
        <4>2. PICK t \in Range(row.plan) : t.key = k /\ t.deps \subseteq CompletedSteps(row)
          BY <1>1, <4>1 DEF Runnable
        <4>3. t = s
          BY <1>2, <3>1, <3>2, <4>2 DEF RowFits, ValidGraph, Range
        <4> QED
          BY <1>9, <4>2, <4>3
      <3>3. CASE s.key # k
        <4>1. row.steps[s.key].status \in {"running", "completed"}
          BY <1>6, <1>8, <2>1, <3>1, <3>3
        <4> QED
          BY <1>2, <1>9, <3>1, <4>1 DEF RowFits
      <3> QED
        BY <3>2, <3>3
    <2>2. ValidGraph(next.plan) /\ DOMAIN next.steps = StepKeys(next.plan)
      BY <1>2, <1>6, <1>8 DEF RowFits
    <2> QED
      BY <1>4, <1>8, <2>1, <2>2 DEF RowFits, Dropped
  <1>11. /\ RowsFit' /\ Len(plans') = Len(plans) /\ DOMAIN plans' = DOMAIN plans /\ plans'[r] = next
         /\ \A q \in DOMAIN plans : q # r => plans'[q] = plans[q]
    BY <1>5, <1>7, <1>8, <1>10, RowWritten
  <1>12. \A q \in DOMAIN plans : plans'[q].status = plans[q].status
    BY <1>1, <1>8, <1>11
  <1>13. Grown
    BY <1>1, <1>8, <1>9, <1>11 DEF Grown
  <1> QED
    BY <1>1, <1>4, <1>5, <1>9, <1>11, <1>12, <1>13

\* An active Plan is closed, with its open steps unless it is completed.
LEMMA PlanClosed ==
  ASSUME RowsFit, NEW r \in DOMAIN plans, OthersDropped(r), NEW status \in Dropped \union {"completed"},
         plans[r].status = "active",
         status = "completed" => CompletedSteps(plans[r]) = StepKeys(plans[r].plan),
         plans' = ProjectPlanStatus(PlanStatus(r, status))
  PROVE  /\ RowsFit' /\ Grown /\ Len(plans') = Len(plans) /\ r = Len(plans)
         /\ plans'[r].status = status /\ \A q \in DOMAIN plans : q # r => plans'[q] = plans[q]
  <1>1. PICK row : row = plans[r]
    OBVIOUS
  <1>2. /\ row \in Row /\ RowFits(row) /\ row.plan \in Seq(Step)
        /\ row.steps \in [StepKeys(row.plan) -> StepRow] /\ StepKeys(row.plan) \subseteq Keys
    BY <1>1, RowsAre
  <1>3. row.status = "active"
    BY <1>1
  <1>4. r = Len(plans)
    BY <1>1, <1>3 DEF RowsFit, Dropped
  <1> DEFINE steps == [k \in DOMAIN row.steps |->
                          IF status # "completed" /\ row.steps[k].status \in {"pending", "running"}
                          THEN [row.steps[k] EXCEPT !.status = "failed"] ELSE row.steps[k]]
             next == [row EXCEPT !.status = status, !.steps = steps]
  <1>5. ASSUME NEW k \in StepKeys(row.plan)
        PROVE  /\ steps[k] \in StepRow
               /\ steps[k].status = "completed" <=> row.steps[k].status = "completed"
               /\ steps[k].status \in {"running", "completed"} => row.steps[k].status \in {"running", "completed"}
               /\ status # "completed" => steps[k].status \in {"completed", "failed"}
    <2>1. PICK old \in StepRow : old = row.steps[k]
      BY <1>2
    <2>2. steps[k] = IF status # "completed" /\ old.status \in {"pending", "running"}
                     THEN [old EXCEPT !.status = "failed"] ELSE old
      BY <1>2, <2>1
    <2> HIDE DEF steps
    <2> QED
      BY <2>1, <2>2 DEF StepRow, StepStatus
  <1>6. steps \in [StepKeys(row.plan) -> StepRow]
    BY <1>2, <1>5
  <1>7. plans' = [plans EXCEPT ![r] = next]
    BY <1>1, <1>3 DEF ProjectPlanStatus, PlanStatus, Dropped
  <1> HIDE DEF steps
  <1>8. next \in Row /\ next.plan = row.plan /\ next.status = status /\ next.steps = steps
    BY <1>2, <1>6 DEF Row
  <1> HIDE DEF next
  <1>9. CompletedSteps(next) = CompletedSteps(row)
    BY <1>2, <1>5, <1>6, <1>8 DEF CompletedSteps
  <1>10. RowFits(next)
    <2>1. ASSUME NEW s \in Range(next.plan), next.steps[s.key].status \in {"running", "completed"}
          PROVE  s.deps \subseteq CompletedSteps(next)
      <3>1. s \in Range(row.plan) /\ s.key \in StepKeys(row.plan)
        BY <1>8 DEF StepKeys
      <3>2. row.steps[s.key].status \in {"running", "completed"}
        BY <1>5, <1>8, <2>1, <3>1
      <3> QED
        BY <1>2, <1>9, <3>1, <3>2 DEF RowFits
    <2>2. ValidGraph(next.plan) /\ DOMAIN next.steps = StepKeys(next.plan)
      BY <1>2, <1>6, <1>8 DEF RowFits
    <2>3. next.status = "completed" => CompletedSteps(next) = StepKeys(next.plan)
      BY <1>1, <1>8, <1>9
    <2>4. next.status \in Dropped => \A k \in DOMAIN next.steps : next.steps[k].status \in {"completed", "failed"}
      BY <1>5, <1>6, <1>8 DEF Dropped
    <2> QED
      BY <2>1, <2>2, <2>3, <2>4 DEF RowFits
  <1>11. /\ RowsFit' /\ Len(plans') = Len(plans) /\ DOMAIN plans' = DOMAIN plans /\ plans'[r] = next
         /\ \A q \in DOMAIN plans : q # r => plans'[q] = plans[q]
    BY <1>4, <1>7, <1>8, <1>10, RowWritten
  <1>12. Grown
    BY <1>1, <1>3, <1>8, <1>9, <1>11 DEF Grown, Dropped
  <1> QED
    BY <1>4, <1>8, <1>11, <1>12

\* A decision is added to its Plan.
LEMMA DecisionAdded ==
  ASSUME RowsFit, NEW r \in DOMAIN plans, NEW decision \in Decisions,
         plans' = [plans EXCEPT ![r].decisions = Append(@, decision)]
  PROVE  /\ RowsFit' /\ Grown /\ Len(plans') = Len(plans)
         /\ \A q \in DOMAIN plans :
               /\ plans'[q].status = plans[q].status
               /\ CompletedSteps(plans'[q]) = CompletedSteps(plans[q])
  <1>1. PICK row : row = plans[r]
    OBVIOUS
  <1>2. row \in Row /\ RowFits(row)
    BY <1>1, RowsAre
  <1> DEFINE decisions == Append(row.decisions, decision)
             next == [row EXCEPT !.decisions = decisions]
  <1>3. decisions \in Seq(Decisions)
    BY <1>2 DEF Row
  <1>4. plans' = [plans EXCEPT ![r] = next]
    BY <1>1
  <1> HIDE DEF decisions
  <1>5. next \in Row /\ next.plan = row.plan /\ next.status = row.status /\ next.steps = row.steps
    BY <1>2, <1>3 DEF Row
  <1> HIDE DEF next
  <1>6. CompletedSteps(next) = CompletedSteps(row) /\ RowFits(next)
    BY <1>2, <1>5 DEF CompletedSteps, RowFits
  <1>7. r # Len(plans) => next.status \in Dropped
    BY <1>1, <1>5 DEF RowsFit
  <1>8. /\ RowsFit' /\ Len(plans') = Len(plans) /\ DOMAIN plans' = DOMAIN plans /\ plans'[r] = next
        /\ \A q \in DOMAIN plans : q # r => plans'[q] = plans[q]
    BY <1>4, <1>5, <1>6, <1>7, RowWritten
  <1>9. \A q \in DOMAIN plans : /\ plans'[q].plan = plans[q].plan /\ plans'[q].status = plans[q].status
                                /\ CompletedSteps(plans'[q]) = CompletedSteps(plans[q])
    BY <1>1, <1>5, <1>6, <1>8
  <1> QED
    BY <1>8, <1>9 DEF Grown

\* A new Plan, once the others were given up.
LEMMA PlanAdded ==
  ASSUME RowsFit, NEW plan \in Seq(Step), ValidGraph(plan),
         \A r \in DOMAIN plans : plans[r].status \in Dropped, plans' = Append(plans, NewRow(plan))
  PROVE  /\ RowsFit' /\ Grown /\ Len(plans') = Len(plans) + 1
         /\ \A r \in DOMAIN plans : plans'[r] = plans[r]
         /\ plans'[Len(plans) + 1].status = "active" /\ plans'[Len(plans) + 1].plan = plan
         /\ CompletedSteps(plans'[Len(plans) + 1]) = {}
  <1>1. PICK row : row = NewRow(plan)
    OBVIOUS
  <1>2. row.status = "active" /\ row.plan = plan /\ row.decisions = <<>>
        /\ row.steps = [k \in StepKeys(plan) |-> [status |-> "pending", output |-> NoOutput]]
    BY <1>1 DEF NewRow
  <1>3. StepKeys(plan) \subseteq Keys
    <2>1. \A s \in Range(plan) : s \in Step
      BY DEF Range
    <2> QED
      BY <2>1 DEF StepKeys, Step
  <1>4. row.steps \in [StepKeys(plan) -> StepRow] /\ \A k \in StepKeys(plan) : row.steps[k].status = "pending"
    BY <1>2 DEF StepRow, StepStatus
  <1>5. row \in Row
    <2>1. row.steps \in UNION {[K -> StepRow] : K \in SUBSET Keys}
      BY <1>3, <1>4
    <2>2. row.decisions \in Seq(Decisions)
      BY <1>2
    <2>3. row = [status |-> row.status, plan |-> row.plan, decisions |-> row.decisions, steps |-> row.steps]
      BY <1>1 DEF NewRow
    <2> QED
      BY <1>2, <2>1, <2>2, <2>3 DEF Row
  <1>6. CompletedSteps(row) = {}
    BY <1>4 DEF CompletedSteps
  <1>7. RowFits(row)
    <2>1. \A s \in Range(row.plan) : s.key \in StepKeys(plan)
      BY <1>2 DEF StepKeys
    <2> QED
      BY <1>2, <1>4, <2>1 DEF RowFits, Dropped
  <1>8. plans \in Seq(Row) /\ Len(plans) \in Nat /\ DOMAIN plans = 1..Len(plans)
    BY RowsAre DEF RowsFit
  <1>9. /\ plans' \in Seq(Row) /\ Len(plans') = Len(plans) + 1 /\ plans'[Len(plans) + 1] = row
        /\ \A r \in DOMAIN plans : plans'[r] = plans[r]
    BY <1>1, <1>5, <1>8, AppendProperties
  <1>10. DOMAIN plans' = 1..(Len(plans) + 1)
    BY <1>9
  <1>11. \A r \in DOMAIN plans' : r \in DOMAIN plans \/ r = Len(plans')
    BY <1>8, <1>9, <1>10
  <1>12. \A r \in DOMAIN plans : RowFits(plans[r])
    BY RowsAre
  <1>13. \A r \in DOMAIN plans' : RowFits(plans'[r]) /\ (r # Len(plans') => plans'[r].status \in Dropped)
    BY <1>7, <1>9, <1>11, <1>12
  <1>14. RowsFit'
    BY <1>9, <1>13 DEF RowsFit, RowFits, CompletedSteps, StepKeys
  <1>15. DOMAIN plans \subseteq DOMAIN plans'
    BY <1>8, <1>10
  <1> QED
    BY <1>2, <1>6, <1>9, <1>14, <1>15 DEF Grown

\* A checkpoint that fits the rows fits them later, too.
LEMMA CpFitsLater ==
  ASSUME RowsFit, RowsFit', Grown, NEW cp, CpFits(cp)
  PROVE  CpFits(cp)'
  <1>1. Len(plans) \in Nat /\ Len(plans') \in Nat /\ Len(plans) <= Len(plans')
    <2>1. DOMAIN plans' = 1..Len(plans') /\ Len(plans') \in Nat
      BY DEF RowsFit
    <2>2. DOMAIN plans = 1..Len(plans) /\ Len(plans) \in Nat
      BY DEF RowsFit
    <2>3. Len(plans) # 0 => Len(plans) \in 1..Len(plans')
      BY <2>1, <2>2 DEF Grown
    <2> QED
      BY <2>1, <2>2, <2>3
  <1>2. cp.revision \in 0..Len(plans) /\ (cp.revision # 0 => cp.revision \in DOMAIN plans)
    BY RowsAre DEF CpFits
  <1>3. cp.revision \in 0..Len(plans')
    BY <1>1, <1>2
  <1> QED
    BY <1>2, <1>3 DEF CpFits, IsCheckpoint, Grown

-----------------------------------------------------------------------------
(* The stream of events.                                                   *)

LEMMA Tuples ==
  ASSUME NEW a, NEW b, NEW c
  PROVE  /\ <<a>> # <<>> /\ Head(<<a>>) = a /\ Tail(<<a>>) = <<>>
         /\ <<a, b>> # <<>> /\ Head(<<a, b>>) = a /\ Tail(<<a, b>>) = <<b>>
         /\ <<a, b, c>> # <<>> /\ Head(<<a, b, c>>) = a /\ Tail(<<a, b, c>>) = <<b, c>>
  OBVIOUS

LEMMA Joined ==
  ASSUME NEW a, NEW b, NEW c, NEW d
  PROVE  <<a, b, c>> \o <<d>> = <<a, b, c, d>>
  <1> DEFINE S == {a, b, c, d}
             s == <<a, b, c>>
             t == <<d>>
  <1>1. s \in Seq(S) /\ t \in Seq(S) /\ Len(s) = 3 /\ Len(t) = 1
    OBVIOUS
  <1>2. s[1] = a /\ s[2] = b /\ s[3] = c /\ t[1] = d
    OBVIOUS
  <1>3. <<a, b, c, d>> \in Seq(S) /\ Len(<<a, b, c, d>>) = 4
    OBVIOUS
  <1> HIDE DEF S, s, t
  <1>4. s \o t \in Seq(S) /\ Len(s \o t) = 4
        /\ \A i \in 1..4 : (s \o t)[i] = IF i <= 3 THEN s[i] ELSE t[i - 3]
    <2>1. s \o t \in Seq(S) /\ Len(s \o t) = Len(s) + Len(t)
          /\ \A i \in 1..(Len(s) + Len(t)) : (s \o t)[i] = IF i <= Len(s) THEN s[i] ELSE t[i - Len(s)]
      BY <1>1, ConcatProperties
    <2>2. Len(s) + Len(t) = 4
      BY <1>1
    <2> QED
      BY <1>1, <2>1, <2>2
  <1>5. (s \o t)[1] = a /\ (s \o t)[2] = b /\ (s \o t)[3] = c /\ (s \o t)[4] = d
    BY <1>2, <1>4
  <1>6. \A i \in 1..4 : (s \o t)[i] = <<a, b, c, d>>[i]
    <2>1. <<a, b, c, d>>[1] = a /\ <<a, b, c, d>>[2] = b /\ <<a, b, c, d>>[3] = c /\ <<a, b, c, d>>[4] = d
      OBVIOUS
    <2>2. \A i \in 1..4 : i = 1 \/ i = 2 \/ i = 3 \/ i = 4
      OBVIOUS
    <2> QED
      BY <1>5, <2>1, <2>2, Zenon
  <1> QED
    BY <1>3, <1>4, <1>6, SeqEqual DEF s, t

LEMMA JoinedPair ==
  ASSUME NEW a, NEW b, NEW c, NEW d, NEW e
  PROVE  <<a, b, c>> \o <<d, e>> = <<a, b, c, d, e>>
  <1> DEFINE S == {a, b, c, d, e}
             s == <<a, b, c>>
             t == <<d, e>>
  <1>1. s \in Seq(S) /\ t \in Seq(S) /\ Len(s) = 3 /\ Len(t) = 2
    OBVIOUS
  <1>2. s[1] = a /\ s[2] = b /\ s[3] = c /\ t[1] = d /\ t[2] = e
    OBVIOUS
  <1>3. <<a, b, c, d, e>> \in Seq(S) /\ Len(<<a, b, c, d, e>>) = 5
    OBVIOUS
  <1> HIDE DEF S, s, t
  <1>4. s \o t \in Seq(S) /\ Len(s \o t) = 5
        /\ \A i \in 1..5 : (s \o t)[i] = IF i <= 3 THEN s[i] ELSE t[i - 3]
    <2>1. s \o t \in Seq(S) /\ Len(s \o t) = Len(s) + Len(t)
          /\ \A i \in 1..(Len(s) + Len(t)) : (s \o t)[i] = IF i <= Len(s) THEN s[i] ELSE t[i - Len(s)]
      BY <1>1, ConcatProperties
    <2>2. Len(s) + Len(t) = 5
      BY <1>1
    <2> QED
      BY <1>1, <2>1, <2>2
  <1>5. (s \o t)[1] = a /\ (s \o t)[2] = b /\ (s \o t)[3] = c /\ (s \o t)[4] = d /\ (s \o t)[5] = e
    BY <1>2, <1>4
  <1>6. \A i \in 1..5 : (s \o t)[i] = <<a, b, c, d, e>>[i]
    <2>1. <<a, b, c, d, e>>[1] = a /\ <<a, b, c, d, e>>[2] = b /\ <<a, b, c, d, e>>[3] = c /\ <<a, b, c, d, e>>[4] = d /\ <<a, b, c, d, e>>[5] = e
      OBVIOUS
    <2>2. \A i \in 1..5 : i = 1 \/ i = 2 \/ i = 3 \/ i = 4 \/ i = 5
      OBVIOUS
    <2> QED
      BY <1>5, <2>1, <2>2, Zenon
  <1> QED
    BY <1>3, <1>4, <1>6, SeqEqual DEF s, t

LEMMA LongTuples ==
  ASSUME NEW a, NEW b, NEW c, NEW d, NEW e
  PROVE  /\ <<a, b, c, d>> # <<>> /\ Head(<<a, b, c, d>>) = a /\ Tail(<<a, b, c, d>>) = <<b, c, d>>
         /\ <<a, b, c, d, e>> # <<>> /\ Head(<<a, b, c, d, e>>) = a
         /\ Tail(<<a, b, c, d, e>>) = <<b, c, d, e>>
  OBVIOUS

\* A loop that waits for nothing knows the rows.
LEMMA LoopFacts ==
  ASSUME PInv, NEW pc \in LoopPcs, LoopAt(pc)
  PROVE  /\ run.status = "running" /\ saved.state # "completed" /\ AtPc /\ Drained
         /\ worker.pc = pc /\ worker.events = <<>>
  <1>1. worker.pc = pc /\ worker.events = <<>> /\ pc \notin {"off", "finish"}
    BY DEF LoopAt, LoopPcs
  <1>2. Stream(<<>>)
    BY <1>1 DEF PInv
  <1>3. AtEnd(<<>>)
    BY <1>2, Tuples DEF Stream, StreamRest, SaveRest, SaveFirst, ReflectRest, ReflectFirst, EndRest,
          Superseding, GivingUp, Creating, Starting, Completing, FailingStep, Closing, SavingLast
  <1>4. Drained
    BY <1>1, <1>3 DEF AtEnd, Earned
  <1> QED
    BY <1>1, <1>4 DEF PInv

\* A step of the loop.
LEMMA LoopMoves ==
  ASSUME PInv, NEW pc \in LoopPcs, LoopAt(pc), UNCHANGED <<plans, saved, run>>,
         WorkerShape', worker'.pc # "off", worker'.pc \in LoopPcs => AtPc', Stream(worker.events)'
  PROVE  PInv'
  <1>1. run.status = "running" /\ saved.state # "completed"
    BY LoopFacts
  <1>2. RowsFit'
    BY DEF PInv, RowsFit, RowFits, CompletedSteps, StepKeys
  <1>3. CpFits(saved)'
    BY <1>1 DEF PInv, CpFits, IsCheckpoint, CompletedSteps
  <1> QED
    BY <1>1, <1>2, <1>3 DEF PInv, LoopPcs

LEMMA DrainedStream ==
  ASSUME NEW q, q = <<>>, worker'.pc \in LoopPcs, Drained'
  PROVE  Stream(q)'
  BY DEF Stream, StreamRest, SaveRest, EndRest, AtEnd

LEMMA FinishStream ==
  ASSUME NEW q, q = <<>>, worker'.pc = "finish", worker'.outcome \in {"failed", "cancelled"}
  PROVE  Stream(q)'
  BY DEF Stream, StreamRest, SaveRest, EndRest, AtEnd

LEMMA SaveStream ==
  ASSUME NEW q, NEW cp, q = <<Save(cp)>>, worker'.pc \in LoopPcs, Drained', CpFits(cp)', cp.state # "completed"
  PROVE  StreamRest(q)'
  <1>1. q # <<>> /\ Head(q) = Save(cp) /\ Tail(q) = <<>>
    BY Tuples
  <1>2. Head(q).ev = "CHECKPOINT_SAVED" /\ Head(q).cp = cp
    BY <1>1 DEF Save
  <1>3. SaveFirst(q)'
    BY <1>1, <1>2 DEF SaveFirst
  <1>4. EndRest(Tail(q))'
    BY <1>1 DEF EndRest, AtEnd
  <1> QED
    BY <1>3, <1>4 DEF StreamRest, SaveRest

LEMMA ContextPair ==
  ASSUME NEW e, NEW a, e.ev = "CONTEXT_SNAPSHOT_CREATED", StreamRest(<<a>>)'
  PROVE  Stream(<<e, a>>)'
  <1>1. PICK q : q = <<e, a>>
    OBVIOUS
  <1>2. q # <<>> /\ Head(q) = e /\ Tail(q) = <<a>>
    BY <1>1, Tuples
  <1>3. Stream(q)'
    BY <1>2 DEF Stream
  <1> QED
    BY <1>1, <1>3

LEMMA ContextTriple ==
  ASSUME NEW e, NEW a, NEW b, e.ev = "CONTEXT_SNAPSHOT_CREATED", StreamRest(<<a, b>>)'
  PROVE  Stream(<<e, a, b>>)'
  <1>1. PICK q : q = <<e, a, b>>
    OBVIOUS
  <1>2. q # <<>> /\ Head(q) = e /\ Tail(q) = <<a, b>>
    BY <1>1, Tuples
  <1>3. Stream(q)'
    BY <1>2 DEF Stream
  <1> QED
    BY <1>1, <1>3

\* The rows, for another place and another checkpoint of the same progress.
LEMMA SameProgress ==
  ASSUME Drained, UNCHANGED plans, worker'.plan = worker.plan,
         worker'.cp.revision = worker.cp.revision, worker'.cp.done = worker.cp.done,
         worker'.cp.state # "planning" => worker.cp.state # "planning" \/ worker.plan # NoPlan
  PROVE  Drained'
  BY DEF Drained, DrainedBut, OthersDropped, CompletedSteps

\* A checkpoint of the progress of a drained loop fits the rows.
LEMMA CpOfProgress ==
  ASSUME Drained, UNCHANGED plans, NEW cp, IsCheckpoint(cp), cp.revision = worker.cp.revision,
         cp.done = worker.cp.done, worker.plan # NoPlan, cp.state # "planning",
         cp.state = "reflecting" => cp.decision \in Decisions
  PROVE  CpFits(cp)'
  BY DEF Drained, DrainedBut, CpFits, CompletedSteps, IsCheckpoint

\* The fields of a checkpoint.
StepStates == [key : Keys \union {"none"}, round : Nat, pending : BOOLEAN]

LEMMA CheckpointIs ==
  ASSUME NEW cp, NEW state \in CpStates, NEW revision \in Nat, NEW done \in SUBSET Keys, NEW output,
         NEW decision \in Decisions \union {"none"}, NEW reflections \in Nat, NEW step \in StepStates,
         NEW instruction \in BOOLEAN, NEW context,
         cp = [state |-> state, revision |-> revision, done |-> done, output |-> output,
               decision |-> decision, reflections |-> reflections, step |-> step,
               instruction |-> instruction, context |-> context]
  PROVE  IsCheckpoint(cp)
  BY DEF IsCheckpoint, StepStates

LEMMA CheckpointHas ==
  ASSUME NEW cp, IsCheckpoint(cp)
  PROVE  /\ cp = [state |-> cp.state, revision |-> cp.revision, done |-> cp.done, output |-> cp.output,
                  decision |-> cp.decision, reflections |-> cp.reflections, step |-> cp.step,
                  instruction |-> cp.instruction, context |-> cp.context]
         /\ cp.state \in CpStates /\ cp.revision \in Nat /\ cp.done \in SUBSET Keys
         /\ cp.decision \in Decisions \union {"none"} /\ cp.reflections \in Nat
         /\ cp.step \in StepStates /\ cp.instruction \in BOOLEAN
  BY DEF IsCheckpoint, StepStates

LEMMA NoStepIs == NoStepState \in StepStates
  BY DEF NoStepState, StepStates

-----------------------------------------------------------------------------
(* The steps of the loop.                                                  *)

LEMMA WorkerIs ==
  ASSUME PInv
  PROVE  /\ worker = [pc |-> worker.pc, cp |-> worker.cp, plan |-> worker.plan, replans |-> worker.replans,
                      instruction |-> worker.instruction, events |-> worker.events,
                      outcome |-> worker.outcome]
         /\ worker.instruction \in BOOLEAN
         /\ worker.outcome \in {"none", "completed", "failed", "cancelled"}
  BY DEF PInv, WorkerShape

\* The loop ends without a result.
LEMMA LoopFails ==
  ASSUME PInv, NEW pc \in LoopPcs, LoopAt(pc), UNCHANGED <<plans, saved, run>>,
         NEW outcome \in {"failed", "cancelled"}, Finish(outcome, worker.cp, <<>>)
  PROVE  PInv'
  <1>1. worker'.pc = "finish" /\ worker'.events = <<>> /\ worker'.outcome = outcome /\ WorkerShape'
    BY WorkerIs DEF Finish, WorkerShape
  <1>2. Stream(worker.events)'
    BY <1>1, FinishStream
  <1> QED
    BY <1>1, <1>2, LoopMoves DEF LoopPcs

LEMMA CreatePlanStep ==
  ASSUME PInv, CreatePlan
  PROVE  PInv'
  <1>1. LoopAt("top") /\ "top" \in LoopPcs /\ UNCHANGED <<plans, saved, run>> /\ worker.plan = NoPlan
    BY DEF CreatePlan, LoopPcs
  <1>2. AtPc /\ Drained /\ worker.pc = "top" /\ RowsFit
    BY <1>1, LoopFacts DEF PInv
  <1> DEFINE Cp == [NewCheckpoint EXCEPT !.state = "executing", !.revision = worker.cp.revision + 1,
                       !.reflections = worker.cp.reflections, !.context = worker.cp.context + 1]
             Ctx(p) == Context(worker.cp, <<"planning", Cp.revision, worker.instruction>>)
  <1>3. PICK plan \in Answers :
           IF ValidGraph(plan)
           THEN worker' = [worker EXCEPT !.plan = plan, !.cp = Cp,
                             !.events = <<Ctx(plan), PlanCreated(Cp.revision, plan), Save(Cp)>>]
           ELSE Finish("failed", worker.cp, <<>>)
    BY DEF CreatePlan
  <1>4. CASE ~ ValidGraph(plan)
    BY <1>1, <1>3, <1>4, LoopFails
  <1>5. CASE ValidGraph(plan)
    <2>1. PICK cp : cp = Cp
      OBVIOUS
    <2>2. PICK ctx : ctx = Ctx(plan)
      OBVIOUS
    <2>3. ctx.ev = "CONTEXT_SNAPSHOT_CREATED"
      BY <2>2 DEF Context
    <2>4. worker.cp.revision \in Nat /\ worker.cp.reflections \in Nat
      BY <1>2 DEF AtPc, IsCheckpoint
    <2>5. cp.state = "executing" /\ cp.revision = worker.cp.revision + 1 /\ cp.done = {} /\ IsCheckpoint(cp)
      <3>1. cp = [state |-> "executing", revision |-> worker.cp.revision + 1, done |-> {},
                  output |-> NoOutput, decision |-> "none", reflections |-> worker.cp.reflections,
                  step |-> NoStepState, instruction |-> FALSE, context |-> worker.cp.context + 1]
        BY <2>1 DEF NewCheckpoint
      <3>2. worker.cp.revision + 1 \in Nat /\ "executing" \in CpStates /\ {} \in SUBSET Keys
        BY <2>4 DEF CpStates
      <3>3. IsCheckpoint(cp)
        BY <2>4, <3>1, <3>2, NoStepIs, CheckpointIs
      <3> QED
        BY <3>1, <3>3
    <2>6. worker' = [worker EXCEPT !.plan = plan, !.cp = cp,
                        !.events = <<ctx, PlanCreated(cp.revision, plan), Save(cp)>>]
      BY <1>3, <1>5, <2>1, <2>2
    <2>7. /\ WorkerShape' /\ worker'.pc = "top" /\ worker'.plan = plan /\ worker'.cp = cp
          /\ worker'.events = <<ctx, PlanCreated(cp.revision, plan), Save(cp)>>
      BY <1>2, <2>6, WorkerIs DEF WorkerShape, LoopPcs
    <2>8. plan \in Seq(Step) /\ plan # NoPlan
      BY <1>5, AnswersAssumption DEF Step, ValidGraph, NoPlan
    <2>9. AtPc'
      BY <1>5, <2>5, <2>7, <2>8 DEF AtPc
    <2>10. \A r \in DOMAIN plans : plans[r].status \in Dropped
      BY <1>1, <1>2, RowsAre DEF Drained, DrainedBut, OthersDropped
    <2>11. cp.revision \in 1..(Len(plans) + 1)
      BY <1>2, <2>5, RowsAre DEF Drained, DrainedBut
    <2> DEFINE q == <<PlanCreated(cp.revision, plan), Save(cp)>>
    <2>12. Creating(q)'
      BY <1>1, <2>5, <2>7, <2>8, <2>10, <2>11 DEF Creating
    <2>13. StreamRest(q)'
      BY <2>12 DEF StreamRest
    <2>14. Stream(worker.events)'
      BY <2>3, <2>7, <2>13, ContextTriple
    <2> QED
      BY <1>1, <2>7, <2>9, <2>14, LoopMoves
  <1> QED
    BY <1>4, <1>5

LEMMA StartStepStep ==
  ASSUME PInv, StartStep
  PROVE  PInv'
  <1>1. /\ LoopAt("top") /\ "top" \in LoopPcs /\ UNCHANGED <<plans, saved, run>>
        /\ worker.plan # NoPlan /\ Remaining # {}
    BY DEF StartStep, LoopPcs
  <1>2. AtPc /\ Drained /\ worker.pc = "top"
    BY <1>1, LoopFacts
  <1>3. PICK key : key = worker.plan[NextStep].key
    OBVIOUS
  <1>4. Runnable(worker.plan, key, worker.cp.done) /\ key \notin worker.cp.done
    BY <1>1, <1>2, <1>3, NextIsRunnable DEF AtPc
  <1>5. key \in Keys
    <2>1. \A s \in Range(worker.plan) : s \in Step
      BY <1>1, <1>2 DEF AtPc, Range
    <2> QED
      BY <1>4, <2>1 DEF Runnable, Step
  <1> DEFINE State == IF worker.cp.step.key = key THEN worker.cp.step ELSE [NoStepState EXCEPT !.key = key]
  <1>6. PICK cp : cp = [worker.cp EXCEPT !.step = State]
    OBVIOUS
  <1>7. IsCheckpoint(cp) /\ cp.step.key = key /\ cp.state = worker.cp.state
        /\ cp.revision = worker.cp.revision /\ cp.done = worker.cp.done
    BY <1>2, <1>5, <1>6 DEF AtPc, IsCheckpoint, NoStepState
  <1>8. Emit("step", cp, <<StepStarted(worker.cp.revision, key)>>)
    BY <1>3, <1>6 DEF StartStep
  <1>9. /\ WorkerShape' /\ worker'.pc = "step" /\ worker'.plan = worker.plan /\ worker'.cp = cp
        /\ worker'.events = <<StepStarted(cp.revision, cp.step.key)>>
    BY <1>7, <1>8, WorkerIs DEF Emit, WorkerShape, LoopPcs
  <1>10. AtPc'
    BY <1>1, <1>2, <1>4, <1>7, <1>9 DEF AtPc
  <1>11. Drained'
    BY <1>1, <1>2, <1>7, <1>9, SameProgress
  <1>12. Stream(worker.events)'
    BY <1>9, <1>11 DEF Stream, StreamRest, Starting
  <1> QED
    BY <1>1, <1>9, <1>10, <1>12, LoopMoves

\* A round of a step that saves its checkpoint.
LEMMA RoundSaved ==
  ASSUME PInv, LoopAt("step"), UNCHANGED <<plans, saved, run>>, NEW cp, IsCheckpoint(cp),
         cp.revision = worker.cp.revision, cp.done = worker.cp.done, cp.step.key = worker.cp.step.key,
         cp.state \in {worker.cp.state, "executing"}, NEW e, e.ev = "CONTEXT_SNAPSHOT_CREATED",
         NEW events, events \in {<<Save(cp)>>, <<e, Save(cp)>>}, Emit("step", cp, events)
  PROVE  PInv'
  <1>1. "step" \in LoopPcs
    BY DEF LoopPcs
  <1>2. AtPc /\ Drained /\ worker.pc = "step" /\ worker.plan # NoPlan
    BY <1>1, LoopFacts DEF AtPc
  <1>3. /\ WorkerShape' /\ worker'.pc = "step" /\ worker'.plan = worker.plan /\ worker'.cp = cp
        /\ worker'.events = events
    BY <1>2, WorkerIs DEF Emit, WorkerShape, LoopPcs
  <1>4. cp.state \notin {"planning", "reflecting", "completed"}
    BY <1>2 DEF AtPc
  <1>5. AtPc'
    BY <1>2, <1>3, <1>4 DEF AtPc
  <1>6. Drained' /\ CpFits(cp)'
    BY <1>2, <1>3, <1>4, SameProgress, CpOfProgress
  <1>7. StreamRest(<<Save(cp)>>)'
    BY <1>1, <1>3, <1>4, <1>6, SaveStream
  <1>8. Stream(worker.events)'
    <2>1. CASE events = <<Save(cp)>>
      BY <1>3, <1>7, <2>1 DEF Stream
    <2>2. CASE events = <<e, Save(cp)>>
      BY <1>3, <1>7, <2>2, ContextPair
    <2> QED
      BY <2>1, <2>2
  <1> QED
    BY <1>1, <1>3, <1>5, <1>8, LoopMoves

LEMMA AskToolsStep ==
  ASSUME PInv, AskTools
  PROVE  PInv'
  <1>1. LoopAt("step") /\ UNCHANGED <<plans, saved, run>> /\ "step" \in LoopPcs
    BY DEF AskTools, LoopPcs
  <1>2. AtPc
    BY <1>1, LoopFacts
  <1>3. PICK cp : cp = [worker.cp EXCEPT !.state = "executing", !.decision = "none",
                                   !.step.round = @ + 1, !.step.pending = TRUE,
                                   !.instruction = worker.instruction, !.context = @ + 1]
    OBVIOUS
  <1>4. /\ IsCheckpoint(cp) /\ cp.revision = worker.cp.revision /\ cp.done = worker.cp.done
        /\ cp.step.key = worker.cp.step.key /\ cp.state = "executing"
    <2>1. PICK old : old = worker.cp
      OBVIOUS
    <2>2. IsCheckpoint(old)
      BY <1>2, <2>1 DEF AtPc
    <2>3. PICK c1 : c1 = [old EXCEPT !.state = "executing", !.decision = "none"]
      OBVIOUS
    <2>4. IsCheckpoint(c1) /\ c1.state = "executing" /\ c1.revision = old.revision /\ c1.done = old.done
          /\ c1.step.key = old.step.key
      BY <2>2, <2>3 DEF IsCheckpoint, CpStates
    <2>5. PICK c2 : c2 = [c1 EXCEPT !.step.round = @ + 1]
      OBVIOUS
    <2>6. IsCheckpoint(c2) /\ c2.state = "executing" /\ c2.revision = old.revision /\ c2.done = old.done
          /\ c2.step.key = old.step.key
      BY <2>4, <2>5 DEF IsCheckpoint
    <2>7. PICK c3 : c3 = [c2 EXCEPT !.step.pending = TRUE]
      OBVIOUS
    <2>8. IsCheckpoint(c3) /\ c3.state = "executing" /\ c3.revision = old.revision /\ c3.done = old.done
          /\ c3.step.key = old.step.key
      BY <2>6, <2>7 DEF IsCheckpoint
    <2>9. cp = [c3 EXCEPT !.instruction = worker.instruction, !.context = @ + 1]
      BY <1>3, <2>1, <2>3, <2>5, <2>7
    <2> QED
      BY <2>1, <2>8, <2>9, WorkerIs DEF IsCheckpoint
  <1>5. PICK e : e = StepContext
    OBVIOUS
  <1>6. e.ev = "CONTEXT_SNAPSHOT_CREATED"
    BY <1>5 DEF StepContext, Context
  <1>7. Emit("step", cp, <<e, Save(cp)>>)
    BY <1>3, <1>5 DEF AskTools
  <1> QED
    BY <1>1, <1>4, <1>6, <1>7, RoundSaved

LEMMA RunToolsStep ==
  ASSUME PInv, RunTools
  PROVE  PInv'
  <1>1. LoopAt("step") /\ UNCHANGED <<plans, saved, run>> /\ "step" \in LoopPcs
    BY DEF RunTools, LoopPcs
  <1>2. AtPc
    BY <1>1, LoopFacts
  <1>3. PICK cp : cp = [worker.cp EXCEPT !.step.pending = FALSE]
    OBVIOUS
  <1>4. /\ IsCheckpoint(cp) /\ cp.revision = worker.cp.revision /\ cp.done = worker.cp.done
        /\ cp.step.key = worker.cp.step.key /\ cp.state = worker.cp.state
    BY <1>2, <1>3 DEF AtPc, IsCheckpoint
  <1>5. Emit("step", cp, <<Save(cp)>>)
    BY <1>3 DEF RunTools
  <1>6. PICK e : e = StepContext
    OBVIOUS
  <1>7. e.ev = "CONTEXT_SNAPSHOT_CREATED"
    BY <1>6 DEF StepContext, Context
  <1> QED
    BY <1>1, <1>4, <1>5, <1>7, RoundSaved

LEMMA AnswerStepStep ==
  ASSUME PInv, AnswerStep
  PROVE  PInv'
  <1>1. LoopAt("step") /\ UNCHANGED <<plans, saved, run>> /\ "step" \in LoopPcs
    BY DEF AnswerStep, LoopPcs
  <1>2. AtPc /\ Drained /\ worker.pc = "step" /\ worker.plan # NoPlan
    BY <1>1, LoopFacts DEF AtPc
  <1>3. PICK key : key = worker.cp.step.key
    OBVIOUS
  <1>4. PICK e : e = StepContext
    OBVIOUS
  <1>5. e.ev = "CONTEXT_SNAPSHOT_CREATED"
    BY <1>4 DEF StepContext, Context
  <1>6. PICK old : old = worker.cp
    OBVIOUS
  <1>7. IsCheckpoint(old) /\ old.revision # 0 /\ Runnable(worker.plan, key, old.done)
    BY <1>2, <1>3, <1>6 DEF AtPc, Drained, DrainedBut
  <1>8. key \in Keys /\ key \in StepKeys(worker.plan)
    <2>1. \A s \in Range(worker.plan) : s \in Step
      BY <1>2 DEF AtPc, Range
    <2> QED
      BY <1>7, <2>1 DEF Runnable, Step, StepKeys
  <1>9. PICK fit \in BOOLEAN, passed \in BOOLEAN :
          LET output == [key |-> key, fit |-> fit]
              cp == [old EXCEPT !.output = output, !.decision = "none", !.step = NoStepState,
                                !.instruction = FALSE, !.context = @ + 1]
              next == [cp EXCEPT !.state = "executing", !.done = @ \cup {key}]
          IN  IF passed
              THEN worker' = [worker EXCEPT !.pc = "top", !.cp = next, !.instruction = FALSE,
                     !.events = <<e, StepCompleted(cp.revision, key, output), Save(next)>>]
              ELSE Emit("reflectStep", [cp EXCEPT !.state = "reflecting"],
                        <<e, StepFailed(cp.revision, key)>>)
    BY <1>3, <1>4, <1>6 DEF AnswerStep
  <1>10. PICK output : output = [key |-> key, fit |-> fit]
    OBVIOUS
  <1>11. output \in Outputs
    BY <1>8, <1>10 DEF Outputs
  <1>12. PICK cp : cp = [old EXCEPT !.output = output, !.decision = "none", !.step = NoStepState,
                                !.instruction = FALSE, !.context = @ + 1]
    OBVIOUS
  <1>13. /\ IsCheckpoint(cp) /\ cp.state = old.state /\ cp.revision = old.revision
         /\ cp.done = old.done /\ cp.output = output
    BY <1>7, <1>12, NoStepIs DEF IsCheckpoint, StepStates
  <1>14. CASE passed
    <2>1. PICK next : next = [cp EXCEPT !.state = "executing", !.done = @ \cup {key}]
      OBVIOUS
    <2>2. /\ IsCheckpoint(next) /\ next.state = "executing" /\ next.revision = old.revision
          /\ next.done = old.done \union {key} /\ next.output = output
      BY <1>8, <1>13, <2>1 DEF IsCheckpoint, CpStates
    <2>3. worker' = [worker EXCEPT !.pc = "top", !.cp = next, !.instruction = FALSE,
                        !.events = <<e, StepCompleted(next.revision, key, output), Save(next)>>]
      BY <1>9, <1>10, <1>12, <1>13, <1>14, <2>1, <2>2
    <2>4. /\ WorkerShape' /\ worker'.pc = "top" /\ worker'.plan = worker.plan /\ worker'.cp = next
          /\ worker'.events = <<e, StepCompleted(next.revision, key, output), Save(next)>>
      BY <2>3, WorkerIs DEF WorkerShape, LoopPcs
    <2>5. AtPc'
      BY <1>2, <2>2, <2>4 DEF AtPc
    <2>6. DrainedBut({key})'
      BY <1>1, <1>2, <1>6, <1>7, <2>2, <2>4 DEF Drained, DrainedBut, OthersDropped, CompletedSteps
    <2>7. Runnable(worker.plan, key, CompletedSteps(plans[old.revision]))'
      BY <1>1, <1>2, <1>6, <1>7, <2>4 DEF Runnable, Drained, DrainedBut, CompletedSteps
    <2> DEFINE q == <<StepCompleted(next.revision, key, output), Save(next)>>
    <2>8. Completing(q)'
      BY <1>2, <1>11, <2>2, <2>4, <2>6, <2>7 DEF Completing
    <2>9. StreamRest(q)'
      BY <2>8 DEF StreamRest
    <2>10. Stream(worker.events)'
      BY <1>5, <2>4, <2>9, ContextTriple
    <2> QED
      BY <1>1, <2>4, <2>5, <2>10, LoopMoves
  <1>15. CASE ~ passed
    <2>1. PICK next : next = [cp EXCEPT !.state = "reflecting"]
      OBVIOUS
    <2>2. /\ IsCheckpoint(next) /\ next.state = "reflecting" /\ next.revision = old.revision
          /\ next.done = old.done
      BY <1>13, <2>1 DEF IsCheckpoint, CpStates
    <2>3. Emit("reflectStep", next, <<e, StepFailed(next.revision, key)>>)
      BY <1>9, <1>10, <1>12, <1>13, <1>15, <2>1, <2>2
    <2>4. /\ WorkerShape' /\ worker'.pc = "reflectStep" /\ worker'.plan = worker.plan /\ worker'.cp = next
          /\ worker'.events = <<e, StepFailed(next.revision, key)>>
      BY <2>3, WorkerIs DEF Emit, WorkerShape, LoopPcs
    <2>5. AtPc'
      BY <1>2, <2>2, <2>4 DEF AtPc
    <2>6. Drained'
      BY <1>1, <1>2, <1>6, <2>2, <2>4, SameProgress
    <2>7. StreamRest(<<StepFailed(next.revision, key)>>)'
      BY <1>8, <2>4, <2>6 DEF StreamRest, FailingStep
    <2>8. Stream(worker.events)'
      BY <1>5, <2>4, <2>7, ContextPair
    <2> QED
      BY <1>1, <2>4, <2>5, <2>8, LoopMoves DEF LoopPcs
  <1> QED
    BY <1>14, <1>15

LEMMA DecidedIs ==
  ASSUME RowsFit, AtPc, Drained, UNCHANGED plans, worker.plan # NoPlan, NEW decision \in Decisions, NEW cp, cp = Decided(decision)
  PROVE  /\ IsCheckpoint(cp) /\ cp.state = "reflecting" /\ cp.decision = decision /\ CpFits(cp)'
         /\ cp.revision = worker.cp.revision /\ cp.done = worker.cp.done /\ cp.revision \in DOMAIN plans
  <1>1. PICK old : old = worker.cp
    OBVIOUS
  <1>2. IsCheckpoint(old) /\ old.revision # 0 /\ old.revision \in 0..Len(plans)
    BY <1>1 DEF AtPc, Drained, DrainedBut
  <1>3. cp = [old EXCEPT !.state = "reflecting", !.decision = decision, !.reflections = @ + 1,
                         !.step = NoStepState, !.instruction = TRUE, !.context = @ + 1]
    BY <1>1 DEF Decided
  <1>4. IsCheckpoint(cp) /\ cp.state = "reflecting" /\ cp.decision = decision
        /\ cp.revision = old.revision /\ cp.done = old.done
    <2>1. PICK c1 : c1 = [old EXCEPT !.state = "reflecting", !.decision = decision]
      OBVIOUS
    <2>2. IsCheckpoint(c1) /\ c1.state = "reflecting" /\ c1.decision = decision
          /\ c1.revision = old.revision /\ c1.done = old.done
      BY <1>2, <2>1 DEF IsCheckpoint, CpStates
    <2>3. PICK c2 : c2 = [c1 EXCEPT !.reflections = @ + 1]
      OBVIOUS
    <2>4. IsCheckpoint(c2) /\ c2.state = "reflecting" /\ c2.decision = decision
          /\ c2.revision = old.revision /\ c2.done = old.done
      BY <2>2, <2>3 DEF IsCheckpoint
    <2>5. cp = [c2 EXCEPT !.step = NoStepState, !.instruction = TRUE, !.context = @ + 1]
      BY <1>3, <2>1, <2>3
    <2> QED
      BY <2>4, <2>5, NoStepIs DEF IsCheckpoint, StepStates
  <1>5. CpFits(cp)'
    BY <1>1, <1>4, CpOfProgress
  <1>6. cp.revision \in DOMAIN plans
    BY <1>2, <1>4, RowsAre
  <1> QED
    BY <1>1, <1>4, <1>5, <1>6

\* A reflection, its checkpoint, and what ends the stream.
LEMMA ReflectStream ==
  ASSUME NEW q, NEW e, e.ev = "CONTEXT_SNAPSHOT_CREATED", NEW rev \in DOMAIN plans', NEW decision \in Decisions,
         NEW cp, CpFits(cp)', cp.state = "reflecting",
         q # <<>>, Head(q) = e, Tail(q) # <<>>, Head(Tail(q)) = Reflected(rev, decision),
         Tail(Tail(q)) # <<>>, Head(Tail(Tail(q))) = Save(cp), EndRest(Tail(Tail(Tail(q))))'
  PROVE  Stream(q)'
  <1>1. PICK q1 : q1 = Tail(q)
    OBVIOUS
  <1>2. PICK q2 : q2 = Tail(q1)
    OBVIOUS
  <1>3. ReflectFirst(q1)'
    BY <1>1 DEF ReflectFirst
  <1>4. Save(cp).ev = "CHECKPOINT_SAVED" /\ Save(cp).cp = cp
    BY DEF Save
  <1>5. SaveFirst(q2)'
    BY <1>1, <1>2, <1>4 DEF SaveFirst
  <1>6. EndRest(Tail(q2))'
    BY <1>1, <1>2
  <1>7. StreamRest(q1)'
    BY <1>2, <1>3, <1>5, <1>6 DEF StreamRest, ReflectRest
  <1> QED
    BY <1>1, <1>7 DEF Stream

LEMMA PlanningIs ==
  ASSUME NEW cp, IsCheckpoint(cp), NEW again, again = PlanningAgain(cp)
  PROVE  again.state = "planning" /\ again.done = {} /\ again.revision = cp.revision /\ IsCheckpoint(again)
  <1>1. again = [state |-> "planning", revision |-> cp.revision, done |-> {}, output |-> NoOutput,
                 decision |-> "none", reflections |-> cp.reflections, step |-> NoStepState,
                 instruction |-> cp.instruction, context |-> cp.context]
    BY DEF PlanningAgain, NewCheckpoint
  <1>2. "planning" \in CpStates /\ {} \in SUBSET Keys
    BY DEF CpStates
  <1>3. IsCheckpoint(again)
    BY <1>1, <1>2, NoStepIs, CheckpointHas, CheckpointIs
  <1> QED
    BY <1>1, <1>3

LEMMA ExecutingIs ==
  ASSUME NEW cp, IsCheckpoint(cp), NEW next, next = Executing(cp)
  PROVE  /\ next.state = "executing" /\ next.done = cp.done /\ next.revision = cp.revision
         /\ IsCheckpoint(next)
  BY NoStepIs DEF Executing, IsCheckpoint, StepStates, CpStates

\* The loop fails with its Plan, or because it may not replan any more.
LEMMA GivesUpStep ==
  ASSUME PInv, NEW pc \in LoopPcs, LoopAt(pc), UNCHANGED <<plans, saved, run>>, worker.plan # NoPlan,
         NEW decision \in Decisions,
         \/ Finish("failed", Decided(decision), RecordedReflection(decision))
         \/ Finish("failed", Decided(decision),
                   RecordedReflection(decision) \o <<PlanStatus(worker.cp.revision, "failed")>>)
  PROVE  PInv'
  <1>1. AtPc /\ Drained /\ worker.pc = pc /\ RowsFit
    BY LoopFacts DEF PInv
  <1>2. PICK cp : cp = Decided(decision)
    OBVIOUS
  <1>3. /\ cp.state = "reflecting" /\ CpFits(cp)'
        /\ cp.revision = worker.cp.revision /\ cp.revision \in DOMAIN plans
    BY <1>1, <1>2, DecidedIs
  <1>4. PICK e : e = Context(worker.cp, <<"reflection", worker.cp.revision, worker.cp.output>>)
    OBVIOUS
  <1>5. e.ev = "CONTEXT_SNAPSHOT_CREATED"
    BY <1>4 DEF Context
  <1> DEFINE a == Reflected(cp.revision, decision)
             b == Save(cp)
             c == PlanStatus(cp.revision, "failed")
  <1>6. RecordedReflection(decision) = <<e, a, b>>
    BY <1>2, <1>3, <1>4 DEF RecordedReflection
  <1> HIDE DEF a, b, c
  <1>7. RecordedReflection(decision) \o <<c>> = <<e, a, b, c>>
    BY <1>6, Joined
  <1>8. PICK q : q = worker'.events
    OBVIOUS
  <1>9. /\ WorkerShape' /\ worker'.pc = "finish" /\ worker'.outcome = "failed"
        /\ q = <<e, a, b>> \/ q = <<e, a, b, c>>
    BY <1>2, <1>3, <1>6, <1>7, <1>8, WorkerIs DEF Finish, WorkerShape, c
  <1>10. CASE q = <<e, a, b>>
    <2>1. /\ q # <<>> /\ Head(q) = e /\ Tail(q) # <<>> /\ Head(Tail(q)) = a
          /\ Tail(Tail(q)) # <<>> /\ Head(Tail(Tail(q))) = b /\ Tail(Tail(Tail(q))) = <<>>
      BY <1>10, Tuples
    <2>2. EndRest(Tail(Tail(Tail(q))))'
      BY <1>9, <2>1 DEF EndRest, AtEnd
    <2> QED
      BY <1>1, <1>3, <1>5, <1>8, <1>9, <2>1, <2>2, ReflectStream, LoopMoves DEF a, b, LoopPcs
  <1>11. CASE q = <<e, a, b, c>>
    <2>1. /\ q # <<>> /\ Head(q) = e /\ Tail(q) # <<>> /\ Head(Tail(q)) = a
          /\ Tail(Tail(q)) # <<>> /\ Head(Tail(Tail(q))) = b /\ Tail(Tail(Tail(q))) = <<c>>
      BY <1>11, Tuples, LongTuples
    <2>2. GivingUp(<<c>>)'
      BY <1>1, <1>3, <1>9 DEF GivingUp, Drained, DrainedBut, OthersDropped, c
    <2>3. EndRest(Tail(Tail(Tail(q))))'
      BY <2>1, <2>2 DEF EndRest
    <2> QED
      BY <1>1, <1>3, <1>5, <1>8, <1>9, <2>1, <2>3, ReflectStream, LoopMoves DEF a, b, LoopPcs
  <1> QED
    BY <1>9, <1>10, <1>11

LEMMA ReplanStep ==
  ASSUME PInv, NEW pc \in LoopPcs, LoopAt(pc), UNCHANGED <<plans, saved, run>>, worker.plan # NoPlan,
         NEW decision \in Decisions, Replan(decision)
  PROVE  PInv'
  <1>1. AtPc /\ Drained /\ worker.pc = pc /\ RowsFit
    BY LoopFacts DEF PInv
  <1>2. CASE worker.replans >= MaxReplans
    <2>1. Finish("failed", Decided(decision), RecordedReflection(decision))
      BY <1>2 DEF Replan
    <2> QED
      BY <2>1, GivesUpStep
  <1>3. CASE ~ (worker.replans >= MaxReplans)
    <2>1. PICK cp : cp = Decided(decision)
      OBVIOUS
    <2>2. /\ cp.state = "reflecting" /\ CpFits(cp)' /\ IsCheckpoint(cp)
          /\ cp.revision = worker.cp.revision /\ cp.revision \in DOMAIN plans
      BY <1>1, <2>1, DecidedIs
    <2>3. PICK e : e = Context(worker.cp, <<"reflection", worker.cp.revision, worker.cp.output>>)
      OBVIOUS
    <2>4. e.ev = "CONTEXT_SNAPSHOT_CREATED"
      BY <2>3 DEF Context
    <2>5. PICK again : again = PlanningAgain(cp)
      OBVIOUS
    <2>6. again.state = "planning" /\ again.done = {} /\ again.revision = cp.revision /\ IsCheckpoint(again)
      BY <2>2, <2>5, PlanningIs
    <2> DEFINE a == Reflected(cp.revision, decision)
               b == Save(cp)
               c == PlanStatus(again.revision, "superseded")
               d == Save(again)
    <2>7. RecordedReflection(decision) = <<e, a, b>>
      BY <2>1, <2>2, <2>3 DEF RecordedReflection
    <2>8. worker' = [worker EXCEPT !.pc = "top", !.cp = again, !.plan = NoPlan, !.replans = @ + 1,
                        !.instruction = TRUE, !.events = RecordedReflection(decision) \o <<c, d>>]
      BY <1>3, <2>1, <2>5, <2>6 DEF Replan
    <2> HIDE DEF a, b, c, d
    <2>9. RecordedReflection(decision) \o <<c, d>> = <<e, a, b, c, d>>
      BY <2>7, JoinedPair
    <2>10. PICK q : q = worker'.events
      OBVIOUS
    <2>11. /\ WorkerShape' /\ worker'.pc = "top" /\ worker'.plan = NoPlan /\ worker'.cp = again
           /\ q = <<e, a, b, c, d>>
      BY <2>8, <2>9, <2>10, WorkerIs DEF WorkerShape, LoopPcs
    <2>12. AtPc'
      BY <2>6, <2>11 DEF AtPc
    <2>13. /\ q # <<>> /\ Head(q) = e /\ Tail(q) # <<>> /\ Head(Tail(q)) = a
           /\ Tail(Tail(q)) # <<>> /\ Head(Tail(Tail(q))) = b /\ Tail(Tail(Tail(q))) = <<c, d>>
      BY <2>11, LongTuples, Tuples
    <2>14. Superseding(<<c, d>>)'
      BY <1>1, <2>2, <2>6, <2>11 DEF Superseding, Drained, DrainedBut, OthersDropped, c, d
    <2>15. EndRest(Tail(Tail(Tail(q))))'
      BY <2>13, <2>14 DEF EndRest
    <2>16. Stream(worker.events)'
      BY <2>2, <2>4, <2>10, <2>13, <2>15, ReflectStream DEF a, b
    <2> QED
      BY <2>11, <2>12, <2>16, LoopMoves
  <1> QED
    BY <1>2, <1>3

LEMMA ReflectOnStepStep ==
  ASSUME PInv, ReflectOnStep
  PROVE  PInv'
  <1>1. LoopAt("reflectStep") /\ UNCHANGED <<plans, saved, run>> /\ "reflectStep" \in LoopPcs
    BY DEF ReflectOnStep, LoopPcs
  <1>2. AtPc /\ Drained /\ worker.pc = "reflectStep" /\ worker.plan # NoPlan /\ RowsFit
    BY <1>1, LoopFacts DEF AtPc, PInv
  <1>3. CASE Replan("replan")
    BY <1>1, <1>2, <1>3, ReplanStep DEF Decisions
  <1>4. CASE GiveUpPlan
    BY <1>1, <1>2, <1>4, GivesUpStep DEF GiveUpPlan, Decisions
  <1>5. CASE worker' = [worker EXCEPT !.pc = "top", !.cp = Executing(Decided("retry")),
                          !.instruction = TRUE, !.events = RecordedReflection("retry")]
    <2>1. PICK cp : cp = Decided("retry")
      OBVIOUS
    <2>2. /\ cp.state = "reflecting" /\ CpFits(cp)' /\ IsCheckpoint(cp) /\ cp.done = worker.cp.done
          /\ cp.revision = worker.cp.revision /\ cp.revision \in DOMAIN plans
      BY <1>1, <1>2, <2>1, DecidedIs DEF Decisions
    <2>3. PICK e : e = Context(worker.cp, <<"reflection", worker.cp.revision, worker.cp.output>>)
      OBVIOUS
    <2>4. e.ev = "CONTEXT_SNAPSHOT_CREATED"
      BY <2>3 DEF Context
    <2>5. PICK next : next = Executing(cp)
      OBVIOUS
    <2>6. next.state = "executing" /\ next.done = cp.done /\ next.revision = cp.revision /\ IsCheckpoint(next)
      BY <2>2, <2>5, ExecutingIs
    <2> DEFINE a == Reflected(cp.revision, "retry")
               b == Save(cp)
    <2>7. RecordedReflection("retry") = <<e, a, b>>
      BY <2>1, <2>2, <2>3 DEF RecordedReflection
    <2> HIDE DEF a, b
    <2>8. PICK q : q = worker'.events
      OBVIOUS
    <2>9. /\ WorkerShape' /\ worker'.pc = "top" /\ worker'.plan = worker.plan /\ worker'.cp = next
          /\ q = <<e, a, b>>
      BY <1>5, <2>1, <2>5, <2>7, <2>8, WorkerIs DEF WorkerShape, LoopPcs
    <2>10. AtPc'
      BY <1>2, <2>6, <2>9 DEF AtPc
    <2>11. /\ q # <<>> /\ Head(q) = e /\ Tail(q) # <<>> /\ Head(Tail(q)) = a
           /\ Tail(Tail(q)) # <<>> /\ Head(Tail(Tail(q))) = b /\ Tail(Tail(Tail(q))) = <<>>
      BY <2>9, Tuples
    <2>12. Drained'
      BY <1>1, <1>2, <2>2, <2>6, <2>9, SameProgress
    <2>13. EndRest(Tail(Tail(Tail(q))))'
      BY <2>9, <2>11, <2>12 DEF EndRest, AtEnd, LoopPcs
    <2>14. Stream(worker.events)'
      BY <1>1, <2>2, <2>4, <2>8, <2>11, <2>13, ReflectStream DEF a, b, Decisions
    <2> QED
      BY <1>1, <2>9, <2>10, <2>14, LoopMoves
  <1> QED
    BY <1>3, <1>4, <1>5 DEF ReflectOnStep

LEMMA ReflectOnResultStep ==
  ASSUME PInv, ReflectOnResult
  PROVE  PInv'
  <1>1. LoopAt("reflectResult") /\ UNCHANGED <<plans, saved, run>> /\ "reflectResult" \in LoopPcs
    BY DEF ReflectOnResult, LoopPcs
  <1>2. worker.plan # NoPlan
    BY <1>1, LoopFacts DEF AtPc
  <1>3. ASSUME NEW decision \in {"retry", "replan"}, Replan(decision) PROVE PInv'
    BY <1>1, <1>2, <1>3, ReplanStep DEF Decisions
  <1>4. CASE GiveUpPlan
    BY <1>1, <1>2, <1>4, GivesUpStep DEF GiveUpPlan, Decisions
  <1> QED
    BY <1>3, <1>4 DEF ReflectOnResult

LEMMA EvaluateResultStep ==
  ASSUME PInv, EvaluateResult
  PROVE  PInv'
  <1>1. LoopAt("top") /\ UNCHANGED <<plans, saved, run>> /\ "top" \in LoopPcs /\ worker.plan # NoPlan /\ Remaining = {}
    BY DEF EvaluateResult, LoopPcs
  <1>2. AtPc /\ Drained /\ worker.pc = "top"
    BY <1>1, LoopFacts
  <1>3. StepKeys(worker.plan) \subseteq worker.cp.done
    BY <1>1 DEF Remaining, StepKeys, Range
  <1>4. PICK pc : pc = IF ~ worker.cp.output.fit THEN "reflectResult" ELSE IF Judge THEN "judge" ELSE "complete"
    OBVIOUS
  <1>5. pc \in {"reflectResult", "judge", "complete"} /\ (pc # "reflectResult" => worker.cp.output.fit)
    BY <1>4
  <1>6. Emit(pc, worker.cp, <<>>)
    BY <1>4 DEF EvaluateResult
  <1>7. /\ WorkerShape' /\ worker'.pc = pc /\ worker'.plan = worker.plan /\ worker'.cp = worker.cp
        /\ worker'.events = <<>> /\ pc \in LoopPcs
    BY <1>5, <1>6, WorkerIs DEF Emit, WorkerShape, LoopPcs
  <1>8. AtPc'
    BY <1>1, <1>2, <1>3, <1>5, <1>7 DEF AtPc
  <1>9. Drained'
    BY <1>1, <1>2, <1>7, SameProgress
  <1>10. Stream(worker.events)'
    BY <1>7, <1>9, DrainedStream
  <1> QED
    BY <1>1, <1>5, <1>7, <1>8, <1>10, LoopMoves

LEMMA JudgeResultStep ==
  ASSUME PInv, JudgeResult
  PROVE  PInv'
  <1>1. LoopAt("judge") /\ UNCHANGED <<plans, saved, run>> /\ "judge" \in LoopPcs
    BY DEF JudgeResult, LoopPcs
  <1>2. /\ AtPc /\ Drained /\ worker.pc = "judge" /\ worker.plan # NoPlan
        /\ StepKeys(worker.plan) \subseteq worker.cp.done /\ worker.cp.output.fit
    BY <1>1, LoopFacts DEF AtPc
  <1>3. PICK old : old = worker.cp
    OBVIOUS
  <1>4. PICK cp : cp = [old EXCEPT !.state = "finalizing", !.decision = "none", !.step = NoStepState,
                                   !.instruction = FALSE, !.context = @ + 1]
    OBVIOUS
  <1>5. /\ IsCheckpoint(cp) /\ cp.state = "finalizing" /\ cp.revision = old.revision
        /\ cp.done = old.done /\ cp.output = old.output
    <2>1. IsCheckpoint(old)
      BY <1>2, <1>3 DEF AtPc
    <2> QED
      BY <1>4, <2>1, NoStepIs DEF IsCheckpoint, StepStates, CpStates
  <1>6. PICK e : e = Context(worker.cp, <<"judge", cp.revision, cp.output>>)
    OBVIOUS
  <1>7. e.ev = "CONTEXT_SNAPSHOT_CREATED"
    BY <1>6 DEF Context
  <1>8. PICK verdict \in {"complete", "reflectResult"} : Emit(verdict, cp, <<e, Save(cp)>>)
    BY <1>3, <1>4, <1>6 DEF JudgeResult
  <1>9. /\ WorkerShape' /\ worker'.pc = verdict /\ worker'.plan = worker.plan /\ worker'.cp = cp
        /\ worker'.events = <<e, Save(cp)>> /\ verdict \in LoopPcs
    BY <1>8, WorkerIs DEF Emit, WorkerShape, LoopPcs
  <1>10. AtPc'
    BY <1>2, <1>3, <1>5, <1>9 DEF AtPc
  <1>11. Drained' /\ CpFits(cp)'
    BY <1>1, <1>2, <1>3, <1>5, <1>9, SameProgress, CpOfProgress
  <1>12. StreamRest(<<Save(cp)>>)'
    BY <1>5, <1>9, <1>11, SaveStream
  <1>13. Stream(worker.events)'
    BY <1>7, <1>9, <1>12, ContextPair
  <1> QED
    BY <1>1, <1>9, <1>10, <1>13, LoopMoves DEF LoopPcs

LEMMA CompletePlanStep ==
  ASSUME PInv, CompletePlan
  PROVE  PInv'
  <1>1. LoopAt("complete") /\ UNCHANGED <<plans, saved, run>> /\ "complete" \in LoopPcs
    BY DEF CompletePlan, LoopPcs
  <1>2. /\ AtPc /\ Drained /\ worker.pc = "complete" /\ worker.plan # NoPlan /\ RowsFit
        /\ StepKeys(worker.plan) \subseteq worker.cp.done /\ worker.cp.output.fit
    BY <1>1, LoopFacts DEF AtPc, PInv
  <1>3. PICK old : old = worker.cp
    OBVIOUS
  <1>4. PICK cp : cp = [old EXCEPT !.state = "completed", !.decision = "none", !.step = NoStepState,
                                   !.instruction = FALSE]
    OBVIOUS
  <1>5. /\ IsCheckpoint(cp) /\ cp.state = "completed" /\ cp.revision = old.revision
        /\ cp.done = old.done /\ cp.output = old.output
    <2>1. IsCheckpoint(old)
      BY <1>2, <1>3 DEF AtPc
    <2> QED
      BY <1>4, <2>1, NoStepIs DEF IsCheckpoint, StepStates, CpStates
  <1> DEFINE q == <<PlanStatus(cp.revision, "completed"), Save(cp)>>
  <1>6. Finish("completed", cp, q)
    BY <1>3, <1>4, <1>5 DEF CompletePlan
  <1>7. /\ WorkerShape' /\ worker'.pc = "finish" /\ worker'.outcome = "completed" /\ worker'.cp = cp
        /\ worker'.events = q
    BY <1>6, WorkerIs DEF Finish, WorkerShape
  <1>8. /\ cp.revision \in DOMAIN plans /\ OthersDropped(cp.revision)
        /\ cp.done \subseteq CompletedSteps(plans[cp.revision]) /\ plans[cp.revision].plan = worker.plan
    BY <1>2, <1>3, <1>5, RowsAre DEF Drained, DrainedBut
  <1>9. CompletedSteps(plans[cp.revision]) = StepKeys(plans[cp.revision].plan)
    BY <1>2, <1>3, <1>5, <1>8, RowsAre
  <1>10. Closing(q)'
    BY <1>1, <1>2, <1>3, <1>5, <1>7, <1>8, <1>9 DEF Closing, OthersDropped, CompletedSteps, StepKeys
  <1>11. Stream(worker.events)'
    BY <1>7, <1>10 DEF Stream, StreamRest
  <1> QED
    BY <1>1, <1>7, <1>11, LoopMoves DEF LoopPcs

LEMMA LoopKeepsPInv ==
  ASSUME PInv, LoopStep
  PROVE  PInv'
  <1>1. ASSUME ReflectionBudgetExhausted PROVE PInv'
    <2>1. PICK pc \in LoopPcs : LoopAt(pc)
      BY <1>1 DEF ReflectionBudgetExhausted, LoopPcs
    <2> QED
      BY <1>1, <2>1, LoopFails DEF ReflectionBudgetExhausted
  <1>2. ASSUME StopLoop PROVE PInv'
    <2>1. PICK pc \in LoopPcs : LoopAt(pc)
      BY <1>2 DEF StopLoop, LoopPcs
    <2>2. PICK outcome \in {"failed", "cancelled"} : Finish(outcome, worker.cp, <<>>)
      BY <1>2 DEF StopLoop
    <2> QED
      BY <1>2, <2>1, <2>2, LoopFails DEF StopLoop
  <1> QED
    BY <1>1, <1>2, CreatePlanStep, StartStepStep, AskToolsStep, RunToolsStep, AnswerStepStep,
       ReflectOnStepStep, ReflectOnResultStep, EvaluateResultStep, JudgeResultStep, CompletePlanStep
       DEF LoopStep


-----------------------------------------------------------------------------
(* Where a worker starts, and how it goes.                                 *)

\* The rows are as they were.
LEMMA RowsKept ==
  ASSUME RowsFit, UNCHANGED plans
  PROVE  /\ RowsFit' /\ Grown /\ \A r \in DOMAIN plans : CompletedSteps(plans[r])' = CompletedSteps(plans[r])
         /\ \A rev : OthersDropped(rev) => OthersDropped(rev)'
  <1>1. RowsFit'
    BY DEF RowsFit, RowFits, CompletedSteps, StepKeys
  <1> QED
    BY <1>1 DEF Grown, CompletedSteps, OthersDropped

\* What the next worker goes on from: the last Plan it may go on with, and no
\* less and no more than the steps that are completed.
LEMMA Restored ==
  ASSUME RowsFit, CpFits(saved), NEW cp, cp = Reconciled(saved), NEW plan, plan = RestoredPlan(saved)
  PROVE  /\ IsCheckpoint(cp) /\ cp.revision \in 0..Len(plans) /\ OthersDropped(cp.revision)
         /\ cp.state # "planning" => cp.revision # 0
         /\ cp.state = "planning" => plan = NoPlan
         /\ cp.state = "reflecting" => cp.decision \in Decisions
         /\ saved.state # "completed" => cp.state # "completed"
         /\ plan # NoPlan => cp.revision # 0 /\ plans[cp.revision].plan = plan
                             /\ plan \in Seq(Step) /\ ValidGraph(plan)
         /\ cp.revision # 0 =>
               /\ cp.done \subseteq CompletedSteps(plans[cp.revision])
               /\ plans[cp.revision].status = "active" =>
                     plan # NoPlan /\ CompletedSteps(plans[cp.revision]) \subseteq cp.done
               /\ plan = NoPlan => plans[cp.revision].status \in Dropped
  <1> DEFINE n == Len(plans)
  <1>1. n \in Nat /\ DOMAIN plans = 1..n /\ (plans = <<>> <=> n = 0)
    BY RowsAre
  <1>2. IsCheckpoint(saved) /\ saved.revision \in 0..n /\ saved.revision \in Nat /\ saved.reflections \in Nat
    BY DEF CpFits, IsCheckpoint
  <1>3. ASSUME n # 0
        PROVE  /\ n \in DOMAIN plans /\ LastRow = plans[n] /\ RowFits(LastRow) /\ LastRow \in Row
               /\ LastRow.plan \in Seq(Step) /\ ValidGraph(LastRow.plan) /\ LastRow.plan # NoPlan
               /\ CompletedSteps(LastRow) \subseteq StepKeys(LastRow.plan) /\ StepKeys(LastRow.plan) \subseteq Keys
               /\ OthersDropped(n)
    <2>1. n \in DOMAIN plans /\ LastRow = plans[n]
      BY <1>1, <1>3 DEF LastRow
    <2>2. OthersDropped(n)
      BY DEF RowsFit, OthersDropped
    <2> QED
      BY <2>1, <2>2, RowsAre DEF RowFits, ValidGraph, NoPlan
  <1>4. CASE Usable(saved) /\ FactsAhead(saved)
    <2>1. n # 0 /\ plan = LastRow.plan /\ cp = Advanced(saved)
      BY <1>1, <1>4 DEF Usable, Reconciled, RestoredPlan
    <2>2. PICK reflected \in BOOLEAN : reflected <=> Len(LastRow.decisions) > saved.reflections
      OBVIOUS
    <2>3. PICK done : done = CompletedSteps(LastRow)
      OBVIOUS
    <2>4. PICK output : output = IF done # {} THEN LastOutput(LastRow) ELSE saved.output
      OBVIOUS
    <2>5. PICK decision : decision = IF reflected THEN Last(LastRow.decisions) ELSE "none"
      OBVIOUS
    <2>6. PICK reflections : reflections = IF reflected THEN Len(LastRow.decisions) ELSE saved.reflections
      OBVIOUS
    <2>7. PICK state : state = IF reflected THEN "reflecting" ELSE "executing"
      OBVIOUS
    <2>8. PICK context : context = saved.context + Len(contexts)
      OBVIOUS
    <2>9. PICK instruction : instruction = (reflected \/ saved.instruction)
      OBVIOUS
    <2>10. cp = [state |-> state, revision |-> n, done |-> done, output |-> output, decision |-> decision,
                 reflections |-> reflections, step |-> NoStepState, instruction |-> instruction,
                 context |-> context]
      BY <2>1, <2>2, <2>3, <2>4, <2>5, <2>6, <2>7, <2>8, <2>9 DEF Advanced
    <2>11. LastRow.decisions \in Seq(Decisions) /\ Len(LastRow.decisions) \in Nat
      BY <1>3, <2>1 DEF Row
    <2>12. reflected => decision \in Decisions
      <3>1. ASSUME reflected PROVE decision \in Decisions
        <4>1. Len(LastRow.decisions) \in DOMAIN LastRow.decisions
          BY <1>2, <2>2, <2>11, <3>1
        <4>2. decision = LastRow.decisions[Len(LastRow.decisions)]
          BY <2>5, <3>1 DEF Last
        <4> QED
          BY <2>11, <4>1, <4>2
      <3> QED
        BY <3>1
    <2>13. /\ state \in CpStates /\ done \in SUBSET Keys /\ decision \in Decisions \union {"none"}
           /\ reflections \in Nat /\ instruction \in BOOLEAN
           /\ (state = "reflecting" => decision \in Decisions) /\ state \notin {"planning", "completed"}
      <3>1. state \in CpStates /\ (state = "reflecting" => reflected) /\ state \notin {"planning", "completed"}
        BY <2>7 DEF CpStates
      <3>2. done \in SUBSET Keys
        BY <1>3, <2>1, <2>3
      <3>3. decision \in Decisions \union {"none"} /\ reflections \in Nat
        BY <1>2, <2>5, <2>6, <2>11, <2>12
      <3> QED
        BY <2>9, <2>12, <3>1, <3>2, <3>3
    <2>14. IsCheckpoint(cp)
      BY <1>1, <2>10, <2>13, NoStepIs, CheckpointIs
    <2>15. cp.state = state /\ cp.revision = n /\ cp.done = done /\ cp.decision = decision
      BY <2>10
    <2> QED
      BY <1>1, <1>3, <2>1, <2>3, <2>13, <2>14, <2>15
  <1>5. CASE Usable(saved) /\ ~ FactsAhead(saved)
    <2>1. n # 0 /\ plan = LastRow.plan /\ cp = saved /\ LastRow.status \notin Dropped
      BY <1>1, <1>5 DEF Usable, Reconciled, RestoredPlan, Dropped
    <2>2. saved.revision = n /\ CompletedSteps(LastRow) \subseteq saved.done
      BY <1>1, <1>2, <1>5 DEF FactsAhead, Usable
    <2> QED
      BY <1>1, <1>2, <1>3, <2>1, <2>2 DEF CpFits
  <1>6. CASE ~ Usable(saved)
    <2>1. cp = saved
      BY <1>6 DEF Reconciled
    <2>2. plan # NoPlan => saved.revision # 0 /\ saved.state # "planning" /\ saved.revision = n /\ plan = LastRow.plan
      BY <1>6 DEF RestoredPlan
    <2>3. \A r \in DOMAIN plans : plans[r].status \in Dropped
      <3>1. ASSUME n # 0 PROVE LastRow.status \in Dropped
        BY <1>1, <1>2, <1>3, <1>6, <3>1 DEF Usable, Row, Dropped
      <3> QED
        BY <1>1, <1>3, <3>1 DEF OthersDropped
    <2>4. OthersDropped(saved.revision)
      BY <2>3 DEF OthersDropped
    <2>5. saved.revision # 0 => saved.revision \in DOMAIN plans
      BY <1>1, <1>2
    <2> QED
      BY <1>1, <1>2, <1>3, <2>1, <2>2, <2>3, <2>4, <2>5 DEF CpFits, Dropped
  <1> QED
    BY <1>4, <1>5, <1>6

\* No worker is left.
LEMMA WorkerGone ==
  ASSUME PInv, UNCHANGED plans, worker' = Idle,
         run' \in [status : {"running"} \union Terminal, result : {run'.result}],
         run'.status = "running" => CpFits(saved)',
         run'.status = "completed" => plans # <<>> /\ LastRow.status = "completed" /\ run'.result.fit
  PROVE  PInv'
  <1>1. RowsFit'
    BY RowsKept DEF PInv
  <1>2. worker'.pc = "off" /\ WorkerShape'
    BY DEF Idle, WorkerShape
  <1>3. ~ (worker'.pc \in LoopPcs)
    BY <1>2 DEF LoopPcs
  <1> QED
    BY <1>1, <1>2, <1>3 DEF PInv, LastRow

LEMMA SavedLater ==
  ASSUME RowsFit, UNCHANGED <<plans, saved>>, CpFits(saved)
  PROVE  CpFits(saved)'
  BY RowsKept, CpFitsLater

LEMMA GoneStep ==
  ASSUME PInv, Suspend \/ Timeout \/ Crash \/ CompleteClaim
  PROVE  PInv'
  <1>1. /\ RowsFit /\ worker.pc # "off" /\ run.status = "running" /\ CpFits(saved)
        /\ run \in [status : {"running"} \union Terminal, result : {run.result}]
    BY DEF PInv, Suspend, Timeout, Crash, CompleteClaim, LoopAt
  <1>2. CASE Suspend
    <2>1. LoopAt("step") /\ "step" \in LoopPcs
      BY <1>2 DEF Suspend, LoopPcs
    <2>2. AtPc /\ Drained /\ worker.pc = "step"
      BY <2>1, LoopFacts
    <2>3. CpFits(worker.cp)
      BY <2>2 DEF AtPc, Drained, DrainedBut, CpFits
    <2>4. PICK cp : cp = worker.cp
      OBVIOUS
    <2>5. UNCHANGED plans /\ Grown /\ RowsFit' /\ saved' = cp /\ CpFits(cp)
      BY <1>1, <1>2, <2>3, <2>4, RowsKept DEF Suspend
    <2>6. CpFits(cp)'
      BY <1>1, <2>5, CpFitsLater
    <2>7. CpFits(saved)'
      BY <2>5, <2>6 DEF CpFits, IsCheckpoint
    <2> QED
      BY <1>1, <1>2, <2>7, WorkerGone DEF Suspend
  <1>3. CASE Timeout
    <2>1. run' \in [status : {"running"} \union Terminal, result : {run'.result}] /\ run'.status = "timed_out"
      BY <1>1, <1>3 DEF Timeout, Terminal
    <2> QED
      BY <1>3, <2>1, WorkerGone DEF Timeout
  <1>4. CASE Crash
    <2>1. UNCHANGED <<plans, saved, run>> /\ worker' = Idle
      BY <1>4 DEF Crash
    <2> QED
      BY <1>1, <2>1, SavedLater, WorkerGone
  <1>5. CASE CompleteClaim
    <2>1. worker.pc = "finish" /\ worker.events = <<>> /\ UNCHANGED plans /\ worker' = Idle
      BY <1>5 DEF CompleteClaim, LoopAt
    <2>2. Stream(<<>>)
      BY <2>1 DEF PInv
    <2>3. AtEnd(<<>>)
      BY <2>2, Tuples DEF Stream, StreamRest, SaveRest, SaveFirst, ReflectRest, ReflectFirst, EndRest,
            Superseding, GivingUp, Creating, Starting, Completing, FailingStep, Closing, SavingLast
    <2>4. worker.outcome \in {"failed", "cancelled"} \/ Earned
      BY <2>1, <2>3 DEF AtEnd, LoopPcs
    <2>5. run' = [status |-> worker.outcome,
                  result |-> IF worker.outcome = "completed" THEN worker.cp.output ELSE NoOutput]
      BY <1>5 DEF CompleteClaim
    <2>6. /\ run'.status \in {"completed", "failed", "cancelled"} /\ run'.status = worker.outcome
          /\ run' \in [status : {"running"} \union Terminal, result : {run'.result}]
      BY <2>4, <2>5 DEF Earned, Terminal
    <2>7. run'.status = "completed" => plans # <<>> /\ LastRow.status = "completed" /\ run'.result.fit
      BY <2>4, <2>5, <2>6 DEF Earned
    <2> QED
      BY <2>1, <2>6, <2>7, WorkerGone
  <1> QED
    BY <1>2, <1>3, <1>4, <1>5

LEMMA ResumeStep ==
  ASSUME PInv, Resume
  PROVE  PInv'
  <1>1. /\ UNCHANGED <<plans, saved, contexts, run>> /\ run.status = "running" /\ worker.pc = "off"
        /\ RowsFit /\ CpFits(saved)
    BY DEF PInv, Resume
  <1>2. RowsFit' /\ CpFits(saved)'
    BY <1>1, RowsKept, SavedLater
  <1>3. PICK cp : cp = Reconciled(saved)
    OBVIOUS
  <1>4. PICK plan : plan = RestoredPlan(saved)
    OBVIOUS
  <1>5. PICK again : again = PlanningAgain(cp)
    OBVIOUS
  <1>6. PICK next : next = Executing(cp)
    OBVIOUS
  <1>7. /\ IsCheckpoint(cp) /\ cp.revision \in 0..Len(plans) /\ OthersDropped(cp.revision)
        /\ cp.state # "planning" => cp.revision # 0
        /\ cp.state = "planning" => plan = NoPlan
        /\ cp.state = "reflecting" => cp.decision \in Decisions
        /\ saved.state # "completed" => cp.state # "completed"
        /\ plan # NoPlan => cp.revision # 0 /\ plans[cp.revision].plan = plan
                            /\ plan \in Seq(Step) /\ ValidGraph(plan)
        /\ cp.revision # 0 =>
              /\ cp.done \subseteq CompletedSteps(plans[cp.revision])
              /\ plans[cp.revision].status = "active" =>
                    plan # NoPlan /\ CompletedSteps(plans[cp.revision]) \subseteq cp.done
              /\ plan = NoPlan => plans[cp.revision].status \in Dropped
    BY <1>1, <1>3, <1>4, Restored
  <1>8. PICK replans : replans = IF cp.revision > 0 THEN cp.revision - 1 ELSE 0
    OBVIOUS
  <1>9. PICK base : base = [Idle EXCEPT !.cp = cp, !.plan = plan, !.instruction = cp.instruction,
                                        !.replans = replans]
    OBVIOUS
  <1>10. base = [pc |-> "off", cp |-> cp, plan |-> plan, replans |-> replans,
                 instruction |-> cp.instruction, events |-> <<>>, outcome |-> "none"]
    BY <1>9 DEF Idle
  <1>11. worker' =
           CASE saved.state = "completed" ->
                  [base EXCEPT !.pc = "finish", !.cp = NewCheckpoint, !.outcome = "failed"]
             [] saved.state # "completed" /\ cp.state = "reflecting" /\ cp.decision = "fail" ->
                  [base EXCEPT !.pc = "finish", !.outcome = "failed"]
             [] saved.state # "completed" /\ cp.state = "reflecting" /\ cp.decision = "replan" ->
                  [base EXCEPT !.pc = "top", !.plan = NoPlan, !.cp = again,
                               !.events = <<PlanStatus(cp.revision, "superseded")>>]
             [] saved.state # "completed" /\ cp.state = "reflecting" /\ cp.decision = "retry" ->
                  [base EXCEPT !.pc = "top", !.cp = next]
             [] saved.state # "completed" /\ cp.state # "reflecting" ->
                  [base EXCEPT !.pc = "top"]
    BY <1>3, <1>4, <1>5, <1>6, <1>8, <1>9 DEF Resume
  <1>12. cp.instruction \in BOOLEAN
    BY <1>7, CheckpointHas
  <1>13. ASSUME WorkerShape', worker'.pc # "off", worker'.pc \in LoopPcs => AtPc', Stream(worker.events)',
                saved.state = "completed" => worker'.pc = "finish" /\ worker'.events = <<>>
         PROVE  PInv'
    BY <1>1, <1>2, <1>13 DEF PInv
  <1>14. CASE saved.state = "completed"
    <2>1. worker' = [base EXCEPT !.pc = "finish", !.cp = NewCheckpoint, !.outcome = "failed"]
      BY <1>11, <1>14
    <2>2. WorkerShape' /\ worker'.pc = "finish" /\ worker'.outcome = "failed" /\ worker'.events = <<>>
      BY <1>10, <1>12, <2>1 DEF WorkerShape
    <2>3. Stream(worker.events)'
      BY <2>2, FinishStream
    <2> QED
      BY <1>13, <2>2, <2>3 DEF LoopPcs
  <1>15. CASE saved.state # "completed" /\ cp.state = "reflecting" /\ cp.decision = "fail"
    <2>1. worker' = [base EXCEPT !.pc = "finish", !.outcome = "failed"]
      BY <1>11, <1>15
    <2>2. WorkerShape' /\ worker'.pc = "finish" /\ worker'.outcome = "failed" /\ worker'.events = <<>>
      BY <1>10, <1>12, <2>1 DEF WorkerShape
    <2>3. Stream(worker.events)'
      BY <2>2, FinishStream
    <2> QED
      BY <1>13, <1>15, <2>2, <2>3 DEF LoopPcs
  <1>16. CASE saved.state # "completed" /\ cp.state = "reflecting" /\ cp.decision = "replan"
    <2>1. again.state = "planning" /\ again.done = {} /\ again.revision = cp.revision /\ IsCheckpoint(again)
      BY <1>5, <1>7, PlanningIs
    <2>2. worker' = [base EXCEPT !.pc = "top", !.plan = NoPlan, !.cp = again,
                               !.events = <<PlanStatus(cp.revision, "superseded")>>]
      BY <1>11, <1>16
    <2>3. /\ WorkerShape' /\ worker'.pc = "top" /\ worker'.plan = NoPlan /\ worker'.cp = again
          /\ worker'.events = <<PlanStatus(again.revision, "superseded")>>
      BY <1>10, <1>12, <2>1, <2>2 DEF WorkerShape, LoopPcs
    <2>4. AtPc'
      BY <2>1, <2>3 DEF AtPc
    <2>5. again.revision \in DOMAIN plans
      BY <1>1, <1>7, <1>16, <2>1, RowsAre
    <2>6. Superseding(<<PlanStatus(again.revision, "superseded")>>)'
      BY <1>1, <1>7, <2>1, <2>3, <2>5 DEF Superseding, OthersDropped
    <2>7. Stream(worker.events)'
      BY <2>3, <2>6 DEF Stream, StreamRest, SaveRest, EndRest
    <2> QED
      BY <1>13, <1>16, <2>3, <2>4, <2>7
  <1>17. CASE saved.state # "completed" /\ cp.state = "reflecting" /\ cp.decision = "retry"
    <2>1. next.state = "executing" /\ next.done = cp.done /\ next.revision = cp.revision /\ IsCheckpoint(next)
      BY <1>6, <1>7, ExecutingIs
    <2>2. worker' = [base EXCEPT !.pc = "top", !.cp = next]
      BY <1>11, <1>17
    <2>3. /\ WorkerShape' /\ worker'.pc = "top" /\ worker'.plan = plan /\ worker'.cp = next
          /\ worker'.events = <<>> /\ worker'.pc \in LoopPcs
      BY <1>10, <1>12, <2>2 DEF WorkerShape, LoopPcs
    <2>4. AtPc'
      BY <1>7, <2>1, <2>3 DEF AtPc
    <2>5. Drained'
      BY <1>1, <1>7, <1>17, <2>1, <2>3 DEF Drained, DrainedBut, OthersDropped, CompletedSteps
    <2>6. Stream(worker.events)'
      BY <2>3, <2>5, DrainedStream
    <2> QED
      BY <1>13, <1>17, <2>3, <2>4, <2>6
  <1>18. CASE saved.state # "completed" /\ cp.state # "reflecting"
    <2>1. worker' = [base EXCEPT !.pc = "top"]
      BY <1>11, <1>18
    <2>2. /\ WorkerShape' /\ worker'.pc = "top" /\ worker'.plan = plan /\ worker'.cp = cp
          /\ worker'.events = <<>> /\ worker'.pc \in LoopPcs
      BY <1>10, <1>12, <2>1 DEF WorkerShape, LoopPcs
    <2>3. AtPc'
      BY <1>7, <1>18, <2>2 DEF AtPc
    <2>4. Drained'
      BY <1>1, <1>7, <2>2 DEF Drained, DrainedBut, OthersDropped, CompletedSteps
    <2>5. Stream(worker.events)'
      BY <2>2, <2>4, DrainedStream
    <2> QED
      BY <1>13, <1>18, <2>2, <2>3, <2>5
  <1> QED
    BY <1>7, <1>14, <1>15, <1>16, <1>17, <1>18 DEF Decisions


-----------------------------------------------------------------------------
(* One event of the stream is recorded.                                    *)

\* The event at the head of q is recorded, and the loop stays where it is.
Records(q) ==
    /\ q # <<>> /\ ~ Refused(Head(q)) /\ plans' = Project(Head(q))
    /\ saved' = IF Head(q).ev = "CHECKPOINT_SAVED" THEN Head(q).cp ELSE saved
    /\ UNCHANGED run

SameLoop ==
    /\ worker'.pc = worker.pc /\ worker'.cp = worker.cp
    /\ worker'.plan = worker.plan /\ worker'.outcome = worker.outcome

\* No status is changed, or a Plan is opened, or the last one is closed.
SameHistory == Len(plans') = Len(plans) /\ \A r \in DOMAIN plans : plans'[r].status = plans[r].status

HistoryMoves ==
    \/ SameHistory
    \/ /\ \A r \in DOMAIN plans : plans[r].status \in Dropped /\ plans'[r].status = plans[r].status
       /\ Len(plans') = Len(plans) + 1 /\ plans'[Len(plans) + 1].status = "active"
    \/ /\ plans # <<>> /\ LastRow.status = "active" /\ Len(plans') = Len(plans)
       /\ plans'[Len(plans)].status \in Dropped \union {"completed"}
       /\ \A r \in DOMAIN plans : r # Len(plans) => plans'[r].status = plans[r].status

\* Neither are the steps that are completed.
SameRows ==
    /\ Grown /\ SameHistory
    /\ \A r \in DOMAIN plans : CompletedSteps(plans'[r]) = CompletedSteps(plans[r])

LEMMA PlansKept ==
  ASSUME RowsFit, UNCHANGED plans
  PROVE  RowsFit' /\ SameRows
  BY RowsKept DEF SameRows, SameHistory

LEMMA DrainedKept ==
  ASSUME RowsFit, RowsFit', SameLoop, SameRows, NEW K, DrainedBut(K)
  PROVE  DrainedBut(K)'
  <1>1. DOMAIN plans = 1..Len(plans) /\ DOMAIN plans' = 1..Len(plans') /\ Len(plans) \in Nat
    BY DEF RowsFit
  <1>2. /\ Len(plans') = Len(plans) /\ DOMAIN plans' = DOMAIN plans
        /\ \A r \in DOMAIN plans :
              /\ plans'[r].plan = plans[r].plan /\ plans'[r].status = plans[r].status
              /\ CompletedSteps(plans'[r]) = CompletedSteps(plans[r])
    BY <1>1 DEF SameRows, SameHistory, Grown
  <1>3. worker.cp.revision # 0 => worker.cp.revision \in DOMAIN plans
    BY <1>1 DEF DrainedBut
  <1> QED
    BY <1>2, <1>3 DEF DrainedBut, OthersDropped, SameLoop, CompletedSteps

LEMMA EndRestKept ==
  ASSUME RowsFit, RowsFit', SameLoop, SameRows, NEW q, EndRest(q)
  PROVE  EndRest(q)'
  <1>1. DOMAIN plans = 1..Len(plans) /\ DOMAIN plans' = 1..Len(plans') /\ Len(plans) \in Nat
    BY DEF RowsFit
  <1>2. /\ Len(plans') = Len(plans) /\ DOMAIN plans' = DOMAIN plans
        /\ \A r \in DOMAIN plans : plans'[r].status = plans[r].status
    BY <1>1 DEF SameRows, SameHistory
  <1>3. CASE AtEnd(q)
    <2>1. Drained => Drained'
      BY DrainedKept DEF Drained
    <2>2. Earned => Earned'
      <3>1. plans # <<>> => Len(plans) \in DOMAIN plans /\ plans' # <<>>
        BY <1>1, <1>2, RowsAre
      <3> QED
        BY <1>2, <3>1 DEF Earned, LastRow, SameLoop
    <2> QED
      BY <1>3, <2>1, <2>2 DEF AtEnd, SameLoop, EndRest
  <1>4. CASE Superseding(q)
    BY <1>2, <1>4 DEF Superseding, OthersDropped, SameLoop, EndRest
  <1>5. CASE GivingUp(q)
    BY <1>2, <1>5 DEF GivingUp, OthersDropped, SameLoop, EndRest
  <1> QED
    BY <1>3, <1>4, <1>5 DEF EndRest

LEMMA SaveFirstKept ==
  ASSUME RowsFit, RowsFit', Grown, NEW q, SaveFirst(q)
  PROVE  SaveFirst(q)'
  <1>1. PICK cp : cp = Head(q).cp
    OBVIOUS
  <1>2. CpFits(cp)'
    BY <1>1, CpFitsLater DEF SaveFirst
  <1> QED
    BY <1>1, <1>2 DEF SaveFirst

LEMMA StreamKept ==
  ASSUME RowsFit, RowsFit', UNCHANGED plans, SameLoop, NEW q, StreamRest(q)
  PROVE  StreamRest(q)'
  <1>1. SameRows /\ Grown
    BY PlansKept DEF SameRows
  <1>2. CASE SaveRest(q)
    BY <1>1, <1>2, EndRestKept, SaveFirstKept DEF SaveRest, StreamRest
  <1>3. CASE ReflectRest(q)
    <2>1. ReflectFirst(q)'
      BY <1>3 DEF ReflectRest, ReflectFirst
    <2> QED
      BY <1>1, <1>3, <2>1, EndRestKept, SaveFirstKept DEF ReflectRest, StreamRest
  <1>4. CASE Creating(q)
    BY <1>4 DEF Creating, SameLoop, StreamRest
  <1>5. CASE Starting(q)
    BY <1>1, <1>5, DrainedKept DEF Starting, Drained, SameLoop, StreamRest
  <1>6. CASE Completing(q)
    <2>1. PICK cp : cp = worker.cp
      OBVIOUS
    <2>2. PICK k \in cp.done :
             /\ DrainedBut({k}) /\ Runnable(worker.plan, k, CompletedSteps(plans[cp.revision]))
             /\ cp.output \in Outputs
             /\ q = <<StepCompleted(cp.revision, k, cp.output), Save(cp)>>
      BY <1>6, <2>1 DEF Completing
    <2>3. DrainedBut({k})'
      BY <1>1, <2>2, DrainedKept
    <2>4. CompletedSteps(plans[cp.revision])' = CompletedSteps(plans[cp.revision])
      BY DEF CompletedSteps
    <2>5. Completing(q)'
      BY <1>6, <2>1, <2>2, <2>3, <2>4 DEF Completing, SameLoop, Runnable
    <2> QED
      BY <2>5 DEF StreamRest
  <1>7. CASE FailingStep(q)
    BY <1>1, <1>7, DrainedKept DEF FailingStep, Drained, SameLoop, StreamRest, StepKeys
  <1>8. CASE Closing(q)
    BY <1>8 DEF Closing, OthersDropped, SameLoop, StreamRest, CompletedSteps, StepKeys, IsCheckpoint
  <1>9. CASE SavingLast(q)
    <2>1. PICK cp : cp = worker.cp
      OBVIOUS
    <2>2. CpFits(cp)'
      BY <1>1, <1>9, <2>1, CpFitsLater DEF SavingLast
    <2>3. CpFits(worker.cp)'
      BY <2>1, <2>2 DEF SameLoop, CpFits, IsCheckpoint
    <2>4. Earned'
      BY <1>9 DEF SavingLast, Earned, LastRow, SameLoop
    <2> QED
      BY <1>9, <2>3, <2>4 DEF SavingLast, SameLoop, StreamRest
  <1> QED
    BY <1>2, <1>3, <1>4, <1>5, <1>6, <1>7, <1>8, <1>9 DEF StreamRest

\* The events that change no row.
LEMMA NoProjection ==
  ASSUME NEW q, Records(q), Head(q).ev \in {"CONTEXT_SNAPSHOT_CREATED", "CHECKPOINT_SAVED"}
  PROVE  UNCHANGED plans
  BY DEF Records, Project

LEMMA RecordContext ==
  ASSUME PInv, NEW q, Records(q), SameLoop, Head(q).ev = "CONTEXT_SNAPSHOT_CREATED", StreamRest(Tail(q))
  PROVE  /\ RowsFit' /\ Grown /\ HistoryMoves /\ Stream(Tail(q))' /\ UNCHANGED saved
  <1>1. UNCHANGED <<plans, saved>> /\ RowsFit
    BY NoProjection DEF Records, PInv
  <1>2. RowsFit' /\ SameRows
    BY <1>1, PlansKept
  <1>3. StreamRest(Tail(q))'
    BY <1>1, <1>2, StreamKept
  <1> QED
    BY <1>1, <1>2, <1>3 DEF SameRows, HistoryMoves, Stream

LEMMA RecordSave ==
  ASSUME PInv, NEW q, Records(q), SameLoop, SaveFirst(q), EndRest(Tail(q))
  PROVE  /\ RowsFit' /\ Grown /\ HistoryMoves /\ Stream(Tail(q))' /\ CpFits(saved)' /\ saved'.state # "completed"
  <1>1. UNCHANGED plans /\ saved' = Head(q).cp /\ RowsFit
    BY NoProjection DEF Records, PInv, SaveFirst
  <1>2. RowsFit' /\ SameRows /\ Grown
    BY <1>1, PlansKept DEF SameRows
  <1>3. EndRest(Tail(q))'
    BY <1>1, <1>2, EndRestKept
  <1>4. SaveFirst(q)'
    BY <1>1, <1>2, SaveFirstKept
  <1>5. CpFits(saved)'
    BY <1>1, <1>4 DEF SaveFirst, CpFits, IsCheckpoint
  <1> QED
    BY <1>1, <1>2, <1>3, <1>5 DEF SameRows, HistoryMoves, Stream, StreamRest, SaveRest, SaveFirst

LEMMA RecordReflection ==
  ASSUME PInv, NEW q, Records(q), SameLoop, ReflectRest(q)
  PROVE  /\ RowsFit' /\ Grown /\ HistoryMoves /\ Stream(Tail(q))' /\ UNCHANGED saved
  <1>1. PICK rev \in DOMAIN plans, decision \in Decisions : Head(q) = Reflected(rev, decision)
    BY DEF ReflectRest, ReflectFirst
  <1>2. Head(q).ev = "REFLECTION" /\ Head(q).rev = rev /\ Head(q).decision = decision
    BY <1>1 DEF Reflected
  <1>3. plans' = [plans EXCEPT ![rev].decisions = Append(@, decision)] /\ UNCHANGED saved /\ RowsFit
    BY <1>2 DEF Records, Project, PInv
  <1>4. RowsFit' /\ Grown /\ SameRows
    BY <1>3, DecisionAdded DEF SameRows, SameHistory
  <1>5. SaveFirst(Tail(q))' /\ EndRest(Tail(Tail(q)))'
    BY <1>3, <1>4, SaveFirstKept, EndRestKept DEF ReflectRest
  <1> QED
    BY <1>3, <1>4, <1>5 DEF SameRows, HistoryMoves, Stream, StreamRest, SaveRest

\* A Plan that is closed already, or that is closed now.
LEMMA RecordStatus ==
  ASSUME PInv, NEW q, Records(q), NEW rev \in DOMAIN plans, NEW status \in Dropped \union {"completed"},
         Head(q) = PlanStatus(rev, status), OthersDropped(rev),
         status = "completed" => CompletedSteps(plans[rev]) = StepKeys(plans[rev].plan)
  PROVE  /\ RowsFit' /\ Grown /\ HistoryMoves /\ UNCHANGED saved /\ Len(plans') = Len(plans)
         /\ plans'[rev].status = status /\ OthersDropped(rev)' /\ (status = "completed" => rev = Len(plans))
  <1>1. Head(q).ev = "PLAN_STATUS_CHANGED" /\ Head(q).rev = rev /\ Head(q).status = status /\ RowsFit
    BY DEF PlanStatus, PInv
  <1>2. plans[rev].status \in {"active", status} /\ plans' = ProjectPlanStatus(Head(q)) /\ UNCHANGED saved
    BY <1>1 DEF Records, Refused, Project
  <1>3. CASE plans[rev].status = status
    <2>1. UNCHANGED plans
      BY <1>1, <1>2, <1>3 DEF ProjectPlanStatus
    <2>2. status = "completed" => rev = Len(plans)
      BY <1>1, <1>3 DEF RowsFit, Dropped
    <2> QED
      BY <1>1, <1>2, <1>3, <2>1, <2>2, PlansKept DEF SameRows, HistoryMoves, OthersDropped
  <1>4. CASE plans[rev].status = "active"
    <2>1. /\ RowsFit' /\ Grown /\ Len(plans') = Len(plans) /\ rev = Len(plans)
          /\ plans'[rev].status = status /\ \A r \in DOMAIN plans : r # rev => plans'[r] = plans[r]
      BY <1>1, <1>2, <1>4, PlanClosed
    <2>2. DOMAIN plans' = DOMAIN plans /\ plans # <<>>
      BY <1>1, <2>1 DEF RowsFit
    <2> QED
      BY <1>2, <1>4, <2>1, <2>2 DEF HistoryMoves, LastRow, OthersDropped
  <1> QED
    BY <1>2, <1>3, <1>4

LEMMA RecordSuperseding ==
  ASSUME PInv, NEW q, Records(q), SameLoop, Superseding(q)
  PROVE  /\ RowsFit' /\ Grown /\ HistoryMoves /\ Stream(Tail(q))' /\ UNCHANGED saved
  <1>1. PICK cp : cp = worker.cp
    OBVIOUS
  <1>2. /\ worker.pc = "top" /\ worker.plan = NoPlan /\ cp.state = "planning" /\ cp.done = {}
        /\ cp.revision \in DOMAIN plans /\ OthersDropped(cp.revision)
        /\ \/ q = <<PlanStatus(cp.revision, "superseded")>>
           \/ q = <<PlanStatus(cp.revision, "superseded"), Save(cp)>>
    BY <1>1 DEF Superseding
  <1>3. Head(q) = PlanStatus(cp.revision, "superseded") /\ Tail(q) \in {<<>>, <<Save(cp)>>}
    <2>1. PICK a, b : a = PlanStatus(cp.revision, "superseded") /\ b = Save(cp)
      OBVIOUS
    <2>2. q = <<a>> \/ q = <<a, b>>
      BY <1>2, <2>1
    <2>3. CASE q = <<a>>
      BY <2>1, <2>3, Tuples
    <2>4. CASE q = <<a, b>>
      BY <2>1, <2>4, Tuples
    <2> QED
      BY <2>2, <2>3, <2>4
  <1>4. /\ RowsFit' /\ Grown /\ HistoryMoves /\ UNCHANGED saved /\ Len(plans') = Len(plans)
        /\ plans'[cp.revision].status = "superseded" /\ OthersDropped(cp.revision)'
    BY <1>2, <1>3, RecordStatus DEF Dropped
  <1>5. IsCheckpoint(cp) /\ cp.revision \in 0..Len(plans') /\ RowsFit
    BY <1>1, <1>2, <1>4 DEF PInv, AtPc, LoopPcs, RowsFit
  <1>6. Drained'
    BY <1>1, <1>2, <1>4, <1>5 DEF Drained, DrainedBut, SameLoop, Dropped
  <1>7. CpFits(cp)'
    BY <1>2, <1>4, <1>5 DEF CpFits, Dropped, IsCheckpoint
  <1>8. worker'.pc \in LoopPcs
    BY <1>2 DEF SameLoop, LoopPcs
  <1>9. CASE Tail(q) = <<>>
    BY <1>4, <1>6, <1>8, <1>9, DrainedStream
  <1>10. CASE Tail(q) = <<Save(cp)>>
    BY <1>2, <1>4, <1>6, <1>7, <1>8, <1>10, SaveStream DEF Stream
  <1> QED
    BY <1>3, <1>9, <1>10

LEMMA RecordGivingUp ==
  ASSUME PInv, NEW q, Records(q), SameLoop, GivingUp(q)
  PROVE  /\ RowsFit' /\ Grown /\ HistoryMoves /\ Stream(Tail(q))' /\ UNCHANGED saved
  <1>1. PICK rev \in DOMAIN plans : OthersDropped(rev) /\ q = <<PlanStatus(rev, "failed")>>
    BY DEF GivingUp
  <1>2. Head(q) = PlanStatus(rev, "failed") /\ Tail(q) = <<>>
    BY <1>1, Tuples
  <1>3. RowsFit' /\ Grown /\ HistoryMoves /\ UNCHANGED saved
    BY <1>1, <1>2, RecordStatus DEF Dropped
  <1>4. Stream(Tail(q))'
    BY <1>2, FinishStream DEF GivingUp, SameLoop
  <1> QED
    BY <1>3, <1>4

LEMMA RecordClosing ==
  ASSUME PInv, NEW q, Records(q), SameLoop, Closing(q)
  PROVE  /\ RowsFit' /\ Grown /\ HistoryMoves /\ Stream(Tail(q))' /\ UNCHANGED saved
  <1>1. PICK cp : cp = worker.cp
    OBVIOUS
  <1>2. /\ worker.pc = "finish" /\ worker.outcome = "completed"
        /\ IsCheckpoint(cp) /\ cp.state = "completed" /\ cp.output.fit
        /\ cp.revision \in DOMAIN plans /\ OthersDropped(cp.revision)
        /\ cp.done \subseteq CompletedSteps(plans[cp.revision])
        /\ CompletedSteps(plans[cp.revision]) = StepKeys(plans[cp.revision].plan)
        /\ q = <<PlanStatus(cp.revision, "completed"), Save(cp)>>
    BY <1>1 DEF Closing
  <1>3. Head(q) = PlanStatus(cp.revision, "completed") /\ Tail(q) = <<Save(cp)>>
    BY <1>2, Tuples
  <1>4. /\ RowsFit' /\ Grown /\ HistoryMoves /\ UNCHANGED saved /\ Len(plans') = Len(plans)
        /\ plans'[cp.revision].status = "completed" /\ cp.revision = Len(plans) /\ RowsFit
    BY <1>2, <1>3, RecordStatus DEF PInv
  <1>5. plans' # <<>> /\ LastRow'.status = "completed" /\ cp.revision \in Nat \ {0}
    BY <1>2, <1>4 DEF LastRow, RowsFit
  <1>6. Earned'
    BY <1>1, <1>2, <1>5 DEF Earned, SameLoop
  <1>7. cp.done \subseteq CompletedSteps(plans[cp.revision])'
    BY <1>2, <1>4 DEF Grown, CompletedSteps
  <1>8. CpFits(cp)'
    <2>1. cp.revision \in 0..Len(plans')
      BY <1>4, <1>5
    <2> QED
      BY <1>2, <1>5, <1>7, <2>1 DEF CpFits, CompletedSteps, IsCheckpoint
  <1>9. worker'.cp = cp
    BY <1>1 DEF SameLoop
  <1>10. CpFits(worker.cp)'
    BY <1>8, <1>9 DEF CpFits, IsCheckpoint
  <1>11. SavingLast(Tail(q))'
    BY <1>3, <1>6, <1>9, <1>10 DEF SavingLast
  <1> QED
    BY <1>4, <1>11 DEF Stream, StreamRest

LEMMA RecordLast ==
  ASSUME PInv, NEW q, Records(q), SameLoop, SavingLast(q)
  PROVE  /\ RowsFit' /\ Grown /\ HistoryMoves /\ Stream(Tail(q))' /\ CpFits(saved)'
         /\ worker'.pc = "finish" /\ Tail(q) = <<>>
  <1>1. PICK cp : cp = worker.cp
    OBVIOUS
  <1>2. Earned /\ CpFits(cp) /\ q = <<Save(cp)>>
    BY <1>1 DEF SavingLast
  <1>3. Head(q) = Save(cp) /\ Tail(q) = <<>> /\ Head(q).ev = "CHECKPOINT_SAVED" /\ Head(q).cp = cp
    BY <1>2, Tuples DEF Save
  <1>4. UNCHANGED plans /\ saved' = cp /\ RowsFit
    BY <1>3, NoProjection DEF Records, PInv
  <1>5. RowsFit' /\ SameRows /\ Grown
    BY <1>4, PlansKept DEF SameRows
  <1>6. CpFits(cp)'
    BY <1>2, <1>4, <1>5, CpFitsLater
  <1>7. CpFits(saved)'
    BY <1>4, <1>6 DEF CpFits, IsCheckpoint
  <1>8. EndRest(<<>>)'
    BY <1>2, <1>4, <1>5, EndRestKept DEF EndRest, AtEnd
  <1> QED
    BY <1>2, <1>3, <1>5, <1>7, <1>8 DEF SameRows, HistoryMoves, Stream, StreamRest, SaveRest, Earned, SameLoop


\* The step k of the Plan r is completed now.
StepIsDone(r, k) == CompletedSteps(plans'[r]) = CompletedSteps(plans[r]) \union {k}

\* A step is started, completed or set back.
Rewritten(e, old) ==
    CASE e.ev = "PLAN_STEP_STARTED" -> [old EXCEPT !.status = "running"]
      [] e.ev = "PLAN_STEP_COMPLETED" -> [status |-> "completed", output |-> e.output]
      [] e.ev = "PLAN_STEP_FAILED" -> [status |-> "pending", output |-> NoOutput]

LEMMA RecordStepEvent ==
  ASSUME PInv, NEW q, Records(q), NEW r \in DOMAIN plans, NEW k \in StepKeys(plans[r].plan), NEW new \in StepRow,
         NEW e, e = Head(q), e.rev = r, e.key = k,
         e.ev \in {"PLAN_STEP_STARTED", "PLAN_STEP_COMPLETED", "PLAN_STEP_FAILED"},
         new = Rewritten(e, plans[r].steps[k]),
         new.status # "pending" => Runnable(plans[r].plan, k, CompletedSteps(plans[r]))
  PROVE  /\ RowsFit' /\ Grown /\ HistoryMoves /\ UNCHANGED saved /\ Len(plans') = Len(plans)
         /\ plans[r].status = "active" /\ r = Len(plans)
         /\ \A s \in DOMAIN plans : plans'[s].status = plans[s].status
         /\ new.status = "completed" => StepIsDone(r, k)
         /\ new.status # "completed" => CompletedSteps(plans'[r]) = CompletedSteps(plans[r])
  <1>1. RowsFit
    BY DEF PInv
  <1>2. plans[r].steps[k].status \notin {"completed", "failed"} /\ UNCHANGED saved
    BY <1>1 DEF Records, Refused
  <1>3. plans' = ProjectStep(e)
    BY <1>1 DEF Records, Project
  <1>4. StepWrites(r, k, new)
    BY <1>3 DEF ProjectStep, Rewritten, StepWrites
  <1>5. plans[r].steps \in [StepKeys(plans[r].plan) -> StepRow]
    BY <1>1, RowsAre
  <1>6. new.status # "failed"
    BY <1>5 DEF StepRow, Rewritten
  <1>7. plans[r].steps[k].status \notin {"completed", "failed"} /\ new.status # "failed"
        /\ (new.status # "pending" => Runnable(plans[r].plan, k, CompletedSteps(plans[r])))
    BY <1>2, <1>6
  <1>8. /\ RowsFit' /\ Grown /\ Len(plans') = Len(plans) /\ plans[r].status = "active" /\ r = Len(plans)
        /\ \A s \in DOMAIN plans : plans'[s].status = plans[s].status
        /\ new.status = "completed" => StepIsDone(r, k)
        /\ new.status # "completed" => CompletedSteps(plans'[r]) = CompletedSteps(plans[r])
    BY <1>1, <1>4, <1>7, StepWritten DEF StepIsDone
  <1> QED
    BY <1>2, <1>8 DEF HistoryMoves, SameHistory

LEMMA RecordStarting ==
  ASSUME PInv, NEW q, Records(q), SameLoop, Starting(q)
  PROVE  /\ RowsFit' /\ Grown /\ HistoryMoves /\ Stream(Tail(q))' /\ UNCHANGED saved
  <1>1. PICK cp : cp = worker.cp
    OBVIOUS
  <1>2. PICK k : k = cp.step.key
    OBVIOUS
  <1>3. worker.pc = "step" /\ Drained /\ RowsFit /\ q = <<StepStarted(cp.revision, k)>>
    BY <1>1, <1>2 DEF PInv, Starting
  <1>4. AtPc /\ worker.plan # NoPlan /\ Runnable(worker.plan, k, cp.done)
    BY <1>1, <1>2, <1>3 DEF PInv, AtPc, LoopPcs
  <1>5. PICK r : r = cp.revision
    OBVIOUS
  <1>6. r \in DOMAIN plans /\ plans[r].plan = worker.plan /\ cp.done \subseteq CompletedSteps(plans[r])
    BY <1>1, <1>3, <1>4, <1>5, RowsAre DEF Drained, DrainedBut
  <1>7. Runnable(plans[r].plan, k, CompletedSteps(plans[r]))
    BY <1>4, <1>6 DEF Runnable
  <1>8. k \in StepKeys(plans[r].plan)
    BY <1>7 DEF Runnable, StepKeys
  <1>9. PICK new : new = [plans[r].steps[k] EXCEPT !.status = "running"]
    OBVIOUS
  <1>10. plans[r].steps[k] \in StepRow
    BY <1>3, <1>6, <1>8, RowsAre
  <1>11. new \in StepRow /\ new.status = "running"
    BY <1>9, <1>10 DEF StepRow, StepStatus
  <1>12. PICK e : e = StepStarted(r, k)
    OBVIOUS
  <1>13. Head(q) = e /\ Tail(q) = <<>> /\ e.ev = "PLAN_STEP_STARTED" /\ e.rev = r /\ e.key = k
    BY <1>3, <1>5, <1>12, Tuples DEF StepStarted
  <1>14. /\ RowsFit' /\ Grown /\ HistoryMoves /\ UNCHANGED saved /\ Len(plans') = Len(plans)
         /\ \A s \in DOMAIN plans : plans'[s].status = plans[s].status
         /\ CompletedSteps(plans'[r]) = CompletedSteps(plans[r])
    <2>1. new = Rewritten(e, plans[r].steps[k])
      BY <1>9, <1>13 DEF Rewritten
    <2> QED
      BY <1>6, <1>7, <1>8, <1>11, <1>13, <2>1, RecordStepEvent
  <1>15. DOMAIN plans' = DOMAIN plans /\ plans'[r].plan = plans[r].plan
    BY <1>3, <1>6, <1>14 DEF RowsFit, Grown
  <1>16. CompletedSteps(plans[r])' = CompletedSteps(plans'[r])
    BY DEF CompletedSteps
  <1>17. Drained'
    BY <1>1, <1>3, <1>4, <1>5, <1>6, <1>14, <1>15, <1>16 DEF Drained, DrainedBut, OthersDropped, SameLoop
  <1>18. Stream(Tail(q))'
    BY <1>3, <1>13, <1>17, DrainedStream DEF SameLoop, LoopPcs
  <1> QED
    BY <1>14, <1>18

LEMMA RecordFailing ==
  ASSUME PInv, NEW q, Records(q), SameLoop, FailingStep(q)
  PROVE  /\ RowsFit' /\ Grown /\ HistoryMoves /\ Stream(Tail(q))' /\ UNCHANGED saved
  <1>1. PICK cp : cp = worker.cp
    OBVIOUS
  <1>2. PICK k \in StepKeys(worker.plan) : q = <<StepFailed(cp.revision, k)>>
    BY <1>1 DEF FailingStep
  <1>3. worker.pc = "reflectStep" /\ Drained /\ RowsFit
    BY DEF PInv, FailingStep
  <1>4. worker.plan # NoPlan
    BY <1>3 DEF PInv, AtPc, LoopPcs
  <1>5. PICK r : r = cp.revision
    OBVIOUS
  <1>6. r \in DOMAIN plans /\ plans[r].plan = worker.plan /\ cp.done \subseteq CompletedSteps(plans[r])
    BY <1>1, <1>3, <1>4, <1>5, RowsAre DEF Drained, DrainedBut
  <1>7. PICK new : new = [status |-> "pending", output |-> NoOutput]
    OBVIOUS
  <1>8. new \in StepRow /\ new.status = "pending"
    BY <1>7 DEF StepRow, StepStatus
  <1>9. PICK e : e = StepFailed(r, k)
    OBVIOUS
  <1>10. Head(q) = e /\ Tail(q) = <<>> /\ e.ev = "PLAN_STEP_FAILED" /\ e.rev = r /\ e.key = k
    BY <1>2, <1>5, <1>9, Tuples DEF StepFailed
  <1>11. /\ RowsFit' /\ Grown /\ HistoryMoves /\ UNCHANGED saved /\ Len(plans') = Len(plans)
         /\ \A s \in DOMAIN plans : plans'[s].status = plans[s].status
         /\ CompletedSteps(plans'[r]) = CompletedSteps(plans[r])
    <2>1. new = Rewritten(e, plans[r].steps[k])
      BY <1>7, <1>10 DEF Rewritten
    <2> QED
      BY <1>2, <1>6, <1>8, <1>10, <2>1, RecordStepEvent
  <1>12. DOMAIN plans' = DOMAIN plans /\ plans'[r].plan = plans[r].plan
    BY <1>3, <1>6, <1>11 DEF RowsFit, Grown
  <1>13. CompletedSteps(plans[r])' = CompletedSteps(plans'[r])
    BY DEF CompletedSteps
  <1>14. Drained'
    BY <1>1, <1>3, <1>4, <1>5, <1>6, <1>11, <1>12, <1>13 DEF Drained, DrainedBut, OthersDropped, SameLoop
  <1>15. Stream(Tail(q))'
    BY <1>3, <1>10, <1>14, DrainedStream DEF SameLoop, LoopPcs
  <1> QED
    BY <1>11, <1>15

LEMMA RecordCompleting ==
  ASSUME PInv, NEW q, Records(q), SameLoop, Completing(q)
  PROVE  /\ RowsFit' /\ Grown /\ HistoryMoves /\ Stream(Tail(q))' /\ UNCHANGED saved
  <1>1. PICK cp : cp = worker.cp
    OBVIOUS
  <1>2. PICK k \in cp.done :
           /\ DrainedBut({k}) /\ Runnable(worker.plan, k, CompletedSteps(plans[cp.revision]))
           /\ cp.output \in Outputs
           /\ q = <<StepCompleted(cp.revision, k, cp.output), Save(cp)>>
    BY <1>1 DEF Completing
  <1>3. /\ worker.pc = "top" /\ cp.state = "executing" /\ worker.plan # NoPlan /\ RowsFit
        /\ IsCheckpoint(cp)
    BY <1>1 DEF PInv, Completing, AtPc, LoopPcs
  <1>4. PICK r : r = cp.revision
    OBVIOUS
  <1>5. r \in DOMAIN plans /\ plans[r].plan = worker.plan /\ cp.done \subseteq CompletedSteps(plans[r]) \union {k}
        /\ OthersDropped(r) /\ (plans[r].status = "active" => CompletedSteps(plans[r]) \subseteq cp.done)
    BY <1>1, <1>2, <1>3, <1>4, RowsAre DEF DrainedBut
  <1>6. k \in StepKeys(plans[r].plan) /\ Runnable(plans[r].plan, k, CompletedSteps(plans[r]))
    BY <1>2, <1>4, <1>5 DEF Runnable, StepKeys
  <1>7. PICK new : new = [status |-> "completed", output |-> cp.output]
    OBVIOUS
  <1>8. new \in StepRow /\ new.status = "completed"
    BY <1>2, <1>7 DEF StepRow, StepStatus
  <1>9. PICK e : e = StepCompleted(r, k, cp.output)
    OBVIOUS
  <1>10. /\ Head(q) = e /\ Tail(q) = <<Save(cp)>> /\ e.ev = "PLAN_STEP_COMPLETED" /\ e.rev = r /\ e.key = k
         /\ e.output = cp.output
    BY <1>2, <1>4, <1>9, Tuples DEF StepCompleted
  <1>11. /\ RowsFit' /\ Grown /\ HistoryMoves /\ UNCHANGED saved /\ Len(plans') = Len(plans)
         /\ \A s \in DOMAIN plans : plans'[s].status = plans[s].status
         /\ CompletedSteps(plans'[r]) = CompletedSteps(plans[r]) \union {k}
    <2>1. e.ev = "PLAN_STEP_COMPLETED" /\ new = Rewritten(e, plans[r].steps[k])
      BY <1>7, <1>10 DEF Rewritten
    <2>2. /\ RowsFit' /\ Grown /\ HistoryMoves /\ UNCHANGED saved /\ Len(plans') = Len(plans)
          /\ \A s \in DOMAIN plans : plans'[s].status = plans[s].status
          /\ new.status = "completed" => StepIsDone(r, k)
      <3>1. /\ r \in DOMAIN plans /\ k \in StepKeys(plans[r].plan) /\ new \in StepRow
            /\ e = Head(q) /\ e.rev = r /\ e.key = k /\ new = Rewritten(e, plans[r].steps[k])
            /\ e.ev \in {"PLAN_STEP_STARTED", "PLAN_STEP_COMPLETED", "PLAN_STEP_FAILED"}
            /\ Runnable(plans[r].plan, k, CompletedSteps(plans[r]))
        BY <1>5, <1>6, <1>8, <1>10, <2>1
      <3> QED
        BY <3>1, RecordStepEvent
    <2> QED
      BY <1>8, <2>2 DEF StepIsDone
  <1>12. DOMAIN plans' = DOMAIN plans /\ plans'[r].plan = plans[r].plan
    BY <1>3, <1>5, <1>11 DEF RowsFit, Grown
  <1>13. CompletedSteps(plans[r])' = CompletedSteps(plans'[r])
    BY DEF CompletedSteps
  <1>14. cp.revision \in 0..Len(plans') /\ cp.revision # 0
    BY <1>3, <1>4, <1>5, <1>11, RowsAre
  <1>15. Drained'
    BY <1>1, <1>2, <1>3, <1>4, <1>5, <1>11, <1>12, <1>13, <1>14
       DEF Drained, DrainedBut, OthersDropped, SameLoop
  <1>16. CpFits(cp)'
    BY <1>3, <1>4, <1>5, <1>11, <1>13, <1>14 DEF CpFits, IsCheckpoint
  <1>17. StreamRest(Tail(q))'
    BY <1>3, <1>10, <1>15, <1>16, SaveStream DEF SameLoop, LoopPcs
  <1> QED
    BY <1>11, <1>17 DEF Stream

LEMMA RecordCreating ==
  ASSUME PInv, NEW q, Records(q), SameLoop, Creating(q)
  PROVE  /\ RowsFit' /\ Grown /\ HistoryMoves /\ Stream(Tail(q))' /\ UNCHANGED saved
  <1>1. PICK cp : cp = worker.cp
    OBVIOUS
  <1>2. PICK plan : plan = worker.plan
    OBVIOUS
  <1>3. /\ worker.pc = "top" /\ plan # NoPlan /\ cp.revision \in 1..(Len(plans) + 1)
        /\ cp.state = "executing" /\ cp.done = {} /\ \A r \in DOMAIN plans : plans[r].status \in Dropped
        /\ q = <<PlanCreated(cp.revision, plan), Save(cp)>>
    BY <1>1, <1>2 DEF Creating
  <1>4. IsCheckpoint(cp) /\ plan \in Seq(Step) /\ ValidGraph(plan) /\ RowsFit
    BY <1>1, <1>2, <1>3 DEF PInv, AtPc, LoopPcs
  <1>5. PICK r : r = cp.revision
    OBVIOUS
  <1>6. PICK e : e = PlanCreated(r, plan)
    OBVIOUS
  <1>7. Head(q) = e /\ Tail(q) = <<Save(cp)>> /\ e.ev = "PLAN_CREATED" /\ e.rev = r /\ e.plan = plan
    BY <1>3, <1>5, <1>6, Tuples DEF PlanCreated
  <1>8. plans' = ProjectPlanCreated(e) /\ UNCHANGED saved /\ (r \in DOMAIN plans => plans[r].plan = plan)
    BY <1>7 DEF Records, Refused, Project
  <1>9. /\ RowsFit' /\ Grown /\ HistoryMoves /\ r \in DOMAIN plans' /\ plans'[r].plan = plan
        /\ \A s \in DOMAIN plans' : s # r => plans'[s].status \in Dropped
        /\ plans'[r].status = "active" => CompletedSteps(plans'[r]) = {}
    <2>1. CASE r \in DOMAIN plans
      <3>1. UNCHANGED plans
        BY <1>7, <1>8, <2>1 DEF ProjectPlanCreated
      <3> QED
        BY <1>3, <1>4, <1>8, <2>1, <3>1, PlansKept DEF SameRows, HistoryMoves, Dropped
    <2>2. CASE r \notin DOMAIN plans
      <3>1. plans' = Append(plans, NewRow(plan)) /\ r = Len(plans) + 1
        BY <1>3, <1>4, <1>5, <1>7, <1>8, <2>2, RowsAre DEF ProjectPlanCreated
      <3>2. /\ RowsFit' /\ Grown /\ Len(plans') = Len(plans) + 1
            /\ \A s \in DOMAIN plans : plans'[s] = plans[s]
            /\ plans'[r].status = "active" /\ plans'[r].plan = plan
            /\ CompletedSteps(plans'[r]) = {}
        BY <1>3, <1>4, <3>1, PlanAdded
      <3>3. DOMAIN plans' = DOMAIN plans \union {r} /\ r \in DOMAIN plans'
        BY <1>4, <3>1, <3>2, RowsAre DEF RowsFit
      <3>4. \A s \in DOMAIN plans' : s # r => plans'[s].status \in Dropped
        BY <1>3, <3>2, <3>3
      <3> QED
        BY <1>3, <3>1, <3>2, <3>3, <3>4 DEF HistoryMoves
    <2> QED
      BY <2>1, <2>2
  <1>10. CompletedSteps(plans[r])' = CompletedSteps(plans'[r])
    BY DEF CompletedSteps
  <1>11. cp.revision \in 0..Len(plans') /\ cp.revision # 0
    BY <1>3, <1>5, <1>9 DEF RowsFit
  <1>12. Drained'
    BY <1>1, <1>2, <1>3, <1>5, <1>9, <1>10, <1>11 DEF Drained, DrainedBut, OthersDropped, SameLoop
  <1>13. CpFits(cp)'
    BY <1>3, <1>4, <1>11 DEF CpFits, IsCheckpoint
  <1>14. StreamRest(Tail(q))'
    BY <1>3, <1>7, <1>12, <1>13, SaveStream DEF SameLoop, LoopPcs
  <1> QED
    BY <1>8, <1>9, <1>14 DEF Stream

LEMMA RecordStep ==
  ASSUME PInv, Record
  PROVE  PInv' /\ (UNCHANGED plans \/ (RowsFit' /\ HistoryMoves))
  <1>1. PICK q : q = worker.events
    OBVIOUS
  <1>2. q # <<>> /\ worker.pc # "off" /\ run.status = "running" /\ RowsFit /\ Stream(q)
        /\ CpFits(saved) /\ saved.state # "completed"
    BY <1>1 DEF Record, PInv, Idle
  <1>3. CASE Refused(Head(q))
    <2>1. run' = [run EXCEPT !.status = "failed"] /\ worker' = Idle /\ UNCHANGED plans
      BY <1>1, <1>3 DEF Record
    <2>2. run' \in [status : {"running"} \union Terminal, result : {run'.result}] /\ run'.status = "failed"
      BY <2>1 DEF PInv, Terminal
    <2> QED
      BY <2>1, <2>2, WorkerGone
  <1>4. CASE ~ Refused(Head(q))
    <2>1. Records(q) /\ worker' = [worker EXCEPT !.events = Tail(q)]
      BY <1>1, <1>2, <1>4 DEF Record, Records
    <2>2. SameLoop /\ WorkerShape' /\ worker'.events = Tail(q)
      BY <2>1, WorkerIs DEF SameLoop, WorkerShape, PInv
    <2>3. /\ RowsFit' /\ Grown /\ HistoryMoves /\ Stream(Tail(q))'
          /\ \/ UNCHANGED saved
             \/ CpFits(saved)' /\ saved'.state # "completed"
             \/ CpFits(saved)' /\ worker'.pc = "finish" /\ Tail(q) = <<>>
      <3>1. CASE Head(q).ev = "CONTEXT_SNAPSHOT_CREATED" /\ StreamRest(Tail(q))
        BY <2>1, <2>2, <3>1, RecordContext
      <3>2. CASE SaveFirst(q) /\ EndRest(Tail(q))
        BY <2>1, <2>2, <3>2, RecordSave
      <3>3. CASE EndRest(q)
        BY <1>2, <2>1, <2>2, <3>3, RecordSuperseding, RecordGivingUp DEF EndRest, AtEnd
      <3>4. CASE ReflectRest(q)
        BY <2>1, <2>2, <3>4, RecordReflection
      <3>5. CASE Creating(q) \/ Starting(q) \/ Completing(q) \/ FailingStep(q)
        BY <2>1, <2>2, <3>5, RecordCreating, RecordStarting, RecordCompleting, RecordFailing
      <3>6. CASE Closing(q) \/ SavingLast(q)
        BY <2>1, <2>2, <3>6, RecordClosing, RecordLast
      <3> QED
        BY <1>2, <3>1, <3>2, <3>3, <3>4, <3>5, <3>6 DEF Stream, StreamRest, SaveRest
    <2>4. CpFits(saved)'
      <3>1. CASE UNCHANGED saved
        <4>1. PICK cp : cp = saved
          OBVIOUS
        <4>2. CpFits(cp)'
          BY <1>2, <2>3, <4>1, CpFitsLater
        <4> QED
          BY <3>1, <4>1, <4>2 DEF CpFits, IsCheckpoint
      <3> QED
        BY <2>3, <3>1
    <2>5. saved'.state = "completed" => worker'.pc = "finish" /\ worker'.events = <<>>
      BY <1>2, <2>2, <2>3
    <2>6. worker'.pc \in LoopPcs => AtPc'
      BY <2>2 DEF PInv, AtPc, SameLoop, IsCheckpoint
    <2>7. Stream(worker.events)'
      BY <2>2, <2>3
    <2>8. run' = run /\ run.status = "running" /\ worker'.pc # "off"
      BY <1>2, <2>1, <2>2 DEF Records, SameLoop
    <2>9. run \in [status : {"running"} \union Terminal, result : {run.result}]
      BY DEF PInv
    <2>10. PInv'
      BY <2>2, <2>3, <2>4, <2>5, <2>6, <2>7, <2>8, <2>9 DEF PInv
    <2> QED
      BY <2>3, <2>10
  <1> QED
    BY <1>3, <1>4


-----------------------------------------------------------------------------
(* The theorems.                                                           *)

LEMMA InitPInv == Init => PInv
  <1> SUFFICES ASSUME Init PROVE PInv
    OBVIOUS
  <1>1. plans = <<>> /\ DOMAIN plans = {} /\ plans \in Seq(Row) /\ Len(plans) = 0
    BY DEF Init
  <1>2. RowsFit
    BY <1>1 DEF RowsFit
  <1>3. NewCheckpoint.state = "planning" /\ NewCheckpoint.revision = 0 /\ IsCheckpoint(NewCheckpoint)
    <2>1. "planning" \in CpStates /\ {} \in SUBSET Keys /\ 0 \in Nat
      BY DEF CpStates
    <2>2. IsCheckpoint(NewCheckpoint)
      BY <2>1, NoStepIs, CheckpointIs DEF NewCheckpoint
    <2> QED
      BY <2>2 DEF NewCheckpoint
  <1>4. CpFits(saved)
    BY <1>1, <1>3 DEF Init, CpFits, IsCheckpoint
  <1>5. worker = Idle /\ worker.pc = "off" /\ WorkerShape /\ worker.pc \notin LoopPcs
    BY DEF Init, Idle, WorkerShape, LoopPcs
  <1> QED
    BY <1>2, <1>4, <1>5 DEF Init, PInv

LEMMA SamePInv ==
  ASSUME PInv, UNCHANGED vars
  PROVE  PInv'
  <1>1. UNCHANGED <<plans, saved, run, worker>>
    BY DEF vars
  <1>2. RowsFit /\ RowsFit' /\ SameLoop
    BY <1>1, RowsKept DEF PInv, SameLoop
  <1>3. run.status = "running" => CpFits(saved)'
    BY <1>1, <1>2, SavedLater DEF PInv
  <1>4. worker.pc \in LoopPcs => AtPc'
    BY <1>1 DEF PInv, AtPc, IsCheckpoint
  <1>5. worker.pc # "off" => Stream(worker.events)'
    <2>1. PICK q : q = worker.events
      OBVIOUS
    <2>2. Stream(q) => Stream(q)'
      BY <1>1, <1>2, StreamKept DEF Stream
    <2> QED
      BY <1>1, <2>1, <2>2 DEF PInv
  <1> QED
    BY <1>1, <1>2, <1>3, <1>4, <1>5 DEF PInv, WorkerShape, LastRow

LEMMA NextPInv ==
  ASSUME PInv, [Next]_vars
  PROVE  PInv'
  BY ResumeStep, LoopKeepsPInv, GoneStep, RecordStep, SamePInv DEF Next, Stopped

\* Only recording changes a row.
LEMMA RowsAreRecorded ==
  ASSUME [Next]_vars, ~ Record
  PROVE  UNCHANGED plans
  BY DEF Next, vars, Resume, LoopStep, CreatePlan, StartStep, AskTools, RunTools, AnswerStep, ReflectOnStep,
         ReflectOnResult, ReflectionBudgetExhausted, EvaluateResult, JudgeResult, CompletePlan, StopLoop,
         Suspend, CompleteClaim, Timeout, Crash, Stopped

\* The statuses of the Plans.
Statuses == [r \in DOMAIN plans |-> plans[r].status]

LEMMA HistoryStep ==
  ASSUME PInv, [Next]_vars
  PROVE  [History!Next]_Statuses
  <1>1. CASE UNCHANGED plans
    BY <1>1 DEF Statuses
  <1>2. CASE RowsFit' /\ HistoryMoves
    <2>1. RowsFit
      BY DEF PInv
    <2>2. /\ Len(plans) \in Nat /\ DOMAIN plans = 1..Len(plans)
          /\ Len(plans') \in Nat /\ DOMAIN plans' = 1..Len(plans')
      BY <1>2, <2>1 DEF RowsFit
    <2>3. PICK h : h = Statuses
      OBVIOUS
    <2>4. PICK g : g = Statuses'
      OBVIOUS
    <2>5. /\ h = [r \in 1..Len(plans) |-> plans[r].status]
          /\ g = [r \in 1..Len(plans') |-> plans'[r].status]
      BY <2>2, <2>3, <2>4 DEF Statuses
    <2>6. /\ \A r \in 1..Len(plans) : plans[r].status \in {"active", "completed", "superseded", "failed"}
          /\ \A r \in 1..Len(plans') : plans'[r].status \in {"active", "completed", "superseded", "failed"}
      <3>1. /\ \A r \in 1..Len(plans) : plans[r] \in Row
            /\ \A r \in 1..Len(plans') : plans'[r] \in Row
        BY <1>2, <2>1, <2>2 DEF RowsFit
      <3> QED
        BY <3>1 DEF Row, Dropped
    <2>7. /\ h \in Seq({"active", "completed", "superseded", "failed"}) /\ Len(h) = Len(plans)
          /\ g \in Seq({"active", "completed", "superseded", "failed"}) /\ Len(g) = Len(plans')
      BY <2>2, <2>5, <2>6
    <2>8. CASE SameHistory
      BY <2>2, <2>3, <2>4, <2>5, <2>8 DEF SameHistory
    <2>9. CASE /\ \A r \in DOMAIN plans : plans[r].status \in Dropped /\ plans'[r].status = plans[r].status
               /\ Len(plans') = Len(plans) + 1 /\ plans'[Len(plans) + 1].status = "active"
      <3>1. \A r \in DOMAIN h : h[r] \in History!Closed
        BY <2>2, <2>5, <2>9 DEF History!Closed, Dropped
      <3>2. /\ Append(h, "active") \in Seq({"active", "completed", "superseded", "failed"})
            /\ Len(Append(h, "active")) = Len(h) + 1 /\ Append(h, "active")[Len(h) + 1] = "active"
            /\ \A r \in 1..Len(h) : Append(h, "active")[r] = h[r]
        BY <2>7, AppendProperties
      <3>3. \A r \in 1..(Len(h) + 1) : g[r] = Append(h, "active")[r]
        <4>1. g[Len(h) + 1] = "active"
          BY <2>2, <2>5, <2>7, <2>9
        <4>2. \A r \in 1..Len(h) : g[r] = h[r]
          BY <2>2, <2>5, <2>7, <2>9
        <4>3. \A r \in 1..(Len(h) + 1) : r \in 1..Len(h) \/ r = Len(h) + 1
          BY <2>2, <2>7
        <4> QED
          BY <3>2, <4>1, <4>2, <4>3
      <3>4. g = Append(h, "active")
        BY <2>7, <2>9, <3>2, <3>3, SeqEqual
      <3>5. History!Open
        BY <2>3, <2>4, <3>1, <3>4 DEF History!Open, Statuses
      <3> QED
        BY <3>5 DEF History!Next
    <2>10. CASE /\ plans # <<>> /\ LastRow.status = "active" /\ Len(plans') = Len(plans)
                /\ plans'[Len(plans)].status \in Dropped \union {"completed"}
                /\ \A r \in DOMAIN plans : r # Len(plans) => plans'[r].status = plans[r].status
      <3>1. Len(h) \in 1..Len(h) /\ h # <<>>
        BY <2>1, <2>2, <2>7, <2>10, RowsAre
      <3>2. h[Len(h)] = "active"
        BY <2>5, <2>7, <2>10, <3>1 DEF LastRow
      <3>3. PICK s : s = plans'[Len(plans)].status
        OBVIOUS
      <3>4. s \in History!Closed
        BY <2>10, <3>3 DEF History!Closed, Dropped
      <3>5. g = [h EXCEPT ![Len(h)] = s]
        BY <2>2, <2>5, <2>7, <2>10, <3>3
      <3>6. History!Close
        BY <2>3, <2>4, <3>1, <3>2, <3>4, <3>5 DEF History!Close, Statuses
      <3> QED
        BY <3>6 DEF History!Next
    <2> QED
      BY <1>2, <2>8, <2>9, <2>10 DEF HistoryMoves
  <1> QED
    BY <1>1, <1>2, RecordStep, RowsAreRecorded

LEMMA NotRepeated ==
  ASSUME PInv
  PROVE  StepsAreNotRepeated
  <1> SUFFICES ASSUME worker.events # <<>>, Head(worker.events).ev = "PLAN_STEP_STARTED",
                      plans[Head(worker.events).rev].status = "active"
               PROVE  Head(worker.events).key \notin CompletedSteps(plans[Head(worker.events).rev])
    BY DEF StepsAreNotRepeated
  <1>1. PICK q : q = worker.events
    OBVIOUS
  <1>2. q # <<>> /\ Head(q).ev = "PLAN_STEP_STARTED" /\ Stream(q)
    BY <1>1 DEF PInv, Idle
  <1>3. StreamRest(q)
    BY <1>2 DEF Stream
  <1>4. ~ EndRest(q) /\ ~ SaveFirst(q) /\ ~ ReflectFirst(q)
    BY <1>2, Tuples DEF EndRest, AtEnd, Superseding, GivingUp, PlanStatus, SaveFirst, ReflectFirst, Reflected
  <1>5. ~ Creating(q) /\ ~ Completing(q) /\ ~ FailingStep(q) /\ ~ Closing(q) /\ ~ SavingLast(q)
    <2>1. PICK cp : cp = worker.cp
      OBVIOUS
    <2>2. ~ Creating(q)
      BY <1>2, <2>1, Tuples DEF Creating, PlanCreated
    <2>3. ~ Completing(q)
      <3>1. ASSUME Completing(q)
            PROVE  \E k : q = <<StepCompleted(cp.revision, k, cp.output), Save(cp)>>
        BY <2>1, <3>1 DEF Completing
      <3> QED
        BY <1>2, <3>1, Tuples DEF StepCompleted
    <2>4. ~ FailingStep(q)
      BY <1>2, Tuples DEF FailingStep, StepFailed
    <2>5. ~ Closing(q)
      BY <1>2, <2>1, Tuples DEF Closing, PlanStatus
    <2>6. ~ SavingLast(q)
      BY <1>2, Tuples DEF SavingLast, Save
    <2> QED
      BY <2>2, <2>3, <2>4, <2>5, <2>6
  <1>6. Starting(q)
    BY <1>3, <1>4, <1>5 DEF StreamRest, SaveRest, ReflectRest
  <1>7. PICK cp : cp = worker.cp
    OBVIOUS
  <1>8. worker.pc = "step" /\ Drained /\ q = <<StepStarted(cp.revision, cp.step.key)>>
    BY <1>6, <1>7 DEF Starting
  <1>9. Head(q).rev = cp.revision /\ Head(q).key = cp.step.key
    BY <1>8, Tuples DEF StepStarted
  <1>10. cp.step.key \notin cp.done /\ worker.plan # NoPlan
    BY <1>7, <1>8 DEF PInv, AtPc, LoopPcs
  <1>11. CompletedSteps(plans[cp.revision]) \subseteq cp.done
    BY <1>1, <1>7, <1>8, <1>9, <1>10 DEF Drained, DrainedBut
  <1> QED
    BY <1>1, <1>9, <1>10, <1>11

LEMMA FinalStep ==
  ASSUME PInv, [Next]_vars, saved.state = "completed", run.status = "running"
  PROVE  plans' = plans /\ (saved'.state = "completed" \/ run'.status \in Terminal)
  <1>1. worker.pc = "off" \/ (worker.pc = "finish" /\ worker.events = <<>>)
    BY DEF PInv
  <1>2. ~ LoopStep
    <2>1. ASSUME LoopStep PROVE \E pc \in LoopPcs : worker.pc = pc
      BY <2>1 DEF LoopStep, LoopPcs, LoopAt, CreatePlan, StartStep, AskTools, RunTools, AnswerStep, ReflectOnStep,
         ReflectOnResult, ReflectionBudgetExhausted, EvaluateResult, JudgeResult, CompletePlan, StopLoop
    <2> QED
      BY <1>1, <2>1 DEF LoopPcs
  <1>3. ~ Record /\ ~ Suspend
    BY <1>1 DEF PInv, Idle, Record, Suspend, LoopAt
  <1>4. UNCHANGED plans
    BY <1>3, RowsAreRecorded
  <1>5. CASE UNCHANGED saved
    BY <1>4, <1>5
  <1>6. CASE CompleteClaim
    <2>1. PInv'
      BY NextPInv
    <2>2. run'.status = worker.outcome /\ worker.outcome \in {"none", "completed", "failed", "cancelled"}
      BY <1>6, WorkerIs DEF CompleteClaim
    <2>3. worker.pc = "finish" /\ worker.events = <<>>
      BY <1>6 DEF CompleteClaim, LoopAt
    <2>4. Stream(<<>>)
      BY <2>3 DEF PInv
    <2>5. AtEnd(<<>>)
      BY <2>4, Tuples DEF Stream, StreamRest, SaveRest, SaveFirst, ReflectRest, ReflectFirst, EndRest,
            Superseding, GivingUp, Creating, Starting, Completing, FailingStep, Closing, SavingLast
    <2>6. worker.outcome # "none"
      BY <2>3, <2>5 DEF AtEnd, Earned, LoopPcs
    <2> QED
      BY <1>4, <2>2, <2>6 DEF Terminal
  <1> QED
    BY <1>2, <1>3, <1>5, <1>6 DEF Next, vars, Resume, Timeout, Crash, Stopped

\* The rows of a Run and the stream of the worker that holds it agree, over any
\* number of takeovers (_execute_plan_and_execute and the projections it meets).
THEOREM PlanIsFollowed == Spec => []PInv
  BY InitPInv, NextPInv, PTL DEF Spec

\* No worker runs a step before the steps it depends on are completed, from
\* whatever checkpoint it resumed (ordered_steps, _reconcile_plan_recovery).
THEOREM DependenciesComeFirst == Spec => []DependenciesFirst
  <1>1. PInv => DependenciesFirst
    BY DEF PInv, RowsFit, RowFits, DependenciesFirst
  <1> QED
    BY <1>1, PlanIsFollowed, PTL

\* A worker starts no step of an active Plan that is completed: the facts that
\* the checkpoint misses are looked for (_reconcile_plan_recovery).
THEOREM WorkIsNotRepeated == Spec => []StepsAreNotRepeated
  BY PlanIsFollowed, NotRepeated, PTL

\* A Run is completed with its last Plan completed, every step of it, and with a
\* result that the Task accepts (evaluate_completion, complete_claim).
THEOREM CompletionsAreEarned == Spec => []CompletionIsEarned
  <1>1. PInv => CompletionIsEarned
    <2> SUFFICES ASSUME PInv, run.status = "completed"
                 PROVE  /\ plans # <<>> /\ LastRow.status = "completed"
                        /\ CompletedSteps(LastRow) = StepKeys(LastRow.plan)
                        /\ run.result.fit
      BY DEF CompletionIsEarned
    <2>1. plans # <<>> /\ LastRow.status = "completed" /\ run.result.fit /\ RowsFit
      BY DEF PInv
    <2>2. Len(plans) \in DOMAIN plans
      BY <2>1, RowsAre
    <2>3. CompletedSteps(LastRow) = StepKeys(LastRow.plan)
      BY <2>1, <2>2 DEF RowsFit, RowFits, LastRow
    <2> QED
      BY <2>1, <2>3
  <1> QED
    BY <1>1, PlanIsFollowed, PTL

\* Once the final checkpoint is saved no row of a Plan is written any more, and
\* the next worker that closes the Run ends it (CHECKPOINT_TERMINAL).
THEOREM FinalCheckpointHolds == Spec => FinalCheckpointIsLast
  <1>1. ASSUME PInv, [Next]_vars
        PROVE  [(saved.state = "completed" /\ run.status = "running") =>
                    /\ plans' = plans
                    /\ saved'.state = "completed" \/ run'.status \in Terminal]_vars
    BY <1>1, FinalStep
  <1> QED
    BY <1>1, PlanIsFollowed, PTL DEF Spec, FinalCheckpointIsLast

\* The rows of plans implement the abstract Plan history: a revision is opened
\* when the ones before it are closed, and keeps the status it is closed with
\* (record_event and the triggers of migration 0012).
THEOREM ImplementsPlanRevisions == Spec => PlansAreHistory
  <1>1. Init => Statuses = <<>>
    BY DEF Init, Statuses
  <1>2. Init => History!Init
    BY <1>1 DEF History!Init, Statuses
  <1>3. ASSUME PInv, [Next]_vars
        PROVE  [History!Next]_[r \in DOMAIN plans |-> plans[r].status]
    BY <1>3, HistoryStep DEF Statuses
  <1> QED
    BY <1>2, <1>3, PlanIsFollowed, PTL DEF Spec, PlansAreHistory, History!Spec
=============================================================================
