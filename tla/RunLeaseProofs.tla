---------------------------- MODULE RunLeaseProofs ----------------------------
(***************************************************************************)
(* What RunLease guarantees for every number of Runs, workers and tokens.  *)
(***************************************************************************)
EXTENDS RunLease, TLAPS

\* A slot outside its polling loop knows which Run it claimed and under which token.
AttachedHasClaim == \A w \in Workers :
    worker[w].pc \in Attached => worker[w].run \in Runs /\ worker[w].token \in Tokens

\* A slot that is about to call fail_claim knows whether it failed or timed out.
AbortHasOutcome == \A w \in Workers :
    worker[w].pc = "aborting" => worker[w].outcome \in {"failed", "timed_out"}

TypeInv == TypeOK /\ AttachedHasClaim /\ AbortHasOutcome

USE DEF RunStatus, TerminalStatus, ClaimableStatus, ActiveStatus, Clocks, SessionStatus,
        Attached, Outcomes

LEMMA IdleSlotType == IdleSlot \in Slot
  BY IdAssumption DEF IdleSlot, Slot

LEMMA NoLeaseType == NoLease \in Lease
  BY DEF NoLease, Lease

LEMMA InitTypeInv == Init => TypeInv
  <1> SUFFICES ASSUME Init PROVE TypeInv
    OBVIOUS
  <1>1. NoSession \in Session
    BY DEF NoSession, Session
  <1>2. TypeOK
    BY <1>1, IdleSlotType, NoLeaseType, BoundAssumption DEF Init, TypeOK
  <1>3. AttachedHasClaim /\ AbortHasOutcome
    BY DEF Init, AttachedHasClaim, AbortHasOutcome, IdleSlot
  <1> QED
    BY <1>2, <1>3 DEF TypeInv

-----------------------------------------------------------------------------
(* Every step keeps the types: first what an update of one slot keeps.     *)

LEMMA SlotUpdate ==
  ASSUME TypeInv, NEW w \in Workers, NEW s \in Slot, Slots(w, s),
         s.pc \in Attached => s.run \in Runs /\ s.token \in Tokens,
         s.pc = "aborting" => s.outcome \in {"failed", "timed_out"}
  PROVE  worker' \in [Workers -> Slot] /\ AttachedHasClaim' /\ AbortHasOutcome'
  BY DEF TypeInv, TypeOK, AttachedHasClaim, AbortHasOutcome, Slots

LEMMA ReleaseUpdate ==
  ASSUME TypeInv, NEW w \in Workers, Release(w)
  PROVE  worker' \in [Workers -> Slot] /\ AttachedHasClaim' /\ AbortHasOutcome'
  <1> IdleSlot.pc = "idle"
    BY DEF IdleSlot
  <1> QED
    BY IdleSlotType, SlotUpdate DEF Release

LEMMA DisruptType ==
  ASSUME TypeInv, Disrupt
  PROVE  disruptions' \in 0..MaxDisruptions
  BY BoundAssumption DEF TypeInv, TypeOK, Disrupt

LEMMA WorkerTypeInv ==
  ASSUME TypeInv, NEW w \in Workers, WorkerStep(w)
  PROVE  TypeInv'
  <1> DEFINE r == worker[w].run
  <1> USE DEF TypeInv
  <1>0. worker[w] \in Slot
    BY DEF TypeOK
  <1>a. worker[w].pc \in Attached => r \in Runs /\ worker[w].token \in Tokens
    BY DEF AttachedHasClaim
  <1>b. worker[w].pc = "aborting" => worker[w].outcome \in {"failed", "timed_out"}
    BY DEF AbortHasOutcome
  <1>1. ASSUME NEW q \in Runs, NEW t \in Tokens, Claim(w, q, t)
        PROVE  TypeInv'
    <2> DEFINE s == [IdleSlot EXCEPT !.pc = "claimed", !.run = q, !.token = t,
                                     !.recovering = status[q] # "pending"]
    <2>1. s \in Slot /\ s.run = q /\ s.token = t /\ s.pc = "claimed"
      BY IdleSlotType DEF Slot, IdleSlot
    <2>2. worker' \in [Workers -> Slot] /\ AttachedHasClaim' /\ AbortHasOutcome'
      BY <1>1, <2>1, SlotUpdate DEF Claim
    <2>3. lease' \in [Runs -> Lease]
      BY <1>1, IdAssumption DEF Claim, TypeOK, Lease
    <2> QED
      BY <1>1, <2>2, <2>3 DEF Claim, TypeOK
  <1>2. CASE PollEmpty(w)
    BY <1>2 DEF PollEmpty, vars, TypeOK, AttachedHasClaim, AbortHasOutcome
  <1>3. CASE PrepareClaim(w)
    <2> DEFINE s == [worker[w] EXCEPT !.pc = "prepared", !.seqBase = session[r].lastSeq,
                                      !.stepBase = session[r].step]
    <2>1. r \in Runs /\ session[r] \in Session
      BY <1>3, <1>a DEF PrepareClaim, TypeOK
    <2>2. s \in Slot /\ s.run = r /\ s.token = worker[w].token /\ s.pc = "prepared"
      BY <1>0, <2>1 DEF Slot, Session
    <2>3. worker' \in [Workers -> Slot] /\ AttachedHasClaim' /\ AbortHasOutcome'
      BY <1>3, <1>a, <2>2, SlotUpdate DEF PrepareClaim
    <2>4. session' \in [Runs -> Session] /\ status' \in [Runs -> RunStatus]
      BY <1>3, <2>1 DEF PrepareClaim, TypeOK, Session
    <2> QED
      BY <1>3, <2>3, <2>4 DEF PrepareClaim, TypeOK
  <1>4. CASE PrepareRaises(w)
    <2>1. [worker[w] EXCEPT !.pc = "unprepared"] \in Slot
      BY <1>0 DEF Slot
    <2> QED
      BY <1>0, <1>4, <1>a, <2>1, SlotUpdate DEF PrepareRaises, TypeOK, Slot
  <1>5. CASE ClaimLost(w)
    BY <1>5, ReleaseUpdate DEF ClaimLost, TypeOK
  <1>6. CASE FailUnprepared(w)
    <2>1. r \in Runs
      BY <1>6, <1>a DEF FailUnprepared
    <2>2. status' \in [Runs -> RunStatus] /\ lease' \in [Runs -> Lease]
      BY <1>6, <2>1, NoLeaseType DEF FailUnprepared, TypeOK
    <2> QED
      BY <1>6, <2>2, ReleaseUpdate DEF FailUnprepared, TypeOK
  <1>7. CASE BindSession(w)
    <2> DEFINE s == [worker[w] EXCEPT
                       !.pc = IF session[r].final THEN "returned" ELSE "executing",
                       !.outcome = IF session[r].final THEN "failed" ELSE "none",
                       !.emitted = 1]
    <2>1. r \in Runs /\ session[r] \in Session
      BY <1>7, <1>a DEF BindSession, TypeOK
    <2>2. s \in Slot /\ s.run = r /\ s.token = worker[w].token /\ s.pc # "aborting"
      BY <1>0, <2>1 DEF Slot, Session
    <2>3. worker' \in [Workers -> Slot] /\ AttachedHasClaim' /\ AbortHasOutcome'
      BY <1>7, <1>a, <2>2, SlotUpdate DEF BindSession
    <2>4. session' \in [Runs -> Session]
      BY <1>7, <2>1 DEF BindSession, TypeOK, Session
    <2> QED
      BY <1>7, <2>3, <2>4 DEF BindSession, TypeOK
  <1>8. CASE EmitCheckpoint(w)
    <2> DEFINE s == [worker[w] EXCEPT !.emitted = @ + 1]
    <2>1. s \in Slot /\ s.run = r /\ s.token = worker[w].token
          /\ s.pc = worker[w].pc /\ s.outcome = worker[w].outcome
      BY <1>0 DEF Slot
    <2>2. worker' \in [Workers -> Slot] /\ AttachedHasClaim' /\ AbortHasOutcome'
      BY <1>8, <1>a, <1>b, <2>1, SlotUpdate DEF EmitCheckpoint
    <2> QED
      BY <1>8, <2>2 DEF EmitCheckpoint, TypeOK
  <1>9. CASE RecordEvent(w)
    <2> DEFINE k == worker[w].forwarded + 1
    <2> DEFINE s == IF worker[w].seqBase + k > session[r].lastSeq + 1
                    THEN [worker[w] EXCEPT !.stream = "error"]
                    ELSE [worker[w] EXCEPT !.forwarded = k]
    <2>1. r \in Runs /\ session[r] \in Session
      BY <1>9, <1>a DEF RecordEvent, Forwarding, Streaming, TypeOK
    <2>2. s \in Slot /\ s.run = r /\ s.token = worker[w].token
          /\ s.pc = worker[w].pc /\ s.outcome = worker[w].outcome
      BY <1>0 DEF Slot
    <2>3. worker' \in [Workers -> Slot] /\ AttachedHasClaim' /\ AbortHasOutcome'
      <3>1. Slots(w, s)
        BY <1>9 DEF RecordEvent
      <3>2. worker[w].pc \in Attached
        BY <1>9 DEF RecordEvent, Forwarding, Streaming
      <3> QED
        BY <1>a, <1>b, <2>2, <3>1, <3>2, SlotUpdate
    <2>4. k \in Nat \ {0} /\ worker[w].seqBase \in Nat /\ worker[w].stepBase \in Nat
      BY <1>0 DEF Slot
    <2>5. session' \in [Runs -> Session] /\ status' \in [Runs -> RunStatus]
      <3>1. CASE Apply(w, k)
        <4>1. CASE k = 1
          BY <2>1, <2>4, <3>1, <4>1 DEF Apply, TypeOK, Session
        <4>2. CASE k # 1
          <5> DEFINE x == [session[r] EXCEPT !.lastSeq = worker[w].seqBase + k,
                                             !.step = worker[w].stepBase + k - 1,
                                             !.final = worker[w].outcome = "completed"
                                                         /\ k = worker[w].emitted]
          <5>1. session' = [session EXCEPT ![r] = x] /\ UNCHANGED status
            BY <2>1, <3>1, <4>2 DEF Apply, TypeOK, Session
          <5>2. worker[w].seqBase + k \in Nat /\ worker[w].stepBase + k - 1 \in Nat
            BY <2>4
          <5>3. x \in Session
            BY <2>1, <5>2 DEF Session
          <5> QED
            BY <2>1, <5>1, <5>3 DEF TypeOK
        <4> QED
          BY <4>1, <4>2
      <3>2. CASE UNCHANGED <<status, session>>
        BY <3>2 DEF TypeOK
      <3> QED
        BY <1>9, <3>1, <3>2 DEF RecordEvent
    <2> QED
      BY <1>9, <2>3, <2>5 DEF RecordEvent, TypeOK
  <1>10. ASSUME NEW x \in {"lost", "error"}, EventRaises(w, x)
         PROVE  TypeInv'
    <2> DEFINE s == [worker[w] EXCEPT !.stream = x]
    <2>1. s \in Slot /\ s.run = r /\ s.token = worker[w].token
          /\ s.pc = worker[w].pc /\ s.outcome = worker[w].outcome
      BY <1>0 DEF Slot
    <2>2. worker' \in [Workers -> Slot] /\ AttachedHasClaim' /\ AbortHasOutcome'
      BY <1>10, <1>a, <1>b, <2>1, SlotUpdate DEF EventRaises
    <2> QED
      BY <1>10, <2>2 DEF EventRaises, TypeOK
  <1>11. CASE Heartbeat(w)
    <2> DEFINE s == [worker[w] EXCEPT !.cancel = TRUE]
    <2>1. s \in Slot /\ s.run = r /\ s.token = worker[w].token
          /\ s.pc = worker[w].pc /\ s.outcome = worker[w].outcome
      BY <1>0 DEF Slot
    <2>2. worker' \in [Workers -> Slot] /\ AttachedHasClaim' /\ AbortHasOutcome'
      <3>1. CASE Slots(w, s)
        BY <1>a, <1>b, <2>1, <3>1, SlotUpdate
      <3>2. CASE UNCHANGED worker
        BY <3>2 DEF TypeOK, AttachedHasClaim, AbortHasOutcome
      <3> QED
        BY <1>11, <3>1, <3>2 DEF Heartbeat
    <2>3. lease' \in [Runs -> Lease]
      BY <1>11, <1>a DEF Heartbeat, TypeOK, Lease
    <2> QED
      BY <1>11, <2>2, <2>3 DEF Heartbeat, TypeOK
  <1>12. ASSUME NEW x \in Outcomes, ExecuteReturns(w, x)
         PROVE  TypeInv'
    <2> DEFINE s == [worker[w] EXCEPT !.pc = "returned", !.outcome = x,
                                      !.emitted = IF x = "completed" THEN @ + 1 ELSE @]
    <2>1. s \in Slot /\ s.run = r /\ s.token = worker[w].token /\ s.pc = "returned"
      <3>1. worker[w].emitted + 1 \in Nat
        BY <1>0 DEF Slot
      <3> QED
        BY <1>0, <3>1 DEF Slot
    <2>2. worker' \in [Workers -> Slot] /\ AttachedHasClaim' /\ AbortHasOutcome'
      BY <1>12, <1>a, <2>1, SlotUpdate DEF ExecuteReturns
    <2>3. disruptions' \in 0..MaxDisruptions
      BY <1>12, BoundAssumption DEF ExecuteReturns, TypeOK
    <2> QED
      BY <1>12, <2>2, <2>3 DEF ExecuteReturns, TypeOK
  <1>13. ASSUME NEW x \in Outcomes, ExecutionAborts(w, x)
         PROVE  TypeInv'
    <2> DEFINE s == [worker[w] EXCEPT !.pc = "aborting", !.outcome = x]
    <2>1. s \in Slot /\ s.run = r /\ s.token = worker[w].token /\ s.outcome = x
      BY <1>0 DEF Slot
    <2>2. worker' \in [Workers -> Slot] /\ AttachedHasClaim' /\ AbortHasOutcome'
      BY <1>13, <1>a, <2>1, SlotUpdate DEF ExecutionAborts
    <2> QED
      BY <1>13, <2>2 DEF ExecutionAborts, TypeOK
  <1>14. CASE CompleteClaim(w)
    <2>1. r \in Runs /\ session[r] \in Session
      BY <1>14, <1>a DEF CompleteClaim, Drained, TypeOK
    <2>2. EmittedStep(w) \in Nat
      BY <1>0 DEF EmittedStep, Slot
    <2>3. status' \in [Runs -> RunStatus] /\ lease' \in [Runs -> Lease]
            /\ session' \in [Runs -> Session]
      <3> DEFINE x(step, f) == [session[r] EXCEPT !.status = worker[w].outcome,
                                                  !.step = step, !.final = f]
      <3>1. CASE UNCHANGED <<status, lease, session>>
        BY <3>1 DEF TypeOK
      <3>2. ASSUME NEW step \in Nat, NEW f \in BOOLEAN,
                   worker[w].outcome \in {"completed", "failed", "cancelled"},
                   CommitTerminal(w, worker[w].outcome, worker[w].outcome, step, f)
            PROVE  /\ status' \in [Runs -> RunStatus]
                   /\ lease' \in [Runs -> Lease]
                   /\ session' \in [Runs -> Session]
        <4>1. x(step, f) \in Session
          BY <2>1, <3>2 DEF Session
        <4>2. session' = [session EXCEPT ![r] = x(step, f)]
          BY <2>1, <3>2 DEF CommitTerminal, TypeOK, Session
        <4> HIDE DEF x
        <4> QED
          BY <2>1, <3>2, <4>1, <4>2, NoLeaseType DEF CommitTerminal, TypeOK
      <3>3. session[r].final \in BOOLEAN
        BY <2>1 DEF Session
      <3> QED
        BY <1>14, <2>2, <3>1, <3>2, <3>3 DEF CompleteClaim
    <2> QED
      BY <1>14, <2>3, ReleaseUpdate DEF CompleteClaim, TypeOK
  <1>15. CASE FailClaim(w)
    <2>1. r \in Runs /\ session[r] \in Session /\ worker[w].stepBase \in Nat
      BY <1>0, <1>15, <1>a DEF FailClaim, TypeOK, Slot
    <2>2. status' \in [Runs -> RunStatus] /\ lease' \in [Runs -> Lease]
            /\ session' \in [Runs -> Session]
      <3> DEFINE x == [session[r] EXCEPT !.status = "failed", !.final = FALSE,
                                         !.step = worker[w].stepBase]
      <3>1. CASE UNCHANGED <<status, lease, session>>
        BY <3>1 DEF TypeOK
      <3>2. CASE CommitTerminal(w, worker[w].outcome, "failed", worker[w].stepBase, FALSE)
        <4>1. x \in Session
          BY <2>1 DEF Session
        <4>2. session' = [session EXCEPT ![r] = x]
          BY <2>1, <3>2 DEF CommitTerminal, TypeOK, Session
        <4>3. worker[w].outcome \in RunStatus
          BY <1>15, <1>b DEF FailClaim
        <4> HIDE DEF x
        <4> QED
          BY <2>1, <3>2, <4>1, <4>2, <4>3, NoLeaseType DEF CommitTerminal, TypeOK
      <3> QED
        BY <1>15, <3>1, <3>2 DEF FailClaim
    <2> QED
      BY <1>15, <2>2, ReleaseUpdate DEF FailClaim, TypeOK
  <1>16. ASSUME NEW target \in RunStatus, SuspendClaim(w, target)
         PROVE  TypeInv'
    <2>1. r \in Runs /\ session[r] \in Session
      BY <1>16, <1>a DEF SuspendClaim, Drained, TypeOK
    <2>2. EmittedStep(w) \in Nat
      BY <1>0 DEF EmittedStep, Slot
    <2>3. status' \in [Runs -> RunStatus] /\ lease' \in [Runs -> Lease]
      BY <1>16, <2>1, NoLeaseType DEF SuspendClaim, TypeOK
    <2>4. session' \in [Runs -> Session]
      <3> DEFINE x == [session[r] EXCEPT !.status = "suspended", !.step = EmittedStep(w),
                                         !.final = FALSE]
      <3>1. x \in Session
        BY <2>1, <2>2 DEF Session
      <3>2. session' = [session EXCEPT ![r] = x] \/ UNCHANGED session
        BY <1>16, <2>1 DEF SuspendClaim, TypeOK, Session
      <3> QED
        BY <2>1, <3>1, <3>2 DEF TypeOK
    <2> QED
      BY <1>16, <2>3, <2>4, ReleaseUpdate DEF SuspendClaim, TypeOK
  <1>17. CASE CommitRaises(w)
    <2> DEFINE s == [worker[w] EXCEPT !.pc = "aborting", !.outcome = "failed"]
    <2>1. s \in Slot /\ s.run = r /\ s.token = worker[w].token /\ s.outcome = "failed"
      BY <1>0 DEF Slot
    <2>2. worker' \in [Workers -> Slot] /\ AttachedHasClaim' /\ AbortHasOutcome'
      BY <1>17, <1>a, <2>1, SlotUpdate DEF CommitRaises, Drained
    <2> QED
      BY <1>17, <2>2 DEF CommitRaises, TypeOK
  <1>18. CASE StreamRaises(w)
    <2> DEFINE s == [worker[w] EXCEPT !.pc = "aborting", !.outcome = "failed"]
    <2>1. s \in Slot /\ s.run = r /\ s.token = worker[w].token /\ s.outcome = "failed"
      BY <1>0 DEF Slot
    <2>2. worker' \in [Workers -> Slot] /\ AttachedHasClaim' /\ AbortHasOutcome'
      <3>1. CASE Release(w)
        BY <3>1, ReleaseUpdate
      <3>2. CASE Slots(w, s)
        BY <1>18, <1>a, <2>1, <3>2, SlotUpdate DEF StreamRaises
      <3> QED
        BY <1>18, <3>1, <3>2 DEF StreamRaises
    <2> QED
      BY <1>18, <2>2 DEF StreamRaises, TypeOK
  <1> QED
    BY <1>1, <1>2, <1>3, <1>4, <1>5, <1>6, <1>7, <1>8, <1>9, <1>10, <1>11, <1>12,
       <1>13, <1>14, <1>15, <1>16, <1>17, <1>18 DEF WorkerStep

LEMMA EnvironmentTypeInv ==
  ASSUME TypeInv, Environment
  PROVE  TypeInv'
  <1> USE DEF TypeInv
  <1>1. ASSUME NEW w \in Workers, PollRaises(w)
        PROVE  TypeInv'
    <2> DEFINE s == [IdleSlot EXCEPT !.pc = "dead"]
    <2>1. s \in Slot /\ s.pc = "dead"
      BY IdleSlotType DEF Slot, IdleSlot
    <2>2. worker' \in [Workers -> Slot] /\ AttachedHasClaim' /\ AbortHasOutcome'
      BY <1>1, <2>1, SlotUpdate DEF PollRaises
    <2> QED
      BY <1>1, <2>2, DisruptType DEF PollRaises, TypeOK
  <1>2. ASSUME NEW w \in Workers, Crash(w)
        PROVE  TypeInv'
    BY <1>2, ReleaseUpdate, DisruptType DEF Crash, TypeOK
  <1>3. ASSUME NEW q \in Runs, NEW clock \in Clocks, LeaseExpires(q, clock)
        PROVE  TypeInv'
    <2>1. lease' \in [Runs -> Lease]
      BY <1>3 DEF LeaseExpires, TypeOK, Lease
    <2>2. disruptions' \in 0..MaxDisruptions
      BY <1>3, DisruptType DEF LeaseExpires, TypeOK
    <2> QED
      BY <1>3, <2>1, <2>2 DEF LeaseExpires, TypeOK, AttachedHasClaim, AbortHasOutcome
  <1>4. ASSUME NEW q \in Runs, NEW target \in RunStatus, TransitionRun(q, target)
        PROVE  TypeInv'
    BY <1>4, DisruptType, NoLeaseType
    DEF TransitionRun, TypeOK, AttachedHasClaim, AbortHasOutcome, Session
  <1>5. ASSUME NEW q \in Runs, CancelRun(q)
        PROVE  TypeInv'
    BY <1>5, DisruptType, NoLeaseType DEF CancelRun, TypeOK, AttachedHasClaim, AbortHasOutcome, Session
  <1>6. ASSUME NEW q \in Runs, WakeWaiter(q)
        PROVE  TypeInv'
    BY <1>6, NoLeaseType DEF WakeWaiter, TypeOK, AttachedHasClaim, AbortHasOutcome, Session
  <1>7. ASSUME NEW q \in Runs, ApprovalDecided(q)
        PROVE  TypeInv'
    BY <1>7 DEF ApprovalDecided, TypeOK, AttachedHasClaim, AbortHasOutcome
  <1> QED
    BY <1>1, <1>2, <1>3, <1>4, <1>5, <1>6, <1>7 DEF Environment

LEMMA StepTypeInv == TypeInv /\ [Next]_vars => TypeInv'
  <1>1. CASE UNCHANGED vars
    BY <1>1 DEF vars, TypeInv, TypeOK, AttachedHasClaim, AbortHasOutcome
  <1> QED
    BY <1>1, WorkerTypeInv, EnvironmentTypeInv DEF Next

\* The rows and the slots keep their types for every number of Runs, workers
\* and tokens, and no action reads a row of a Run its slot does not name.
THEOREM TypeCorrect == Spec => []TypeOK
  <1>1. Spec => []TypeInv
    BY InitTypeInv, StepTypeInv, PTL DEF Spec
  <1>2. TypeInv => TypeOK
    BY DEF TypeInv
  <1> QED
    BY <1>1, <1>2, PTL

-----------------------------------------------------------------------------
(* A closed Run keeps no lease.                                            *)

LEMMA StepTerminalReleased == TypeInv /\ TerminalReleased /\ [Next]_vars => TerminalReleased'
  <1> SUFFICES ASSUME TypeInv, TerminalReleased, [Next]_vars
               PROVE  TerminalReleased'
    OBVIOUS
  <1> USE DEF TypeInv, TerminalReleased
  <1>0. NoLease.live = {} /\ NoLease.token = NoToken
    BY DEF NoLease
  <1>a. status \in [Runs -> RunStatus] /\ lease \in [Runs -> Lease]
    BY DEF TypeOK
  <1>1. CASE UNCHANGED vars
    BY <1>1 DEF vars
  <1>2. ASSUME NEW w \in Workers, WorkerStep(w)
        PROVE  TerminalReleased'
    <2> DEFINE r == worker[w].run
    <2>a. worker[w].pc \in Attached => r \in Runs
      BY DEF AttachedHasClaim
    <2>b. worker[w].pc \in Attached /\ Owns(w) => status[r] \notin TerminalStatus
      BY <1>0, <2>a DEF Owns
    <2>1. ASSUME NEW q \in Runs, NEW t \in Tokens, Claim(w, q, t)
          PROVE  TerminalReleased'
      BY <1>a, <2>1 DEF Claim, Takeable
    <2>2. CASE PrepareClaim(w)
      BY <1>a, <2>2, <2>a DEF PrepareClaim
    <2>3. CASE FailUnprepared(w)
      BY <1>a, <2>3, <2>a DEF FailUnprepared
    <2>4. CASE RecordEvent(w)
      BY <1>a, <2>4, <2>a DEF RecordEvent, Apply, Forwarding, Streaming
    <2>5. CASE Heartbeat(w)
      BY <1>a, <2>5, <2>a DEF Heartbeat, OwnsActive, Streaming
    <2>6. CASE CompleteClaim(w)
      BY <1>a, <2>6, <2>a DEF CompleteClaim, Drained, CommitTerminal
    <2>7. CASE FailClaim(w)
      BY <1>a, <2>7, <2>a DEF FailClaim, CommitTerminal
    <2>8. ASSUME NEW target \in RunStatus, SuspendClaim(w, target)
          PROVE  TerminalReleased'
      BY <1>a, <2>8, <2>a DEF SuspendClaim, Drained
    <2>9. CASE UNCHANGED <<status, lease>>
      BY <2>9
    <2> QED
      BY <1>2, <2>1, <2>2, <2>3, <2>4, <2>5, <2>6, <2>7, <2>8, <2>9
      DEF WorkerStep, PollEmpty, PrepareRaises, ClaimLost, BindSession, EmitCheckpoint,
          EventRaises, ExecuteReturns, ExecutionAborts, CommitRaises, StreamRaises, vars
  <1>3. ASSUME Environment
        PROVE  TerminalReleased'
    <2>1. ASSUME NEW q \in Runs, NEW clock \in Clocks, LeaseExpires(q, clock)
          PROVE  TerminalReleased'
      BY <1>0, <1>a, <2>1 DEF LeaseExpires
    <2>2. ASSUME NEW q \in Runs, NEW target \in RunStatus, TransitionRun(q, target)
          PROVE  TerminalReleased'
      BY <1>a, <2>2 DEF TransitionRun, RunTransitions
    <2>3. ASSUME NEW q \in Runs, CancelRun(q)
          PROVE  TerminalReleased'
      BY <1>a, <2>3 DEF CancelRun
    <2>4. ASSUME NEW q \in Runs, WakeWaiter(q) \/ ApprovalDecided(q)
          PROVE  TerminalReleased'
      BY <1>a, <2>4 DEF WakeWaiter, ApprovalDecided
    <2>5. CASE UNCHANGED <<status, lease>>
      BY <2>5
    <2> QED
      BY <1>3, <2>1, <2>2, <2>3, <2>4, <2>5 DEF Environment, PollRaises, Crash
  <1> QED
    BY <1>1, <1>2, <1>3 DEF Next

\* No path that closes a Run leaves its lease behind, however many workers race.
THEOREM ClosedRunsAreReleased == Spec => []TerminalReleased
  <1>1. Init => TypeInv /\ TerminalReleased
    BY InitTypeInv DEF Init, TerminalReleased
  <1>2. TypeInv /\ TerminalReleased /\ [Next]_vars => (TypeInv /\ TerminalReleased)'
    BY StepTypeInv, StepTerminalReleased
  <1> QED
    BY <1>1, <1>2, PTL DEF Spec

-----------------------------------------------------------------------------
(* A token names one attempt.                                              *)

TokensDistinct == \A v, w \in Workers :
    /\ worker[v].pc \in Attached
    /\ worker[w].pc \in Attached
    /\ worker[v].token = worker[w].token
    => v = w

\* What a step does to an attached slot: it stays attached with what it holds,
\* or it has just claimed a Run under a token nobody used.
KeepsAttempt(w) == /\ worker[w].pc \in Attached
                   /\ worker'[w].run = worker[w].run
                   /\ worker'[w].token = worker[w].token
StartsAttempt(w) == /\ worker'[w].token \notin TokensInUse
                    /\ \A v \in Workers \ {w} : worker'[v] = worker[v]
                    /\ worker'[w].pc = "claimed"

\* The same for the token in a Run's lease.
KeepsToken(r) == lease'[r].token = lease[r].token
FreesToken(r) == lease'[r].token = NoToken
GrantsToken(r) == lease'[r].token \notin TokensInUse

LEMMA AttemptStep ==
  ASSUME TypeInv, [Next]_vars, NEW w \in Workers, worker'[w].pc \in Attached
  PROVE  KeepsAttempt(w) \/ StartsAttempt(w)
  <1> USE DEF TypeInv, KeepsAttempt
  <1>a. worker \in [Workers -> Slot] /\ IdleSlot.pc = "idle" /\ worker[w] \in Slot
    BY DEF TypeOK, IdleSlot
  <1>1. CASE UNCHANGED worker
    BY <1>1
  <1>2. ASSUME NEW v \in Workers, NEW q \in Runs, NEW t \in Tokens, Claim(v, q, t)
        PROVE  KeepsAttempt(w) \/ StartsAttempt(w)
    <2> DEFINE s == [IdleSlot EXCEPT !.pc = "claimed", !.run = q, !.token = t,
                                     !.recovering = status[q] # "pending"]
    <2>1. s.token = t /\ s.pc = "claimed"
      BY DEF IdleSlot
    <2>2. worker' = [worker EXCEPT ![v] = s] /\ t \notin TokensInUse
      BY <1>2 DEF Claim, Slots
    <2> HIDE DEF s
    <2> QED
      BY <1>a, <2>1, <2>2 DEF StartsAttempt
  <1>3. ASSUME NEW v \in Workers, Release(v)
        PROVE  KeepsAttempt(w)
    BY <1>a, <1>3 DEF Release, Slots
  <1>4. ASSUME NEW v \in Workers, worker[v].pc \in Attached, NEW s,
               Slots(v, s), s.run = worker[v].run, s.token = worker[v].token
        PROVE  KeepsAttempt(w)
    BY <1>a, <1>4 DEF Slots
  <1>5. ASSUME NEW v \in Workers, WorkerStep(v)
        PROVE  KeepsAttempt(w) \/ StartsAttempt(w)
    <2>a. worker[v] \in Slot
      BY <1>a
    <2>1. CASE PollEmpty(v)
      BY <1>1, <2>1 DEF PollEmpty, vars
    <2>2. CASE ClaimLost(v) \/ FailUnprepared(v) \/ CompleteClaim(v) \/ FailClaim(v)
      BY <1>3, <2>2 DEF ClaimLost, FailUnprepared, CompleteClaim, FailClaim
    <2>3. ASSUME NEW target \in RunStatus, SuspendClaim(v, target)
          PROVE  KeepsAttempt(w)
      BY <1>3, <2>3 DEF SuspendClaim
    <2>4. CASE PrepareClaim(v)
      BY <1>a, <2>4 DEF PrepareClaim, Slots, Slot
    <2>5. CASE PrepareRaises(v) \/ BindSession(v) \/ EmitCheckpoint(v)
      <3>1. CASE PrepareRaises(v)
        BY <1>a, <3>1 DEF PrepareRaises, Slots, Slot
      <3>2. CASE BindSession(v)
        BY <1>a, <3>2 DEF BindSession, Slots, Slot
      <3>3. CASE EmitCheckpoint(v)
        BY <1>a, <3>3 DEF EmitCheckpoint, Slots, Slot
      <3> QED
        BY <2>5, <3>1, <3>2, <3>3
    <2>6. CASE RecordEvent(v)
      BY <1>a, <2>6 DEF RecordEvent, Forwarding, Streaming, Slots, Slot
    <2>7. ASSUME NEW x \in {"lost", "error"}, EventRaises(v, x)
          PROVE  KeepsAttempt(w)
      BY <1>a, <2>7 DEF EventRaises, Forwarding, Streaming, Slots, Slot
    <2>8. CASE Heartbeat(v)
      BY <1>a, <2>8 DEF Heartbeat, Streaming, Slots, Slot
    <2>9. ASSUME NEW x \in Outcomes, ExecuteReturns(v, x) \/ ExecutionAborts(v, x)
          PROVE  KeepsAttempt(w)
      <3>1. CASE ExecuteReturns(v, x)
        BY <1>a, <3>1 DEF ExecuteReturns, Slots, Slot
      <3>2. CASE ExecutionAborts(v, x)
        BY <1>a, <3>2 DEF ExecutionAborts, Slots, Slot
      <3> QED
        BY <2>9, <3>1, <3>2
    <2>10. CASE CommitRaises(v) \/ StreamRaises(v)
      <3>1. CASE CommitRaises(v)
        BY <1>a, <3>1 DEF CommitRaises, Drained, Slots, Slot
      <3>2. CASE StreamRaises(v)
        <4>1. CASE worker[v].stream = "lost"
          BY <1>3, <3>2, <4>1 DEF StreamRaises
        <4>2. CASE worker[v].stream # "lost"
          <5> DEFINE s == [worker[v] EXCEPT !.pc = "aborting", !.outcome = "failed"]
          <5>1. s.run = worker[v].run /\ s.token = worker[v].token
            BY <2>a DEF Slot
          <5>2. Slots(v, s) /\ worker[v].pc \in Attached
            BY <3>2, <4>2 DEF StreamRaises
          <5> HIDE DEF s
          <5> QED
            BY <1>4, <5>1, <5>2
        <4> QED
          BY <4>1, <4>2
      <3> QED
        BY <2>10, <3>1, <3>2
    <2> QED
      BY <1>2, <1>5, <2>1, <2>2, <2>3, <2>4, <2>5, <2>6, <2>7, <2>8, <2>9, <2>10
      DEF WorkerStep
  <1>6. CASE Environment
    <2>1. ASSUME NEW v \in Workers, PollRaises(v)
          PROVE  KeepsAttempt(w)
      <3>1. [IdleSlot EXCEPT !.pc = "dead"].pc = "dead"
        BY DEF IdleSlot
      <3> QED
        BY <1>a, <2>1, <3>1 DEF PollRaises, Slots
    <2>2. ASSUME NEW v \in Workers, Crash(v)
          PROVE  KeepsAttempt(w)
      BY <1>3, <2>2 DEF Crash
    <2> QED
      BY <1>1, <1>6, <2>1, <2>2
      DEF Environment, LeaseExpires, TransitionRun, CancelRun, WakeWaiter, ApprovalDecided
  <1> QED
    BY <1>1, <1>5, <1>6 DEF Next, vars

LEMMA TokenStep ==
  ASSUME TypeInv, [Next]_vars, NEW r \in Runs
  PROVE  KeepsToken(r) \/ FreesToken(r) \/ GrantsToken(r)
  <1> USE DEF TypeInv, KeepsToken, FreesToken
  <1>a. lease \in [Runs -> Lease] /\ NoLease.token = NoToken /\ lease[r] \in Lease
    BY DEF TypeOK, NoLease
  <1>1. CASE UNCHANGED lease
    BY <1>1
  <1>2. ASSUME NEW q, lease' = [lease EXCEPT ![q] = NoLease]
        PROVE  KeepsToken(r) \/ FreesToken(r)
    BY <1>a, <1>2
  <1>3. ASSUME NEW q, NEW live, lease' = [lease EXCEPT ![q].live = live]
        PROVE  KeepsToken(r)
    BY <1>a, <1>3 DEF Lease
  <1>4. ASSUME NEW v \in Workers, WorkerStep(v)
        PROVE  KeepsToken(r) \/ FreesToken(r) \/ GrantsToken(r)
    <2>1. ASSUME NEW q \in Runs, NEW t \in Tokens, Claim(v, q, t)
          PROVE  KeepsToken(r) \/ GrantsToken(r)
      BY <1>a, <2>1 DEF Claim, GrantsToken
    <2>2. ASSUME NEW target \in RunStatus, SuspendClaim(v, target)
          PROVE  KeepsToken(r) \/ FreesToken(r)
      BY <1>1, <1>2, <2>2 DEF SuspendClaim
    <2>3. CASE FailUnprepared(v) \/ CompleteClaim(v) \/ FailClaim(v)
      BY <1>1, <1>2, <2>3 DEF FailUnprepared, CompleteClaim, FailClaim, CommitTerminal
    <2>4. CASE Heartbeat(v)
      BY <1>1, <1>3, <2>4 DEF Heartbeat
    <2> QED
      BY <1>1, <1>4, <2>1, <2>2, <2>3, <2>4
      DEF WorkerStep, PollEmpty, PrepareClaim, PrepareRaises, ClaimLost, BindSession,
          EmitCheckpoint, RecordEvent, EventRaises, ExecuteReturns, ExecutionAborts,
          CommitRaises, StreamRaises, vars
  <1>5. ASSUME NEW q \in Runs, NEW clock \in Clocks, LeaseExpires(q, clock)
        PROVE  KeepsToken(r)
    <2>1. lease' = [lease EXCEPT ![q].live = lease[q].live \ {clock}]
      BY <1>a, <1>5 DEF LeaseExpires
    <2> QED
      BY <1>3, <2>1
  <1>6. CASE Environment
    BY <1>1, <1>2, <1>5, <1>6
    DEF Environment, PollRaises, Crash, TransitionRun, CancelRun, WakeWaiter, ApprovalDecided
  <1> QED
    BY <1>1, <1>4, <1>6 DEF Next, vars

LEMMA StepTokensDistinct == TypeInv /\ TokensDistinct /\ [Next]_vars => TokensDistinct'
  <1> SUFFICES ASSUME TypeInv, TokensDistinct, [Next]_vars,
                      NEW v \in Workers, NEW w \in Workers,
                      worker'[v].pc \in Attached, worker'[w].pc \in Attached,
                      worker'[v].token = worker'[w].token
               PROVE  v = w
    BY DEF TokensDistinct
  <1>1. worker[v].token \in TokensInUse /\ worker[w].token \in TokensInUse
    BY DEF TokensInUse
  <1>2. KeepsAttempt(v) \/ StartsAttempt(v)
    BY AttemptStep
  <1>3. KeepsAttempt(w) \/ StartsAttempt(w)
    BY AttemptStep
  <1> QED
    BY <1>1, <1>2, <1>3 DEF KeepsAttempt, StartsAttempt, TokensDistinct

\* Two slots never both hold a Run, whatever their worker_ids are and however
\* the clocks of the database and of the hosts differ.
THEOREM OwnerIsExclusive == Spec => []ExclusiveOwner
  <1>1. Init => TypeInv /\ TokensDistinct
    BY InitTypeInv DEF Init, TokensDistinct, IdleSlot
  <1>2. TypeInv /\ TokensDistinct /\ [Next]_vars => (TypeInv /\ TokensDistinct)'
    BY StepTypeInv, StepTokensDistinct
  <1>3. TypeInv /\ TokensDistinct => ExclusiveOwner
    BY DEF TokensDistinct, ExclusiveOwner, Owns, HoldsToken
  <1> QED
    BY <1>1, <1>2, <1>3, PTL DEF Spec

-----------------------------------------------------------------------------
(* The events of the attempt that holds the token, and the session row.    *)

\* The progress step that the forwarded events of the attempt have made durable.
ForwardedStep(w) == IF worker[w].forwarded > 1
                    THEN worker[w].stepBase + worker[w].forwarded - 1
                    ELSE worker[w].stepBase

CountersInOrder == \A w \in Workers :
    /\ worker[w].forwarded <= worker[w].emitted
    /\ worker[w].pc \in {"claimed", "prepared"} => worker[w].emitted = 0

Prepared == {"prepared", "executing", "returned", "aborting"}

InSync(w) == /\ session[worker[w].run].lastSeq = worker[w].seqBase + worker[w].forwarded
             /\ session[worker[w].run].step = ForwardedStep(w)

\* Only the holder of the token moves the cursor and the checkpoint, so they are
\* exactly where its own events have put them.
SessionInSync == \A w \in Workers :
    worker[w].pc \in Prepared /\ HoldsToken(w) => InSync(w)

LEMMA StepCountersInOrder == TypeInv /\ CountersInOrder /\ [Next]_vars => CountersInOrder'
  <1> SUFFICES ASSUME TypeInv, CountersInOrder, [Next]_vars
               PROVE  CountersInOrder'
    OBVIOUS
  <1> USE DEF TypeInv, CountersInOrder
  <1>a. worker \in [Workers -> Slot]
    BY DEF TypeOK
  <1>b. ASSUME NEW w \in Workers, NEW s, Slots(w, s), s.forwarded <= s.emitted,
               s.pc \in {"claimed", "prepared"} => s.emitted = 0
        PROVE  CountersInOrder'
    BY <1>a, <1>b DEF Slots
  <1>1. CASE UNCHANGED worker
    BY <1>1
  <1>2. ASSUME NEW w \in Workers, Release(w)
        PROVE  CountersInOrder'
    <2>1. IdleSlot.pc = "idle" /\ IdleSlot.forwarded = 0 /\ IdleSlot.emitted = 0
      BY DEF IdleSlot
    <2> QED
      BY <1>2, <1>b, <2>1 DEF Release
  <1>3. ASSUME NEW w \in Workers, WorkerStep(w)
        PROVE  CountersInOrder'
    <2>a. worker[w] \in Slot /\ worker[w].emitted \in Nat /\ worker[w].forwarded \in Nat
      BY <1>a DEF Slot
    <2>1. ASSUME NEW q \in Runs, NEW t \in Tokens, Claim(w, q, t)
          PROVE  CountersInOrder'
      <3> DEFINE s == [IdleSlot EXCEPT !.pc = "claimed", !.run = q, !.token = t,
                                       !.recovering = status[q] # "pending"]
      <3>1. s.forwarded = 0 /\ s.emitted = 0
        BY DEF IdleSlot
      <3>2. Slots(w, s)
        BY <2>1 DEF Claim
      <3> HIDE DEF s
      <3> QED
        BY <1>b, <3>1, <3>2
    <2>2. CASE ClaimLost(w) \/ FailUnprepared(w) \/ CompleteClaim(w) \/ FailClaim(w)
      BY <1>2, <2>2 DEF ClaimLost, FailUnprepared, CompleteClaim, FailClaim
    <2>3. ASSUME NEW target \in RunStatus, SuspendClaim(w, target)
          PROVE  CountersInOrder'
      BY <1>2, <2>3 DEF SuspendClaim
    <2>4. CASE PrepareClaim(w)
      BY <1>a, <2>a, <2>4 DEF PrepareClaim, Slots, Slot
    <2>5. CASE PrepareRaises(w)
      BY <1>a, <2>a, <2>5 DEF PrepareRaises, Slots, Slot
    <2>6. CASE BindSession(w)
      <3>1. worker[w].forwarded = 0
        BY <2>a, <2>6 DEF BindSession
      <3> QED
        BY <1>a, <2>a, <2>6, <3>1 DEF BindSession, Slots, Slot
    <2>7. CASE EmitCheckpoint(w)
      BY <1>a, <2>a, <2>7 DEF EmitCheckpoint, Slots, Slot
    <2>8. CASE RecordEvent(w)
      BY <1>a, <2>a, <2>8 DEF RecordEvent, Forwarding, Streaming, Slots, Slot
    <2>9. ASSUME NEW x \in {"lost", "error"}, EventRaises(w, x)
          PROVE  CountersInOrder'
      BY <1>a, <2>a, <2>9 DEF EventRaises, Slots, Slot
    <2>10. CASE Heartbeat(w)
      BY <1>a, <2>a, <2>10 DEF Heartbeat, Slots, Slot
    <2>11. ASSUME NEW x \in Outcomes, ExecuteReturns(w, x)
          PROVE  CountersInOrder'
      BY <1>a, <2>a, <2>11 DEF ExecuteReturns, Slots, Slot
    <2>12. ASSUME NEW x \in Outcomes, ExecutionAborts(w, x)
          PROVE  CountersInOrder'
      BY <1>a, <2>a, <2>12 DEF ExecutionAborts, Slots, Slot
    <2>13. CASE CommitRaises(w)
      BY <1>a, <2>a, <2>13 DEF CommitRaises, Slots, Slot
    <2>14. CASE StreamRaises(w)
      <3>1. CASE Release(w)
        BY <1>2, <3>1
      <3>2. CASE Slots(w, [worker[w] EXCEPT !.pc = "aborting", !.outcome = "failed"])
        BY <1>a, <2>a, <3>2 DEF Slots, Slot
      <3> QED
        BY <2>14, <3>1, <3>2 DEF StreamRaises
    <2> QED
      BY <1>1, <1>3, <2>1, <2>2, <2>3, <2>4, <2>5, <2>6, <2>7, <2>8, <2>9, <2>10,
         <2>11, <2>12, <2>13, <2>14 DEF WorkerStep, PollEmpty, vars
  <1>4. CASE Environment
    <2>1. ASSUME NEW w \in Workers, PollRaises(w)
          PROVE  CountersInOrder'
      <3> DEFINE s == [IdleSlot EXCEPT !.pc = "dead"]
      <3>1. s.forwarded = 0 /\ s.emitted = 0
        BY DEF IdleSlot
      <3>2. Slots(w, s)
        BY <2>1 DEF PollRaises
      <3> HIDE DEF s
      <3> QED
        BY <1>b, <3>1, <3>2
    <2>2. ASSUME NEW w \in Workers, Crash(w)
          PROVE  CountersInOrder'
      BY <1>2, <2>2 DEF Crash
    <2> QED
      BY <1>1, <1>4, <2>1, <2>2
      DEF Environment, LeaseExpires, TransitionRun, CancelRun, WakeWaiter, ApprovalDecided
  <1> QED
    BY <1>1, <1>3, <1>4 DEF Next, vars

\* A worker changes no slot but its own.
LEMMA WorkerFrame ==
  ASSUME TypeInv, NEW v \in Workers, WorkerStep(v), NEW w \in Workers, v # w
  PROVE  worker'[w] = worker[w]
  <1> worker \in [Workers -> Slot]
    BY DEF TypeInv, TypeOK
  <1>1. ASSUME NEW s, Slots(v, s)
        PROVE  worker'[w] = worker[w]
    BY <1>1 DEF Slots
  <1>2. CASE Release(v)
    BY <1>1, <1>2 DEF Release
  <1> QED
    BY <1>1, <1>2 DEF WorkerStep, Claim, PollEmpty, PrepareClaim, PrepareRaises, ClaimLost,
       FailUnprepared, BindSession, EmitCheckpoint, RecordEvent, EventRaises, Heartbeat,
       ExecuteReturns, ExecutionAborts, CompleteClaim, FailClaim, SuspendClaim,
       CommitRaises, StreamRaises, vars

\* Cursor and checkpoint of a session move by the hand of the token holder only.
LEMMA SessionFrame ==
  ASSUME TypeInv, NEW v \in Workers, WorkerStep(v), NEW q \in Runs,
         ~ (HoldsToken(v) /\ worker[v].run = q)
  PROVE  session'[q].lastSeq = session[q].lastSeq /\ session'[q].step = session[q].step
  <1>a. session \in [Runs -> Session] /\ session[q] \in Session
    BY DEF TypeInv, TypeOK
  <1>b. worker[v].run # q \/ ~ Owns(v)
    BY DEF Owns
  <1>1. CASE PrepareClaim(v) \/ BindSession(v)
    BY <1>1, <1>a DEF PrepareClaim, BindSession, Session
  <1>2. CASE RecordEvent(v)
    BY <1>2, <1>a, <1>b DEF RecordEvent, Apply, OwnsActive
  <1>3. CASE CompleteClaim(v)
    BY <1>3, <1>a, <1>b DEF CompleteClaim, MayCommit, CommitTerminal
  <1>4. CASE FailClaim(v)
    BY <1>4, <1>a, <1>b DEF FailClaim, MayCommit, CommitTerminal
  <1>5. ASSUME NEW target \in RunStatus, SuspendClaim(v, target)
        PROVE  session'[q] = session[q]
    BY <1>5, <1>a, <1>b DEF SuspendClaim
  <1> QED
    BY <1>1, <1>2, <1>3, <1>4, <1>5
    DEF WorkerStep, Claim, PollEmpty, PrepareRaises, ClaimLost, FailUnprepared,
        EmitCheckpoint, EventRaises, Heartbeat, ExecuteReturns, ExecutionAborts,
        CommitRaises, StreamRaises, vars

\* The environment changes neither.
LEMMA EnvironmentFrame ==
  ASSUME TypeInv, Environment, NEW q \in Runs
  PROVE  session'[q].lastSeq = session[q].lastSeq /\ session'[q].step = session[q].step
  <1>a. session \in [Runs -> Session] /\ session[q] \in Session
    BY DEF TypeInv, TypeOK
  <1>1. ASSUME NEW p \in Runs, NEW st, session' = [session EXCEPT ![p].status = st]
        PROVE  session'[q].lastSeq = session[q].lastSeq /\ session'[q].step = session[q].step
    BY <1>1, <1>a DEF Session
  <1> QED
    BY <1>1 DEF Environment, PollRaises, Crash, LeaseExpires, TransitionRun, CancelRun,
       WakeWaiter, ApprovalDecided

LEMMA StepSessionInSync ==
  TypeInv /\ TokensDistinct /\ CountersInOrder /\ SessionInSync /\ [Next]_vars => SessionInSync'
  <1> SUFFICES ASSUME TypeInv, TokensDistinct, CountersInOrder, SessionInSync, [Next]_vars,
                      NEW w \in Workers, worker'[w].pc \in Prepared, HoldsToken(w)'
               PROVE  InSync(w)'
    BY DEF SessionInSync
  <1> DEFINE r == worker[w].run
  <1>a. worker \in [Workers -> Slot] /\ worker[w] \in Slot /\ session \in [Runs -> Session]
    BY DEF TypeInv, TypeOK
  <1>b. worker'[w].pc \in Attached /\ worker'[w].pc # "claimed"
    BY DEF Prepared
  <1>1. KeepsAttempt(w)
    BY <1>b, AttemptStep DEF StartsAttempt
  <1>2. r \in Runs /\ worker[w].token \in Tokens /\ worker[w].token \in TokensInUse
    BY <1>1 DEF KeepsAttempt, TypeInv, AttachedHasClaim, TokensInUse
  <1>3. HoldsToken(w)
    BY <1>1, <1>2, TokenStep, IdAssumption
    DEF HoldsToken, KeepsAttempt, KeepsToken, FreesToken, GrantsToken
  <1>4. ASSUME NEW v \in Workers, HoldsToken(v), worker[v].run = r
        PROVE  v = w
    BY <1>3, <1>4 DEF HoldsToken, TokensDistinct
  <1>5. session[r] \in Session
    BY <1>2, <1>a
  \* The row and the counters of the attempt as they were.
  <1>6. ASSUME worker[w].pc \in Prepared,
               worker'[w].seqBase = worker[w].seqBase,
               worker'[w].stepBase = worker[w].stepBase,
               worker'[w].forwarded = worker[w].forwarded,
               session'[r].lastSeq = session[r].lastSeq,
               session'[r].step = session[r].step
        PROVE  InSync(w)'
    BY <1>1, <1>3, <1>6 DEF SessionInSync, InSync, ForwardedStep, KeepsAttempt
  <1>7. ASSUME NEW v \in Workers, WorkerStep(v), v # w
        PROVE  InSync(w)'
    <2>1. worker'[w] = worker[w]
      BY <1>7, WorkerFrame
    <2>2. session'[r].lastSeq = session[r].lastSeq /\ session'[r].step = session[r].step
      BY <1>2, <1>4, <1>7, SessionFrame
    <2> QED
      BY <1>6, <1>b, <2>1, <2>2
  <1>8. CASE UNCHANGED vars
    BY <1>6, <1>b, <1>8 DEF vars
  <1>9. CASE Environment
    <2>1. worker'[w] = worker[w]
      <3>1. ASSUME NEW v \in Workers, Crash(v) \/ PollRaises(v), v = w
            PROVE  FALSE
        <4>1. [IdleSlot EXCEPT !.pc = "dead"].pc = "dead" /\ IdleSlot.pc = "idle"
          BY DEF IdleSlot
        <4> QED
          BY <1>a, <1>b, <3>1, <4>1 DEF Crash, PollRaises, Release, Slots
      <3>2. ASSUME NEW v \in Workers, Crash(v) \/ PollRaises(v), v # w
            PROVE  worker'[w] = worker[w]
        BY <1>a, <3>2 DEF Crash, PollRaises, Release, Slots
      <3> QED
        BY <1>9, <3>1, <3>2
        DEF Environment, LeaseExpires, TransitionRun, CancelRun, WakeWaiter, ApprovalDecided
    <2> QED
      BY <1>2, <1>6, <1>9, <1>b, <2>1, EnvironmentFrame
  \* The steps of the attempt itself.
  <1>10. ASSUME WorkerStep(w)
         PROVE  InSync(w)'
    <2>a. worker[w].forwarded \in Nat /\ worker[w].seqBase \in Nat
            /\ worker[w].stepBase \in Nat /\ worker[w].emitted \in Nat
      BY <1>a DEF Slot
    <2>b. ASSUME NEW s, Slots(w, s)
          PROVE  worker'[w] = s
      BY <1>a, <2>b DEF Slots
    <2>1. ~ Release(w)
      <3>1. IdleSlot.pc = "idle"
        BY DEF IdleSlot
      <3> QED
        BY <1>b, <2>b, <3>1 DEF Release
    <2>2. ASSUME NEW q \in Runs, NEW t \in Tokens, Claim(w, q, t)
          PROVE  FALSE
      BY <1>1, <2>2 DEF Claim, KeepsAttempt
    <2>3. CASE PrepareClaim(w)
      <3>1. worker'[w].forwarded = 0 /\ worker'[w].seqBase = session[r].lastSeq
              /\ worker'[w].stepBase = session[r].step /\ worker'[w].run = r
        <4>1. worker[w].forwarded = 0
          BY <2>3, <2>a DEF PrepareClaim, CountersInOrder
        <4> QED
          BY <1>a, <2>3, <4>1 DEF PrepareClaim, Slots, Slot
      <3>2. session'[r].lastSeq = session[r].lastSeq /\ session'[r].step = session[r].step
        BY <1>2, <1>5, <1>a, <2>3 DEF PrepareClaim, Session
      <3>3. session[r].lastSeq \in Nat
        BY <1>5 DEF Session
      <3> QED
        BY <3>1, <3>2, <3>3 DEF InSync, ForwardedStep
    <2>4. CASE BindSession(w)
      <3>1. session'[r].lastSeq = session[r].lastSeq /\ session'[r].step = session[r].step
        BY <1>2, <1>5, <1>a, <2>4 DEF BindSession, Session
      <3>2. /\ worker'[w].seqBase = worker[w].seqBase
            /\ worker'[w].stepBase = worker[w].stepBase
            /\ worker'[w].forwarded = worker[w].forwarded
        BY <1>a, <2>4 DEF BindSession, Slots, Slot
      <3> QED
        BY <1>6, <2>4, <3>1, <3>2 DEF BindSession, Prepared
    <2>5. CASE RecordEvent(w)
      <3> DEFINE k == worker[w].forwarded + 1
      <3>1. InSync(w)
        BY <1>3, <2>5 DEF RecordEvent, Forwarding, Streaming, Prepared, SessionInSync
      <3>2. worker[w].seqBase + k = session[r].lastSeq + 1
        BY <2>a, <3>1 DEF InSync
      <3>3. Slots(w, [worker[w] EXCEPT !.forwarded = k]) /\ Apply(w, k)
        BY <2>5, <2>a, <3>2 DEF RecordEvent
      <3>4. worker'[w].forwarded = k /\ worker'[w].seqBase = worker[w].seqBase
              /\ worker'[w].stepBase = worker[w].stepBase /\ worker'[w].run = r
        BY <1>a, <3>3 DEF Slots, Slot
      <3>5. session'[r].lastSeq = worker[w].seqBase + k
        BY <1>2, <1>5, <1>a, <3>3 DEF Apply, Session
      <3>6. session'[r].step = IF k = 1 THEN session[r].step ELSE worker[w].stepBase + k - 1
        BY <1>2, <1>5, <1>a, <3>3 DEF Apply, Session
      <3> QED
        BY <2>a, <3>1, <3>4, <3>5, <3>6 DEF InSync, ForwardedStep
    <2>6. ASSUME UNCHANGED session, worker[w].pc \in Prepared,
                 NEW s, Slots(w, s), s.seqBase = worker[w].seqBase,
                 s.stepBase = worker[w].stepBase, s.forwarded = worker[w].forwarded
          PROVE  InSync(w)'
      BY <1>6, <2>6, <2>b
    <2>7. CASE EmitCheckpoint(w)
      BY <1>a, <2>6, <2>7 DEF EmitCheckpoint, Slot, Prepared
    <2>8. ASSUME NEW x \in {"lost", "error"}, EventRaises(w, x)
          PROVE  InSync(w)'
      BY <1>a, <2>6, <2>8 DEF EventRaises, Forwarding, Streaming, Slot, Prepared
    <2>9. CASE Heartbeat(w)
      <3>1. CASE UNCHANGED worker
        BY <1>6, <1>b, <2>9, <3>1 DEF Heartbeat
      <3>2. CASE Slots(w, [worker[w] EXCEPT !.cancel = TRUE])
        BY <1>a, <2>6, <2>9, <3>2 DEF Heartbeat, Streaming, Slot, Prepared
      <3> QED
        BY <2>9, <3>1, <3>2 DEF Heartbeat
    <2>10. ASSUME NEW x \in Outcomes, ExecuteReturns(w, x)
           PROVE  InSync(w)'
      BY <1>a, <2>6, <2>10 DEF ExecuteReturns, Slot, Prepared
    <2>11. ASSUME NEW x \in Outcomes, ExecutionAborts(w, x)
           PROVE  InSync(w)'
      BY <1>a, <2>6, <2>11 DEF ExecutionAborts, Slot, Prepared
    <2>12. CASE CommitRaises(w)
      BY <1>a, <2>6, <2>12 DEF CommitRaises, Drained, Slot, Prepared
    <2>13. CASE StreamRaises(w)
      <3>1. Slots(w, [worker[w] EXCEPT !.pc = "aborting", !.outcome = "failed"])
        BY <2>1, <2>13 DEF StreamRaises
      <3> QED
        BY <1>a, <2>6, <2>13, <3>1 DEF StreamRaises, Slot, Prepared
    <2>14. CASE PrepareRaises(w)
      <3>1. worker'[w].pc = "unprepared"
        BY <1>a, <2>14 DEF PrepareRaises, Slots, Slot
      <3> QED
        BY <3>1 DEF Prepared
    <2>15. CASE PollEmpty(w)
      BY <1>8, <2>15 DEF PollEmpty
    <2> QED
      BY <1>10, <2>1, <2>2, <2>3, <2>4, <2>5, <2>7, <2>8, <2>9, <2>10, <2>11, <2>12,
         <2>13, <2>14, <2>15
      DEF WorkerStep, ClaimLost, FailUnprepared, CompleteClaim, FailClaim, SuspendClaim
  <1> QED
    BY <1>7, <1>8, <1>9, <1>10 DEF Next

\* The inductive invariant: types, closed Runs without a lease, tokens that name
\* one attempt, and a session that stands where its token holder has put it.
IInv == TypeInv /\ TerminalReleased /\ TokensDistinct /\ CountersInOrder /\ SessionInSync

LEMMA InitIInv == Init => IInv
  BY InitTypeInv
  DEF Init, IInv, TerminalReleased, TokensDistinct, CountersInOrder, SessionInSync,
      IdleSlot, Prepared

LEMMA StepIInv == IInv /\ [Next]_vars => IInv'
  BY StepTypeInv, StepTerminalReleased, StepTokensDistinct, StepCountersInOrder,
     StepSessionInSync DEF IInv

LEMMA InvariantIInv == Spec => []IInv
  BY InitIInv, StepIInv, PTL DEF Spec

\* Every takeover numbers its events on from where the cursor stands: nothing of
\* the owner is refused as a gap or dropped as a duplicate.
THEOREM CursorIsMet == Spec => []CursorMeetsOwner
  <1>1. IInv => CursorMeetsOwner
    BY DEF IInv, CursorMeetsOwner, SessionInSync, InSync, Owns, Streaming, Prepared
  <1> QED
    BY <1>1, InvariantIInv, PTL

\* What an owner commits is what its event stream has made durable already.
THEOREM CommitIsDurable == Spec => []CommitMatchesStream
  <1>1. IInv => CommitMatchesStream
    BY DEF IInv, CommitMatchesStream, SessionInSync, InSync, Owns, Drained, Prepared,
           ForwardedStep, EmittedStep
  <1> QED
    BY <1>1, InvariantIInv, PTL

-----------------------------------------------------------------------------
(* RunLease implements RunOutcome.                                         *)

outcomes == [r \in Runs |-> ResultOf(status[r])]
progress == [r \in Runs |-> session[r].step]

\* Nothing of Run r changes that the abstract specification sees.
Unseen(r) == ResultOf(status'[r]) = ResultOf(status[r]) /\ session'[r].step = session[r].step

LEMMA MapStutter ==
  ASSUME \A r \in Runs : Unseen(r)
  PROVE  outcomes' = outcomes /\ progress' = progress
  BY DEF Unseen, outcomes, progress

LEMMA MapAdvance ==
  ASSUME NEW q \in Runs, \A r \in Runs \ {q} : Unseen(r),
         status[q] \notin TerminalStatus, status'[q] \notin TerminalStatus,
         session'[q].step \in Nat, session'[q].step > session[q].step
  PROVE  Abstract!Next
  <1>1. outcomes' = outcomes /\ outcomes[q] = Abstract!Open
    BY DEF Unseen, outcomes, ResultOf, Abstract!Open
  <1>2. progress' = [progress EXCEPT ![q] = progress'[q]]
    BY DEF Unseen, progress
  <1>3. progress'[q] \in Nat /\ progress'[q] > progress[q]
    BY DEF progress
  <1>4. Abstract!Advance(q)
    BY <1>1, <1>2, <1>3 DEF Abstract!Advance, outcomes, progress
  <1> QED
    BY <1>4 DEF Abstract!Next

LEMMA MapClose ==
  ASSUME NEW q \in Runs, \A r \in Runs \ {q} : Unseen(r),
         status[q] \notin TerminalStatus, status'[q] \in TerminalStatus,
         session'[q].step \in 0..session[q].step
  PROVE  Abstract!Next
  <1>1. outcomes[q] = Abstract!Open
    BY DEF outcomes, ResultOf, Abstract!Open
  <1>2. outcomes' = [outcomes EXCEPT ![q] = status'[q]]
    BY DEF Unseen, outcomes, ResultOf
  <1>3. progress' = [progress EXCEPT ![q] = session'[q].step]
    BY DEF Unseen, progress
  <1>4. session'[q].step \in 0..progress[q]
    BY DEF progress
  <1>5. Abstract!Close(q)
    BY <1>1, <1>2, <1>3, <1>4 DEF Abstract!Close, outcomes, progress
  <1> QED
    BY <1>5 DEF Abstract!Next

LEMMA AbstractInit == Init => Abstract!Init
  BY DEF Init, Abstract!Init, Abstract!Open, NoSession, ResultOf

LEMMA AbstractStep ==
  ASSUME IInv, [Next]_vars
  PROVE  Abstract!Next \/ (outcomes' = outcomes /\ progress' = progress)
  <1> DEFINE Goal == Abstract!Next \/ (outcomes' = outcomes /\ progress' = progress)
  <1>a. /\ status \in [Runs -> RunStatus] /\ session \in [Runs -> Session]
        /\ worker \in [Workers -> Slot]
    BY DEF IInv, TypeInv, TypeOK
  <1>b. \A q \in Runs : session[q] \in Session /\ session[q].step \in Nat
    BY <1>a DEF Session
  <1>1. CASE UNCHANGED <<status, session>>
    BY <1>1, MapStutter DEF Unseen
  <1>2. ASSUME NEW w \in Workers, WorkerStep(w)
        PROVE  Goal
    <2> DEFINE r == worker[w].run
    <2>a. worker[w].pc \in Attached => r \in Runs
      BY DEF IInv, TypeInv, AttachedHasClaim
    <2>b. worker[w].pc \in Attached /\ Owns(w) => status[r] \notin TerminalStatus
      BY <2>a DEF IInv, TerminalReleased, Owns, NoLease
    <2>c. worker[w].forwarded \in Nat /\ worker[w].stepBase \in Nat /\ worker[w].emitted \in Nat
            /\ worker[w].seqBase \in Nat
      BY <1>a DEF Slot
    <2>d. worker[w].pc \in Prepared /\ Owns(w) => InSync(w)
      BY DEF IInv, SessionInSync, Owns
    <2>1. CASE PrepareClaim(w)
      <3>1. \A q \in Runs : Unseen(q)
        BY <1>a, <1>b, <2>1, <2>a DEF PrepareClaim, Unseen, ResultOf, Session
      <3> QED
        BY <3>1, MapStutter
    <2>2. CASE FailUnprepared(w)
      <3>1. CASE UNCHANGED status
        BY <1>1, <2>2, <3>1 DEF FailUnprepared
      <3>2. CASE status[r] \notin TerminalStatus /\ status' = [status EXCEPT ![r] = "failed"]
        <4>1. r \in Runs /\ UNCHANGED session
          BY <2>2, <2>a DEF FailUnprepared
        <4> QED
          BY <1>a, <1>b, <3>2, <4>1, MapClose DEF Unseen
      <3> QED
        BY <2>2, <3>1, <3>2 DEF FailUnprepared
    <2>3. CASE BindSession(w)
      <3>1. \A q \in Runs : Unseen(q)
        BY <1>a, <1>b, <2>3, <2>a DEF BindSession, Unseen, Session
      <3> QED
        BY <3>1, MapStutter
    <2>4. CASE RecordEvent(w)
      <3> DEFINE k == worker[w].forwarded + 1
      <3>1. r \in Runs /\ Owns(w) /\ worker[w].pc \in Prepared
        BY <2>4, <2>a DEF RecordEvent, OwnsActive, Forwarding, Streaming, Prepared
      <3>2. InSync(w) /\ status[r] \notin TerminalStatus
        BY <2>b, <2>d, <3>1 DEF Prepared
      <3>3. Apply(w, k)
        BY <2>4, <2>c, <3>2 DEF RecordEvent, InSync
      <3>4. CASE k = 1
        <4>1. \A q \in Runs : Unseen(q)
          BY <1>a, <1>b, <3>1, <3>3, <3>4 DEF Apply, Unseen, ResultOf, Session
        <4> QED
          BY <4>1, MapStutter
      <3>5. CASE k # 1
        <4>1. UNCHANGED status /\ session'[r].step = worker[w].stepBase + k - 1
          BY <1>a, <1>b, <3>1, <3>3, <3>5 DEF Apply, Session
        <4>2. \A q \in Runs \ {r} : Unseen(q)
          BY <1>a, <3>1, <3>3, <3>5 DEF Apply, Unseen
        <4>3. worker[w].stepBase + k - 1 \in Nat
                /\ worker[w].stepBase + k - 1 > session[r].step
          BY <2>c, <3>2, <3>5 DEF InSync, ForwardedStep
        <4> QED
          BY <3>1, <3>2, <4>1, <4>2, <4>3, MapAdvance
      <3> QED
        BY <3>4, <3>5
    <2>5. ASSUME NEW target \in TerminalStatus, NEW st, NEW step, NEW f,
                 worker[w].pc \in Prepared, Owns(w),
                 step \in 0..session[r].step, CommitTerminal(w, target, st, step, f)
          PROVE  Goal
      <3>1. r \in Runs /\ status[r] \notin TerminalStatus
        BY <2>5, <2>a, <2>b DEF Prepared
      <3>2. \A q \in Runs \ {r} : Unseen(q)
        BY <1>a, <2>5, <3>1 DEF CommitTerminal, Unseen
      <3>3. status'[r] = target /\ session'[r].step = step
        BY <1>a, <1>b, <2>5, <3>1 DEF CommitTerminal, Session
      <3> QED
        BY <2>5, <3>1, <3>2, <3>3, MapClose
    <2>6. CASE CompleteClaim(w)
      <3>1. CASE UNCHANGED <<status, session>>
        BY <1>1, <3>1
      <3>2. CASE MayCommit(w)
        <4>1. r \in Runs /\ Owns(w) /\ worker[w].pc \in Prepared
          BY <2>6, <2>a, <3>2 DEF MayCommit, CompleteClaim, Drained, Prepared
        <4>2. EmittedStep(w) = session[r].step
          BY <2>6, <2>d, <4>1 DEF CompleteClaim, Drained, InSync, ForwardedStep, EmittedStep
        <4>3. EmittedStep(w) \in 0..session[r].step /\ 0 \in 0..session[r].step
          BY <1>b, <4>1, <4>2
        <4> QED
          BY <2>5, <2>6, <3>2, <4>1, <4>3 DEF CompleteClaim
      <3> QED
        BY <2>6, <3>1, <3>2 DEF CompleteClaim
    <2>7. CASE FailClaim(w)
      <3>1. CASE UNCHANGED <<status, session>>
        BY <1>1, <3>1
      <3>2. CASE MayCommit(w)
        <4>1. r \in Runs /\ Owns(w) /\ worker[w].pc \in Prepared
          BY <2>7, <2>a, <3>2 DEF MayCommit, FailClaim, Prepared
        <4>2. session[r].step = ForwardedStep(w)
          BY <2>d, <4>1 DEF InSync
        <4>3. worker[w].stepBase \in 0..session[r].step
          BY <2>c, <4>2 DEF ForwardedStep
        <4>4. worker[w].outcome \in TerminalStatus
          BY <2>7 DEF FailClaim, IInv, TypeInv, AbortHasOutcome
        <4> QED
          BY <2>5, <2>7, <3>2, <4>1, <4>3, <4>4 DEF FailClaim
      <3> QED
        BY <2>7, <3>1, <3>2 DEF FailClaim
    <2>8. ASSUME NEW target \in RunStatus, SuspendClaim(w, target)
          PROVE  Goal
      <3>1. CASE UNCHANGED <<status, session>>
        BY <1>1, <3>1
      <3>2. CASE Owns(w)
        <4>1. r \in Runs /\ worker[w].pc \in Prepared /\ status[r] \notin TerminalStatus
          BY <2>8, <2>a, <2>b, <3>2 DEF SuspendClaim, Drained, Prepared
        <4>2. EmittedStep(w) = session[r].step
          BY <2>8, <2>d, <3>2, <4>1
          DEF SuspendClaim, Drained, InSync, ForwardedStep, EmittedStep
        <4>3. status' = [status EXCEPT ![r] = target] /\ target \notin TerminalStatus
          BY <2>8, <3>2 DEF SuspendClaim
        <4>4. session'[r].step = EmittedStep(w)
                /\ \A q \in Runs \ {r} : session'[q].step = session[q].step
          BY <1>a, <1>b, <2>8, <3>2, <4>1 DEF SuspendClaim, Session
        <4>5. \A q \in Runs : Unseen(q)
          BY <1>a, <4>1, <4>2, <4>3, <4>4 DEF Unseen, ResultOf
        <4> QED
          BY <4>5, MapStutter
      <3> QED
        BY <2>8, <3>1, <3>2 DEF SuspendClaim
    <2> QED
      BY <1>1, <1>2, <2>1, <2>2, <2>3, <2>4, <2>6, <2>7, <2>8
      DEF WorkerStep, Claim, PollEmpty, PrepareRaises, ClaimLost, EmitCheckpoint,
          EventRaises, Heartbeat, ExecuteReturns, ExecutionAborts, CommitRaises,
          StreamRaises, vars
  <1>3. CASE Environment
    <2>1. ASSUME NEW q \in Runs, NEW target \in RunStatus, status[q] \notin TerminalStatus,
                 status' = [status EXCEPT ![q] = target]
          PROVE  Goal
      <3>a. \A r \in Runs : session'[r].step = session[r].step
        BY <1>3, EnvironmentFrame DEF IInv
      <3>1. CASE target \in TerminalStatus
        BY <1>a, <1>b, <2>1, <3>1, <3>a, MapClose DEF Unseen
      <3>2. CASE target \notin TerminalStatus
        <4>1. \A r \in Runs : Unseen(r)
          BY <1>a, <2>1, <3>2, <3>a DEF Unseen, ResultOf
        <4> QED
          BY <4>1, MapStutter
      <3> QED
        BY <3>1, <3>2
    <2>2. ASSUME NEW q \in Runs, NEW target \in RunStatus, TransitionRun(q, target)
          PROVE  Goal
      <3>1. status[q] \notin TerminalStatus
        BY <1>a, <2>2 DEF TransitionRun, RunTransitions
      <3> QED
        BY <2>1, <2>2, <3>1 DEF TransitionRun
    <2>3. ASSUME NEW q \in Runs, CancelRun(q) \/ WakeWaiter(q) \/ ApprovalDecided(q)
          PROVE  Goal
      BY <2>1, <2>3 DEF CancelRun, WakeWaiter, ApprovalDecided
    <2> QED
      BY <1>1, <1>3, <2>2, <2>3 DEF Environment, PollRaises, Crash, LeaseExpires
  <1> QED
    BY <1>1, <1>2, <1>3 DEF Next, vars

\* A Run is closed once and for good, and its durable progress never moves back
\* while it is open, whatever workers, operators, clocks and crashes do.
THEOREM ImplementsRunOutcome == Spec => RefinesRunOutcome
  <1>1. IInv /\ [Next]_vars => [Abstract!Next]_<<outcomes, progress>>
    BY AbstractStep
  <1> QED
    BY <1>1, AbstractInit, InvariantIInv, PTL
    DEF Spec, RefinesRunOutcome, Abstract!Spec, outcomes, progress

=============================================================================
