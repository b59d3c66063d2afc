-------------------------- MODULE ToolGatewayProofs --------------------------
(***************************************************************************)
(* What ToolGateway guarantees for any number of workers, calls, tries and *)
(* disruptions.                                                            *)
(***************************************************************************)
EXTENDS ToolGateway, SequenceTheorems, TLAPS

PCs == {"idle", "executing", "begun", "effected", "suspended", "returned", "aborting"}

\* The request of a call is open only before the call runs, and what was not approved
\* has settled the call.
RequestsMatch == \A k \in Calls :
    /\ approval[k] # "none" => call[k].status # "none"
    /\ approval[k] = "requested" => call[k].status \in {"pending"} \union Settled
    /\ approval[k] \in {"rejected", "expired", "cancelled"} => call[k].status \in Settled

ClosedIsReleased == run.status \in Closed => run.holder = NoWorker

IsSettled(k) == call[k].status \in Settled
Granted(k) == approval[k] \in Approved \/ RunScopeGrant

\* What a slot has seen is settled, and what it executes is approved and its own.
SlotInv(w) ==
    /\ \A k \in worker[w].made \union worker[w].cp.seen : IsSettled(k)
    /\ \A i \in DOMAIN worker[w].stream : \A k \in worker[w].stream[i].seen : IsSettled(k)
    /\ worker[w].pc \in {"begun", "effected"} => worker[w].at \in Calls
    /\ \A k \in Calls : InExecutor(w, k) =>
          /\ k \in RiskyCalls => Granted(k)
          /\ Owns(w) => call[k].status = "running" /\ call[k].token = w

SeenInv == \A k \in run.cp.seen : IsSettled(k)

GInv == TypeOK /\ RequestsMatch /\ ClosedIsReleased /\ SeenInv /\ \A w \in Workers : SlotInv(w)

\* What no step takes back.
Stays == \A k \in Calls : /\ IsSettled(k) => IsSettled(k)'
                          /\ approval[k] \in Approved => approval'[k] = approval[k]

\* A slot that takes no part in the step, and whose call is not touched while it owns the Run.
Bystander(v) ==
    /\ worker'[v] = worker[v]
    /\ Owns(v)' => /\ Owns(v)
                   /\ \A k \in Calls : InExecutor(v, k) /\ call[k].status = "running" /\ call[k].token = v
                         => call'[k].status = "running" /\ call'[k].token = v

USE GatewayAssumption

-----------------------------------------------------------------------------
(* Rows                                                                    *)

LEMMA Types ==
  ASSUME TypeOK
  PROVE  /\ run \in Run /\ run.status \in Status /\ run.holder \in Workers \union {NoWorker}
         /\ run.cp \in Checkpoint /\ run.cp.seen \subseteq Calls
         /\ call \in [Calls -> Call]
         /\ \A k \in Calls : /\ call[k] \in Call /\ call[k].token \in Workers \union {NoWorker}
                             /\ call[k].status \in {"none", "pending", "running"} \union Settled
                             /\ call[k].tries \in Nat
         /\ approval \in [Calls -> Approval]
         /\ worker \in [Workers -> Slot]
         /\ \A w \in Workers : /\ worker[w] \in Slot /\ worker[w].pc \in PCs
                               /\ worker[w].cp \in Checkpoint /\ worker[w].cp.seen \subseteq Calls
                               /\ worker[w].cp.calls \subseteq Calls
                               /\ worker[w].stream \in Seq(Checkpoint)
                               /\ worker[w].made \subseteq Calls
                               /\ worker[w].at \in Calls \union {NoCall}
                               /\ worker[w].result \in Results
  <1>1. run \in Run /\ call \in [Calls -> Call] /\ approval \in [Calls -> Approval] /\ worker \in [Workers -> Slot]
    BY DEF TypeOK
  <1>2. run.status \in Status /\ run.holder \in Workers \union {NoWorker} /\ run.cp \in Checkpoint
    BY <1>1 DEF Run
  <1>3. \A cp \in Checkpoint : cp.seen \subseteq Calls /\ cp.calls \subseteq Calls
    BY DEF Checkpoint
  <1>4. \A row \in Call : /\ row.token \in Workers \union {NoWorker} /\ row.tries \in Nat
                          /\ row.status \in {"none", "pending", "running"} \union Settled
    BY DEF Call
  <1>5. \A row \in Slot : /\ row.pc \in PCs /\ row.cp \in Checkpoint /\ row.stream \in Seq(Checkpoint)
                          /\ row.made \subseteq Calls /\ row.at \in Calls \union {NoCall}
                          /\ row.result \in Results
    BY DEF Slot, PCs
  <1> QED
    BY <1>1, <1>2, <1>3, <1>4, <1>5

LEMMA SlotStays ==
  ASSUME GInv, Stays, NEW v \in Workers, Bystander(v)
  PROVE  SlotInv(v)'
  <1>1. SlotInv(v) /\ worker[v].made \union worker[v].cp.seen \subseteq Calls
    BY Types DEF GInv
  <1>2. worker'[v] = worker[v]
    BY DEF Bystander
  <1>3. \A k \in worker'[v].made \union worker'[v].cp.seen : IsSettled(k)'
    BY <1>1, <1>2 DEF SlotInv, Stays
  <1>4. ASSUME NEW i \in DOMAIN worker'[v].stream PROVE \A k \in worker'[v].stream[i].seen : IsSettled(k)'
    <2>1. worker[v].stream[i] \in Checkpoint
      BY <1>2, Types, ElementOfSeq, LenProperties DEF GInv
    <2>2. worker[v].stream[i].seen \subseteq Calls
      BY <2>1 DEF Checkpoint
    <2> QED
      BY <1>1, <1>2, <2>2 DEF SlotInv, Stays
  <1>5. \A k \in Calls : Granted(k) => Granted(k)'
    BY DEF Stays, Granted, RunScopeGrant, Approved, GInv
  <1>6. \A k \in Calls : InExecutor(v, k)' => InExecutor(v, k)
    BY <1>2 DEF InExecutor
  <1> QED
    BY <1>1, <1>2, <1>3, <1>4, <1>5, <1>6 DEF SlotInv, Bystander

LEMMA SeenStays ==
  ASSUME GInv, Stays, run'.cp = run.cp PROVE SeenInv'
  BY Types DEF GInv, SeenInv, Stays

-----------------------------------------------------------------------------
(* Steps of the loop that write no row                                     *)

\* The slot goes on, in memory only.
LEMMA LocalStep ==
  ASSUME GInv, UNCHANGED <<run, call, approval>>, returned' \in [Calls -> 0..2], disruptions' = disruptions,
         NEW w \in Workers, NEW row \in Slot, worker' = [worker EXCEPT ![w] = row],
         worker[w].pc # "idle",
         \A k \in row.made \union row.cp.seen : IsSettled(k),
         \A i \in DOMAIN row.stream : \A k \in row.stream[i].seen : IsSettled(k),
         row.pc \in {"begun", "effected"} => worker[w].pc \in {"begun", "effected"} /\ row.at = worker[w].at
  PROVE  GInv'
  <1>1. worker' \in [Workers -> Slot] /\ worker'[w] = row /\ \A v \in Workers : v # w => worker'[v] = worker[v]
    BY Types DEF GInv
  <1>2. TypeOK'
    BY <1>1 DEF GInv, TypeOK
  <1>3. RequestsMatch' /\ ClosedIsReleased' /\ SeenInv'
    BY DEF GInv, RequestsMatch, ClosedIsReleased, SeenInv, IsSettled
  <1>4. Stays
    BY DEF Stays, IsSettled
  <1>5. \A v \in Workers : v # w => Bystander(v)
    BY <1>1 DEF Bystander, Owns
  <1>6. SlotInv(w)'
    <2>1. \A k : IsSettled(k)' = IsSettled(k) /\ Granted(k)' = Granted(k)
      BY DEF IsSettled, Granted, RunScopeGrant
    <2>2. \A k \in Calls : InExecutor(w, k)' => InExecutor(w, k)
      BY <1>1 DEF InExecutor
    <2>3. Owns(w)' => Owns(w)
      BY <1>1 DEF Owns
    <2>4. SlotInv(w)
      BY DEF GInv
    <2> QED
      BY <1>1, <2>1, <2>2, <2>3, <2>4 DEF SlotInv
  <1> QED
    BY <1>2, <1>3, <1>4, <1>5, <1>6, SlotStays DEF GInv

\* The rows that a slot may become.
LEMMA SlotAt ==
  ASSUME TypeOK, NEW w \in Workers, NEW pc \in PCs
  PROVE  LET row == [worker[w] EXCEPT !.pc = pc]
         IN  /\ row \in Slot /\ row.pc = pc /\ row.cp = worker[w].cp /\ row.stream = worker[w].stream
             /\ row.made = worker[w].made /\ row.at = worker[w].at
  <1>1. worker[w] \in Slot
    BY Types
  <1> QED
    BY <1>1 DEF Slot, PCs

LEMMA GotoStep ==
  ASSUME GInv, UNCHANGED <<run, call, approval>>, returned' = returned, disruptions' = disruptions,
         NEW w \in Workers, NEW pc \in PCs \ {"idle", "begun", "effected"}, Goto(w, pc),
         worker[w].pc # "idle"
  PROVE  GInv'
  <1> DEFINE row == [worker[w] EXCEPT !.pc = pc]
  <1>1. /\ row \in Slot /\ row.pc = pc /\ row.cp = worker[w].cp /\ row.stream = worker[w].stream
        /\ row.made = worker[w].made
    BY SlotAt DEF GInv
  <1>2. worker' = [worker EXCEPT ![w] = row]
    BY Types DEF Goto, GInv
  <1>3. SlotInv(w) /\ returned \in [Calls -> 0..2]
    BY DEF GInv, TypeOK
  <1> HIDE DEF row
  <1> QED
    BY <1>1, <1>2, <1>3, LocalStep DEF SlotInv

LEMMA EmitStep ==
  ASSUME GInv, UNCHANGED <<run, call, approval>>, returned' = returned, disruptions' = disruptions,
         NEW w \in Workers, NEW cp \in Checkpoint, NEW pc \in {"executing", "returned"}, Emit(w, cp, pc),
         worker[w].pc # "idle", \A k \in cp.seen : IsSettled(k)
  PROVE  GInv'
  <1> DEFINE stream == Append(worker[w].stream, cp)
             row == [worker[w] EXCEPT !.cp = cp, !.stream = stream, !.made = {}, !.at = NoCall, !.pc = pc]
  <1>0. worker[w] \in Slot /\ worker[w].stream \in Seq(Checkpoint) /\ worker \in [Workers -> Slot]
    BY Types DEF GInv
  <1>1. /\ stream \in Seq(Checkpoint) /\ Len(stream) = Len(worker[w].stream) + 1
        /\ \A i \in 1..Len(worker[w].stream) : stream[i] = worker[w].stream[i]
        /\ stream[Len(worker[w].stream) + 1] = cp
    BY <1>0, AppendProperties
  <1>2. worker' = [worker EXCEPT ![w] = row]
    BY <1>0 DEF Emit
  <1>3. SlotInv(w) /\ returned \in [Calls -> 0..2]
    BY DEF GInv, TypeOK
  <1>4. ASSUME NEW i \in DOMAIN stream PROVE \A k \in stream[i].seen : IsSettled(k)
    <2>1. i \in 1..(Len(worker[w].stream) + 1) /\ Len(worker[w].stream) \in Nat
          /\ DOMAIN worker[w].stream = 1..Len(worker[w].stream)
      BY <1>0, <1>1, LenProperties
    <2>2. CASE i = Len(worker[w].stream) + 1
      BY <1>1, <2>2
    <2>3. CASE i \in 1..Len(worker[w].stream)
      BY <1>1, <1>3, <2>1, <2>3 DEF SlotInv
    <2> QED
      BY <2>1, <2>2, <2>3
  <1> HIDE DEF stream
  <1>5. row \in Slot /\ row.cp = cp /\ row.stream = stream /\ row.made = {} /\ row.pc = pc
    BY <1>0, <1>1 DEF Slot
  <1> HIDE DEF row
  <1> QED
    BY <1>2, <1>3, <1>4, <1>5, LocalStep

LEMMA LoopStep ==
  ASSUME GInv, NEW w \in Workers,
         \/ \E calls \in SUBSET Calls : ModelActs(w, calls)
         \/ ModelAnswers(w) \/ LoopEnds(w) \/ Observe(w) \/ Abort(w)
         \/ \E k \in Calls : BeginLost(w, k)
  PROVE  GInv'
  <1> DEFINE cp == worker[w].cp
  <1>0. cp \in Checkpoint /\ cp.seen \subseteq Calls /\ cp.calls \subseteq Calls /\ SlotInv(w)
    BY Types DEF GInv
  <1>1. ASSUME NEW calls \in SUBSET Calls, ModelActs(w, calls) PROVE GInv'
    <2> DEFINE new == [cp EXCEPT !.state = "acting", !.calls = calls]
    <2>1. new \in Checkpoint /\ new.seen = cp.seen
      BY <1>0 DEF Checkpoint
    <2>2. \A k \in new.seen : IsSettled(k)
      BY <1>0, <2>1 DEF SlotInv
    <2>3. Emit(w, new, "executing") /\ worker[w].pc # "idle"
      BY <1>1 DEF ModelActs, Executing
    <2> HIDE DEF new
    <2> QED
      BY <1>1, <2>1, <2>2, <2>3, EmitStep DEF ModelActs
  <1>2. CASE ModelAnswers(w)
    <2> DEFINE new == [cp EXCEPT !.state = "final"]
    <2>1. new \in Checkpoint /\ new.seen = cp.seen
      BY <1>0 DEF Checkpoint
    <2>2. \A k \in new.seen : IsSettled(k)
      BY <1>0, <2>1 DEF SlotInv
    <2>3. Emit(w, new, "returned") /\ worker[w].pc # "idle"
      BY <1>2 DEF ModelAnswers, Executing
    <2> HIDE DEF new
    <2> QED
      BY <1>2, <2>1, <2>2, <2>3, EmitStep DEF ModelAnswers
  <1>3. CASE Observe(w)
    <2> DEFINE seen == cp.seen \union cp.calls
               new == [state |-> "observing", calls |-> {}, seen |-> seen]
    <2>1. seen \subseteq Calls /\ \A k \in seen : IsSettled(k)
      BY <1>0, <1>3 DEF SlotInv, Observe
    <2>2. Emit(w, new, "executing") /\ worker[w].pc # "idle"
      BY <1>3 DEF Observe, Executing
    <2> HIDE DEF seen
    <2>3. new \in Checkpoint /\ new.seen = seen
      BY <2>1 DEF Checkpoint
    <2> HIDE DEF new
    <2> QED
      BY <1>3, <2>1, <2>2, <2>3, EmitStep DEF Observe
  <1>4. CASE LoopEnds(w) \/ Abort(w) \/ \E k \in Calls : BeginLost(w, k)
    <2>1. \/ Goto(w, "returned") \/ Goto(w, "aborting")
      BY <1>4 DEF LoopEnds, Abort, BeginLost
    <2>2. UNCHANGED <<run, call, approval>> /\ returned' = returned /\ disruptions' = disruptions
          /\ worker[w].pc # "idle"
      BY <1>4 DEF LoopEnds, Abort, BeginLost, NextCall, Executing
    <2> QED
      BY <2>1, <2>2, GotoStep DEF PCs
  <1> QED
    BY <1>1, <1>2, <1>3, <1>4

LEMMA ExecuteStep ==
  ASSUME GInv, NEW w \in Workers, NEW result \in Results, Execute(w, result)
  PROVE  GInv'
  <1> DEFINE row == [worker[w] EXCEPT !.pc = "effected", !.result = result]
  <1>1. worker[w] \in Slot /\ SlotInv(w) /\ worker \in [Workers -> Slot]
    BY Types DEF GInv
  <1>2. row \in Slot /\ row.pc = "effected" /\ row.cp = worker[w].cp /\ row.stream = worker[w].stream
        /\ row.made = worker[w].made /\ row.at = worker[w].at
    BY <1>1 DEF Slot
  <1>3. worker' = [worker EXCEPT ![w] = row] /\ worker[w].pc = "begun"
    BY <1>1 DEF Execute
  <1>4. returned' \in [Calls -> 0..2]
    <2>1. returned \in [Calls -> 0..2]
      BY DEF GInv, TypeOK
    <2>2. \A k \in Calls : returned[k] < 2 => returned[k] + 1 \in 0..2
      BY <2>1
    <2> QED
      BY <2>1, <2>2 DEF Execute
  <1>5. UNCHANGED <<run, call, approval>> /\ disruptions' = disruptions
    BY DEF Execute
  <1> HIDE DEF row
  <1> QED
    BY <1>1, <1>2, <1>3, <1>4, <1>5, LocalStep DEF SlotInv

-----------------------------------------------------------------------------
(* Claiming the Run and recording checkpoints                              *)

LEMMA ClaimStep ==
  ASSUME GInv, NEW w \in Workers, Claim(w) PROVE GInv'
  <1> DEFINE cp == run.cp
             pc == IF run.cp.state = "final" THEN "returned" ELSE "executing"
             row == [IdleSlot EXCEPT !.cp = cp, !.pc = pc]
  <1>0. /\ cp \in Checkpoint /\ pc \in {"returned", "executing"} /\ run \in Run
        /\ worker \in [Workers -> Slot] /\ run.status \notin Closed
    BY Types DEF GInv, Claim, Closed
  <1>1. run' = [run EXCEPT !.holder = w] /\ worker' = [worker EXCEPT ![w] = row]
        /\ UNCHANGED <<call, approval, returned, disruptions>> /\ run.holder = NoWorker
    BY DEF Claim
  <1>2. run' \in Run /\ run'.cp = run.cp /\ run'.status = run.status /\ run'.holder = w
    BY <1>0, <1>1 DEF Run
  <1> HIDE DEF cp, pc
  <1>3. row \in Slot /\ row.pc = pc /\ row.cp = cp /\ row.stream = <<>> /\ row.made = {}
    <2>1. IdleSlot \in Slot /\ IdleSlot.stream = <<>> /\ IdleSlot.made = {}
      <3>1. <<>> \in Seq(Checkpoint) /\ Start \in Checkpoint
        BY DEF Checkpoint, Start
      <3> QED
        BY <3>1 DEF IdleSlot, Slot, Results
    <2> QED
      BY <1>0, <2>1 DEF Slot
  <1> HIDE DEF row
  <1>4. worker' \in [Workers -> Slot] /\ worker'[w] = row /\ \A v \in Workers : v # w => worker'[v] = worker[v]
    BY <1>0, <1>1, <1>3
  <1>5. TypeOK'
    BY <1>1, <1>2, <1>4 DEF GInv, TypeOK
  <1>6. Stays
    BY <1>1 DEF Stays, IsSettled
  <1>7. RequestsMatch' /\ ClosedIsReleased' /\ SeenInv'
    BY <1>0, <1>1, <1>2 DEF GInv, RequestsMatch, ClosedIsReleased, SeenInv, IsSettled
  <1>8. \A v \in Workers : v # w => Bystander(v)
    BY <1>2, <1>4 DEF Bystander, Owns
  <1>9. SlotInv(w)'
    BY <1>0, <1>1, <1>3, <1>4 DEF SlotInv, InExecutor, IsSettled, GInv, SeenInv, cp
  <1> QED
    BY <1>5, <1>6, <1>7, <1>8, <1>9, SlotStays DEF GInv

LEMMA RecordCheckpointStep ==
  ASSUME GInv, NEW w \in Workers, RecordCheckpoint(w) PROVE GInv'
  <1> DEFINE cp == Head(worker[w].stream)
             stream == Tail(worker[w].stream)
             row == [worker[w] EXCEPT !.stream = stream]
  <1>0. /\ run \in Run /\ worker \in [Workers -> Slot] /\ worker[w] \in Slot
        /\ worker[w].stream \in Seq(Checkpoint) /\ worker[w].stream # <<>> /\ SlotInv(w)
    BY Types DEF GInv, RecordCheckpoint
  <1>1. /\ cp \in Checkpoint /\ stream \in Seq(Checkpoint) /\ cp = worker[w].stream[1]
        /\ 1 \in DOMAIN worker[w].stream
        /\ \A i \in DOMAIN stream : i + 1 \in DOMAIN worker[w].stream /\ stream[i] = worker[w].stream[i + 1]
    BY <1>0, HeadTailProperties, EmptySeq, LenProperties
  <1>2. run' = [run EXCEPT !.cp = cp] /\ worker' = [worker EXCEPT ![w] = row]
        /\ UNCHANGED <<call, approval, returned, disruptions>>
    BY <1>0 DEF RecordCheckpoint
  <1>s. (\A k \in cp.seen : IsSettled(k)) /\ \A i \in DOMAIN stream : \A k \in stream[i].seen : IsSettled(k)
    BY <1>0, <1>1 DEF SlotInv
  <1> HIDE DEF cp, stream
  <1>3. run' \in Run /\ run'.cp = cp /\ run'.status = run.status /\ run'.holder = run.holder
    BY <1>0, <1>1, <1>2 DEF Run
  <1>4. row \in Slot /\ row.pc = worker[w].pc /\ row.cp = worker[w].cp /\ row.stream = stream
        /\ row.made = worker[w].made /\ row.at = worker[w].at
    BY <1>0, <1>1 DEF Slot
  <1> HIDE DEF row
  <1>5. worker' \in [Workers -> Slot] /\ worker'[w] = row /\ \A v \in Workers : v # w => worker'[v] = worker[v]
    BY <1>0, <1>2, <1>4
  <1>6. TypeOK'
    BY <1>2, <1>3, <1>5 DEF GInv, TypeOK
  <1>7. Stays
    BY <1>2 DEF Stays, IsSettled
  <1>8. RequestsMatch' /\ ClosedIsReleased' /\ SeenInv'
    BY <1>2, <1>3, <1>s DEF GInv, RequestsMatch, ClosedIsReleased, SeenInv, IsSettled
  <1>9. \A v \in Workers : v # w => Bystander(v)
    BY <1>2, <1>3, <1>5 DEF Bystander, Owns
  <1>10. SlotInv(w)'
    <2>1. \A k : IsSettled(k)' = IsSettled(k) /\ Granted(k)' = Granted(k)
      BY <1>2 DEF IsSettled, Granted, RunScopeGrant
    <2>2. (\A k \in Calls : InExecutor(w, k)' = InExecutor(w, k)) /\ Owns(w)' = Owns(w)
      BY <1>3, <1>4, <1>5 DEF InExecutor, Owns
    <2> QED
      BY <1>0, <1>2, <1>4, <1>5, <1>s, <2>1, <2>2 DEF SlotInv
  <1> QED
    BY <1>6, <1>7, <1>8, <1>9, <1>10, SlotStays DEF GInv

-----------------------------------------------------------------------------
(* The owner writes the row of one call                                    *)

\* w owns the Run before the step; it writes row k, and goes on with a slot that has
\* seen what is settled.
LEMMA OwnerStep ==
  ASSUME GInv, NEW w \in Workers, NEW k \in Calls, Owns(w), run' \in Run, run'.holder = w,
         run'.status \notin Closed, run'.cp \in {run.cp, worker[w].cp},
         NEW row \in Call, call' = [call EXCEPT ![k] = row], IsSettled(k) => row = call[k],
         NEW slot \in Slot, worker' = [worker EXCEPT ![w] = slot],
         slot.cp = worker[w].cp, slot.stream = worker[w].stream, slot.pc # "idle",
         slot.made = worker[w].made \/ (slot.made = worker[w].made \union {k} /\ row.status \in Settled),
         slot.pc \in {"begun", "effected"} => /\ slot.at = k /\ row.status = "running" /\ row.token = w
                                              /\ k \in RiskyCalls => Granted(k),
         approval' \in [Calls -> Approval], \A j \in Calls : j # k => approval'[j] = approval[j],
         \/ approval'[k] = approval[k] /\ (approval[k] = "requested" => row = call[k])
                                       /\ (approval[k] # "none" => row.status # "none")
         \/ approval[k] = "none" /\ approval'[k] = "requested" /\ row.status = "pending",
         returned' = returned, disruptions' = disruptions
  PROVE  GInv'
  <1> USE DEF GInv
  <1>1. /\ worker \in [Workers -> Slot] /\ worker[w].cp.seen \subseteq Calls /\ run.cp.seen \subseteq Calls
        /\ worker[w].made \subseteq Calls /\ SlotInv(w) /\ run.holder = w
        /\ call \in [Calls -> Call]
    BY Types DEF Owns
  <1>2. worker' \in [Workers -> Slot] /\ worker'[w] = slot /\ \A v \in Workers : v # w => worker'[v] = worker[v]
    BY <1>1
  <1>3. call' \in [Calls -> Call] /\ call'[k] = row /\ \A j \in Calls : j # k => call'[j] = call[j]
    BY <1>1
  <1>4. TypeOK'
    BY <1>2, <1>3 DEF TypeOK
  <1>5. RequestsMatch'
    <2> SUFFICES ASSUME NEW j \in Calls
                 PROVE  /\ approval'[j] # "none" => call'[j].status # "none"
                        /\ approval'[j] = "requested" => call'[j].status \in {"pending"} \union Settled
                        /\ approval'[j] \in {"rejected", "expired", "cancelled"} => call'[j].status \in Settled
      BY DEF RequestsMatch
    <2>1. CASE j # k
      BY <1>3, <2>1 DEF RequestsMatch
    <2>2. CASE j = k /\ approval'[k] = approval[k]
      BY <1>3, <2>2 DEF RequestsMatch, IsSettled
    <2>3. CASE j = k /\ approval'[k] = "requested" /\ row.status = "pending"
      BY <1>3, <2>3
    <2> QED
      BY <2>1, <2>2, <2>3
  <1>6. Stays
    BY <1>3 DEF Stays, IsSettled, Approved
  <1>7. ClosedIsReleased'
    BY DEF ClosedIsReleased
  <1>8. \A j \in worker[w].made \union worker[w].cp.seen \union run.cp.seen : IsSettled(j)'
    BY <1>1, <1>6 DEF SlotInv, SeenInv, Stays
  <1>9. SeenInv'
    BY <1>8 DEF SeenInv
  <1>10. \A v \in Workers : v # w => Bystander(v)
    BY <1>2 DEF Bystander, Owns
  <1>11. SlotInv(w)'
    <2>1. \A j \in slot.made \union slot.cp.seen : IsSettled(j)'
      BY <1>3, <1>8 DEF IsSettled
    <2>2. ASSUME NEW i \in DOMAIN slot.stream PROVE \A j \in slot.stream[i].seen : IsSettled(j)'
      <3>1. slot.stream[i] \in Checkpoint
        BY <1>1, Types, ElementOfSeq, LenProperties
      <3>2. slot.stream[i].seen \subseteq Calls
        BY <3>1 DEF Checkpoint
      <3> QED
        BY <1>1, <1>6, <3>2 DEF SlotInv, Stays
    <2>3. Granted(k) => Granted(k)'
      BY <1>6 DEF Stays, Granted, RunScopeGrant, Approved
    <2>4. \A j \in Calls : InExecutor(w, j)' => j = k /\ slot.pc \in {"begun", "effected"}
      BY <1>2 DEF InExecutor
    <2> QED
      BY <1>2, <1>3, <2>1, <2>2, <2>3, <2>4 DEF SlotInv
  <1> QED
    BY <1>4, <1>5, <1>6, <1>7, <1>9, <1>10, <1>11, SlotStays

\* The row of the call and its request stay as they are.
LEMMA OwnerRereads ==
  ASSUME GInv, NEW w \in Workers, NEW k \in Calls, Owns(w), run' \in Run, run'.holder = w,
         run'.status \notin Closed, run'.cp \in {run.cp, worker[w].cp},
         call' = call, call[k].status # "none", approval' = approval,
         NEW slot \in Slot, worker' = [worker EXCEPT ![w] = slot],
         slot.cp = worker[w].cp, slot.stream = worker[w].stream,
         slot.made = worker[w].made, slot.pc \notin {"idle", "begun", "effected"},
         returned' = returned, disruptions' = disruptions
  PROVE  GInv'
  <1>1. call[k] \in Call /\ approval \in [Calls -> Approval]
    BY Types DEF GInv
  <1>2. call' = [call EXCEPT ![k] = call[k]]
    BY Types DEF GInv
  <1> DEFINE row == call[k]
  <1>3. row \in Call /\ call' = [call EXCEPT ![k] = row] /\ row.status # "none" /\ row = call[k]
    BY <1>1, <1>2
  <1> HIDE DEF row
  <1>4. approval' \in [Calls -> Approval] /\ approval'[k] = approval[k] /\ \A j \in Calls : j # k => approval'[j] = approval[j]
    BY <1>1
  <1>5. slot.pc # "idle"
    OBVIOUS
  <1>6. slot.pc \in {"begun", "effected"} => /\ slot.at = k /\ row.status = "running" /\ row.token = w
                                             /\ k \in RiskyCalls => Granted(k)
    OBVIOUS
  <1>7. slot.made = worker[w].made \/ (slot.made = worker[w].made \union {k} /\ row.status \in Settled)
    OBVIOUS
  <1>8. IsSettled(k) => row = call[k]
    BY <1>3
  <1>9.  \/ approval'[k] = approval[k] /\ (approval[k] = "requested" => row = call[k])
                                       /\ (approval[k] # "none" => row.status # "none")
         \/ approval[k] = "none" /\ approval'[k] = "requested" /\ row.status = "pending"
    BY <1>3, <1>4
  <1>10. row \in Call /\ call' = [call EXCEPT ![k] = row]
    BY <1>3
  <1>11. approval' \in [Calls -> Approval]
    BY <1>4
  <1>12. \A j \in Calls : j # k => approval'[j] = approval[j]
    BY <1>4
  <1> HIDE DEF row
  <1> QED
    BY <1>5, <1>6, <1>7, <1>8, <1>9, <1>10, <1>11, <1>12, OwnerStep, Zenon

\* Saving the checkpoint of the slot, and a status.
LEMMA SavedRun ==
  ASSUME TypeOK, NEW w \in Workers, OwnsActive(w), NEW status \in Status \ Closed, run' = Saved(w, status)
  PROVE  run' \in Run /\ run'.holder = w /\ run'.status \notin Closed /\ run'.cp \in {run.cp, worker[w].cp}
         /\ Owns(w)
  <1>1. run \in Run /\ worker[w].cp \in Checkpoint
    BY Types
  <1> QED
    BY <1>1 DEF Saved, Run, OwnsActive, Owns

LEMMA BeginCachedStep ==
  ASSUME GInv, NEW w \in Workers, NEW k \in Calls, BeginCached(w, k) PROVE GInv'
  <1> DEFINE made == worker[w].made \union {k}
             slot == [worker[w] EXCEPT !.made = made]
             row == call[k]
  <1>0. /\ run.status \in Status \ Closed /\ worker[w] \in Slot /\ worker \in [Workers -> Slot]
        /\ call \in [Calls -> Call] /\ row \in Call /\ made \subseteq Calls /\ worker[w].pc = "executing"
        /\ approval \in [Calls -> Approval]
    BY Types DEF GInv, BeginCached, OwnsActive, Closed, NextCall, Executing
  <1>1. run' \in Run /\ run'.holder = w /\ run'.status \notin Closed /\ run'.cp \in {run.cp, worker[w].cp} /\ Owns(w)
    BY <1>0, SavedRun DEF GInv, BeginCached
  <1>2. worker' = [worker EXCEPT ![w] = slot] /\ call' = [call EXCEPT ![k] = row] /\ row.status \in Settled
        /\ UNCHANGED <<approval, returned, disruptions>>
    BY <1>0 DEF BeginCached, Recorded
  <1> HIDE DEF made
  <1>3. slot \in Slot /\ slot.cp = worker[w].cp /\ slot.stream = worker[w].stream /\ slot.pc = "executing"
        /\ slot.made = made
    BY <1>0 DEF Slot
  <1>4. slot.made = worker[w].made \union {k} /\ row.status # "none"
    BY <1>2, <1>3 DEF made, Settled, Results
  <1> HIDE DEF slot, row
  <1>5. row = call[k]
    BY DEF row
  <1> QED
    BY <1>0, <1>1, <1>2, <1>3, <1>4, <1>5, OwnerStep

LEMMA NewRow ==
  ASSUME NEW w \in Workers, NEW status \in {"failed", "pending", "running"}
  PROVE  LET row == [NoRow EXCEPT !.status = status, !.token = w]
         IN  row \in Call /\ row.status = status /\ row.token = w
  <1> DEFINE T == 0..(MaxTries - 1)
  <1>1. 0 \in T
    BY GatewayAssumption
  <1>2. Call = [status : {"none", "pending", "running"} \union Settled,
                token : Workers \union {NoWorker}, tries : T]
    BY DEF Call
  <1> HIDE DEF T
  <1>3. NoRow = [status |-> "none", token |-> NoWorker, tries |-> 0]
    BY DEF NoRow
  <1> QED
    BY <1>1, <1>2, <1>3 DEF Settled, Results

LEMMA BeginRejectedStep ==
  ASSUME GInv, NEW w \in Workers, NEW k \in Calls, BeginRejected(w, k) PROVE GInv'
  <1> DEFINE made == worker[w].made \union {k}
             slot == [worker[w] EXCEPT !.made = made]
             row == [NoRow EXCEPT !.status = "failed", !.token = w]
  <1>0. /\ run.status \in Status \ Closed /\ worker[w] \in Slot /\ worker \in [Workers -> Slot]
        /\ call \in [Calls -> Call] /\ made \subseteq Calls /\ worker[w].pc = "executing"
        /\ approval \in [Calls -> Approval] /\ approval[k] = "none" /\ ~ IsSettled(k)
    BY Types DEF GInv, BeginRejected, OwnsActive, Closed, NextCall, Executing, RequestsMatch, IsSettled,
                 Settled, Results
  <1>1. run' \in Run /\ run'.holder = w /\ run'.status \notin Closed /\ run'.cp \in {run.cp, worker[w].cp} /\ Owns(w)
    BY <1>0, SavedRun DEF GInv, BeginRejected
  <1>2. worker' = [worker EXCEPT ![w] = slot] /\ call' = [call EXCEPT ![k] = row]
        /\ UNCHANGED <<approval, returned, disruptions>>
    BY <1>0 DEF BeginRejected
  <1> HIDE DEF made
  <1>3. slot \in Slot /\ slot.cp = worker[w].cp /\ slot.stream = worker[w].stream /\ slot.pc = "executing"
        /\ slot.made = made
    BY <1>0 DEF Slot
  <1>4. row \in Call /\ row.status = "failed" /\ row.status \in Settled
    BY NewRow DEF Settled, Results
  <1>5. slot.made = worker[w].made \union {k}
    BY <1>3 DEF made
  <1> HIDE DEF slot, row
  <1> QED
    BY <1>0, <1>1, <1>2, <1>3, <1>4, <1>5, OwnerStep

\* What the transactions of the owner find before they write.
LEMMA OwnerFinds ==
  ASSUME GInv, NEW w \in Workers, NEW k \in Calls, NextCall(w, k), OwnsActive(w)
  PROVE  /\ run.status \in Status \ Closed /\ worker[w] \in Slot /\ worker \in [Workers -> Slot]
         /\ call \in [Calls -> Call] /\ call[k] \in Call /\ worker[w].pc = "executing"
         /\ approval \in [Calls -> Approval] /\ (call[k].status = "none" => approval[k] = "none")
         /\ SlotInv(w)
  BY Types DEF GInv, OwnsActive, Closed, NextCall, Executing, RequestsMatch

LEMMA SlotOn ==
  ASSUME TypeOK, NEW w \in Workers, NEW pc \in {"begun", "suspended"}, NEW k \in Calls
  PROVE  LET slot == [worker[w] EXCEPT !.pc = pc, !.at = k]
         IN  /\ slot \in Slot /\ slot.pc = pc /\ slot.at = k /\ slot.cp = worker[w].cp
             /\ slot.stream = worker[w].stream /\ slot.made = worker[w].made
  <1>1. worker[w] \in Slot
    BY Types
  <1> QED
    BY <1>1 DEF Slot

LEMMA BeginPendingStep ==
  ASSUME GInv, NEW w \in Workers, NEW k \in Calls, BeginPending(w, k) PROVE GInv'
  <1> DEFINE slot == [worker[w] EXCEPT !.pc = "suspended", !.at = k]
             new == [NoRow EXCEPT !.status = "pending", !.token = w]
  <1>0. /\ run.status \in Status \ Closed /\ worker[w] \in Slot /\ worker \in [Workers -> Slot]
        /\ call \in [Calls -> Call] /\ call[k] \in Call
        /\ approval \in [Calls -> Approval] /\ (call[k].status = "none" => approval[k] = "none")
    BY OwnerFinds DEF BeginPending
  <1>1. run' \in Run /\ run'.holder = w /\ run'.status \notin Closed /\ run'.cp \in {run.cp, worker[w].cp} /\ Owns(w)
    <2>1. "waiting_for_approval" \in Status \ Closed
      BY DEF Status, Closed
    <2> QED
      BY <2>1, SavedRun DEF GInv, BeginPending
  <1>2. worker' = [worker EXCEPT ![w] = slot] /\ returned' = returned /\ disruptions' = disruptions
    BY <1>0 DEF BeginPending
  <1>3. /\ slot \in Slot /\ slot.pc = "suspended" /\ slot.cp = worker[w].cp
        /\ slot.stream = worker[w].stream /\ slot.made = worker[w].made
    BY SlotOn DEF GInv
  <1> HIDE DEF slot
  <1>4. CASE /\ call[k].status = "none" /\ call' = [call EXCEPT ![k] = new]
             /\ approval' = [approval EXCEPT ![k] = "requested"]
    <2>1. new \in Call /\ new.status = "pending"
      BY NewRow
    <2> HIDE DEF new
    <2>2. /\ approval' \in [Calls -> Approval] /\ approval'[k] = "requested"
          /\ \A j \in Calls : j # k => approval'[j] = approval[j]
      BY <1>0, <1>4 DEF Approval
    <2>3. approval[k] = "none" /\ ~ IsSettled(k)
      BY <1>0, <1>4 DEF IsSettled, Settled, Results
    <2>4. slot.pc # "idle" /\ slot.pc \notin {"begun", "effected"}
      BY <1>3
    <2>5. call' = [call EXCEPT ![k] = new] /\ (IsSettled(k) => new = call[k])
      BY <1>4, <2>3
    <2>6. approval[k] = "none" /\ approval'[k] = "requested" /\ new.status = "pending"
      BY <2>1, <2>2, <2>3
    <2> QED
      BY <1>1, <1>2, <1>3, <2>1, <2>2, <2>4, <2>5, <2>6, OwnerStep
  <1>5. CASE call[k].status # "none" /\ UNCHANGED <<call, approval>>
    <2>1. slot.pc \notin {"idle", "begun", "effected"}
      BY <1>3
    <2> QED
      BY <1>1, <1>2, <1>3, <1>5, <2>1, OwnerRereads
  <1> QED
    BY <1>4, <1>5 DEF BeginPending

LEMMA BeginCallStep ==
  ASSUME GInv, NEW w \in Workers, NEW k \in Calls, BeginCall(w, k) PROVE GInv'
  <1> DEFINE slot == [worker[w] EXCEPT !.pc = "begun", !.at = k]
             new == [NoRow EXCEPT !.status = "running", !.token = w]
             taken == [call[k] EXCEPT !.status = "running", !.token = w]
  <1>0. /\ run.status \in Status \ Closed /\ worker[w] \in Slot /\ worker \in [Workers -> Slot]
        /\ call \in [Calls -> Call] /\ call[k] \in Call
        /\ approval \in [Calls -> Approval] /\ (call[k].status = "none" => approval[k] = "none")
    BY OwnerFinds DEF BeginCall
  <1>1. run' \in Run /\ run'.holder = w /\ run'.status \notin Closed /\ run'.cp \in {run.cp, worker[w].cp} /\ Owns(w)
    <2>1. "waiting_for_tool" \in Status \ Closed
      BY DEF Status, Closed
    <2> QED
      BY <2>1, SavedRun DEF GInv, BeginCall
  <1>2. worker' = [worker EXCEPT ![w] = slot] /\ UNCHANGED <<approval, returned, disruptions>>
    BY <1>0 DEF BeginCall
  <1>3. /\ slot \in Slot /\ slot.pc = "begun" /\ slot.cp = worker[w].cp /\ slot.at = k
        /\ slot.stream = worker[w].stream /\ slot.made = worker[w].made
    BY SlotOn DEF GInv
  <1> HIDE DEF slot
  <1>4. CASE call[k].status = "none" /\ (k \in RiskyCalls => RunScopeGrant) /\ call' = [call EXCEPT ![k] = new]
    <2>1. new \in Call /\ new.status = "running" /\ new.token = w
      BY NewRow
    <2> HIDE DEF new
    <2>2. approval[k] = "none" /\ ~ IsSettled(k) /\ (k \in RiskyCalls => Granted(k))
      BY <1>0, <1>4 DEF IsSettled, Settled, Results, Granted
    <2> QED
      BY <1>0, <1>1, <1>2, <1>3, <1>4, <2>1, <2>2, OwnerStep
  <1>5. CASE /\ ~ Recorded(k) /\ approval[k] # "requested"
             /\ k \in RiskyCalls => approval[k] # "none" \/ RunScopeGrant
             /\ call' = [call EXCEPT ![k] = TakeOver(w, k)]
    <2>1. taken \in Call /\ taken.status = "running" /\ taken.token = w
      BY <1>0 DEF Call
    <2>2. call' = [call EXCEPT ![k] = taken]
      BY <1>5 DEF TakeOver
    <2> HIDE DEF taken
    <2>3. ~ IsSettled(k) /\ (k \in RiskyCalls => Granted(k))
      BY <1>0, <1>5 DEF IsSettled, Recorded, Granted, GInv, RequestsMatch, Approval
    <2> QED
      BY <1>0, <1>1, <1>2, <1>3, <1>5, <2>1, <2>2, <2>3, OwnerStep
  <1> QED
    BY <1>4, <1>5 DEF BeginCall

\* What _checkpoint_attempts and _finish_call find when they may write.
LEMMA WriterFinds ==
  ASSUME GInv, NEW w \in Workers, worker[w].pc \in {"begun", "effected"}, MayWrite(w)
  PROVE  LET k == worker[w].at
         IN  /\ k \in Calls /\ call[k] \in Call /\ ~ IsSettled(k) /\ approval[k] # "requested"
             /\ call[k].status = "running" /\ call[k].token = w /\ Owns(w)
             /\ k \in RiskyCalls => Granted(k)
             /\ run \in Run /\ run.holder = w /\ run.status \in Status \ Closed
             /\ worker \in [Workers -> Slot] /\ worker[w] \in Slot /\ call \in [Calls -> Call]
             /\ approval \in [Calls -> Approval]
  <1>1. SlotInv(w) /\ worker[w].at \in Calls
    BY DEF GInv, SlotInv
  <1>2. InExecutor(w, worker[w].at)
    BY DEF InExecutor
  <1>3. run.holder = w /\ w # NoWorker /\ call[worker[w].at].status = "running" /\ call[worker[w].at].token = w
        /\ Owns(w)
    BY DEF MayWrite, Owns
  <1>4. run.status \in Status \ Closed
    BY <1>3, Types DEF GInv, ClosedIsReleased
  <1>5. ~ IsSettled(worker[w].at) /\ approval[worker[w].at] # "requested"
    BY <1>1, <1>3 DEF GInv, RequestsMatch, IsSettled, Settled, Results
  <1> QED
    BY <1>1, <1>2, <1>3, <1>4, <1>5, Types DEF GInv, SlotInv

\* The Run after _finish_call.
LEMMA RunningAgain ==
  ASSUME NEW w \in Workers, run \in Run, run.holder = w, run' = [run EXCEPT !.status = "running"]
  PROVE  run' \in Run /\ run'.holder = w /\ run'.status \notin Closed /\ run'.cp \in {run.cp, worker[w].cp}
  BY DEF Run, Status, Closed

\* The attempts are saved, and nothing else.
LEMMA OwnerRetries ==
  ASSUME GInv, NEW w \in Workers, NEW k \in Calls, Owns(w), worker[w].pc = "begun", worker[w].at = k,
         run' = run, run \in Run, run.holder = w, run.status \notin Closed,
         NEW row \in Call, row.status = "running", row.token = w,
         call' = [call EXCEPT ![k] = row], ~ IsSettled(k),
         approval' = approval, approval[k] # "requested", k \in RiskyCalls => Granted(k),
         worker' = worker, returned' = returned, disruptions' = disruptions
  PROVE  GInv'
  <1> DEFINE slot == worker[w]
  <1>1. worker \in [Workers -> Slot] /\ approval \in [Calls -> Approval] /\ slot \in Slot
    BY Types DEF GInv
  <1>2. worker' = [worker EXCEPT ![w] = slot]
    BY <1>1
  <1>3. slot.cp = worker[w].cp /\ slot.stream = worker[w].stream /\ slot.made = worker[w].made
        /\ slot.pc = "begun" /\ slot.at = k
    OBVIOUS
  <1> HIDE DEF slot
  <1>4. approval' \in [Calls -> Approval] /\ (\A j \in Calls : j # k => approval'[j] = approval[j])
        /\ approval'[k] = approval[k] /\ row.status # "none"
    BY <1>1
  <1>5. run' \in Run /\ run'.holder = w /\ run'.status \notin Closed /\ run'.cp \in {run.cp, worker[w].cp}
    OBVIOUS
  <1> QED
    BY <1>1, <1>2, <1>3, <1>4, <1>5, OwnerStep

LEMMA RetryStep ==
  ASSUME GInv, NEW w \in Workers, Retry(w) PROVE GInv'
  <1>k. worker[w].at \in Calls
    BY DEF Retry, GInv, SlotInv
  <1> SUFFICES ASSUME NEW k \in Calls, k = worker[w].at PROVE GInv'
    BY <1>k
  <1>1. CASE ~ MayWrite(w)
    <2>1. Goto(w, "returned") /\ UNCHANGED <<run, call, approval>> /\ returned' = returned
          /\ disruptions' = disruptions /\ worker[w].pc # "idle"
      BY <1>1 DEF Retry
    <2> QED
      BY <2>1, GotoStep DEF PCs
  <1>2. CASE MayWrite(w)
    <2> DEFINE row == [call[k] EXCEPT !.tries = @ + 1]
    <2>0. worker[w].pc = "begun" /\ AttemptsLeft(k) /\ UNCHANGED <<run, approval, returned, disruptions, worker>>
          /\ call' = [call EXCEPT ![k].tries = @ + 1]
      BY <1>2 DEF Retry
    <2>1. /\ k \in Calls /\ call[k] \in Call /\ ~ IsSettled(k) /\ approval[k] # "requested"
          /\ call[k].status = "running" /\ call[k].token = w /\ Owns(w)
          /\ k \in RiskyCalls => Granted(k)
          /\ run \in Run /\ run.holder = w /\ run.status \in Status \ Closed
          /\ call \in [Calls -> Call]
      BY <1>2, <2>0, WriterFinds
    <2>2. row \in Call /\ row.status = "running" /\ row.token = w
      <3> DEFINE T == 0..(MaxTries - 1)
      <3>1. call[k].tries + 1 \in T
        BY <2>0, <2>1, Types DEF AttemptsLeft, GInv
      <3>2. Call = [status : {"none", "pending", "running"} \union Settled,
                    token : Workers \union {NoWorker}, tries : T]
        BY DEF Call
      <3> HIDE DEF T
      <3> QED
        BY <2>1, <3>1, <3>2
    <2>3. call' = [call EXCEPT ![k] = row]
      BY <2>0, <2>1
    <2> HIDE DEF row
    <2>4. Owns(w) /\ worker[w].pc = "begun" /\ worker[w].at = k /\ run \in Run /\ run.holder = w /\ run.status \notin Closed
      BY <2>0, <2>1
    <2>5. run' = run /\ approval' = approval /\ worker' = worker /\ returned' = returned /\ disruptions' = disruptions
      BY <2>0
    <2>6. ~ IsSettled(k) /\ approval[k] # "requested" /\ (k \in RiskyCalls => Granted(k))
      BY <2>1
    <2> QED
      BY <2>2, <2>3, <2>4, <2>5, <2>6, OwnerRetries, Zenon
  <1> QED
    BY <1>1, <1>2

\* The result of a call, in the row and in the slot.
LEMMA SettledRow ==
  ASSUME NEW row \in Call, NEW status \in Settled
  PROVE  [row EXCEPT !.status = status] \in Call /\ [row EXCEPT !.status = status].status = status
  BY DEF Call

LEMMA FinishCallStep ==
  ASSUME GInv, NEW w \in Workers, FinishCall(w) PROVE GInv'
  <1> DEFINE k == worker[w].at
             made == worker[w].made \union {k}
             result == worker[w].result
             row == [call[k] EXCEPT !.status = result]
             slot == [worker[w] EXCEPT !.pc = "executing", !.at = NoCall, !.made = made]
  <1>1. CASE ~ MayWrite(w)
    <2>1. Goto(w, "returned") /\ UNCHANGED <<run, call, approval>> /\ returned' = returned
          /\ disruptions' = disruptions /\ worker[w].pc # "idle"
      BY <1>1 DEF FinishCall
    <2> QED
      BY <2>1, GotoStep DEF PCs
  <1>2. CASE MayWrite(w)
    <2>0. /\ worker[w].pc = "effected" /\ UNCHANGED <<approval, returned, disruptions>>
          /\ call' = [call EXCEPT ![k].status = result] /\ run' = [run EXCEPT !.status = "running"]
          /\ worker' = [worker EXCEPT ![w].pc = "executing", ![w].at = NoCall, ![w].made = @ \union {k}]
      BY <1>2 DEF FinishCall
    <2>1. /\ k \in Calls /\ call[k] \in Call /\ ~ IsSettled(k) /\ approval[k] # "requested"
          /\ call[k].status = "running" /\ call[k].token = w /\ Owns(w)
          /\ run \in Run /\ run.holder = w /\ run.status \in Status \ Closed
          /\ worker \in [Workers -> Slot] /\ worker[w] \in Slot /\ call \in [Calls -> Call]
          /\ approval \in [Calls -> Approval]
      BY <1>2, <2>0, WriterFinds
    <2>2. result \in Settled /\ made \subseteq Calls
      BY <2>1, Types DEF GInv, Settled
    <2>3. row \in Call /\ row.status \in Settled
      BY <2>1, <2>2, SettledRow
    <2>4. call' = [call EXCEPT ![k] = row] /\ worker' = [worker EXCEPT ![w] = slot]
      BY <2>0, <2>1
    <2> HIDE DEF row, made
    <2>5. slot \in Slot /\ slot.pc = "executing" /\ slot.cp = worker[w].cp /\ slot.stream = worker[w].stream
          /\ slot.made = made
      BY <2>1, <2>2 DEF Slot
    <2> HIDE DEF slot
    <2>6. /\ run' \in Run /\ run'.holder = w /\ run'.status \notin Closed /\ run'.cp \in {run.cp, worker[w].cp}
      BY <2>0, <2>1, RunningAgain
    <2>7. slot.made = worker[w].made \union {k} /\ row.status # "none"
      BY <2>3, <2>5 DEF made, Settled, Results
    <2>a. slot.pc # "idle" /\ (IsSettled(k) => row = call[k])
      BY <2>1, <2>5
    <2>b. slot.made = worker[w].made \/ (slot.made = worker[w].made \union {k} /\ row.status \in Settled)
      BY <2>3, <2>7
    <2>c. slot.pc \in {"begun", "effected"} => /\ slot.at = k /\ row.status = "running" /\ row.token = w
                                               /\ k \in RiskyCalls => Granted(k)
      BY <2>5
    <2>d. approval' \in [Calls -> Approval] /\ \A j \in Calls : j # k => approval'[j] = approval[j]
      BY <2>0, <2>1
    <2>e. \/ approval'[k] = approval[k] /\ (approval[k] = "requested" => row = call[k])
                                       /\ (approval[k] # "none" => row.status # "none")
          \/ approval[k] = "none" /\ approval'[k] = "requested" /\ row.status = "pending"
      BY <2>0, <2>1, <2>7
    <2>f. returned' = returned /\ disruptions' = disruptions
      BY <2>0
    <2> HIDE DEF k
    <2> QED
      BY <2>1, <2>3, <2>4, <2>5, <2>6, <2>a, <2>b, <2>c, <2>d, <2>e, <2>f, OwnerStep
  <1> QED
    BY <1>1, <1>2

LEMMA CancelExecutorStep ==
  ASSUME GInv, NEW w \in Workers, CancelExecutor(w) PROVE GInv'
  <1> DEFINE k == worker[w].at
             row == [call[k] EXCEPT !.status = "cancelled"]
             slot == [worker[w] EXCEPT !.pc = "aborting"]
  <1>1. CASE ~ MayWrite(w)
    <2>1. Goto(w, "aborting") /\ UNCHANGED <<run, call, approval>> /\ returned' = returned
          /\ disruptions' = disruptions /\ worker[w].pc # "idle"
      BY <1>1 DEF CancelExecutor
    <2> QED
      BY <2>1, GotoStep DEF PCs
  <1>2. CASE MayWrite(w)
    <2>0. /\ worker[w].pc = "begun" /\ UNCHANGED <<approval, returned, disruptions>>
          /\ call' = [call EXCEPT ![k].status = "cancelled"] /\ run' = [run EXCEPT !.status = "running"]
          /\ worker' = [worker EXCEPT ![w].pc = "aborting"]
      BY <1>2 DEF CancelExecutor, Goto
    <2>1. /\ k \in Calls /\ call[k] \in Call /\ ~ IsSettled(k) /\ approval[k] # "requested"
          /\ call[k].status = "running" /\ call[k].token = w /\ Owns(w)
          /\ run \in Run /\ run.holder = w /\ run.status \in Status \ Closed
          /\ worker \in [Workers -> Slot] /\ worker[w] \in Slot /\ call \in [Calls -> Call]
          /\ approval \in [Calls -> Approval]
      BY <1>2, <2>0, WriterFinds
    <2>2. "cancelled" \in Settled /\ "none" \notin Settled
      BY DEF Settled, Results
    <2>3. row \in Call /\ row.status \in Settled /\ row.status # "none"
      BY <2>1, <2>2, SettledRow
    <2>4. call' = [call EXCEPT ![k] = row] /\ worker' = [worker EXCEPT ![w] = slot]
      BY <2>0, <2>1
    <2> HIDE DEF row
    <2>5. slot \in Slot /\ slot.pc = "aborting" /\ slot.cp = worker[w].cp /\ slot.stream = worker[w].stream
          /\ slot.made = worker[w].made
      BY <2>1, SlotAt DEF PCs, GInv
    <2> HIDE DEF slot
    <2>6. /\ run' \in Run /\ run'.holder = w /\ run'.status \notin Closed /\ run'.cp \in {run.cp, worker[w].cp}
      BY <2>0, <2>1, RunningAgain
    <2> HIDE DEF k
    <2> QED
      BY <2>0, <2>1, <2>3, <2>4, <2>5, <2>6, OwnerStep
  <1> QED
    BY <1>1, <1>2

-----------------------------------------------------------------------------
(* The end of an attempt, and the others                                   *)

\* The slot is given up; nobody else's row is touched.
LEMMA ReleaseStep ==
  ASSUME GInv, NEW w \in Workers, Release(w), run' \in Run, run'.cp \in {run.cp, worker[w].cp},
         run'.holder \in {run.holder, NoWorker}, run'.status \in Closed => run'.holder = NoWorker,
         approval' = approval, returned' = returned, disruptions' \in 0..MaxDisruptions
  PROVE  GInv'
  <1>1. /\ worker \in [Workers -> Slot] /\ call \in [Calls -> Call] /\ SlotInv(w)
        /\ worker[w].cp.seen \subseteq Calls /\ run.cp.seen \subseteq Calls
    BY Types DEF GInv
  <1>2. IdleSlot \in Slot /\ IdleSlot.pc = "idle" /\ IdleSlot.made = {} /\ IdleSlot.cp.seen = {}
        /\ IdleSlot.stream = <<>>
    <2>1. <<>> \in Seq(Checkpoint) /\ Start \in Checkpoint /\ Start.seen = {}
      BY DEF Checkpoint, Start
    <2> QED
      BY <2>1 DEF IdleSlot, Slot, Results
  <1>3. worker' \in [Workers -> Slot] /\ worker'[w] = IdleSlot /\ \A v \in Workers : v # w => worker'[v] = worker[v]
    BY <1>1, <1>2 DEF Release
  <1>4. ASSUME NEW k \in Calls
        PROVE  /\ call'[k] \in Call /\ call'[k].status = call[k].status
               /\ call[k].token # w => call'[k].token = call[k].token
    <2>1. call'[k] = IF call[k].token = w THEN [call[k] EXCEPT !.token = NoWorker] ELSE call[k]
      BY DEF Release, Detach
    <2>2. call[k] \in Call
      BY <1>1
    <2>3. \A row \in Call : [row EXCEPT !.token = NoWorker] \in Call
                            /\ [row EXCEPT !.token = NoWorker].status = row.status
      BY DEF Call
    <2> QED
      BY <2>1, <2>2, <2>3
  <1>5. call' \in [Calls -> Call]
    BY <1>4 DEF Release, Detach
  <1>6. TypeOK'
    BY <1>3, <1>5 DEF GInv, TypeOK
  <1>7. Stays
    BY <1>4 DEF Stays, IsSettled
  <1>8. RequestsMatch' /\ ClosedIsReleased'
    BY <1>4 DEF GInv, RequestsMatch, ClosedIsReleased
  <1>9. SeenInv'
    BY <1>1, <1>7 DEF GInv, SeenInv, SlotInv, Stays
  <1>10. ASSUME NEW v \in Workers, v # w PROVE Bystander(v)
    BY <1>3, <1>4, <1>10 DEF Bystander, Owns
  <1>11. SlotInv(w)'
    BY <1>2, <1>3 DEF SlotInv, InExecutor
  <1> QED
    BY <1>6, <1>7, <1>8, <1>9, <1>10, <1>11, SlotStays DEF GInv

LEMMA EndStep ==
  ASSUME GInv, NEW w \in Workers, SuspendClaim(w) \/ CloseClaim(w) \/ ClaimLost(w) \/ Crash(w)
  PROVE  GInv'
  <1>1. /\ run \in Run /\ worker[w].cp \in Checkpoint /\ ClosedIsReleased /\ MaxDisruptions \in Nat
        /\ disruptions \in 0..MaxDisruptions /\ Release(w) /\ UNCHANGED <<approval, returned>>
        /\ disruptions' \in 0..MaxDisruptions
    BY Types DEF GInv, TypeOK, SuspendClaim, CloseClaim, ClaimLost, Crash, Disrupt
  <1>2. CASE SuspendClaim(w)
    <2>1. Parked(worker[w].at) \in Status \ Closed
      BY DEF Parked, Status, Closed
    <2>2. run' \in Run /\ run'.holder = NoWorker /\ run'.cp = worker[w].cp
      BY <1>1, <1>2, <2>1 DEF SuspendClaim, Run
    <2> QED
      BY <1>1, <2>2, ReleaseStep
  <1>3. CASE CloseClaim(w)
    <2>1. run' \in Run /\ run'.holder = NoWorker /\ run'.cp = run.cp
      BY <1>1, <1>3 DEF CloseClaim, Run, Status, Closed
    <2> QED
      BY <1>1, <2>1, ReleaseStep
  <1>4. CASE UNCHANGED run
    BY <1>1, <1>4, ReleaseStep DEF ClosedIsReleased
  <1> QED
    BY <1>2, <1>3, <1>4 DEF ClaimLost, Crash

\* No slot takes part: approvals, operators, and the lease that runs out.
LEMMA OutsideStep ==
  ASSUME GInv, worker' = worker, returned' = returned, disruptions' \in 0..MaxDisruptions,
         run' \in Run, run'.cp = run.cp, run'.holder \in {run.holder, NoWorker},
         run'.status \in Closed => run'.holder = NoWorker,
         call' \in [Calls -> Call], approval' \in [Calls -> Approval], RequestsMatch', Stays,
         run'.holder # NoWorker => \A k \in Calls : call[k].status = "running" => call'[k] = call[k]
  PROVE  GInv'
  <1>1. TypeOK'
    BY DEF GInv, TypeOK
  <1>2. ClosedIsReleased' /\ SeenInv'
    BY SeenStays DEF ClosedIsReleased
  <1>3. \A v \in Workers : Bystander(v)
    BY DEF Bystander, Owns
  <1> QED
    BY <1>1, <1>2, <1>3, SlotStays DEF GInv

LEMMA SettleRow ==
  ASSUME NEW row \in Call, NEW status \in Settled
  PROVE  /\ Settle(row, status) \in Call
         /\ row.status # "none" => Settle(row, status).status \in Settled
         /\ row.status \in {"none"} \union Settled => Settle(row, status) = row
  <1>1. row.status \in {"none", "pending", "running"} \union Settled
    BY DEF Call
  <1>2. [row EXCEPT !.status = status] \in Call /\ [row EXCEPT !.status = status].status = status
    BY SettledRow
  <1>3. "pending" \notin Settled /\ "running" \notin Settled
    BY DEF Settled, Results
  <1> QED
    BY <1>1, <1>2, <1>3 DEF Settle

LEMMA ApprovalStep ==
  ASSUME GInv, NEW k \in Calls, approval[k] = "requested",
         NEW status \in Approved \union {"rejected", "expired", "cancelled"}, FinishApproval(k, status),
         UNCHANGED <<returned, worker, disruptions>>
  PROVE  GInv'
  <1> DEFINE closing == IF status = "cancelled" THEN "cancelled" ELSE "failed"
  <1>1. /\ run \in Run /\ call \in [Calls -> Call] /\ approval \in [Calls -> Approval] /\ call[k] \in Call
        /\ ClosedIsReleased /\ RequestsMatch
    BY Types DEF GInv
  <1>2. closing \in Settled
    BY DEF Settled, Results
  <1>3. call[k].status \in {"pending"} \union Settled
    BY <1>1 DEF RequestsMatch
  <1>4. /\ approval' = [approval EXCEPT ![k] = status]
        /\ call' = IF status \in Approved THEN call ELSE [call EXCEPT ![k] = Settle(@, closing)]
        /\ run' = [run EXCEPT !.status = IF @ = "waiting_for_approval" THEN "running" ELSE @]
    BY DEF FinishApproval
  <1> HIDE DEF closing
  <1>5. /\ Settle(call[k], closing) \in Call /\ Settle(call[k], closing).status \in Settled
        /\ IsSettled(k) => Settle(call[k], closing) = call[k]
    BY <1>1, <1>2, <1>3, SettleRow DEF IsSettled, Settled, Results
  <1>6. /\ call' \in [Calls -> Call] /\ \A j \in Calls : j # k => call'[j] = call[j]
        /\ call'[k] = IF status \in Approved THEN call[k] ELSE Settle(call[k], closing)
    BY <1>1, <1>4, <1>5
  <1>7. /\ approval' \in [Calls -> Approval] /\ approval'[k] = status
        /\ \A j \in Calls : j # k => approval'[j] = approval[j]
    BY <1>1, <1>4 DEF Approval
  <1>8. /\ run' \in Run /\ run'.cp = run.cp /\ run'.holder = run.holder
        /\ run'.status \in Closed => run.status \in Closed
    <2>1. \A s \in Status : (IF s = "waiting_for_approval" THEN "running" ELSE s) \in Status
      BY DEF Status
    <2>2. "running" \notin Closed
      BY DEF Closed
    <2> QED
      BY <1>1, <1>4, <2>1, <2>2 DEF Run
  <1>9. Stays
    <2> SUFFICES ASSUME NEW j \in Calls
                 PROVE  (IsSettled(j) => IsSettled(j)') /\ (approval[j] \in Approved => approval'[j] = approval[j])
      BY DEF Stays
    <2>1. CASE j # k
      BY <1>6, <1>7, <2>1 DEF IsSettled
    <2>2. CASE j = k
      BY <1>5, <1>6, <2>2 DEF IsSettled, Approved
    <2> QED
      BY <2>1, <2>2
  <1>10. RequestsMatch'
    <2> SUFFICES ASSUME NEW j \in Calls
                 PROVE  /\ approval'[j] # "none" => call'[j].status # "none"
                        /\ approval'[j] = "requested" => call'[j].status \in {"pending"} \union Settled
                        /\ approval'[j] \in {"rejected", "expired", "cancelled"} => call'[j].status \in Settled
      BY DEF RequestsMatch
    <2>1. CASE j # k
      BY <1>1, <1>6, <1>7, <2>1 DEF RequestsMatch
    <2>2. CASE j = k /\ status \in Approved
      BY <1>3, <1>6, <1>7, <2>2 DEF Approved, Settled, Results
    <2>3. CASE j = k /\ status \notin Approved
      BY <1>5, <1>6, <1>7, <2>3 DEF Settled, Results
    <2> QED
      BY <2>1, <2>2, <2>3
  <1>11. \A j \in Calls : call[j].status = "running" => call'[j] = call[j]
    BY <1>3, <1>6 DEF Settled, Results
  <1>12. disruptions' \in 0..MaxDisruptions
    BY DEF GInv, TypeOK
  <1> QED
    BY <1>1, <1>6, <1>7, <1>8, <1>9, <1>10, <1>11, <1>12, OutsideStep DEF ClosedIsReleased

\* Cancelling closes the calls, whatever happens to their requests.
LEMMA CancelCalls ==
  ASSUME GInv, call' = CancelOpenCalls, approval' \in [Calls -> Approval],
         \A k \in Calls : \/ approval'[k] = approval[k]
                          \/ approval[k] = "requested" /\ approval'[k] = "cancelled"
  PROVE  call' \in [Calls -> Call] /\ RequestsMatch' /\ Stays
  <1>1. call \in [Calls -> Call] /\ RequestsMatch /\ "cancelled" \in Settled /\ "none" \notin Settled
    BY Types DEF GInv, Settled, Results
  <1>2. \A k \in Calls : /\ call'[k] = Settle(call[k], "cancelled") /\ call'[k] \in Call
                         /\ call[k].status # "none" => call'[k].status \in Settled
                         /\ call[k].status \in {"none"} \union Settled => call'[k] = call[k]
    BY <1>1, SettleRow DEF CancelOpenCalls
  <1>3. call' \in [Calls -> Call]
    BY <1>2 DEF CancelOpenCalls
  <1>4. RequestsMatch'
    BY <1>1, <1>2 DEF RequestsMatch
  <1>5. Stays
    BY <1>1, <1>2 DEF Stays, IsSettled, Approved
  <1> QED
    BY <1>3, <1>4, <1>5

LEMMA OperatorStep ==
  ASSUME GInv, CancelRun \/ LeaseExpires \/ \E target \in Status : TransitionRun(target)
  PROVE  GInv'
  <1>1. /\ run \in Run /\ call \in [Calls -> Call] /\ approval \in [Calls -> Approval]
        /\ ClosedIsReleased /\ RequestsMatch /\ MaxDisruptions \in Nat /\ disruptions \in 0..MaxDisruptions
        /\ run.holder \in Workers \union {NoWorker} /\ run.status \in Status
    BY Types DEF GInv, TypeOK
  <1>2. worker' = worker /\ returned' = returned /\ disruptions' \in 0..MaxDisruptions
    <2>1. UNCHANGED <<worker, returned>> /\ (Disrupt \/ UNCHANGED disruptions)
      BY DEF CancelRun, LeaseExpires, TransitionRun
    <2> QED
      BY <1>1, <2>1 DEF Disrupt
  <1>3. (call' = call /\ approval' = approval) => call' \in [Calls -> Call] /\ RequestsMatch' /\ Stays
    BY <1>1 DEF RequestsMatch, Stays, IsSettled
  <1>4. CASE CancelRun
    <2>1. /\ approval' \in [Calls -> Approval]
          /\ \A k \in Calls : \/ approval'[k] = approval[k]
                              \/ approval[k] = "requested" /\ approval'[k] = "cancelled"
      BY <1>1, <1>4 DEF CancelRun, Approval
    <2>2. call' \in [Calls -> Call] /\ RequestsMatch' /\ Stays
      BY <1>4, <2>1, CancelCalls DEF CancelRun
    <2>3. run' \in Run /\ run'.cp = run.cp /\ run'.holder = NoWorker
      BY <1>1, <1>4 DEF CancelRun, Run, Status, Closed, ClosedIsReleased
    <2> QED
      BY <1>2, <2>1, <2>2, <2>3, OutsideStep
  <1>5. CASE LeaseExpires
    <2>1. run' \in Run /\ run'.cp = run.cp /\ run'.holder = NoWorker /\ call' = call /\ approval' = approval
      BY <1>1, <1>5 DEF LeaseExpires, Run
    <2> QED
      BY <1>1, <1>2, <1>3, <2>1, OutsideStep
  <1>6. ASSUME NEW target \in Status, TransitionRun(target) PROVE GInv'
    <2>0. approval' = approval /\ call' = (IF target = "cancelled" THEN CancelOpenCalls ELSE call)
      BY <1>6 DEF TransitionRun
    <2>1. call' \in [Calls -> Call] /\ RequestsMatch' /\ Stays
      <3>1. CASE target = "cancelled"
        BY <1>1, <2>0, <3>1, CancelCalls
      <3>2. CASE target # "cancelled"
        BY <1>3, <2>0, <3>2
      <3> QED
        BY <3>1, <3>2
    <2>2. /\ run' \in Run /\ run'.cp = run.cp /\ run'.status = target
          /\ run'.holder = IF target \in Closed THEN NoWorker ELSE run.holder
      BY <1>1, <1>6 DEF TransitionRun, Run
    <2>3. run'.holder # NoWorker => call' = call
      BY <2>0, <2>2 DEF Closed
    <2>4. run'.holder \in {run.holder, NoWorker} /\ (run'.status \in Closed => run'.holder = NoWorker)
      BY <2>2
    <2> QED
      BY <1>1, <1>2, <2>0, <2>1, <2>2, <2>3, <2>4, OutsideStep
  <1> QED
    BY <1>4, <1>5, <1>6

-----------------------------------------------------------------------------
(* The specification                                                       *)

LEMMA InitGInv == Init => GInv
  <1> SUFFICES ASSUME Init PROVE GInv
    OBVIOUS
  <1>1. /\ <<>> \in Seq(Checkpoint) /\ Start \in Checkpoint /\ Start.seen = {}
        /\ 0 \in 0..(MaxTries - 1) /\ 0 \in 0..MaxDisruptions
    BY DEF Checkpoint, Start
  <1>2. IdleSlot \in Slot /\ IdleSlot.pc = "idle" /\ IdleSlot.made = {} /\ IdleSlot.cp.seen = {}
        /\ IdleSlot.stream = <<>>
    BY <1>1 DEF IdleSlot, Slot, Results
  <1>3. NoRow \in Call /\ NoRow.status = "none"
    BY <1>1 DEF NoRow, Call
  <1>4. run \in Run /\ run.status \notin Closed /\ run.cp.seen = {}
    BY <1>1 DEF Init, Run, Status, Closed
  <1>5. TypeOK
    BY <1>1, <1>2, <1>3, <1>4 DEF Init, TypeOK, Approval
  <1>6. RequestsMatch /\ ClosedIsReleased /\ SeenInv
    BY <1>4 DEF Init, RequestsMatch, ClosedIsReleased, SeenInv
  <1>7. \A w \in Workers : SlotInv(w)
    BY <1>2 DEF Init, SlotInv, InExecutor
  <1> QED
    BY <1>5, <1>6, <1>7 DEF GInv

LEMMA WorkerSteps == ASSUME GInv, NEW w \in Workers, WorkerStep(w) PROVE GInv'
  <1>1. CASE Claim(w)
    BY <1>1, ClaimStep
  <1>2. CASE \/ \E calls \in SUBSET Calls : ModelActs(w, calls)
             \/ ModelAnswers(w) \/ LoopEnds(w) \/ Observe(w) \/ Abort(w)
             \/ \E k \in Calls : BeginLost(w, k)
    BY <1>2, LoopStep
  <1>3. CASE RecordCheckpoint(w)
    BY <1>3, RecordCheckpointStep
  <1>4. ASSUME NEW k \in Calls, Gateway(w, k), ~ BeginLost(w, k) PROVE GInv'
    BY <1>4, BeginCachedStep, BeginRejectedStep, BeginPendingStep, BeginCallStep DEF Gateway
  <1>5. ASSUME NEW result \in Results, Execute(w, result) PROVE GInv'
    BY <1>5, ExecuteStep
  <1>6. CASE Retry(w)
    BY <1>6, RetryStep
  <1>7. CASE FinishCall(w)
    BY <1>7, FinishCallStep
  <1>8. CASE CancelExecutor(w)
    BY <1>8, CancelExecutorStep
  <1>9. CASE SuspendClaim(w) \/ CloseClaim(w) \/ ClaimLost(w)
    BY <1>9, EndStep
  <1> QED
    BY <1>1, <1>2, <1>3, <1>4, <1>5, <1>6, <1>7, <1>8, <1>9 DEF WorkerStep, Gateway

LEMMA EnvironmentSteps == ASSUME GInv, Environment PROVE GInv'
  <1>1. ASSUME NEW w \in Workers, Crash(w) PROVE GInv'
    BY <1>1, EndStep
  <1>2. ASSUME NEW k \in Calls, NEW decision \in Approval, Decide(k, decision) PROVE GInv'
    <2> DEFINE status == IF run.status \in Closed THEN "cancelled" ELSE decision
    <2>1. status \in Approved \union {"rejected", "expired", "cancelled"} /\ FinishApproval(k, status)
          /\ approval[k] = "requested" /\ UNCHANGED <<returned, worker, disruptions>>
      BY <1>2 DEF Decide
    <2> HIDE DEF status
    <2> QED
      BY <2>1, ApprovalStep
  <1>3. ASSUME NEW k \in Calls, Expire(k) PROVE GInv'
    BY <1>3, ApprovalStep DEF Expire
  <1>4. CASE CancelRun \/ LeaseExpires \/ \E target \in Status : TransitionRun(target)
    BY <1>4, OperatorStep
  <1> QED
    BY <1>1, <1>2, <1>3, <1>4 DEF Environment

LEMMA NextGInv == GInv /\ [Next]_vars => GInv'
  <1> SUFFICES ASSUME GInv, [Next]_vars PROVE GInv'
    OBVIOUS
  <1>1. CASE Next
    BY <1>1, WorkerSteps, EnvironmentSteps DEF Next
  <1>2. CASE UNCHANGED vars
    <2>1. TypeOK' /\ RequestsMatch' /\ ClosedIsReleased' /\ SeenInv'
      BY <1>2 DEF vars, GInv, TypeOK, RequestsMatch, ClosedIsReleased, SeenInv, IsSettled
    <2>2. Stays /\ \A v \in Workers : Bystander(v)
      BY <1>2 DEF vars, Stays, IsSettled, Bystander, Owns
    <2> QED
      BY <2>1, <2>2, SlotStays DEF GInv
  <1> QED
    BY <1>1, <1>2

LEMMA AlwaysGInv == Spec => []GInv
  BY InitGInv, NextGInv, PTL DEF Spec

\* No executor of a sensitive tool runs without a human's approval.
THEOREM EffectsAreApproved == Spec => []ApprovedBeforeEffect
  <1>1. GInv => ApprovedBeforeEffect
    BY DEF GInv, SlotInv, ApprovedBeforeEffect, Granted
  <1> QED
    BY <1>1, AlwaysGInv, PTL

\* _finish_call accepts the result of whoever still owns the Run.
THEOREM OwnersAreHeard == Spec => []OwnersResultIsAccepted
  <1>1. GInv => OwnersResultIsAccepted
    BY DEF GInv, SlotInv, OwnersResultIsAccepted
  <1> QED
    BY <1>1, AlwaysGInv, PTL

\* Whatever a checkpoint holds of a call is what the database holds of it.
THEOREM SeenIsStored == Spec => []ObservedIsDurable
  <1>1. GInv => ObservedIsDurable
    BY DEF GInv, SeenInv, SlotInv, ObservedIsDurable, IsSettled
  <1> QED
    BY <1>1, AlwaysGInv, PTL

-----------------------------------------------------------------------------
(* A Run that nobody disturbs                                              *)

\* The executor of the call may not run again: its row is settled, the Run is closed, or
\* the attempt that ran it is about to settle the call or to close the Run.
Spent(k) == \/ IsSettled(k)
            \/ run.status \in Closed
            \/ \E w \in Workers : worker[w].pc = "aborting" \/ (worker[w].pc = "effected" /\ worker[w].at = k)

\* The slot that is not idle owns the Run, and what has succeeded is spent.
Quiet == /\ \A w \in Workers : run.holder = w <=> worker[w].pc # "idle"
         /\ \A w \in Workers : worker[w].pc = "begun" => returned[worker[w].at] = 0
         /\ \A k \in Calls : returned[k] # 0 => returned[k] = 1 /\ Spent(k)

QInv == disruptions = 0 => Quiet

\* The owner goes on, and no executor returns.
LEMMA QuietGoesOn ==
  ASSUME Quiet, NEW w \in Workers, worker[w].pc # "idle", worker'[w].pc # "idle",
         \A v \in Workers : v # w => worker'[v] = worker[v],
         run'.holder = run.holder, run.status \in Closed => run'.status \in Closed,
         \A k \in Calls : IsSettled(k) => IsSettled(k)', returned' = returned,
         worker'[w].pc = "begun" => returned[worker'[w].at] = 0,
         worker[w].pc = "aborting" => worker'[w].pc = "aborting",
         worker[w].pc = "effected" =>
             \/ worker'[w].pc = "aborting"
             \/ worker'[w].pc = "effected" /\ worker'[w].at = worker[w].at
             \/ call'[worker[w].at].status \in Settled
  PROVE  Quiet'
  <1>1. \A v \in Workers : run'.holder = v <=> worker'[v].pc # "idle"
    BY DEF Quiet
  <1>2. \A v \in Workers : worker'[v].pc = "begun" => returned'[worker'[v].at] = 0
    BY DEF Quiet
  <1>3. ASSUME NEW k \in Calls, returned'[k] # 0 PROVE returned'[k] = 1 /\ Spent(k)'
    <2>1. returned[k] = 1 /\ Spent(k)
      BY <1>3 DEF Quiet
    <2>2. CASE IsSettled(k) \/ run.status \in Closed
      BY <2>1, <2>2 DEF Spent
    <2>3. ASSUME NEW v \in Workers, worker[v].pc = "aborting" \/ (worker[v].pc = "effected" /\ worker[v].at = k)
          PROVE  Spent(k)'
      <3>1. CASE v # w
        BY <2>3, <3>1 DEF Spent
      <3>2. CASE v = w
        BY <2>3, <3>2 DEF Spent, IsSettled
      <3> QED
        BY <3>1, <3>2
    <2> QED
      BY <2>1, <2>2, <2>3 DEF Spent
  <1> QED
    BY <1>1, <1>2, <1>3 DEF Quiet

\* What the owner writes of other slots and of settled calls: nothing.
LEMMA RowsStay ==
  ASSUME TypeOK, NEW k \in Calls, ~ IsSettled(k), NEW row, call' = [call EXCEPT ![k] = row]
  PROVE  \A j \in Calls : IsSettled(j) => IsSettled(j)'
  BY Types DEF IsSettled

\* Between two calls.
LEMMA QuietLoop ==
  ASSUME GInv, Quiet, NEW w \in Workers,
         \/ \E calls \in SUBSET Calls : ModelActs(w, calls)
         \/ ModelAnswers(w) \/ LoopEnds(w) \/ Observe(w) \/ Abort(w) \/ RecordCheckpoint(w)
         \/ \E k \in Calls : BeginLost(w, k)
  PROVE  Quiet'
  <1>t. worker \in [Workers -> Slot]
    BY Types DEF GInv
  <1>1. /\ run'.holder = run.holder /\ run'.status = run.status /\ returned' = returned
        /\ \A k \in Calls : IsSettled(k) => IsSettled(k)'
    <2>1. run' = run \/ run' = [run EXCEPT !.cp = Head(worker[w].stream)]
      BY DEF ModelActs, ModelAnswers, LoopEnds, Observe, Abort, RecordCheckpoint, BeginLost
    <2>2. run'.holder = run.holder /\ run'.status = run.status
      BY <2>1, Types DEF GInv, Run
    <2>3. UNCHANGED <<call, returned>>
      BY DEF ModelActs, ModelAnswers, LoopEnds, Observe, Abort, RecordCheckpoint, BeginLost
    <2> QED
      BY <2>2, <2>3 DEF IsSettled
  <1>2. worker[w].pc # "idle" /\ \A v \in Workers : v # w => worker'[v] = worker[v]
    BY <1>t DEF ModelActs, ModelAnswers, LoopEnds, Observe, Abort, RecordCheckpoint, BeginLost, Emit, Goto, Executing,
                NextCall, Owns
  <1>3. CASE RecordCheckpoint(w)
    <2>1. worker'[w].pc = worker[w].pc /\ worker'[w].at = worker[w].at
      BY <1>3, <1>t DEF RecordCheckpoint, Slot
    <2> QED
      BY <1>1, <1>2, <2>1, QuietGoesOn DEF Quiet
  <1>4. CASE ~ RecordCheckpoint(w)
    <2>1. /\ worker[w].pc \in {"executing", "effected"}
          /\ worker'[w].pc \in {"executing", "returned", "aborting"}
          /\ worker[w].pc = "effected" => worker'[w].pc = "aborting"
      <3>1. ASSUME NEW cp, NEW pc, Emit(w, cp, pc) PROVE worker'[w].pc = pc
        BY <1>t, <3>1 DEF Emit, Slot
      <3>2. ASSUME NEW pc, Goto(w, pc) PROVE worker'[w].pc = pc
        BY <1>t, <3>2 DEF Goto, Slot
      <3>3. CASE Abort(w)
        BY <3>2, <3>3 DEF Abort
      <3>4. CASE LoopEnds(w) \/ \E k \in Calls : BeginLost(w, k)
        BY <3>2, <3>4 DEF LoopEnds, BeginLost, NextCall, Executing
      <3>5. CASE ModelAnswers(w) \/ Observe(w) \/ \E calls \in SUBSET Calls : ModelActs(w, calls)
        <4>1. (\E cp : Emit(w, cp, "returned")) \/ \E cp : Emit(w, cp, "executing")
          BY <3>5 DEF ModelAnswers, Observe, ModelActs
        <4>2. worker[w].pc = "executing"
          BY <3>5 DEF ModelAnswers, Observe, ModelActs, Executing
        <4> QED
          BY <3>1, <4>1, <4>2
      <3> QED
        BY <1>4, <3>3, <3>4, <3>5
    <2> QED
      BY <1>1, <1>2, <2>1, QuietGoesOn
  <1> QED
    BY <1>3, <1>4

\* A call begins: none that has succeeded, for what is spent is settled, or somebody else
\* than the owner holds it, or the Run is closed.
LEMMA QuietBegins ==
  ASSUME GInv, Quiet, NEW w \in Workers, NEW k \in Calls,
         BeginCached(w, k) \/ BeginRejected(w, k) \/ BeginPending(w, k) \/ BeginCall(w, k)
  PROVE  Quiet'
  <1>t. /\ worker \in [Workers -> Slot] /\ worker[w].pc = "executing" /\ Owns(w) /\ worker[w].pc # "idle"
        /\ run.status \notin Closed /\ run.holder = w
    BY Types DEF GInv, BeginCached, BeginRejected, BeginPending, BeginCall, NextCall, Executing, OwnsActive, Owns, Closed
  <1>1. /\ run'.holder = run.holder /\ returned' = returned
        /\ \A v \in Workers : v # w => worker'[v] = worker[v]
    BY <1>t, Types DEF BeginCached, BeginRejected, BeginPending, BeginCall, Saved, GInv, Run
  <1>2. \A j \in Calls : IsSettled(j) => IsSettled(j)'
    <2>1. CASE UNCHANGED call
      BY <2>1 DEF IsSettled
    <2>2. CASE ~ UNCHANGED call
      <3>1. ~ IsSettled(k) /\ \E row : call' = [call EXCEPT ![k] = row]
        BY <2>2 DEF BeginCached, BeginRejected, BeginPending, BeginCall, Recorded, IsSettled, Settled, Results
      <3> QED
        BY <3>1, RowsStay DEF GInv
    <2> QED
      BY <2>1, <2>2
  <1>3. CASE BeginCall(w, k)
    <2>1. worker'[w].pc = "begun" /\ worker'[w].at = k
      BY <1>3, <1>t DEF BeginCall, Slot
    <2>2. ~ IsSettled(k)
      BY <1>3 DEF BeginCall, IsSettled, Recorded, Settled, Results
    <2>3. \A v \in Workers : worker[v].pc \notin {"aborting", "effected"}
      BY <1>t DEF Quiet
    <2>4. returned[k] = 0
      BY <1>t, <2>2, <2>3 DEF Quiet, Spent
    <2> QED
      BY <1>t, <1>1, <1>2, <2>1, <2>4, QuietGoesOn
  <1>4. CASE ~ BeginCall(w, k)
    <2>1. worker'[w].pc \in {"executing", "suspended"}
      BY <1>4, <1>t DEF BeginCached, BeginRejected, BeginPending, Slot
    <2> QED
      BY <1>t, <1>1, <1>2, <2>1, QuietGoesOn
  <1> QED
    BY <1>3, <1>4

\* The executor returns for the first time.
LEMMA QuietExecutes ==
  ASSUME GInv, Quiet, NEW w \in Workers, NEW result \in Results, Execute(w, result) PROVE Quiet'
  <1>k. worker[w].at \in Calls /\ worker[w].pc = "begun" /\ returned \in [Calls -> 0..2] /\ worker \in [Workers -> Slot]
    BY Types DEF GInv, SlotInv, Execute, TypeOK
  <1> SUFFICES ASSUME NEW k \in Calls, k = worker[w].at PROVE Quiet'
    BY <1>k
  <1>1. /\ worker'[w].pc = "effected" /\ worker'[w].at = k /\ UNCHANGED <<run, call>>
        /\ \A v \in Workers : v # w => worker'[v] = worker[v]
    BY <1>k DEF Execute, Slot
  <1>2. /\ returned[k] = 0 /\ returned'[k] \in {0, 1} /\ \A j \in Calls : j # k => returned'[j] = returned[j]
    BY <1>k DEF Quiet, Execute
  <1>3. \A v \in Workers : run'.holder = v <=> worker'[v].pc # "idle"
    BY <1>k, <1>1 DEF Quiet
  <1>4. ASSUME NEW v \in Workers, worker'[v].pc = "begun" PROVE returned'[worker'[v].at] = 0
    <2>1. v # w /\ worker[v].pc = "begun"
      BY <1>1, <1>4
    <2> QED
      BY <1>k, <2>1 DEF Quiet
  <1>5. ASSUME NEW j \in Calls, returned'[j] # 0 PROVE returned'[j] = 1 /\ Spent(j)'
    <2>1. CASE j = k
      BY <1>1, <1>2, <1>5, <2>1 DEF Spent
    <2>2. CASE j # k
      <3>1. returned[j] = 1 /\ Spent(j)
        BY <1>2, <1>5, <2>2 DEF Quiet
      <3>2. \A v \in Workers : worker[v].pc = "aborting" \/ (worker[v].pc = "effected" /\ worker[v].at = j)
               => v # w
        BY <1>k
      <3> QED
        BY <1>1, <1>2, <2>2, <3>1, <3>2 DEF Spent, IsSettled
    <2> QED
      BY <2>1, <2>2
  <1> QED
    BY <1>3, <1>4, <1>5 DEF Quiet

\* The attempt ends with its result written, or the Run closes.
LEMMA QuietWrites ==
  ASSUME GInv, Quiet, NEW w \in Workers, Retry(w) \/ FinishCall(w) \/ CancelExecutor(w) PROVE Quiet'
  <1>k. /\ worker[w].at \in Calls /\ worker[w].pc \in {"begun", "effected"}
        /\ worker \in [Workers -> Slot] /\ call \in [Calls -> Call]
    BY Types DEF GInv, SlotInv, Retry, FinishCall, CancelExecutor
  <1> SUFFICES ASSUME NEW k \in Calls, k = worker[w].at PROVE Quiet'
    BY <1>k
  <1>1. Owns(w) /\ InExecutor(w, k) /\ call[k].status = "running" /\ run.holder = w /\ MayWrite(w) /\ ~ IsSettled(k)
        /\ run.status \notin Closed
    <2>1. Owns(w) /\ InExecutor(w, k) /\ run.holder = w
      BY <1>k DEF Quiet, Owns, InExecutor
    <2>2. call[k].status = "running" /\ call[k].token = w
      BY <2>1 DEF GInv, SlotInv
    <2> QED
      BY <2>1, <2>2 DEF MayWrite, IsSettled, Settled, Results, GInv, ClosedIsReleased
  <1>2. run'.holder = run.holder /\ returned' = returned /\ \A v \in Workers : v # w => worker'[v] = worker[v]
    <2>1. run' = run \/ run' = [run EXCEPT !.status = "running"]
      BY DEF Retry, FinishCall, CancelExecutor
    <2>2. run \in Run
      BY Types DEF GInv
    <2>3. run'.holder = run.holder
      BY <2>1, <2>2 DEF Run
    <2> QED
      BY <1>k, <2>3 DEF Retry, FinishCall, CancelExecutor, Goto
  <1>3. \A j \in Calls : IsSettled(j) => IsSettled(j)'
    <2>1. \E row : call' = [call EXCEPT ![k] = row]
      BY <1>1 DEF Retry, FinishCall, CancelExecutor
    <2> QED
      BY <1>1, <2>1, RowsStay DEF GInv
  <1>4. CASE Retry(w)
    <2>1. worker' = worker
      BY <1>1, <1>4 DEF Retry
    <2> QED
      BY <1>1, <1>2, <1>3, <1>4, <1>k, <2>1, QuietGoesOn DEF Quiet, Retry
  <1>5. CASE FinishCall(w)
    <2>1. worker'[w].pc = "executing" /\ worker[w].pc = "effected"
      BY <1>1, <1>5, <1>k DEF FinishCall, Slot
    <2>2. call'[k].status = worker[w].result
      BY <1>1, <1>5, <1>k DEF FinishCall, Call
    <2>3. call'[worker[w].at].status \in Settled
      BY <2>2, Types DEF Settled, GInv
    <2> QED
      BY <1>1, <1>2, <1>3, <2>1, <2>3, QuietGoesOn
  <1>6. CASE CancelExecutor(w)
    <2>1. worker'[w].pc = "aborting"
      BY <1>6, <1>k DEF CancelExecutor, Goto, Slot
    <2> QED
      BY <1>1, <1>2, <1>3, <1>k, <2>1, QuietGoesOn
  <1> QED
    BY <1>4, <1>5, <1>6

\* The only attempt takes the Run, or gives it back.
LEMMA QuietTakes ==
  ASSUME GInv, Quiet, NEW w \in Workers, Claim(w) \/ SuspendClaim(w) \/ CloseClaim(w) PROVE Quiet'
  <1>t. worker \in [Workers -> Slot] /\ run \in Run
    BY Types DEF GInv
  <1>1. /\ returned' = returned /\ \A v \in Workers : v # w => worker'[v] = worker[v] /\ worker[v].pc = "idle"
        /\ worker[w].pc # "effected" /\ worker'[w].pc \in {"idle", "executing", "returned"}
    <2>1. returned' = returned /\ \A v \in Workers : v # w => worker'[v] = worker[v]
      BY <1>t DEF Claim, SuspendClaim, CloseClaim, Release
    <2>2. run.holder \in {NoWorker, w} /\ worker[w].pc # "effected"
      BY DEF Claim, SuspendClaim, CloseClaim, Owns
    <2>3. \A v \in Workers : v # w => worker[v].pc = "idle"
      BY <2>2 DEF Quiet
    <2>4. worker'[w].pc \in {"idle", "executing", "returned"}
      <3>1. IdleSlot.pc = "idle"
        BY DEF IdleSlot
      <3>2. CASE Claim(w)
        BY <1>t, <3>2 DEF Claim, IdleSlot
      <3>3. CASE ~ Claim(w)
        <4>1. worker' = [worker EXCEPT ![w] = IdleSlot]
          BY <3>3 DEF SuspendClaim, CloseClaim, Release
        <4> QED
          BY <1>t, <3>1, <4>1
      <3> QED
        BY <3>2, <3>3
    <2> QED
      BY <2>1, <2>2, <2>3, <2>4
  <1>2. run'.holder = (IF Claim(w) THEN w ELSE NoWorker) /\ (Claim(w) <=> worker'[w].pc # "idle")
    <2>1. CASE Claim(w)
      BY <1>t, <2>1 DEF Claim, Run, IdleSlot
    <2>2. CASE ~ Claim(w)
      <3>1. worker' = [worker EXCEPT ![w] = IdleSlot] /\ run'.holder = NoWorker
        <4>1. CASE SuspendClaim(w)
          BY <4>1 DEF SuspendClaim, Release
        <4>2. CASE CloseClaim(w)
          BY <1>t, <4>2 DEF CloseClaim, Release, Run
        <4> QED
          BY <2>2, <4>1, <4>2
      <3> QED
        BY <1>t, <2>2, <3>1 DEF IdleSlot
    <2> QED
      BY <2>1, <2>2
  <1>3. \A k \in Calls : IsSettled(k) => IsSettled(k)'
    <2>1. \A k \in Calls : call'[k].status = call[k].status
      <3>1. \A k \in Calls : call[k] \in Call
        BY Types DEF GInv
      <3> QED
        BY <3>1 DEF Claim, SuspendClaim, CloseClaim, Release, Detach, Call
    <2> QED
      BY <2>1 DEF IsSettled
  <1>4. /\ run.status \in Closed => run'.status \in Closed
        /\ worker[w].pc = "aborting" => run'.status \in Closed
    <2>1. run.status \in Closed => ~ Owns(w) /\ ~ Claim(w)
      BY DEF GInv, ClosedIsReleased, Owns, Claim, Closed
    <2> QED
      BY <1>t, <2>1 DEF Claim, SuspendClaim, CloseClaim, Closed, Run
  <1>5. ASSUME NEW k \in Calls, returned'[k] # 0 PROVE returned'[k] = 1 /\ Spent(k)'
    <2>1. returned[k] = 1 /\ Spent(k)
      BY <1>1, <1>5 DEF Quiet
    <2>2. IsSettled(k) \/ run.status \in Closed \/ worker[w].pc = "aborting"
      BY <1>1, <2>1 DEF Spent
    <2> QED
      BY <1>1, <1>3, <1>4, <2>1, <2>2 DEF Spent
  <1>6. \A v \in Workers : run'.holder = v <=> worker'[v].pc # "idle"
    BY <1>1, <1>2
  <1>7. \A v \in Workers : worker'[v].pc # "begun"
    BY <1>1
  <1> QED
    BY <1>5, <1>6, <1>7 DEF Quiet

\* A request is decided or expires.
LEMMA QuietDecides ==
  ASSUME GInv, Quiet, NEW k \in Calls, NEW status, FinishApproval(k, status), UNCHANGED <<returned, worker>>
  PROVE  Quiet'
  <1>1. run'.holder = run.holder /\ (run.status \in Closed => run'.status \in Closed)
    BY Types DEF GInv, FinishApproval, Run, Closed
  <1>2. \A j \in Calls : IsSettled(j) => IsSettled(j)'
    <2>1. \A j \in Calls : call[j].status \in Settled => call'[j] = call[j]
      BY Types DEF GInv, FinishApproval, Settle, Settled, Results
    <2> QED
      BY <2>1 DEF IsSettled
  <1>3. \A j \in Calls : Spent(j) => Spent(j)'
    BY <1>1, <1>2 DEF Spent
  <1> QED
    BY <1>1, <1>3 DEF Quiet

LEMMA NextQInv ==
  ASSUME GInv, QInv, [Next]_vars PROVE QInv'
  <1> SUFFICES ASSUME disruptions' = 0 PROVE Quiet'
    BY DEF QInv
  <1>d. disruptions \in Nat
    BY DEF GInv, TypeOK
  <1>1. ~ Disrupt /\ \A w \in Workers : ~ Crash(w)
    BY <1>d DEF Crash, Disrupt
  <1>2. CASE UNCHANGED vars
    <2>1. Quiet
      BY <1>2 DEF QInv, vars
    <2>2. \A k : Spent(k)' = Spent(k)
      BY <1>2 DEF vars, Spent, IsSettled
    <2> QED
      BY <1>2, <2>1, <2>2 DEF vars, Quiet
  <1>3. ASSUME NEW w \in Workers, WorkerStep(w) PROVE Quiet'
    <2>1. UNCHANGED disruptions
      BY <1>3 DEF WorkerStep, Claim, ModelActs, ModelAnswers, LoopEnds, Observe, RecordCheckpoint, Gateway, BeginLost,
                  BeginCached, BeginRejected, BeginPending, BeginCall, Execute, Retry, FinishCall, CancelExecutor, Abort,
                  SuspendClaim, CloseClaim, ClaimLost
    <2>2. Quiet
      BY <2>1 DEF QInv
    <2>3. ~ ClaimLost(w)
      BY <2>2 DEF ClaimLost, Owns, Quiet
    <2> QED
      BY <1>3, <2>2, <2>3, QuietLoop, QuietBegins, QuietExecutes, QuietWrites, QuietTakes DEF WorkerStep, Gateway
  <1>4. CASE Environment
    <2>1. CASE LeaseExpires
      <3>1. run.holder \in Workers /\ UNCHANGED disruptions /\ worker[run.holder].pc = "idle"
        BY <1>1, <2>1, Types DEF LeaseExpires, GInv
      <3> QED
        BY <3>1 DEF QInv, Quiet
    <2>2. CASE \E k \in Calls : (\E decision \in Approval : Decide(k, decision)) \/ Expire(k)
      <3>1. PICK k \in Calls : (\E decision \in Approval : Decide(k, decision)) \/ Expire(k)
        BY <2>2
      <3>2. (\E status : FinishApproval(k, status)) /\ UNCHANGED <<returned, worker, disruptions>>
        BY <3>1 DEF Decide, Expire
      <3>3. Quiet
        BY <3>2 DEF QInv
      <3> QED
        BY <3>2, <3>3, QuietDecides
    <2>3. CASE CancelRun \/ \E target \in Status : TransitionRun(target)
      BY <1>1, <2>3 DEF CancelRun, TransitionRun
    <2> QED
      BY <1>1, <1>4, <2>1, <2>2, <2>3 DEF Environment
  <1> QED
    BY <1>2, <1>3, <1>4 DEF Next

\* The executor of a call succeeds once while no worker is lost and no operator steps in,
\* however often the Run suspends and replays (_begin_call, _finish_call, suspend_claim).
THEOREM ReplaysAreHarmless == Spec => []ReplayRepeatsNothing
  <1>1. Init => QInv
    <2> SUFFICES ASSUME Init PROVE Quiet
      BY DEF QInv
    <2>1. \A w \in Workers : worker[w].pc = "idle" /\ run.holder # w
      BY DEF Init, IdleSlot
    <2>2. \A k \in Calls : returned[k] = 0
      BY DEF Init
    <2> QED
      BY <2>1, <2>2 DEF Quiet
  <1>2. GInv /\ QInv /\ [Next]_vars => QInv'
    BY NextQInv
  <1>3. GInv /\ QInv => ReplayRepeatsNothing
    <2> SUFFICES ASSUME GInv, QInv, disruptions = 0, NEW k \in Calls PROVE returned[k] <= 1
      BY DEF ReplayRepeatsNothing
    <2>1. returned[k] \in 0..2 /\ (returned[k] # 0 => returned[k] = 1)
      BY DEF GInv, TypeOK, QInv, Quiet
    <2> QED
      BY <2>1
  <1> QED
    BY <1>1, <1>2, <1>3, AlwaysGInv, PTL DEF Spec
=============================================================================
