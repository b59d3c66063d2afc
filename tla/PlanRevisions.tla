---------------------------- MODULE PlanRevisions ----------------------------
(***************************************************************************)
(* What the Plan history of one Run promises its readers (the API, the     *)
(* operator, the next worker): revisions are appended, never inserted; a   *)
(* revision is opened only when the one before it is closed; a closed      *)
(* revision keeps its status for ever.  The abstract specification that    *)
(* PlanExecution implements.                                               *)
(***************************************************************************)
EXTENDS Sequences, Naturals

VARIABLE history   \* the statuses of the revisions, oldest first

Closed == {"superseded", "completed", "failed"}

Init == history = <<>>

Open ==
    /\ \A r \in DOMAIN history : history[r] \in Closed
    /\ history' = Append(history, "active")

Close ==
    /\ history # <<>>
    /\ history[Len(history)] = "active"
    /\ \E s \in Closed : history' = [history EXCEPT ![Len(history)] = s]

Next == Open \/ Close

Spec == Init /\ [][Next]_history
=============================================================================
