------------------------------ MODULE RunOutcome ------------------------------
(***************************************************************************)
(* What the queue promises about one Run to whoever reads its row: its     *)
(* durable progress only moves forward while it is open, and it is closed  *)
(* at most once, by an outcome that never changes afterwards.  How many    *)
(* workers tried it, and which of them died, does not show.                *)
(***************************************************************************)
EXTENDS Naturals

CONSTANTS Runs, Results

Open == "open"

VARIABLES outcome,    \* Open, or the result the Run was closed with
          progress    \* steps covered by the durable checkpoint

Init == /\ outcome = [r \in Runs |-> Open]
        /\ progress = [r \in Runs |-> 0]

\* The owner of the Run makes more of its work durable.
Advance(r) ==
    /\ outcome[r] = Open
    /\ progress'[r] \in Nat /\ progress'[r] > progress[r]
    /\ progress' = [progress EXCEPT ![r] = progress'[r]]
    /\ UNCHANGED outcome

\* The Run is closed.  A failed one may fall back to an earlier checkpoint.
Close(r) ==
    /\ outcome[r] = Open
    /\ \E o \in Results : outcome' = [outcome EXCEPT ![r] = o]
    /\ \E n \in 0..progress[r] : progress' = [progress EXCEPT ![r] = n]

Next == \E r \in Runs : Advance(r) \/ Close(r)

Spec == Init /\ [][Next]_<<outcome, progress>>

=============================================================================
