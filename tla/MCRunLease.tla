----------------------------- MODULE MCRunLease -----------------------------
(* Model values and finite sets for the runs of RunLease.                  *)
EXTENDS RunLease, TLC

CONSTANTS w1, w2, r1, id1

\* Two processes started with the same NICO_WORKER_ID.
SharedId == [w \in Workers |-> id1]
\* Only the second slot may lose its polling task.
SecondSlot == {w2}
=============================================================================
