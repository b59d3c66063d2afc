---------------------------- MODULE MCToolGateway ----------------------------
(* Model values for the runs of ToolGateway.                               *)
EXTENDS ToolGateway, TLC

CONSTANTS w1, w2, k1, k2

\* Every status, and every one but the wait that only an approval should end.
AnyTarget == Status
NoApprovalWait == Status \ {"waiting_for_approval"}

\* Slots are told apart by what they hold only.
WorkerSymmetry == Permutations(Workers)
=============================================================================
