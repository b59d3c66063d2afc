------------------------------ MODULE RunStates ------------------------------
(***************************************************************************)
(* The Run statuses, the sets of them that the services test, and the      *)
(* transition table the API enforces.                                      *)
(***************************************************************************)

RunStatus == {"pending", "planning", "running", "waiting_for_tool",
              "waiting_for_approval", "waiting_for_subagent", "paused",
              "completed", "failed", "cancelled", "timed_out"}

TerminalStatus == {"completed", "failed", "cancelled", "timed_out"}

\* What claim_next_run takes from the queue.
ClaimableStatus == {"pending", "planning", "running", "waiting_for_tool"}

\* In which a worker that owns the lease may still write.
ActiveStatus == {"pending", "planning", "running", "paused",
                 "waiting_for_tool", "waiting_for_approval"}

\* RUN_TRANSITIONS: the targets transition_run accepts.
RunTransitions ==
    [s \in RunStatus |->
        CASE s = "pending" -> {"planning", "cancelled", "timed_out"}
          [] s = "planning" -> {"running", "paused", "completed", "failed",
                                "cancelled", "timed_out"}
          [] s = "running" -> {"waiting_for_tool", "waiting_for_approval",
                               "waiting_for_subagent", "paused", "completed",
                               "failed", "cancelled", "timed_out"}
          [] s = "waiting_for_tool" -> {"running", "cancelled"}
          [] s \in {"waiting_for_approval", "waiting_for_subagent"} ->
                               {"running", "failed", "cancelled"}
          [] s = "paused" -> {"running", "cancelled"}
          [] OTHER -> {}]

=============================================================================
