---------------------------- MODULE Publication ----------------------------
(***************************************************************************)
(* What the growth pipeline promises of the knowledge it publishes: an     *)
(* item goes live at most once, only when its evidence is complete, and    *)
(* what has been withdrawn never comes back.  The evidence (evaluations,   *)
(* approvals, expiry) is an input here: it may change at any step.         *)
(* MemoryLifecycle and SkillRelease implement this specification, and say  *)
(* what evidence is complete.                                              *)
(***************************************************************************)
CONSTANTS Item

VARIABLES cleared,   \* the items whose evidence is complete now
          live,      \* the items in use
          retired    \* the items that have been live and are no more

outputs == <<live, retired>>

Init == live = {} /\ retired = {}

(* One item goes live; older ones may be withdrawn by the same step. *)
GoLive(i) ==
    /\ i \in cleared
    /\ i \notin live \cup retired
    /\ \E old \in SUBSET live :
           /\ live' = (live \ old) \cup {i}
           /\ retired' = retired \cup old

Withdraw(i) ==
    /\ i \in live
    /\ live' = live \ {i}
    /\ retired' = retired \cup {i}

Next == \E i \in Item : GoLive(i) \/ Withdraw(i)

Spec == Init /\ [][Next]_outputs
=============================================================================
