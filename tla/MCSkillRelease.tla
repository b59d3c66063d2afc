--------------------------- MODULE MCSkillRelease ---------------------------
EXTENDS SkillRelease, FiniteSets, FiniteSetsExt, TLC

(* Callers and canary scopes are interchangeable. *)
Symmetric == Permutations(Person) \cup Permutations(Scope)

(* Bounds: the revisions of the skill, the approval requests, and how      *)
(* often evaluation or review go wrong.                                    *)
MaxRevision == 10
AllReviews == 2
Setbacks == 1

Reviewed == MapThenSumSet(LAMBDA v : Len(approvals[v]), Subject)

Failures(v) ==
    Cardinality({ i \in DOMAIN evaluations[v] : evaluations[v][i].outcome = "fail" })
    + Cardinality({ i \in Reviews(v) : approvals[v][i].status \in {"rejected", "cancelled", "expired"} })

FewSteps ==
    /\ skill.rev <= MaxRevision
    /\ Reviewed <= AllReviews
    /\ MapThenSumSet(Failures, Subject) <= Setbacks
=============================================================================
