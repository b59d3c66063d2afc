-------------------------- MODULE MCMemoryLifecycle --------------------------
EXTENDS MemoryLifecycle, FiniteSetsExt, TLC

(* Callers, validators and concurrent calls are interchangeable. *)
Symmetric == Permutations(Person) \cup Permutations(Evaluator)
             \cup Permutations(Validator) \cup Permutations(Generator)

(* Bounds: the evaluations and the approval requests of all memories, and  *)
(* the calls under way at the same time.                                   *)
AllEvaluations == 2
AllReviews == 2
InFlight == 2

Total(table) == MapThenSumSet(LAMBDA s : Len(table[s]), Subject)
Busy(calls) == Cardinality({ c \in DOMAIN calls : calls[c] # None })

FewRows == Total(evaluations) <= AllEvaluations /\ Total(approvals) <= AllReviews
FewCalls == Busy(validating) + Busy(reflecting) <= InFlight

(* Bound: how often things go wrong, in a verdict, a review or an ending. *)
Setbacks == 1
Count(s) ==
    Cardinality({ i \in DOMAIN evaluations[s] : evaluations[s][i].outcome = "fail" })
    + Cardinality({ i \in Reviews(s) : approvals[s][i].status \in {"rejected", "cancelled", "expired"} })
    + Cardinality({ r \in Rows : r = s /\ memories[r].status \in {"expired", "deleted"} })
FewSetbacks == MapThenSumSet(Count, Subject) <= Setbacks
=============================================================================
