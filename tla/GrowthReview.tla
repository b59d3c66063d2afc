---------------------------- MODULE GrowthReview ----------------------------
(***************************************************************************)
(* The evidence a piece of growth knowledge needs before it is published:  *)
(* evaluations (growth/evaluation.py) and approvals (growth/approval.py)   *)
(* of a subject, which is a Memory row or a SkillVersion row.  This module *)
(* holds the tables the two subject kinds share and the transactions on    *)
(* them; MemoryLifecycle and SkillRelease supply the subjects.             *)
(*                                                                         *)
(* The expected_revision of a request is a number its caller chooses, and  *)
(* only the current one gets further: a request is one step.  What stays   *)
(* of its waiting is the clock it read before it waited for its locks, any *)
(* time `at` up to the clock of the step.  The content of a subject is     *)
(* immutable (its hash is checked at every use), so evidence for the       *)
(* subject is evidence for its hash.  The latest evaluation is the last    *)
(* one recorded: created_at is taken by the host while the row of the      *)
(* subject is locked, so that it follows the order of the commits as long  *)
(* as the clocks of the hosts agree.                                       *)
(***************************************************************************)
EXTENDS Naturals, Sequences

CONSTANTS Subject,       \* the memories or the skill versions there may be
          Person,        \* callers: requesters, reviewers, publishers
          Evaluator,     \* concurrent calls of evaluate
          Validator,     \* the names and versions of validators
          MaxTime,       \* bound of the clock
          Ttl,           \* how long an approval request is valid
          MaxReviews,    \* bound on the approvals of a subject
          None

ASSUME ReviewAssumption ==
    /\ MaxTime \in Nat /\ Ttl \in Nat \ {0} /\ MaxReviews \in Nat
    /\ None \notin Person

VARIABLES clock,         \* the database's clock, ahead of what a handler read
          evaluations,   \* table evaluations: per subject, in order of creation
          validating,    \* per call of evaluate: the validation in progress
          approvals      \* table approvals: per subject, in order of creation

reviewVars == <<clock, evaluations, validating, approvals>>

EvaluationRow(Snapshot) == [by : Validator, outcome : {"pass", "fail"}, snapshot : Snapshot]

ApprovalRow ==
    [status : {"requested", "approved", "rejected", "cancelled", "expired"},
     requester : Person, reviewer : Person \cup {None}, expires : Nat]

Validation(Snapshot) == [subject : Subject, by : Validator, snapshot : Snapshot]

Times == 0..MaxTime
NoExpiry == MaxTime + 1

(* The clock a handler has read when it gets its locks. *)
Read == 0..clock

(* latest_evaluation: the last terminal evaluation of the subject; the     *)
(* publications and the review requests want it completed and passed.      *)
Passed(s) ==
    /\ evaluations[s] # <<>>
    /\ evaluations[s][Len(evaluations[s])].outcome = "pass"

EvaluatedBy(s, v) == \E i \in DOMAIN evaluations[s] : evaluations[s][i].by = v

Reviews(s) == DOMAIN approvals[s]

(* valid_approval, asked at time t: an approved row that has not expired. *)
ValidApproval(s, t) ==
    \E i \in Reviews(s) :
        /\ approvals[s][i].status = "approved"
        /\ approvals[s][i].expires > t
        /\ approvals[s][i].reviewer # approvals[s][i].requester

Requested(s) == { i \in Reviews(s) : approvals[s][i].status = "requested" }

InitReview ==
    /\ clock = 0
    /\ evaluations = [s \in Subject |-> <<>>]
    /\ validating = [e \in Evaluator |-> None]
    /\ approvals = [s \in Subject |-> <<>>]

Tick ==
    /\ clock < MaxTime
    /\ clock' = clock + 1
    /\ UNCHANGED <<evaluations, validating, approvals>>

-----------------------------------------------------------------------------
(* Evaluation *)

(* The first two transactions of evaluate: the snapshot of the subject     *)
(* and the search for an evaluation by the same validator.  The validator  *)
(* then runs outside any transaction.                                      *)
EvaluateRead(e, s, snapshot) ==
    /\ validating[e] = None
    /\ \E v \in Validator :
           /\ ~EvaluatedBy(s, v)
           /\ validating' = [validating EXCEPT ![e] = [subject |-> s, by |-> v,
                                                      snapshot |-> snapshot]]
    /\ UNCHANGED <<clock, evaluations, approvals>>

(* The subject is as it was, and nobody has evaluated it meanwhile with    *)
(* the same validator (the unique index of migration 0008).                *)
Recordable(e, snapshot) ==
    /\ validating[e].snapshot = snapshot
    /\ ~EvaluatedBy(validating[e].subject, validating[e].by)

(* The last transaction of evaluate, with the subject locked.  It records  *)
(* the validator's verdict; its own error is an evaluation that has not    *)
(* passed, like a verdict against the subject, so that the same validator  *)
(* never evaluates this content again.  Only what is valid in the snapshot *)
(* can pass.                                                               *)
EvaluateRecord(e, snapshot, passable) ==
    /\ validating' = [validating EXCEPT ![e] = None]
    /\ IF Recordable(e, snapshot)
       THEN \E outcome \in {"fail"} \cup (IF passable THEN {"pass"} ELSE {}) :
              evaluations' = [evaluations EXCEPT ![validating[e].subject] = Append(@,
                 [by |-> validating[e].by, outcome |-> outcome, snapshot |-> snapshot])]
       ELSE UNCHANGED evaluations
    /\ UNCHANGED <<clock, approvals>>

-----------------------------------------------------------------------------
(* Approval *)

(* Closing an open request: every outcome is a new revision of the row. *)
Close(row, status, reviewer) ==
    [row EXCEPT !.status = status, !.reviewer = reviewer]

(* request, with the subject locked.  An open request is returned, a       *)
(* lapsed one is closed first, a valid approval is returned, otherwise a   *)
(* new request is opened.                                                  *)
RequestReview(p, s) ==
    /\ Passed(s)
    /\ \E at \in Read :
         LET lapsed == { i \in Requested(s) : approvals[s][i].expires <= at }
             closed == [ i \in Reviews(s) |->
                           IF i \in lapsed THEN Close(approvals[s][i], "expired", None)
                                           ELSE approvals[s][i] ]
             served == Requested(s) # lapsed \/ ValidApproval(s, at)
             opened == Append(closed, [status |-> "requested", requester |-> p,
                                       reviewer |-> None, expires |-> at + Ttl])
         IN  /\ served \/ Len(closed) < MaxReviews
             /\ approvals' = [approvals EXCEPT ![s] = IF served THEN closed ELSE opened]
    /\ UNCHANGED <<clock, evaluations, validating>>

(* decide: a request past its expiry is closed instead; its requester may  *)
(* not review it.                                                          *)
Decide(p, s, decision) ==
    /\ \E i \in Requested(s), at \in Read :
         IF approvals[s][i].expires <= at
         THEN approvals' = [approvals EXCEPT ![s][i] = Close(@, "expired", None)]
         ELSE /\ approvals[s][i].requester # p
              /\ approvals' = [approvals EXCEPT ![s][i] = Close(@, decision, p)]
    /\ UNCHANGED <<clock, evaluations, validating>>

(* cancel: only the requester, and only before the decision. *)
CancelReview(p, s) ==
    /\ \E i \in Requested(s) :
         /\ approvals[s][i].requester = p
         /\ approvals' = [approvals EXCEPT ![s][i] = Close(@, "cancelled", None)]
    /\ UNCHANGED <<clock, evaluations, validating>>

Review(p, s) ==
    \/ Decide(p, s, "approved")
    \/ Decide(p, s, "rejected")
    \/ CancelReview(p, s)

-----------------------------------------------------------------------------
(* Properties of the review itself *)

ReviewTypeOK(Snapshot) ==
    /\ clock \in Times
    /\ evaluations \in [Subject -> Seq(EvaluationRow(Snapshot))]
    /\ validating \in [Evaluator -> Validation(Snapshot) \cup {None}]
    /\ approvals \in [Subject -> Seq(ApprovalRow)]

=============================================================================
