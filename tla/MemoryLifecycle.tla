-------------------------- MODULE MemoryLifecycle --------------------------
(***************************************************************************)
(* Memory growth (growth/service.py, memory/lifecycle.py): candidates are  *)
(* generated from the trajectory of an ended Run, evaluated and reviewed,  *)
(* published into the index, revised, superseded, invalidated, expired and *)
(* deleted.  Versions of one logical memory share a key; at most one is    *)
(* active.  The guard triggers of migrations 0006 and 0008 are part of the *)
(* actions whose writes they check.                                        *)
(***************************************************************************)
EXTENDS GrowthReview, FiniteSets

CONSTANTS Generator,     \* concurrent calls of generate for the Run
          MaxRows,       \* bound on the rows of memories
          MaxTrajectory  \* bound on the changes of the Run's trajectory

ASSUME MemoryAssumption ==
    /\ MaxRows \in Nat /\ MaxTrajectory \in Nat \ {0}
    /\ 1..MaxRows \subseteq Subject
    /\ None \notin 1..MaxTrajectory

VARIABLES memories,      \* table memories, in the order of creation
          trajectory,    \* the hash of the Run's terminal trajectory
          reflecting     \* per generator: the snapshot given to its provider

memoryVars == <<clock, evaluations, validating, approvals, memories, trajectory, reflecting>>

MemoryStatus == {"candidate", "active", "invalidated", "expired", "deleted"}

MemoryRow == [key : 1..MaxRows, version : 1..MaxRows, source : 1..MaxTrajectory,
            status : MemoryStatus, expires : Nat, published : BOOLEAN, rev : 1..4]

Rows == DOMAIN memories

SameKey(r) == { q \in Rows : memories[q].key = memories[r].key }

(* The newest version of the row's logical memory. *)
IsLatest(r) == \A q \in SameKey(r) : memories[q].version <= memories[r].version

Unexpired(r, t) == memories[r].expires > t

NewRow(key, version, source, expires) ==
    [key |-> key, version |-> version, source |-> source, status |-> "candidate",
     expires |-> expires, published |-> FALSE, rev |-> 1]

MemoryInit ==
    /\ InitReview
    /\ memories = <<>>
    /\ trajectory = 1
    /\ reflecting = [g \in Generator |-> None]

-----------------------------------------------------------------------------
(* Candidate generation *)

(* A late fact of the ended Run (a knowledge usage, a session record)      *)
(* changes the hash of its trajectory.                                     *)
TrajectoryChanges ==
    /\ trajectory < MaxTrajectory
    /\ trajectory' = trajectory + 1
    /\ UNCHANGED <<memories, reflecting>> /\ UNCHANGED reviewVars

(* generate, up to the reflection: the snapshot is read in one transaction *)
(* and given to the provider outside of any.                               *)
Reflect(g) ==
    /\ reflecting[g] = None
    /\ reflecting' = [reflecting EXCEPT ![g] = trajectory]
    /\ UNCHANGED <<memories, trajectory>> /\ UNCHANGED reviewVars

(* The candidates generated from this trajectory (by the same provider and *)
(* under the same policy).                                                 *)
Generated(snapshot) ==
    { r \in Rows : memories[r].version = 1 /\ memories[r].source = snapshot }

(* Fault: the search for existing candidates is left out. *)
GenerableAgain(g) ==
    /\ reflecting[g] = trajectory
    /\ Len(memories) < MaxRows

(* generate, its writing transaction, with the Run locked: it fails when   *)
(* the trajectory has changed, and returns what an earlier call generated  *)
(* (or fails, if its own provider has produced something else).  A working *)
(* memory has an expiry from the start.                                    *)
Generable(g) ==
    /\ reflecting[g] = trajectory
    /\ Generated(reflecting[g]) = {}
    /\ Len(memories) < MaxRows

Generate(g) ==
    /\ reflecting[g] # None
    /\ reflecting' = [reflecting EXCEPT ![g] = None]
    /\ IF Generable(g)
       THEN \E expires \in {NoExpiry, MaxTime} :
              memories' = Append(memories, NewRow(Len(memories) + 1, 1, reflecting[g], expires))
       ELSE UNCHANGED memories
    /\ UNCHANGED trajectory /\ UNCHANGED reviewVars

-----------------------------------------------------------------------------
(* Evaluation and review of a memory *)

Candidate(r) == memories[r].status = "candidate"

(* What changes in the snapshot the validator sees of a memory. *)
MemorySnapshot(r) == memories[r].status

EvaluateMemory(e) ==
    \/ \E r \in Rows : Candidate(r) /\ EvaluateRead(e, r, MemorySnapshot(r))
    \/ /\ validating[e] # None
       /\ EvaluateRecord(e, MemorySnapshot(validating[e].subject), TRUE)

ReviewMemory(p, r) == Candidate(r) /\ RequestReview(p, r)

-----------------------------------------------------------------------------
(* The lifecycle *)

(* The write of a row's state: the caller's expected_revision names it. *)
Written(r, status) == [memories[r] EXCEPT !.status = status, !.rev = @ + 1]

(* Fault: the trigger trusts the approval the service has found. *)
EvidenceEvaluated(r) ==
    \E i \in DOMAIN evaluations[r] : evaluations[r][i].outcome = "pass"

(* guard_memory_write, on the change to active: evaluated and approved by  *)
(* the database's own clock, at the end of the transaction.                *)
Evidence(r) ==
    /\ \E i \in DOMAIN evaluations[r] : evaluations[r][i].outcome = "pass"
    /\ ValidApproval(r, clock)

MemoryMoves ==
    { <<"candidate", "active">>, <<"candidate", "deleted">>, <<"active", "invalidated">>,
      <<"active", "expired">>, <<"active", "deleted">>, <<"invalidated", "deleted">>,
      <<"expired", "deleted">> }

GuardMemoryWrite(r, status) ==
    /\ <<memories[r].status, status>> \in MemoryMoves
    /\ status = "active" => Evidence(r)
    /\ status = "expired" => ~Unexpired(r, clock)

(* index_memory_in_session, the last call of publish: it reads the clock   *)
(* again and refuses an expired memory.                                    *)
Indexable(r) == Unexpired(r, clock)

(* publish: the checks use the clock read before the locks were taken.     *)
(* The active version of the same logical memory is superseded.            *)
PublishMemory(r) ==
    /\ Candidate(r)
    /\ IsLatest(r)
    /\ \E at \in Read : Unexpired(r, at) /\ ValidApproval(r, at)
    /\ Passed(r)
    /\ GuardMemoryWrite(r, "active")
    /\ Indexable(r)
    /\ memories' = [ q \in Rows |->
          IF q = r THEN [Written(q, "active") EXCEPT !.published = TRUE]
          ELSE IF q \in SameKey(r) /\ memories[q].status = "active" THEN Written(q, "invalidated")
          ELSE memories[q] ]
    /\ UNCHANGED <<trajectory, reflecting>> /\ UNCHANGED reviewVars

(* revise: a new candidate version of the latest one, which may set an     *)
(* expiry of its own.  The revised row itself is not written.              *)
ReviseMemory(r) ==
    /\ memories[r].status # "deleted"
    /\ IsLatest(r)
    /\ Len(memories) < MaxRows
    /\ \E expires \in {memories[r].expires, MaxTime} :
           memories' = Append(memories, NewRow(memories[r].key, memories[r].version + 1,
                                               memories[r].source, expires))
    /\ UNCHANGED <<trajectory, reflecting>> /\ UNCHANGED reviewVars

(* _terminal_transition: invalidate, expire and delete. *)
End(r, target) ==
    /\ memories[r].status \in IF target = "deleted"
                              THEN {"candidate", "active", "invalidated", "expired"}
                              ELSE {"active"}
    /\ target = "expired" => \E at \in Read : ~Unexpired(r, at)
    /\ GuardMemoryWrite(r, target)
    /\ memories' = [memories EXCEPT ![r] = Written(r, target)]
    /\ UNCHANGED <<trajectory, reflecting>> /\ UNCHANGED reviewVars

-----------------------------------------------------------------------------
MemoryShared ==
    \/ Tick
    \/ \E e \in Evaluator : EvaluateMemory(e)
    \/ \E p \in Person, r \in Rows : ReviewMemory(p, r) \/ Review(p, r)

MemoryStep(r) ==
    \/ PublishMemory(r)
    \/ ReviseMemory(r)
    \/ End(r, "invalidated")
    \/ End(r, "expired")
    \/ End(r, "deleted")

MemoryNext ==
    \/ TrajectoryChanges
    \/ \E g \in Generator : Reflect(g) \/ Generate(g)
    \/ MemoryShared /\ UNCHANGED <<memories, trajectory, reflecting>>
    \/ \E r \in Rows : MemoryStep(r)

MemorySpec == MemoryInit /\ [][MemoryNext]_memoryVars

-----------------------------------------------------------------------------
(* Properties *)

MemoryTypeOK ==
    /\ ReviewTypeOK(MemoryStatus)
    /\ memories \in Seq(MemoryRow)
    /\ trajectory \in 1..MaxTrajectory
    /\ reflecting \in [Generator -> 1..MaxTrajectory \cup {None}]

(* Of the versions of one logical memory at most one is active, and it is  *)
(* the newest that was ever published: publication, revision and           *)
(* supersession may interleave, an older version never takes over.         *)
NewestPublishedIsActive ==
    \A r, q \in Rows :
        /\ r # q
        /\ memories[r].key = memories[q].key
        /\ memories[r].status = "active"
        /\ memories[q].published
        => memories[q].version < memories[r].version /\ memories[q].status # "active"

(* An ended trajectory yields its candidates once, however many calls of   *)
(* generate run at the same time and whatever a provider answers.          *)
OneCandidatePerTrajectory ==
    \A r, q \in Rows :
        /\ memories[r].version = 1
        /\ memories[q].version = 1
        /\ memories[r].source = memories[q].source
        => r = q

(* Growth leaves one chain of versions for a trajectory, and its newest    *)
(* published one is what Runs recall.                                      *)
OneChainPerTrajectory == OneCandidatePerTrajectory /\ NewestPublishedIsActive

(* Abstract publication: a memory is cleared while its latest evaluation   *)
(* passes, an independent unexpired approval exists and it has not expired *)
(* itself, all of it when it becomes active: publish holds the row it      *)
(* judges, and the trigger judges again by the clock of the database.      *)
ClearedMemories == { r \in Rows : Passed(r) /\ ValidApproval(r, clock) /\ Unexpired(r, clock) }

Active == { r \in Rows : memories[r].status = "active" }
Withdrawn == { r \in Rows : memories[r].published /\ memories[r].status # "active" }

MemoryPublication == INSTANCE Publication WITH
    Item <- Subject, cleared <- ClearedMemories, live <- Active, retired <- Withdrawn

(* Memories become active only on complete evidence, once, and never come  *)
(* back after they were superseded, invalidated, expired or deleted.       *)
PublishesOnEvidence == MemoryPublication!Spec
=============================================================================
