----------------------------- MODULE GrowthProofs -----------------------------
(***************************************************************************)
(* What the growth of knowledge guarantees: MemoryLifecycle for any number *)
(* of memories, callers, generators, validators and approvals, and         *)
(* SkillRelease for any number of versions, canary scopes, deployments,    *)
(* callers and Runs.  The first part uses the assumption on the memories,  *)
(* the second the one on the skills.                                       *)
(***************************************************************************)
EXTENDS MemoryLifecycle, SkillRelease, SequenceTheorems, TLAPS

-----------------------------------------------------------------------------
(* The memories                                                            *)

MemoryFields == [key : Nat, version : Nat \ {0}, source : Nat, status : MemoryStatus, expires : Nat,
        published : BOOLEAN, rev : Nat]

\* Rows are numbered as memories are, and a logical memory is named by its first row.
MemoriesType ==
    /\ memories \in Seq(MemoryFields) /\ Len(memories) <= MaxRows
    /\ \A r \in Rows : memories[r].key \in Rows
    /\ trajectory \in Nat
    /\ reflecting \in [Generator -> Nat \union {None}]

\* The versions of one logical memory are numbered.
VersionsDiffer == \A r, q \in Rows :
    memories[r].key = memories[q].key /\ memories[r].version = memories[q].version => r = q

\* A row is published when it becomes active, and never a candidate again.
PublishedOnce == \A r \in Rows :
    /\ memories[r].status = "active" => memories[r].published
    /\ memories[r].status = "candidate" => ~ memories[r].published

MInv == MemoriesType /\ VersionsDiffer /\ PublishedOnce /\ OneChainPerTrajectory

\* The step of the abstract publication that a step of the model is.
MemoryAbstractStep == [MemoryPublication!Next]_<<Active, Withdrawn>>

\* The bounds of the memories are numbers.
LEMMA MemoryBounds == MaxRows \in Nat /\ MaxTrajectory \in Nat \ {0} /\ None \notin 1..MaxTrajectory
  BY MemoryAssumption

USE MemoryBounds, ReviewAssumption

-----------------------------------------------------------------------------
LEMMA InitMInv == MemoryInit => MInv
  <1> SUFFICES ASSUME MemoryInit PROVE MInv
    OBVIOUS
  <1>1. memories = <<>> /\ Len(memories) = 0 /\ Rows = {} /\ memories \in Seq(MemoryFields)
    BY DEF MemoryInit, Rows
  <1>2. MemoriesType
    BY <1>1 DEF MemoryInit, MemoriesType
  <1> QED
    BY <1>1, <1>2 DEF MInv, VersionsDiffer, PublishedOnce, OneChainPerTrajectory,
                      OneCandidatePerTrajectory, NewestPublishedIsActive

LEMMA MemoryInitAbstract == MemoryInit => MemoryPublication!Init
  <1> SUFFICES ASSUME MemoryInit PROVE MemoryPublication!Init
    OBVIOUS
  <1>1. Rows = {}
    BY DEF MemoryInit, Rows
  <1> QED
    BY <1>1 DEF MemoryPublication!Init, Active, Withdrawn

LEMMA MemoriesAre ==
  ASSUME MInv
  PROVE  /\ Len(memories) \in Nat /\ Rows = 1..Len(memories) /\ Rows \subseteq Subject
         /\ memories \in [Rows -> MemoryFields]
  <1>1. 1..MaxRows \subseteq Subject
    BY MemoryAssumption
  <1>2. Len(memories) \in Nat /\ Rows = 1..Len(memories) /\ memories \in [Rows -> MemoryFields] /\ Len(memories) <= MaxRows
    BY LenProperties DEF MInv, MemoriesType, Rows
  <1> QED
    BY <1>1, <1>2

\* A step that writes no memory.
LEMMA MemoriesUntouched ==
  ASSUME MInv, memories' = memories, trajectory' \in Nat,
         reflecting' \in [Generator -> Nat \union {None}]
  PROVE  MInv' /\ MemoryAbstractStep
  <1>1. Rows' = Rows
    BY DEF Rows
  <1>2. MInv'
    BY <1>1 DEF MInv, MemoriesType, VersionsDiffer, PublishedOnce, OneChainPerTrajectory,
                OneCandidatePerTrajectory, NewestPublishedIsActive
  <1>3. Active' = Active /\ Withdrawn' = Withdrawn
    BY <1>1 DEF Active, Withdrawn
  <1> QED
    BY <1>2, <1>3 DEF MemoryAbstractStep

-----------------------------------------------------------------------------
(* Generate and Revise append a candidate.                                 *)

LEMMA Appended ==
  ASSUME MInv, NEW row \in MemoryFields, memories' = Append(memories, row), Len(memories) < MaxRows,
         row.status = "candidate", ~ row.published,
         \/ row.key = Len(memories) + 1
         \/ row.key \in Rows /\ \A q \in Rows : memories[q].key = row.key => memories[q].version < row.version,
         row.version = 1 => \A q \in Rows : memories[q].version = 1 => memories[q].source # row.source,
         trajectory' \in Nat, reflecting' \in [Generator -> Nat \union {None}]
  PROVE  MInv' /\ MemoryAbstractStep
  <1> DEFINE n == Len(memories) + 1
  <1> USE DEF MInv
  <1>1. /\ memories \in Seq(MemoryFields) /\ Len(memories) \in Nat /\ Rows = 1..Len(memories)
        /\ memories \in [Rows -> MemoryFields] /\ MaxRows \in Nat
    BY MemoriesAre DEF MemoriesType
  <1>2. memories' \in Seq(MemoryFields) /\ Len(memories') = n /\ Rows' = 1..n
        /\ memories'[n] = row /\ \A r \in Rows : memories'[r] = memories[r]
    BY <1>1, AppendProperties DEF Rows
  <1>3. Rows' = Rows \union {n} /\ n \notin Rows
    BY <1>1, <1>2
  <1>4. \A r \in Rows : memories[r].key \in Rows /\ memories[r].key # n
    BY <1>3 DEF MemoriesType
  <1>5. row.key = n \/ row.key \in Rows
    OBVIOUS
  <1>6. MemoriesType'
    <2>1. \A r \in Rows' : memories'[r].key \in Rows'
      BY <1>2, <1>3, <1>4, <1>5
    <2>2. Len(memories') <= MaxRows
      BY <1>1, <1>2
    <2> QED
      BY <1>2, <2>1, <2>2 DEF MemoriesType
  <1> HIDE DEF n
  <1>7. \A q \in Rows : memories[q].key = row.key =>
           row.version \in Nat /\ memories[q].version \in Nat /\ memories[q].version < row.version
    BY <1>1, <1>4, <1>3 DEF MemoryFields, n
  <1>8. VersionsDiffer'
    <2>1. \A q \in Rows : memories[q].key = row.key => memories[q].version # row.version
      BY <1>7
    <2> QED
      BY <1>2, <1>3, <2>1 DEF VersionsDiffer
  <1>9. PublishedOnce'
    BY <1>2, <1>3 DEF PublishedOnce
  <1>10. OneChainPerTrajectory'
    <2>1. OneCandidatePerTrajectory /\ NewestPublishedIsActive
      BY DEF OneChainPerTrajectory
    <2>2. OneCandidatePerTrajectory'
      BY <1>2, <1>3, <2>1 DEF OneCandidatePerTrajectory
    <2>3. memories'[n].status # "active" /\ ~ memories'[n].published
      BY <1>2
    <2>4. NewestPublishedIsActive'
      BY <1>2, <1>3, <2>1, <2>3 DEF NewestPublishedIsActive
    <2> QED
      BY <2>2, <2>4 DEF OneChainPerTrajectory
  <1>11. Active' = Active /\ Withdrawn' = Withdrawn
    BY <1>2, <1>3 DEF Active, Withdrawn
  <1> QED
    BY <1>6, <1>8, <1>9, <1>10, <1>11 DEF MemoryAbstractStep

LEMMA GenerateStep ==
  ASSUME MInv, NEW g \in Generator, Generate(g)
  PROVE  MInv' /\ MemoryAbstractStep
  <1>1. trajectory' \in Nat /\ reflecting' \in [Generator -> Nat \union {None}]
    BY DEF Generate, MInv, MemoriesType
  <1>2. CASE ~ Generable(g)
    BY <1>1, <1>2, MemoriesUntouched DEF Generate
  <1>3. CASE Generable(g)
    <2>1. PICK expires \in {NoExpiry, MaxTime} :
             memories' = Append(memories, NewRow(Len(memories) + 1, 1, reflecting[g], expires))
      BY <1>3 DEF Generate
    <2>2. Len(memories) + 1 \in Nat /\ 1 \in Nat \ {0} /\ reflecting[g] \in Nat /\ expires \in Nat
      BY MemoriesAre DEF Generate, NoExpiry, MInv, MemoriesType
    <2>3. PICK row : /\ row = NewRow(Len(memories) + 1, 1, reflecting[g], expires)
                     /\ memories' = Append(memories, row)
      BY <2>1
    <2>4. /\ row \in MemoryFields /\ row.key = Len(memories) + 1 /\ row.version = 1
          /\ row.source = reflecting[g] /\ row.status = "candidate" /\ ~ row.published
      BY <2>2, <2>3 DEF NewRow, MemoryFields, MemoryStatus
    <2>5. \A q \in Rows : memories[q].version = 1 => memories[q].source # reflecting[g]
      BY <1>3 DEF Generable, Generated
    <2>6. Len(memories) < MaxRows
      BY <1>3 DEF Generable
    <2> QED
      BY <1>1, <2>3, <2>4, <2>5, <2>6, Appended
  <1> QED
    BY <1>2, <1>3

LEMMA ReviseMemoryStep ==
  ASSUME MInv, NEW r \in Rows, ReviseMemory(r)
  PROVE  MInv' /\ MemoryAbstractStep
  <1>1. trajectory' \in Nat /\ reflecting' \in [Generator -> Nat \union {None}]
    BY DEF ReviseMemory, MInv, MemoriesType
  <1>2. PICK expires \in {memories[r].expires, MaxTime} :
           memories' = Append(memories, NewRow(memories[r].key, memories[r].version + 1,
                                               memories[r].source, expires))
    BY DEF ReviseMemory
  <1>3. memories[r] \in MemoryFields
    BY MemoriesAre
  <1>4. memories[r].key \in Nat /\ memories[r].version \in Nat /\ memories[r].source \in Nat /\ expires \in Nat
    BY <1>3 DEF MemoryFields
  <1>v. memories[r].version + 1 \in Nat \ {0} /\ memories[r].version + 1 # 1
    BY <1>3 DEF MemoryFields
  <1>r. PICK row : /\ row = NewRow(memories[r].key, memories[r].version + 1, memories[r].source, expires)
                   /\ memories' = Append(memories, row)
    BY <1>2
  <1>5. /\ row \in MemoryFields /\ row.key = memories[r].key /\ row.version = memories[r].version + 1
        /\ row.status = "candidate" /\ ~ row.published
    BY <1>v, <1>r, <1>4 DEF NewRow, MemoryFields, MemoryStatus
  <1>6. row.key \in Rows
    BY <1>5 DEF MInv, MemoriesType
  <1>7. \A q \in Rows : memories[q].key = row.key => memories[q].version < row.version
    <2> SUFFICES ASSUME NEW q \in Rows, memories[q].key = row.key
                 PROVE  memories[q].version < row.version
      OBVIOUS
    <2>1. memories[q].version <= memories[r].version
      BY <1>5 DEF ReviseMemory, IsLatest, SameKey
    <2>2. memories[q].version \in Nat
      BY MemoriesAre DEF MemoryFields
    <2> QED
      BY <1>4, <1>5, <2>1, <2>2
  <1>8. Len(memories) < MaxRows /\ row.version # 1
    BY <1>v, <1>5 DEF ReviseMemory
  <1> QED
    BY <1>1, <1>r, <1>5, <1>6, <1>7, <1>8, Appended

-----------------------------------------------------------------------------
(* Publish and End write rows in place.                                    *)

\* The rows keep their places, keys and versions.
LEMMA RowsWritten ==
  ASSUME MInv, memories' \in [Rows -> MemoryFields],
         \A q \in Rows : /\ memories'[q].key = memories[q].key
                         /\ memories'[q].version = memories[q].version
                         /\ memories'[q].source = memories[q].source,
         UNCHANGED <<trajectory, reflecting>>
  PROVE  MemoriesType' /\ VersionsDiffer' /\ OneCandidatePerTrajectory' /\ Rows' = Rows
  <1> USE DEF MInv
  <1>1. /\ Len(memories) \in Nat /\ Rows = 1..Len(memories)
    BY MemoriesAre
  <1>2. memories' \in Seq(MemoryFields)
    BY <1>1, SeqDef
  <1>3. Rows' = Rows /\ Len(memories') = Len(memories)
    BY <1>1, <1>2, LenProperties DEF Rows
  <1>4. MemoriesType'
    BY <1>2, <1>3 DEF MemoriesType
  <1>5. VersionsDiffer'
    BY <1>3 DEF VersionsDiffer
  <1>6. OneCandidatePerTrajectory'
    BY <1>3 DEF OneChainPerTrajectory, OneCandidatePerTrajectory
  <1> QED
    BY <1>3, <1>4, <1>5, <1>6

LEMMA WrittenRow ==
  ASSUME MInv, NEW r \in Rows, NEW status \in MemoryStatus
  PROVE  /\ Written(r, status) \in MemoryFields /\ Written(r, status).status = status
         /\ Written(r, status).key = memories[r].key
         /\ Written(r, status).version = memories[r].version
         /\ Written(r, status).source = memories[r].source
         /\ Written(r, status).published = memories[r].published
  <1> DEFINE n == memories[r].rev + 1
  <1>1. memories[r] \in MemoryFields /\ n \in Nat
    BY MemoriesAre DEF MemoryFields
  <1>2. Written(r, status) = [memories[r] EXCEPT !.status = status, !.rev = n]
    BY DEF Written
  <1> HIDE DEF n
  <1> QED
    BY <1>1, <1>2 DEF MemoryFields

LEMMA PublishMemoryStep ==
  ASSUME MInv, NEW r \in Rows, PublishMemory(r)
  PROVE  MInv' /\ MemoryAbstractStep
  <1> USE DEF MInv
  <1> DEFINE row == [Written(r, "active") EXCEPT !.published = TRUE]
             old == {q \in SameKey(r) : q # r /\ memories[q].status = "active"}
  <1>1. /\ row \in MemoryFields /\ row.status = "active" /\ row.published
        /\ row.key = memories[r].key /\ row.version = memories[r].version
        /\ row.source = memories[r].source
    <2>1. /\ Written(r, "active") \in MemoryFields /\ Written(r, "active").status = "active"
          /\ Written(r, "active").key = memories[r].key
          /\ Written(r, "active").version = memories[r].version
          /\ Written(r, "active").source = memories[r].source
      BY WrittenRow DEF MemoryStatus
    <2> QED
      BY <2>1 DEF MemoryFields
  <1>2. memories' = [q \in Rows |-> IF q = r THEN row
                                    ELSE IF q \in old THEN Written(q, "invalidated") ELSE memories[q]]
    BY DEF PublishMemory
  <1> HIDE DEF row
  <1>3. old \subseteq Rows /\ r \notin old
    BY DEF SameKey
  <1>4. \A q \in old : /\ Written(q, "invalidated") \in MemoryFields
                       /\ Written(q, "invalidated").status = "invalidated"
                       /\ Written(q, "invalidated").key = memories[q].key
                       /\ Written(q, "invalidated").version = memories[q].version
                       /\ Written(q, "invalidated").source = memories[q].source
                       /\ Written(q, "invalidated").published = memories[q].published
    BY <1>3, WrittenRow DEF MemoryStatus
  <1>5. memories' \in [Rows -> MemoryFields]
    BY <1>1, <1>2, <1>4, MemoriesAre
  <1>6. \A q \in Rows : /\ memories'[q].key = memories[q].key
                        /\ memories'[q].version = memories[q].version
                        /\ memories'[q].source = memories[q].source
    BY <1>1, <1>2, <1>4
  <1>7. MemoriesType' /\ VersionsDiffer' /\ OneCandidatePerTrajectory' /\ Rows' = Rows
    BY <1>5, <1>6, RowsWritten DEF PublishMemory
  <1>8. \A q \in Rows :
           /\ memories'[q].status = IF q = r THEN "active"
                                    ELSE IF q \in old THEN "invalidated" ELSE memories[q].status
           /\ memories'[q].published = (q = r \/ memories[q].published)
    BY <1>1, <1>2, <1>4, MemoriesAre DEF MemoryFields
  <1>9. memories[r].status = "candidate" /\ ~ memories[r].published
    BY DEF PublishMemory, Candidate, PublishedOnce
  <1>10. PublishedOnce'
    BY <1>7, <1>8 DEF PublishedOnce
  <1>11. \A q \in Rows : q # r /\ memories[q].key = memories[r].key => memories[q].version < memories[r].version
    <2> SUFFICES ASSUME NEW q \in Rows, q # r, memories[q].key = memories[r].key
                 PROVE  memories[q].version < memories[r].version
      OBVIOUS
    <2>1. memories[q].version <= memories[r].version /\ memories[q].version # memories[r].version
      BY DEF PublishMemory, IsLatest, SameKey, VersionsDiffer
    <2>2. memories[q].version \in Nat /\ memories[r].version \in Nat
      BY MemoriesAre DEF MemoryFields
    <2> QED
      BY <2>1, <2>2
  <1>12. \A q \in Rows : q # r /\ memories[q].key = memories[r].key => memories'[q].status # "active"
    BY <1>8 DEF SameKey
  <1>13. NewestPublishedIsActive'
    <2> SUFFICES ASSUME NEW a \in Rows, NEW b \in Rows, a # b, memories[a].key = memories[b].key,
                        memories'[a].status = "active", memories'[b].published
                 PROVE  memories[b].version < memories[a].version /\ memories'[b].status # "active"
      BY <1>6, <1>7 DEF NewestPublishedIsActive
    <2>1. CASE a = r
      BY <1>11, <1>12, <2>1
    <2>2. CASE a # r
      <3>1. memories[a].status = "active" /\ b # r
        BY <1>8, <1>12, <2>2
      <3>2. memories[b].published
        BY <1>8, <3>1
      <3>3. memories[b].version < memories[a].version /\ memories[b].status # "active"
        BY <3>1, <3>2 DEF OneChainPerTrajectory, NewestPublishedIsActive
      <3> QED
        BY <1>8, <3>1, <3>3
    <2> QED
      BY <2>1, <2>2
  <1>14. /\ Active' = (Active \ old) \union {r}
         /\ Withdrawn' = Withdrawn \union old
         /\ old \in SUBSET Active /\ r \notin Active \union Withdrawn
    BY <1>3, <1>7, <1>8, <1>9 DEF Active, Withdrawn, PublishedOnce, SameKey
  <1>15. r \in ClearedMemories
    BY DEF PublishMemory, GuardMemoryWrite, Evidence, Indexable, ClearedMemories
  <1>16. r \in Subject
    BY MemoriesAre
  <1> HIDE DEF old
  <1>17. MemoryPublication!GoLive(r)
    BY <1>14, <1>15 DEF MemoryPublication!GoLive
  <1> QED
    BY <1>7, <1>10, <1>13, <1>16, <1>17
    DEF OneChainPerTrajectory, MemoryAbstractStep, MemoryPublication!Next

LEMMA EndStep ==
  ASSUME MInv, NEW r \in Rows, NEW target \in {"invalidated", "expired", "deleted"}, End(r, target)
  PROVE  MInv' /\ MemoryAbstractStep
  <1> USE DEF MInv
  <1>1. /\ Written(r, target) \in MemoryFields /\ Written(r, target).status = target
        /\ Written(r, target).key = memories[r].key
        /\ Written(r, target).version = memories[r].version
        /\ Written(r, target).source = memories[r].source
        /\ Written(r, target).published = memories[r].published
    BY WrittenRow DEF MemoryStatus
  <1>2. memories' = [memories EXCEPT ![r] = Written(r, target)]
    BY DEF End
  <1>3. memories' \in [Rows -> MemoryFields]
    BY <1>1, <1>2, MemoriesAre
  <1>4. \A q \in Rows : /\ memories'[q].key = memories[q].key
                        /\ memories'[q].version = memories[q].version
                        /\ memories'[q].source = memories[q].source
                        /\ memories'[q].published = memories[q].published
                        /\ memories'[q].status = IF q = r THEN target ELSE memories[q].status
    BY <1>1, <1>2, MemoriesAre
  <1>5. MemoriesType' /\ VersionsDiffer' /\ OneCandidatePerTrajectory' /\ Rows' = Rows
    BY <1>3, <1>4, RowsWritten DEF End
  <1>6. PublishedOnce' /\ NewestPublishedIsActive'
    BY <1>4, <1>5 DEF PublishedOnce, OneChainPerTrajectory, NewestPublishedIsActive
  <1>7. CASE memories[r].status = "active"
    <2>1. r \in Active /\ Active' = Active \ {r} /\ Withdrawn' = Withdrawn \union {r}
      BY <1>4, <1>5, <1>7 DEF Active, Withdrawn, PublishedOnce
    <2>2. MemoryPublication!Withdraw(r) /\ r \in Subject
      BY <2>1, MemoriesAre DEF MemoryPublication!Withdraw
    <2> QED
      BY <1>5, <1>6, <2>2 DEF OneChainPerTrajectory, MemoryAbstractStep, MemoryPublication!Next
  <1>8. CASE memories[r].status # "active"
    <2>1. Active' = Active /\ Withdrawn' = Withdrawn
      BY <1>4, <1>5, <1>8 DEF Active, Withdrawn
    <2> QED
      BY <1>5, <1>6, <2>1 DEF OneChainPerTrajectory, MemoryAbstractStep
  <1> QED
    BY <1>7, <1>8

-----------------------------------------------------------------------------
LEMMA MemoryNextStep == MInv /\ [MemoryNext]_memoryVars => MInv' /\ MemoryAbstractStep
  <1> SUFFICES ASSUME MInv, [MemoryNext]_memoryVars PROVE MInv' /\ MemoryAbstractStep
    OBVIOUS
  <1>0. trajectory \in Nat /\ reflecting \in [Generator -> Nat \union {None}]
    BY DEF MInv, MemoriesType
  <1>1. CASE TrajectoryChanges
    BY <1>0, <1>1, MemoriesUntouched DEF TrajectoryChanges
  <1>2. ASSUME NEW g \in Generator, Reflect(g) PROVE MInv' /\ MemoryAbstractStep
    BY <1>0, <1>2, MemoriesUntouched DEF Reflect
  <1>3. ASSUME NEW g \in Generator, Generate(g) PROVE MInv' /\ MemoryAbstractStep
    BY <1>3, GenerateStep
  <1>4. CASE UNCHANGED <<memories, trajectory, reflecting>>
    BY <1>0, <1>4, MemoriesUntouched
  <1>5. ASSUME NEW r \in Rows, MemoryStep(r) PROVE MInv' /\ MemoryAbstractStep
    BY <1>5, PublishMemoryStep, ReviseMemoryStep, EndStep DEF MemoryStep
  <1> QED
    BY <1>1, <1>2, <1>3, <1>4, <1>5 DEF MemoryNext, memoryVars

\* Growth leaves one chain of versions for a trajectory, and of one logical memory
\* only the newest published version is active (generate, revise, publish).
THEOREM ChainIsUnique == MemorySpec => []OneChainPerTrajectory
  <1>1. MInv => OneChainPerTrajectory
    BY DEF MInv
  <1> QED
    BY <1>1, InitMInv, MemoryNextStep, PTL DEF MemorySpec

\* The memory lifecycle implements Publication: a memory becomes active at most
\* once, only while its evidence is complete, and never comes back (publish with
\* guard_memory_write, _terminal_transition).
THEOREM MemoriesImplementPublication == MemorySpec => PublishesOnEvidence
  BY InitMInv, MemoryInitAbstract, MemoryNextStep, PTL
  DEF MemorySpec, PublishesOnEvidence, MemoryPublication!Spec, MemoryAbstractStep, MemoryPublication!outputs

HIDE MemoryBounds

-----------------------------------------------------------------------------
(* The skills                                                              *)

\* The fields of the rows that matter here, for any number of versions.
Skill == [status : SkillStatus, current : Nat, rev : Nat]
Deployment == [version : Nat, scope : Scope, status : {"active", "retired"}, by : Person \union {None}]

SkillRowsType ==
    /\ versions \in Seq(VersionStatus) /\ Len(versions) <= MaxVersions
    /\ skill \in Skill
    /\ deployments \in Seq(Deployment)
    /\ \A d \in DOMAIN deployments : deployments[d].version \in Versions
    /\ resolving \in [Run -> Nat \union {None}] /\ resolved \in [Run -> Nat \union {None}]

\* What a resolution may still name is in its history.
ResolutionsSeen == \A r \in Run : resolving[r] # None =>
    resolving[r] \in inUse[r] /\ InUse \subseteq inUse[r]

\* What a publication has read under its locks is still so: it holds the skill and its version.
PublishingHolds == publishing # None =>
    LET v == publishing.version IN
    /\ v \in Versions /\ Draft(v)
    /\ publishing.context = [skill |-> skill.status, version |-> "draft",
                             tools |-> publishing.context.tools]
    /\ Passed(v) /\ evaluations[v][Len(evaluations[v])].snapshot = publishing.context

\* The table of evaluations has a list per subject.
EvaluationsPerSubject == evaluations = [s \in Subject |-> evaluations[s]]

SInv ==
    /\ SkillRowsType /\ EvaluationsPerSubject /\ PublishingHolds
    /\ CanaryBesideStable /\ ResolutionsSeen

\* A step of the abstract publication, or none.
ReleaseStep == [Published!Next]_<<Live, {}>>

ResolveStep == \A r \in Run : resolved'[r] # resolved[r] => resolved'[r] \in inUse[r]

\* The bounds of the skills are numbers.
LEMMA SkillBounds == MaxVersions \in Nat \ {0} /\ MaxDeployments \in Nat /\ None \notin Nat
  BY SkillAssumption

USE SkillBounds

-----------------------------------------------------------------------------
LEMMA InitSInv == Init => SInv
  <1> SUFFICES ASSUME Init PROVE SInv
    OBVIOUS
  <1>1. versions \in Seq(VersionStatus) /\ Len(versions) = 1 /\ deployments \in Seq(Deployment)
    BY DEF Init, VersionStatus
  <1>2. SkillRowsType
    BY <1>1 DEF Init, SkillRowsType, Skill, SkillStatus, NoVersion
  <1>3. ActiveDeployments = {}
    BY DEF Init, ActiveDeployments
  <1> QED
    BY <1>2, <1>3 DEF Init, InitReview, SInv, CanaryBesideStable, ResolutionsSeen,
                      EvaluationsPerSubject, PublishingHolds

LEMMA ReleaseInit == Init => Published!Init
  BY DEF Init, Published!Init, Live, Versions

LEMMA Domains ==
  ASSUME SkillRowsType
  PROVE  /\ Len(versions) \in Nat /\ Versions = 1..Len(versions) /\ Versions \subseteq Subject
         /\ versions \in [Versions -> VersionStatus]
         /\ Len(deployments) \in Nat /\ DOMAIN deployments = 1..Len(deployments)
         /\ deployments \in [1..Len(deployments) -> Deployment]
  <1>1. 1..MaxVersions \subseteq Subject
    BY SkillAssumption
  <1>2. Len(versions) \in Nat /\ Versions = 1..Len(versions) /\ Len(versions) <= MaxVersions
        /\ versions \in [Versions -> VersionStatus]
    BY LenProperties DEF SkillRowsType, Versions
  <1>3. /\ Len(deployments) \in Nat /\ DOMAIN deployments = 1..Len(deployments)
        /\ deployments \in [1..Len(deployments) -> Deployment]
    BY LenProperties DEF SkillRowsType
  <1> QED
    BY <1>1, <1>2, <1>3

LEMMA SequenceOf ==
  ASSUME NEW S, NEW n \in Nat, NEW f \in [1..n -> S]
  PROVE  f \in Seq(S) /\ Len(f) = n
  <1>1. f \in Seq(S)
    BY SeqDef
  <1> QED
    BY <1>1, LenProperties

-----------------------------------------------------------------------------
(* The publication under way                                               *)

\* A step that takes the lock of the skill finds no publication and starts none.
LEMMA LockedStep ==
  ASSUME SInv, SkillFree, UNCHANGED <<publishing, evaluations>>
  PROVE  PublishingHolds' /\ EvaluationsPerSubject'
  BY DEF SInv, SkillFree, PublishingHolds, EvaluationsPerSubject

\* A step that takes no lock writes none of what a publication has read.
LEMMA UnlockedStep ==
  ASSUME SInv, UNCHANGED <<publishing, evaluations, versions, skill>>
  PROVE  PublishingHolds' /\ EvaluationsPerSubject'
  BY DEF SInv, PublishingHolds, EvaluationsPerSubject, Draft, Passed, Versions

\* An evaluation is recorded with its version locked.
LEMMA EvaluationStep ==
  ASSUME SInv, NEW e \in Evaluator, Evaluate(e), UNCHANGED <<publishing, versions, skill>>
  PROVE  PublishingHolds' /\ EvaluationsPerSubject'
  <1> DEFINE s == validating[e].subject
  <1>1. CASE UNCHANGED evaluations
    BY <1>1, UnlockedStep
  <1>2. CASE ~ UNCHANGED evaluations
    <2>1. VersionFree(s) /\ \E row : evaluations' = [evaluations EXCEPT ![s] = Append(@, row)]
      BY <1>2 DEF Evaluate, EvaluateRead, EvaluateRecord
    <2>2. PICK row : evaluations' = [evaluations EXCEPT ![s] = Append(@, row)]
      BY <2>1
    <2> HIDE DEF s
    <2>3. evaluations = [u \in Subject |-> evaluations[u]]
      BY DEF SInv, EvaluationsPerSubject
    <2>4. EvaluationsPerSubject' /\ \A u \in Subject : u # s => evaluations'[u] = evaluations[u]
      BY <2>2, <2>3 DEF EvaluationsPerSubject
    <2>5. PublishingHolds'
      <3> SUFFICES ASSUME publishing # None PROVE PublishingHolds'
        BY DEF PublishingHolds
      <3>1. publishing.version \in Subject /\ publishing.version # s
        BY <2>1, Domains DEF VersionFree, SInv, PublishingHolds
      <3>2. evaluations'[publishing.version] = evaluations[publishing.version]
        BY <2>4, <3>1
      <3> QED
        BY <3>2 DEF SInv, PublishingHolds, Draft, Passed, Versions
    <2> QED
      BY <2>4, <2>5
  <1> QED
    BY <1>1, <1>2

LEMMA ReviewedStep ==
  ASSUME SInv, SharedStep, UNCHANGED <<publishing, versions, skill>>
  PROVE  PublishingHolds' /\ EvaluationsPerSubject'
  <1>1. CASE UNCHANGED evaluations
    BY <1>1, UnlockedStep
  <1>2. CASE \E e \in Evaluator : Evaluate(e)
    BY <1>2, EvaluationStep
  <1>3. Tick \/ (\E p \in Person, v \in Versions : ReviewVersion(p, v) \/ Review(p, v))
            => UNCHANGED evaluations
    BY DEF Tick, ReviewVersion, RequestReview, Review, Decide, CancelReview
  <1> QED
    BY <1>1, <1>2, <1>3 DEF SharedStep

-----------------------------------------------------------------------------
(* The history of the resolutions                                          *)

\* Every step records what is in use for the resolutions under way.
LEMMA HistoryGrows ==
  ASSUME SInv, inUse' = Observed, \A r \in Run : resolving'[r] # None => resolving'[r] = resolving[r]
  PROVE  ResolutionsSeen'
  BY DEF SInv, ResolutionsSeen, Observed

LEMMA InUseIsNumber == SInv => skill.current \in Nat
  BY DEF SInv, SkillRowsType, Skill

LEMMA ResolveReadStep ==
  ASSUME SInv, NEW r \in Run, ResolveRead(r), inUse' = Observed
  PROVE  SInv' /\ ReleaseStep /\ ResolveStep
  <1>1. /\ resolving' = [resolving EXCEPT ![r] = skill.current] /\ resolved' = resolved
        /\ skill' = skill /\ deployments' = deployments /\ versions' = versions
        /\ UNCHANGED <<publishing, evaluations>>
    BY DEF ResolveRead, skillVars, reviewVars
  <1>0. PublishingHolds' /\ EvaluationsPerSubject'
    BY <1>1, UnlockedStep
  <1>2. SkillRowsType' /\ resolving \in [Run -> Nat \union {None}]
    BY <1>1, InUseIsNumber DEF SInv, SkillRowsType, Versions
  <1>3. InUse' = InUse /\ skill.current \in InUse
    BY <1>1 DEF InUse, ActiveDeployments, ResolveRead
  <1>4. CanaryBesideStable'
    BY <1>1 DEF SInv, CanaryBesideStable, ActiveDeployments
  <1>5. ResolutionsSeen'
    <2> SUFFICES ASSUME NEW q \in Run, resolving'[q] # None
                 PROVE  resolving'[q] \in inUse'[q] /\ InUse' \subseteq inUse'[q]
      BY DEF ResolutionsSeen
    <2>1. inUse'[q] = inUse[q] \union InUse'
      BY DEF Observed
    <2>2. CASE q = r
      BY <1>1, <1>2, <1>3, <2>1, <2>2
    <2>3. CASE q # r
      BY <1>1, <1>2, <2>1, <2>3 DEF SInv, ResolutionsSeen
    <2> QED
      BY <2>2, <2>3
  <1>6. ReleaseStep
    BY <1>1 DEF ReleaseStep, Live, Versions
  <1> QED
    BY <1>0, <1>1, <1>2, <1>4, <1>5, <1>6 DEF SInv, ResolveStep

LEMMA ResolvePickStep ==
  ASSUME SInv, NEW r \in Run, ResolvePick(r), inUse' = Observed
  PROVE  SInv' /\ ReleaseStep /\ ResolveStep
  <1>1. /\ resolving' = [resolving EXCEPT ![r] = None] /\ resolving[r] # None
        /\ skill' = skill /\ deployments' = deployments /\ versions' = versions
        /\ UNCHANGED <<publishing, evaluations>>
    BY DEF ResolvePick, skillVars, reviewVars
  <1>0. PublishingHolds' /\ EvaluationsPerSubject'
    BY <1>1, UnlockedStep
  <1>2. PICK v \in {resolving[r]} \union Rollouts : resolved' = [resolved EXCEPT ![r] = v]
    BY DEF ResolvePick
  <1>3. v \in inUse[r]
    <2>1. resolving[r] \in inUse[r] /\ InUse \subseteq inUse[r]
      BY <1>1 DEF SInv, ResolutionsSeen
    <2> QED
      BY <1>2, <2>1 DEF Rollouts, InUse
  <1>4. v \in Nat \union {None}
    <2>1. \A d \in DOMAIN deployments : deployments[d].version \in Nat
      BY Domains DEF SInv, Deployment
    <2> QED
      BY <1>2, <2>1 DEF Rollouts, ActiveDeployments, SInv, SkillRowsType
  <1>5. SkillRowsType' /\ resolving \in [Run -> Nat \union {None}] /\ resolved \in [Run -> Nat \union {None}]
    BY <1>1, <1>2, <1>4 DEF SInv, SkillRowsType, Versions
  <1>6. CanaryBesideStable'
    BY <1>1 DEF SInv, CanaryBesideStable, ActiveDeployments
  <1>7. ResolutionsSeen'
    BY <1>1, <1>5, HistoryGrows
  <1>8. ResolveStep
    BY <1>2, <1>3, <1>5 DEF ResolveStep
  <1>9. ReleaseStep
    BY <1>1 DEF ReleaseStep, Live, Versions
  <1> QED
    BY <1>0, <1>5, <1>6, <1>7, <1>8, <1>9 DEF SInv

-----------------------------------------------------------------------------
(* Steps that resolve nothing                                              *)

\* What is left to show of a step that leaves the resolutions alone.
LEMMA Quiet ==
  ASSUME SInv, inUse' = Observed, UNCHANGED <<resolving, resolved>>,
         versions' \in Seq(VersionStatus), Len(versions') <= MaxVersions,
         skill' \in Skill, deployments' \in Seq(Deployment), CanaryBesideStable',
         \A d \in DOMAIN deployments' : deployments'[d].version \in Versions',
         PublishingHolds', EvaluationsPerSubject'
  PROVE  SInv' /\ ResolveStep
  <1>1. SkillRowsType'
    BY DEF SInv, SkillRowsType
  <1>2. ResolutionsSeen'
    BY HistoryGrows
  <1> QED
    BY <1>1, <1>2 DEF SInv, ResolveStep

LEMMA NothingWritten ==
  ASSUME SInv, inUse' = Observed, UNCHANGED <<resolving, resolved>>,
         UNCHANGED <<versions, skill, deployments>>, PublishingHolds', EvaluationsPerSubject'
  PROVE  SInv' /\ ReleaseStep /\ ResolveStep
  <1>1. CanaryBesideStable'
    BY DEF SInv, CanaryBesideStable, ActiveDeployments
  <1>2. SInv' /\ ResolveStep
    BY <1>1, Quiet DEF SInv, SkillRowsType, Versions
  <1>3. ReleaseStep
    BY DEF ReleaseStep, Live, Versions
  <1> QED
    BY <1>2, <1>3

\* The skill row with the same pointer and status.
LEMMA SkillTouched ==
  ASSUME SInv
  PROVE  LET row == [skill EXCEPT !.rev = @ + 1]
         IN  row \in Skill /\ row.status = skill.status /\ row.current = skill.current
  <1> DEFINE n == skill.rev + 1
  <1>1. skill \in Skill /\ n \in Nat
    BY DEF SInv, SkillRowsType, Skill
  <1> HIDE DEF n
  <1>2. [skill EXCEPT !.rev = n] \in Skill /\ [skill EXCEPT !.rev = n].status = skill.status
        /\ [skill EXCEPT !.rev = n].current = skill.current
    BY <1>1 DEF Skill
  <1> QED
    BY <1>2 DEF n

LEMMA ReviseVersionStep ==
  ASSUME SInv, Revise, inUse' = Observed PROVE SInv' /\ ReleaseStep /\ ResolveStep
  <1>1. versions \in Seq(VersionStatus) /\ Len(versions) \in Nat /\ Versions = 1..Len(versions)
    BY Domains DEF SInv, SkillRowsType
  <1>2. versions' = Append(versions, "draft") /\ Len(versions) < MaxVersions
    BY DEF Revise, Latest
  <1>3. /\ versions' \in Seq(VersionStatus) /\ Len(versions') = Len(versions) + 1
        /\ versions'[Len(versions) + 1] = "draft"
        /\ \A v \in 1..Len(versions) : versions'[v] = versions[v]
    BY <1>1, <1>2, AppendProperties DEF VersionStatus
  <1>4. Versions' = Versions \union {Len(versions) + 1}
    BY <1>1, <1>3, LenProperties DEF Versions
  <1>5. skill' \in Skill /\ skill'.status = skill.status /\ skill'.current = skill.current
        /\ deployments' = deployments
    BY SkillTouched DEF Revise
  <1>6. \A d \in DOMAIN deployments : deployments[d].version \in Versions
    BY DEF SInv, SkillRowsType
  <1>7. \A v \in Versions : v # Len(versions) + 1 /\ versions'[v] = versions[v]
    BY <1>1, <1>3
  <1>8. CanaryBesideStable'
    BY <1>5, <1>6, <1>7 DEF SInv, CanaryBesideStable, ActiveDeployments
  <1>9. Live' = Live
    BY <1>3, <1>4, <1>7 DEF Live
  <1>10. deployments \in Seq(Deployment) /\ UNCHANGED <<resolving, resolved>>
    BY DEF SInv, SkillRowsType, Revise, callVars
  <1>11. Len(versions') <= MaxVersions
    BY <1>1, <1>2, <1>3
  <1>12. PublishingHolds' /\ EvaluationsPerSubject'
    BY LockedStep DEF Revise, callVars, reviewVars
  <1>13. SInv' /\ ResolveStep
    BY <1>3, <1>4, <1>5, <1>6, <1>8, <1>10, <1>11, <1>12, Quiet
  <1> QED
    BY <1>9, <1>13 DEF ReleaseStep

LEMMA PublishReadStep ==
  ASSUME SInv, NEW v \in Versions, PublishRead(v), inUse' = Observed
  PROVE  SInv' /\ ReleaseStep /\ ResolveStep
  <1>1. UNCHANGED <<versions, skill, deployments, resolving, resolved, evaluations>>
    BY DEF PublishRead, skillVars, reviewVars
  <1>2. publishing' = [version |-> v, context |-> Context(v)] /\ Draft(v) /\ EvaluatedHere(v)
    BY DEF PublishRead
  <1>3. publishing'.version = v /\ publishing'.context = Context(v)
        /\ Context(v) = [skill |-> skill.status, version |-> "draft", tools |-> Context(v).tools]
    BY <1>2 DEF Context, Draft
  <1>4. PublishingHolds'
    BY <1>1, <1>2, <1>3 DEF PublishingHolds, EvaluatedHere, Draft, Passed, Versions
  <1>5. EvaluationsPerSubject'
    BY <1>1 DEF SInv, EvaluationsPerSubject
  <1> QED
    BY <1>1, <1>4, <1>5, NothingWritten

LEMMA PublishAbortsStep ==
  ASSUME SInv, PublishAborts, inUse' = Observed
  PROVE  SInv' /\ ReleaseStep /\ ResolveStep
  <1>1. PublishingHolds' /\ EvaluationsPerSubject'
    BY DEF SInv, PublishAborts, reviewVars, PublishingHolds, EvaluationsPerSubject
  <1> QED
    BY <1>1, NothingWritten DEF PublishAborts, skillVars

LEMMA PublishWriteStep ==
  ASSUME SInv, NEW v \in Versions, PublishWrite(v), inUse' = Observed
  PROVE  SInv' /\ ReleaseStep /\ ResolveStep
  <1>0. publishing # None /\ publishing.version = v /\ publishing' = None /\ UNCHANGED evaluations
    BY DEF PublishWrite, reviewVars
  <1>1. versions \in [Versions -> VersionStatus] /\ Len(versions) \in Nat /\ Versions = 1..Len(versions)
        /\ Len(versions) <= MaxVersions /\ v \in Nat /\ v \in Subject
    BY Domains DEF SInv, SkillRowsType
  <1>2. versions' = [versions EXCEPT ![v] = "published"] /\ versions[v] = "draft"
        /\ deployments' = deployments /\ UNCHANGED <<resolving, resolved>>
    BY <1>0 DEF PublishWrite, SInv, PublishingHolds, Draft
  <1>3. versions' \in [1..Len(versions) -> VersionStatus]
    BY <1>1, <1>2 DEF VersionStatus
  <1>4. versions' \in Seq(VersionStatus)
    BY <1>1, <1>3, SequenceOf, Zenon
  <1>5. Len(versions') = Len(versions) /\ Versions' = Versions
    BY <1>1, <1>3, <1>4, LenProperties DEF Versions
  <1>6. \A u \in Versions : versions'[u] = IF u = v THEN "published" ELSE versions[u]
    BY <1>1, <1>2
  <1>7. skill' = skill \/ /\ skill.current = NoVersion
                          /\ skill' = [status |-> "published", current |-> v, rev |-> skill.rev + 3]
    BY DEF PublishWrite
  <1>8. /\ skill' \in Skill
        /\ \/ skill'.status = skill.status /\ skill'.current = skill.current
           \/ skill'.status = "published" /\ skill'.current = v
    <2> DEFINE n == skill.rev + 3
               row == [status |-> "published", current |-> v, rev |-> n]
    <2>1. skill \in Skill /\ n \in Nat
      BY DEF SInv, SkillRowsType, Skill
    <2> HIDE DEF n
    <2>2. row \in Skill /\ row.status = "published" /\ row.current = v
      BY <1>1, <2>1 DEF Skill, SkillStatus
    <2>3. skill' = skill \/ skill' = row
      BY <1>7 DEF n
    <2> HIDE DEF row
    <2>4. CASE skill' = skill
      <3>1. skill' \in Skill /\ skill'.status = skill.status /\ skill'.current = skill.current
        BY <2>1, <2>4
      <3> QED
        BY <3>1
    <2>5. CASE skill' = row
      <3>1. skill' \in Skill /\ skill'.status = "published" /\ skill'.current = v
        BY <2>2, <2>5
      <3> QED
        BY <3>1
    <2> QED
      BY <2>3, <2>4, <2>5
  <1>9. \A d \in DOMAIN deployments : deployments[d].version \in Versions
    BY DEF SInv, SkillRowsType
  <1>10. CanaryBesideStable'
    <2>1. ActiveDeployments' = ActiveDeployments /\ ActiveDeployments \subseteq DOMAIN deployments
      BY <1>2 DEF ActiveDeployments
    <2>2. \A d \in ActiveDeployments : deployments[d].version # v
      BY <1>2 DEF SInv, CanaryBesideStable
    <2> QED
      BY <1>2, <1>6, <1>8, <1>9, <2>1, <2>2 DEF SInv, CanaryBesideStable
  <1>11. SInv' /\ ResolveStep
    <2>1. deployments \in Seq(Deployment)
      BY DEF SInv, SkillRowsType
    <2>2. PublishingHolds' /\ EvaluationsPerSubject'
      BY <1>0 DEF SInv, PublishingHolds, EvaluationsPerSubject
    <2> QED
      BY <1>1, <1>2, <1>4, <1>5, <1>8, <1>9, <1>10, <2>1, <2>2, Quiet
  <1>12. Live' = Live \union {v} /\ v \notin Live
    BY <1>2, <1>5, <1>6 DEF Live
  <1>13. v \in Cleared
    <2>1. /\ Draft(v) /\ Passed(v)
          /\ evaluations[v][Len(evaluations[v])].snapshot = publishing.context
          /\ publishing.context = [skill |-> skill.status, version |-> "draft",
                                   tools |-> publishing.context.tools]
      BY <1>0 DEF SInv, PublishingHolds
    <2>2. [publishing.context EXCEPT !.tools = tools]
             = [skill |-> skill.status, version |-> "draft", tools |-> tools]
      BY <2>1
    <2>3. Context(v) = [publishing.context EXCEPT !.tools = tools]
      BY <2>1, <2>2 DEF Context, Draft
    <2>4. ValidApproval(v, clock)
      BY DEF PublishWrite, GuardVersionPublish
    <2> QED
      BY <1>0, <2>1, <2>3, <2>4 DEF Cleared
  <1>14. Published!GoLive(v)
    <2>1. {} \in SUBSET Live /\ Live' = (Live \ {}) \union {v} /\ {} = {} \union {}
      BY <1>12
    <2> QED
      BY <1>12, <1>13, <2>1 DEF Published!GoLive
  <1> QED
    BY <1>1, <1>11, <1>14 DEF ReleaseStep, Published!Next

-----------------------------------------------------------------------------
(* Canaries and the stable pointer                                         *)

LEMMA DeployStep ==
  ASSUME SInv, NEW v \in Versions, NEW scope \in Scope, Deploy(v, scope), inUse' = Observed
  PROVE  SInv' /\ ReleaseStep /\ ResolveStep
  <1> DEFINE row == [version |-> v, scope |-> scope, status |-> "active", by |-> None]
             n == Len(deployments) + 1
  <1>0. SkillRowsType /\ CanaryBesideStable
    BY DEF SInv
  <1>1. deployments \in Seq(Deployment) /\ Len(deployments) \in Nat
        /\ DOMAIN deployments = 1..Len(deployments) /\ v \in Nat
    BY <1>0, Domains DEF SkillRowsType
  <1>2. row \in Deployment /\ row.version = v /\ row.scope = scope /\ row.status = "active"
    BY <1>1 DEF Deployment
  <1>3. deployments' = Append(deployments, row) /\ versions' = versions /\ UNCHANGED <<resolving, resolved>>
    BY DEF Deploy, callVars
  <1> HIDE DEF row
  <1>4. /\ deployments' \in Seq(Deployment) /\ Len(deployments') = n /\ deployments'[n] = row
        /\ \A d \in 1..Len(deployments) : deployments'[d] = deployments[d]
    BY <1>1, <1>2, <1>3, AppendProperties
  <1>5. DOMAIN deployments' = DOMAIN deployments \union {n} /\ n \notin DOMAIN deployments
        /\ \A d \in DOMAIN deployments : deployments'[d] = deployments[d]
    BY <1>1, <1>4, LenProperties
  <1> HIDE DEF n
  <1>6. skill' \in Skill /\ skill'.status = skill.status /\ skill'.current = skill.current
    BY SkillTouched DEF Deploy
  <1>7. /\ skill.status = "published" /\ versions[v] = "published" /\ v # skill.current
        /\ \A d \in ActiveDeployments : deployments[d].scope # scope
    BY DEF Deploy, Deployable, Free
  <1>8. ActiveDeployments' = ActiveDeployments \union {n}
    BY <1>2, <1>4, <1>5 DEF ActiveDeployments
  <1>9. \A d \in ActiveDeployments : d \in DOMAIN deployments
    BY DEF ActiveDeployments
  <1>10. CanaryBesideStable'
    <2> SUFFICES ASSUME NEW d \in ActiveDeployments'
                 PROVE  /\ skill'.status = "published"
                        /\ versions'[deployments'[d].version] = "published"
                        /\ deployments'[d].version # skill'.current
                        /\ \A c \in ActiveDeployments' : deployments'[c].scope = deployments'[d].scope => c = d
      BY DEF CanaryBesideStable
    <2>1. CASE d = n
      BY <1>2, <1>3, <1>4, <1>5, <1>6, <1>7, <1>8, <1>9, <2>1
    <2>2. CASE d \in ActiveDeployments
      BY <1>0, <1>2, <1>3, <1>4, <1>5, <1>6, <1>7, <1>8, <1>9, <2>2 DEF CanaryBesideStable
    <2> QED
      BY <1>8, <2>1, <2>2
  <1>11. \A d \in DOMAIN deployments' : deployments'[d].version \in Versions'
    BY <1>0, <1>2, <1>3, <1>4, <1>5 DEF SkillRowsType, Versions
  <1>12. PublishingHolds' /\ EvaluationsPerSubject'
    BY LockedStep DEF Deploy, callVars, reviewVars
  <1>13. SInv' /\ ResolveStep
    BY <1>0, <1>3, <1>4, <1>6, <1>10, <1>11, <1>12, Quiet DEF SkillRowsType
  <1> QED
    BY <1>3, <1>13 DEF ReleaseStep, Live, Versions

\* Deployments that are retired, some or all of them.
WithRetired(gone, p) ==
    [d \in DOMAIN deployments |-> IF d \in gone THEN Retired(d, p) ELSE deployments[d]]

LEMMA RetiredRows ==
  ASSUME SInv, NEW p \in Person, NEW gone, gone \subseteq DOMAIN deployments,
         NEW rows, rows = WithRetired(gone, p)
  PROVE  /\ rows \in Seq(Deployment) /\ DOMAIN rows = DOMAIN deployments
         /\ \A d \in DOMAIN deployments :
               /\ rows[d].version = deployments[d].version /\ rows[d].scope = deployments[d].scope
               /\ rows[d].status = IF d \in gone THEN "retired" ELSE deployments[d].status
  <1>1. deployments \in [1..Len(deployments) -> Deployment] /\ Len(deployments) \in Nat
        /\ DOMAIN deployments = 1..Len(deployments)
    BY Domains DEF SInv
  <1>2. \A d \in DOMAIN deployments :
           /\ Retired(d, p) \in Deployment /\ Retired(d, p).status = "retired"
           /\ Retired(d, p).version = deployments[d].version /\ Retired(d, p).scope = deployments[d].scope
    BY <1>1 DEF Retired, Deployment
  <1>3. rows \in [1..Len(deployments) -> Deployment]
    BY <1>1, <1>2 DEF WithRetired
  <1>4. rows \in Seq(Deployment)
    BY <1>1, <1>3, SequenceOf, Zenon
  <1> QED
    BY <1>1, <1>2, <1>3, <1>4 DEF WithRetired

LEMMA RetireReadStep ==
  ASSUME SInv, NEW p \in Person, NEW d, RetireRead(p, d), inUse' = Observed
  PROVE  SInv' /\ ReleaseStep /\ ResolveStep
  <1>1. PublishingHolds' /\ EvaluationsPerSubject'
    BY UnlockedStep DEF RetireRead, skillVars, reviewVars
  <1> QED
    BY <1>1, NothingWritten DEF RetireRead, skillVars

LEMMA RetireWriteStep ==
  ASSUME SInv, NEW p \in Person, RetireWrite(p), inUse' = Observed
  PROVE  SInv' /\ ReleaseStep /\ ResolveStep
  <1> DEFINE d == retiring[p]
  <1>1. versions' = versions /\ UNCHANGED <<resolving, resolved>>
    BY DEF RetireWrite
  <1>0. PublishingHolds' /\ EvaluationsPerSubject'
    BY LockedStep DEF RetireWrite, reviewVars
  <1>2. CASE ~ RetireTrigger(d)
    BY <1>0, <1>1, <1>2, NothingWritten DEF RetireWrite
  <1>3. CASE RetireTrigger(d)
    <2>1. d \in DOMAIN deployments
      BY <1>3 DEF RetireTrigger, ActiveDeployments
    <2>2. deployments' = [deployments EXCEPT ![d] = Retired(d, p)]
      BY <1>3 DEF RetireWrite
    <2>3. deployments' = [c \in DOMAIN deployments |-> IF c \in {d} THEN Retired(c, p) ELSE deployments[c]]
      BY <2>1, <2>2, Domains DEF SInv
    <2>4. /\ deployments' \in Seq(Deployment) /\ DOMAIN deployments' = DOMAIN deployments
          /\ \A c \in DOMAIN deployments :
                /\ deployments'[c].version = deployments[c].version
                /\ deployments'[c].scope = deployments[c].scope
                /\ deployments'[c].status = IF c \in {d} THEN "retired" ELSE deployments[c].status
      <3> DEFINE gone == {d}
      <3>1. gone \subseteq DOMAIN deployments
        BY <2>1
      <3>2. deployments' = WithRetired(gone, p)
        BY <2>3 DEF WithRetired
      <3> HIDE DEF gone, d
      <3>3. /\ deployments' \in Seq(Deployment) /\ DOMAIN deployments' = DOMAIN deployments
            /\ \A c \in DOMAIN deployments :
                  /\ deployments'[c].version = deployments[c].version
                  /\ deployments'[c].scope = deployments[c].scope
                  /\ deployments'[c].status = IF c \in gone THEN "retired" ELSE deployments[c].status
        BY <3>1, <3>2, RetiredRows
      <3> QED
        BY <3>3 DEF gone
    <2>5. skill' \in Skill /\ skill'.status = skill.status /\ skill'.current = skill.current
      BY <1>3, SkillTouched DEF RetireWrite
    <2>6. \A c \in ActiveDeployments' : c \in ActiveDeployments /\ c \in DOMAIN deployments
      BY <2>4 DEF ActiveDeployments
    <2>7. CanaryBesideStable'
      BY <1>1, <2>4, <2>5, <2>6 DEF SInv, CanaryBesideStable
    <2>8. SInv' /\ ResolveStep
      BY <1>0, <1>1, <2>4, <2>5, <2>7, Quiet DEF SInv, SkillRowsType, Versions
    <2> QED
      BY <1>1, <2>8 DEF ReleaseStep, Live, Versions
  <1> QED
    BY <1>2, <1>3

\* Every deployment is retired: there is no canary left to disagree with the skill.
LEMMA AllRetiredStep ==
  ASSUME SInv, NEW p \in Person, deployments' = AllRetired(p), versions' = versions,
         skill' \in Skill, UNCHANGED <<resolving, resolved>>, inUse' = Observed,
         SkillFree, UNCHANGED <<publishing, evaluations>>
  PROVE  SInv' /\ ReleaseStep /\ ResolveStep
  <1>1. /\ deployments' \in Seq(Deployment) /\ DOMAIN deployments' = DOMAIN deployments
        /\ \A c \in DOMAIN deployments :
              /\ deployments'[c].version = deployments[c].version
              /\ deployments'[c].status = IF c \in ActiveDeployments THEN "retired"
                                          ELSE deployments[c].status
    <2>1. ActiveDeployments \subseteq DOMAIN deployments
      BY DEF ActiveDeployments
    <2>2. deployments' = WithRetired(ActiveDeployments, p)
      BY DEF AllRetired, WithRetired
    <2> QED
      BY <2>1, <2>2, RetiredRows
  <1>2. ActiveDeployments' = {}
    BY <1>1 DEF ActiveDeployments
  <1>3. CanaryBesideStable'
    BY <1>2 DEF CanaryBesideStable
  <1>4. SInv' /\ ResolveStep
    BY <1>1, <1>3, LockedStep, Quiet DEF SInv, SkillRowsType, Versions
  <1> QED
    BY <1>4 DEF ReleaseStep, Live, Versions

LEMMA SwitchStep ==
  ASSUME SInv, NEW p \in Person, NEW v \in Versions, Switch(p, v), inUse' = Observed
  PROVE  SInv' /\ ReleaseStep /\ ResolveStep
  <1>1. skill' \in Skill
    <2>1. v \in Nat /\ skill.rev + 1 \in Nat
      BY Domains DEF SInv, SkillRowsType, Skill
    <2> QED
      BY <2>1 DEF Switch, Skill, SkillStatus
  <1> QED
    BY <1>1, AllRetiredStep DEF Switch, callVars, reviewVars

LEMMA StopStep ==
  ASSUME SInv, NEW p \in Person, NEW target \in {"deprecated", "disabled"}, Stop(p, target), inUse' = Observed
  PROVE  SInv' /\ ReleaseStep /\ ResolveStep
  <1> DEFINE n == skill.rev + 1
  <1>1. skill \in Skill /\ n \in Nat
    BY DEF SInv, SkillRowsType, Skill
  <1>2. skill' = [skill EXCEPT !.status = target, !.rev = n]
    BY DEF Stop
  <1> HIDE DEF n
  <1>3. skill' \in Skill
    BY <1>1, <1>2 DEF Skill, SkillStatus
  <1> QED
    BY <1>3, AllRetiredStep DEF Stop, callVars, reviewVars

-----------------------------------------------------------------------------
LEMMA ReleaseNextStep == ASSUME SInv, [Next]_vars PROVE SInv' /\ ReleaseStep /\ ResolveStep
  <1>1. CASE UNCHANGED vars
    <2>1. SInv'
      BY <1>1 DEF vars, SInv, SkillRowsType, Versions, CanaryBesideStable, ActiveDeployments,
                  ResolutionsSeen, InUse, PublishingHolds, EvaluationsPerSubject, Draft, Passed
    <2> QED
      BY <1>1, <2>1 DEF vars, ReleaseStep, Live, Versions, ResolveStep
  <1>2. CASE Next
    <2> USE <1>2
    <2>0. inUse' = Observed
      BY DEF Next
    <2>1. CASE SwitchTools
      BY <2>0, <2>1, UnlockedStep, NothingWritten DEF SwitchTools, callVars, reviewVars
    <2>2. CASE SharedStep /\ UNCHANGED skillVars /\ UNCHANGED callVars
      BY <2>0, <2>2, ReviewedStep, NothingWritten DEF skillVars, callVars
    <2>3. CASE Revise
      BY <2>0, <2>3, ReviseVersionStep
    <2>4. CASE (\E v \in Versions : PublishRead(v) \/ PublishWrite(v)) \/ PublishAborts
      BY <2>0, <2>4, PublishReadStep, PublishWriteStep, PublishAbortsStep
    <2>5. ASSUME NEW v \in Versions, NEW scope \in Scope, Deploy(v, scope)
          PROVE SInv' /\ ReleaseStep /\ ResolveStep
      BY <2>0, <2>5, DeployStep
    <2>6. ASSUME NEW p \in Person, SkillStep(p) PROVE SInv' /\ ReleaseStep /\ ResolveStep
      BY <2>0, <2>6, SwitchStep, StopStep, RetireReadStep, RetireWriteStep
      DEF SkillStep, Promote, Rollback
    <2>7. ASSUME NEW r \in Run, ResolveRead(r) \/ ResolvePick(r)
          PROVE SInv' /\ ReleaseStep /\ ResolveStep
      BY <2>0, <2>7, ResolveReadStep, ResolvePickStep
    <2> QED
      BY <2>1, <2>2, <2>3, <2>4, <2>5, <2>6, <2>7 DEF Next
  <1> QED
    BY <1>1, <1>2

\* A canary is a published version beside another stable one of a skill in use, one per
\* scope (deploy_canary, _switch_stable, _stop_skill and their triggers).
THEOREM CanariesAreBeside == Spec => []CanaryBesideStable
  <1>1. SInv => CanaryBesideStable
    BY DEF SInv
  <1> QED
    BY <1>1, InitSInv, ReleaseNextStep, PTL DEF Spec

\* A resolution names a version that was in use while it ran, although it takes no lock
\* (resolve, _resolve_for_run).
THEOREM ResolutionsAreCurrent == Spec => ResolvesWhatIsInUse
  <1>1. ASSUME SInv, [Next]_vars
        PROVE  [\A r \in Run : resolved'[r] # resolved[r] => resolved'[r] \in inUse[r]]_vars
    BY <1>1, ReleaseNextStep DEF ResolveStep
  <1> QED
    BY <1>1, InitSInv, ReleaseNextStep, PTL DEF Spec, ResolvesWhatIsInUse

\* The release of a skill implements Publication: a version is published once, on
\* an evaluation that passed in the context the publication has read under its locks (the
\* tools are not among what it locks) and an approval valid as it is written, and stays
\* published (publish_version with guard_skill_version_publish_policy).
THEOREM SkillsImplementPublication == Spec => ReleasesOnEvidence
  BY InitSInv, ReleaseInit, ReleaseNextStep, PTL
  DEF Spec, ReleasesOnEvidence, Published!Spec, ReleaseStep, Published!outputs
===============================================================================
