---------------------------- MODULE SkillRelease ----------------------------
(***************************************************************************)
(* The release of one skill (skills/service.py): drafts of new versions,   *)
(* their publication on evidence, the stable pointer, canary deployments,  *)
(* promotion, rollback, deprecation and disabling, and the resolution of   *)
(* the skill for a Run, which takes no locks.  Every writer locks the      *)
(* skill row first; a publication locks its version as well, and holds     *)
(* both from its reads to its commit.  The registry of tools is locked by  *)
(* nobody.  The guard triggers of migrations 0006 and 0009 are part of the *)
(* actions whose writes they check.                                        *)
(***************************************************************************)
EXTENDS GrowthReview

CONSTANTS Scope,           \* the canary scopes that the skill's own scope allows
          Run,             \* the Runs for which the skill is resolved
          MaxVersions,     \* bound on the rows of skill_versions
          MaxDeployments   \* bound on the rows of skill_deployments

ASSUME SkillAssumption ==
    /\ MaxVersions \in Nat \ {0} /\ MaxDeployments \in Nat
    /\ 1..MaxVersions \subseteq Subject
    /\ None \notin Nat

VARIABLES versions,      \* table skill_versions: the state of each version
          skill,         \* the skill row
          deployments,   \* table skill_deployments, in the order of creation
          tools,         \* are the tools the versions declare enabled
          publishing,    \* the publication that has read its evidence, and what it saw
          retiring,      \* per caller: the deployment a retirement has read
          resolving,     \* per Run: the stable version its resolution has read
          resolved,      \* per Run: the version it executes
          inUse          \* history: the versions in use during a resolution

skillVars == <<versions, skill, deployments, tools>>
callVars == <<publishing, retiring, resolving, resolved>>
vars == <<clock, evaluations, validating, approvals, versions, skill, deployments, tools,
          publishing, retiring, resolving, resolved, inUse>>

NoVersion == 0
Versions == DOMAIN versions
Latest == Len(versions)

SkillStatus == {"candidate", "published", "deprecated", "disabled"}
VersionStatus == {"draft", "published"}

SkillRow == [status : SkillStatus, current : {NoVersion} \cup Versions, rev : Nat]

DeploymentRow == [version : Versions, scope : Scope, status : {"active", "retired"},
                  by : Person \cup {None}]

ReleaseContext == [skill : SkillStatus, version : VersionStatus, tools : BOOLEAN]

PublishingCall == [version : Versions, context : ReleaseContext]

(* The skill and its first version as generate has persisted them. *)
Init ==
    /\ InitReview
    /\ versions = <<"draft">>
    /\ skill = [status |-> "candidate", current |-> NoVersion, rev |-> 1]
    /\ deployments = <<>>
    /\ tools \in BOOLEAN
    /\ publishing = None
    /\ retiring = [p \in Person |-> None]
    /\ resolving = [r \in Run |-> None]
    /\ resolved = [r \in Run |-> None]
    /\ inUse = [r \in Run |-> {}]

ActiveDeployments == { d \in DOMAIN deployments : deployments[d].status = "active" }

(* _lock_skill: the other writers of the skill wait for a publication.     *)
SkillFree == publishing = None

(* The row of the version is locked by a publication of it only. *)
VersionFree(v) == publishing # None => publishing.version # v

(* An operator enables or disables a declared tool in the registry. *)
SwitchTools ==
    /\ tools' = ~tools
    /\ UNCHANGED <<versions, skill, deployments>> /\ UNCHANGED callVars /\ UNCHANGED reviewVars

-----------------------------------------------------------------------------
(* Evidence: the subject is a version of the skill *)

Draft(v) == versions[v] = "draft"

(* What changes in the snapshot the validator sees of a version. *)
Context(v) == [skill |-> skill.status, version |-> versions[v], tools |-> tools]

(* candidate_status and tools_enabled of the deterministic validator. *)
Passable(v) == skill.status # "disabled" /\ tools

Evaluate(e) ==
    \/ \E v \in Versions : Draft(v) /\ EvaluateRead(e, v, Context(v))
    \/ /\ validating[e] # None
       /\ LET v == validating[e].subject IN
            VersionFree(v) /\ EvaluateRecord(e, Context(v), Passable(v))

ReviewVersion(p, v) == Draft(v) /\ VersionFree(v) /\ RequestReview(p, v)

(* Fault: the context of the evaluation is not compared. *)
EvaluatedAnywhere(v) == Passed(v)

(* The latest evaluation has passed and saw the release context of now. *)
EvaluatedHere(v) ==
    /\ Passed(v)
    /\ evaluations[v][Len(evaluations[v])].snapshot = Context(v)

-----------------------------------------------------------------------------
(* Versions *)

(* revise: a new draft after the latest version. *)
Revise ==
    /\ SkillFree
    /\ skill.status # "disabled"
    /\ Latest < MaxVersions
    /\ versions' = Append(versions, "draft")
    /\ skill' = [skill EXCEPT !.rev = @ + 1]
    /\ UNCHANGED <<deployments, tools>> /\ UNCHANGED callVars /\ UNCHANGED reviewVars

(* guard_skill_version_publish_policy: the latest evaluation has passed,   *)
(* and an independent approval is valid by the database's own clock.       *)
GuardVersionPublish(v) == Passed(v) /\ ValidApproval(v, clock)

(* publish_version locks the skill and the version and compares the latest *)
(* evaluation with the release context it reads now ...                    *)
PublishRead(v) ==
    /\ SkillFree
    /\ Draft(v)
    /\ v = Latest
    /\ skill.status # "disabled"
    /\ EvaluatedHere(v)
    /\ publishing' = [version |-> v, context |-> Context(v)]
    /\ UNCHANGED skillVars /\ UNCHANGED <<retiring, resolving, resolved>> /\ UNCHANGED reviewVars

(* ... looks for an approval and writes.  The first publication takes the  *)
(* skill through testing and approved to published and makes the version   *)
(* the stable one; a later one leaves the skill row as it is.  Nothing     *)
(* asks for the tools again.                                               *)
PublishWrite(v) ==
    /\ publishing # None
    /\ v = publishing.version
    /\ \E at \in Read : ValidApproval(v, at)
    /\ GuardVersionPublish(v)
    /\ versions' = [versions EXCEPT ![v] = "published"]
    /\ IF skill.current = NoVersion
       THEN skill' = [status |-> "published", current |-> v, rev |-> skill.rev + 3]
       ELSE UNCHANGED skill
    /\ publishing' = None
    /\ UNCHANGED <<deployments, tools, retiring, resolving, resolved>> /\ UNCHANGED reviewVars

(* No approval, a trigger's refusal or a lost connection: rolled back. *)
PublishAborts ==
    /\ publishing # None
    /\ publishing' = None
    /\ UNCHANGED skillVars /\ UNCHANGED <<retiring, resolving, resolved>> /\ UNCHANGED reviewVars

-----------------------------------------------------------------------------
(* Canaries *)

(* guard_skill_deployment_insert_policy *)
GuardDeployment(v) ==
    /\ versions[v] = "published"
    /\ skill.status = "published"
    /\ skill.current # NoVersion

Deployable(v) ==
    /\ skill.status = "published"
    /\ versions[v] = "published"
    /\ v # skill.current
    /\ GuardDeployment(v)

(* Fault: only the state of the skill and the version count. *)
FreeAlways(scope) == scope \in Scope

(* A scope has one canary at a time. *)
Free(scope) == ~ \E d \in ActiveDeployments : deployments[d].scope = scope

(* deploy_canary *)
Deploy(v, scope) ==
    /\ SkillFree
    /\ Deployable(v)
    /\ Free(scope)
    /\ Len(deployments) < MaxDeployments
    /\ deployments' = Append(deployments,
                             [version |-> v, scope |-> scope, status |-> "active", by |-> None])
    /\ skill' = [skill EXCEPT !.rev = @ + 1]
    /\ UNCHANGED <<versions, tools>> /\ UNCHANGED callVars /\ UNCHANGED reviewVars

(* retire_canary reads the deployment to find its skill, and locks that.   *)
(* The deployment it then selects for update is the object of its session, *)
(* with the state of the first read.                                       *)
RetireRead(p, d) ==
    /\ retiring[p] = None
    /\ d \in ActiveDeployments
    /\ retiring' = [retiring EXCEPT ![p] = d]
    /\ UNCHANGED skillVars /\ UNCHANGED <<publishing, resolving, resolved>>
    /\ UNCHANGED reviewVars

(* guard_skill_deployment_write: a retired deployment is immutable. *)
RetireTrigger(d) == d \in ActiveDeployments

Retired(d, p) == [deployments[d] EXCEPT !.status = "retired", !.by = p]

RetireWrite(p) ==
    /\ retiring[p] # None
    /\ SkillFree
    /\ retiring' = [retiring EXCEPT ![p] = None]
    /\ LET d == retiring[p] IN
         IF RetireTrigger(d)
         THEN /\ deployments' = [deployments EXCEPT ![d] = Retired(d, p)]
              /\ skill' = [skill EXCEPT !.rev = @ + 1]
         ELSE UNCHANGED <<deployments, skill>>
    /\ UNCHANGED <<versions, tools, publishing, resolving, resolved>> /\ UNCHANGED reviewVars

-----------------------------------------------------------------------------
(* The stable pointer *)

(* The deployments after all active ones were retired. *)
AllRetired(p) ==
    [ d \in DOMAIN deployments |->
        IF d \in ActiveDeployments THEN Retired(d, p) ELSE deployments[d] ]

(* guard_skill_pointer_policy and guard_skill_stop_policy: the pointer and *)
(* the end of a skill wait for the retirement of the canaries, which the   *)
(* same transaction has flushed.                                           *)
GuardNoCanary(rows) == \A d \in DOMAIN rows : rows[d].status # "active"

(* _switch_stable retires the canaries and moves the pointer; a deprecated *)
(* skill is published again.                                               *)
Switch(p, v) ==
    /\ SkillFree
    /\ skill.current # NoVersion
    /\ skill.status # "disabled"
    /\ versions[v] = "published"
    /\ deployments' = AllRetired(p)
    /\ v # skill.current => GuardNoCanary(AllRetired(p))
    /\ skill' = [status |-> "published", current |-> v, rev |-> skill.rev + 1]
    /\ UNCHANGED <<versions, tools>> /\ UNCHANGED callVars /\ UNCHANGED reviewVars

Promote(p, v) == v > skill.current /\ Switch(p, v)

Rollback(p, v) ==
    /\ v < skill.current \/ (v = skill.current /\ skill.status = "deprecated")
    /\ Switch(p, v)

(* _stop_skill *)
Stop(p, target) ==
    /\ SkillFree
    /\ skill.status # "disabled"
    /\ target = "deprecated" => skill.status = "published"
    /\ deployments' = AllRetired(p)
    /\ GuardNoCanary(AllRetired(p))
    /\ skill' = [skill EXCEPT !.status = target, !.rev = @ + 1]
    /\ UNCHANGED <<versions, tools>> /\ UNCHANGED callVars /\ UNCHANGED reviewVars

-----------------------------------------------------------------------------
(* Resolution for a Run *)

(* The versions a resolution may name. *)
InUse ==
    (IF skill.status = "published" THEN {skill.current} ELSE {})
    \cup { deployments[d].version : d \in ActiveDeployments }

(* resolve reads the skill row ... *)
ResolveRead(r) ==
    /\ resolved[r] = None
    /\ resolving[r] = None
    /\ skill.status = "published"
    /\ resolving' = [resolving EXCEPT ![r] = skill.current]
    /\ UNCHANGED skillVars /\ UNCHANGED <<publishing, retiring, resolved>> /\ UNCHANGED reviewVars

(* Fault: the state of the deployments is not asked for. *)
RolloutsEver == { deployments[d].version : d \in DOMAIN deployments }

Rollouts == { deployments[d].version : d \in ActiveDeployments }

(* ... and _resolve_for_run then the active deployment; the Run is in the  *)
(* rollout of a deployment or not, by a hash of the two identifiers.       *)
ResolvePick(r) ==
    /\ resolving[r] # None
    /\ resolving' = [resolving EXCEPT ![r] = None]
    /\ \E v \in {resolving[r]} \cup Rollouts :
           resolved' = [resolved EXCEPT ![r] = v]
    /\ UNCHANGED skillVars /\ UNCHANGED <<publishing, retiring>> /\ UNCHANGED reviewVars

Observed == [ r \in Run |-> IF resolving'[r] = None THEN {} ELSE inUse[r] \cup InUse' ]

-----------------------------------------------------------------------------
SharedStep ==
    \/ Tick
    \/ \E e \in Evaluator : Evaluate(e)
    \/ \E p \in Person, v \in Versions : ReviewVersion(p, v) \/ Review(p, v)

SkillStep(p) ==
    \/ \E v \in Versions : Promote(p, v) \/ Rollback(p, v)
    \/ Stop(p, "deprecated")
    \/ Stop(p, "disabled")
    \/ \E d \in DOMAIN deployments : RetireRead(p, d)
    \/ RetireWrite(p)

Next ==
    /\ \/ SwitchTools
       \/ SharedStep /\ UNCHANGED skillVars /\ UNCHANGED callVars
       \/ Revise
       \/ \E v \in Versions : PublishRead(v) \/ PublishWrite(v)
       \/ PublishAborts
       \/ \E v \in Versions, scope \in Scope : Deploy(v, scope)
       \/ \E p \in Person : SkillStep(p)
       \/ \E r \in Run : ResolveRead(r) \/ ResolvePick(r)
    /\ inUse' = Observed

Spec == Init /\ [][Next]_vars

-----------------------------------------------------------------------------
(* Properties *)

TypeOK ==
    /\ ReviewTypeOK(ReleaseContext)
    /\ versions \in Seq(VersionStatus) /\ Versions \subseteq Subject
    /\ skill \in SkillRow
    /\ deployments \in Seq(DeploymentRow)
    /\ tools \in BOOLEAN
    /\ publishing \in PublishingCall \cup {None}
    /\ retiring \in [Person -> DOMAIN deployments \cup {None}]
    /\ resolving \in [Run -> Versions \cup {None}]
    /\ resolved \in [Run -> Versions \cup {None}]
    /\ inUse \in [Run -> SUBSET Versions]

(* A canary runs beside a stable version: the skill is in use, the canary  *)
(* is a published version and not the stable one, and a scope has at most  *)
(* one, however deployments, promotions, rollbacks and stops interleave.   *)
CanaryBesideStable ==
    \A d \in ActiveDeployments :
        /\ skill.status = "published"
        /\ versions[deployments[d].version] = "published"
        /\ deployments[d].version # skill.current
        /\ \A c \in ActiveDeployments : deployments[c].scope = deployments[d].scope => c = d

(* A Run executes a version that was stable or a canary at some moment of  *)
(* its resolution, although the resolution reads the skill and its         *)
(* deployments without a lock, at different moments.                       *)
ResolvesWhatIsInUse ==
    [][\A r \in Run : resolved'[r] # resolved[r] => resolved'[r] \in inUse[r]]_vars

(* Abstract publication: a version is cleared while its publication runs   *)
(* and its latest evaluation has passed in the release context that the    *)
(* publication has read; the states of skill and version are still what    *)
(* they were, and an independent approval is valid now, by the database's  *)
(* clock.  Of the tools, which nothing locks, only what was read counts.   *)
Cleared == { v \in Versions :
               /\ publishing # None
               /\ publishing.version = v
               /\ Passed(v)
               /\ evaluations[v][Len(evaluations[v])].snapshot = publishing.context
               /\ Context(v) = [publishing.context EXCEPT !.tools = tools]
               /\ ValidApproval(v, clock) }

Live == { v \in Versions : versions[v] = "published" }

Published == INSTANCE Publication WITH
    Item <- Subject, cleared <- Cleared, live <- Live, retired <- {}

(* A version is published by a publication whose evidence is complete, as  *)
(* Cleared has it, although reviews, evaluations of other versions and the *)
(* registry of tools go on between its reads and its writes.  It stays     *)
(* available for ever: stable pointers and rollbacks never lose one.       *)
ReleasesOnEvidence == Published!Spec
=============================================================================
