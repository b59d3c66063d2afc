------------------------------- MODULE Storage -------------------------------
(***************************************************************************)
(* Bytes that a Run or a conversation keeps: the artifacts of one Run      *)
(* (artifacts/service.py) and the attachments staged for the next turn of  *)
(* one conversation (conversations/attachments.py, create_turn).  Rows are *)
(* in the database, objects in a bucket under the hash of their content,   *)
(* and no transaction spans both.                                          *)
(*                                                                         *)
(* A row is named by its idempotency key, which is unique in its table.    *)
(* promote copies from a temporary object of the upload's own; these are   *)
(* left out, as nothing reads them, and so are the links to a parent Run,  *)
(* written with the row in Finalize.  Of the two limits of a conversation  *)
(* the count is modelled; the total of bytes is checked beside it, in the  *)
(* same way.                                                               *)
(***************************************************************************)
EXTENDS Naturals, FiniteSets

CONSTANTS
    Callers,         \* requests and workers at the same time
    Artifacts,       \* idempotency keys of the artifacts of the Run
    Attachments,     \* idempotency keys of the attachments of the conversation
    Content,         \* the hash of what is uploaded under a key
    MaxStaged,       \* max_count
    Ttl,             \* ttl_seconds
    None,            \* no item
    MaxTime,         \* bound: the clock
    MaxTurns,        \* bound: turns created
    MaxDisruptions   \* bound: crashes, cancellations and lost answers

ASSUME LimitsAssumption ==
    /\ MaxStaged \in Nat /\ Ttl \in Nat \ {0}
    /\ MaxTime \in Nat /\ MaxTurns \in Nat /\ MaxDisruptions \in Nat

VARIABLES
    artifact,      \* artifacts: the status of each key
    attachment,    \* conversation_attachments: status, expires_at, consumed_by_turn_id
    bucket,        \* the contents that have an object
    caller,        \* what each caller is doing
    acknowledged,  \* artifacts some caller was told are stored
    turns,         \* turns created
    clock,
    disruptions

vars == <<artifact, attachment, bucket, caller, acknowledged, turns, clock, disruptions>>

artifactVars == <<artifact, acknowledged>>
attachmentVars == <<attachment, turns>>

-----------------------------------------------------------------------------
\* seen: the staged rows the statement of a caller found; held: those it has
\* locked; at: the time it judges by.
Idle == [pc |-> "idle", item |-> None, seen |-> {}, held |-> {}, at |-> 0]

NoAttachment == [status |-> "none", expires |-> 0, turn |-> 0]

Init ==
    /\ artifact = [k \in Artifacts |-> "none"]
    /\ attachment = [a \in Attachments |-> NoAttachment]
    /\ bucket = {}
    /\ caller = [p \in Callers |-> Idle]
    /\ acknowledged = {}
    /\ turns = 0
    /\ clock = 0
    /\ disruptions = 0

At(p, pc) == caller[p].pc = pc
Goto(p, pc) == caller' = [caller EXCEPT ![p].pc = pc]
Return(p) == caller' = [caller EXCEPT ![p] = Idle]
Disrupt == disruptions < MaxDisruptions /\ disruptions' = disruptions + 1

-----------------------------------------------------------------------------
(* store_runtime_artifact                                                  *)

\* The first transaction, under the advisory lock of the key: a new row is
\* reserved, a replay of an open one waits, of a closed one has its answer.
Reserve(p, k) ==
    /\ At(p, "idle")
    /\ artifact' = IF artifact[k] = "none" THEN [artifact EXCEPT ![k] = "uploading"] ELSE artifact
    /\ acknowledged' = IF artifact[k] = "available" THEN acknowledged \union {k} ELSE acknowledged
    /\ caller' =
         CASE artifact[k] = "none" ->
                [caller EXCEPT ![p] = [Idle EXCEPT !.pc = "storing", !.item = k]]
           [] artifact[k] = "uploading" ->
                [caller EXCEPT ![p] = [Idle EXCEPT !.pc = "waiting", !.item = k]]
           [] OTHER -> caller
    /\ UNCHANGED <<bucket, attachmentVars, clock, disruptions>>

\* put_temp and promote, outside any transaction.  Removing the temporary
\* object may raise when the object is already in its place.
StoreArtifact(p) ==
    /\ At(p, "storing")
    /\ \/ /\ bucket' = bucket \union {Content[caller[p].item]}
          /\ \/ Goto(p, "finalizing")
             \/ Goto(p, "failing")
       \/ /\ Goto(p, "failing")
          /\ UNCHANGED bucket
    /\ UNCHANGED <<artifactVars, attachmentVars, clock, disruptions>>

\* The second transaction: the row becomes available and the caller is told.
Finalize(p) ==
    /\ At(p, "finalizing")
    /\ artifact' = [artifact EXCEPT ![caller[p].item] = "available"]
    /\ acknowledged' = acknowledged \union {caller[p].item}
    /\ Return(p)
    /\ UNCHANGED <<bucket, attachmentVars, clock, disruptions>>

\* It raises: before it commits, or because the answer of the commit is lost.
FinalizeRaises(p) ==
    /\ At(p, "finalizing")
    /\ Disrupt
    /\ artifact' \in {artifact, [artifact EXCEPT ![caller[p].item] = "available"]}
    /\ Goto(p, "failing")
    /\ UNCHANGED <<acknowledged, bucket, attachmentVars, clock>>

\* Fault: the row of a failed upload is left as it is.
FailQuietly(p) ==
    /\ At(p, "failing")
    /\ Return(p)
    /\ UNCHANGED <<artifactVars, bucket, attachmentVars, clock, disruptions>>

\* The handler of every exception: a row that is still open has failed.
Fail(p) ==
    /\ At(p, "failing")
    /\ artifact' = IF artifact[caller[p].item] = "uploading"
                   THEN [artifact EXCEPT ![caller[p].item] = "failed"] ELSE artifact
    /\ Return(p)
    /\ UNCHANGED <<acknowledged, bucket, attachmentVars, clock, disruptions>>

\* _wait_for_replay: an answer, or none after 300 polls.
WaitEnds(p) ==
    /\ At(p, "waiting")
    /\ acknowledged' = IF artifact[caller[p].item] = "available"
                       THEN acknowledged \union {caller[p].item} ELSE acknowledged
    /\ Return(p)
    /\ UNCHANGED <<artifact, bucket, attachmentVars, clock, disruptions>>

-----------------------------------------------------------------------------
(* Attachments                                                             *)

Staged == {a \in Attachments : attachment[a].status = "staged"}

\* Rows locked by the transactions of others.
LockedFrom(p) == UNION {caller[q].held : q \in Callers \ {p}}

Uploading == {"locking", "sending", "inserting"}

\* upload: the advisory lock of the key, the replay of a known key (which
\* returns its row, whatever became of it), and the statement that finds the
\* staged rows.  It finds what is committed now, and then waits for locks.
UploadRead(p, a) ==
    /\ At(p, "idle")
    /\ attachment[a].status = "none"
    /\ \A q \in Callers : ~ (caller[q].pc \in Uploading /\ caller[q].item = a)
    /\ caller' = [caller EXCEPT ![p] = [Idle EXCEPT !.pc = "locking", !.item = a,
                                                    !.seen = Staged, !.at = clock]]
    /\ UNCHANGED <<artifactVars, attachmentVars, bucket, clock, disruptions>>

\* The rows of a statement that are still staged once it has their locks.
StillStaged(p) == caller[p].seen \intersect Staged

LapsedBy(time) == {a \in Attachments : attachment[a].expires <= time}

\* Fault: one attachment more than the limit.
RoomForOneMore(p) == Cardinality(StillStaged(p) \ LapsedBy(caller[p].at)) <= MaxStaged

Room(p) == Cardinality(StillStaged(p) \ LapsedBy(caller[p].at)) < MaxStaged

\* The locks are granted and the limit is checked; a refusal rolls back.
UploadLock(p) ==
    /\ At(p, "locking")
    /\ caller[p].seen \intersect LockedFrom(p) = {}
    /\ caller' = IF Room(p)
                 THEN [caller EXCEPT ![p].pc = "sending", ![p].held = StillStaged(p), ![p].seen = {}]
                 ELSE [caller EXCEPT ![p] = Idle]
    /\ UNCHANGED <<artifactVars, attachmentVars, bucket, clock, disruptions>>

\* Fault: the row is inserted before the object is in its place.
UploadUnsent(p) ==
    /\ At(p, "sending")
    /\ attachment' = [attachment EXCEPT ![caller[p].item] =
            [status |-> "staged", expires |-> caller[p].at + Ttl, turn |-> 0]]
    /\ Return(p)
    /\ UNCHANGED <<artifactVars, turns, bucket, clock, disruptions>>

\* put_temp and promote, inside the transaction; an error rolls it back.
UploadSend(p) ==
    /\ At(p, "sending")
    /\ \/ /\ bucket' = bucket \union {Content[caller[p].item]}
          /\ \/ Goto(p, "inserting")
             \/ Return(p)
       \/ /\ Return(p)
          /\ UNCHANGED bucket
    /\ UNCHANGED <<artifactVars, attachmentVars, clock, disruptions>>

Expired(rows, lapsed) ==
    [a \in Attachments |-> IF a \in lapsed THEN [rows[a] EXCEPT !.status = "expired"] ELSE rows[a]]

\* The commit: what had lapsed is expired, the new row is staged.
UploadCommit(p) ==
    /\ At(p, "inserting")
    /\ attachment' = [Expired(attachment, caller[p].held \intersect LapsedBy(caller[p].at))
            EXCEPT ![caller[p].item] =
                [status |-> "staged", expires |-> caller[p].at + Ttl, turn |-> 0]]
    /\ Return(p)
    /\ UNCHANGED <<artifactVars, turns, bucket, clock, disruptions>>

\* list: the rows that have lapsed are found without a lock (now is read right
\* after the statement) ...
ListRead(p) ==
    /\ At(p, "idle")
    /\ Staged \intersect LapsedBy(clock) # {}
    /\ caller' = [caller EXCEPT ![p] = [Idle EXCEPT !.pc = "expiring",
                                                    !.seen = Staged \intersect LapsedBy(clock)]]
    /\ UNCHANGED <<artifactVars, attachmentVars, bucket, clock, disruptions>>

\* ... and written as expired by their id, whatever they have become.
ListWrite(p) ==
    /\ At(p, "expiring")
    /\ caller[p].seen \intersect LockedFrom(p) = {}
    /\ attachment' = Expired(attachment, caller[p].seen)
    /\ Return(p)
    /\ UNCHANGED <<artifactVars, turns, bucket, clock, disruptions>>

\* delete: one row, locked, and only a staged one.
Delete(p, a) ==
    /\ At(p, "idle")
    /\ attachment[a].status = "staged" /\ a \notin LockedFrom(p)
    /\ attachment' = [attachment EXCEPT ![a].status = "deleted"]
    /\ UNCHANGED <<artifactVars, turns, bucket, caller, clock, disruptions>>

\* create_turn, with the conversation locked, up to the statement that finds
\* the staged rows.
TurnRead(p) ==
    /\ At(p, "idle")
    /\ turns < MaxTurns
    /\ \A q \in Callers : ~ At(q, "consuming")
    /\ caller' = [caller EXCEPT ![p] = [Idle EXCEPT !.pc = "consuming",
                                                    !.seen = Staged, !.at = clock]]
    /\ UNCHANGED <<artifactVars, attachmentVars, bucket, clock, disruptions>>

\* Each attachment becomes an artifact of the Run of the turn.
Consumed(rows, taken) ==
    [a \in Attachments |-> IF a \in taken
                           THEN [rows[a] EXCEPT !.status = "consumed", !.turn = turns + 1]
                           ELSE rows[a]]

\* Fault: the rows are taken as they were found, without their locks.
TurnUnlocked(p) ==
    /\ At(p, "consuming")
    /\ LET lapsed == LapsedBy(caller[p].at)
       IN  attachment' = Consumed(Expired(attachment, caller[p].seen \intersect lapsed),
                                  caller[p].seen \ lapsed)
    /\ turns' = turns + 1
    /\ Return(p)
    /\ UNCHANGED <<artifactVars, bucket, clock, disruptions>>

TurnCommit(p) ==
    /\ At(p, "consuming")
    /\ caller[p].seen \intersect LockedFrom(p) = {}
    /\ LET lapsed == LapsedBy(caller[p].at)
       IN  attachment' = Consumed(Expired(attachment, StillStaged(p) \intersect lapsed),
                                  StillStaged(p) \ lapsed)
    /\ turns' = turns + 1
    /\ Return(p)
    /\ UNCHANGED <<artifactVars, bucket, clock, disruptions>>

-----------------------------------------------------------------------------
\* The process dies or its task is cancelled, which no handler catches: the
\* transaction rolls back.  A thread that is sending may still finish.
Abandon(p) ==
    /\ ~ At(p, "idle")
    /\ Disrupt
    /\ \/ UNCHANGED bucket
       \/ /\ At(p, "storing") \/ At(p, "sending")
          /\ bucket' = bucket \union {Content[caller[p].item]}
    /\ Return(p)
    /\ UNCHANGED <<artifactVars, attachmentVars, clock>>

Tick ==
    /\ clock < MaxTime
    /\ clock' = clock + 1
    /\ UNCHANGED <<artifactVars, attachmentVars, bucket, caller, disruptions>>

\* The steps a caller takes on its own, once it has begun.
Proceed(p) ==
    \/ StoreArtifact(p) \/ Finalize(p) \/ Fail(p) \/ WaitEnds(p)
    \/ UploadLock(p) \/ UploadSend(p) \/ UploadCommit(p)
    \/ ListWrite(p) \/ TurnCommit(p)

Next ==
    \/ Tick
    \/ \E p \in Callers :
          \/ \E k \in Artifacts : Reserve(p, k)
          \/ \E a \in Attachments : UploadRead(p, a) \/ Delete(p, a)
          \/ ListRead(p) \/ TurnRead(p)
          \/ Proceed(p) \/ FinalizeRaises(p) \/ Abandon(p)

Spec == Init /\ [][Next]_vars

\* A request that has begun goes on: the object store and the database answer
\* or raise, and _wait_for_replay ends after 300 polls.
Fairness == \A p \in Callers : WF_vars(Proceed(p))

FairSpec == Spec /\ Fairness

-----------------------------------------------------------------------------
(* Properties.                                                             *)

\* Every row that says there are bytes has them, and an artifact that a caller
\* was told is stored stays available: neither a crash between object and row,
\* nor a replay, nor a lost answer makes a row that download cannot serve.
AvailableIsStored ==
    /\ \A k \in Artifacts : artifact[k] = "available" => Content[k] \in bucket
    /\ \A a \in Attachments : attachment[a].status # "none" => Content[a] \in bucket
    /\ \A k \in acknowledged : artifact[k] = "available"

\* However many uploads overlap, each of them can exceed the limit on staged
\* attachments by one at most: they lock the rows they found, not the ones that
\* are inserted meanwhile.
StagedBounded == Cardinality(Staged) <= MaxStaged + Cardinality(Callers) - 1

\* An attachment has one fate: what a turn has taken is not taken again or
\* deleted, what was deleted is never taken.  (list may still write "expired"
\* over either.)
OneFate ==
    [][\A a \in Attachments : attachment[a].status \in {"consumed", "deleted"} =>
            /\ attachment'[a].status \in {attachment[a].status, "expired"}
            /\ attachment'[a].turn = attachment[a].turn]_vars

\* An upload that nobody disturbs settles its row, so that replays get an
\* answer.  (After a crash the row stays open for ever, and every replay ends
\* in ARTIFACT_UPLOAD_INCOMPLETE.)
UploadsSettle ==
    \A k \in Artifacts :
        artifact[k] = "uploading" ~> artifact[k] # "uploading" \/ disruptions > 0
=============================================================================
