---------------------------- MODULE StorageProofs ----------------------------
(***************************************************************************)
(* What Storage guarantees for every number of callers, artifacts and      *)
(* attachments, whatever the limits and the time to live.                  *)
(***************************************************************************)
EXTENDS Storage, FiniteSetTheorems, TLAPS

\* The places of a caller that works on an artifact, and on an attachment.
Storing == {"storing", "finalizing", "failing", "waiting"}

CallerType ==
    [pc : {"idle", "expiring", "consuming"} \union Storing \union Uploading,
     item : Artifacts \union Attachments \union {None},
     seen : SUBSET Attachments, held : SUBSET Attachments, at : Nat]

AttachmentType ==
    [status : {"none", "staged", "consumed", "deleted", "expired"}, expires : Nat, turn : Nat]

TypeInv ==
    /\ artifact \in [Artifacts -> {"none", "uploading", "available", "failed"}]
    /\ attachment \in [Attachments -> AttachmentType]
    /\ caller \in [Callers -> CallerType]
    /\ acknowledged \subseteq Artifacts
    /\ turns \in Nat /\ clock \in Nat

\* A caller works on an item of the right kind.
ItemsFit == \A p \in Callers :
    /\ caller[p].pc \in Storing => caller[p].item \in Artifacts
    /\ caller[p].pc \in Uploading => caller[p].item \in Attachments

\* An upload is the only one of its key, and its row does not exist yet.
UploadIsNew == \A p \in Callers :
    caller[p].pc \in Uploading =>
        /\ attachment[caller[p].item].status = "none"
        /\ \A q \in Callers \ {p} :
              caller[q].pc \in Uploading => caller[q].item # caller[p].item

\* Who is about to write a row has sent its bytes.
SentFirst == \A p \in Callers :
    caller[p].pc \in {"finalizing", "inserting"} => Content[caller[p].item] \in bucket

\* What a caller found or locked are rows.
FoundExist == \A p \in Callers :
    \A a \in caller[p].seen \union caller[p].held : attachment[a].status # "none"

IInv == TypeInv /\ ItemsFit /\ UploadIsNew /\ SentFirst /\ FoundExist /\ AvailableIsStored

USE DEF Storing, Uploading

-----------------------------------------------------------------------------
LEMMA IdleType == Idle \in CallerType
  BY DEF Idle, CallerType

LEMMA InitIInv == Init => IInv
  <1> SUFFICES ASSUME Init PROVE IInv
    OBVIOUS
  <1>1. TypeInv
    <2>1. NoAttachment \in AttachmentType
      BY DEF NoAttachment, AttachmentType
    <2> QED
      BY <2>1, IdleType DEF Init, TypeInv
  <1>2. ItemsFit /\ UploadIsNew /\ SentFirst /\ FoundExist
    BY DEF Init, Idle, ItemsFit, UploadIsNew, SentFirst, FoundExist
  <1>3. AvailableIsStored
    BY DEF Init, NoAttachment, AvailableIsStored
  <1> QED
    BY <1>1, <1>2, <1>3 DEF IInv

\* A row keeps its place among the rows when some of them expire.
LEMMA ExpiredRows ==
  ASSUME NEW rows \in [Attachments -> AttachmentType], NEW lapsed \in SUBSET Attachments
  PROVE  /\ Expired(rows, lapsed) \in [Attachments -> AttachmentType]
         /\ \A a \in Attachments :
               /\ Expired(rows, lapsed)[a].turn = rows[a].turn
               /\ Expired(rows, lapsed)[a].expires = rows[a].expires
               /\ Expired(rows, lapsed)[a].status =
                     IF a \in lapsed THEN "expired" ELSE rows[a].status
  BY DEF Expired, AttachmentType

LEMMA ConsumedRows ==
  ASSUME NEW rows \in [Attachments -> AttachmentType], NEW taken \in SUBSET Attachments,
         turns \in Nat
  PROVE  /\ Consumed(rows, taken) \in [Attachments -> AttachmentType]
         /\ \A a \in Attachments :
               /\ Consumed(rows, taken)[a].turn = IF a \in taken THEN turns + 1 ELSE rows[a].turn
               /\ Consumed(rows, taken)[a].expires = rows[a].expires
               /\ Consumed(rows, taken)[a].status =
                     IF a \in taken THEN "consumed" ELSE rows[a].status
  <1> SUFFICES ASSUME NEW a \in Attachments
               PROVE  /\ Consumed(rows, taken)[a] \in AttachmentType
                      /\ Consumed(rows, taken)[a].turn = IF a \in taken THEN turns + 1 ELSE rows[a].turn
                      /\ Consumed(rows, taken)[a].expires = rows[a].expires
                      /\ Consumed(rows, taken)[a].status =
                            IF a \in taken THEN "consumed" ELSE rows[a].status
    BY DEF Consumed
  <1>1. rows[a] \in AttachmentType /\ turns + 1 \in Nat
    OBVIOUS
  <1>2. CASE a \in taken
    <2>1. Consumed(rows, taken)[a] = [rows[a] EXCEPT !.status = "consumed", !.turn = turns + 1]
      BY <1>2 DEF Consumed
    <2> QED
      BY <1>1, <1>2, <2>1 DEF AttachmentType
  <1>3. CASE a \notin taken
    BY <1>1, <1>3 DEF Consumed
  <1> QED
    BY <1>2, <1>3

-----------------------------------------------------------------------------
(* Steps that change what a caller is doing, and nothing that it was told. *)

\* A caller goes on to a state s, and the rows stay.
LEMMA CallerMoves ==
  ASSUME IInv, NEW p \in Callers, NEW s \in CallerType,
         caller' = [caller EXCEPT ![p] = s],
         UNCHANGED <<artifactVars, attachmentVars, clock>>, bucket \subseteq bucket',
         s.pc \in Storing => s.item \in Artifacts,
         s.pc \in Uploading =>
            /\ s.item \in Attachments /\ attachment[s.item].status = "none"
            /\ \A q \in Callers \ {p} : caller[q].pc \in Uploading => caller[q].item # s.item,
         s.pc \in {"finalizing", "inserting"} => Content[s.item] \in bucket',
         \A a \in s.seen \union s.held : attachment[a].status # "none"
  PROVE  IInv'
  <1> USE DEF IInv, artifactVars, attachmentVars
  <1>1. TypeInv'
    BY DEF TypeInv
  <1>2. \A q \in Callers : caller'[q] = IF q = p THEN s ELSE caller[q]
    BY DEF TypeInv
  <1>3. ItemsFit' /\ SentFirst' /\ FoundExist'
    BY <1>2 DEF ItemsFit, SentFirst, FoundExist
  <1>4. UploadIsNew'
    BY <1>2 DEF UploadIsNew
  <1>5. AvailableIsStored'
    BY DEF AvailableIsStored
  <1> QED
    BY <1>1, <1>3, <1>4, <1>5

\* A caller returns, and no row that existed is taken away.
LEMMA CallerReturns ==
  ASSUME IInv, NEW p \in Callers, Return(p), TypeInv',
         bucket \subseteq bucket',
         \A a \in Attachments : attachment[a].status # "none" => attachment'[a].status # "none",
         \A a \in Attachments : attachment'[a].status # "none" =>
            attachment[a].status # "none" \/ (caller[p].pc \in Uploading /\ a = caller[p].item)
  PROVE  ItemsFit' /\ UploadIsNew' /\ SentFirst' /\ FoundExist'
  <1> USE DEF IInv
  <1>1. \A q \in Callers : caller'[q] = IF q = p THEN Idle ELSE caller[q]
    BY DEF TypeInv, Return
  <1>2. Idle.pc = "idle" /\ Idle.seen = {} /\ Idle.held = {}
    BY DEF Idle
  <1>3. ItemsFit' /\ SentFirst'
    BY <1>1, <1>2 DEF ItemsFit, SentFirst
  <1>4. UploadIsNew'
    BY <1>1, <1>2 DEF UploadIsNew, ItemsFit
  <1>5. FoundExist'
    <2> SUFFICES ASSUME NEW q \in Callers, NEW a \in caller'[q].seen \union caller'[q].held
                 PROVE  attachment'[a].status # "none"
      BY DEF FoundExist
    <2>1. q # p /\ caller'[q] = caller[q]
      BY <1>1, <1>2
    <2>2. a \in Attachments
      BY <2>1 DEF TypeInv, CallerType
    <2> QED
      BY <2>1, <2>2 DEF FoundExist
  <1> QED
    BY <1>3, <1>4, <1>5

-----------------------------------------------------------------------------
(* Every step keeps IInv: the artifacts first.                             *)

LEMMA ReserveIInv ==
  ASSUME IInv, NEW p \in Callers, NEW k \in Artifacts, Reserve(p, k)
  PROVE  IInv'
  <1> USE DEF IInv
  <1> DEFINE s == [Idle EXCEPT !.pc = IF artifact[k] = "none" THEN "storing" ELSE "waiting",
                               !.item = k]
  <1>1. s \in CallerType /\ s.pc \in Storing \ {"finalizing"} /\ s.item = k
            /\ s.seen = {} /\ s.held = {}
    BY DEF Idle, CallerType
  <1>2. caller' \in {caller, [caller EXCEPT ![p] = s]}
    BY DEF Reserve
  <1>3. TypeInv'
    BY <1>1, <1>2 DEF Reserve, TypeInv, attachmentVars
  <1>4. \A q \in Callers : caller'[q] = caller[q] \/ (q = p /\ caller'[q] = s)
    BY <1>2 DEF TypeInv
  <1>5. ItemsFit' /\ UploadIsNew' /\ SentFirst' /\ FoundExist'
    BY <1>1, <1>4 DEF ItemsFit, UploadIsNew, SentFirst, FoundExist, Reserve, attachmentVars
  <1>6. AvailableIsStored'
    BY DEF AvailableIsStored, Reserve, TypeInv, attachmentVars
  <1> QED
    BY <1>3, <1>5, <1>6

LEMMA GotoIsMove ==
  ASSUME IInv, NEW p \in Callers, NEW pc, Goto(p, pc),
         pc \in Storing \union Uploading
  PROVE  \E s \in CallerType :
            /\ caller' = [caller EXCEPT ![p] = s]
            /\ s.pc = pc /\ s.item = caller[p].item
            /\ s.seen = caller[p].seen /\ s.held = caller[p].held
  <1> DEFINE s == [caller[p] EXCEPT !.pc = pc]
  <1>1. caller[p] \in CallerType
    BY DEF IInv, TypeInv
  <1>2. s \in CallerType /\ s.pc = pc /\ s.item = caller[p].item
           /\ s.seen = caller[p].seen /\ s.held = caller[p].held
    BY <1>1 DEF CallerType
  <1> QED
    BY <1>2 DEF Goto

LEMMA StoreArtifactIInv ==
  ASSUME IInv, NEW p \in Callers, StoreArtifact(p)
  PROVE  IInv'
  <1>1. PICK pc \in {"finalizing", "failing"} :
           Goto(p, pc) /\ (pc = "finalizing" => Content[caller[p].item] \in bucket')
    BY DEF StoreArtifact
  <1>2. PICK s \in CallerType :
            /\ caller' = [caller EXCEPT ![p] = s]
            /\ s.pc = pc /\ s.item = caller[p].item
            /\ s.seen = caller[p].seen /\ s.held = caller[p].held
    BY <1>1, GotoIsMove
  <1>3. s.item \in Artifacts
    BY <1>2 DEF StoreArtifact, At, IInv, ItemsFit
  <1>4. \A a \in s.seen \union s.held : attachment[a].status # "none"
    BY <1>2 DEF IInv, FoundExist
  <1> QED
    BY <1>1, <1>2, <1>3, <1>4, CallerMoves DEF StoreArtifact

LEMMA FinalizeRaisesIInv ==
  ASSUME IInv, NEW p \in Callers, FinalizeRaises(p)
  PROVE  IInv'
  <1> USE DEF IInv
  <1>1. PICK s \in CallerType :
            /\ caller' = [caller EXCEPT ![p] = s]
            /\ s.pc = "failing" /\ s.item = caller[p].item
            /\ s.seen = caller[p].seen /\ s.held = caller[p].held
    BY GotoIsMove DEF FinalizeRaises
  <1>2. caller[p].item \in Artifacts /\ Content[caller[p].item] \in bucket
    BY DEF FinalizeRaises, At, ItemsFit, SentFirst
  <1>3. TypeInv'
    BY <1>1, <1>2 DEF FinalizeRaises, TypeInv, attachmentVars
  <1>4. \A q \in Callers : caller'[q] = IF q = p THEN s ELSE caller[q]
    BY <1>1 DEF TypeInv
  <1>5. ItemsFit' /\ UploadIsNew' /\ SentFirst' /\ FoundExist'
    BY <1>1, <1>2, <1>4
    DEF ItemsFit, UploadIsNew, SentFirst, FoundExist, FinalizeRaises, attachmentVars
  <1>6. AvailableIsStored'
    BY <1>2 DEF AvailableIsStored, FinalizeRaises, TypeInv, attachmentVars
  <1> QED
    BY <1>3, <1>5, <1>6

\* Finalize, Fail and WaitEnds: the caller returns.
LEMMA ArtifactReturns ==
  ASSUME IInv, NEW p \in Callers, Finalize(p) \/ Fail(p) \/ WaitEnds(p)
  PROVE  IInv'
  <1> USE DEF IInv
  <1>1. caller[p].item \in Artifacts /\ Return(p) /\ UNCHANGED <<bucket, attachmentVars, clock>>
    BY DEF Finalize, Fail, WaitEnds, At, ItemsFit
  <1>2. (artifact' # artifact /\ artifact' # [artifact EXCEPT ![caller[p].item] = "failed"]) =>
            Content[caller[p].item] \in bucket
    BY DEF Finalize, Fail, WaitEnds, At, SentFirst
  <1>3. TypeInv'
    BY <1>1, IdleType DEF Finalize, Fail, WaitEnds, Return, TypeInv, attachmentVars
  <1>4. ItemsFit' /\ UploadIsNew' /\ SentFirst' /\ FoundExist'
    BY <1>1, <1>3, CallerReturns DEF attachmentVars
  <1>5. AvailableIsStored'
    BY <1>1, <1>2 DEF AvailableIsStored, Finalize, Fail, WaitEnds, At, SentFirst, TypeInv, attachmentVars
  <1> QED
    BY <1>3, <1>4, <1>5

-----------------------------------------------------------------------------
(* The attachments.                                                        *)

LEMMA UploadStepsIInv ==
  ASSUME IInv, NEW p \in Callers,
         (\E a \in Attachments : UploadRead(p, a)) \/ UploadLock(p) \/ UploadSend(p)
  PROVE  IInv'
  <1> USE DEF IInv
  <1>0. caller[p] \in CallerType /\ Staged \subseteq Attachments
    BY DEF TypeInv, Staged
  <1>a. \A a \in Staged : attachment[a].status # "none"
    BY DEF Staged
  <1>i. /\ Idle.pc = "idle" /\ Idle.seen = {} /\ Idle.held = {}
    BY DEF Idle
  <1>1. ASSUME NEW a \in Attachments, UploadRead(p, a) PROVE IInv'
    <2> DEFINE s == [Idle EXCEPT !.pc = "locking", !.item = a, !.seen = Staged, !.at = clock]
    <2>1. s \in CallerType /\ s.pc = "locking" /\ s.item = a /\ s.seen = Staged /\ s.held = {}
      BY <1>0 DEF Idle, CallerType, TypeInv
    <2>2. /\ \A q \in Callers \ {p} : caller[q].pc \in Uploading => caller[q].item # s.item
          /\ attachment[s.item].status = "none"
          /\ caller' = [caller EXCEPT ![p] = s]
          /\ UNCHANGED <<artifactVars, attachmentVars, clock, bucket>>
      BY <1>1, <2>1 DEF UploadRead
    <2>3. \A b \in s.seen \union s.held : attachment[b].status # "none"
      BY <1>a, <2>1
    <2> HIDE DEF s
    <2> QED
      BY <2>1, <2>2, <2>3, CallerMoves
  <1>2. CASE UploadLock(p) /\ Room(p)
    <2> DEFINE s == [caller[p] EXCEPT !.pc = "sending", !.held = StillStaged(p), !.seen = {}]
    <2>1. s \in CallerType /\ s.pc = "sending" /\ s.item = caller[p].item
             /\ s.seen = {} /\ s.held \subseteq Staged
      BY <1>0 DEF CallerType, StillStaged
    <2>2. /\ s.item \in Attachments /\ attachment[s.item].status = "none"
          /\ \A q \in Callers \ {p} : caller[q].pc \in Uploading => caller[q].item # s.item
      BY <1>2, <2>1 DEF UploadLock, At, ItemsFit, UploadIsNew
    <2>3. caller' = [caller EXCEPT ![p] = s] /\ UNCHANGED <<artifactVars, attachmentVars, clock, bucket>>
      BY <1>2 DEF UploadLock
    <2>4. \A a \in s.seen \union s.held : attachment[a].status # "none"
      BY <1>a, <2>1
    <2> HIDE DEF s
    <2> QED
      BY <2>1, <2>2, <2>3, <2>4, CallerMoves
  <1>3. CASE (UploadLock(p) /\ ~ Room(p)) \/ (UploadSend(p) /\ Return(p))
    <2>1. /\ caller' = [caller EXCEPT ![p] = Idle]
          /\ UNCHANGED <<artifactVars, attachmentVars, clock>> /\ bucket \subseteq bucket'
      BY <1>3 DEF UploadLock, UploadSend, Return
    <2> QED
      BY <1>i, <2>1, IdleType, CallerMoves
  <1>4. CASE UploadSend(p) /\ ~ Return(p)
    <2>1. Goto(p, "inserting") /\ bucket' = bucket \union {Content[caller[p].item]}
      BY <1>4 DEF UploadSend
    <2>2. PICK s \in CallerType :
              /\ caller' = [caller EXCEPT ![p] = s]
              /\ s.pc = "inserting" /\ s.item = caller[p].item
              /\ s.seen = caller[p].seen /\ s.held = caller[p].held
      BY <2>1, GotoIsMove
    <2>3. /\ s.item \in Attachments /\ attachment[s.item].status = "none"
          /\ \A q \in Callers \ {p} : caller[q].pc \in Uploading => caller[q].item # s.item
      BY <1>4, <2>2 DEF UploadSend, At, ItemsFit, UploadIsNew
    <2>4. \A a \in s.seen \union s.held : attachment[a].status # "none"
      BY <2>2 DEF FoundExist
    <2>5. UNCHANGED <<artifactVars, attachmentVars, clock>> /\ Content[s.item] \in bucket'
      BY <1>4, <2>1, <2>2 DEF UploadSend
    <2> QED
      BY <2>1, <2>2, <2>3, <2>4, <2>5, CallerMoves
  <1> QED
    BY <1>1, <1>2, <1>3, <1>4

\* ListRead and TurnRead: a caller begins with the rows it found.
LEMMA ReadsIInv ==
  ASSUME IInv, NEW p \in Callers, ListRead(p) \/ TurnRead(p)
  PROVE  IInv'
  <1>1. PICK s \in CallerType :
            /\ caller' = [caller EXCEPT ![p] = s] /\ s.pc \in {"expiring", "consuming"}
            /\ s.seen \subseteq Staged /\ s.held = {}
    <2> DEFINE l == [Idle EXCEPT !.pc = "expiring", !.seen = Staged \intersect LapsedBy(clock)]
               t == [Idle EXCEPT !.pc = "consuming", !.seen = Staged, !.at = clock]
    <2>1. Staged \subseteq Attachments /\ clock \in Nat
      BY DEF Staged, IInv, TypeInv
    <2>2. l \in CallerType /\ l.pc = "expiring" /\ l.seen \subseteq Staged /\ l.held = {}
      BY <2>1 DEF Idle, CallerType
    <2>3. t \in CallerType /\ t.pc = "consuming" /\ t.seen = Staged /\ t.held = {}
      BY <2>1 DEF Idle, CallerType
    <2> QED
      BY <2>2, <2>3 DEF ListRead, TurnRead
  <1>2. UNCHANGED <<artifactVars, attachmentVars, clock, bucket>>
    BY DEF ListRead, TurnRead
  <1>3. \A a \in s.seen \union s.held : attachment[a].status # "none"
    BY <1>1 DEF Staged
  <1> QED
    BY <1>1, <1>2, <1>3, CallerMoves

\* The caller returns, and the rows it found or held are written.
LEMMA WritesIInv ==
  ASSUME IInv, NEW p \in Callers, UploadCommit(p) \/ ListWrite(p) \/ TurnCommit(p)
  PROVE  /\ IInv'
         /\ \A a \in Attachments : attachment[a].status \in {"consumed", "deleted"} =>
               /\ attachment'[a].status \in {attachment[a].status, "expired"}
               /\ attachment'[a].turn = attachment[a].turn
  <1> USE DEF IInv
  <1>0. attachment \in [Attachments -> AttachmentType] /\ caller[p] \in CallerType /\ turns \in Nat
    BY DEF TypeInv
  <1>a. /\ Return(p) /\ UNCHANGED <<artifactVars, bucket, clock>>
        /\ turns' \in Nat
    BY <1>0 DEF UploadCommit, ListWrite, TurnCommit
  <1>b. /\ \A a \in caller[p].seen \union caller[p].held :
               a \in Attachments /\ attachment[a].status # "none"
    BY <1>0 DEF FoundExist, CallerType
  <1>1. /\ attachment' \in [Attachments -> AttachmentType]
        /\ \A a \in Attachments :
              /\ attachment[a].status # "none" => attachment'[a].status # "none"
              /\ attachment'[a].status # "none" =>
                    attachment[a].status # "none" \/ (caller[p].pc = "inserting" /\ a = caller[p].item)
              /\ attachment[a].status \in {"consumed", "deleted"} =>
                    /\ attachment'[a].status \in {attachment[a].status, "expired"}
                    /\ attachment'[a].turn = attachment[a].turn
    <2>1. CASE UploadCommit(p)
      <3> DEFINE i == caller[p].item
                 rows == Expired(attachment, caller[p].held \intersect LapsedBy(caller[p].at))
                 row == [status |-> "staged", expires |-> caller[p].at + Ttl, turn |-> 0]
      <3>1. i \in Attachments /\ attachment[i].status = "none" /\ caller[p].pc = "inserting"
        BY <2>1 DEF UploadCommit, At, ItemsFit, UploadIsNew
      <3>2. row \in AttachmentType
        BY <1>0, LimitsAssumption DEF AttachmentType, CallerType
      <3>3. caller[p].held \intersect LapsedBy(caller[p].at) \in SUBSET Attachments
        BY <1>b
      <3>4. /\ rows \in [Attachments -> AttachmentType]
            /\ \A a \in Attachments :
                  /\ rows[a].turn = attachment[a].turn
                  /\ rows[a].status = IF a \in caller[p].held \intersect LapsedBy(caller[p].at)
                                      THEN "expired" ELSE attachment[a].status
        BY <1>0, <3>3, ExpiredRows
      <3>5. attachment' = [rows EXCEPT ![i] = row]
        BY <2>1 DEF UploadCommit
      <3>6. row.status = "staged"
        OBVIOUS
      <3> HIDE DEF rows, row
      <3>7. \A a \in Attachments : attachment'[a] = IF a = i THEN row ELSE rows[a]
        BY <3>4, <3>5
      <3>8. attachment' \in [Attachments -> AttachmentType]
        BY <3>2, <3>4, <3>5
      <3>9. ASSUME NEW a \in Attachments
            PROVE  /\ attachment[a].status # "none" => attachment'[a].status # "none"
                   /\ attachment'[a].status # "none" =>
                        attachment[a].status # "none" \/ (caller[p].pc = "inserting" /\ a = caller[p].item)
                   /\ attachment[a].status \in {"consumed", "deleted"} =>
                        /\ attachment'[a].status \in {attachment[a].status, "expired"}
                        /\ attachment'[a].turn = attachment[a].turn
        <4>1. CASE a = i
          BY <4>1, <3>1, <3>7
        <4>2. CASE a # i
          BY <4>2, <3>4, <3>7, <1>b
        <4> QED
          BY <4>1, <4>2
      <3> QED
        BY <3>8, <3>9
    <2>2. CASE ListWrite(p)
      <3>1. /\ attachment' = Expired(attachment, caller[p].seen)
            /\ caller[p].seen \in SUBSET Attachments
        BY <1>b, <2>2 DEF ListWrite
      <3>2. /\ attachment' \in [Attachments -> AttachmentType]
            /\ \A a \in Attachments :
                  /\ attachment'[a].turn = attachment[a].turn
                  /\ attachment'[a].status = IF a \in caller[p].seen THEN "expired" ELSE attachment[a].status
        BY <1>0, <3>1, ExpiredRows
      <3> QED
        BY <3>2, <1>b
    <2>3. CASE TurnCommit(p)
      <3> DEFINE lapsed == StillStaged(p) \intersect LapsedBy(caller[p].at)
                 taken == StillStaged(p) \ LapsedBy(caller[p].at)
      <3>1. attachment' = Consumed(Expired(attachment, lapsed), taken)
        BY <2>3 DEF TurnCommit
      <3>2. /\ lapsed \in SUBSET Attachments /\ taken \in SUBSET Attachments
            /\ \A a \in lapsed \union taken : attachment[a].status = "staged"
        BY DEF StillStaged, Staged
      <3> HIDE DEF lapsed, taken
      <3>3. /\ Expired(attachment, lapsed) \in [Attachments -> AttachmentType]
            /\ \A a \in Attachments :
                  /\ Expired(attachment, lapsed)[a].turn = attachment[a].turn
                  /\ Expired(attachment, lapsed)[a].status =
                        IF a \in lapsed THEN "expired" ELSE attachment[a].status
        BY <1>0, <3>2, ExpiredRows
      <3>4. /\ attachment' \in [Attachments -> AttachmentType]
            /\ \A a \in Attachments :
                  /\ attachment'[a].turn = IF a \in taken THEN turns + 1
                                           ELSE Expired(attachment, lapsed)[a].turn
                  /\ attachment'[a].status = IF a \in taken THEN "consumed"
                                             ELSE Expired(attachment, lapsed)[a].status
        BY <1>0, <3>1, <3>2, <3>3, ConsumedRows
      <3> QED
        BY <3>2, <3>3, <3>4
    <2> QED
      BY <2>1, <2>2, <2>3
  <1>2. TypeInv'
    BY <1>a, <1>1, IdleType DEF TypeInv, Return, artifactVars
  <1>3. ItemsFit' /\ UploadIsNew' /\ SentFirst' /\ FoundExist'
    BY <1>a, <1>1, <1>2, CallerReturns
  <1>4. AvailableIsStored'
    BY <1>a, <1>1 DEF AvailableIsStored, SentFirst, artifactVars
  <1> QED
    BY <1>1, <1>2, <1>3, <1>4

LEMMA OthersIInv ==
  ASSUME IInv, Tick \/ \E p \in Callers : Abandon(p) \/ \E a \in Attachments : Delete(p, a)
  PROVE  /\ IInv'
         /\ \A a \in Attachments : attachment[a].status \in {"consumed", "deleted"} =>
               attachment'[a] = attachment[a]
  <1> USE DEF IInv
  <1>1. CASE Tick
    BY <1>1 DEF Tick, TypeInv, ItemsFit, UploadIsNew, SentFirst, FoundExist, AvailableIsStored,
                artifactVars, attachmentVars
  <1>2. ASSUME NEW p \in Callers, Abandon(p)
        PROVE  IInv' /\ attachment' = attachment
    <2>1. /\ caller' = [caller EXCEPT ![p] = Idle] /\ bucket \subseteq bucket'
          /\ UNCHANGED <<artifactVars, attachmentVars, clock>>
      BY <1>2 DEF Abandon, Return
    <2>2. Idle.pc = "idle" /\ Idle.seen = {} /\ Idle.held = {}
      BY DEF Idle
    <2> QED
      BY <2>1, <2>2, IdleType, CallerMoves DEF attachmentVars
  <1>3. ASSUME NEW p \in Callers, NEW a \in Attachments, Delete(p, a)
        PROVE  /\ IInv'
               /\ \A b \in Attachments : attachment[b].status \in {"consumed", "deleted"} =>
                     attachment'[b] = attachment[b]
    <2> DEFINE row == [attachment[a] EXCEPT !.status = "deleted"]
    <2>1. row \in AttachmentType /\ row.status = "deleted" /\ attachment[a].status = "staged"
      BY <1>3 DEF Delete, TypeInv, AttachmentType
    <2>2. attachment' = [attachment EXCEPT ![a] = row]
      BY <1>3 DEF Delete
    <2>3. UNCHANGED <<artifactVars, turns, bucket, caller, clock>>
      BY <1>3 DEF Delete
    <2> HIDE DEF row
    <2>4. \A b \in Attachments : attachment'[b] = IF b = a THEN row ELSE attachment[b]
      BY <2>2 DEF TypeInv
    <2>5. TypeInv'
      BY <2>1, <2>2, <2>3 DEF TypeInv, artifactVars
    <2>6. ItemsFit' /\ SentFirst' /\ AvailableIsStored'
      BY <2>1, <2>3, <2>4 DEF ItemsFit, SentFirst, AvailableIsStored, artifactVars
    <2>7. UploadIsNew' /\ FoundExist'
      BY <2>1, <2>3, <2>4 DEF UploadIsNew, FoundExist, ItemsFit, TypeInv, CallerType
    <2> QED
      BY <2>1, <2>4, <2>5, <2>6, <2>7
  <1> QED
    BY <1>1, <1>2, <1>3 DEF Tick, attachmentVars

-----------------------------------------------------------------------------
\* What a step does to the rows that a turn has taken or a request has deleted.
FatesKept ==
    \A a \in Attachments : attachment[a].status \in {"consumed", "deleted"} =>
        /\ attachment'[a].status \in {attachment[a].status, "expired"}
        /\ attachment'[a].turn = attachment[a].turn

LEMMA NextIInv == IInv /\ [Next]_vars => IInv' /\ FatesKept
  <1> SUFFICES ASSUME IInv, [Next]_vars PROVE IInv' /\ FatesKept
    OBVIOUS
  <1>1. CASE UNCHANGED vars
    BY <1>1 DEF vars, IInv, TypeInv, ItemsFit, UploadIsNew, SentFirst, FoundExist,
                AvailableIsStored, FatesKept
  <1>2. CASE Tick \/ \E p \in Callers : Abandon(p) \/ \E a \in Attachments : Delete(p, a)
    BY <1>2, OthersIInv DEF FatesKept
  <1>3. ASSUME NEW p \in Callers, NEW k \in Artifacts, Reserve(p, k) PROVE IInv' /\ FatesKept
    BY <1>3, ReserveIInv DEF FatesKept, Reserve, attachmentVars
  <1>4. ASSUME NEW p \in Callers, StoreArtifact(p) \/ FinalizeRaises(p)
        PROVE  IInv' /\ FatesKept
    BY <1>4, StoreArtifactIInv, FinalizeRaisesIInv
    DEF FatesKept, StoreArtifact, FinalizeRaises, attachmentVars
  <1>5. ASSUME NEW p \in Callers, Finalize(p) \/ Fail(p) \/ WaitEnds(p)
        PROVE  IInv' /\ FatesKept
    BY <1>5, ArtifactReturns DEF FatesKept, Finalize, Fail, WaitEnds, attachmentVars
  <1>6. ASSUME NEW p \in Callers,
               (\E a \in Attachments : UploadRead(p, a)) \/ UploadLock(p) \/ UploadSend(p)
        PROVE  IInv' /\ FatesKept
    BY <1>6, UploadStepsIInv DEF FatesKept, UploadRead, UploadLock, UploadSend, attachmentVars
  <1>7. ASSUME NEW p \in Callers, ListRead(p) \/ TurnRead(p)
        PROVE  IInv' /\ FatesKept
    BY <1>7, ReadsIInv DEF FatesKept, ListRead, TurnRead, attachmentVars
  <1>8. ASSUME NEW p \in Callers, UploadCommit(p) \/ ListWrite(p) \/ TurnCommit(p)
        PROVE  IInv' /\ FatesKept
    BY <1>8, WritesIInv DEF FatesKept
  <1> QED
    BY <1>1, <1>2, <1>3, <1>4, <1>5, <1>6, <1>7, <1>8 DEF Next, Proceed

\* Every row that says there are bytes has them, and what a caller was told is
\* stored stays stored, for any number of callers and whatever fails between the
\* object and its row (store_runtime_artifact, upload).
THEOREM RowsHaveBytes == Spec => []AvailableIsStored
  <1>1. IInv => AvailableIsStored
    BY DEF IInv
  <1> QED
    BY <1>1, InitIInv, NextIInv, PTL DEF Spec

\* An attachment that a turn has taken or a request has deleted is never taken
\* again, whatever requests found it staged before (upload, list, delete,
\* create_turn).
THEOREM FateIsOne == Spec => OneFate
  <1>1. Spec => [][FatesKept]_vars
    BY InitIInv, NextIInv, PTL DEF Spec
  <1> QED
    BY <1>1, PTL DEF OneFate, FatesKept

-----------------------------------------------------------------------------
(* StagedBounded.  Take the latest reader among the uploads whose rows are  *)
(* staged: what it found and kept is below the limit, and every row beyond  *)
(* that was inserted after its read by an upload that had read before it,   *)
(* which is one row for each caller at most.                                *)

\* The uploads under way.
Active == {p \in Callers : caller[p].pc \in Uploading}

\* The staged rows that the statement of a caller has not found.
Unseen(p) == Staged \ (caller[p].seen \union caller[p].held)

\* An upload holds no lock until it has all of them, and what it counted then
\* was below the limit.
LockedRoom == \A p \in Callers :
    /\ caller[p].pc = "locking" => caller[p].held = {}
    /\ caller[p].pc \in {"sending", "inserting"} =>
          /\ caller[p].seen = {} /\ IsFiniteSet(caller[p].held)
          /\ Cardinality(caller[p].held \ LapsedBy(caller[p].at)) < MaxStaged

\* before[p]: the uploads under way that read before p did.
ReadOrder(before) ==
    /\ \A p \in Active : before[p] \subseteq Active \ {p}
    /\ \A p, q \in Active : p = q \/ p \in before[q] \/ q \in before[p]
    /\ \A p, q \in Active : q \in before[p] => before[q] \subseteq before[p]

\* base: what the latest reader found and kept; old: the uploads under way that
\* read before it.  Nobody who read later has inserted anything.
Excess(before, base, old) ==
    /\ IsFiniteSet(base)
    /\ Staged # {} => Cardinality(base) < MaxStaged
    /\ old \subseteq Active
    /\ Cardinality(Staged \ base) + Cardinality(old) <= Cardinality(Callers)
    /\ \A p \in Active \ old :
          /\ old \subseteq before[p]
          /\ Cardinality(Unseen(p)) + Cardinality(before[p]) < Cardinality(Callers)

OneRowEach ==
    \E before \in [Callers -> SUBSET Callers], base \in SUBSET Attachments, old \in SUBSET Callers :
        ReadOrder(before) /\ Excess(before, base, old)

SInv == IInv /\ IsFiniteSet(Staged) /\ LockedRoom /\ OneRowEach

LEMMA SubsetCardinality ==
  ASSUME NEW S, NEW T, IsFiniteSet(S), T \subseteq S
  PROVE  IsFiniteSet(T) /\ Cardinality(T) \in Nat /\ Cardinality(S) \in Nat
            /\ Cardinality(T) <= Cardinality(S)
  BY FS_Subset, FS_CardinalityType

LEMMA InitSInv ==
  ASSUME Init, IsFiniteSet(Callers)
  PROVE  SInv
  <1>1. IInv /\ Staged = {} /\ Active = {} /\ LockedRoom
    BY InitIInv DEF Init, NoAttachment, Staged, Idle, Active, LockedRoom
  <1>2. IsFiniteSet({}) /\ Cardinality({}) = 0 /\ Cardinality(Callers) \in Nat
    BY FS_EmptySet, FS_CardinalityType
  <1> DEFINE before == [p \in Callers |-> {}]
  <1>3. ReadOrder(before)
    BY <1>1 DEF ReadOrder
  <1>4. Excess(before, {}, {})
    BY <1>1, <1>2 DEF Excess
  <1>5. before \in [Callers -> SUBSET Callers]
    OBVIOUS
  <1> HIDE DEF before
  <1>6. OneRowEach
    BY <1>3, <1>4, <1>5 DEF OneRowEach
  <1> QED
    BY <1>1, <1>2, <1>6 DEF SInv

LEMMA SInvBounds ==
  ASSUME SInv, IsFiniteSet(Callers), Callers # {}
  PROVE  StagedBounded
  <1>1. PICK before \in [Callers -> SUBSET Callers], base \in SUBSET Attachments,
             old \in SUBSET Callers : Excess(before, base, old)
    BY DEF SInv, OneRowEach
  <1>2. Cardinality(Callers) \in Nat \ {0} /\ MaxStaged \in Nat
    BY FS_EmptySet, FS_CardinalityType, LimitsAssumption
  <1>3. CASE Staged = {}
    BY <1>2, <1>3, FS_EmptySet DEF StagedBounded
  <1>4. CASE Staged # {}
    <2>1. IsFiniteSet(Staged) /\ IsFiniteSet(base) /\ IsFiniteSet(old)
      BY <1>1, SubsetCardinality DEF SInv, Excess
    <2>2. /\ IsFiniteSet(Staged \ base) /\ Cardinality(Staged \ base) \in Nat
          /\ Cardinality(old) \in Nat /\ Cardinality(base) \in Nat
      BY <2>1, SubsetCardinality, FS_CardinalityType
    <2>3. /\ IsFiniteSet((Staged \ base) \union base)
          /\ Cardinality((Staged \ base) \union base) <= Cardinality(Staged \ base) + Cardinality(base)
      <3>1. (Staged \ base) \intersect base = {}
        OBVIOUS
      <3>2. /\ IsFiniteSet((Staged \ base) \union base)
            /\ Cardinality((Staged \ base) \union base) =
                  Cardinality(Staged \ base) + Cardinality(base)
                     - Cardinality((Staged \ base) \intersect base)
        BY <2>1, <2>2, FS_Union
      <3>3. Cardinality((Staged \ base) \intersect base) = 0
        BY <3>1, FS_EmptySet, Zenon
      <3> QED
        BY <2>2, <3>2, <3>3
    <2>4. Cardinality(Staged) \in Nat
             /\ Cardinality(Staged) <= Cardinality((Staged \ base) \union base)
      BY <2>3, SubsetCardinality
    <2>5. Cardinality((Staged \ base) \union base) \in Nat
      BY <2>3, FS_CardinalityType
    <2>6. Cardinality(base) < MaxStaged
             /\ Cardinality(Staged \ base) + Cardinality(old) <= Cardinality(Callers)
      BY <1>1, <1>4 DEF Excess
    <2> QED
      BY <1>2, <2>2, <2>3, <2>4, <2>5, <2>6 DEF StagedBounded
  <1> QED
    BY <1>3, <1>4

-----------------------------------------------------------------------------
\* No upload begins and no row is staged: uploads go on or end, rows leave.
LEMMA NothingStaged ==
  ASSUME SInv, IsFiniteSet(Callers), Active' \subseteq Active, Staged' \subseteq Staged,
         \A p \in Active' : Unseen(p)' \subseteq Unseen(p)
  PROVE  IsFiniteSet(Staged') /\ OneRowEach'
  <1>1. PICK before \in [Callers -> SUBSET Callers], base \in SUBSET Attachments,
             old \in SUBSET Callers : ReadOrder(before) /\ Excess(before, base, old)
    BY DEF SInv, OneRowEach
  <1>2. PICK after : after = [p \in Callers |-> before[p] \intersect Active']
    OBVIOUS
  <1>3. PICK older : older = old \intersect Active'
    OBVIOUS
  <1>4. after \in [Callers -> SUBSET Callers] /\ older \in SUBSET Callers
    BY <1>1, <1>2, <1>3
  <1>5. Active' \subseteq Callers /\ \A p \in Active' : after[p] = before[p] \intersect Active'
    BY <1>2 DEF Active
  <1>6. ReadOrder(after)'
    BY <1>1, <1>5 DEF ReadOrder
  <1>7. IsFiniteSet(Staged) /\ IsFiniteSet(Staged')
    BY SubsetCardinality DEF SInv
  <1>8. IsFiniteSet(base) /\ (Staged' # {} => Cardinality(base) < MaxStaged) /\ older \subseteq Active'
    BY <1>1, <1>3 DEF Excess
  <1>c. Cardinality(Callers) \in Nat
    BY FS_CardinalityType
  <1>9. Cardinality(Staged' \ base) + Cardinality(older) <= Cardinality(Callers)
    <2>1. /\ Cardinality(Staged \ base) \in Nat /\ Cardinality(Staged' \ base) \in Nat
          /\ Cardinality(Staged' \ base) <= Cardinality(Staged \ base)
      <3>1. IsFiniteSet(Staged \ base) /\ Staged' \ base \subseteq Staged \ base
        BY <1>7, SubsetCardinality
      <3> QED
        BY <3>1, SubsetCardinality
    <2>2. /\ Cardinality(old) \in Nat /\ Cardinality(older) \in Nat
          /\ Cardinality(older) <= Cardinality(old)
      <3>1. IsFiniteSet(old) /\ older \subseteq old
        BY <1>3, SubsetCardinality
      <3> QED
        BY <3>1, SubsetCardinality
    <2>3. Cardinality(Staged \ base) + Cardinality(old) <= Cardinality(Callers)
      BY <1>1 DEF Excess
    <2> QED
      BY <1>c, <2>1, <2>2, <2>3
  <1>10. ASSUME NEW p \in Active' \ older
         PROVE  /\ older \subseteq after[p]
                /\ Cardinality(Unseen(p)') + Cardinality(after[p]) < Cardinality(Callers)
    <2>1. p \in Active \ old /\ p \in Callers
      BY <1>3, <1>5, <1>10
    <2>2. old \subseteq before[p]
             /\ Cardinality(Unseen(p)) + Cardinality(before[p]) < Cardinality(Callers)
      BY <1>1, <2>1 DEF Excess
    <2>3. /\ Cardinality(Unseen(p)) \in Nat /\ Cardinality(Unseen(p)') \in Nat
          /\ Cardinality(Unseen(p)') <= Cardinality(Unseen(p))
      <3>1. IsFiniteSet(Unseen(p)) /\ Unseen(p)' \subseteq Unseen(p)
        BY <1>7, <1>10, SubsetCardinality DEF Unseen
      <3> QED
        BY <3>1, SubsetCardinality
    <2>4. /\ Cardinality(before[p]) \in Nat /\ Cardinality(after[p]) \in Nat
          /\ Cardinality(after[p]) <= Cardinality(before[p])
      <3>1. IsFiniteSet(before[p]) /\ after[p] \subseteq before[p]
        BY <1>1, <1>5, <1>10, <2>1, SubsetCardinality
      <3> QED
        BY <3>1, SubsetCardinality
    <2> QED
      BY <1>c, <1>3, <1>5, <1>10, <2>2, <2>3, <2>4
  <1>11. Excess(after, base, older)'
    BY <1>8, <1>9, <1>10 DEF Excess
  <1> QED
    BY <1>1, <1>4, <1>6, <1>7, <1>11 DEF OneRowEach

\* An upload begins: it finds every staged row, after all the others.
LEMMA UploadBegins ==
  ASSUME SInv, IsFiniteSet(Callers), NEW p \in Callers,
         p \notin Active, Active' = Active \union {p}, Staged' = Staged,
         Unseen(p)' = {}, \A q \in Active : Unseen(q)' = Unseen(q)
  PROVE  OneRowEach'
  <1>1. PICK before \in [Callers -> SUBSET Callers], base \in SUBSET Attachments,
             old \in SUBSET Callers : ReadOrder(before) /\ Excess(before, base, old)
    BY DEF SInv, OneRowEach
  <1>2. PICK after : after = [before EXCEPT ![p] = Active]
    OBVIOUS
  <1>3. Active \subseteq Callers \ {p}
    BY DEF Active
  <1>4. /\ after \in [Callers -> SUBSET Callers]
        /\ \A q \in Callers : after[q] = IF q = p THEN Active ELSE before[q]
    BY <1>1, <1>2, <1>3
  <1>5. ReadOrder(after)'
    <2>1. \A q \in Active' : after[q] \subseteq Active' \ {q}
      BY <1>1, <1>3, <1>4 DEF ReadOrder
    <2>2. \A q, r \in Active' : q = r \/ q \in after[r] \/ r \in after[q]
      BY <1>1, <1>3, <1>4 DEF ReadOrder
    <2>3. ASSUME NEW q \in Active', NEW r \in Active', r \in after[q]
          PROVE  after[r] \subseteq after[q]
      <3>1. r \in Active /\ r # p
        BY <1>1, <1>3, <1>4, <2>3 DEF ReadOrder
      <3> QED
        BY <1>1, <1>3, <1>4, <2>3, <3>1 DEF ReadOrder
    <2> QED
      BY <2>1, <2>2, <2>3 DEF ReadOrder
  <1>6. /\ IsFiniteSet(base) /\ (Staged' # {} => Cardinality(base) < MaxStaged)
        /\ old \subseteq Active'
        /\ Cardinality(Staged' \ base) + Cardinality(old) <= Cardinality(Callers)
    BY <1>1 DEF Excess
  <1>7. ASSUME NEW q \in Active' \ old
        PROVE  /\ old \subseteq after[q]
               /\ Cardinality(Unseen(q)') + Cardinality(after[q]) < Cardinality(Callers)
    <2>1. CASE q = p
      <3>1. /\ Cardinality(Active) \in Nat /\ Cardinality(Callers) \in Nat
            /\ Cardinality(Active) <= Cardinality(Callers \ {p})
            /\ Cardinality(Callers \ {p}) = Cardinality(Callers) - 1
        <4>1. IsFiniteSet(Callers \ {p}) /\ Cardinality(Callers \ {p}) = Cardinality(Callers) - 1
          BY FS_RemoveElement
        <4> QED
          BY <1>3, <4>1, SubsetCardinality, FS_CardinalityType
      <3>2. Cardinality(Unseen(q)') = 0
        BY <2>1, FS_EmptySet
      <3>3. after[q] = Active /\ old \subseteq Active
        BY <1>1, <1>4, <2>1 DEF Excess
      <3> QED
        BY <3>1, <3>2, <3>3
    <2>2. CASE q # p
      <3>1. q \in Active \ old /\ after[q] = before[q]
        BY <1>3, <1>4, <1>7, <2>2
      <3> QED
        BY <1>1, <3>1 DEF Excess
    <2> QED
      BY <2>1, <2>2
  <1>8. Excess(after, base, old)'
    BY <1>6, <1>7 DEF Excess
  <1> QED
    BY <1>1, <1>4, <1>5, <1>8 DEF OneRowEach

\* An upload inserts its row: the new rows of the others are one more, and one
\* upload less has read before them.
LEMMA UploadEnds ==
  ASSUME SInv, IsFiniteSet(Callers), NEW p \in Callers, NEW i \in Attachments,
         p \in Active, caller[p].pc = "inserting", Active' = Active \ {p},
         Staged' \subseteq Staged \union {i},
         Staged' \intersect (caller[p].held \intersect LapsedBy(caller[p].at)) = {},
         \A q \in Active' : Unseen(q)' \subseteq Unseen(q) \union {i}
  PROVE  IsFiniteSet(Staged') /\ OneRowEach'
  <1>1. PICK before \in [Callers -> SUBSET Callers], base \in SUBSET Attachments,
             old \in SUBSET Callers : ReadOrder(before) /\ Excess(before, base, old)
    BY DEF SInv, OneRowEach
  <1>2. PICK after : after = [q \in Callers |-> before[q] \ {p}]
    OBVIOUS
  <1>3. after \in [Callers -> SUBSET Callers] /\ \A q \in Callers : after[q] = before[q] \ {p}
    BY <1>1, <1>2
  <1>4. Active \subseteq Callers
    BY DEF Active
  <1>5. ReadOrder(after)'
    BY <1>1, <1>3, <1>4 DEF ReadOrder
  <1>6. IsFiniteSet(Staged \union {i}) /\ IsFiniteSet(Staged') /\ IsFiniteSet(Staged)
    <2>1. IsFiniteSet(Staged) /\ IsFiniteSet(Staged \union {i})
      BY FS_AddElement DEF SInv
    <2> QED
      BY <2>1, SubsetCardinality
  <1>7. /\ caller[p].seen = {} /\ IsFiniteSet(caller[p].held) /\ Cardinality(Callers) \in Nat
        /\ Cardinality(caller[p].held \ LapsedBy(caller[p].at)) < MaxStaged
    BY FS_CardinalityType DEF SInv, LockedRoom
  \* What is inserted beyond a set, counted before and after.
  <1>8. ASSUME NEW S, NEW T, IsFiniteSet(S), T \subseteq S \union {i}
        PROVE  /\ Cardinality(S) \in Nat /\ Cardinality(T) \in Nat
               /\ Cardinality(T) <= Cardinality(S) + 1
    <2>1. /\ IsFiniteSet(S \union {i}) /\ Cardinality(S) \in Nat
          /\ Cardinality(S \union {i}) <= Cardinality(S) + 1
      <3>1. Cardinality(S) \in Nat
        BY <1>8, FS_CardinalityType
      <3>2. /\ IsFiniteSet(S \union {i})
            /\ Cardinality(S \union {i}) = IF i \in S THEN Cardinality(S) ELSE Cardinality(S) + 1
        BY <1>8, FS_AddElement
      <3> QED
        BY <3>1, <3>2
    <2>2. /\ Cardinality(T) \in Nat /\ Cardinality(S \union {i}) \in Nat
          /\ Cardinality(T) <= Cardinality(S \union {i})
      BY <1>8, <2>1, SubsetCardinality
    <2> QED
      BY <2>1, <2>2
  \* Those that read after it.
  <1>9. ASSUME NEW q \in Active', p \in before[q], q \notin old
        PROVE  Cardinality(Unseen(q)') + Cardinality(after[q]) < Cardinality(Callers)
    <2>1. q \in Active \ old /\ q \in Callers
      BY <1>4, <1>9
    <2>2. Cardinality(Unseen(q)) + Cardinality(before[q]) < Cardinality(Callers)
      BY <1>1, <2>1 DEF Excess
    <2>3. /\ Cardinality(Unseen(q)) \in Nat /\ Cardinality(Unseen(q)') \in Nat
          /\ Cardinality(Unseen(q)') <= Cardinality(Unseen(q)) + 1
      <3>1. IsFiniteSet(Unseen(q)) /\ Unseen(q)' \subseteq Unseen(q) \union {i}
        BY <1>6, <1>9, SubsetCardinality DEF Unseen
      <3> QED
        BY <1>8, <3>1
    <2>4. Cardinality(before[q]) \in Nat /\ Cardinality(after[q]) = Cardinality(before[q]) - 1
      <3>1. IsFiniteSet(before[q])
        BY <1>1, <2>1, SubsetCardinality
      <3> QED
        BY <1>3, <1>9, <2>1, <3>1, FS_RemoveElement, FS_CardinalityType
    <2> QED
      BY <1>7, <2>2, <2>3, <2>4
  <1>10. CASE p \in old
    <2>1. PICK older : older = old \ {p}
      OBVIOUS
    <2>2. PICK kept : kept = IF Staged = {} THEN {} ELSE base
      OBVIOUS
    <2>3. /\ older \in SUBSET Callers /\ kept \in SUBSET Attachments
          /\ older \subseteq Active' /\ old \subseteq Active
      BY <1>1, <2>1, <2>2 DEF Excess
    <2>4. IsFiniteSet(kept) /\ Cardinality(kept) < MaxStaged
      <3>1. CASE Staged = {}
        <4>1. /\ IsFiniteSet(caller[p].held \ LapsedBy(caller[p].at))
              /\ Cardinality(caller[p].held \ LapsedBy(caller[p].at)) \in Nat
          BY <1>7, SubsetCardinality
        <4> QED
          BY <1>7, <2>2, <3>1, <4>1, FS_EmptySet, LimitsAssumption
      <3>2. CASE Staged # {}
        BY <1>1, <2>2, <3>2 DEF Excess
      <3> QED
        BY <3>1, <3>2
    <2>5. Cardinality(Staged' \ kept) + Cardinality(older) <= Cardinality(Callers)
      <3>1. /\ Cardinality(Staged \ base) \in Nat /\ Cardinality(Staged' \ kept) \in Nat
            /\ Cardinality(Staged' \ kept) <= Cardinality(Staged \ base) + 1
        <4>1. IsFiniteSet(Staged \ base) /\ Staged' \ kept \subseteq (Staged \ base) \union {i}
          BY <1>6, <2>2, SubsetCardinality
        <4> QED
          BY <1>8, <4>1
      <3>2. Cardinality(old) \in Nat /\ Cardinality(older) = Cardinality(old) - 1
        <4>1. IsFiniteSet(old)
          BY SubsetCardinality
        <4> QED
          BY <1>10, <2>1, <4>1, FS_RemoveElement, FS_CardinalityType
      <3>3. Cardinality(Staged \ base) + Cardinality(old) <= Cardinality(Callers)
        BY <1>1 DEF Excess
      <3> QED
        BY <1>7, <3>1, <3>2, <3>3
    <2>6. ASSUME NEW q \in Active' \ older
          PROVE  /\ older \subseteq after[q]
                 /\ Cardinality(Unseen(q)') + Cardinality(after[q]) < Cardinality(Callers)
      <3>1. q \in Active \ old /\ q \in Callers /\ q \in Active'
        BY <1>4, <2>1, <2>6
      <3>2. old \subseteq before[q] /\ p \in before[q]
        BY <1>1, <1>10, <3>1 DEF Excess
      <3> QED
        BY <1>3, <1>9, <2>1, <3>1, <3>2
    <2>7. Excess(after, kept, older)'
      BY <2>3, <2>4, <2>5, <2>6 DEF Excess
    <2> QED
      BY <1>3, <1>5, <1>6, <2>3, <2>7 DEF OneRowEach
  <1>11. CASE p \notin old
    <2>1. PICK older : older = before[p]
      OBVIOUS
    <2>2. PICK kept : kept = caller[p].held \ LapsedBy(caller[p].at)
      OBVIOUS
    <2>3. caller[p].held \in SUBSET Attachments
      BY DEF SInv, IInv, TypeInv, CallerType
    <2>4. /\ older \in SUBSET Callers /\ kept \in SUBSET Attachments
          /\ older \subseteq Active' /\ p \notin older
      BY <1>1, <2>1, <2>2, <2>3 DEF ReadOrder
    <2>5. IsFiniteSet(kept) /\ Cardinality(kept) < MaxStaged
      BY <1>7, <2>2, SubsetCardinality
    <2>6. old \subseteq older
             /\ Cardinality(Unseen(p)) + Cardinality(older) < Cardinality(Callers)
      BY <1>1, <1>11, <2>1 DEF Excess
    <2>7. Cardinality(Staged' \ kept) + Cardinality(older) <= Cardinality(Callers)
      <3>1. /\ Cardinality(Unseen(p)) \in Nat /\ Cardinality(Staged' \ kept) \in Nat
            /\ Cardinality(Staged' \ kept) <= Cardinality(Unseen(p)) + 1
        <4>1. IsFiniteSet(Unseen(p))
          BY <1>6, SubsetCardinality DEF Unseen
        <4>2. Staged' \ kept \subseteq Unseen(p) \union {i}
          BY <1>7, <2>2 DEF Unseen
        <4> QED
          BY <1>8, <4>1, <4>2
      <3>2. Cardinality(older) \in Nat
        BY <2>4, SubsetCardinality
      <3> QED
        BY <1>7, <2>6, <3>1, <3>2
    <2>8. ASSUME NEW q \in Active' \ older
          PROVE  /\ older \subseteq after[q]
                 /\ Cardinality(Unseen(q)') + Cardinality(after[q]) < Cardinality(Callers)
      <3>1. q \in Active /\ q # p /\ q \in Callers /\ q \in Active' /\ q \notin old
        BY <1>4, <2>6, <2>8
      <3>2. p \in before[q]
        BY <1>1, <2>1, <2>8, <3>1 DEF ReadOrder
      <3>3. before[p] \subseteq before[q]
        BY <1>1, <3>1, <3>2 DEF ReadOrder
      <3> QED
        BY <1>3, <1>9, <2>1, <2>4, <3>1, <3>2, <3>3
    <2>9. Excess(after, kept, older)'
      BY <2>4, <2>5, <2>7, <2>8 DEF Excess
    <2> QED
      BY <1>3, <1>5, <1>6, <2>4, <2>9 DEF OneRowEach
  <1> QED
    BY <1>10, <1>11

-----------------------------------------------------------------------------
(* What the steps do to rows and locks.                                    *)

\* ListWrite, TurnCommit and Delete stage nothing and leave expires_at alone.
LEMMA RowsLeave ==
  ASSUME IInv, NEW p \in Callers,
         ListWrite(p) \/ TurnCommit(p) \/ \E a \in Attachments : Delete(p, a)
  PROVE  /\ Staged' \subseteq Staged
         /\ \A a \in Attachments : attachment'[a].expires = attachment[a].expires
  <1>0. attachment \in [Attachments -> AttachmentType] /\ caller[p] \in CallerType /\ turns \in Nat
    BY DEF IInv, TypeInv
  <1>1. CASE ListWrite(p)
    <2>1. attachment' = Expired(attachment, caller[p].seen) /\ caller[p].seen \in SUBSET Attachments
      BY <1>0, <1>1 DEF ListWrite, CallerType
    <2>2. \A a \in Attachments :
              /\ attachment'[a].expires = attachment[a].expires
              /\ attachment'[a].status = IF a \in caller[p].seen THEN "expired" ELSE attachment[a].status
      BY <1>0, <2>1, ExpiredRows
    <2> QED
      BY <2>2 DEF Staged
  <1>2. CASE TurnCommit(p)
    <2> DEFINE lapsed == StillStaged(p) \intersect LapsedBy(caller[p].at)
               taken == StillStaged(p) \ LapsedBy(caller[p].at)
    <2>1. /\ attachment' = Consumed(Expired(attachment, lapsed), taken)
          /\ lapsed \in SUBSET Attachments /\ taken \in SUBSET Attachments
      BY <1>2 DEF TurnCommit, StillStaged, Staged
    <2> HIDE DEF lapsed, taken
    <2>2. /\ Expired(attachment, lapsed) \in [Attachments -> AttachmentType]
          /\ \A a \in Attachments :
                /\ Expired(attachment, lapsed)[a].expires = attachment[a].expires
                /\ Expired(attachment, lapsed)[a].status =
                      IF a \in lapsed THEN "expired" ELSE attachment[a].status
      BY <1>0, <2>1, ExpiredRows
    <2>3. \A a \in Attachments :
              /\ attachment'[a].expires = Expired(attachment, lapsed)[a].expires
              /\ attachment'[a].status = IF a \in taken THEN "consumed"
                                         ELSE Expired(attachment, lapsed)[a].status
      BY <1>0, <2>1, <2>2, ConsumedRows
    <2> QED
      BY <2>2, <2>3 DEF Staged
  <1>3. ASSUME NEW a \in Attachments, Delete(p, a)
        PROVE  /\ Staged' \subseteq Staged
               /\ \A b \in Attachments : attachment'[b].expires = attachment[b].expires
    <2>1. \A b \in Attachments : /\ attachment'[b].expires = attachment[b].expires
                                 /\ attachment'[b].status \in {attachment[b].status, "deleted"}
      BY <1>0, <1>3 DEF Delete, AttachmentType
    <2> QED
      BY <2>1 DEF Staged
  <1> QED
    BY <1>1, <1>2, <1>3

\* UploadCommit stages its own row, which was none, and expires what it held.
LEMMA RowInserted ==
  ASSUME IInv, NEW p \in Callers, UploadCommit(p)
  PROVE  LET i == caller[p].item
         IN  /\ i \in Attachments /\ attachment[i].status = "none"
             /\ Staged' \subseteq Staged \union {i}
             /\ Staged' \intersect (caller[p].held \intersect LapsedBy(caller[p].at)) = {}
             /\ \A a \in Attachments \ {i} : attachment'[a].expires = attachment[a].expires
  <1> DEFINE i == caller[p].item
             lapsed == caller[p].held \intersect LapsedBy(caller[p].at)
             rows == Expired(attachment, lapsed)
             row == [status |-> "staged", expires |-> caller[p].at + Ttl, turn |-> 0]
  <1>0. attachment \in [Attachments -> AttachmentType] /\ caller[p] \in CallerType
    BY DEF IInv, TypeInv
  <1>1. i \in Attachments /\ attachment[i].status = "none"
    BY DEF UploadCommit, At, IInv, ItemsFit, UploadIsNew
  <1>2. lapsed \in SUBSET Attachments /\ i \notin lapsed
    BY <1>0, <1>1 DEF CallerType, IInv, FoundExist
  <1>3. attachment' = [rows EXCEPT ![i] = row]
    BY DEF UploadCommit
  <1> HIDE DEF lapsed
  <1>4. /\ rows \in [Attachments -> AttachmentType]
        /\ \A a \in Attachments :
              /\ rows[a].expires = attachment[a].expires
              /\ rows[a].status = IF a \in lapsed THEN "expired" ELSE attachment[a].status
    BY <1>0, <1>2, ExpiredRows
  <1> HIDE DEF rows, row
  <1>5. \A a \in Attachments \ {i} :
            /\ attachment'[a].expires = attachment[a].expires
            /\ attachment'[a].status = IF a \in lapsed THEN "expired" ELSE attachment[a].status
    BY <1>1, <1>3, <1>4
  <1>6. Staged' \subseteq Staged \union {i} /\ Staged' \intersect lapsed = {}
    BY <1>2, <1>5 DEF Staged
  <1> QED
    BY <1>1, <1>5, <1>6 DEF lapsed

\* Whoever holds locks after a step had room when it took them, as judged
\* before the step: no row that exists changes its expires_at.
LEMMA RoomKept ==
  ASSUME \A a \in Attachments :
            attachment[a].status # "none" => attachment'[a].expires = attachment[a].expires,
         \A q \in Callers : caller'[q].pc = "locking" => caller'[q].held = {},
         \A q \in Callers : caller'[q].pc \in {"sending", "inserting"} =>
            /\ caller'[q].seen = {} /\ IsFiniteSet(caller'[q].held)
            /\ Cardinality(caller'[q].held \ LapsedBy(caller'[q].at)) < MaxStaged
            /\ \A a \in caller'[q].held : a \in Attachments /\ attachment[a].status # "none"
  PROVE  LockedRoom'
  <1> SUFFICES ASSUME NEW q \in Callers, caller'[q].pc \in {"sending", "inserting"}
               PROVE  /\ caller'[q].seen = {} /\ IsFiniteSet(caller'[q].held)
                      /\ Cardinality(caller'[q].held \ LapsedBy(caller[q].at)') < MaxStaged
    BY DEF LockedRoom
  <1>1. caller'[q].held \ LapsedBy(caller[q].at)' = caller'[q].held \ LapsedBy(caller'[q].at)
    BY DEF LapsedBy
  <1> QED
    BY <1>1

\* A step that begins no upload, moves none and stages nothing.
LEMMA UploadsKept ==
  ASSUME SInv, IInv', IsFiniteSet(Callers), Staged' \subseteq Staged,
         \A a \in Attachments : attachment'[a].expires = attachment[a].expires,
         \A q \in Callers : caller'[q].pc \in Uploading => caller'[q] = caller[q]
  PROVE  SInv'
  <1>1. Active' \subseteq Active
    BY DEF Active
  <1>2. \A q \in Active' : Unseen(q)' \subseteq Unseen(q)
    BY DEF Active, Unseen
  <1>3. IsFiniteSet(Staged') /\ OneRowEach'
    BY <1>1, <1>2, NothingStaged
  <1>4. LockedRoom'
    <2>1. ASSUME NEW q \in Callers, caller'[q].pc \in {"sending", "inserting"}
          PROVE  /\ caller'[q].seen = {} /\ IsFiniteSet(caller'[q].held)
                 /\ Cardinality(caller'[q].held \ LapsedBy(caller'[q].at)) < MaxStaged
                 /\ \A a \in caller'[q].held : a \in Attachments /\ attachment[a].status # "none"
      <3>1. caller'[q] = caller[q]
        BY <2>1
      <3>2. \A a \in caller[q].held : a \in Attachments /\ attachment[a].status # "none"
        BY DEF SInv, IInv, TypeInv, CallerType, FoundExist
      <3> QED
        BY <2>1, <3>1, <3>2 DEF SInv, LockedRoom
    <2>2. \A q \in Callers : caller'[q].pc = "locking" => caller'[q].held = {}
      BY DEF SInv, LockedRoom
    <2> QED
      BY <2>1, <2>2, RoomKept
  <1> QED
    BY <1>3, <1>4 DEF SInv

-----------------------------------------------------------------------------
(* Every step keeps SInv.                                                  *)

\* The caller of a step, with the state it goes to.
LEMMA OnlyOneMoves ==
  ASSUME IInv, NEW p \in Callers, NEW s, caller' = [caller EXCEPT ![p] = s]
  PROVE  \A q \in Callers : caller'[q] = IF q = p THEN s ELSE caller[q]
  BY DEF IInv, TypeInv

\* Steps that leave the rows alone, and either are no upload or end one.
LEMMA EndsSInv ==
  ASSUME SInv, IInv', IsFiniteSet(Callers), NEW p \in Callers,
         attachment' = attachment,
         \/ StoreArtifact(p) \/ Finalize(p) \/ Fail(p) \/ WaitEnds(p) \/ FinalizeRaises(p)
         \/ (\E k \in Artifacts : Reserve(p, k))
         \/ ListRead(p) \/ TurnRead(p) \/ Abandon(p)
         \/ (UploadLock(p) /\ ~ Room(p)) \/ (UploadSend(p) /\ Return(p))
  PROVE  SInv'
  <1>0. IInv /\ caller[p] \in CallerType
    BY DEF SInv, IInv, TypeInv
  <1>1. \E s : caller' = [caller EXCEPT ![p] = s] /\ s.pc \notin Uploading
    <2>1. Idle.pc = "idle"
      BY DEF Idle
    <2>2. ASSUME NEW pc, Goto(p, pc), pc \notin Uploading
          PROVE  \E s : caller' = [caller EXCEPT ![p] = s] /\ s.pc \notin Uploading
      <3>1. [caller[p] EXCEPT !.pc = pc].pc = pc
        BY <1>0 DEF CallerType
      <3> QED
        BY <2>2, <3>1 DEF Goto
    <2>3. CASE Return(p)
      BY <2>1, <2>3 DEF Return
    <2>4. CASE StoreArtifact(p) \/ FinalizeRaises(p)
      BY <2>2, <2>4 DEF StoreArtifact, FinalizeRaises
    <2>5. ASSUME NEW k \in Artifacts, Reserve(p, k)
          PROVE  \E s : caller' = [caller EXCEPT ![p] = s] /\ s.pc \notin Uploading
      <3> DEFINE s == [Idle EXCEPT !.pc = "storing", !.item = k]
                 w == [Idle EXCEPT !.pc = "waiting", !.item = k]
      <3>1. s.pc = "storing" /\ w.pc = "waiting"
        BY DEF Idle
      <3>2. \/ caller' = [caller EXCEPT ![p] = s] \/ caller' = [caller EXCEPT ![p] = w]
            \/ caller' = caller
        BY <2>5 DEF Reserve
      <3>3. caller' = caller => caller' = [caller EXCEPT ![p] = caller[p]]
        BY <1>0 DEF IInv, TypeInv
      <3>4. caller[p].pc \notin Uploading
        BY <2>5 DEF Reserve, At
      <3> HIDE DEF s, w
      <3> QED
        BY <3>1, <3>2, <3>3, <3>4
    <2>6. CASE ListRead(p) \/ TurnRead(p)
      <3> DEFINE l == [Idle EXCEPT !.pc = "expiring", !.seen = Staged \intersect LapsedBy(clock)]
                 t == [Idle EXCEPT !.pc = "consuming", !.seen = Staged, !.at = clock]
      <3>1. l.pc = "expiring" /\ t.pc = "consuming"
        BY DEF Idle
      <3>2. caller' = [caller EXCEPT ![p] = l] \/ caller' = [caller EXCEPT ![p] = t]
        BY <2>6 DEF ListRead, TurnRead
      <3> HIDE DEF l, t
      <3> QED
        BY <3>1, <3>2
    <2> QED
      BY <2>1, <2>3, <2>4, <2>5, <2>6
      DEF Finalize, Fail, WaitEnds, Abandon, UploadLock, Return
  <1>2. PICK s : caller' = [caller EXCEPT ![p] = s] /\ s.pc \notin Uploading
    BY <1>1
  <1>3. \A q \in Callers : caller'[q].pc \in Uploading => caller'[q] = caller[q]
    BY <1>0, <1>2, OnlyOneMoves
  <1> QED
    BY <1>3, UploadsKept DEF Staged

\* Steps that take staged rows away.
LEMMA LeavesSInv ==
  ASSUME SInv, IInv', IsFiniteSet(Callers), NEW p \in Callers,
         ListWrite(p) \/ TurnCommit(p) \/ \E a \in Attachments : Delete(p, a)
  PROVE  SInv'
  <1>1. Idle.pc = "idle" /\ IInv
    BY DEF Idle, SInv
  <1>2. Return(p) \/ caller' = caller
    BY DEF ListWrite, TurnCommit, Delete
  <1>3. \A q \in Callers : caller'[q].pc \in Uploading => caller'[q] = caller[q]
    BY <1>1, <1>2, OnlyOneMoves DEF Return
  <1> QED
    BY <1>1, <1>3, RowsLeave, UploadsKept

LEMMA UploadReadSInv ==
  ASSUME SInv, IInv', IsFiniteSet(Callers), NEW p \in Callers, NEW a \in Attachments,
         UploadRead(p, a)
  PROVE  SInv'
  <1> DEFINE s == [Idle EXCEPT !.pc = "locking", !.item = a, !.seen = Staged, !.at = clock]
  <1>1. s.pc = "locking" /\ s.seen = Staged /\ s.held = {}
    BY DEF Idle
  <1>2. caller' = [caller EXCEPT ![p] = s] /\ caller[p].pc = "idle" /\ attachment' = attachment
    BY DEF UploadRead, At, attachmentVars
  <1> HIDE DEF s
  <1>3. \A q \in Callers : caller'[q] = IF q = p THEN s ELSE caller[q]
    BY <1>2, OnlyOneMoves DEF SInv
  <1>4. /\ p \notin Active /\ Active' = Active \union {p} /\ Staged' = Staged
        /\ Unseen(p)' = {} /\ \A q \in Active : Unseen(q)' = Unseen(q)
    <2>1. Staged' = Staged
      BY <1>2 DEF Staged
    <2> QED
      BY <1>1, <1>2, <1>3, <2>1 DEF Active, Unseen
  <1>5. OneRowEach'
    BY <1>4, UploadBegins
  <1>6. LockedRoom'
    BY <1>1, <1>2, <1>3 DEF SInv, LockedRoom, LapsedBy
  <1> QED
    BY <1>4, <1>5, <1>6 DEF SInv

\* The upload has its locks and room, or has sent its bytes.
LEMMA UploadMovesSInv ==
  ASSUME SInv, IInv', IsFiniteSet(Callers), NEW p \in Callers,
         (UploadLock(p) /\ Room(p)) \/ (UploadSend(p) /\ ~ Return(p))
  PROVE  SInv'
  <1>0. caller[p] \in CallerType /\ IInv
    BY DEF SInv, IInv, TypeInv
  <1>1. PICK s :
           /\ caller' = [caller EXCEPT ![p] = s] /\ attachment' = attachment
           /\ caller[p].pc \in Uploading /\ s.pc \in {"sending", "inserting"}
           /\ s.seen = {} /\ s.at = caller[p].at
           /\ \/ s.held = caller[p].held /\ caller[p].seen = {} /\ caller[p].pc = "sending"
              \/ s.held = StillStaged(p) /\ caller[p].held = {} /\ Room(p)
    <2>1. CASE UploadLock(p) /\ Room(p)
      <3> DEFINE s == [caller[p] EXCEPT !.pc = "sending", !.held = StillStaged(p), !.seen = {}]
      <3>1. s.pc = "sending" /\ s.held = StillStaged(p) /\ s.seen = {} /\ s.at = caller[p].at
        BY <1>0 DEF CallerType
      <3>2. caller' = [caller EXCEPT ![p] = s] /\ attachment' = attachment
               /\ caller[p].pc = "locking"
        BY <2>1 DEF UploadLock, At, attachmentVars
      <3>3. caller[p].held = {}
        BY <3>2 DEF SInv, LockedRoom
      <3> HIDE DEF s
      <3> QED
        BY <2>1, <3>1, <3>2, <3>3
    <2>2. CASE UploadSend(p) /\ ~ Return(p)
      <3> DEFINE s == [caller[p] EXCEPT !.pc = "inserting"]
      <3>1. s.pc = "inserting" /\ s.held = caller[p].held /\ s.seen = caller[p].seen
               /\ s.at = caller[p].at
        BY <1>0 DEF CallerType
      <3>2. caller' = [caller EXCEPT ![p] = s] /\ attachment' = attachment
               /\ caller[p].pc = "sending"
        BY <2>2 DEF UploadSend, Goto, At, attachmentVars
      <3>3. caller[p].seen = {}
        BY <3>2 DEF SInv, LockedRoom
      <3> HIDE DEF s
      <3> QED
        BY <3>1, <3>2, <3>3
    <2> QED
      BY <2>1, <2>2
  <1>2. \A q \in Callers : caller'[q] = IF q = p THEN s ELSE caller[q]
    BY <1>0, <1>1, OnlyOneMoves
  <1>3. Staged' = Staged /\ Active' = Active
    BY <1>1, <1>2 DEF Staged, Active
  <1>4. \A q \in Active' : Unseen(q)' \subseteq Unseen(q)
    <2> SUFFICES ASSUME NEW q \in Callers PROVE Unseen(q)' \subseteq Unseen(q)
      BY DEF Active
    <2>1. CASE q # p
      BY <1>2, <1>3, <2>1 DEF Unseen
    <2>2. CASE q = p /\ s.held = StillStaged(p) /\ caller[p].held = {}
      BY <1>1, <1>2, <1>3, <2>2 DEF Unseen, StillStaged
    <2>3. CASE q = p /\ s.held = caller[p].held /\ caller[p].seen = {}
      BY <1>1, <1>2, <1>3, <2>3 DEF Unseen
    <2> QED
      BY <1>1, <2>1, <2>2, <2>3
  <1>5. IsFiniteSet(Staged') /\ OneRowEach'
    BY <1>3, <1>4, NothingStaged
  \* The locks that p has now.
  <1>6. /\ IsFiniteSet(s.held)
        /\ Cardinality(s.held \ LapsedBy(s.at)) < MaxStaged
        /\ \A a \in s.held : a \in Attachments /\ attachment[a].status # "none"
    <2>1. CASE s.held = StillStaged(p) /\ Room(p)
      <3>1. IsFiniteSet(s.held)
        BY <2>1, SubsetCardinality DEF SInv, StillStaged
      <3> QED
        BY <1>1, <2>1, <3>1 DEF Room, StillStaged, Staged
    <2>2. CASE s.held = caller[p].held /\ caller[p].pc = "sending"
      BY <1>0, <1>1, <2>2 DEF SInv, LockedRoom, IInv, FoundExist, CallerType
    <2> QED
      BY <1>1, <2>1, <2>2
  <1>7. LockedRoom'
    <2>1. ASSUME NEW q \in Callers, caller'[q].pc \in {"sending", "inserting"}
          PROVE  /\ caller'[q].seen = {} /\ IsFiniteSet(caller'[q].held)
                 /\ Cardinality(caller'[q].held \ LapsedBy(caller'[q].at)) < MaxStaged
                 /\ \A a \in caller'[q].held : a \in Attachments /\ attachment[a].status # "none"
      <3>1. CASE q = p
        BY <1>1, <1>2, <1>6, <3>1
      <3>2. CASE q # p
        <4>1. caller'[q] = caller[q]
          BY <1>2, <3>2
        <4>2. \A a \in caller[q].held : a \in Attachments /\ attachment[a].status # "none"
          BY <1>0 DEF IInv, TypeInv, CallerType, FoundExist
        <4> QED
          BY <2>1, <4>1, <4>2 DEF SInv, LockedRoom
      <3> QED
        BY <3>1, <3>2
    <2>2. \A q \in Callers : caller'[q].pc = "locking" => caller'[q].held = {}
      BY <1>1, <1>2 DEF SInv, LockedRoom
    <2>3. \A a \in Attachments :
             attachment[a].status # "none" => attachment'[a].expires = attachment[a].expires
      BY <1>1
    <2> QED
      BY <2>1, <2>2, <2>3, RoomKept
  <1> QED
    BY <1>5, <1>7 DEF SInv

LEMMA UploadCommitSInv ==
  ASSUME SInv, IInv', IsFiniteSet(Callers), NEW p \in Callers, UploadCommit(p)
  PROVE  SInv'
  <1>0. IInv
    BY DEF SInv
  <1>1. PICK i \in Attachments :
           /\ i = caller[p].item /\ attachment[i].status = "none"
           /\ Staged' \subseteq Staged \union {i}
           /\ Staged' \intersect (caller[p].held \intersect LapsedBy(caller[p].at)) = {}
           /\ \A a \in Attachments \ {i} : attachment'[a].expires = attachment[a].expires
    BY <1>0, RowInserted
  <1>2. caller[p].pc = "inserting" /\ Idle.pc = "idle"
           /\ \A q \in Callers : caller'[q] = IF q = p THEN Idle ELSE caller[q]
    BY <1>0, OnlyOneMoves DEF UploadCommit, At, Return, Idle
  <1>3. p \in Active /\ Active' = Active \ {p}
    BY <1>2 DEF Active
  <1>4. \A q \in Active' : Unseen(q)' \subseteq Unseen(q) \union {i}
    BY <1>1, <1>2, <1>3 DEF Unseen, Active
  <1>5. IsFiniteSet(Staged') /\ OneRowEach'
    BY <1>1, <1>2, <1>3, <1>4, UploadEnds
  <1>6. LockedRoom'
    <2>1. ASSUME NEW q \in Callers, caller'[q].pc \in {"sending", "inserting"}
          PROVE  /\ caller'[q].seen = {} /\ IsFiniteSet(caller'[q].held)
                 /\ Cardinality(caller'[q].held \ LapsedBy(caller'[q].at)) < MaxStaged
                 /\ \A a \in caller'[q].held : a \in Attachments /\ attachment[a].status # "none"
      <3>1. caller'[q] = caller[q]
        BY <1>2, <2>1
      <3>2. \A a \in caller[q].held : a \in Attachments /\ attachment[a].status # "none"
        BY <1>0 DEF IInv, TypeInv, CallerType, FoundExist
      <3> QED
        BY <2>1, <3>1, <3>2 DEF SInv, LockedRoom
    <2>2. \A q \in Callers : caller'[q].pc = "locking" => caller'[q].held = {}
      BY <1>2 DEF SInv, LockedRoom
    <2>3. \A a \in Attachments :
             attachment[a].status # "none" => attachment'[a].expires = attachment[a].expires
      BY <1>1
    <2> QED
      BY <2>1, <2>2, <2>3, RoomKept
  <1> QED
    BY <1>5, <1>6 DEF SInv

LEMMA NextSInv ==
  ASSUME SInv, [Next]_vars, IsFiniteSet(Callers)
  PROVE  SInv'
  <1>1. IInv'
    BY NextIInv DEF SInv
  <1>2. CASE UNCHANGED vars \/ Tick
    <2>1. UNCHANGED <<caller, attachment>>
      BY <1>2 DEF vars, Tick, attachmentVars
    <2>2. Staged' = Staged
      BY <2>1 DEF Staged
    <2> QED
      BY <1>1, <2>1, <2>2, UploadsKept
  <1>3. ASSUME NEW p \in Callers,
               \/ StoreArtifact(p) \/ Finalize(p) \/ Fail(p) \/ WaitEnds(p) \/ FinalizeRaises(p)
               \/ (\E k \in Artifacts : Reserve(p, k))
               \/ ListRead(p) \/ TurnRead(p) \/ Abandon(p)
               \/ (UploadLock(p) /\ ~ Room(p)) \/ (UploadSend(p) /\ Return(p))
        PROVE  SInv'
    <2>1. attachment' = attachment
      BY <1>3 DEF StoreArtifact, Finalize, Fail, WaitEnds, FinalizeRaises, Reserve, ListRead,
                  TurnRead, Abandon, UploadLock, UploadSend, attachmentVars
    <2> QED
      BY <1>1, <1>3, <2>1, EndsSInv
  <1>4. ASSUME NEW p \in Callers,
               ListWrite(p) \/ TurnCommit(p) \/ \E a \in Attachments : Delete(p, a)
        PROVE  SInv'
    BY <1>1, <1>4, LeavesSInv
  <1>5. ASSUME NEW p \in Callers, NEW a \in Attachments, UploadRead(p, a) PROVE SInv'
    BY <1>1, <1>5, UploadReadSInv
  <1>6. ASSUME NEW p \in Callers, (UploadLock(p) /\ Room(p)) \/ (UploadSend(p) /\ ~ Return(p))
        PROVE  SInv'
    BY <1>1, <1>6, UploadMovesSInv
  <1>7. ASSUME NEW p \in Callers, UploadCommit(p) PROVE SInv'
    BY <1>1, <1>7, UploadCommitSInv
  <1> QED
    BY <1>2, <1>3, <1>4, <1>5, <1>6, <1>7 DEF Next, Proceed

\* However many uploads run at the same time, the staged attachments of a
\* conversation exceed the limit by less than one for each of them (upload: the
\* limit is checked under locks on the rows found, which cover no new row).
\* There are finitely many requests at a time, and at least one.
THEOREM ExcessIsBounded ==
  ASSUME IsFiniteSet(Callers), Callers # {}
  PROVE  Spec => []StagedBounded
  <1>1. Init => SInv
    BY InitSInv
  <1>2. SInv /\ [Next]_vars => SInv'
    BY NextSInv
  <1>3. SInv => StagedBounded
    BY SInvBounds
  <1> QED
    BY <1>1, <1>2, <1>3, PTL DEF Spec
=============================================================================
