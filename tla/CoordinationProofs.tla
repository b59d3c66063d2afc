-------------------------- MODULE CoordinationProofs --------------------------
(***************************************************************************)
(* What Coordination guarantees for any tree of Runs, any policy and any   *)
(* number of disruptions.                                                  *)
(***************************************************************************)
EXTENDS Coordination, FiniteSetTheorems, SequenceTheorems, TLAPS

\* The checkpoints of a Run from the durable one to the newest of its attempt.
Steps(r) == Len(attempt[r].stream)
At(r, i) == IF i = 0 THEN run[r].cp ELSE attempt[r].stream[i]

\* A checkpoint loses no result that the one before had, and leaves a wait with those of
\* all the children, whose delegations are settled.
IsSettled(c) == link[c].state \in Closed
Follows(cp, next) ==
    /\ cp.consumed \subseteq next.consumed
    /\ cp.state = "waiting" => cp.calls \subseteq next.consumed /\ \A c \in cp.calls : IsSettled(c)

Chain(r) ==
    /\ attempt[r].pc # "none" => attempt[r].cp = At(r, Steps(r))
    /\ attempt[r].base.state = "waiting" => attempt[r].base.calls \subseteq Children(r)
    /\ \A i \in 0..Steps(r) : At(r, i).state = "waiting" => At(r, i).calls \subseteq Children(r)
    /\ \A i \in 1..Steps(r) : Follows(At(r, i - 1), At(r, i))
    /\ attempt[r].accepted \subseteq Children(r)
    /\ \A c \in attempt[r].inbox : c \in Children(r) /\ IsSettled(c)

\* The results of c that its parent may not ask for again are in its checkpoint.
Kept(c) == /\ link[c].message = "acknowledged"
           /\ IsOpen(link[c].parent)
           => c \in run[link[c].parent].cp.consumed

\* A Run that is not there has no link and no children, and no attempt is at work for it
\* or for a closed one.
Row(c) ==
    /\ run[c].status = "absent" <=> c # Root /\ link[c].parent = NoRun
    /\ run[c].status = "absent" => run[c].cp = Start /\ attempt[c] = NoAttempt
    /\ ~ IsOpen(c) => attempt[c].pc = "none"
    /\ link[c].parent = NoRun => link[c] = NoLink
    /\ link[c].parent # c
    /\ link[c].parent # NoRun => /\ run[link[c].parent].status # "absent"
                                 /\ link[c].ancestors = ClosureOf(link[c].parent)
    /\ link[c].message # "none" => IsSettled(c)
    /\ Kept(c)

\* The children that a Run names, in these checkpoints or in the one its attempt started
\* from, are its own, or not there yet.
Names(r, c) == \/ \E i \in 0..Steps(r) : c \in Mentioned(At(r, i))
               \/ c \in Mentioned(attempt[r].base)
Owned(r, c) == /\ c # Root
               /\ link[c].parent \in {NoRun, r}
               /\ \A q \in Runs : Names(q, c) => q = r

\* What is reserved for the active delegations, of which there are finitely many.
Reserved(r) == /\ IsFiniteSet(ActiveChildren(r))
               /\ ledger[r].reserved = Grant * Cardinality(ActiveChildren(r))

CInv == /\ TypeOK
        /\ \A r \in Runs : Chain(r) /\ Row(r) /\ Reserved(r)
        /\ \A r, c \in Runs : Names(r, c) => Owned(r, c)

USE RunAssumption, PolicyAssumption

-----------------------------------------------------------------------------
(* Rows                                                                    *)

LEMMA Types ==
  ASSUME TypeOK
  PROVE  /\ run \in [Runs -> [status : Status, cp : Checkpoint]] /\ link \in [Runs -> Link]
         /\ ledger \in [Runs -> Ledger] /\ attempt \in [Runs -> Attempt]
         /\ \A r \in Runs :
               /\ run[r] \in [status : Status, cp : Checkpoint] /\ run[r].status \in Status
               /\ run[r].cp \in Checkpoint /\ link[r] \in Link /\ ledger[r] \in Ledger
               /\ attempt[r] \in Attempt /\ attempt[r].cp \in Checkpoint /\ attempt[r].base \in Checkpoint
               /\ link[r].parent \in Runs \union {NoRun} /\ link[r].ancestors \subseteq Runs
               /\ link[r].state \in {"none", Active} \union Closed
               /\ ledger[r].limit \in Nat /\ ledger[r].direct \in Nat
               /\ ledger[r].consumed \in Nat /\ ledger[r].reserved \in Nat
               /\ attempt[r].stream \in Seq(Checkpoint)
               /\ attempt[r].inbox \subseteq Runs /\ attempt[r].accepted \subseteq Runs
               /\ attempt[r].pc \in {"none", "executing", "returned", "aborting"}
  <1>1. /\ run \in [Runs -> [status : Status, cp : Checkpoint]] /\ link \in [Runs -> Link]
        /\ ledger \in [Runs -> Ledger] /\ attempt \in [Runs -> Attempt]
    BY DEF TypeOK
  <1>2. \A row \in Link : /\ row.parent \in Runs \union {NoRun} /\ row.ancestors \subseteq Runs
                          /\ row.state \in {"none", Active} \union Closed
    BY DEF Link
  <1>3. \A row \in Ledger : row.limit \in Nat /\ row.direct \in Nat /\ row.consumed \in Nat /\ row.reserved \in Nat
    BY DEF Ledger
  <1>4. \A row \in Attempt : /\ row.cp \in Checkpoint /\ row.base \in Checkpoint /\ row.stream \in Seq(Checkpoint)
                             /\ row.inbox \subseteq Runs /\ row.accepted \subseteq Runs
                             /\ row.pc \in {"none", "executing", "returned", "aborting"}
    BY DEF Attempt
  <1> QED
    BY <1>1, <1>2, <1>3, <1>4

LEMMA Checkpoints ==
  ASSUME NEW cp \in Checkpoint
  PROVE  cp.state \in LoopState /\ cp.calls \subseteq Runs /\ cp.consumed \subseteq Runs
  BY DEF Checkpoint

\* The checkpoints of a Run, by their place.
LEMMA Places ==
  ASSUME TypeOK, NEW r \in Runs
  PROVE  /\ Steps(r) \in Nat /\ DOMAIN attempt[r].stream = 1..Steps(r)
         /\ \A i \in 0..Steps(r) : /\ At(r, i) \in Checkpoint
                                   /\ At(r, i).calls \subseteq Runs /\ At(r, i).consumed \subseteq Runs
  <1>1. attempt[r].stream \in Seq(Checkpoint) /\ run[r].cp \in Checkpoint
    BY Types
  <1>2. Steps(r) \in Nat /\ DOMAIN attempt[r].stream = 1..Steps(r)
    BY <1>1, LenProperties DEF Steps
  <1>3. \A i \in 1..Steps(r) : attempt[r].stream[i] \in Checkpoint
    BY <1>1, <1>2, ElementOfSeq DEF Steps
  <1>4. \A i \in 0..Steps(r) : At(r, i) \in Checkpoint
    BY <1>1, <1>2, <1>3 DEF At
  <1> QED
    BY <1>2, <1>4, Checkpoints

LEMMA NoAttemptType ==
  /\ NoAttempt \in Attempt /\ NoAttempt.pc = "none" /\ NoAttempt.stream = <<>>
  /\ NoAttempt.accepted = {} /\ NoAttempt.inbox = {} /\ Len(NoAttempt.stream) = 0
  /\ NoAttempt.base = Start /\ Start \in Checkpoint /\ Start.state # "waiting" /\ Mentioned(Start) = {}
  <1>1. /\ Start \in Checkpoint /\ <<>> \in Seq(Checkpoint) /\ Len(<<>>) = 0
        /\ Start.state # "waiting" /\ Mentioned(Start) = {}
    BY EmptySeq DEF Start, Checkpoint, LoopState, Mentioned
  <1> QED
    BY <1>1 DEF NoAttempt, Attempt

\* Links are never cut, and what is settled stays settled.
LinksStay == \A c \in Runs : /\ link[c].parent # NoRun => link'[c].parent = link[c].parent
                             /\ IsSettled(c) => IsSettled(c)'

LEMMA FollowsStays ==
  ASSUME LinksStay, NEW cp \in Checkpoint, NEW next, Follows(cp, next)
  PROVE  Follows(cp, next)'
  BY Checkpoints DEF LinksStay, Follows

LEMMA ChildrenStay ==
  ASSUME LinksStay, NEW r \in Runs PROVE Children(r) \subseteq Children(r)'
  BY DEF LinksStay, Children

LEMMA ChainStays ==
  ASSUME TypeOK, LinksStay, NEW r \in Runs, Chain(r), run'[r].cp = run[r].cp, attempt'[r] = attempt[r]
  PROVE  Chain(r)'
  <1>1. /\ Steps(r)' = Steps(r) /\ Steps(r) \in Nat
        /\ \A i \in 0..Steps(r) : At(r, i)' = At(r, i) /\ At(r, i) \in Checkpoint
    BY Places DEF Steps, At
  <1>2. Children(r) \subseteq Children(r)' /\ attempt[r].inbox \subseteq Runs
    BY ChildrenStay, Types
  <1>3. ASSUME NEW i \in 1..Steps(r)' PROVE Follows(At(r, i - 1), At(r, i))'
    <2>1. Follows(At(r, i - 1), At(r, i)) /\ i \in 0..Steps(r) /\ i - 1 \in 0..Steps(r)
      BY <1>1, <1>3 DEF Chain
    <2> QED
      BY <1>1, <2>1, FollowsStays DEF Follows, IsSettled
  <1> QED
    BY <1>1, <1>2, <1>3 DEF Chain, LinksStay

LEMMA ChainEnds ==
  ASSUME TypeOK, LinksStay, NEW r \in Runs, Chain(r), run'[r].cp = run[r].cp, attempt'[r] = NoAttempt
  PROVE  Chain(r)'
  <1>1. Steps(r)' = 0 /\ At(r, 0)' = At(r, 0) /\ Steps(r) \in Nat
    BY Places, NoAttemptType DEF Steps, At
  <1>2. Children(r) \subseteq Children(r)'
    BY ChildrenStay
  <1>3. At(r, 0).state = "waiting" => At(r, 0).calls \subseteq Children(r)
    BY <1>1 DEF Chain
  <1> QED
    BY <1>1, <1>2, <1>3, NoAttemptType DEF Chain

LEMMA NamesStay ==
  ASSUME TypeOK, NEW r \in Runs, run'[r].cp = run[r].cp, attempt'[r] = attempt[r] \/ attempt'[r] = NoAttempt
  PROVE  \A c : Names(r, c)' => Names(r, c)
  <1>1. CASE attempt'[r] = attempt[r]
    BY <1>1 DEF Names, Steps, At
  <1>2. CASE attempt'[r] = NoAttempt
    BY <1>2, Places, NoAttemptType DEF Names, Steps, At
  <1> QED
    BY <1>1, <1>2

-----------------------------------------------------------------------------
(* What a step must leave alone                                            *)

\* The tree keeps its shape; links are settled and messages sent for good reasons.
TreeKept == \A c \in Runs :
    /\ link'[c].parent = link[c].parent /\ link'[c].ancestors = link[c].ancestors
    /\ IsSettled(c) => IsSettled(c)'
    /\ link[c].parent = NoRun => link'[c] = link[c]
    /\ link'[c].message # "none" => IsSettled(c)'
    /\ Kept(c)'
    /\ ~ IsOpen(c)' => attempt'[c].pc = "none"
    /\ run'[c].status = "absent" <=> run[c].status = "absent"
    /\ run[c].status = "absent" => run'[c].cp = run[c].cp /\ attempt'[c] = attempt[c]

LEMMA RowKept ==
  ASSUME CInv, TreeKept, NEW c \in Runs PROVE Row(c)'
  <1>1. Row(c) /\ link[c].parent \in Runs \union {NoRun}
    BY Types DEF CInv
  <1>2. link[c].parent # NoRun => link'[c].ancestors = link'[link[c].parent].ancestors \union {link[c].parent}
    BY <1>1 DEF Row, ClosureOf, TreeKept
  <1> QED
    BY <1>1, <1>2 DEF Row, ClosureOf, TreeKept

LEMMA OwnedKept ==
  ASSUME CInv, TreeKept, \A r, c \in Runs : Names(r, c)' => Names(r, c), NEW r \in Runs, NEW c \in Runs
  PROVE  Names(r, c)' => Owned(r, c)'
  <1>1. Names(r, c)' => Owned(r, c)
    BY DEF CInv
  <1> QED
    BY <1>1 DEF Owned, TreeKept

LEMMA TreeStep ==
  ASSUME CInv, TypeOK', TreeKept, \A r \in Runs : Chain(r)' /\ Reserved(r)',
         \A r, c \in Runs : Names(r, c)' => Names(r, c)
  PROVE  CInv'
  BY RowKept, OwnedKept DEF CInv

\* What an attempt does in memory.
LEMMA MemoryStep ==
  ASSUME CInv, UNCHANGED <<run, link, ledger>>, disruptions' \in 0..MaxDisruptions,
         NEW r \in Runs, NEW row \in Attempt, attempt' = [attempt EXCEPT ![r] = row],
         attempt[r].pc # "none", Chain(r)',
         \A c \in Runs : Names(r, c)' => Names(r, c) \/ Fresh(c)
  PROVE  CInv'
  <1>1. attempt' \in [Runs -> Attempt] /\ attempt'[r] = row /\ \A q \in Runs : q # r => attempt'[q] = attempt[q]
    BY Types DEF CInv
  <1>2. TypeOK'
    BY <1>1 DEF CInv, TypeOK
  <1>3. LinksStay
    BY DEF LinksStay, IsSettled
  <1>4. \A q \in Runs : Chain(q)'
    BY <1>1, <1>3, ChainStays DEF CInv
  <1>5. run[r].status # "absent"
    BY NoAttemptType DEF CInv, Row
  <1>6. \A c \in Runs : Row(c)'
    <2>1. \A c \in Runs : Kept(c)' /\ (~ IsOpen(c)' => attempt'[c].pc = "none")
      BY <1>1 DEF CInv, Row, Kept, IsOpen
    <2>2. TreeKept
      BY <1>1, <1>5, <2>1 DEF TreeKept, IsSettled, CInv, Row
    <2> QED
      BY <2>2, RowKept
  <1>7. \A q \in Runs : Reserved(q)'
    BY DEF CInv, Reserved, ActiveChildren, Children
  <1>8. \A q, c \in Runs : q # r => (Names(q, c)' => Names(q, c))
    BY <1>1, NamesStay DEF CInv
  <1>9. ASSUME NEW c \in Runs, Fresh(c) PROVE c # Root /\ link[c].parent = NoRun /\ \A q \in Runs : ~ Names(q, c)
    <2>1. c # Root /\ link[c].parent = NoRun
      BY <1>9 DEF Fresh, CInv, Row
    <2>2. ASSUME NEW q \in Runs, NEW i \in 0..Steps(q) PROVE c \notin Mentioned(At(q, i))
      BY <1>9, Places DEF Fresh, At, CInv
    <2>3. \A q \in Runs : c \notin Mentioned(attempt[q].base)
      BY <1>9 DEF Fresh
    <2> QED
      BY <2>1, <2>2, <2>3 DEF Names
  <1>10. ASSUME NEW q \in Runs, NEW c \in Runs, Names(q, c)' PROVE Owned(q, c)'
    <2>1. CASE Names(q, c)
      <3>1. Owned(q, c) /\ ~ Fresh(c)
        BY <1>9, <2>1 DEF CInv
      <3>2. \A p \in Runs : Names(p, c)' => Names(p, c)
        BY <1>8, <3>1
      <3> QED
        BY <3>1, <3>2 DEF Owned
    <2>2. CASE ~ Names(q, c)
      <3>1. q = r /\ Fresh(c)
        BY <1>8, <1>10, <2>2
      <3> QED
        BY <1>8, <1>9, <3>1 DEF Owned
    <2> QED
      BY <2>1, <2>2
  <1> QED
    BY <1>2, <1>4, <1>6, <1>7, <1>10 DEF CInv

-----------------------------------------------------------------------------
(* The attempt goes on in memory                                           *)

\* No checkpoint is emitted.
LEMMA QuietStep ==
  ASSUME CInv, UNCHANGED <<run, link, ledger>>, disruptions' \in 0..MaxDisruptions,
         NEW r \in Runs, NEW row \in Attempt, attempt' = [attempt EXCEPT ![r] = row],
         attempt[r].pc # "none", row.cp = attempt[r].cp, row.base = attempt[r].base, row.stream = attempt[r].stream,
         row.inbox = attempt[r].inbox, row.accepted \subseteq Children(r)
  PROVE  CInv'
  <1>1. attempt'[r] = row
    BY Types DEF CInv
  <1>2. Steps(r)' = Steps(r) /\ \A i : At(r, i)' = At(r, i)
    BY <1>1 DEF Steps, At
  <1>3. Children(r)' = Children(r) /\ \A c : IsSettled(c)' = IsSettled(c)
    BY DEF Children, IsSettled
  <1>4. Chain(r)'
    <2>1. \A i : Follows(At(r, i - 1), At(r, i))' = Follows(At(r, i - 1), At(r, i))
      BY <1>2, <1>3 DEF Follows
    <2>2. Chain(r)
      BY DEF CInv
    <2> QED
      BY <1>1, <1>2, <1>3, <2>1, <2>2 DEF Chain
  <1>5. \A c \in Runs : Names(r, c)' => Names(r, c)
    BY <1>1, <1>2 DEF Names, Mentioned
  <1> QED
    BY <1>4, <1>5, MemoryStep

LEMMA AttemptEnds ==
  ASSUME CInv, UNCHANGED <<run, link, ledger>>, disruptions' \in 0..MaxDisruptions,
         NEW r \in Runs, EndAttempt(r), attempt[r].pc # "none"
  PROVE  CInv'
  <1>1. NoAttempt \in Attempt /\ attempt' = [attempt EXCEPT ![r] = NoAttempt] /\ attempt'[r] = NoAttempt
    BY NoAttemptType, Types DEF EndAttempt, CInv
  <1>2. LinksStay
    BY DEF LinksStay, IsSettled
  <1>3. Chain(r)' /\ \A c \in Runs : Names(r, c)' => Names(r, c)
    BY <1>1, <1>2, ChainEnds, NamesStay DEF CInv
  <1> QED
    BY <1>1, <1>3, MemoryStep

LEMMA EmitStep ==
  ASSUME CInv, UNCHANGED <<run, link, ledger, disruptions>>, NEW r \in Runs, NEW cp \in Checkpoint,
         NEW pc \in {"executing", "returned"}, NEW outcome \in {"none", "suspended"} \union Closed,
         Emit(r, cp, pc, outcome), attempt[r].pc # "none",
         Follows(attempt[r].cp, cp), cp.state = "waiting" => cp.calls \subseteq Children(r),
         \A c \in Mentioned(cp) : Names(r, c) \/ Fresh(c)
  PROVE  CInv'
  <1>n. Steps(r) \in Nat
    BY Places DEF CInv
  <1> SUFFICES ASSUME NEW n \in Nat, n = Steps(r) PROVE CInv'
    BY <1>n
  <1> DEFINE stream == Append(attempt[r].stream, cp)
             row == [attempt[r] EXCEPT !.cp = cp, !.stream = stream, !.accepted = {}, !.pc = pc,
                                       !.outcome = outcome]
  <1>0. attempt \in [Runs -> Attempt] /\ attempt[r] \in Attempt /\ attempt[r].stream \in Seq(Checkpoint)
        /\ disruptions' \in 0..MaxDisruptions /\ n \in Nat
    BY Types DEF CInv, TypeOK
  <1>1. /\ stream \in Seq(Checkpoint) /\ Len(stream) = n + 1 /\ stream[n + 1] = cp
        /\ \A i \in 1..n : stream[i] = attempt[r].stream[i]
    BY <1>0, AppendProperties DEF Steps
  <1>2. attempt' = [attempt EXCEPT ![r] = row]
    BY <1>0 DEF Emit
  <1> HIDE DEF stream
  <1>3. row \in Attempt /\ row.cp = cp /\ row.stream = stream /\ row.accepted = {}
        /\ row.base = attempt[r].base /\ row.inbox = attempt[r].inbox
    BY <1>0, <1>1 DEF Attempt
  <1> HIDE DEF row
  <1>4. attempt'[r] = row
    BY <1>0, <1>2
  <1>5. /\ Steps(r)' = n + 1 /\ At(r, n + 1)' = cp
        /\ \A i \in 0..n : At(r, i)' = At(r, i)
    BY <1>0, <1>1, <1>3, <1>4 DEF Steps, At
  <1>6. Children(r)' = Children(r) /\ (\A c : IsSettled(c)' = IsSettled(c)) /\ attempt[r].cp = At(r, n) /\ Chain(r)
    BY DEF Children, IsSettled, CInv, Chain
  <1>7. Chain(r)'
    <2>1. \A i \in 0..Steps(r)' : At(r, i)'.state = "waiting" => At(r, i)'.calls \subseteq Children(r)'
      <3> SUFFICES ASSUME NEW i \in 0..(n + 1)
                   PROVE  At(r, i)'.state = "waiting" => At(r, i)'.calls \subseteq Children(r)
        BY <1>5, <1>6
      <3>1. CASE i = n + 1
        BY <1>5, <3>1
      <3>2. CASE i \in 0..n
        BY <1>5, <1>6, <3>2 DEF Chain
      <3> QED
        BY <1>0, <3>1, <3>2
    <2>2. \A i \in 1..Steps(r)' : Follows(At(r, i - 1), At(r, i))'
      <3> SUFFICES ASSUME NEW i \in 1..(n + 1) PROVE Follows(At(r, i - 1), At(r, i))'
        BY <1>5
      <3>1. CASE i = n + 1
        <4>1. i - 1 = n /\ n \in 0..n
          BY <1>0, <3>1
        <4>2. At(r, i - 1)' = attempt[r].cp /\ At(r, i)' = cp
          BY <1>5, <1>6, <3>1, <4>1
        <4> QED
          BY <1>6, <4>2 DEF Follows
      <3>2. CASE i \in 1..n
        <4>1. i \in 0..n /\ i - 1 \in 0..n /\ Follows(At(r, i - 1), At(r, i))
          BY <1>0, <1>6, <3>2 DEF Chain
        <4>2. At(r, i - 1)' = At(r, i - 1) /\ At(r, i)' = At(r, i)
          BY <1>5, <4>1
        <4> QED
          BY <1>6, <4>1, <4>2 DEF Follows
      <3> QED
        BY <1>0, <3>1, <3>2
    <2> QED
      BY <1>3, <1>4, <1>5, <1>6, <2>1, <2>2 DEF Chain
  <1>8. ASSUME NEW c \in Runs, Names(r, c)' PROVE Names(r, c) \/ Fresh(c)
    <2> SUFFICES ASSUME c \notin Mentioned(attempt[r].base) PROVE Names(r, c) \/ Fresh(c)
      BY DEF Names
    <2>1. PICK i \in 0..(n + 1) : c \in Mentioned(At(r, i)')
      BY <1>3, <1>4, <1>5, <1>8 DEF Names, Mentioned
    <2>2. CASE i = n + 1
      BY <1>5, <2>1, <2>2
    <2>3. CASE i \in 0..n
      BY <1>5, <2>1, <2>3 DEF Names
    <2> QED
      BY <1>0, <2>2, <2>3
  <1> QED
    BY <1>0, <1>2, <1>3, <1>7, <1>8, MemoryStep

\* The steps of an attempt that write no row.
LEMMA ResumeStep ==
  ASSUME CInv, NEW r \in Runs, Resume(r) PROVE CInv'
  <1>0. /\ attempt[r].pc # "none" /\ attempt[r].cp \in Checkpoint /\ Chain(r) /\ attempt[r].cp.state = "waiting"
        /\ UNCHANGED <<run, link, ledger, disruptions>> /\ disruptions' \in 0..MaxDisruptions
        /\ Steps(r) \in 0..Steps(r)
    BY Types, Places DEF Resume, Executing, CInv, TypeOK
  <1>1. CASE AllResults(r)
    <2> DEFINE cp == [state |-> "observing", calls |-> {}, consumed |-> attempt[r].cp.consumed \union attempt[r].cp.calls]
    <2>1. cp \in Checkpoint
      BY <1>0, Checkpoints DEF Checkpoint, LoopState
    <2>2. Follows(attempt[r].cp, cp)
      BY <1>0, <1>1 DEF Follows, AllResults, Chain
    <2>3. \A c \in Mentioned(cp) : Names(r, c)
      <3>1. Mentioned(cp) = Mentioned(At(r, Steps(r)))
        BY <1>0 DEF Mentioned, Chain
      <3> QED
        BY <1>0, <3>1 DEF Names
    <2>4. Emit(r, cp, "executing", "none")
      BY <1>1 DEF Resume
    <2>5. cp.state # "waiting"
      OBVIOUS
    <2> HIDE DEF cp
    <2> QED
      BY <1>0, <2>1, <2>2, <2>3, <2>4, <2>5, EmitStep
  <1>2. CASE ~ AllResults(r)
    <2> DEFINE row == [attempt[r] EXCEPT !.pc = "returned", !.outcome = "suspended"]
    <2>1. row \in Attempt /\ row.cp = attempt[r].cp /\ row.base = attempt[r].base /\ row.stream = attempt[r].stream
          /\ row.inbox = attempt[r].inbox /\ row.accepted = attempt[r].accepted
      <3>1. attempt[r] \in Attempt
        BY Types DEF CInv
      <3> QED
        BY <3>1 DEF Attempt
    <2>2. attempt' = [attempt EXCEPT ![r] = row]
      BY <1>2, Types DEF Resume, Return, CInv
    <2> HIDE DEF row
    <2> QED
      BY <1>0, <2>1, <2>2, QuietStep DEF Chain
  <1> QED
    BY <1>1, <1>2

LEMMA ModelDelegatesStep ==
  ASSUME CInv, NEW r \in Runs, NEW calls \in SUBSET Runs, ModelDelegates(r, calls) PROVE CInv'
  <1> DEFINE cp == [attempt[r].cp EXCEPT !.state = "acting", !.calls = calls]
  <1>0. /\ attempt[r].pc # "none" /\ attempt[r].cp \in Checkpoint /\ Chain(r) /\ attempt[r].cp.state # "waiting"
        /\ UNCHANGED <<run, link, ledger, disruptions>>
        /\ Steps(r) \in 0..Steps(r) /\ Emit(r, cp, "executing", "none")
    BY Types, Places DEF ModelDelegates, Executing, CInv
  <1>1. cp \in Checkpoint /\ cp.state = "acting" /\ cp.calls = calls /\ cp.consumed = attempt[r].cp.consumed
    BY <1>0 DEF Checkpoint, LoopState
  <1>2. Follows(attempt[r].cp, cp)
    BY <1>0, <1>1 DEF Follows
  <1>3. \A c \in Mentioned(cp) : Names(r, c) \/ Fresh(c)
    <2>1. \A c \in calls : Fresh(c)
      BY DEF ModelDelegates
    <2>2. \A c \in attempt[r].cp.consumed : Names(r, c)
      BY <1>0 DEF Names, Mentioned, Chain
    <2> QED
      BY <1>1, <2>1, <2>2 DEF Mentioned
  <1> HIDE DEF cp
  <1> QED
    BY <1>0, <1>1, <1>2, <1>3, EmitStep

LEMMA ModelAnswersStep ==
  ASSUME CInv, NEW r \in Runs, ModelAnswers(r) PROVE CInv'
  <1> DEFINE cp == [attempt[r].cp EXCEPT !.state = "final"]
  <1>0. /\ attempt[r].pc # "none" /\ attempt[r].cp \in Checkpoint /\ Chain(r) /\ attempt[r].cp.state # "waiting"
        /\ UNCHANGED <<run, link, ledger, disruptions>>
        /\ Steps(r) \in 0..Steps(r) /\ Emit(r, cp, "returned", "completed")
    BY Types, Places DEF ModelAnswers, Executing, CInv
  <1>1. cp \in Checkpoint /\ cp.state = "final" /\ cp.calls = attempt[r].cp.calls /\ cp.consumed = attempt[r].cp.consumed
    BY <1>0 DEF Checkpoint, LoopState
  <1>2. Follows(attempt[r].cp, cp)
    BY <1>0, <1>1 DEF Follows
  <1>3. \A c \in Mentioned(cp) : Names(r, c)
    BY <1>0, <1>1 DEF Names, Mentioned, Chain
  <1>4. "completed" \in {"none", "suspended"} \union Closed
    BY DEF Closed
  <1> HIDE DEF cp
  <1> QED
    BY <1>0, <1>1, <1>2, <1>3, <1>4, EmitStep

LEMMA ParkStep ==
  ASSUME CInv, NEW r \in Runs, Park(r) PROVE CInv'
  <1> DEFINE cp == [attempt[r].cp EXCEPT !.state = "waiting"]
  <1>0. /\ attempt[r].pc # "none" /\ attempt[r].cp \in Checkpoint /\ Chain(r) /\ attempt[r].cp.state # "waiting"
        /\ UNCHANGED <<run, link, ledger, disruptions>>
        /\ Steps(r) \in 0..Steps(r) /\ Emit(r, cp, "returned", "suspended")
    BY Types, Places DEF Park, Executing, CInv
  <1>1. cp \in Checkpoint /\ cp.state = "waiting" /\ cp.calls = attempt[r].cp.calls /\ cp.consumed = attempt[r].cp.consumed
    BY <1>0 DEF Checkpoint, LoopState
  <1>2. Follows(attempt[r].cp, cp)
    BY <1>0, <1>1 DEF Follows
  <1>3. \A c \in Mentioned(cp) : Names(r, c)
    BY <1>0, <1>1 DEF Names, Mentioned, Chain
  <1>4. cp.calls \subseteq Children(r)
    BY <1>0, <1>1 DEF Park, Chain
  <1> HIDE DEF cp
  <1> QED
    BY <1>0, <1>1, <1>2, <1>3, <1>4, EmitStep

LEMMA ReturnStep ==
  ASSUME CInv, NEW r \in Runs, Return(r, "failed") \/ Return(r, "cancelled") \/ attempt' = [attempt EXCEPT ![r].pc = "aborting"],
         attempt[r].pc # "none", UNCHANGED <<run, link, ledger, disruptions>>
  PROVE  CInv'
  <1>1. PICK row \in Attempt : /\ row.cp = attempt[r].cp /\ row.base = attempt[r].base /\ row.stream = attempt[r].stream
                               /\ row.inbox = attempt[r].inbox /\ row.accepted = attempt[r].accepted
                               /\ attempt' = [attempt EXCEPT ![r] = row]
    <2>0. attempt[r] \in Attempt /\ attempt \in [Runs -> Attempt]
      BY Types DEF CInv
    <2>1. CASE Return(r, "failed")
      <3>1. [attempt[r] EXCEPT !.pc = "returned", !.outcome = "failed"] \in Attempt
        BY <2>0 DEF Attempt, Closed
      <3> QED
        BY <2>0, <2>1, <3>1 DEF Return, Attempt
    <2>2. CASE Return(r, "cancelled")
      <3>1. [attempt[r] EXCEPT !.pc = "returned", !.outcome = "cancelled"] \in Attempt
        BY <2>0 DEF Attempt, Closed
      <3> QED
        BY <2>0, <2>2, <3>1 DEF Return, Attempt
    <2>3. CASE attempt' = [attempt EXCEPT ![r].pc = "aborting"]
      <3>1. [attempt[r] EXCEPT !.pc = "aborting"] \in Attempt
        BY <2>0 DEF Attempt
      <3> QED
        BY <2>0, <2>3, <3>1 DEF Attempt
    <2> QED
      BY <2>1, <2>2, <2>3
  <1>2. disruptions' \in 0..MaxDisruptions /\ Chain(r)
    BY DEF CInv, TypeOK
  <1> QED
    BY <1>1, <1>2, QuietStep DEF Chain

\* Every attempt stays a member of its record set when it makes a call.
LEMMA AcceptType ==
  ASSUME CInv, NEW r \in Runs, NEW c \in Runs,
         attempt' = [attempt EXCEPT ![r].accepted = @ \union {c}]
  PROVE  \E row \in Attempt : /\ row.cp = attempt[r].cp /\ row.base = attempt[r].base /\ row.stream = attempt[r].stream /\ row.pc = attempt[r].pc
                              /\ row.inbox = attempt[r].inbox /\ row.accepted = attempt[r].accepted \union {c}
                              /\ attempt' = [attempt EXCEPT ![r] = row]
  <1> DEFINE row == [attempt[r] EXCEPT !.accepted = @ \union {c}]
  <1>1. attempt[r] \in Attempt /\ attempt \in [Runs -> Attempt] /\ attempt[r].accepted \subseteq Runs
    BY Types DEF CInv
  <1>2. row \in Attempt
    BY <1>1 DEF Attempt
  <1>3. /\ row.cp = attempt[r].cp /\ row.base = attempt[r].base /\ row.stream = attempt[r].stream /\ row.pc = attempt[r].pc
        /\ row.inbox = attempt[r].inbox /\ row.accepted = attempt[r].accepted \union {c}
    BY <1>1 DEF Attempt
  <1>4. attempt' = [attempt EXCEPT ![r] = row]
    BY <1>1
  <1> HIDE DEF row
  <1> QED
    BY <1>2, <1>3, <1>4

LEMMA ReplayStep ==
  ASSUME CInv, NEW r \in Runs, NEW c \in Runs, attempt[r].pc # "none", link[c].parent = r,
         attempt' = [attempt EXCEPT ![r].accepted = @ \union {c}],
         UNCHANGED <<run, link, ledger, disruptions>>
  PROVE  CInv'
  <1>1. PICK row \in Attempt : /\ row.cp = attempt[r].cp /\ row.base = attempt[r].base /\ row.stream = attempt[r].stream
                               /\ row.inbox = attempt[r].inbox /\ row.accepted = attempt[r].accepted \union {c}
                               /\ attempt' = [attempt EXCEPT ![r] = row]
    BY AcceptType
  <1>2. disruptions' \in 0..MaxDisruptions /\ row.accepted \subseteq Children(r)
    BY <1>1 DEF CInv, TypeOK, Chain, Children
  <1> QED
    BY <1>1, <1>2, QuietStep

-----------------------------------------------------------------------------
(* A child is created                                                      *)

\* The child was not there, and nobody but r names it.
LEMMA ChildIsNew ==
  ASSUME CInv, NEW r \in Runs, NEW c \in Runs, Executing(r), c \in attempt[r].cp.calls, link[c].parent # r,
         run[r].status = "running"
  PROVE  /\ c # Root /\ c # r /\ run[c] = [status |-> "absent", cp |-> Start] /\ link[c] = NoLink
         /\ attempt[c] = NoAttempt /\ Children(c) = {} /\ \A q \in Runs : Names(q, c) => q = r
  <1>1. Names(r, c)
    <2>1. c \in Mentioned(At(r, Steps(r))) /\ Steps(r) \in 0..Steps(r)
      BY Places DEF CInv, Chain, Executing, Mentioned
    <2> QED
      BY <2>1 DEF Names
  <1>2. c # Root /\ link[c].parent = NoRun /\ \A q \in Runs : Names(q, c) => q = r
    BY <1>1 DEF CInv, Owned
  <1>3. run[c].status = "absent" /\ run[c].cp = Start /\ link[c] = NoLink /\ attempt[c] = NoAttempt
    BY <1>2 DEF CInv, Row
  <1>4. run[c] = [status |-> "absent", cp |-> Start]
    BY <1>3, Types DEF CInv
  <1>5. Children(c) = {}
    BY <1>3 DEF Children, CInv, Row
  <1> QED
    BY <1>2, <1>3, <1>4, <1>5

LEMMA CreateStep ==
  ASSUME CInv, NEW r \in Runs, NEW c \in Runs, Executing(r), c \in attempt[r].cp.calls, link[c].parent # r,
         run[r].status = "running", CreateChild(r, c),
         attempt' = [attempt EXCEPT ![r].accepted = @ \union {c}], UNCHANGED disruptions
  PROVE  CInv'
  <1>0. /\ c # Root /\ c # r /\ run[c] = [status |-> "absent", cp |-> Start] /\ link[c] = NoLink
        /\ attempt[c] = NoAttempt /\ Children(c) = {} /\ \A q \in Runs : Names(q, c) => q = r
    BY ChildIsNew
  <1>t. /\ run \in [Runs -> [status : Status, cp : Checkpoint]] /\ link \in [Runs -> Link]
        /\ ledger \in [Runs -> Ledger] /\ attempt \in [Runs -> Attempt]
        /\ link[r].ancestors \subseteq Runs /\ Start \in Checkpoint
    BY <1>0, Types DEF CInv
  <1> DEFINE child == [parent |-> r, ancestors |-> ClosureOf(r), state |-> Active, message |-> "none"]
  <1>1. PICK row \in Attempt : /\ row.cp = attempt[r].cp /\ row.base = attempt[r].base /\ row.stream = attempt[r].stream /\ row.pc = attempt[r].pc
                               /\ row.inbox = attempt[r].inbox /\ row.accepted = attempt[r].accepted \union {c}
                               /\ attempt' = [attempt EXCEPT ![r] = row]
    BY AcceptType
  <1>2. attempt' \in [Runs -> Attempt] /\ attempt'[r] = row /\ \A q \in Runs : q # r => attempt'[q] = attempt[q]
    BY <1>1, <1>t
  <1>3. /\ run' \in [Runs -> [status : Status, cp : Checkpoint]]
        /\ run'[c].status = "pending" /\ \A q \in Runs : run'[q].cp = run[q].cp /\ (q # c => run'[q] = run[q])
    <2>1. [status |-> "pending", cp |-> Start] \in [status : Status, cp : Checkpoint]
      BY <1>t DEF Status
    <2> QED
      BY <1>0, <1>t, <2>1 DEF CreateChild
  <1>4. link' \in [Runs -> Link] /\ link'[c] = child /\ \A q \in Runs : q # c => link'[q] = link[q]
    <2>1. child \in Link
      BY <1>t DEF Link, ClosureOf
    <2>2. link' = [link EXCEPT ![c] = child]
      BY DEF CreateChild
    <2> HIDE DEF child
    <2> QED
      BY <1>t, <2>1, <2>2
  <1>5. /\ ledger' \in [Runs -> Ledger]
        /\ ledger'[r].reserved = ledger[r].reserved + Grant /\ ledger'[c].reserved = 0
        /\ \A q \in Runs \ {r, c} : ledger'[q] = ledger[q]
    <2> DEFINE grown == [ledger[r] EXCEPT !.reserved = @ + Grant]
    <2>1. grown \in Ledger /\ grown.reserved = ledger[r].reserved + Grant
      <3>1. ledger[r] \in Ledger /\ ledger[r].reserved + Grant \in Nat
        BY Types DEF CInv
      <3> QED
        BY <3>1 DEF Ledger
    <2>2. LedgerOf(Grant) \in Ledger /\ LedgerOf(Grant).reserved = 0
      BY DEF LedgerOf, Ledger
    <2>3. ledger' = [ledger EXCEPT ![r] = grown, ![c] = LedgerOf(Grant)]
      BY <1>0, <1>t DEF CreateChild
    <2> HIDE DEF grown
    <2> QED
      BY <1>0, <1>t, <2>1, <2>2, <2>3
  <1>6. TypeOK'
    BY <1>2, <1>3, <1>4, <1>5 DEF TypeOK, CInv
  <1>7. /\ child.parent = r /\ child.state = Active /\ child.message = "none" /\ child.ancestors = ClosureOf(r)
        /\ link[c].parent = NoRun /\ link[c].state = "none"
    BY <1>0 DEF NoLink
  <1> HIDE DEF child
  <1>8. /\ Children(r)' = Children(r) \union {c} /\ ActiveChildren(r)' = ActiveChildren(r) \union {c}
        /\ c \notin ActiveChildren(r)
        /\ \A q \in Runs : q # r => Children(q)' = Children(q) /\ ActiveChildren(q)' = ActiveChildren(q)
    BY <1>4, <1>7 DEF Children, ActiveChildren
  <1>9. \A d \in Runs : IsSettled(d)' = IsSettled(d)
    BY <1>4, <1>7 DEF IsSettled, Closed, Active
  <1>10. LinksStay
    BY <1>4, <1>7, <1>9 DEF LinksStay
  <1>11. \A q \in Runs : Steps(q)' = Steps(q) /\ \A i : At(q, i)' = At(q, i)
    <2> SUFFICES ASSUME NEW q \in Runs PROVE attempt'[q].stream = attempt[q].stream /\ run'[q].cp = run[q].cp
      BY DEF Steps, At
    <2> QED
      BY <1>1, <1>2, <1>3
  <1>12. \A q, d \in Runs : Names(q, d)' = Names(q, d)
    <2>1. \A q \in Runs : attempt'[q].base = attempt[q].base
      BY <1>1, <1>2
    <2> QED
      BY <1>11, <2>1 DEF Names, Mentioned
  <1>13. \A q \in Runs : Reserved(q)'
    <2>1. ASSUME NEW q \in Runs, q # r, q # c PROVE Reserved(q)'
      BY <1>5, <1>8, <2>1 DEF Reserved, CInv
    <2>2. Reserved(c)'
      <3>1. ActiveChildren(c)' = {} /\ Grant * 0 = 0
        BY <1>0, <1>8 DEF ActiveChildren
      <3> QED
        BY <1>5, <3>1, FS_EmptySet DEF Reserved
    <2>3. Reserved(r)'
      <3>1. IsFiniteSet(ActiveChildren(r)) /\ ledger[r].reserved = Grant * Cardinality(ActiveChildren(r))
        BY DEF Reserved, CInv
      <3>2. /\ IsFiniteSet(ActiveChildren(r) \union {c})
            /\ Cardinality(ActiveChildren(r) \union {c}) = Cardinality(ActiveChildren(r)) + 1
            /\ Cardinality(ActiveChildren(r)) \in Nat
        BY <1>8, <3>1, FS_AddElement, FS_CardinalityType
      <3>3. \A n \in Nat : Grant * (n + 1) = Grant * n + Grant
        OBVIOUS
      <3> QED
        BY <1>5, <1>8, <3>1, <3>2, <3>3 DEF Reserved
    <2> QED
      BY <2>1, <2>2, <2>3
  <1>14. \A q \in Runs : Chain(q)'
    <2>1. ASSUME NEW q \in Runs, q # r PROVE Chain(q)'
      BY <1>2, <1>3, <1>10, <2>1, ChainStays DEF CInv
    <2>2. Chain(r)'
      <3>1. Chain(r) /\ \A i \in 0..Steps(r) : At(r, i) \in Checkpoint
        BY Places DEF CInv
      <3>2. \A i \in 1..Steps(r)' : Follows(At(r, i - 1), At(r, i))'
        <4> SUFFICES ASSUME NEW i \in 1..Steps(r) PROVE Follows(At(r, i - 1), At(r, i))'
          BY <1>11
        <4>1. Follows(At(r, i - 1), At(r, i)) /\ i - 1 \in 0..Steps(r)
          BY <3>1, Places DEF Chain, CInv
        <4>2. At(r, i - 1).calls \subseteq Runs
          BY <3>1, <4>1, Checkpoints
        <4> QED
          BY <1>9, <1>11, <4>1, <4>2 DEF Follows
      <3>3. row.accepted \subseteq Children(r)' /\ \A d \in row.inbox : d \in Children(r)' /\ IsSettled(d)'
        <4>1. \A d \in Runs : d \in attempt[r].inbox => d \in Children(r) /\ IsSettled(d)
          BY <3>1 DEF Chain
        <4>2. row.inbox \subseteq Runs /\ attempt[r].accepted \subseteq Children(r)
          BY <1>1, <3>1, Types DEF Chain, CInv
        <4> QED
          BY <1>1, <1>8, <1>9, <4>1, <4>2
      <3>4. \A i \in 0..Steps(r)' : At(r, i)'.state = "waiting" => At(r, i)'.calls \subseteq Children(r)'
        BY <1>8, <1>11, <3>1 DEF Chain
      <3>5. attempt'[r].pc # "none" => attempt'[r].cp = At(r, Steps(r))'
        BY <1>1, <1>2, <1>11, <3>1 DEF Chain
      <3>6. attempt'[r].base.state = "waiting" => attempt'[r].base.calls \subseteq Children(r)'
        BY <1>1, <1>2, <1>8, <3>1 DEF Chain
      <3> QED
        BY <1>2, <3>2, <3>3, <3>4, <3>5, <3>6 DEF Chain
    <2> QED
      BY <2>1, <2>2
  <1>15. ASSUME NEW d \in Runs PROVE Row(d)'
    <2>1. CASE d = c
      <3>1. ClosureOf(r)' = ClosureOf(r) /\ run'[r].status = "running"
        BY <1>0, <1>3, <1>4 DEF ClosureOf
      <3> QED
        BY <1>0, <1>3, <1>4, <1>7, <2>1, <3>1 DEF Row, Kept, IsOpen
    <2>2. CASE d # c
      <3>1. Row(d) /\ link'[d] = link[d] /\ run'[d] = run[d] /\ IsSettled(d)' = IsSettled(d)
        BY <1>3, <1>4, <1>9, <2>2 DEF CInv
      <3>2. (run[d].status = "absent" => attempt'[d] = attempt[d]) /\ attempt'[d].pc = attempt[d].pc
        BY <1>1, <1>2
      <3>3. ASSUME link[d].parent # NoRun
            PROVE  /\ run'[link[d].parent].status # "absent"
                   /\ ClosureOf(link[d].parent)' = ClosureOf(link[d].parent)
                   /\ run'[link[d].parent] = run[link[d].parent]
        <4>1. link[d].parent \in Runs /\ link[d].parent # c
          BY <1>0, <3>1, <3>3, Types DEF Row, CInv
        <4> QED
          BY <1>3, <1>4, <3>1, <3>3, <4>1 DEF Row, ClosureOf
      <3>4. link[d].parent = NoRun => link[d].message = "none"
        BY <3>1 DEF Row, NoLink
      <3>5. Kept(d)'
        BY <3>1, <3>3, <3>4 DEF Row, Kept, IsOpen
      <3>6. link[d].parent # NoRun => run'[link[d].parent].status # "absent" /\ link[d].ancestors = ClosureOf(link[d].parent)'
        BY <3>1, <3>3 DEF Row
      <3> QED
        BY <3>1, <3>2, <3>5, <3>6 DEF Row, IsOpen
    <2> QED
      BY <2>1, <2>2
  <1>16. ASSUME NEW q \in Runs, NEW d \in Runs, Names(q, d)' PROVE Owned(q, d)'
    <2>1. Names(q, d) /\ Owned(q, d)
      BY <1>12, <1>16 DEF CInv
    <2>2. link'[d].parent \in {NoRun, q}
      BY <1>0, <1>4, <1>7, <2>1 DEF Owned
    <2> QED
      BY <1>12, <2>1, <2>2 DEF Owned
  <1> QED
    BY <1>6, <1>13, <1>14, <1>15, <1>16 DEF CInv

LEMMA DelegateStep ==
  ASSUME CInv, NEW r \in Runs, NEW c \in Runs, Delegate(r, c) PROVE CInv'
  <1>0. Executing(r) /\ c \in attempt[r].cp.calls /\ UNCHANGED disruptions /\ attempt[r].pc # "none"
    BY DEF Delegate, Executing
  <1>1. CASE run[r].status = "running" /\ link[c].parent = r
    BY <1>0, <1>1, ReplayStep DEF Delegate
  <1>2. CASE ~ (run[r].status = "running" /\ link[c].parent = r) /\ MayDelegate(r)
    <2>1. run[r].status = "running" /\ link[c].parent # r
      BY <1>2 DEF MayDelegate
    <2> QED
      BY <1>0, <1>2, <2>1, CreateStep DEF Delegate
  <1>3. CASE ~ (run[r].status = "running" /\ link[c].parent = r) /\ ~ MayDelegate(r)
    BY <1>0, <1>3, ReturnStep DEF Delegate
  <1> QED
    BY <1>1, <1>2, <1>3

-----------------------------------------------------------------------------
(* The attempt and its checkpoints                                         *)

\* The attempt starts from the durable checkpoint, with results of settled children.
LEMMA PrepareStep ==
  ASSUME CInv, NEW r \in Runs, Prepare(r) PROVE CInv'
  <1> DEFINE row == [NoAttempt EXCEPT
                        !.pc = IF run[r].cp.state = "final" THEN "returned" ELSE "executing",
                        !.outcome = IF run[r].cp.state = "final" THEN "failed" ELSE "none",
                        !.base = run[r].cp,
                        !.cp = run[r].cp,
                        !.inbox = Inbox(r)]
  <1>t. /\ run \in [Runs -> [status : Status, cp : Checkpoint]] /\ link \in [Runs -> Link]
        /\ attempt \in [Runs -> Attempt] /\ run[r].cp \in Checkpoint
    BY Types DEF CInv
  <1>0. /\ run[r].status \in {"pending", "running"} /\ run' = [run EXCEPT ![r].status = "running"]
        /\ link' = Deliver(r) /\ attempt' = [attempt EXCEPT ![r] = row] /\ UNCHANGED <<ledger, disruptions>>
    BY DEF Prepare, Claimable
  <1>1. row \in Attempt /\ row.cp = run[r].cp /\ row.base = run[r].cp /\ row.stream = <<>> /\ row.inbox = Inbox(r) /\ row.accepted = {}
    <2>1. Inbox(r) \subseteq Runs /\ NoAttempt \in Attempt
      BY NoAttemptType DEF Inbox, Results, Children
    <2>2. "failed" \in {"none", "suspended"} \union Closed
      BY DEF Closed
    <2> QED
      BY <1>t, <2>1, <2>2 DEF NoAttempt, Attempt
  <1> HIDE DEF row
  <1>2. attempt' \in [Runs -> Attempt] /\ attempt'[r] = row /\ \A q \in Runs : q # r => attempt'[q] = attempt[q]
    BY <1>0, <1>1, <1>t
  <1>3. /\ run' \in [Runs -> [status : Status, cp : Checkpoint]]
        /\ run'[r].status = "running" /\ \A q \in Runs : run'[q].cp = run[q].cp /\ (q # r => run'[q] = run[q])
    BY <1>0, <1>t DEF Status
  <1>4. ASSUME NEW c \in Runs
        PROVE  /\ link'[c] \in Link
               /\ link'[c].parent = link[c].parent /\ link'[c].ancestors = link[c].ancestors
               /\ link'[c].state = link[c].state
               /\ link'[c] # link[c] => c \in Results(r)
               /\ link'[c].message = "acknowledged"
                    => link[c].message = "acknowledged" \/ (c \in Results(r) /\ c \in run[r].cp.consumed)
    <2>0. link[c] \in Link
      BY <1>t
    <2>1. CASE c \in Results(r) /\ c \in run[r].cp.consumed
      <3>1. link'[c] = [link[c] EXCEPT !.message = "acknowledged"]
        BY <1>0, <2>1 DEF Deliver
      <3> QED
        BY <2>0, <2>1, <3>1 DEF Link
    <2>2. CASE c \in Results(r) \ run[r].cp.consumed /\ link[c].message = "queued"
      <3>1. link'[c] = [link[c] EXCEPT !.message = "delivered"]
        BY <1>0, <2>2 DEF Deliver
      <3> QED
        BY <2>0, <2>2, <3>1 DEF Link
    <2>3. CASE ~ (c \in Results(r) /\ c \in run[r].cp.consumed)
               /\ ~ (c \in Results(r) \ run[r].cp.consumed /\ link[c].message = "queued")
      <3>1. link'[c] = link[c]
        BY <1>0, <2>3 DEF Deliver
      <3> QED
        BY <2>0, <3>1
    <2> QED
      BY <2>1, <2>2, <2>3
  <1>5. TypeOK'
    <2>1. link' \in [Runs -> Link]
      BY <1>0, <1>4 DEF Deliver
    <2> QED
      BY <1>0, <1>2, <1>3, <2>1 DEF TypeOK, CInv
  <1>6. \A c : c \in Results(r) => c \in Runs /\ link[c].parent = r /\ IsSettled(c)
    BY DEF Results, Children, CInv, Row
  <1>7. \A c \in Runs : IsSettled(c)' = IsSettled(c)
    BY <1>4 DEF IsSettled
  <1>8. TreeKept
    <2> SUFFICES ASSUME NEW c \in Runs
                 PROVE  /\ link[c].parent = NoRun => link'[c] = link[c]
                        /\ link'[c].message # "none" => IsSettled(c)
                        /\ Kept(c)' /\ (~ IsOpen(c)' => attempt'[c].pc = "none")
                        /\ run'[c].status = "absent" <=> run[c].status = "absent"
                        /\ run[c].status = "absent" => run'[c].cp = run[c].cp /\ attempt'[c] = attempt[c]
      BY <1>4, <1>7 DEF TreeKept
    <2>1. Row(c) /\ link[c].parent \in Runs \union {NoRun}
      BY Types DEF CInv
    <2>2. link[c].message = "acknowledged" => link[c].parent \in Runs
      BY <2>1 DEF Row, NoLink
    <2>o. \A q \in Runs : IsOpen(q)' = IsOpen(q)
      BY <1>0, <1>3 DEF IsOpen
    <2>3. Kept(c)' /\ (~ IsOpen(c)' => attempt'[c].pc = "none")
      <3>1. ASSUME link'[c].message = "acknowledged", IsOpen(link[c].parent)'
            PROVE  c \in run'[link[c].parent].cp.consumed
        <4>1. link[c].parent \in Runs
          BY <1>4, <1>6, <2>2, <3>1
        <4> QED
          BY <1>3, <1>4, <1>6, <2>1, <2>o, <3>1, <4>1 DEF Row, Kept
      <3>2. ~ IsOpen(c) => c # r /\ attempt[c].pc = "none"
        BY <1>0, <2>1 DEF Row, IsOpen
      <3> QED
        BY <1>2, <1>4, <2>o, <3>1, <3>2 DEF Kept, IsOpen
    <2>4. link[c].parent = NoRun => c \notin Results(r)
      BY <1>6
    <2>5. link'[c].message # "none" => IsSettled(c)
      BY <1>4, <1>6, <2>1 DEF Row
    <2>6. (run'[c].status = "absent" <=> run[c].status = "absent") /\ (run[c].status = "absent" => c # r)
      BY <1>0, <1>3
    <2> QED
      BY <1>2, <1>3, <1>4, <2>3, <2>4, <2>5, <2>6
  <1>9. Children(r)' = Children(r) /\ \A q \in Runs : Children(q)' = Children(q) /\ ActiveChildren(q)' = ActiveChildren(q)
    BY <1>4 DEF Children, ActiveChildren
  <1>10. \A q \in Runs : Reserved(q)'
    BY <1>0, <1>9 DEF Reserved, CInv
  <1>11. LinksStay
    BY <1>4, <1>7 DEF LinksStay
  <1>12. Steps(r)' = 0 /\ At(r, 0)' = run[r].cp /\ At(r, 0) = run[r].cp /\ Steps(r) \in Nat
    <2>1. Steps(r)' = 0
      BY <1>1, <1>2, NoAttemptType DEF Steps, NoAttempt
    <2> QED
      BY <1>3, <2>1, Places DEF At, CInv
  <1>13. \A q \in Runs : Chain(q)'
    <2>1. ASSUME NEW q \in Runs, q # r PROVE Chain(q)'
      BY <1>2, <1>3, <1>11, <2>1, ChainStays DEF CInv
    <2>2. run[r].cp.state = "waiting" => run[r].cp.calls \subseteq Children(r)
      BY <1>12 DEF Chain, CInv
    <2>3. \A c \in row.inbox : c \in Children(r) /\ IsSettled(c)'
      BY <1>1, <1>6, <1>7 DEF Inbox, Results
    <2>4. Chain(r)'
      BY <1>1, <1>2, <1>9, <1>12, <2>2, <2>3 DEF Chain
    <2> QED
      BY <2>1, <2>4
  <1>14. ASSUME NEW q \in Runs, NEW c \in Runs, Names(q, c)' PROVE Names(q, c)
    <2>1. CASE q = r
      <3>1. attempt'[r].base = At(r, 0) /\ 0 \in 0..Steps(r)
        BY <1>1, <1>2, <1>12
      <3> QED
        BY <1>12, <1>14, <2>1, <3>1 DEF Names, Mentioned
    <2>2. CASE q # r
      BY <1>2, <1>3, <1>14, <2>2, NamesStay DEF CInv
    <2> QED
      BY <2>1, <2>2
  <1> QED
    BY <1>5, <1>8, <1>10, <1>13, <1>14, TreeStep

\* The first checkpoint of the stream becomes the durable one.
LEMMA RecordCheckpointStep ==
  ASSUME CInv, NEW r \in Runs, RecordCheckpoint(r) PROVE CInv'
  <1>n. Steps(r) \in Nat
    BY Places DEF CInv
  <1> SUFFICES ASSUME NEW n \in Nat, n = Steps(r) PROVE CInv'
    BY <1>n
  <1>t. /\ run \in [Runs -> [status : Status, cp : Checkpoint]] /\ link \in [Runs -> Link]
        /\ attempt \in [Runs -> Attempt] /\ run[r].cp \in Checkpoint /\ attempt[r].stream \in Seq(Checkpoint)
    BY Types DEF CInv
  <1>0. /\ n \in Nat \ {0} /\ attempt[r].stream # <<>> /\ Head(attempt[r].stream) = At(r, 1) /\ At(r, 1) \in Checkpoint
        /\ attempt[r].pc # "none" /\ run[r].status = "running" /\ UNCHANGED <<ledger, disruptions>>
    <2>1. attempt[r].stream # <<>>
      BY DEF RecordCheckpoint
    <2>2. n \in Nat \ {0}
      BY <1>t, <2>1, EmptySeq DEF Steps
    <2>3. At(r, 1) \in Checkpoint
      BY <2>2, Places DEF CInv
    <2>4. Head(attempt[r].stream) = At(r, 1)
      BY DEF At
    <2> QED
      BY <2>1, <2>2, <2>3, <2>4 DEF RecordCheckpoint
  <1> SUFFICES ASSUME NEW cp \in Checkpoint, cp = At(r, 1) PROVE CInv'
    BY <1>0
  <1>1. /\ Tail(attempt[r].stream) \in Seq(Checkpoint) /\ Len(Tail(attempt[r].stream)) = n - 1
        /\ \A i \in 1..(n - 1) : Tail(attempt[r].stream)[i] = attempt[r].stream[i + 1]
    BY <1>0, <1>t, HeadTailProperties DEF Steps
  <1>2. /\ attempt' \in [Runs -> Attempt] /\ attempt'[r].stream = Tail(attempt[r].stream)
        /\ attempt'[r].base = attempt[r].base
        /\ attempt'[r].pc = attempt[r].pc /\ attempt'[r].cp = attempt[r].cp /\ attempt'[r].accepted = attempt[r].accepted
        /\ attempt'[r].inbox = attempt[r].inbox /\ \A q \in Runs : q # r => attempt'[q] = attempt[q]
    <2> DEFINE row == [attempt[r] EXCEPT !.stream = Tail(@)]
    <2>1. attempt[r] \in Attempt
      BY <1>t
    <2>2. /\ row \in Attempt /\ row.stream = Tail(attempt[r].stream) /\ row.base = attempt[r].base /\ row.pc = attempt[r].pc
          /\ row.cp = attempt[r].cp /\ row.accepted = attempt[r].accepted /\ row.inbox = attempt[r].inbox
      BY <1>1, <2>1 DEF Attempt
    <2>3. attempt' = [attempt EXCEPT ![r] = row]
      BY <1>t DEF RecordCheckpoint
    <2> HIDE DEF row
    <2> QED
      BY <1>t, <2>2, <2>3
  <1>3. /\ run' \in [Runs -> [status : Status, cp : Checkpoint]] /\ run'[r].cp = cp
        /\ \A q \in Runs : run'[q].status = run[q].status /\ (q # r => run'[q] = run[q])
    <2>1. run' = [run EXCEPT ![r].cp = cp]
      BY <1>0 DEF RecordCheckpoint
    <2> QED
      BY <1>t, <2>1
  <1>4. ASSUME NEW c \in Runs
        PROVE  /\ link'[c] \in Link
               /\ link'[c].parent = link[c].parent /\ link'[c].ancestors = link[c].ancestors
               /\ link'[c].state = link[c].state
               /\ link'[c] # link[c] => c \in Results(r)
               /\ link'[c].message = "acknowledged"
                    => link[c].message = "acknowledged" \/ (c \in Results(r) /\ c \in cp.consumed)
    <2>0. link[c] \in Link
      BY <1>t
    <2>1. CASE c \in Results(r) /\ c \in cp.consumed
      <3>1. link'[c] = [link[c] EXCEPT !.message = "acknowledged"]
        BY <1>0, <2>1 DEF RecordCheckpoint
      <3> QED
        BY <2>0, <2>1, <3>1 DEF Link
    <2>2. CASE ~ (c \in Results(r) /\ c \in cp.consumed)
      <3>1. link'[c] = link[c]
        BY <1>0, <2>2 DEF RecordCheckpoint
      <3> QED
        BY <2>0, <3>1
    <2> QED
      BY <2>1, <2>2
  <1>5. TypeOK'
    <2>1. link' \in [Runs -> Link]
      BY <1>4 DEF RecordCheckpoint
    <2> QED
      BY <1>0, <1>2, <1>3, <2>1 DEF TypeOK, CInv
  <1>6. \A c : c \in Results(r) => c \in Runs /\ link[c].parent = r /\ IsSettled(c)
    BY DEF Results, Children, CInv, Row
  <1>7. \A c \in Runs : IsSettled(c)' = IsSettled(c)
    BY <1>4 DEF IsSettled
  <1>c. Chain(r) /\ run[r].cp.consumed \subseteq cp.consumed
    <2>1. Chain(r) /\ Follows(At(r, 0), At(r, 1)) /\ At(r, 0) = run[r].cp
      BY <1>0 DEF Chain, CInv, At
    <2> QED
      BY <2>1 DEF Follows
  <1>8. TreeKept
    <2> SUFFICES ASSUME NEW c \in Runs
                 PROVE  /\ link[c].parent = NoRun => link'[c] = link[c]
                        /\ link'[c].message # "none" => IsSettled(c)
                        /\ Kept(c)' /\ (~ IsOpen(c)' => attempt'[c].pc = "none")
                        /\ run'[c].status = "absent" <=> run[c].status = "absent"
                        /\ run[c].status = "absent" => run'[c].cp = run[c].cp /\ attempt'[c] = attempt[c]
      BY <1>4, <1>7 DEF TreeKept
    <2>1. Row(c) /\ link[c].parent \in Runs \union {NoRun}
      BY Types DEF CInv
    <2>2. link[c].message = "acknowledged" => link[c].parent \in Runs
      BY <2>1 DEF Row, NoLink
    <2>3. \A q \in Runs : run[q].cp.consumed \subseteq run'[q].cp.consumed
      BY <1>3, <1>c
    <2>o. \A q \in Runs : IsOpen(q)' = IsOpen(q)
      BY <1>3 DEF IsOpen
    <2>4. Kept(c)' /\ (~ IsOpen(c)' => attempt'[c].pc = "none")
      <3>1. ASSUME link'[c].message = "acknowledged", IsOpen(link[c].parent)'
            PROVE  c \in run'[link[c].parent].cp.consumed
        <4>1. link[c].parent \in Runs
          BY <1>4, <1>6, <2>2, <3>1
        <4> QED
          BY <1>3, <1>4, <1>6, <2>1, <2>3, <2>o, <3>1, <4>1 DEF Row, Kept
      <3>2. attempt'[c].pc = attempt[c].pc
        BY <1>2
      <3> QED
        BY <1>4, <2>1, <2>o, <3>1, <3>2 DEF Row, Kept, IsOpen
    <2>5. link[c].parent = NoRun => c \notin Results(r)
      BY <1>6
    <2>6. link'[c].message # "none" => IsSettled(c)
      BY <1>4, <1>6, <2>1 DEF Row
    <2>7. (run'[c].status = "absent" <=> run[c].status = "absent") /\ (run[c].status = "absent" => c # r)
      BY <1>0, <1>3
    <2> QED
      BY <1>2, <1>3, <1>4, <2>4, <2>5, <2>6, <2>7
  <1>9. \A q \in Runs : Children(q)' = Children(q) /\ ActiveChildren(q)' = ActiveChildren(q)
    BY <1>4 DEF Children, ActiveChildren
  <1>10. \A q \in Runs : Reserved(q)'
    BY <1>0, <1>9 DEF Reserved, CInv
  <1>11. LinksStay
    BY <1>4, <1>7 DEF LinksStay
  <1>12. Steps(r)' = n - 1 /\ \A i \in 0..(n - 1) : At(r, i)' = At(r, i + 1)
    <2>1. Steps(r)' = n - 1
      BY <1>1, <1>2 DEF Steps
    <2>2. \A i \in 1..(n - 1) : At(r, i)' = At(r, i + 1)
      BY <1>1, <1>2 DEF At
    <2>3. At(r, 0)' = At(r, 0 + 1)
      BY <1>3 DEF At
    <2> QED
      BY <1>0, <2>1, <2>2, <2>3
  <1>13. \A q \in Runs : Chain(q)'
    <2>1. ASSUME NEW q \in Runs, q # r PROVE Chain(q)'
      BY <1>2, <1>3, <1>11, <2>1, ChainStays DEF CInv
    <2>2. ASSUME NEW i \in 1..(n - 1) PROVE Follows(At(r, i - 1), At(r, i))'
      <3>1. i - 1 \in 0..(n - 1) /\ i \in 0..(n - 1) /\ i + 1 \in 1..n /\ (i + 1) - 1 = i /\ (i - 1) + 1 = i /\ i \in 0..n
        BY <2>2, <1>0
      <3>2. Follows(At(r, i), At(r, i + 1))
        BY <1>c, <3>1 DEF Chain
      <3>3. At(r, i - 1)' = At(r, i) /\ At(r, i)' = At(r, i + 1) /\ At(r, i).calls \subseteq Runs
        BY <1>12, <3>1, Places DEF CInv
      <3> QED
        BY <1>7, <3>2, <3>3 DEF Follows
    <2>3. ASSUME NEW i \in 0..(n - 1) PROVE At(r, i)'.state = "waiting" => At(r, i)'.calls \subseteq Children(r)'
      <3>1. i + 1 \in 0..n
        BY <2>3, <1>0
      <3> QED
        BY <1>9, <1>12, <1>c, <3>1 DEF Chain
    <2>4. attempt'[r].cp = At(r, n - 1)'
      BY <1>0, <1>2, <1>12, <1>c DEF Chain
    <2>5. attempt'[r].accepted \subseteq Children(r)' /\ \A c \in attempt'[r].inbox : c \in Children(r)' /\ IsSettled(c)'
      BY <1>2, <1>7, <1>9, <1>c, Types DEF Chain, CInv
    <2>b. attempt'[r].base.state = "waiting" => attempt'[r].base.calls \subseteq Children(r)'
      BY <1>2, <1>9, <1>c DEF Chain
    <2>6. Chain(r)'
      BY <1>12, <2>2, <2>3, <2>4, <2>5, <2>b DEF Chain
    <2> QED
      BY <2>1, <2>6
  <1>14. ASSUME NEW q \in Runs, NEW c \in Runs, Names(q, c)' PROVE Names(q, c)
    <2>1. CASE q = r
      <3> SUFFICES ASSUME c \notin Mentioned(attempt[r].base) PROVE Names(q, c)
        BY <2>1 DEF Names
      <3>1. PICK i \in 0..(n - 1) : c \in Mentioned(At(r, i)')
        BY <1>2, <1>12, <1>14, <2>1 DEF Names, Mentioned
      <3>2. i + 1 \in 0..n /\ At(r, i)' = At(r, i + 1)
        BY <1>0, <1>12
      <3> QED
        BY <2>1, <3>1, <3>2 DEF Names
    <2>2. CASE q # r
      BY <1>2, <1>3, <1>14, <2>2, NamesStay DEF CInv
    <2> QED
      BY <2>1, <2>2
  <1> QED
    BY <1>5, <1>8, <1>10, <1>13, <1>14, TreeStep

-----------------------------------------------------------------------------
(* Closing, parking, operators                                             *)

\* The links keep the shape of the tree, and send no acknowledgement.
LinksClose == \A c \in Runs :
    /\ link'[c].parent = link[c].parent /\ link'[c].ancestors = link[c].ancestors
    /\ IsSettled(c) => IsSettled(c)'
    /\ link[c].parent = NoRun => link'[c] = link[c]
    /\ link'[c].message # "none" => IsSettled(c)'
    /\ link'[c].message = "acknowledged" => link[c].message = "acknowledged"

\* No Run is opened and no attempt gets on.  A checkpoint is written only over that of a
\* Run which closes: the newest one of its attempt, the one it started from, or none.
LastCheckpoint(q) == {attempt[q].cp, attempt[q].base, Start}
AttemptsEnd == \A q \in Runs :
    /\ run'[q].status = "absent" <=> run[q].status = "absent"
    /\ IsOpen(q)' => IsOpen(q)
    /\ attempt'[q] \in {attempt[q], NoAttempt}
    /\ ~ IsOpen(q)' => attempt'[q].pc = "none"
    /\ run'[q].cp # run[q].cp => /\ ~ IsOpen(q)' /\ attempt[q].pc # "none"
                                 /\ attempt'[q] = NoAttempt /\ run'[q].cp \in LastCheckpoint(q)

LEMMA ChainCloses ==
  ASSUME TypeOK, LinksStay, NEW r \in Runs, Chain(r), attempt[r].pc # "none", attempt'[r] = NoAttempt,
         run'[r].cp \in LastCheckpoint(r)
  PROVE  Chain(r)' /\ \A c : Names(r, c)' => Names(r, c)
  <1>1. Steps(r)' = 0 /\ At(r, 0)' = run'[r].cp /\ Steps(r) \in 0..Steps(r)
    BY Places, NoAttemptType DEF Steps, At
  <1>2. attempt[r].cp = At(r, Steps(r)) /\ Children(r) \subseteq Children(r)'
    BY ChildrenStay DEF Chain
  <1>3. run'[r].cp.state = "waiting" => run'[r].cp.calls \subseteq Children(r)
    BY <1>1, <1>2, NoAttemptType DEF Chain, LastCheckpoint
  <1>4. Chain(r)'
    BY <1>1, <1>2, <1>3, NoAttemptType DEF Chain
  <1>5. ASSUME NEW c, Names(r, c)' PROVE Names(r, c)
    <2>1. c \in Mentioned(run'[r].cp)
      BY <1>1, <1>5, NoAttemptType DEF Names, Mentioned
    <2> QED
      BY <1>1, <1>2, <2>1, NoAttemptType DEF LastCheckpoint, Names
  <1> QED
    BY <1>4, <1>5

LEMMA ClosingStep ==
  ASSUME CInv, TypeOK', LinksClose, AttemptsEnd, \A r \in Runs : Reserved(r)'
  PROVE  CInv'
  <1>0. \A c \in Runs : Row(c) /\ link[c].parent \in Runs \union {NoRun}
    BY Types DEF CInv
  <1>1. TreeKept
    <2> SUFFICES ASSUME NEW c \in Runs
                 PROVE  /\ Kept(c)'
                        /\ run[c].status = "absent" => run'[c].cp = run[c].cp /\ attempt'[c] = attempt[c]
      BY DEF TreeKept, LinksClose, AttemptsEnd
    <2>1. ASSUME link'[c].message = "acknowledged", IsOpen(link[c].parent)'
          PROVE  c \in run'[link[c].parent].cp.consumed
      <3>1. PICK p \in Runs : p = link[c].parent /\ p = link'[c].parent /\ link[c].message = "acknowledged"
        BY <1>0, <2>1 DEF LinksClose, Row, NoLink
      <3>2. IsOpen(p)'
        BY <2>1, <3>1 DEF IsOpen
      <3>3. IsOpen(p) /\ run'[p].cp = run[p].cp
        BY <3>2 DEF AttemptsEnd
      <3> QED
        BY <1>0, <3>1, <3>3 DEF Row, Kept
    <2>2. Kept(c)'
      <3>1. link'[c].parent = link[c].parent
        BY DEF LinksClose
      <3> QED
        BY <2>1, <3>1 DEF Kept, IsOpen
    <2>3. ASSUME run[c].status = "absent" PROVE run'[c].cp = run[c].cp /\ attempt'[c] = attempt[c]
      <3>1. attempt[c] = NoAttempt /\ attempt[c].pc = "none"
        BY <1>0, <2>3, NoAttemptType DEF Row
      <3> QED
        BY <3>1 DEF AttemptsEnd
    <2> QED
      BY <2>2, <2>3
  <1>2. LinksStay
    BY DEF LinksStay, LinksClose
  <1>3. ASSUME NEW r \in Runs PROVE Chain(r)' /\ \A c \in Runs : Names(r, c)' => Names(r, c)
    <2>1. Chain(r) /\ attempt'[r] \in {attempt[r], NoAttempt} /\ TypeOK
      BY DEF CInv, AttemptsEnd
    <2>2. CASE run'[r].cp = run[r].cp
      BY <1>2, <2>1, <2>2, ChainStays, ChainEnds, NamesStay
    <2>3. CASE run'[r].cp # run[r].cp
      BY <1>2, <2>1, <2>3, ChainCloses DEF AttemptsEnd
    <2> QED
      BY <2>2, <2>3
  <1> QED
    BY <1>1, <1>3, TreeStep

\* The links are left alone as well.
LEMMA RowsStep ==
  ASSUME CInv, TypeOK', UNCHANGED <<link, ledger>>, AttemptsEnd
  PROVE  CInv'
  <1>1. LinksClose
    BY DEF LinksClose, IsSettled, CInv, Row
  <1>2. \A r \in Runs : Reserved(r)'
    BY DEF Reserved, CInv, ActiveChildren, Children
  <1> QED
    BY <1>1, <1>2, ClosingStep

\* A new status for a Run that is there: it is not opened again.
LEMMA StatusType ==
  ASSUME TypeOK, NEW r \in Runs, NEW s \in Status, s # "absent", run[r].status # "absent",
         run' = [run EXCEPT ![r].status = s], s \notin Closed => IsOpen(r)
  PROVE  /\ run' \in [Runs -> [status : Status, cp : Checkpoint]]
         /\ \A q \in Runs : /\ run'[q].cp = run[q].cp /\ (run'[q].status = "absent" <=> run[q].status = "absent")
                            /\ IsOpen(q)' => IsOpen(q)
                            /\ q # r => IsOpen(q)' = IsOpen(q)
         /\ IsOpen(r)' <=> s \notin Closed
  <1>1. /\ run' \in [Runs -> [status : Status, cp : Checkpoint]] /\ run'[r].status = s
        /\ \A q \in Runs : run'[q].cp = run[q].cp /\ (q # r => run'[q] = run[q])
    BY Types
  <1>2. s \notin Closed <=> s \in {"pending", "running", "waiting"}
    BY DEF Status, Closed
  <1> QED
    BY <1>1, <1>2 DEF IsOpen

LEMMA EndType ==
  ASSUME TypeOK, NEW r \in Runs, EndAttempt(r)
  PROVE  /\ attempt' \in [Runs -> Attempt] /\ \A q \in Runs : attempt'[q] \in {attempt[q], NoAttempt}
         /\ attempt'[r].pc = "none"
  BY Types, NoAttemptType DEF EndAttempt

\* One Run gets a new status, and nothing else happens.
LEMMA StatusStep ==
  ASSUME CInv, NEW r \in Runs, NEW s \in Status, s # "absent", run[r].status # "absent",
         run' = [run EXCEPT ![r].status = s], s \notin Closed => IsOpen(r),
         attempt' \in [Runs -> Attempt], \A q \in Runs : attempt'[q] \in {attempt[q], NoAttempt},
         s \in Closed => attempt'[r].pc = "none",
         UNCHANGED <<link, ledger>>, disruptions' \in 0..MaxDisruptions
  PROVE  CInv'
  <1>1. /\ run' \in [Runs -> [status : Status, cp : Checkpoint]]
        /\ \A q \in Runs : /\ run'[q].cp = run[q].cp /\ (run'[q].status = "absent" <=> run[q].status = "absent")
                           /\ IsOpen(q)' => IsOpen(q)
                           /\ q # r => IsOpen(q)' = IsOpen(q)
        /\ IsOpen(r)' <=> s \notin Closed
    BY StatusType DEF CInv
  <1>2. ASSUME NEW q \in Runs, ~ IsOpen(q)' PROVE attempt'[q].pc = "none"
    BY <1>1, <1>2, NoAttemptType DEF CInv, Row
  <1>3. TypeOK' /\ AttemptsEnd
    BY <1>1, <1>2 DEF TypeOK, AttemptsEnd, CInv
  <1> QED
    BY <1>3, RowsStep

LEMMA FailUnpreparedStep ==
  ASSUME CInv, NEW r \in Runs, FailUnprepared(r) PROVE CInv'
  <1>1. /\ "failed" \in Status /\ "failed" \in Closed /\ run[r].status # "absent"
        /\ run' = [run EXCEPT ![r].status = "failed"] /\ attempt[r].pc = "none"
        /\ UNCHANGED <<link, ledger, attempt, disruptions>>
    BY DEF FailUnprepared, Claimable, Status, Closed
  <1>2. attempt \in [Runs -> Attempt] /\ disruptions \in 0..MaxDisruptions
    BY DEF CInv, TypeOK
  <1> QED
    BY <1>1, <1>2, StatusStep

LEMMA ReconcileStep ==
  ASSUME CInv, NEW r \in Runs, Reconcile(r) PROVE CInv'
  <1>1. /\ "running" \in Status /\ "running" \notin Closed /\ run[r].status # "absent" /\ IsOpen(r)
        /\ run' = [run EXCEPT ![r].status = "running"]
        /\ UNCHANGED <<link, ledger, disruptions>> /\ EndAttempt(r)
    BY DEF Reconcile, Ready, Wake, Status, Closed, IsOpen
  <1>2. /\ attempt' \in [Runs -> Attempt] /\ \A q \in Runs : attempt'[q] \in {attempt[q], NoAttempt}
        /\ disruptions' \in 0..MaxDisruptions
    BY <1>1, EndType DEF CInv, TypeOK
  <1> QED
    BY <1>1, <1>2, StatusStep

LEMMA TransitionRunStep ==
  ASSUME CInv, NEW r \in Runs, NEW target \in Status, TransitionRun(r, target) PROVE CInv'
  <1>0. run[r].status \in Status /\ target \in Moves[run[r].status]
    BY Types DEF CInv, TransitionRun
  <1>1. target # "absent" /\ run[r].status # "absent" /\ (target \notin Closed => IsOpen(r))
    BY <1>0 DEF Moves, Closed, IsOpen
  <1>2. /\ run' = [run EXCEPT ![r].status = target] /\ UNCHANGED <<link, ledger>> /\ Disrupt
        /\ IF target \in Closed THEN EndAttempt(r) ELSE UNCHANGED attempt
    BY DEF TransitionRun
  <1>3. /\ attempt' \in [Runs -> Attempt] /\ \A q \in Runs : attempt'[q] \in {attempt[q], NoAttempt}
        /\ target \in Closed => attempt'[r].pc = "none"
    BY <1>2, EndType, Types DEF CInv
  <1>4. disruptions' \in 0..MaxDisruptions
    BY <1>2 DEF Disrupt, CInv, TypeOK
  <1> QED
    BY <1>1, <1>2, <1>3, <1>4, StatusStep

\* An attempt that has recorded all its checkpoints holds the durable one.
LEMMA DrainedHoldsDurable ==
  ASSUME CInv, NEW r \in Runs, Drained(r) PROVE attempt[r].cp = run[r].cp /\ IsOpen(r)
  <1>1. Steps(r) = 0 /\ attempt[r].pc # "none"
    BY EmptySeq DEF Drained, Steps
  <1> QED
    BY <1>1 DEF CInv, Chain, At, Row

LEMMA SuspendClaimStep ==
  ASSUME CInv, NEW r \in Runs, SuspendClaim(r) PROVE CInv'
  <1>1. /\ "waiting" \in Status /\ "waiting" \notin Closed /\ run[r].status # "absent" /\ IsOpen(r)
        /\ run' = [run EXCEPT ![r].status = "waiting"]
        /\ UNCHANGED <<link, ledger, disruptions>> /\ EndAttempt(r)
    <2>1. attempt[r].cp = run[r].cp /\ IsOpen(r)
      BY DrainedHoldsDurable DEF SuspendClaim
    <2>2. run[r] \in [status : Status, cp : Checkpoint] /\ run[r].status # "absent"
      BY <2>1, Types DEF CInv, IsOpen
    <2>3. [run[r] EXCEPT !.status = "waiting"] = [status |-> "waiting", cp |-> run[r].cp]
      BY <2>2
    <2> QED
      BY <2>1, <2>2, <2>3 DEF SuspendClaim, Status, Closed
  <1>2. /\ attempt' \in [Runs -> Attempt] /\ \A q \in Runs : attempt'[q] \in {attempt[q], NoAttempt}
        /\ disruptions' \in 0..MaxDisruptions
    BY <1>1, EndType DEF CInv, TypeOK
  <1> QED
    BY <1>1, <1>2, StatusStep

LEMMA CrashStep ==
  ASSUME CInv, NEW r \in Runs, Crash(r) PROVE CInv'
  <1>1. disruptions' \in 0..MaxDisruptions
    BY DEF Crash, Disrupt, CInv, TypeOK
  <1> QED
    BY <1>1, AttemptEnds DEF Crash

LEMMA RecordRefusedStep ==
  ASSUME CInv, NEW r \in Runs, RecordRefused(r) PROVE CInv'
  <1>1. disruptions' \in 0..MaxDisruptions /\ attempt[r].pc # "none" /\ EndAttempt(r) /\ UNCHANGED <<run, link, ledger>>
    BY DEF RecordRefused, CInv, TypeOK
  <1> QED
    BY <1>1, AttemptEnds

\* A child that closes settles its delegation and gives its grant back.
LEMMA CloseStep ==
  ASSUME CInv, NEW r \in Runs, NEW outcome \in Closed, NEW cp \in LastCheckpoint(r), NEW spent \in 0..Grant,
         Close(r, outcome, cp, spent), attempt[r].pc # "none", UNCHANGED disruptions
  PROVE  CInv'
  <1> SUFFICES ASSUME NEW p, p = link[r].parent PROVE CInv'
    OBVIOUS
  <1> DEFINE last == [status |-> outcome, cp |-> cp]
             closed == [run EXCEPT ![r] = last]
             wakes == /\ link[r].state = Active
                      /\ ActiveChildren(p) = {r}
                      /\ run[p].status = "waiting"
             ended == [attempt EXCEPT ![r] = NoAttempt]
  <1>t. /\ run \in [Runs -> [status : Status, cp : Checkpoint]] /\ link \in [Runs -> Link]
        /\ ledger \in [Runs -> Ledger] /\ attempt \in [Runs -> Attempt]
    BY Types DEF CInv
  <1>0. IsOpen(r) /\ cp \in Checkpoint
    BY Types, NoAttemptType DEF CInv, Row, LastCheckpoint
  <1>1. link[r].state = Active => p \in Runs
    BY Types DEF CInv, Row, NoLink, Active
  <1>2. /\ closed \in [Runs -> [status : Status, cp : Checkpoint]]
        /\ closed[r] = last /\ \A q \in Runs : q # r => closed[q] = run[q]
    <2>1. last \in [status : Status, cp : Checkpoint]
      BY <1>0 DEF Status
    <2> QED
      BY <1>t, <2>1
  <1>3. /\ run' \in [Runs -> [status : Status, cp : Checkpoint]] /\ run'[r] = last
        /\ \A q \in Runs : q # r => /\ run'[q].cp = run[q].cp
                                    /\ \/ run'[q].status = run[q].status
                                       \/ run'[q].status = "running" /\ run[q].status = "waiting"
    <2>1. CASE wakes
      <3>1. run' = Wake(closed, p) /\ p \in Runs /\ run[p].status = "waiting" /\ p # r
        BY <1>1, <2>1 DEF Close, CInv, Row
      <3> HIDE DEF closed, wakes, last
      <3>2. run' \in [Runs -> [status : Status, cp : Checkpoint]] /\ run'[p].status = "running"
        BY <1>2, <3>1 DEF Wake, Status
      <3>3. run'[p].cp = closed[p].cp /\ \A q \in Runs : q # p => run'[q] = closed[q]
        BY <1>2, <3>1 DEF Wake
      <3> QED
        BY <1>2, <3>1, <3>2, <3>3
    <2>2. CASE ~ wakes
      <3>1. run' = closed
        BY <2>2 DEF Close
      <3> HIDE DEF closed, wakes, last
      <3> QED
        BY <1>2, <3>1
    <2> QED
      BY <2>1, <2>2
  <1>4. attempt' \in [Runs -> Attempt] /\ attempt'[r] = NoAttempt /\ \A q \in Runs : attempt'[q] \in {attempt[q], NoAttempt}
    <2>1. attempt' = ended \/ attempt' = [ended EXCEPT ![p] = NoAttempt]
      BY DEF Close
    <2> QED
      BY <1>t, <2>1, NoAttemptType
  <1>5. AttemptsEnd
    <2>1. last.status = outcome /\ last.cp = cp
      OBVIOUS
    <2> HIDE DEF closed, wakes, ended, last
    <2>2. ~ IsOpen(r)' /\ run'[r].status # "absent" /\ run'[r].cp \in LastCheckpoint(r) /\ run[r].status # "absent"
      BY <1>0, <1>3, <2>1 DEF IsOpen, Closed
    <2>3. ASSUME NEW q \in Runs, q # r
          PROVE  /\ run'[q].status = "absent" <=> run[q].status = "absent"
                 /\ IsOpen(q)' <=> IsOpen(q)
                 /\ run'[q].cp = run[q].cp
      BY <1>3, <2>3 DEF IsOpen
    <2>4. ASSUME NEW q \in Runs, ~ IsOpen(q)' PROVE attempt'[q].pc = "none"
      BY <1>0, <1>4, <2>3, <2>4, NoAttemptType DEF CInv, Row
    <2> QED
      BY <1>0, <1>4, <2>2, <2>3, <2>4 DEF AttemptsEnd
  <1> HIDE DEF closed, wakes, ended, last
  <1>6. CASE link[r].state # Active
    <2>1. UNCHANGED <<link, ledger>>
      BY <1>6 DEF Close
    <2>2. TypeOK'
      BY <1>3, <1>4, <2>1 DEF TypeOK, CInv
    <2> QED
      BY <1>5, <2>1, <2>2, RowsStep
  <1>7. CASE link[r].state = Active
    <2>1. /\ link' = [link EXCEPT ![r].state = outcome, ![r].message = "queued"]
          /\ ledger' = [ledger EXCEPT ![r].direct = spent, ![p].reserved = @ - Released(spent), ![p].consumed = @ + spent]
      BY <1>7 DEF Close
    <2>2. /\ link' \in [Runs -> Link] /\ \A c \in Runs : c # r => link'[c] = link[c]
          /\ link'[r].parent = p /\ link'[r].ancestors = link[r].ancestors
          /\ link'[r].state = outcome /\ link'[r].message = "queued"
      <3> DEFINE row == [link[r] EXCEPT !.state = outcome, !.message = "queued"]
      <3>1. row \in Link /\ row.parent = p /\ row.ancestors = link[r].ancestors /\ row.state = outcome /\ row.message = "queued"
        <4>1. link[r] \in Link
          BY <1>t
        <4> QED
          BY <4>1 DEF Link
      <3>2. link' = [link EXCEPT ![r] = row]
        BY <1>t, <2>1 DEF Link
      <3> HIDE DEF row
      <3> QED
        BY <1>t, <3>1, <3>2
    <2>3. p \in Runs /\ r \in Children(p) /\ r \in ActiveChildren(p)
      BY <1>1, <1>7 DEF Children, ActiveChildren
    <2>4. \A q \in Runs : Children(q)' = Children(q)
      BY <2>2 DEF Children
    <2>5. outcome # Active
      BY DEF Closed, Active
    <2>6. \A q \in Runs : ActiveChildren(q)' = ActiveChildren(q) \ {r}
      BY <2>2, <2>4, <2>5 DEF ActiveChildren, Children
    <2>7. /\ IsFiniteSet(ActiveChildren(p)) /\ Cardinality(ActiveChildren(p)) \in Nat \ {0}
          /\ IsFiniteSet(ActiveChildren(p) \ {r})
          /\ Cardinality(ActiveChildren(p) \ {r}) = Cardinality(ActiveChildren(p)) - 1
          /\ ledger[p].reserved = Grant * Cardinality(ActiveChildren(p))
      <3>1. IsFiniteSet(ActiveChildren(p)) /\ ledger[p].reserved = Grant * Cardinality(ActiveChildren(p))
        BY <2>3 DEF CInv, Reserved
      <3>2. Cardinality(ActiveChildren(p)) \in Nat /\ Cardinality(ActiveChildren(p)) # 0
        BY <2>3, <3>1, FS_CardinalityType, FS_EmptySet
      <3> QED
        BY <2>3, <3>1, <3>2, FS_RemoveElement
    <2>8. ledger[p].reserved - Grant \in Nat /\ ledger[p].reserved - Grant = Grant * (Cardinality(ActiveChildren(p)) - 1)
      <3> SUFFICES ASSUME NEW n \in Nat \ {0} PROVE Grant * n - Grant \in Nat /\ Grant * n - Grant = Grant * (n - 1)
        BY <2>7
      <3>1. Grant * n - Grant = Grant * (n - 1)
        OBVIOUS
      <3> QED
        BY <3>1
    <2>9. /\ ledger' \in [Runs -> Ledger] /\ ledger'[p].reserved = ledger[p].reserved - Grant
          /\ \A q \in Runs : q # p => ledger'[q].reserved = ledger[q].reserved
      <3> DEFINE mid == [ledger EXCEPT ![r].direct = spent]
                 row == [mid[p] EXCEPT !.reserved = @ - Grant, !.consumed = @ + spent]
      <3>1. mid \in [Runs -> Ledger] /\ \A q \in Runs : /\ mid[q].reserved = ledger[q].reserved
                                                        /\ mid[q].consumed = ledger[q].consumed
        <4>1. spent \in Nat /\ ledger[r] \in Ledger
          BY <1>t
        <4> QED
          BY <1>t, <4>1 DEF Ledger
      <3>a. ledger' = [mid EXCEPT ![p].reserved = @ - Grant, ![p].consumed = @ + spent]
        BY <2>1 DEF Released
      <3> HIDE DEF mid
      <3>2. ledger' = [mid EXCEPT ![p] = row]
        BY <2>3, <3>1, <3>a
      <3>3. row \in Ledger /\ row.reserved = ledger[p].reserved - Grant
        <4>1. ledger[p].consumed + spent \in Nat /\ mid[p] \in Ledger
          BY <2>3, <3>1, Types DEF CInv
        <4> QED
          BY <2>3, <2>8, <3>1, <4>1 DEF Ledger
      <3> HIDE DEF row
      <3> QED
        BY <2>3, <3>1, <3>2, <3>3
    <2>10. \A q \in Runs : Reserved(q)'
      <3>1. Reserved(p)'
        BY <2>3, <2>6, <2>7, <2>8, <2>9 DEF Reserved
      <3>2. ASSUME NEW q \in Runs, q # p PROVE Reserved(q)'
        <4>1. r \notin ActiveChildren(q)
          BY <3>2 DEF ActiveChildren, Children
        <4>2. ActiveChildren(q)' = ActiveChildren(q) /\ Reserved(q)
          BY <2>6, <4>1 DEF CInv
        <4> QED
          BY <2>9, <3>2, <4>2 DEF Reserved
      <3> QED
        BY <3>1, <3>2
    <2>11. TypeOK'
      BY <1>3, <1>4, <2>2, <2>9 DEF TypeOK, CInv
    <2>12. LinksClose
      <3>1. IsSettled(r)' /\ p # NoRun
        BY <2>2, <2>3 DEF IsSettled
      <3>2. ASSUME NEW c \in Runs, c # r PROVE IsSettled(c)' = IsSettled(c) /\ (link[c].message # "none" => IsSettled(c))
        BY <2>2, <3>2 DEF IsSettled, CInv, Row
      <3> QED
        BY <2>2, <3>1, <3>2 DEF LinksClose
    <2> QED
      BY <1>5, <2>10, <2>11, <2>12, ClosingStep
  <1> QED
    BY <1>6, <1>7

LEMMA CompleteClaimStep ==
  ASSUME CInv, NEW r \in Runs, NEW cp, NEW spent \in 0..Grant, CompleteClaim(r, cp, spent) PROVE CInv'
  <1>0. /\ attempt[r].pc # "none" /\ attempt[r].outcome \in Closed /\ UNCHANGED disruptions
        /\ cp \in LastCheckpoint(r)
    BY DEF CompleteClaim, Drained, Returned, LastCheckpoint
  <1>1. CASE Close(r, attempt[r].outcome, cp, spent)
    BY <1>0, <1>1, CloseStep
  <1>2. CASE attempt' = [attempt EXCEPT ![r].pc = "aborting"] /\ UNCHANGED <<run, link, ledger>>
    BY <1>0, <1>2, ReturnStep
  <1> QED
    BY <1>1, <1>2 DEF CompleteClaim

LEMMA FailClaimStep ==
  ASSUME CInv, NEW r \in Runs, FailClaim(r) PROVE CInv'
  <1>1. /\ attempt[r].pc # "none" /\ "failed" \in Closed /\ 0 \in 0..Grant
        /\ Close(r, "failed", attempt[r].base, 0) /\ UNCHANGED disruptions
        /\ attempt[r].base \in LastCheckpoint(r)
    BY DEF FailClaim, Closed, LastCheckpoint
  <1> QED
    BY <1>1, CloseStep

\* cancel_tree takes the cancelled delegations of every Run off its reservation.
LEMMA CancelTreeStep ==
  ASSUME CInv, NEW r \in Runs, CancelTree(r) PROVE CInv'
  <1> DEFINE tree == Subtree(r)
             cancelled == {c \in tree : link[c].state = Active}
             freed(p) == Grant * Cardinality(cancelled \intersect Children(p))
  <1>t. /\ run \in [Runs -> [status : Status, cp : Checkpoint]] /\ link \in [Runs -> Link]
        /\ ledger \in [Runs -> Ledger] /\ attempt \in [Runs -> Attempt]
    BY Types DEF CInv
  <1>0. /\ run' = [d \in Runs |-> IF d \in tree /\ IsOpen(d) THEN [run[d] EXCEPT !.status = "cancelled"] ELSE run[d]]
        /\ link' = [c \in Runs |-> IF c \in cancelled THEN [link[c] EXCEPT !.state = "cancelled"] ELSE link[c]]
        /\ ledger' = [q \in Runs |->
                        [ledger[q] EXCEPT !.reserved = IF freed(q) < @ THEN @ - freed(q) ELSE 0]]
        /\ attempt' = [d \in Runs |-> IF d \in tree THEN NoAttempt ELSE attempt[d]]
        /\ Disrupt
    BY DEF CancelTree
  <1>1. /\ run' \in [Runs -> [status : Status, cp : Checkpoint]]
        /\ \A q \in Runs : run'[q].cp = run[q].cp /\ (run'[q].status = "absent" <=> run[q].status = "absent")
    BY <1>0, <1>t DEF Status, Closed, IsOpen
  <1>2. attempt' \in [Runs -> Attempt] /\ \A q \in Runs : attempt'[q] \in {attempt[q], NoAttempt}
    BY <1>0, <1>t, NoAttemptType
  <1>o. ASSUME NEW q \in Runs
        PROVE  /\ IsOpen(q)' => IsOpen(q)
               /\ ~ IsOpen(q)' => attempt'[q].pc = "none"
    <2>1. CASE q \in tree /\ IsOpen(q)
      <3>1. attempt'[q] = NoAttempt
        BY <1>0, <2>1
      <3> QED
        BY <2>1, <3>1, NoAttemptType
    <2>2. CASE ~ (q \in tree /\ IsOpen(q))
      <3>1. run'[q] = run[q]
        BY <1>0, <2>2
      <3>2. ~ IsOpen(q) => attempt[q].pc = "none"
        BY DEF CInv, Row
      <3> QED
        BY <1>2, <3>1, <3>2, NoAttemptType DEF IsOpen
    <2> QED
      BY <2>1, <2>2
  <1>3. \A c : c \in cancelled => link[c].state = Active
    OBVIOUS
  <1>4. \A q \in Runs : ActiveChildren(q) \intersect cancelled = cancelled \intersect Children(q)
    BY DEF ActiveChildren
  <1> HIDE DEF cancelled, tree
  <1>5. ASSUME NEW c \in Runs
        PROVE  /\ link'[c] \in Link
               /\ link'[c].parent = link[c].parent /\ link'[c].ancestors = link[c].ancestors
               /\ link'[c].message = link[c].message
               /\ c \in cancelled => link'[c].state = "cancelled"
               /\ c \notin cancelled => link'[c] = link[c]
    <2>0. link[c] \in Link
      BY <1>t
    <2>1. CASE c \in cancelled
      <3>1. link'[c] = [link[c] EXCEPT !.state = "cancelled"]
        BY <1>0, <2>1
      <3> QED
        BY <2>0, <2>1, <3>1 DEF Link, Closed
    <2>2. CASE c \notin cancelled
      <3>1. link'[c] = link[c]
        BY <1>0, <2>2
      <3> QED
        BY <2>0, <2>2, <3>1
    <2> QED
      BY <2>1, <2>2
  <1>6. \A q \in Runs : Children(q)' = Children(q) /\ ActiveChildren(q)' = ActiveChildren(q) \ cancelled
    <2>1. "cancelled" # Active
      BY DEF Active
    <2> QED
      BY <1>5, <2>1 DEF Children, ActiveChildren
  <1>7. ASSUME NEW q \in Runs
        PROVE  /\ IsFiniteSet(ActiveChildren(q) \ cancelled)
               /\ ledger'[q] \in Ledger
               /\ ledger'[q].reserved = Grant * Cardinality(ActiveChildren(q) \ cancelled)
    <2>1. IsFiniteSet(ActiveChildren(q)) /\ ledger[q].reserved = Grant * Cardinality(ActiveChildren(q))
      BY DEF CInv, Reserved
    <2>2. /\ IsFiniteSet(ActiveChildren(q) \ cancelled) /\ IsFiniteSet(cancelled \intersect Children(q))
          /\ Cardinality(ActiveChildren(q) \ cancelled) = Cardinality(ActiveChildren(q)) - Cardinality(cancelled \intersect Children(q))
          /\ Cardinality(ActiveChildren(q) \ cancelled) \in Nat
          /\ Cardinality(ActiveChildren(q)) \in Nat /\ Cardinality(cancelled \intersect Children(q)) \in Nat
      <3>1. IsFiniteSet(ActiveChildren(q) \ cancelled) /\ IsFiniteSet(cancelled \intersect Children(q))
        BY <1>4, <2>1, FS_Difference, FS_Intersection, FS_Subset
      <3>0. Cardinality(ActiveChildren(q) \ cancelled) = Cardinality(ActiveChildren(q)) - Cardinality(ActiveChildren(q) \cap cancelled)
        BY <2>1, FS_Difference
      <3>2. Cardinality(ActiveChildren(q) \ cancelled) = Cardinality(ActiveChildren(q)) - Cardinality(cancelled \intersect Children(q))
        BY <1>4, <3>0
      <3> QED
        BY <2>1, <3>1, <3>2, FS_CardinalityType
    <2>3. ASSUME NEW a \in Nat, NEW x \in Nat, a - x \in Nat
          PROVE  (IF Grant * x < Grant * a THEN Grant * a - Grant * x ELSE 0) = Grant * (a - x)
      <3>1. PICK y \in Nat : y = a - x
        BY <2>3
      <3>2. a = x + y
        BY <3>1
      <3>3. Grant * a = Grant * x + Grant * y /\ Grant * y \in Nat /\ Grant * x \in Nat
        BY <3>2
      <3> HIDE <3>2
      <3> QED
        BY <3>1, <3>3
    <2>4. [ledger[q] EXCEPT !.reserved = IF freed(q) < @ THEN @ - freed(q) ELSE 0].reserved
             = IF freed(q) < ledger[q].reserved THEN ledger[q].reserved - freed(q) ELSE 0
      BY Types DEF CInv, Ledger
    <2>5. ledger'[q].reserved = Grant * Cardinality(ActiveChildren(q) \ cancelled)
      BY <1>0, <2>1, <2>2, <2>3, <2>4
    <2>6. ledger'[q] \in Ledger
      <3>1. ledger'[q].reserved \in Nat
        BY <2>2, <2>5
      <3>2. ledger'[q] = [ledger[q] EXCEPT !.reserved = ledger'[q].reserved]
        BY <1>0, <1>t, <2>4
      <3>3. \A n \in Nat : [ledger[q] EXCEPT !.reserved = n] \in Ledger
        BY <1>t DEF Ledger
      <3> QED
        BY <3>1, <3>2, <3>3
    <2> QED
      BY <2>2, <2>5, <2>6
  <1> HIDE DEF freed
  <1>8. \A q \in Runs : Reserved(q)'
    BY <1>6, <1>7 DEF Reserved
  <1>9. TypeOK'
    <2>1. ledger' \in [Runs -> Ledger] /\ link' \in [Runs -> Link]
      BY <1>0, <1>5, <1>7
    <2>2. disruptions' \in 0..MaxDisruptions
      BY <1>0 DEF Disrupt, CInv, TypeOK
    <2> QED
      BY <1>1, <1>2, <2>1, <2>2 DEF TypeOK
  <1>10. LinksClose
    <2> SUFFICES ASSUME NEW c \in Runs
                 PROVE  /\ IsSettled(c) => IsSettled(c)'
                        /\ link[c].parent = NoRun => link'[c] = link[c]
                        /\ link[c].message # "none" => IsSettled(c)'
      BY <1>5 DEF LinksClose
    <2>1. Row(c) /\ (c \in cancelled => link[c].state = Active /\ IsSettled(c)')
      BY <1>3, <1>5 DEF CInv, IsSettled, Closed
    <2>2. c \notin cancelled => IsSettled(c)' = IsSettled(c)
      BY <1>5 DEF IsSettled
    <2> QED
      BY <1>5, <2>1, <2>2 DEF Row, NoLink, Active
  <1>11. AttemptsEnd
    BY <1>1, <1>2, <1>o DEF AttemptsEnd
  <1> QED
    BY <1>8, <1>9, <1>10, <1>11, ClosingStep

-----------------------------------------------------------------------------
(* The invariant                                                           *)

LEMMA InitCInv == Init => CInv
  <1> SUFFICES ASSUME Init PROVE CInv
    OBVIOUS
  <1>1. Start \in Checkpoint /\ Start.state = "start" /\ Mentioned(Start) = {}
    BY DEF Start, Checkpoint, LoopState, Mentioned
  <1>2. NoLink \in Link /\ NoLink.parent = NoRun /\ NoLink.state = "none" /\ NoLink.message = "none"
    BY DEF NoLink, Link
  <1>3. /\ LedgerOf(RootLimit) \in Ledger /\ LedgerOf(0) \in Ledger
        /\ LedgerOf(RootLimit).reserved = 0 /\ LedgerOf(0).reserved = 0
    BY DEF LedgerOf, Ledger
  <1>4. TypeOK
    <2>1. run \in [Runs -> [status : Status, cp : Checkpoint]]
      BY <1>1 DEF Init, Status
    <2>2. link \in [Runs -> Link] /\ attempt \in [Runs -> Attempt] /\ disruptions \in 0..MaxDisruptions
      BY <1>2, NoAttemptType DEF Init
    <2>3. ledger \in [Runs -> Ledger]
      BY <1>3 DEF Init
    <2> QED
      BY <2>1, <2>2, <2>3 DEF TypeOK
  <1>5. ASSUME NEW r \in Runs PROVE Steps(r) = 0 /\ At(r, 0) = Start
    BY NoAttemptType DEF Init, Steps, At
  <1>6. ASSUME NEW r \in Runs PROVE Children(r) = {} /\ ActiveChildren(r) = {}
    BY <1>2 DEF Init, Children, ActiveChildren
  <1>7. ASSUME NEW r \in Runs PROVE Chain(r) /\ Row(r) /\ Reserved(r)
    <2>1. Chain(r)
      BY <1>1, <1>5, NoAttemptType DEF Init, Chain
    <2>2. Row(r)
      BY <1>2, NoAttemptType DEF Init, Row, Kept, IsSettled, IsOpen
    <2>3. Reserved(r)
      <3>1. ledger[r].reserved = 0 /\ Grant * 0 = 0
        BY <1>3 DEF Init
      <3> QED
        BY <1>6, <3>1, FS_EmptySet DEF Reserved
    <2> QED
      BY <2>1, <2>2, <2>3
  <1>8. \A r, c \in Runs : ~ Names(r, c)
    BY <1>1, <1>5, NoAttemptType DEF Init, Names
  <1> QED
    BY <1>4, <1>7, <1>8 DEF CInv

LEMMA NextCInv == CInv /\ [Next]_vars => CInv'
  <1> SUFFICES ASSUME CInv, [Next]_vars PROVE CInv'
    OBVIOUS
  <1>1. CASE UNCHANGED vars
    <2>1. UNCHANGED <<run, link, ledger, attempt, disruptions>>
      BY <1>1 DEF vars
    <2>2. TypeOK' /\ AttemptsEnd
      BY <2>1 DEF CInv, TypeOK, AttemptsEnd, Row, IsOpen
    <2> QED
      BY <2>1, <2>2, RowsStep
  <1>2. ASSUME NEW r \in Runs, WorkerStep(r) PROVE CInv'
    <2>1. CASE Prepare(r) \/ FailUnprepared(r) \/ Resume(r)
      BY <2>1, PrepareStep, FailUnpreparedStep, ResumeStep
    <2>2. CASE \E calls \in SUBSET Runs : ModelDelegates(r, calls)
      BY <2>2, ModelDelegatesStep
    <2>3. CASE ModelAnswers(r) \/ Park(r)
      BY <2>3, ModelAnswersStep, ParkStep
    <2>4. CASE LoopFails(r) \/ LoopCancelled(r) \/ Abort(r)
      <3>1. /\ Return(r, "failed") \/ Return(r, "cancelled") \/ attempt' = [attempt EXCEPT ![r].pc = "aborting"]
            /\ attempt[r].pc # "none" /\ UNCHANGED <<run, link, ledger, disruptions>>
        BY <2>4 DEF LoopFails, LoopCancelled, Abort, Executing
      <3> QED
        BY <3>1, ReturnStep
    <2>5. CASE \E c \in Runs : Delegate(r, c)
      BY <2>5, DelegateStep
    <2>6. CASE RecordCheckpoint(r) \/ RecordRefused(r)
      BY <2>6, RecordCheckpointStep, RecordRefusedStep
    <2>7. CASE \E cp \in Returned(r), spent \in 0..Grant : CompleteClaim(r, cp, spent)
      BY <2>7, CompleteClaimStep
    <2>8. CASE FailClaim(r) \/ SuspendClaim(r)
      BY <2>8, FailClaimStep, SuspendClaimStep
    <2> QED
      BY <1>2, <2>1, <2>2, <2>3, <2>4, <2>5, <2>6, <2>7, <2>8 DEF WorkerStep
  <1>3. ASSUME NEW r \in Runs, Reconcile(r) \/ Crash(r) \/ Operator(r) PROVE CInv'
    BY <1>3, ReconcileStep, CrashStep, CancelTreeStep, TransitionRunStep DEF Operator
  <1> QED
    BY <1>1, <1>2, <1>3 DEF Next

\* The invariant that carries the proofs: the ledgers hold the active grants, every
\* attempt goes on from the durable checkpoint by steps that lose no result, and no two
\* Runs name the same child.
THEOREM TreesAreSound == Spec => []CInv
  BY InitCInv, NextCInv, PTL DEF Spec

\* Every ledger holds exactly the grants of the delegations that are still active
\* (_reserve, _complete_child_coordination, cancel_tree).
THEOREM BudgetsBalance == Spec => []ReservationsMatch
  <1>1. CInv => ReservationsMatch
    BY DEF CInv, Reserved, ReservationsMatch
  <1> QED
    BY <1>1, TreesAreSound, PTL

\* What the durable checkpoint of an open Run says of the tree is true of it: an
\* acknowledged result is in it and a child it waits for exists (record_event,
\* _coordination_recovery).
THEOREM CheckpointsAreTrue == Spec => []CheckpointMatchesTree
  <1>1. ASSUME CInv PROVE AckedIsDurable
    BY <1>1 DEF AckedIsDurable, CInv, Row, Kept
  <1>2. ASSUME CInv PROVE WaitsForRealChildren
    <2> SUFFICES ASSUME NEW r \in Runs, run[r].cp.state = "waiting" PROVE run[r].cp.calls \subseteq Children(r)
      BY DEF WaitsForRealChildren
    <2>1. 0 \in 0..Steps(r) /\ At(r, 0) = run[r].cp
      BY <1>2, Places DEF CInv, At
    <2> QED
      BY <1>2, <2>1 DEF CInv, Chain
  <1>3. CInv => CheckpointMatchesTree
    BY <1>1, <1>2 DEF CheckpointMatchesTree
  <1> QED
    BY <1>3, TreesAreSound, PTL

-----------------------------------------------------------------------------
(* Leaving a wait                                                          *)

\* Only record_event changes the durable checkpoint of a Run that stays open.
LEMMA OthersKeepCheckpoint ==
  ASSUME CInv, [Next]_vars, \A r \in Runs : ~ RecordCheckpoint(r)
  PROVE  \A q \in Runs : IsOpen(q)' => run'[q].cp = run[q].cp
  <1>t. run \in [Runs -> [status : Status, cp : Checkpoint]]
    BY Types DEF CInv
  <1>1. CASE UNCHANGED run
    BY <1>1
  <1>2. ASSUME NEW r \in Runs, NEW s, run' = [run EXCEPT ![r].status = s] PROVE \A q \in Runs : run'[q].cp = run[q].cp
    BY <1>t, <1>2
  <1>3. ASSUME NEW r \in Runs, Prepare(r) \/ FailUnprepared(r) \/ Reconcile(r) \/ \E s : TransitionRun(r, s)
        PROVE  \A q \in Runs : run'[q].cp = run[q].cp
    BY <1>2, <1>3 DEF Prepare, FailUnprepared, Reconcile, Wake, TransitionRun
  <1>4. ASSUME NEW r \in Runs, NEW c \in Runs, Delegate(r, c) PROVE \A q \in Runs : run'[q].cp = run[q].cp
    <2>1. CASE CreateChild(r, c) /\ MayDelegate(r) /\ ~ (run[r].status = "running" /\ link[c].parent = r)
      <3>1. /\ run[c] = [status |-> "absent", cp |-> Start]
            /\ run' = [run EXCEPT ![c] = [status |-> "pending", cp |-> Start]]
        BY <1>4, <2>1, ChildIsNew DEF Delegate, MayDelegate, CreateChild
      <3> QED
        BY <1>t, <3>1
    <2> QED
      BY <1>1, <1>4, <2>1 DEF Delegate
  <1>5. ASSUME NEW r \in Runs, NEW outcome \in Closed, NEW cp \in Checkpoint, NEW spent, Close(r, outcome, cp, spent)
        PROVE  \A q \in Runs : IsOpen(q)' => run'[q].cp = run[q].cp
    <2> DEFINE row == [status |-> outcome, cp |-> cp]
               closed == [run EXCEPT ![r] = row]
    <2>0. row.status \notin {"pending", "running", "waiting"}
      BY DEF Closed
    <2>r. row \in [status : Status, cp : Checkpoint]
      BY DEF Status
    <2>1. run' = closed \/ (run' = Wake(closed, link[r].parent) /\ link[r].parent # r)
      BY <1>5 DEF Close, CInv, Row
    <2> HIDE DEF row
    <2>2. /\ closed \in [Runs -> [status : Status, cp : Checkpoint]]
          /\ closed[r] = row /\ \A q \in Runs : q # r => closed[q] = run[q]
      BY <1>t, <2>r
    <2> HIDE DEF closed
    <2> SUFFICES ASSUME NEW q \in Runs, IsOpen(q)' PROVE run'[q].cp = run[q].cp
      OBVIOUS
    <2>3. run'[q].cp = closed[q].cp /\ (q = r => run'[q] = closed[q])
      BY <2>1, <2>2 DEF Wake
    <2>4. q # r
      BY <2>0, <2>2, <2>3 DEF IsOpen
    <2> QED
      BY <2>2, <2>3, <2>4
  <1>6. ASSUME NEW r \in Runs, NEW cp, NEW spent, CompleteClaim(r, cp, spent) \/ FailClaim(r)
        PROVE  \A q \in Runs : IsOpen(q)' => run'[q].cp = run[q].cp
    <2>1. (attempt[r].outcome \in Closed /\ cp \in Checkpoint) \/ FailClaim(r)
      BY <1>6, Types, NoAttemptType DEF CompleteClaim, Returned, CInv
    <2>2. "failed" \in Closed /\ attempt[r].base \in Checkpoint
      BY Types DEF Closed, CInv
    <2> QED
      BY <1>1, <1>5, <1>6, <2>1, <2>2 DEF CompleteClaim, FailClaim
  <1>7. ASSUME NEW r \in Runs, SuspendClaim(r) PROVE \A q \in Runs : run'[q].cp = run[q].cp
    <2>1. attempt[r].cp = run[r].cp
      BY <1>7, DrainedHoldsDurable DEF SuspendClaim
    <2> QED
      BY <1>7, <1>t, <2>1 DEF SuspendClaim
  <1>8. ASSUME NEW r \in Runs, CancelTree(r) PROVE \A q \in Runs : run'[q].cp = run[q].cp
    BY <1>8, <1>t DEF CancelTree
  <1> QED
    BY <1>1, <1>3, <1>4, <1>6, <1>7, <1>8
    DEF Next, vars, WorkerStep, Operator, Resume, ModelDelegates, ModelAnswers, LoopFails, LoopCancelled, Park,
        RecordRefused, Abort, Crash

\* The durable checkpoint of a parent that stays open leaves a wait only with the results
\* of all the children it waited for, each settled (_resume_coordination, record_event).
THEOREM ParentsHaveAllResults == Spec => ProceedsWithAllResults
  <1>1. ASSUME CInv, [Next]_vars, NEW r \in Runs, run[r].cp.state = "waiting", run[r].cp # run'[r].cp, IsOpen(r)'
        PROVE  /\ run[r].cp.calls \subseteq run'[r].cp.consumed
               /\ \A c \in run[r].cp.calls : link[c].state \in Closed
    <2>t. run \in [Runs -> [status : Status, cp : Checkpoint]]
      BY <1>1, Types DEF CInv
    <2>1. PICK q \in Runs : RecordCheckpoint(q)
      BY <1>1, OthersKeepCheckpoint
    <2>2. run' = [run EXCEPT ![q].cp = Head(attempt[q].stream)] /\ attempt[q].stream # <<>>
      BY <2>1 DEF RecordCheckpoint
    <2>3. q = r /\ run'[r].cp = At(r, 1) /\ run[r].cp = At(r, 0)
      BY <1>1, <2>t, <2>2 DEF At
    <2>4. 1 \in 1..Steps(r)
      <3>1. attempt[r].stream \in Seq(Checkpoint)
        BY <1>1, Types DEF CInv
      <3> QED
        BY <2>2, <2>3, <3>1, EmptySeq DEF Steps
    <2>5. Follows(At(r, 0), At(r, 1))
      BY <1>1, <2>4 DEF CInv, Chain
    <2> QED
      BY <1>1, <2>3, <2>5 DEF Follows, IsSettled
  <1>2. CInv /\ [Next]_vars => [\A r \in Runs :
            run[r].cp.state = "waiting" /\ run[r].cp # run'[r].cp /\ IsOpen(r)'
            => /\ run[r].cp.calls \subseteq run'[r].cp.consumed
               /\ \A c \in run[r].cp.calls : link[c].state \in Closed]_vars
    BY <1>1
  <1> QED
    BY <1>2, TreesAreSound, PTL DEF Spec, ProceedsWithAllResults

-----------------------------------------------------------------------------
(* Cancelling a tree                                                       *)

\* The levels below r, as Below defines them.
Levels(f, r) ==
    f = [n \in Nat |-> IF n = 0 THEN {r} ELSE f[n - 1] \union UNION {Children(p) : p \in f[n - 1]}]

\* Such levels exist: level n holds the ends of the paths of n steps from r, of which each
\* stays where it is or goes on to a child.
Paths(r, n) == {p \in [0..n -> Runs] :
                   /\ p[0] = r
                   /\ \A i \in 1..n : p[i] = p[i - 1] \/ p[i] \in Children(p[i - 1])}

LEMMA LevelsExist ==
  ASSUME NEW r \in Runs PROVE \E f : Levels(f, r)
  <1> DEFINE f == [n \in Nat |-> {p[n] : p \in Paths(r, n)}]
  <1>1. f[0] = {r}
    <2>1. [i \in 0..0 |-> r] \in Paths(r, 0)
      BY DEF Paths
    <2>2. \A p \in Paths(r, 0) : p[0] = r
      BY DEF Paths
    <2> QED
      BY <2>1, <2>2
  <1>2. ASSUME NEW n \in Nat \ {0} PROVE f[n] \subseteq f[n - 1] \union UNION {Children(p) : p \in f[n - 1]}
    <2> SUFFICES ASSUME NEW p \in Paths(r, n)
                 PROVE  \E d \in f[n - 1] : p[n] = d \/ p[n] \in Children(d)
      BY <1>2
    <2> DEFINE q == [i \in 0..(n - 1) |-> p[i]]
    <2>1. q \in Paths(r, n - 1)
      <3>1. p \in [0..n -> Runs] /\ p[0] = r /\ \A i \in 1..n : p[i] = p[i - 1] \/ p[i] \in Children(p[i - 1])
        BY DEF Paths
      <3>2. q \in [0..(n - 1) -> Runs] /\ q[0] = r
        BY <3>1
      <3>3. \A i \in 1..(n - 1) : q[i] = p[i] /\ q[i - 1] = p[i - 1] /\ i \in 1..n
        OBVIOUS
      <3> HIDE DEF q
      <3> QED
        BY <3>1, <3>2, <3>3 DEF Paths
    <2>2. q[n - 1] = p[n - 1] /\ q[n - 1] \in f[n - 1] /\ n \in 1..n
      BY <2>1
    <2> QED
      BY <2>2 DEF Paths
  <1>3. ASSUME NEW n \in Nat \ {0}, NEW d \in f[n - 1], NEW x, x = d \/ x \in Children(d) PROVE x \in f[n]
    <2>1. PICK p \in Paths(r, n - 1) : d = p[n - 1]
      OBVIOUS
    <2> DEFINE q == [i \in 0..n |-> IF i = n THEN x ELSE p[i]]
    <2>2. q \in Paths(r, n)
      <3>1. p \in [0..(n - 1) -> Runs] /\ p[0] = r
            /\ \A i \in 1..(n - 1) : p[i] = p[i - 1] \/ p[i] \in Children(p[i - 1])
        BY DEF Paths
      <3>2. d \in Runs /\ x \in Runs
        BY <1>3, <2>1, <3>1 DEF Children
      <3>3. q \in [0..n -> Runs] /\ q[0] = r
        BY <3>1, <3>2
      <3>4. q[n] = x /\ q[n - 1] = d /\ \A i \in 1..(n - 1) : q[i] = p[i] /\ q[i - 1] = p[i - 1]
        BY <2>1
      <3> HIDE DEF q
      <3>5. \A i \in 1..n : i = n \/ i \in 1..(n - 1)
        OBVIOUS
      <3> QED
        BY <1>3, <3>1, <3>3, <3>4, <3>5 DEF Paths
    <2>3. q[n] = x
      OBVIOUS
    <2> HIDE DEF q
    <2> QED
      BY <2>2, <2>3
  <1>4. ASSUME NEW n \in Nat \ {0} PROVE f[n] = f[n - 1] \union UNION {Children(p) : p \in f[n - 1]}
    <2>1. f[n] \subseteq f[n - 1] \union UNION {Children(p) : p \in f[n - 1]}
      BY <1>2
    <2>2. \A d \in f[n - 1] : d \in f[n] /\ Children(d) \subseteq f[n]
      BY <1>3
    <2> HIDE DEF f
    <2> QED
      BY <2>1, <2>2
  <1>5. f = [n \in Nat |-> f[n]]
    OBVIOUS
  <1> HIDE DEF f
  <1>6. Levels(f, r)
    BY <1>1, <1>4, <1>5 DEF Levels
  <1> QED
    BY <1>6

LEMMA BelowIsLevel ==
  ASSUME NEW r \in Runs PROVE \E f : Levels(f, r) /\ Below(r) = f[Cardinality(Runs)]
  <1> DEFINE level == CHOOSE f : Levels(f, r)
  <1>1. Levels(level, r)
    BY LevelsExist
  <1>2. Below(r) = level[Cardinality(Runs)]
    BY DEF Below, Levels
  <1> QED
    BY <1>1, <1>2

LEMMA SmallestOf ==
  ASSUME NEW T, T \subseteq Nat, T # {}
  PROVE  \E n \in T : \A m \in T : n <= m
  <1> DEFINE R == OpToRel(<, Nat)
  <1>1. \A n, m \in Nat : m < n => <<m, n>> \in R
    BY DEF OpToRel
  <1>2. IsWellFoundedOn(R, Nat)
    BY NatLessThanWellFounded, Zenon
  <1> HIDE DEF R
  <1>3. PICK n \in T : \A m \in T : ~ (<<m, n>> \in R)
    BY <1>2, WFMin
  <1>4. \A m \in T : n \in Nat /\ m \in Nat /\ ~ (m < n)
    BY <1>1, <1>3
  <1> QED
    BY <1>4

\* The closure rows name every Run below.
LEMMA BelowIsSubtree ==
  ASSUME CInv, IsFiniteSet(Runs), NEW r \in Runs PROVE Below(r) \subseteq Subtree(r)
  <1>1. PICK level : Levels(level, r) /\ Below(r) = level[Cardinality(Runs)]
    BY BelowIsLevel
  <1>2. /\ level[0] = {r}
        /\ \A n \in Nat \ {0} : level[n] = level[n - 1] \union UNION {Children(p) : p \in level[n - 1]}
    BY <1>1 DEF Levels
  <1>3. ASSUME NEW p \in Subtree(r), NEW d \in Children(p) PROVE d \in Subtree(r)
    <2>1. d \in Runs /\ p \in Runs /\ link[d].parent = p
      BY <1>3 DEF Children, Subtree
    <2>2. link[d].ancestors = link[p].ancestors \union {p}
      BY <2>1 DEF CInv, Row, ClosureOf
    <2> QED
      BY <1>3, <2>1, <2>2 DEF Subtree
  <1> DEFINE bad == {n \in Nat : ~ (level[n] \subseteq Subtree(r))}
  <1>4. bad = {}
    <2> SUFFICES ASSUME bad # {} PROVE FALSE
      OBVIOUS
    <2>1. PICK n \in bad : \A m \in bad : n <= m
      BY SmallestOf
    <2>2. n \in Nat /\ \A m \in Nat : m < n => level[m] \subseteq Subtree(r)
      BY <2>1
    <2>3. level[n] \subseteq Subtree(r)
      <3>1. CASE n = 0
        BY <1>2, <3>1 DEF Subtree
      <3>2. CASE n # 0
        <4>1. level[n - 1] \subseteq Subtree(r)
          BY <2>2, <3>2
        <4> QED
          BY <1>2, <1>3, <2>2, <3>2, <4>1
      <3> QED
        BY <3>1, <3>2
    <2> QED
      BY <2>1, <2>3
  <1>5. Cardinality(Runs) \in Nat
    BY FS_CardinalityType
  <1> QED
    BY <1>1, <1>4, <1>5

CancelsBelow == \A r \in Runs : CancelTree(r) =>
    \A d \in Below(r) : /\ ~ IsOpen(d)'
                        /\ link'[d].state # Active

\* cancel_tree closes every Run below r and settles its delegation, although it looks at
\* the closure rows and never walks the tree (_insert_closure, cancel_tree).
THEOREM CancellationIsComplete ==
  ASSUME IsFiniteSet(Runs) PROVE Spec => CancelReachesAll
  <1>1. ASSUME CInv, NEW r \in Runs, CancelTree(r), NEW d \in Below(r)
        PROVE  ~ IsOpen(d)' /\ link'[d].state # Active
    <2>1. d \in Subtree(r) /\ d \in Runs
      BY <1>1, BelowIsSubtree DEF Subtree
    <2>2. run'[d] = IF IsOpen(d) THEN [run[d] EXCEPT !.status = "cancelled"] ELSE run[d]
      BY <1>1, <2>1 DEF CancelTree
    <2>3. run[d] \in [status : Status, cp : Checkpoint] /\ link[d] \in Link
      BY <1>1, <2>1, Types DEF CInv
    <2>4. ~ IsOpen(d)'
      BY <2>2, <2>3 DEF IsOpen
    <2>5. link'[d] = IF link[d].state = Active THEN [link[d] EXCEPT !.state = "cancelled"] ELSE link[d]
      BY <1>1, <2>1 DEF CancelTree
    <2>6. link'[d].state # Active
      BY <2>3, <2>5 DEF Link, Active
    <2> QED
      BY <2>4, <2>6
  <1>2. CInv /\ [Next]_vars => [CancelsBelow]_vars
    BY <1>1 DEF CancelsBelow
  <1> QED
    BY <1>2, TreesAreSound, PTL DEF Spec, CancelReachesAll, CancelsBelow
=============================================================================
