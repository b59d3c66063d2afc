------------------------- MODULE ConversationsProofs -------------------------
(***************************************************************************)
(* What Conversations guarantees for any number of turns, Runs and         *)
(* interventions.                                                          *)
(***************************************************************************)
EXTENDS Conversations, SequenceTheorems, WellFoundedInduction, TLAPS

TurnRow == [task : Nat, run : Nat, status : TurnStatus]
TaskRow == [status : TaskStatus, through : Nat, source : SUBSET Nat]
RunRow == [task : Nat, status : RunStatus, prepared : BOOLEAN,
           context : [summary : SUBSET Nat, recent : SUBSET Nat]]
ConversationRow == [status : {"active", "archived"}, through : Nat, summary : SUBSET Nat]

RowsType == /\ turn \in Seq(TurnRow) /\ run \in Seq(RunRow) /\ task \in Seq(TaskRow)
            /\ conversation \in ConversationRow

\* A turn points to its Task and to a Run that is no other turn's, and a Run to its Task.
References == /\ \A t \in DOMAIN turn : turn[t].run \in DOMAIN run /\ turn[t].task \in DOMAIN task
              /\ \A s, t \in DOMAIN turn : turn[s].run = turn[t].run => s = t
              /\ \A r \in DOMAIN run : run[r].task \in DOMAIN task

\* The answers are those of all completed turns up to turn n, which is completed.
Covers(n, answers) == IF n = 0 THEN answers = {}
                      ELSE /\ n \in DOMAIN turn /\ turn[n].status = "completed"
                           /\ answers = Answers(1..n)

\* The summary covers the turns it names, and so will each compaction under way.
Summaries == /\ Covers(conversation.through, conversation.summary)
             /\ \A k \in DOMAIN task : task[k].through > 0 =>
                   Covers(task[k].through, task[k].source)

\* What the turns and their Runs say to each other.
TurnsInv == References /\ OneTurnActive /\ TurnMirrorsRun /\ HistoryIsWhole

CInv == RowsType /\ TurnsInv /\ Summaries

\* A completed turn, and every turn but the last, stays as it is.
PastStays == /\ DOMAIN turn \subseteq DOMAIN turn'
             /\ \A t \in DOMAIN turn : (t < Len(turn) \/ turn[t].status = "completed") => turn'[t] = turn[t]

FinalStep == \A t \in DOMAIN turn : turn[t].status = "completed" => turn'[t] = turn[t]

SummaryStep == /\ conversation.summary \subseteq conversation'.summary
               /\ conversation.through <= conversation'.through

-----------------------------------------------------------------------------
(* Sets of turns                                                           *)

LEMMA SmallestOf ==
  ASSUME NEW T, T \subseteq Nat, T # {}
  PROVE  \E x \in T : \A y \in T : x <= y
  <1> DEFINE R == OpToRel(<, Nat)
  <1>1. \E x \in T : \A y \in T : ~ (<<y, x>> \in R)
    <2> HIDE DEF R
    <2>1. IsWellFoundedOn(R, Nat)
      BY NatLessThanWellFounded, Zenon DEF R
    <2> QED
      BY <2>1, WFMin
  <1>2. \A x, y \in Nat : y < x => <<y, x>> \in R
    BY DEF OpToRel
  <1> HIDE DEF R
  <1>3. PICK x \in T : \A y \in T : ~ (<<y, x>> \in R)
    BY <1>1
  <1>4. ASSUME NEW y \in T PROVE x <= y
    <2>1. x \in Nat /\ y \in Nat /\ ~ (<<y, x>> \in R)
      BY <1>3
    <2>2. ~ (y < x)
      BY <1>2, <2>1
    <2> QED
      BY <2>1, <2>2
  <1> QED
    BY <1>4

\* Max of some turns is the last of them.
LEMMA LastOf ==
  ASSUME NEW n \in Nat, NEW S, S \subseteq 1..n, S # {}
  PROVE  Max(S) \in S /\ \A y \in S : y <= Max(S)
  <1> DEFINE T == {n - x : x \in S}
  <1>1. T \subseteq Nat /\ T # {}
    <2>1. \A x \in S : n - x \in Nat
      OBVIOUS
    <2>2. \E t : t \in T
      OBVIOUS
    <2> QED
      BY <2>1, <2>2
  <1> HIDE DEF T
  <1>2. PICK x \in T : \A y \in T : x <= y
    BY <1>1, SmallestOf
  <1>3. \E m \in S : \A y \in S : m >= y
    BY <1>2 DEF T
  <1>4. Max(S) \in S /\ \A y \in S : Max(S) >= y
    BY <1>3 DEF Max
  <1> QED
    BY <1>4

-----------------------------------------------------------------------------
LEMMA SequenceOf ==
  ASSUME NEW S, NEW n \in Nat, NEW f \in [1..n -> S]
  PROVE  f \in Seq(S) /\ Len(f) = n
  <1>1. f \in Seq(S)
    BY SeqDef
  <1> QED
    BY <1>1, LenProperties

LEMMA Domains ==
  ASSUME RowsType
  PROVE  /\ Len(turn) \in Nat /\ DOMAIN turn = 1..Len(turn) /\ turn \in [1..Len(turn) -> TurnRow]
         /\ Len(run) \in Nat /\ DOMAIN run = 1..Len(run) /\ run \in [1..Len(run) -> RunRow]
         /\ Len(task) \in Nat /\ DOMAIN task = 1..Len(task) /\ task \in [1..Len(task) -> TaskRow]
  BY LenProperties DEF RowsType

\* An open Run is that of the last turn or of none, and its turn is not completed.
LEMMA OpenRunIsLast ==
  ASSUME CInv, NEW r \in DOMAIN run, Open(r), NEW t \in DOMAIN turn, turn[t].run = r
  PROVE  t = Len(turn) /\ turn[t].status # "completed"
  <1>1. t \in 1..Len(turn) /\ Len(turn) \in Nat
    BY Domains DEF CInv
  <1>2. ~ (t < Len(turn))
    BY DEF CInv, TurnsInv, OneTurnActive
  <1>3. run[r].status \in RunStatus /\ run[r].status \notin Closed
    BY Domains DEF CInv, RunRow, Open
  <1>4. turn[t].status = Projected(run[r].status)
    BY DEF CInv, TurnsInv, TurnMirrorsRun
  <1> QED
    BY <1>1, <1>2, <1>3, <1>4 DEF Projected, RunStatus, Closed

\* While the past stays, what covers some turns goes on to cover them.
LEMMA AnswersStay ==
  ASSUME CInv, PastStays, RowsType', NEW n \in DOMAIN turn,
         \A t \in 1..n : t < Len(turn) \/ turn[t].status = "completed"
  PROVE  Answers(1..n)' = Answers(1..n)
  <1>1. \A t \in 1..n : turn'[t] = turn[t]
    BY Domains DEF CInv, PastStays
  <1> QED
    BY <1>1 DEF Answers

LEMMA CoversStays ==
  ASSUME CInv, PastStays, RowsType', NEW n \in Nat, NEW answers, Covers(n, answers)
  PROVE  Covers(n, answers)'
  <1>1. CASE n = 0
    BY <1>1 DEF Covers
  <1>2. CASE n # 0
    <2>1. n \in DOMAIN turn /\ turn[n].status = "completed" /\ answers = Answers(1..n)
      BY <1>2 DEF Covers
    <2>2. \A t \in 1..n : t < Len(turn) \/ turn[t].status = "completed"
      BY <2>1, Domains DEF CInv
    <2>3. Answers(1..n)' = Answers(1..n)
      BY <2>1, <2>2, AnswersStay
    <2>4. n \in DOMAIN turn' /\ turn'[n].status = "completed"
      BY <2>1 DEF PastStays
    <2> QED
      BY <1>2, <2>1, <2>3, <2>4 DEF Covers
  <1> QED
    BY <1>1, <1>2

\* Of two covered beginnings of the conversation, the longer has all the answers.
LEMMA CoversMore ==
  ASSUME CInv, NEW m \in Nat, NEW n \in Nat, m <= n, NEW a, NEW b, Covers(m, a), Covers(n, b)
  PROVE  a \subseteq b
  BY DEF Covers, Answers

-----------------------------------------------------------------------------
(* The context of a Run                                                    *)

LEMMA ContextType == ASSUME CInv, NEW r PROVE Context(r) \in [summary : SUBSET Nat, recent : SUBSET Nat]
  <1>1. \A T : T \subseteq DOMAIN turn => Answers(T) \in SUBSET Nat
    BY Domains DEF CInv, TurnRow, Answers
  <1>2. conversation.summary \in SUBSET Nat
    BY DEF CInv, RowsType, ConversationRow
  <1> DEFINE current == {t \in DOMAIN turn : turn[t].run = r}
             earlier == {s \in DOMAIN turn : \E t \in current : s < t}
             later == {s \in earlier : s > conversation.through}
  <1>3. Context(r) = IF current = {} THEN NoContext
                     ELSE [summary |-> conversation.summary, recent |-> Answers(later)]
    BY DEF Context
  <1>4. Answers(later) \in SUBSET Nat
    BY <1>1
  <1> HIDE DEF current, later
  <1> QED
    BY <1>2, <1>3, <1>4 DEF NoContext

LEMMA ContextIsWhole ==
  ASSUME CInv, NEW r \in DOMAIN run, Open(r), NEW t \in DOMAIN turn, turn[t].run = r
  PROVE  /\ Context(r).summary \union Context(r).recent = Answers(1..(t - 1))
         /\ Context(r).summary \intersect Context(r).recent = {}
  <1> DEFINE through == conversation.through
  <1>1. t = Len(turn) /\ turn[t].status # "completed" /\ t \in 1..Len(turn) /\ Len(turn) \in Nat
    BY OpenRunIsLast, Domains DEF CInv
  <1>2. {u \in DOMAIN turn : turn[u].run = r} = {t}
    BY DEF CInv, TurnsInv, References
  <1>3. {s \in DOMAIN turn : \E u \in {t} : s < u} = 1..(t - 1)
    BY <1>1, Domains DEF CInv
  <1>4. /\ Context(r).summary = conversation.summary
        /\ Context(r).recent = Answers({s \in 1..(t - 1) : s > through})
    BY <1>2, <1>3 DEF Context
  <1>5. through \in Nat /\ Covers(through, conversation.summary)
    BY DEF CInv, RowsType, ConversationRow, Summaries
  <1>6. through < t
    BY <1>1, <1>5, Domains DEF Covers, CInv
  <1>7. conversation.summary = Answers(1..through)
    BY <1>5 DEF Covers, Answers
  <1>8. Answers(1..through) \union Answers({s \in 1..(t - 1) : s > through}) = Answers(1..(t - 1))
    BY <1>1, <1>5, <1>6 DEF Answers
  <1>9. Answers(1..through) \intersect Answers({s \in 1..(t - 1) : s > through}) = {}
    <2>1. \A a \in 1..through, b \in {s \in 1..(t - 1) : s > through} : turn[a].run # turn[b].run
      <3>1. \A a \in 1..through, b \in {s \in 1..(t - 1) : s > through} :
               a \in DOMAIN turn /\ b \in DOMAIN turn /\ a # b
        BY <1>1, <1>5, <1>6, Domains DEF CInv
      <3> QED
        BY <3>1 DEF CInv, TurnsInv, References
    <2> QED
      BY <2>1 DEF Answers
  <1> QED
    BY <1>4, <1>7, <1>8, <1>9

-----------------------------------------------------------------------------
(* How a step changes the Runs and the turns                               *)

\* What a step leaves of the turns and their Runs.
TurnsKept == /\ turn' \in Seq(TurnRow) /\ run' \in Seq(RunRow)
             /\ PastStays /\ TurnsInv'

\* An open Run is moved, and its turn shows it.
LEMMA RunMoved ==
  ASSUME CInv, NEW r \in DOMAIN run, Open(r), NEW row \in RunRow,
         run' = [run EXCEPT ![r] = row], row.task = run[r].task, turn' = Shown(r, row.status),
         \/ row.context = Context(r)
         \/ row.context = run[r].context /\ row.prepared = run[r].prepared,
         DOMAIN task \subseteq DOMAIN task'
  PROVE  TurnsKept
  <1> USE DEF CInv
  <1>1. Projected(row.status) \in TurnStatus
    BY DEF RunRow, RunStatus, Closed, Projected, TurnStatus
  <1>2. /\ DOMAIN turn' = DOMAIN turn /\ turn' \in [1..Len(turn) -> TurnRow]
        /\ \A t \in DOMAIN turn :
              /\ turn'[t].run = turn[t].run /\ turn'[t].task = turn[t].task
              /\ turn'[t].status = IF turn[t].run = r THEN Projected(row.status) ELSE turn[t].status
              /\ turn[t].run # r => turn'[t] = turn[t]
    BY <1>1, Domains DEF Shown, TurnRow
  <1>3. /\ DOMAIN run' = DOMAIN run /\ run' \in [1..Len(run) -> RunRow]
        /\ \A q \in DOMAIN run : run'[q] = IF q = r THEN row ELSE run[q]
    BY Domains
  <1>4. turn' \in Seq(TurnRow) /\ run' \in Seq(RunRow) /\ Len(turn') = Len(turn)
    <2>1. Len(turn) \in Nat /\ Len(run) \in Nat
      BY Domains
    <2>0. turn' \in [1..Len(turn) -> TurnRow]
      BY <1>2
    <2>a. turn' \in Seq(TurnRow)
      BY <2>0, <2>1, SequenceOf, Zenon
    <2>2. turn' \in Seq(TurnRow) /\ Len(turn') = Len(turn)
      BY <2>0, <2>a, <2>1, LenProperties
    <2>3. run' \in Seq(RunRow)
      BY <1>3, <2>1, SequenceOf, Zenon
    <2> QED
      BY <2>2, <2>3
  <1>5. PastStays
    BY <1>2, OpenRunIsLast, Domains DEF PastStays
  <1>6. References'
    BY <1>2, <1>3 DEF TurnsInv, References
  <1>7. OneTurnActive'
    <2> SUFFICES ASSUME NEW t \in DOMAIN turn, t < Len(turn) PROVE ~ (Open(turn[t].run))'
      BY <1>2, <1>4 DEF OneTurnActive
    <2>1. turn[t].run # r /\ turn[t].run \in DOMAIN run
      BY OpenRunIsLast, Domains DEF TurnsInv, References
    <2>2. ~ Open(turn[t].run)
      BY DEF TurnsInv, OneTurnActive
    <2> QED
      BY <1>2, <1>3, <2>1, <2>2 DEF Open
  <1>8. TurnMirrorsRun'
    BY <1>2, <1>3 DEF TurnMirrorsRun, TurnsInv, References
  <1>9. HistoryIsWhole'
    <2> SUFFICES ASSUME NEW t \in DOMAIN turn, run'[turn'[t].run].prepared
                 PROVE  LET given == run'[turn'[t].run].context
                        IN  /\ given.summary \union given.recent = Answers(1..(t - 1))'
                            /\ given.summary \intersect given.recent = {}
      BY <1>2 DEF HistoryIsWhole
    <2>1. Answers(1..(t - 1))' = Answers(1..(t - 1))
      <3>1. \A u \in 1..(t - 1) : u \in DOMAIN turn /\ u < Len(turn)
        BY Domains
      <3>2. \A u \in 1..(t - 1) : turn'[u] = turn[u]
        BY <1>5, <3>1 DEF PastStays
      <3> QED
        BY <3>2 DEF Answers
    <2>2. CASE turn[t].run # r
      BY <1>2, <1>3, <2>1, <2>2 DEF TurnsInv, HistoryIsWhole, References
    <2>3. CASE turn[t].run = r /\ row.context = Context(r)
      BY <1>2, <1>3, <2>1, <2>3, ContextIsWhole
    <2>4. CASE turn[t].run = r /\ row.context = run[r].context /\ row.prepared = run[r].prepared
      BY <1>2, <1>3, <2>1, <2>4 DEF TurnsInv, HistoryIsWhole, References
    <2> QED
      BY <2>2, <2>3, <2>4
  <1> QED
    BY <1>4, <1>5, <1>6, <1>7, <1>8, <1>9 DEF TurnsKept, TurnsInv

\* The turns once a Run n was added for a new turn, for the last turn, or for none.
TurnsGain(n) ==
    /\ turn' \in Seq(TurnRow) /\ DOMAIN turn \subseteq DOMAIN turn'
    /\ \A t \in DOMAIN turn : turn'[t] # turn[t] => t = Len(turn) /\ turn[t].status # "completed"
    /\ \A t \in DOMAIN turn' :
          /\ turn'[t].run = n =>
                t = Len(turn') /\ turn'[t].status = "queued" /\ turn'[t].task \in DOMAIN task'
          /\ turn'[t].run # n => t \in DOMAIN turn /\ turn'[t] = turn[t]
    /\ \A t \in DOMAIN turn' : t < Len(turn') =>
          /\ t \in DOMAIN turn /\ turn'[t] = turn[t]
          /\ t < Len(turn) \/ (t = Len(turn) /\ ~ Open(turn[t].run))

LEMMA NewRunIsNoTurns == CInv => Len(run) + 1 \in Nat /\ \A t \in DOMAIN turn : turn[t].run # Len(run) + 1
  BY Domains DEF CInv, TurnsInv, References

LEMMA TurnsSame == ASSUME CInv, turn' = turn PROVE TurnsGain(Len(run) + 1)
  <1>1. turn \in Seq(TurnRow)
    BY DEF CInv, RowsType
  <1> QED
    BY <1>1, NewRunIsNoTurns, Domains DEF CInv, TurnsGain

LEMMA TurnAppended ==
  ASSUME CInv, LastRunClosed, NEW new \in TurnRow, turn' = Append(turn, new),
         new.run = Len(run) + 1, new.status = "queued", new.task \in DOMAIN task'
  PROVE  TurnsGain(Len(run) + 1)
  <1>1. turn \in Seq(TurnRow) /\ Len(turn) \in Nat /\ DOMAIN turn = 1..Len(turn)
    BY Domains DEF CInv, RowsType
  <1>2. /\ turn' \in Seq(TurnRow) /\ Len(turn') = Len(turn) + 1 /\ turn'[Len(turn) + 1] = new
        /\ \A t \in 1..Len(turn) : turn'[t] = turn[t]
    BY <1>1, AppendProperties
  <1>3. DOMAIN turn' = 1..(Len(turn) + 1)
    BY <1>2, LenProperties
  <1>4. \A t \in DOMAIN turn : t = Len(turn) => ~ Open(turn[t].run)
    BY <1>1 DEF LastRunClosed
  <1> QED
    BY <1>1, <1>2, <1>3, <1>4, NewRunIsNoTurns DEF TurnsGain

LEMMA TurnRetried ==
  ASSUME CInv, Len(turn) \in DOMAIN turn, turn[Len(turn)].status # "completed",
         DOMAIN task \subseteq DOMAIN task',
         turn' = [turn EXCEPT ![Len(turn)].run = Len(run) + 1, ![Len(turn)].status = "queued"]
  PROVE  TurnsGain(Len(run) + 1)
  <1> DEFINE n == Len(run) + 1
             last == Len(turn)
             row == [turn[last] EXCEPT !.run = n, !.status = "queued"]
  <1>1. turn \in [1..last -> TurnRow] /\ last \in Nat /\ DOMAIN turn = 1..last /\ n \in Nat
    BY Domains DEF CInv
  <1>2. turn' = [turn EXCEPT ![last] = row]
    BY <1>1
  <1> HIDE DEF n
  <1>3. row \in TurnRow /\ row.run = n /\ row.status = "queued" /\ row.task = turn[last].task
    BY <1>1 DEF TurnRow, TurnStatus
  <1>t. row.task \in DOMAIN task'
    BY <1>3 DEF CInv, TurnsInv, References
  <1> HIDE DEF row
  <1>4. turn' \in [1..last -> TurnRow] /\ DOMAIN turn' = DOMAIN turn
        /\ turn'[last] = row /\ \A t \in DOMAIN turn : t # last => turn'[t] = turn[t]
    BY <1>1, <1>2, <1>3
  <1>5. turn' \in Seq(TurnRow) /\ Len(turn') = last
    <2>1. turn' \in [1..last -> TurnRow]
      BY <1>4
    <2>2. turn' \in Seq(TurnRow)
      BY <1>1, <2>1, SequenceOf, Zenon
    <2> QED
      BY <1>1, <2>1, <2>2, LenProperties
  <1>6. \A t \in DOMAIN turn : turn[t].run # n
    BY NewRunIsNoTurns DEF n
  <1> HIDE DEF last
  <1>7. last = Len(turn) /\ last \in DOMAIN turn /\ turn[last].status # "completed"
    BY DEF last
  <1>8. \A t \in DOMAIN turn : t < last \/ t = last
    BY <1>1
  <1>9. TurnsGain(n)
    <2>1. \A t \in DOMAIN turn' : turn'[t].run = n =>
             t = Len(turn') /\ turn'[t].status = "queued" /\ turn'[t].task \in DOMAIN task'
      BY <1>3, <1>t, <1>4, <1>5, <1>6
    <2>2. \A t \in DOMAIN turn' : turn'[t].run # n => t \in DOMAIN turn /\ turn'[t] = turn[t]
      BY <1>3, <1>4
    <2>3. \A t \in DOMAIN turn' : t < Len(turn') =>
             t \in DOMAIN turn /\ turn'[t] = turn[t] /\ t < Len(turn)
      BY <1>1, <1>4, <1>5, <1>7
    <2> QED
      BY <2>1, <2>2, <2>3, <1>4, <1>5, <1>7 DEF TurnsGain
  <1> QED
    BY <1>9 DEF n

LEMMA RunAdded ==
  ASSUME CInv, NEW row \in RunRow, run' = Append(run, row), row.status = "pending", ~ row.prepared,
         DOMAIN task \subseteq DOMAIN task', row.task \in DOMAIN task', TurnsGain(Len(run) + 1)
  PROVE  TurnsKept
  <1> DEFINE n == Len(run) + 1
  <1>0. RowsType /\ References /\ OneTurnActive /\ TurnMirrorsRun /\ HistoryIsWhole
    BY DEF CInv, TurnsInv
  <1>1. /\ run' \in Seq(RunRow) /\ n \notin DOMAIN run /\ DOMAIN run' = DOMAIN run \union {n}
        /\ run'[n] = row /\ \A r \in DOMAIN run : run'[r] = run[r]
    <2>1. run \in Seq(RunRow) /\ Len(run) \in Nat /\ DOMAIN run = 1..Len(run)
      BY <1>0, Domains DEF RowsType
    <2>2. run' \in Seq(RunRow) /\ Len(run') = n /\ run'[n] = row /\ \A r \in 1..Len(run) : run'[r] = run[r]
      BY <2>1, AppendProperties
    <2>3. DOMAIN run' = 1..n
      BY <2>2, LenProperties
    <2> QED
      BY <2>1, <2>2, <2>3
  <1>n. TurnsGain(n)
    OBVIOUS
  <1> HIDE DEF n
  <1>2. turn' \in Seq(TurnRow) /\ Len(turn) \in Nat /\ DOMAIN turn = 1..Len(turn)
    BY <1>0, <1>n, Domains DEF TurnsGain
  <1>3. PastStays
    BY <1>2, <1>n DEF TurnsGain, PastStays
  <1>4. References'
    <2>0. \A t \in DOMAIN turn : turn[t].run \in DOMAIN run /\ turn[t].task \in DOMAIN task
      BY <1>0 DEF References
    <2>1. \A t \in DOMAIN turn' : turn'[t].run \in DOMAIN run' /\ turn'[t].task \in DOMAIN task'
      BY <1>1, <1>n, <2>0 DEF TurnsGain
    <2>2. ASSUME NEW s \in DOMAIN turn', NEW t \in DOMAIN turn', turn'[s].run = turn'[t].run PROVE s = t
      <3>1. CASE turn'[s].run = n
        BY <1>n, <2>2, <3>1 DEF TurnsGain
      <3>2. CASE turn'[s].run # n
        BY <1>0, <1>n, <2>2, <3>2 DEF TurnsGain, References
      <3> QED
        BY <3>1, <3>2
    <2>3. \A r \in DOMAIN run' : run'[r].task \in DOMAIN task'
      BY <1>0, <1>1 DEF References
    <2> QED
      BY <2>1, <2>2, <2>3 DEF References
  <1>5. OneTurnActive'
    <2> SUFFICES ASSUME NEW t \in DOMAIN turn', t < Len(turn') PROVE ~ (Open(turn[t].run))'
      BY DEF OneTurnActive
    <2>1. /\ t \in DOMAIN turn /\ turn'[t] = turn[t]
          /\ t < Len(turn) \/ (t = Len(turn) /\ ~ Open(turn[t].run))
      BY <1>n DEF TurnsGain
    <2>2. turn[t].run \in DOMAIN run /\ ~ Open(turn[t].run)
      BY <1>0, <2>1 DEF References, OneTurnActive
    <2> QED
      BY <1>1, <2>1, <2>2 DEF Open
  <1>6. TurnMirrorsRun'
    <2> SUFFICES ASSUME NEW t \in DOMAIN turn' PROVE turn'[t].status = Projected(run'[turn'[t].run].status)
      BY DEF TurnMirrorsRun
    <2>1. CASE turn'[t].run = n
      <3>1. turn'[t].status = "queued" /\ run'[n].status = "pending"
        BY <1>1, <1>n, <2>1 DEF TurnsGain
      <3> QED
        BY <2>1, <3>1 DEF Projected
    <2>2. CASE turn'[t].run # n
      <3>1. t \in DOMAIN turn /\ turn'[t] = turn[t] /\ turn[t].run \in DOMAIN run
        BY <1>0, <1>n, <2>2 DEF TurnsGain, References
      <3> QED
        BY <1>0, <1>1, <3>1 DEF TurnMirrorsRun
    <2> QED
      BY <2>1, <2>2
  <1>7. HistoryIsWhole'
    <2> SUFFICES ASSUME NEW t \in DOMAIN turn', run'[turn'[t].run].prepared
                 PROVE  LET given == run'[turn'[t].run].context
                        IN  /\ given.summary \union given.recent = Answers(1..(t - 1))'
                            /\ given.summary \intersect given.recent = {}
      BY DEF HistoryIsWhole
    <2>1. turn'[t].run # n
      BY <1>1
    <2>2. t \in DOMAIN turn /\ turn'[t] = turn[t] /\ turn[t].run \in DOMAIN run
      BY <1>0, <1>n, <2>1 DEF TurnsGain, References
    <2>3. \A u \in 1..(t - 1) : u \in DOMAIN turn /\ u < Len(turn)
      BY <1>2, <2>2
    <2>4. \A u \in 1..(t - 1) : turn'[u] = turn[u]
      BY <1>3, <2>3 DEF PastStays
    <2>5. Answers(1..(t - 1))' = Answers(1..(t - 1))
      BY <2>4 DEF Answers
    <2>6. run'[turn'[t].run] = run[turn[t].run]
      BY <1>1, <2>2
    <2> QED
      BY <1>0, <2>2, <2>5, <2>6 DEF HistoryIsWhole
  <1> QED
    BY <1>1, <1>2, <1>3, <1>4, <1>5, <1>6, <1>7 DEF TurnsKept, TurnsInv

-----------------------------------------------------------------------------
(* How a step changes the Tasks and the summary                            *)

\* The Tasks keep what they are to summarise; a new one summarises nothing, or
\* completed turns that it covers.
TasksStay == /\ task' \in Seq(TaskRow) /\ DOMAIN task \subseteq DOMAIN task'
             /\ \A k \in DOMAIN task : /\ task'[k].through = task[k].through
                                       /\ task'[k].source = task[k].source
             /\ \A k \in DOMAIN task' : k \in DOMAIN task
                                       \/ task'[k].through = 0
                                       \/ Covers(task'[k].through, task'[k].source)

LEMMA TaskWritten ==
  ASSUME CInv, NEW k \in DOMAIN task, NEW s \in TaskStatus, task' = [task EXCEPT ![k].status = s]
  PROVE  TasksStay
  <1> DEFINE row == [task[k] EXCEPT !.status = s]
  <1>1. task \in [1..Len(task) -> TaskRow] /\ Len(task) \in Nat /\ DOMAIN task = 1..Len(task)
    BY Domains DEF CInv
  <1>2. task' = [task EXCEPT ![k] = row]
    BY <1>1
  <1>3. row \in TaskRow /\ row.through = task[k].through /\ row.source = task[k].source
    BY <1>1 DEF TaskRow
  <1> HIDE DEF row
  <1>4. task' \in [1..Len(task) -> TaskRow] /\ DOMAIN task' = DOMAIN task
    BY <1>1, <1>2, <1>3
  <1>5. task' \in Seq(TaskRow)
    BY <1>1, <1>4, SequenceOf, Zenon
  <1> QED
    BY <1>1, <1>2, <1>3, <1>4, <1>5 DEF TasksStay

LEMMA TasksSame == ASSUME CInv, task' = task PROVE TasksStay
  BY DEF CInv, RowsType, TasksStay

LEMMA TaskFollowed ==
  ASSUME CInv, NEW r \in DOMAIN run, NEW s \in TaskStatus, TaskFollows(r, s)
  PROVE  TasksStay
  <1>1. run[r].task \in DOMAIN task
    BY DEF CInv, TurnsInv, References
  <1> QED
    BY <1>1, TaskWritten, TasksSame DEF TaskFollows

\* A step that keeps the past, and whose Tasks and summary cover beginnings of it.
LEMMA SummariesStay ==
  ASSUME CInv, TurnsKept, TasksStay,
         \/ conversation' = conversation
         \/ conversation.status = "active" /\ conversation' = [conversation EXCEPT !.status = "archived"]
         \/ \E k \in DOMAIN task : task[k].through > 0 /\ conversation' = Summarised(k)
  PROVE  CInv' /\ FinalStep /\ SummaryStep
  <1>1. /\ conversation \in ConversationRow /\ conversation.through \in Nat
        /\ \A k \in DOMAIN task : task[k].through \in Nat /\ task[k].source \in SUBSET Nat
    BY Domains DEF CInv, RowsType, ConversationRow, TaskRow
  <1>2. /\ conversation' \in ConversationRow
        /\ \/ conversation'.through = conversation.through /\ conversation'.summary = conversation.summary
           \/ \E k \in DOMAIN task : /\ task[k].through > 0 /\ task[k].through >= conversation.through
                                     /\ conversation'.through = task[k].through
                                     /\ conversation'.summary = task[k].source
    <2>1. CASE conversation' = conversation
      BY <1>1, <2>1
    <2>2. CASE conversation' = [conversation EXCEPT !.status = "archived"]
      BY <1>1, <2>2 DEF ConversationRow
    <2>3. ASSUME NEW k \in DOMAIN task, task[k].through > 0, conversation' = Summarised(k) PROVE <1>2!:
      <3>1. CASE task[k].through < conversation.through
        BY <1>1, <2>3, <3>1 DEF Summarised
      <3>2. CASE ~ (task[k].through < conversation.through)
        <4>1. conversation' = [conversation EXCEPT !.summary = task[k].source, !.through = task[k].through]
          BY <2>3, <3>2 DEF Summarised
        <4> DEFINE through == task[k].through
                   source == task[k].source
        <4>2. through \in Nat /\ source \in SUBSET Nat /\ through > 0 /\ through >= conversation.through
          BY <1>1, <2>3, <3>2
        <4>3. conversation' = [conversation EXCEPT !.summary = source, !.through = through]
          BY <4>1
        <4> HIDE DEF through, source
        <4>4. /\ conversation' \in ConversationRow
              /\ conversation'.through = through /\ conversation'.summary = source
          BY <1>1, <4>2, <4>3 DEF ConversationRow
        <4> QED
          BY <4>2, <4>4 DEF through, source
      <3> QED
        BY <3>1, <3>2
    <2> QED
      BY <2>1, <2>2, <2>3
  <1>3. RowsType'
    BY <1>2 DEF RowsType, TurnsKept, TasksStay
  <1>4. Covers(conversation'.through, conversation'.summary)
    BY <1>2 DEF CInv, Summaries
  <1>5. conversation'.through \in Nat
    BY <1>2 DEF ConversationRow
  <1>6. PastStays
    BY DEF TurnsKept
  <1>7. Covers(conversation.through, conversation.summary)'
    <2> DEFINE n == conversation'.through
               a == conversation'.summary
    <2>1. n \in Nat /\ Covers(n, a)
      BY <1>4, <1>5
    <2> QED
      BY <1>3, <1>6, <2>1 DEF Covers, Answers, PastStays
  <1>8. \A k \in DOMAIN task' : task'[k].through > 0 => Covers(task[k].through, task[k].source)'
    <2> SUFFICES ASSUME NEW k \in DOMAIN task', task'[k].through > 0
                 PROVE  Covers(task[k].through, task[k].source)'
      OBVIOUS
    <2> DEFINE n == task'[k].through
               a == task'[k].source
    <2>1. n \in Nat
      <3>1. task'[k] \in TaskRow
        BY <1>3, ElementOfSeq, LenProperties DEF RowsType
      <3> QED
        BY <3>1 DEF TaskRow
    <2>2. Covers(n, a)
      BY <2>1 DEF CInv, Summaries, TasksStay
    <2> QED
      BY <1>3, <1>6, <2>1, <2>2 DEF Covers, Answers, PastStays
  <1>9. FinalStep
    BY <1>6 DEF PastStays, FinalStep
  <1>10. SummaryStep
    <2>1. Covers(conversation.through, conversation.summary)
      BY DEF CInv, Summaries
    <2>2. CASE conversation'.through = conversation.through /\ conversation'.summary = conversation.summary
      BY <1>1, <2>2 DEF SummaryStep
    <2>3. ASSUME NEW k \in DOMAIN task, task[k].through > 0, task[k].through >= conversation.through,
                 conversation'.through = task[k].through, conversation'.summary = task[k].source
          PROVE SummaryStep
      <3>1. Covers(task[k].through, task[k].source)
        BY <2>3 DEF CInv, Summaries
      <3>2. conversation.summary \subseteq task[k].source
        BY <1>1, <2>1, <2>3, <3>1, CoversMore
      <3> QED
        BY <1>1, <2>3, <3>2 DEF SummaryStep
    <2> QED
      BY <1>2, <2>2, <2>3
  <1> QED
    BY <1>3, <1>7, <1>8, <1>9, <1>10 DEF CInv, Summaries, TurnsKept

\* Run r is moved to status s.
LEMMA Moved ==
  ASSUME CInv, NEW r \in DOMAIN run, Open(r), NEW s \in RunStatus, MoveRun(r, s), TasksStay
  PROVE  TurnsKept
  <1> DEFINE row == [run[r] EXCEPT !.status = s]
  <1>1. run \in [1..Len(run) -> RunRow] /\ DOMAIN run = 1..Len(run)
    BY Domains DEF CInv
  <1>2. run' = [run EXCEPT ![r] = row] /\ turn' = Shown(r, s)
    BY <1>1 DEF MoveRun
  <1>3. row \in RunRow /\ row.status = s /\ row.task = run[r].task
        /\ row.context = run[r].context /\ row.prepared = run[r].prepared
    BY <1>1 DEF RunRow
  <1>4. DOMAIN task \subseteq DOMAIN task'
    BY DEF TasksStay
  <1> HIDE DEF row
  <1> QED
    BY <1>2, <1>3, <1>4, RunMoved

\* A Run is added for Task k.
LEMMA Added ==
  ASSUME CInv, NEW k \in Nat, StartRun(k), TasksStay, k \in DOMAIN task', TurnsGain(Len(run) + 1)
  PROVE  TurnsKept
  <1> DEFINE row == [task |-> k, status |-> "pending", prepared |-> FALSE, context |-> NoContext]
  <1>1. row \in RunRow /\ row.status = "pending" /\ ~ row.prepared /\ row.task = k
    BY DEF RunRow, RunStatus, NoContext
  <1>2. run' = Append(run, row)
    BY DEF StartRun
  <1>3. DOMAIN task \subseteq DOMAIN task'
    BY DEF TasksStay
  <1> HIDE DEF row
  <1> QED
    BY <1>1, <1>2, <1>3, RunAdded

-----------------------------------------------------------------------------
(* The conversation service                                                *)

LEMMA TaskAdded ==
  ASSUME CInv, NEW row \in TaskRow, task' = Append(task, row),
         row.through = 0 \/ Covers(row.through, row.source)
  PROVE  TasksStay /\ Len(task) + 1 \in DOMAIN task' /\ Len(task) + 1 \in Nat
  <1>1. task \in Seq(TaskRow) /\ Len(task) \in Nat /\ DOMAIN task = 1..Len(task)
    BY Domains DEF CInv, RowsType
  <1>2. /\ task' \in Seq(TaskRow) /\ Len(task') = Len(task) + 1 /\ task'[Len(task) + 1] = row
        /\ \A k \in 1..Len(task) : task'[k] = task[k]
    BY <1>1, AppendProperties
  <1>3. DOMAIN task' = 1..(Len(task) + 1)
    BY <1>2, LenProperties
  <1>4. \A k \in DOMAIN task' : k \in DOMAIN task \/ k = Len(task) + 1
    BY <1>1, <1>3
  <1> QED
    BY <1>1, <1>2, <1>3, <1>4 DEF TasksStay

LEMMA CreateTurnStep == ASSUME CInv, CreateTurn PROVE CInv' /\ FinalStep /\ SummaryStep
  <1> DEFINE row == [status |-> "running", through |-> 0, source |-> {}]
             new == [task |-> Len(task) + 1, run |-> Len(run) + 1, status |-> "queued"]
  <1>1. row \in TaskRow /\ row.through = 0
    BY DEF TaskRow, TaskStatus
  <1>2. new \in TurnRow /\ new.run = Len(run) + 1 /\ new.status = "queued" /\ new.task = Len(task) + 1
    BY Domains DEF CInv, TurnRow, TurnStatus
  <1>3. /\ task' = Append(task, row) /\ turn' = Append(turn, new) /\ LastRunClosed
        /\ StartRun(Len(task) + 1) /\ conversation' = conversation
    BY DEF CreateTurn
  <1> HIDE DEF row, new
  <1>4. TasksStay /\ Len(task) + 1 \in DOMAIN task' /\ Len(task) + 1 \in Nat
    BY <1>1, <1>3, TaskAdded
  <1>5. TurnsGain(Len(run) + 1)
    BY <1>2, <1>3, <1>4, TurnAppended
  <1>6. TurnsKept
    BY <1>3, <1>4, <1>5, Added
  <1> QED
    BY <1>3, <1>4, <1>6, SummariesStay

\* What a compaction is to summarise covers the turns up to the one it reaches.
LEMMA CompactionCovers ==
  ASSUME CInv, Compactable # {}
  PROVE  /\ Max(Compactable) \in Nat
         /\ conversation.summary \union Answers(Compactable) \in SUBSET Nat
         /\ Covers(Max(Compactable), conversation.summary \union Answers(Compactable))
  <1> DEFINE m == Max(Compactable)
             through == conversation.through
  <1>1. Len(turn) \in Nat /\ DOMAIN turn = 1..Len(turn) /\ turn \in [1..Len(turn) -> TurnRow]
    BY Domains DEF CInv
  <1>2. Compactable \subseteq 1..Len(turn)
    BY <1>1 DEF Compactable
  <1>3. m \in Compactable /\ \A t \in Compactable : t <= m
    BY <1>1, <1>2, LastOf
  <1>4. through \in Nat /\ conversation.summary \in SUBSET Nat /\ Covers(through, conversation.summary)
    BY DEF CInv, RowsType, ConversationRow, Summaries
  <1> HIDE DEF m
  <1>5. m \in 1..Len(turn) /\ m > through /\ turn[m].status = "completed"
    BY <1>1, <1>3 DEF Compactable
  <1>6. conversation.summary = Answers(1..through)
    BY <1>4 DEF Covers, Answers
  <1>7. Answers(1..through) \union Answers(Compactable) = Answers(1..m)
    <2>1. \A t \in 1..through : t \in 1..m
      BY <1>4, <1>5
    <2>2. \A t \in Compactable : t \in 1..m
      BY <1>1, <1>3, <1>5 DEF Compactable
    <2>3. \A t \in 1..m : turn[t].status = "completed" => t \in 1..through \/ t \in Compactable
      BY <1>1, <1>4, <1>5 DEF Compactable
    <2> QED
      BY <2>1, <2>2, <2>3 DEF Answers
  <1>8. Answers(Compactable) \in SUBSET Nat
    BY <1>1, <1>2 DEF Answers, TurnRow
  <1>9. Covers(m, conversation.summary \union Answers(Compactable))
    BY <1>1, <1>5, <1>6, <1>7 DEF Covers
  <1> QED
    BY <1>1, <1>4, <1>5, <1>8, <1>9 DEF m

LEMMA CompactStep == ASSUME CInv, Compact PROVE CInv' /\ FinalStep /\ SummaryStep
  <1> DEFINE m == Max(Compactable)
             source == conversation.summary \union Answers(Compactable)
             row == [status |-> "running", through |-> m, source |-> source]
  <1>1. m \in Nat /\ source \in SUBSET Nat /\ Covers(m, source)
    BY CompactionCovers DEF Compact
  <1>2. /\ task' = Append(task, row) /\ turn' = turn
        /\ StartRun(Len(task) + 1) /\ conversation' = conversation
    BY DEF Compact
  <1> HIDE DEF m, source
  <1>3. row \in TaskRow /\ row.through = m /\ row.source = source
    BY <1>1 DEF TaskRow, TaskStatus
  <1> HIDE DEF row
  <1>4. TasksStay /\ Len(task) + 1 \in DOMAIN task' /\ Len(task) + 1 \in Nat
    BY <1>1, <1>2, <1>3, TaskAdded
  <1>5. TurnsKept
    BY <1>2, <1>4, TurnsSame, Added
  <1> QED
    BY <1>2, <1>4, <1>5, SummariesStay

\* Nothing but the conversation's own status or a Task's status is written.
LEMMA TurnsUntouched ==
  ASSUME CInv, turn' = turn, run' = run, TasksStay
  PROVE  TurnsKept
  <1>1. turn \in Seq(TurnRow) /\ run \in Seq(RunRow) /\ PastStays
    BY DEF CInv, RowsType, PastStays
  <1>2. References'
    BY DEF CInv, TurnsInv, References, TasksStay
  <1>3. OneTurnActive' /\ TurnMirrorsRun'
    BY DEF CInv, TurnsInv, OneTurnActive, TurnMirrorsRun, Open
  <1>4. \A n : Answers(1..n)' = Answers(1..n)
    BY DEF Answers
  <1>5. HistoryIsWhole'
    BY <1>4 DEF CInv, TurnsInv, HistoryIsWhole
  <1> QED
    BY <1>1, <1>2, <1>3, <1>5 DEF TurnsKept, TurnsInv

LEMMA ArchiveStep == ASSUME CInv, Archive PROVE CInv' /\ FinalStep /\ SummaryStep
  <1>1. TurnsKept /\ TasksStay
    BY TurnsUntouched, TasksSame DEF Archive
  <1> QED
    BY <1>1, SummariesStay DEF Archive

LEMMA RetryTurnStep ==
  ASSUME CInv, NEW t \in DOMAIN turn, RetryTurn(t) PROVE CInv' /\ FinalStep /\ SummaryStep
  <1>1. t = Len(turn) /\ run[turn[t].run].status \in {"failed", "timed_out"}
        /\ turn[t].status = Projected(run[turn[t].run].status)
    BY DEF RetryTurn, CInv, TurnsInv, TurnMirrorsRun
  <1>2. turn[t].status # "completed"
    BY <1>1 DEF Projected
  <1>3. /\ turn[t].task \in DOMAIN task /\ turn[t].task \in Nat
        /\ StartRun(turn[t].task) /\ conversation' = conversation
        /\ task' = [task EXCEPT ![turn[t].task].status = "running"]
        /\ turn' = [turn EXCEPT ![t].run = Len(run) + 1, ![t].status = "queued"]
    BY Domains DEF RetryTurn, CInv, TurnsInv, References
  <1>4. TasksStay
    BY <1>3, TaskWritten DEF TaskStatus
  <1>5. TurnsGain(Len(run) + 1)
    BY <1>1, <1>2, <1>3, <1>4, TurnRetried DEF TasksStay
  <1>6. TurnsKept
    BY <1>3, <1>4, <1>5, Added DEF TasksStay
  <1> QED
    BY <1>3, <1>4, <1>6, SummariesStay

-----------------------------------------------------------------------------
(* The control plane                                                       *)

LEMMA TaskOfRun == CInv => \A r \in DOMAIN run : run[r].task \in DOMAIN task /\ run[r].task \in Nat
  BY Domains DEF CInv, TurnsInv, References

LEMMA CancelRunStep ==
  ASSUME CInv, NEW r \in DOMAIN run, CancelRun(r) PROVE CInv' /\ FinalStep /\ SummaryStep
  <1> DEFINE k == run[r].task
  <1>1. k \in DOMAIN task /\ task[k].status \in TaskStatus
    BY TaskOfRun, Domains DEF CInv, TaskRow
  <1>2. PICK s \in TaskStatus : task' = [task EXCEPT ![k].status = s]
    <2>1. task' = [task EXCEPT ![k].status =
             IF task[k].status \in {"completed", "failed", "cancelled"} THEN task[k].status ELSE "cancelled"]
      BY DEF CancelRun
    <2> QED
      BY <1>1, <2>1 DEF TaskStatus
  <1>3. TasksStay
    BY <1>1, <1>2, TaskWritten
  <1>4. TurnsKept
    BY <1>3, Moved DEF CancelRun, RunStatus, Closed
  <1> QED
    BY <1>3, <1>4, SummariesStay DEF CancelRun

\* A further Run for the Task of a turn, or for a compaction, moves no turn.
LEMMA FurtherRun ==
  ASSUME CInv, NEW k \in DOMAIN task, StartRun(k), turn' = turn, conversation' = conversation,
         task' = [task EXCEPT ![k].status = "running"]
  PROVE  CInv' /\ FinalStep /\ SummaryStep
  <1>1. k \in Nat
    BY Domains DEF CInv
  <1>2. TasksStay
    BY TaskWritten DEF TaskStatus
  <1>3. TurnsKept
    BY <1>1, <1>2, TurnsSame, Added DEF TasksStay
  <1> QED
    BY <1>2, <1>3, SummariesStay

LEMMA TransitionTaskStep ==
  ASSUME CInv, NEW k \in DOMAIN task, NEW s \in TaskStatus, TransitionTask(k, s)
  PROVE  CInv' /\ FinalStep /\ SummaryStep
  <1>1. TasksStay
    BY TaskWritten DEF TransitionTask
  <1>2. TurnsKept
    BY <1>1, TurnsUntouched DEF TransitionTask
  <1> QED
    BY <1>1, <1>2, SummariesStay DEF TransitionTask

LEMMA TransitionRunStep ==
  ASSUME CInv, NEW r \in DOMAIN run, NEW s \in RunStatus, TransitionRun(r, s)
  PROVE  CInv' /\ FinalStep /\ SummaryStep
  <1>1. run[r].status \in RunStatus
    BY Domains DEF CInv, RunRow
  <1>2. Open(r)
    BY <1>1 DEF TransitionRun, RunMoves, Open, Closed, RunStatus
  <1>3. TasksStay
    BY TaskFollowed, TasksSame DEF TransitionRun, TaskStatus
  <1>4. TurnsKept
    BY <1>2, <1>3, Moved DEF TransitionRun
  <1> QED
    BY <1>3, <1>4, SummariesStay DEF TransitionRun

-----------------------------------------------------------------------------
(* The worker                                                              *)

LEMMA PrepareClaimStep ==
  ASSUME CInv, NEW r \in DOMAIN run, PrepareClaim(r) PROVE CInv' /\ FinalStep /\ SummaryStep
  <1> DEFINE context == Context(r)
             row == [run[r] EXCEPT !.status = "running", !.prepared = TRUE, !.context = context]
  <1>1. run \in [1..Len(run) -> RunRow] /\ DOMAIN run = 1..Len(run)
    BY Domains DEF CInv
  <1>2. Open(r)
    BY DEF PrepareClaim, Open, Closed
  <1>3. context \in [summary : SUBSET Nat, recent : SUBSET Nat]
    BY ContextType
  <1>4. run' = [run EXCEPT ![r] = row] /\ turn' = Shown(r, "running")
    BY <1>1 DEF PrepareClaim
  <1> HIDE DEF context
  <1>5. row \in RunRow /\ row.status = "running" /\ row.task = run[r].task /\ row.context = context
    BY <1>1, <1>3 DEF RunRow, RunStatus
  <1> HIDE DEF row
  <1>6. TasksStay /\ conversation' = conversation
    BY TasksSame DEF PrepareClaim
  <1>7. DOMAIN task \subseteq DOMAIN task'
    BY <1>6 DEF TasksStay
  <1>8. row.context = Context(r)
    BY <1>5 DEF context
  <1>9. TurnsKept
    BY <1>2, <1>4, <1>5, <1>7, <1>8, RunMoved
  <1> QED
    BY <1>6, <1>9, SummariesStay

LEMMA CompleteClaimStep ==
  ASSUME CInv, NEW r \in DOMAIN run, NEW outcome \in Closed, CompleteClaim(r, outcome)
  PROVE  CInv' /\ FinalStep /\ SummaryStep
  <1> DEFINE k == run[r].task
             compacts == task[k].through > 0 /\ outcome = "completed"
             s == CASE compacts -> "completed"
                    [] outcome = "completed" -> "waiting_for_review"
                    [] outcome = "cancelled" -> "cancelled"
                    [] OTHER -> "failed"
  <1>1. Open(r) /\ MoveRun(r, outcome) /\ TaskFollows(r, s)
        /\ conversation' = IF compacts THEN Summarised(k) ELSE conversation
    BY DEF CompleteClaim
  <1>2. s \in TaskStatus
    BY DEF TaskStatus
  <1>3. compacts => task[k].through > 0
    OBVIOUS
  <1> HIDE DEF s, compacts
  <1>4. TasksStay
    BY <1>1, <1>2, TaskFollowed
  <1>5. TurnsKept
    BY <1>1, <1>4, Moved DEF RunStatus
  <1>6. k \in DOMAIN task
    BY TaskOfRun
  <1> QED
    BY <1>1, <1>3, <1>4, <1>5, <1>6, SummariesStay

LEMMA OtherWorkerStep ==
  ASSUME CInv, NEW r \in DOMAIN run, SuspendClaim(r) \/ Decide(r) \/ FailUnpreparedClaim(r)
  PROVE  CInv' /\ FinalStep /\ SummaryStep
  <1>1. PICK s \in RunStatus : MoveRun(r, s)
    BY DEF SuspendClaim, Decide, FailUnpreparedClaim, RunStatus, Closed
  <1>2. Open(r) /\ conversation' = conversation
    BY DEF SuspendClaim, Decide, FailUnpreparedClaim, Open, Closed
  <1>3. TasksStay
    BY TasksSame, TaskFollowed DEF SuspendClaim, Decide, FailUnpreparedClaim, TaskStatus
  <1>4. TurnsKept
    BY <1>1, <1>2, <1>3, Moved
  <1> QED
    BY <1>2, <1>3, <1>4, SummariesStay

-----------------------------------------------------------------------------
LEMMA InitCInv == Init => CInv
  <1> SUFFICES ASSUME Init PROVE CInv
    OBVIOUS
  <1>1. DOMAIN turn = {} /\ DOMAIN run = {} /\ DOMAIN task = {}
    BY DEF Init
  <1>2. RowsType
    BY DEF Init, RowsType, ConversationRow
  <1>3. TurnsInv
    BY <1>1 DEF TurnsInv, References, OneTurnActive, TurnMirrorsRun, HistoryIsWhole
  <1>4. Summaries
    BY <1>1 DEF Summaries, Covers, Init
  <1> QED
    BY <1>2, <1>3, <1>4 DEF CInv

LEMMA NextStep == ASSUME CInv, [Next]_vars PROVE CInv' /\ FinalStep /\ SummaryStep
  <1>1. CASE Service
    BY <1>1, CreateTurnStep, CompactStep, ArchiveStep, RetryTurnStep DEF Service
  <1>2. CASE ControlPlane
    <2>1. ASSUME NEW k \in DOMAIN task, CreateRun(k) PROVE CInv' /\ FinalStep /\ SummaryStep
      BY <2>1, FurtherRun DEF CreateRun
    <2>2. ASSUME NEW r \in DOMAIN run, RetryRun(r) PROVE CInv' /\ FinalStep /\ SummaryStep
      BY <2>2, FurtherRun, TaskOfRun DEF RetryRun
    <2> QED
      BY <1>2, <2>1, <2>2, CancelRunStep, TransitionTaskStep, TransitionRunStep DEF ControlPlane
  <1>3. CASE \E r \in DOMAIN run : Worker(r)
    BY <1>3, PrepareClaimStep, CompleteClaimStep, OtherWorkerStep DEF Worker
  <1>4. CASE UNCHANGED vars
    <2>1. TasksStay /\ conversation' = conversation
      BY <1>4, TasksSame DEF vars
    <2>2. TurnsKept
      BY <1>4, <2>1, TurnsUntouched DEF vars
    <2> QED
      BY <2>1, <2>2, SummariesStay
  <1> QED
    BY <1>1, <1>2, <1>3, <1>4 DEF Next

\* Two turns of a conversation are never answered at once (create_turn, retry_turn).
THEOREM TurnsTakeTurns == Spec => []OneTurnActive
  <1>1. CInv => OneTurnActive
    BY DEF CInv, TurnsInv
  <1> QED
    BY <1>1, InitCInv, NextStep, PTL DEF Spec

\* The context frozen for a turn holds each earlier answer once, in the summary or in
\* full, although compactions end in any order (select_conversation_context).
THEOREM ContextsAreWhole == Spec => []HistoryIsWhole
  <1>1. CInv => HistoryIsWhole
    BY DEF CInv, TurnsInv
  <1> QED
    BY <1>1, InitCInv, NextStep, PTL DEF Spec

\* A completed turn never changes (the trigger on Runs, retry_turn, create_run).
THEOREM AnswersAreFinal == Spec => CompletedTurnIsFinal
  <1>1. ASSUME CInv, [Next]_vars
        PROVE  [\A t \in DOMAIN turn : turn[t].status = "completed" => turn'[t] = turn[t]]_vars
    BY <1>1, NextStep DEF FinalStep
  <1> QED
    BY <1>1, InitCInv, NextStep, PTL DEF Spec, CompletedTurnIsFinal

\* The summary loses no answer and never moves back (complete_claim of compactions).
THEOREM SummaryOnlyGrows == Spec => SummaryKeepsAnswers
  <1>1. ASSUME CInv, [Next]_vars
        PROVE  [/\ conversation.summary \subseteq conversation'.summary
                /\ conversation.through <= conversation'.through]_vars
    BY <1>1, NextStep DEF SummaryStep
  <1> QED
    BY <1>1, InitCInv, NextStep, PTL DEF Spec, SummaryKeepsAnswers
=============================================================================
