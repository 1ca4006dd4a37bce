------------------------------ MODULE GeneratedEval ------------------------------
(***************************************************************************)
(* Mode 2 of berlue/evaluation/run_eval.py on the local store, for one      *)
(* scope: a model answers every question, Berlue, a judge and the NLI       *)
(* baseline give verdicts on its answers, and matrices compare two of them. *)
(* Questions are ranks of the sorted list; Valid are those with a correct   *)
(* and an incorrect reference.                                              *)
(*                                                                          *)
(* A verdict is a pair: the answer it is about (what the judge, Berlue or   *)
(* the baseline was given, not a column of the table) and its value.        *)
(*                                                                          *)
(* UnfilteredSlice, ReplaceRow, LoseRow, NoBarrier and PartialMatrix are     *)
(* mutated forms of definitions below.                                      *)
(***************************************************************************)
EXTENDS Naturals, FiniteSets

CONSTANTS
    NQuestions, Valid,
    Evaluators, Slice,      \* processes, the <<start, end>> of each
    Concurrency,            \* threads of a stage
    Baseliners,             \* processes of evaluate_baseline_generated
    Builders,               \* processes that build a matrix
    Answers, Verdicts,
    PurgeRequests,          \* [scope, filters] of the purges
    PurgeInFlight,          \* may a purge run while a process works?
    MaxFailures, MaxPurges,
    NoRow, NoTask           \* no row; no thread on a question

Questions == 1..NQuestions
VerdictTables == {"berlue", "judge", "baseline"}
Tables == {"answers"} \cup VerdictTables
Matrices == {"berlue_matrix", "baseline_matrix"}

ASSUME ValidAssumption == Valid \subseteq Questions
ASSUME SliceAssumption == Slice \in [Evaluators -> Nat \X Nat]

Rulings == [about : Answers \cup {NoRow}, verdict : Verdicts]

ASSUME AbsenceAssumption == NoRow \notin Answers \cup Rulings /\ NoTask \notin Answers \cup {NoRow}
ASSUME CountAssumption == NQuestions \in Nat

VARIABLES
    rows,                   \* llm_answers, eval_berlue_generated, judge_verdicts,
                            \* eval_baseline_generated: by table and question
    matrices,               \* the rulings each matrix of the scope counts
    evaluator,              \* processes of evaluate_model_generated
    baseliner, builder,
    failures, purges        \* how many, for the bounds

vars == <<rows, matrices, evaluator, baseliner, builder, failures, purges>>

Off == [pc |-> "off"]
First(q, S) == q \in S /\ \A r \in S : q <= r

Init == /\ rows = [t \in Tables |-> [q \in Questions |-> NoRow]]
        /\ matrices = [m \in Matrices |-> NoRow]
        /\ evaluator = [p \in Evaluators |-> Off]
        /\ baseliner = [b \in Baseliners |-> Off]
        /\ builder = [b \in Builders |-> Off]
        /\ failures = 0 /\ purges = 0

(* INSERT OR IGNORE.                                                        *)
ReplaceRow(t, q, v) == rows' = [rows EXCEPT ![t][q] = v]
LoseRow(t, q, v)    == rows' = rows
Insert(t, q, v)     == rows' = IF rows[t][q] = NoRow THEN [rows EXCEPT ![t][q] = v] ELSE rows

Fails == failures < MaxFailures /\ failures' = failures + 1

(***************************************************************************)
(* evaluate_model_generated, process p: three stages, each of which lists   *)
(* the questions without a row, one query each, then hands them to a pool.  *)
(***************************************************************************)
Me(p)        == evaluator[p]
Become(p, s) == evaluator' = [evaluator EXCEPT ![p] = s]
UnfilteredSlice(p) == Slice[p][1]..Slice[p][2]
Subset(p)    == Valid \cap ((Slice[p][1] + 1)..Slice[p][2])
Stage(p, s)  == [pc |-> s, unread |-> Subset(p), todo |-> {},
                 doing |-> [q \in Questions |-> NoTask], failed |-> FALSE]
Busy(p)      == {q \in Questions : Me(p).doing[q] # NoTask}
Pooling(p)   == Me(p).pc # "off" /\ Me(p).unread = {}

Launch(p) ==
    /\ Me(p).pc = "off"
    /\ Become(p, Stage(p, "answers"))
    /\ UNCHANGED <<rows, matrices, baseliner, builder, failures, purges>>

List(p) ==
    /\ Me(p).pc # "off"
    /\ \E q \in Questions :
          /\ First(q, Me(p).unread)
          /\ Become(p, [Me(p) EXCEPT !.unread = @ \ {q},
                                     !.todo = IF rows[Me(p).pc][q] = NoRow THEN @ \cup {q} ELSE @])
    /\ UNCHANGED <<rows, matrices, baseliner, builder, failures, purges>>

Take(p) ==                  \* a thread takes the oldest question, reads its answer
    /\ Pooling(p) /\ Cardinality(Busy(p)) < Concurrency
    /\ \E q \in Questions :
          /\ First(q, Me(p).todo)
          /\ Become(p, [Me(p) EXCEPT !.todo = @ \ {q}, !.doing[q] = rows["answers"][q]])
    /\ UNCHANGED <<rows, matrices, baseliner, builder, failures, purges>>

(* What the calls of a stage return on the answer in hand; without one,     *)
(* Berlue generates its own and the judge is given none.                    *)
Results(stage, answer) ==
    IF stage = "answers" THEN Answers
    ELSE [about : IF answer = NoRow /\ stage = "berlue" THEN Answers ELSE {answer},
          verdict : Verdicts]

Put(p) ==
    /\ Pooling(p)
    /\ \E q \in Busy(p) :
          /\ \E v \in Results(Me(p).pc, Me(p).doing[q]) : Insert(Me(p).pc, q, v)
          /\ Become(p, [Me(p) EXCEPT !.doing[q] = NoTask])
    /\ UNCHANGED <<matrices, baseliner, builder, failures, purges>>

Raise(p) ==                 \* a model does not answer
    /\ Pooling(p)
    /\ \E q \in Busy(p) : Become(p, [Me(p) EXCEPT !.doing[q] = NoTask, !.failed = TRUE])
    /\ Fails
    /\ UNCHANGED <<rows, matrices, baseliner, builder, purges>>

Stop(p) ==                  \* Ctrl+C: the threads finish what they hold
    /\ Pooling(p)
    /\ Become(p, [Me(p) EXCEPT !.failed = TRUE])
    /\ Fails
    /\ UNCHANGED <<rows, matrices, baseliner, builder, purges>>

Cancel(p) ==                \* executor.map gives up what has not started
    /\ Pooling(p) /\ Me(p).failed /\ Me(p).todo # {}
    /\ Become(p, [Me(p) EXCEPT !.todo = {}])
    /\ UNCHANGED <<rows, matrices, baseliner, builder, failures, purges>>

NoBarrier(p) ==
    /\ Pooling(p) /\ Me(p).todo = {}
    /\ Become(p, IF Me(p).failed THEN Off
                 ELSE CASE Me(p).pc = "answers" -> Stage(p, "berlue")
                        [] Me(p).pc = "berlue" -> Stage(p, "judge")
                        [] OTHER -> Off)
    /\ UNCHANGED <<rows, matrices, baseliner, builder, failures, purges>>

NextStage(p) ==
    /\ Pooling(p) /\ Me(p).todo = {} /\ Busy(p) = {}
    /\ Become(p, IF Me(p).failed THEN Off
                 ELSE CASE Me(p).pc = "answers" -> Stage(p, "berlue")
                        [] Me(p).pc = "berlue" -> Stage(p, "judge")
                        [] OTHER -> Off)
    /\ UNCHANGED <<rows, matrices, baseliner, builder, failures, purges>>

Kill(p) ==
    /\ Me(p).pc # "off"
    /\ Become(p, Off)
    /\ Fails
    /\ UNCHANGED <<rows, matrices, baseliner, builder, purges>>

Evaluate(p) == Launch(p) \/ List(p) \/ Take(p) \/ Put(p) \/ Cancel(p) \/ NextStage(p)

(***************************************************************************)
(* evaluate_baseline_generated, process b: one question after the other.    *)
(***************************************************************************)
Classify(b, s) == /\ baseliner' = [baseliner EXCEPT ![b] = s]
                  /\ UNCHANGED <<matrices, evaluator, builder, failures, purges>>
Onward(left)   == [pc |-> "answer", left |-> left]
Reading(b)     == baseliner[b].pc = "answer"

BaseLaunch(b) ==
    /\ baseliner[b].pc = "off"
    /\ Classify(b, Onward(Valid))
    /\ UNCHANGED rows

BaseAnswer(b) ==            \* nothing to classify yet: skipped
    /\ Reading(b)
    /\ \E q \in Questions :
          /\ First(q, baseliner[b].left)
          /\ LET rest == baseliner[b].left \ {q} IN
             Classify(b, IF rows["answers"][q] = NoRow THEN Onward(rest)
                         ELSE [pc |-> "verdict", left |-> rest,
                               question |-> q, answer |-> rows["answers"][q]])
    /\ UNCHANGED rows

BaseVerdict(b) ==
    /\ baseliner[b].pc = "verdict"
    /\ Classify(b, IF rows["baseline"][baseliner[b].question] = NoRow
                   THEN [baseliner[b] EXCEPT !.pc = "put"] ELSE Onward(baseliner[b].left))
    /\ UNCHANGED rows

BasePut(b) ==
    /\ baseliner[b].pc = "put"
    /\ \E v \in Results("baseline", baseliner[b].answer) :
          Insert("baseline", baseliner[b].question, v)
    /\ Classify(b, Onward(baseliner[b].left))

BaseEnd(b) ==
    /\ Reading(b) /\ baseliner[b].left = {}
    /\ Classify(b, Off)
    /\ UNCHANGED rows

BaseStop(b) ==              \* an exception, Ctrl+C
    /\ baseliner[b].pc # "off"
    /\ Classify(b, Off)
    /\ UNCHANGED rows

Baseline(b) == BaseLaunch(b) \/ BaseAnswer(b) \/ BaseVerdict(b) \/ BasePut(b) \/ BaseEnd(b)

(***************************************************************************)
(* evaluate_{model,baseline}_generated_matrix, process b: the rulings of    *)
(* the judge and of Berlue or the baseline, question by question.           *)
(***************************************************************************)
Compared(m) == IF m = "berlue_matrix" THEN "berlue" ELSE "baseline"
Unknown     == [q \in Valid |-> NoRow]
Build(b, s) == builder' = [builder EXCEPT ![b] = s] /\ UNCHANGED <<rows, evaluator, baseliner, failures, purges>>

BuildStart(b) ==
    /\ builder[b].pc = "off"
    /\ \E m \in Matrices :
          Build(b, [pc |-> "judge", matrix |-> m, left |-> Valid, judge |-> Unknown, other |-> Unknown])
    /\ UNCHANGED matrices

BuildJudge(b) ==
    /\ builder[b].pc = "judge"
    /\ \E q \in Valid :
          /\ First(q, builder[b].left)
          /\ Build(b, [builder[b] EXCEPT !.pc = "other", !.judge[q] = rows["judge"][q]])
    /\ UNCHANGED matrices

BuildOther(b) ==
    /\ builder[b].pc = "other"
    /\ \E q \in Valid :
          /\ First(q, builder[b].left)
          /\ Build(b, [builder[b] EXCEPT !.pc = "judge", !.left = @ \ {q},
                                         !.other[q] = rows[Compared(builder[b].matrix)][q]])
    /\ UNCHANGED matrices

(* A later matrix of the scope replaces the one stored.                     *)
PutMatrix(m, judge, other) ==
    matrices' = [matrices EXCEPT ![m] = [judge |-> judge, other |-> other]]

PartialMatrix(b) ==
    /\ builder[b].pc = "judge" /\ builder[b].left = {}
    /\ Build(b, Off)
    /\ PutMatrix(builder[b].matrix, builder[b].judge, builder[b].other)

BuildEnd(b) ==              \* stored, or ValueError
    /\ builder[b].pc = "judge" /\ builder[b].left = {}
    /\ Build(b, Off)
    /\ IF \E q \in Valid : NoRow \in {builder[b].judge[q], builder[b].other[q]}
       THEN UNCHANGED matrices
       ELSE PutMatrix(builder[b].matrix, builder[b].judge, builder[b].other)

BuildMatrix(b) == BuildStart(b) \/ BuildJudge(b) \/ BuildOther(b) \/ BuildEnd(b)

(***************************************************************************)
(* purge. A request names a scope of tables and filters: for each column it *)
(* asks for, this scope's own value or another one.                         *)
(***************************************************************************)
ColumnsOf(t) ==
    {"model_id", "generation_version"}
    \cup (IF t # "answers" THEN {"eval_version"} ELSE {})
    \cup (IF t = "judge" THEN {"judge_model"} ELSE {})
    \cup (IF t \in {"berlue", "baseline"} \cup Matrices THEN {"dataset", "ratio"} ELSE {})
    \cup (IF t \in {"berlue", "berlue_matrix"} THEN {"pipeline_version"} ELSE {})

TablesOf(scope) == CASE scope = "all"      -> Tables \cup Matrices
                     [] scope = "results"  -> Tables
                     [] scope = "matrices" -> Matrices
                     [] OTHER              -> {}      \* mode 1 only

(* The tables that lose the rows of this scope: those that have one of the  *)
(* columns asked for, if any is, and match the filters on theirs.           *)
Purged(r) ==
    {t \in TablesOf(r.scope) :
        LET applied == DOMAIN r.filters \cap ColumnsOf(t) IN
        /\ applied = {} => DOMAIN r.filters = {}
        /\ \A c \in applied : r.filters[c] = "own"}

Effects == {Purged(r) : r \in PurgeRequests}

Idle == /\ \A p \in Evaluators : Me(p).pc = "off"
        /\ \A b \in Baseliners : baseliner[b].pc = "off"
        /\ \A b \in Builders : builder[b].pc = "off"

Purge ==
    /\ PurgeInFlight \/ Idle
    /\ purges < MaxPurges
    /\ \E T \in Effects :
          /\ rows' = [t \in Tables |-> IF t \in T THEN [q \in Questions |-> NoRow] ELSE rows[t]]
          /\ matrices' = [m \in Matrices |-> IF m \in T THEN NoRow ELSE matrices[m]]
    /\ purges' = purges + 1
    /\ UNCHANGED <<evaluator, baseliner, builder, failures>>

Next == \/ \E p \in Evaluators : Evaluate(p) \/ Raise(p) \/ Stop(p) \/ Kill(p)
        \/ \E b \in Baseliners : Baseline(b) \/ BaseStop(b)
        \/ \E b \in Builders : BuildMatrix(b)
        \/ Purge

Spec == Init /\ [][Next]_vars

(* Every call ends, and who wants a scope completed launches again.         *)
FairSpec == Spec /\ \A p \in Evaluators : WF_vars(Evaluate(p))
-------------------------------------------------------------------------------
RowsOf(t) == IF t = "answers" THEN Answers ELSE Rulings
Counted == [Valid -> Rulings \cup {NoRow}]

Running ==
    [pc : {"answers", "berlue", "judge"}, unread : SUBSET Questions, todo : SUBSET Questions,
     doing : [Questions -> Answers \cup {NoRow, NoTask}], failed : BOOLEAN]
Classifying == [pc : {"verdict", "put"}, left : SUBSET Questions,
                question : Questions, answer : Answers]
Looping  == [pc : {"answer"}, left : SUBSET Questions]
Building == [pc : {"judge", "other"}, matrix : Matrices, left : SUBSET Questions,
             judge : Counted, other : Counted]
Matrix   == [judge : [Valid -> Rulings], other : [Valid -> Rulings]]

(* Every variable keeps its shape; a matrix counts every valid question.    *)
TypeOK ==
    /\ rows \in [Tables -> [Questions -> Answers \cup Rulings \cup {NoRow}]]
    /\ \A t \in Tables, q \in Questions : rows[t][q] \in RowsOf(t) \cup {NoRow}
    /\ matrices \in [Matrices -> Matrix \cup {NoRow}]
    /\ evaluator \in [Evaluators -> {Off} \cup Running]
    /\ baseliner \in [Baseliners -> {Off} \cup Looping \cup Classifying]
    /\ builder \in [Builders -> {Off} \cup Building]
    /\ failures \in Nat /\ purges \in Nat

(* storage.md: the rows of the three tables are the verdicts "sur la        *)
(* réponse générée": where an answer is stored, the verdicts stored for it  *)
(* are about that answer, however stages, processes and purges follow one   *)
(* another.                                                                 *)
VerdictAboutAnswer ==
    \A t \in VerdictTables, q \in Questions :
        rows[t][q] # NoRow /\ rows["answers"][q] # NoRow
            => rows[t][q].about = rows["answers"][q]

(* Why it holds when purges ask for this scope's own values and wait for    *)
(* the processes to end: no verdict outlives its answer, and from the       *)
(* second stage on every question of a process has the answer in hand.      *)
About(ruling, q) == rows["answers"][q] # NoRow /\ ruling.about = rows["answers"][q]
Answered(q)      == rows["answers"][q] # NoRow

RulingInv ==
    \A t \in VerdictTables, q \in Questions : rows[t][q] # NoRow => About(rows[t][q], q)
StageOK(p) ==
    Me(p).pc # "off" =>
        /\ Me(p).unread \cup Me(p).todo \cup Busy(p) \subseteq Subset(p)
        /\ \A q \in Subset(p) :
              IF Me(p).pc = "answers"
              THEN Me(p).failed \/ Answered(q) \/ q \in Me(p).unread \cup Me(p).todo \cup Busy(p)
              ELSE Answered(q) /\ Me(p).doing[q] \in {NoTask, rows["answers"][q]}
StageInv == \A p \in Evaluators : StageOK(p)
BaselineInv ==
    \A b \in Baseliners : baseliner[b].pc \in {"verdict", "put"} =>
        baseliner[b].answer = rows["answers"][baseliner[b].question]
BuildInv ==
    \A b \in Builders : builder[b].pc # "off" =>
        \A q \in Valid : /\ builder[b].judge[q] # NoRow => About(builder[b].judge[q], q)
                         /\ builder[b].other[q] # NoRow => About(builder[b].other[q], q)

(* A matrix compares, for every valid question, two rulings on one answer,  *)
(* even though it is built with one query per ruling while others write.    *)
MatrixComparesOneAnswer ==
    \A m \in Matrices, q \in Valid : matrices[m] # NoRow =>
        /\ NoRow \notin {matrices[m].judge[q], matrices[m].other[q]}
        /\ matrices[m].judge[q].about = matrices[m].other[q].about

AnswerInv == RulingInv /\ StageInv /\ BaselineInv /\ BuildInv /\ MatrixComparesOneAnswer

(* storage.md: "deux workers tombant sur la même question ne dupliquent     *)
(* rien": in each table the first row written stays.                        *)
AllRows == INSTANCE WriteOnceTable
           WITH Keys <- Tables \X Questions, Values <- Answers \cup Rulings,
                table <- [k \in Tables \X Questions |-> rows[k[1]][k[2]]]
RowsWriteOnce == AllRows!Spec

(* Whatever fails or is interrupted, launching again completes the scope.   *)
ScopeCompletes ==
    <>[](\A p \in Evaluators, t \in {"answers", "berlue", "judge"}, q \in Questions :
            q \in Subset(p) => rows[t][q] # NoRow)
=============================================================================
