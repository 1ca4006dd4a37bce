--------------------------- MODULE GeneratedEvalProofs ---------------------------
(***************************************************************************)
(* Proofs about GeneratedEval: its variables keep their shape and its       *)
(* tables keep the first value of each row until a purge; and when          *)
(* purges ask for this scope's own values and wait for the processes to     *)
(* end, the verdicts stored are about the answers stored, and a matrix      *)
(* compares rulings on the same answers, for any number of questions,       *)
(* processes, threads, failures and purges. Last, a run whose stages all    *)
(* succeed leaves no hole in its slice.                                     *)
(***************************************************************************)
EXTENDS GeneratedEval, TLAPS

RowTypes == /\ rows \in [Tables -> [Questions -> Answers \cup Rulings \cup {NoRow}]]
            /\ \A t \in Tables, q \in Questions : rows[t][q] \in RowsOf(t) \cup {NoRow}

LEMMA InsertType ==
    ASSUME RowTypes, NEW t \in Tables, NEW q \in Questions, NEW v \in RowsOf(t), Insert(t, q, v)
    PROVE  RowTypes'
<1>1. v \in Answers \cup Rulings
  BY DEF RowsOf
<1>2. rows' \in [Tables -> [Questions -> Answers \cup Rulings \cup {NoRow}]]
  BY <1>1 DEF RowTypes, Insert
<1>3. ASSUME NEW u \in Tables, NEW r \in Questions
      PROVE  rows'[u][r] = rows[u][r] \/ (u = t /\ r = q /\ rows'[u][r] = v)
  BY DEF RowTypes, Insert
<1> QED BY <1>2, <1>3 DEF RowTypes

LEMMA ResultType ==
    ASSUME NEW s \in Tables, NEW a \in Answers \cup {NoRow}, NEW v \in Results(s, a)
    PROVE  v \in RowsOf(s)
BY DEF Results, RowsOf, Rulings

LEMMA Become_ ==
    ASSUME TypeOK, NEW p \in Evaluators, NEW s \in {Off} \cup Running, Become(p, s)
    PROVE  evaluator' \in [Evaluators -> {Off} \cup Running]
BY DEF TypeOK, Become

LEMMA MeType ==
    ASSUME TypeOK, NEW p \in Evaluators, Me(p).pc # "off"
    PROVE  /\ Me(p) \in Running
           /\ Me(p).unread \subseteq Questions /\ Me(p).todo \subseteq Questions
           /\ Me(p).doing \in [Questions -> Answers \cup {NoRow, NoTask}]
           /\ Me(p).failed \in BOOLEAN
           /\ Me(p).pc \in {"answers", "berlue", "judge"}
<1>1. Me(p) \in {Off} \cup Running
  BY DEF TypeOK, Me
<1> QED BY <1>1 DEF Off, Running

LEMMA StageType ==
    ASSUME NEW p \in Evaluators, NEW s \in {"answers", "berlue", "judge"}
    PROVE  Stage(p, s) \in Running
BY ValidAssumption DEF Stage, Running, Subset

(* What an evaluator's action makes of itself has the right shape.          *)
LEMMA EvaluatorStep ==
    ASSUME TypeOK, NEW p \in Evaluators, Evaluate(p) \/ Raise(p) \/ Stop(p) \/ Kill(p)
    PROVE  evaluator' \in [Evaluators -> {Off} \cup Running]
<1>1. CASE Launch(p)
  BY <1>1, StageType, Become_ DEF Launch
<1>2. CASE List(p)
  <2>1. PICK q \in Questions :
           Become(p, [Me(p) EXCEPT !.unread = @ \ {q},
                        !.todo = IF rows[Me(p).pc][q] = NoRow THEN @ \cup {q} ELSE @])
    BY <1>2 DEF List
  <2>2. [Me(p) EXCEPT !.unread = @ \ {q},
           !.todo = IF rows[Me(p).pc][q] = NoRow THEN @ \cup {q} ELSE @] \in Running
    BY <1>2, MeType DEF List, Running
  <2> QED BY <2>1, <2>2, Become_
<1>3. CASE Take(p)
  <2>1. PICK q \in Questions :
           Become(p, [Me(p) EXCEPT !.todo = @ \ {q}, !.doing[q] = rows["answers"][q]])
    BY <1>3 DEF Take
  <2>2. rows["answers"][q] \in Answers \cup {NoRow}
    BY DEF TypeOK, Tables, RowsOf
  <2>3. [Me(p) EXCEPT !.todo = @ \ {q}, !.doing[q] = rows["answers"][q]] \in Running
    BY <1>3, <2>2, MeType DEF Take, Pooling, Running
  <2> QED BY <2>1, <2>3, Become_
<1>4. CASE Put(p)
  <2>1. PICK q \in Questions : Become(p, [Me(p) EXCEPT !.doing[q] = NoTask])
    BY <1>4 DEF Put, Busy
  <2>2. [Me(p) EXCEPT !.doing[q] = NoTask] \in Running
    BY <1>4, MeType DEF Put, Pooling, Running
  <2> QED BY <2>1, <2>2, Become_
<1>5. CASE Raise(p)
  <2>1. PICK q \in Questions : Become(p, [Me(p) EXCEPT !.doing[q] = NoTask, !.failed = TRUE])
    BY <1>5 DEF Raise, Busy
  <2>2. [Me(p) EXCEPT !.doing[q] = NoTask, !.failed = TRUE] \in Running
    BY <1>5, MeType DEF Raise, Pooling, Running
  <2> QED BY <2>1, <2>2, Become_
<1>6. CASE Stop(p)
  <2>1. [Me(p) EXCEPT !.failed = TRUE] \in Running
    BY <1>6, MeType DEF Stop, Pooling, Running
  <2> QED BY <1>6, <2>1, Become_ DEF Stop
<1>7. CASE Cancel(p)
  <2>1. [Me(p) EXCEPT !.todo = {}] \in Running
    BY <1>7, MeType DEF Cancel, Pooling, Running
  <2> QED BY <1>7, <2>1, Become_ DEF Cancel
<1>8. CASE NextStage(p)
  <2> DEFINE s == IF Me(p).failed THEN Off
                  ELSE CASE Me(p).pc = "answers" -> Stage(p, "berlue")
                         [] Me(p).pc = "berlue" -> Stage(p, "judge")
                         [] OTHER -> Off
  <2>1. s \in {Off} \cup Running
    BY StageType
  <2>2. Become(p, s)
    BY <1>8 DEF NextStage
  <2> HIDE DEF s
  <2> QED BY <2>1, <2>2, Become_
<1>9. CASE Kill(p)
  BY <1>9, Become_ DEF Kill
<1> QED BY <1>1, <1>2, <1>3, <1>4, <1>5, <1>6, <1>7, <1>8, <1>9 DEF Evaluate

LEMMA RowTypesIff == TypeOK => RowTypes
BY DEF TypeOK, RowTypes

(* A stage stores what its calls return on the answer in hand.              *)
LEMMA PutStep ==
    ASSUME TypeOK, NEW p \in Evaluators, Put(p)
    PROVE  RowTypes'
<1>1. PICK q \in Busy(p) : \E v \in Results(Me(p).pc, Me(p).doing[q]) : Insert(Me(p).pc, q, v)
  BY DEF Put
<1>2. PICK v \in Results(Me(p).pc, Me(p).doing[q]) : Insert(Me(p).pc, q, v)
  BY <1>1
<1>3. q \in Questions /\ Me(p).pc \in Tables /\ Me(p).doing[q] \in Answers \cup {NoRow}
  BY MeType DEF Put, Pooling, Busy, Tables, VerdictTables
<1>4. v \in RowsOf(Me(p).pc)
  BY <1>3, ResultType
<1> QED BY <1>2, <1>3, <1>4, RowTypesIff, InsertType

LEMMA BaselinerType ==
    ASSUME TypeOK, NEW b \in Baseliners
    PROVE  /\ baseliner[b].pc = "answer" => baseliner[b].left \subseteq Questions
           /\ baseliner[b].pc \in {"verdict", "put"} =>
                 /\ baseliner[b] \in Classifying /\ baseliner[b].left \subseteq Questions
                 /\ baseliner[b].question \in Questions /\ baseliner[b].answer \in Answers
<1>1. baseliner[b] \in {Off} \cup Looping \cup Classifying
  BY DEF TypeOK
<1> QED BY <1>1 DEF Off, Looping, Classifying

LEMMA BaselineStep ==
    ASSUME TypeOK, NEW b \in Baseliners, Baseline(b) \/ BaseStop(b)
    PROVE  baseliner' \in [Baseliners -> {Off} \cup Looping \cup Classifying] /\ RowTypes'
<1>1. ASSUME NEW s \in {Off} \cup Looping \cup Classifying, Classify(b, s)
      PROVE  baseliner' \in [Baseliners -> {Off} \cup Looping \cup Classifying]
  BY <1>1 DEF TypeOK, Classify
<1>2. ASSUME NEW S \in SUBSET Questions
      PROVE  Onward(S) \in Looping
  BY DEF Onward, Looping
<1>3. ASSUME UNCHANGED rows
      PROVE  RowTypes'
  BY <1>3, RowTypesIff DEF RowTypes
<1>4. CASE BaseLaunch(b)
  BY <1>1, <1>2, <1>3, <1>4, ValidAssumption DEF BaseLaunch
<1>5. CASE BaseAnswer(b)
  <2>1. PICK q \in Questions :
           Classify(b, IF rows["answers"][q] = NoRow THEN Onward(baseliner[b].left \ {q})
                       ELSE [pc |-> "verdict", left |-> baseliner[b].left \ {q},
                             question |-> q, answer |-> rows["answers"][q]])
    BY <1>5 DEF BaseAnswer
  <2>2. baseliner[b].left \ {q} \in SUBSET Questions
    BY <1>5, BaselinerType DEF BaseAnswer, Reading
  <2>3. rows["answers"][q] \in Answers \cup {NoRow}
    BY DEF TypeOK, Tables, RowsOf
  <2>4. rows["answers"][q] # NoRow =>
           [pc |-> "verdict", left |-> baseliner[b].left \ {q},
            question |-> q, answer |-> rows["answers"][q]] \in Classifying
    BY <2>2, <2>3 DEF Classifying
  <2> QED BY <1>1, <1>2, <1>3, <1>5, <2>1, <2>2, <2>4 DEF BaseAnswer
<1>6. CASE BaseVerdict(b)
  <2>1. [baseliner[b] EXCEPT !.pc = "put"] \in Classifying
    BY <1>6, BaselinerType DEF BaseVerdict, Classifying
  <2>2. Onward(baseliner[b].left) \in Looping
    BY <1>2, <1>6, BaselinerType DEF BaseVerdict
  <2> QED BY <1>1, <1>3, <1>6, <2>1, <2>2 DEF BaseVerdict
<1>7. CASE BasePut(b)
  <2>1. PICK v \in Results("baseline", baseliner[b].answer) :
           Insert("baseline", baseliner[b].question, v)
    BY <1>7 DEF BasePut
  <2>2. /\ baseliner[b].question \in Questions /\ baseliner[b].answer \in Answers
        /\ Onward(baseliner[b].left) \in Looping
    BY <1>2, <1>7, BaselinerType DEF BasePut
  <2>3. v \in RowsOf("baseline")
    BY <2>1, <2>2, ResultType DEF Tables, VerdictTables
  <2>4. RowTypes'
    BY <2>1, <2>2, <2>3, RowTypesIff, InsertType DEF Tables, VerdictTables
  <2> QED BY <1>1, <1>7, <2>2, <2>4 DEF BasePut
<1>8. CASE BaseEnd(b) \/ BaseStop(b)
  BY <1>1, <1>3, <1>8 DEF BaseEnd, BaseStop
<1> QED BY <1>4, <1>5, <1>6, <1>7, <1>8 DEF Baseline

LEMMA BuilderType ==
    ASSUME TypeOK, NEW b \in Builders, builder[b].pc # "off"
    PROVE  /\ builder[b] \in Building /\ builder[b].matrix \in Matrices
           /\ builder[b].left \subseteq Questions
           /\ builder[b].judge \in Counted /\ builder[b].other \in Counted
<1>1. builder[b] \in {Off} \cup Building
  BY DEF TypeOK
<1> QED BY <1>1 DEF Off, Building

(* The rulings a builder reads are rows of verdict tables.                  *)
LEMMA ReadType ==
    ASSUME TypeOK, NEW t \in VerdictTables, NEW q \in Valid
    PROVE  rows[t][q] \in Rulings \cup {NoRow}
<1>1. t \in Tables /\ t # "answers" /\ q \in Questions
  BY ValidAssumption DEF Tables, VerdictTables
<1> QED BY <1>1 DEF TypeOK, RowsOf

LEMMA BuilderStep ==
    ASSUME TypeOK, NEW b \in Builders, BuildMatrix(b)
    PROVE  /\ builder' \in [Builders -> {Off} \cup Building]
           /\ matrices' \in [Matrices -> Matrix \cup {NoRow}]
<1>1. ASSUME NEW s \in {Off} \cup Building, Build(b, s)
      PROVE  builder' \in [Builders -> {Off} \cup Building]
  BY <1>1 DEF TypeOK, Build
<1>2. ASSUME UNCHANGED matrices
      PROVE  matrices' \in [Matrices -> Matrix \cup {NoRow}]
  BY <1>2 DEF TypeOK
<1>3. CASE BuildStart(b)
  <2>1. PICK m \in Matrices : Build(b, [pc |-> "judge", matrix |-> m, left |-> Valid,
                                        judge |-> Unknown, other |-> Unknown])
    BY <1>3 DEF BuildStart
  <2>2. [pc |-> "judge", matrix |-> m, left |-> Valid, judge |-> Unknown, other |-> Unknown]
           \in Building
    BY ValidAssumption DEF Building, Unknown, Counted
  <2> QED BY <1>1, <1>2, <1>3, <2>1, <2>2 DEF BuildStart
<1>4. CASE BuildJudge(b)
  <2>1. PICK q \in Valid :
           Build(b, [builder[b] EXCEPT !.pc = "other", !.judge[q] = rows["judge"][q]])
    BY <1>4 DEF BuildJudge
  <2>2. rows["judge"][q] \in Rulings \cup {NoRow}
    BY ReadType DEF VerdictTables
  <2>3. [builder[b] EXCEPT !.pc = "other", !.judge[q] = rows["judge"][q]] \in Building
    BY <1>4, <2>2, BuilderType DEF BuildJudge, Building, Counted
  <2> QED BY <1>1, <1>2, <1>4, <2>1, <2>3 DEF BuildJudge
<1>5. CASE BuildOther(b)
  <2> DEFINE t == Compared(builder[b].matrix)
  <2>1. PICK q \in Valid :
           Build(b, [builder[b] EXCEPT !.pc = "judge", !.left = @ \ {q}, !.other[q] = rows[t][q]])
    BY <1>5 DEF BuildOther
  <2>2. t \in VerdictTables
    BY DEF Compared, VerdictTables
  <2>3. rows[t][q] \in Rulings \cup {NoRow}
    BY <2>2, ReadType
  <2> HIDE DEF t
  <2>4. [builder[b] EXCEPT !.pc = "judge", !.left = @ \ {q}, !.other[q] = rows[t][q]] \in Building
    BY <1>5, <2>3, BuilderType DEF BuildOther, Building, Counted
  <2> QED BY <1>1, <1>2, <1>5, <2>1, <2>4 DEF BuildOther
<1>6. CASE BuildEnd(b)
  <2>1. builder' \in [Builders -> {Off} \cup Building]
    BY <1>1, <1>6 DEF BuildEnd, PutMatrix
  <2>2. CASE \E q \in Valid : NoRow \in {builder[b].judge[q], builder[b].other[q]}
    BY <1>2, <1>6, <2>1, <2>2 DEF BuildEnd, PutMatrix
  <2>3. CASE ~\E q \in Valid : NoRow \in {builder[b].judge[q], builder[b].other[q]}
    <3>1. /\ builder[b].judge \in [Valid -> Rulings] /\ builder[b].other \in [Valid -> Rulings]
          /\ builder[b].matrix \in Matrices
      BY <1>6, <2>3, BuilderType DEF BuildEnd, PutMatrix, Counted
    <3>2. [judge |-> builder[b].judge, other |-> builder[b].other] \in Matrix
      BY <3>1 DEF Matrix
    <3>3. matrices' = [matrices EXCEPT ![builder[b].matrix] =
                         [judge |-> builder[b].judge, other |-> builder[b].other]]
      BY <1>6, <2>3 DEF BuildEnd, PutMatrix
    <3>4. matrices \in [Matrices -> Matrix \cup {NoRow}]
      BY DEF TypeOK
    <3> QED BY <2>1, <3>1, <3>2, <3>3, <3>4
  <2> QED BY <2>2, <2>3
<1> QED BY <1>3, <1>4, <1>5, <1>6 DEF BuildMatrix

(* Every variable keeps its shape: TypeOK, for every instance.              *)
THEOREM TypeCorrect == Spec => []TypeOK
<1>1. Init => TypeOK
  BY DEF Init, TypeOK
<1>2. TypeOK /\ [Next]_vars => TypeOK'
  <2> SUFFICES ASSUME TypeOK, [Next]_vars PROVE TypeOK'
    OBVIOUS
  <2>1. ASSUME RowTypes', UNCHANGED <<matrices, builder, purges>>,
               evaluator' \in [Evaluators -> {Off} \cup Running],
               baseliner' \in [Baseliners -> {Off} \cup Looping \cup Classifying],
               failures' \in Nat
        PROVE  TypeOK'
    BY <2>1 DEF TypeOK, RowTypes
  <2>2. RowTypes
    BY RowTypesIff
  <2>3. ASSUME UNCHANGED rows PROVE RowTypes'
    BY <2>2, <2>3 DEF RowTypes
  <2>4. /\ evaluator \in [Evaluators -> {Off} \cup Running]
        /\ baseliner \in [Baseliners -> {Off} \cup Looping \cup Classifying]
        /\ failures \in Nat /\ purges \in Nat
    BY DEF TypeOK
  <2>5. ASSUME NEW p \in Evaluators, Evaluate(p) \/ Raise(p) \/ Stop(p) \/ Kill(p)
        PROVE  TypeOK'
    <3>1. evaluator' \in [Evaluators -> {Off} \cup Running]
      BY <2>5, EvaluatorStep
    <3>2. Put(p) \/ UNCHANGED rows
      BY <2>5 DEF Evaluate, Launch, List, Take, Cancel, NextStage, Raise, Stop, Kill
    <3>3. RowTypes'
      BY <2>3, <3>2, PutStep
    <3>4. UNCHANGED failures \/ Fails
      BY <2>5 DEF Evaluate, Launch, List, Take, Put, Cancel, NextStage, Raise, Stop, Kill
    <3>5. UNCHANGED <<matrices, baseliner, builder, purges>>
      BY <2>5 DEF Evaluate, Launch, List, Take, Put, Cancel, NextStage, Raise, Stop, Kill
    <3>6. failures' \in Nat
      BY <2>4, <3>4 DEF Fails
    <3> QED BY <2>1, <2>4, <3>1, <3>3, <3>5, <3>6
  <2>6. ASSUME NEW b \in Baseliners, Baseline(b) \/ BaseStop(b)
        PROVE  TypeOK'
    <3>1. UNCHANGED <<matrices, evaluator, builder, failures, purges>>
      BY <2>6 DEF Baseline, BaseLaunch, BaseAnswer, BaseVerdict, BasePut, BaseEnd, BaseStop, Classify
    <3> QED BY <2>1, <2>4, <2>6, <3>1, BaselineStep
  <2>7. ASSUME NEW b \in Builders, BuildMatrix(b)
        PROVE  TypeOK'
    <3>1. UNCHANGED <<rows, evaluator, baseliner, failures, purges>>
      BY <2>7 DEF BuildMatrix, BuildStart, BuildJudge, BuildOther, BuildEnd, PutMatrix, Build
    <3>2. RowTypes'
      BY <2>3, <3>1
    <3>3. /\ builder' \in [Builders -> {Off} \cup Building]
          /\ matrices' \in [Matrices -> Matrix \cup {NoRow}]
      BY <2>7, BuilderStep
    <3> QED BY <2>4, <3>1, <3>2, <3>3 DEF TypeOK, RowTypes
  <2>8. ASSUME Purge PROVE TypeOK'
    <3>1. RowTypes'
      BY <2>2, <2>8 DEF Purge, RowTypes
    <3>2. matrices' \in [Matrices -> Matrix \cup {NoRow}]
      BY <2>8 DEF Purge, TypeOK
    <3> QED BY <2>4, <2>8, <3>1, <3>2 DEF Purge, TypeOK, RowTypes
  <2>9. ASSUME UNCHANGED vars PROVE TypeOK'
    BY <2>9 DEF vars, TypeOK
  <2> QED BY <2>5, <2>6, <2>7, <2>8, <2>9 DEF Next
<1> QED BY <1>1, <1>2, PTL DEF Spec

-------------------------------------------------------------------------------
(* Purges wait for the processes to end and ask for the scope's own values. *)
OwnPurges == /\ ~PurgeInFlight
             /\ \A r \in PurgeRequests : \A c \in DOMAIN r.filters : r.filters[c] = "own"

(* Such a purge deletes no answer and leaves a verdict on it: every column  *)
(* of llm_answers is one of the verdict tables too.                         *)
LEMMA PurgedTogether ==
    ASSUME OwnPurges, NEW T \in Effects, "answers" \in T
    PROVE  VerdictTables \subseteq T
<1>1. PICK r \in PurgeRequests : T = Purged(r)
  BY DEF Effects
<1>2. Tables \subseteq TablesOf(r.scope)
  BY <1>1 DEF Purged, TablesOf, Matrices
<1>3. ColumnsOf("answers") = {"model_id", "generation_version"}
  BY DEF ColumnsOf, Matrices
<1>4. ASSUME NEW t \in VerdictTables PROVE {"model_id", "generation_version"} \subseteq ColumnsOf(t)
  BY DEF ColumnsOf
<1>5. DOMAIN r.filters \cap {"model_id", "generation_version"} = {} => DOMAIN r.filters = {}
  BY <1>1, <1>3 DEF Purged
<1>6. ASSUME NEW t \in VerdictTables PROVE t \in Purged(r)
  <2>1. t \in TablesOf(r.scope)
    BY <1>2 DEF Tables
  <2>2. DOMAIN r.filters \cap ColumnsOf(t) = {} => DOMAIN r.filters = {}
    BY <1>4, <1>5
  <2>3. \A c \in DOMAIN r.filters \cap ColumnsOf(t) : r.filters[c] = "own"
    BY DEF OwnPurges
  <2> QED BY <2>1, <2>2, <2>3 DEF Purged
<1> QED BY <1>1, <1>6

(* No step but a purge changes or removes an answer.                        *)
AnswersKept == \A q \in Questions : Answered(q) => rows'["answers"][q] = rows["answers"][q]

IInv == TypeOK /\ AnswerInv

LEMMA InsertKeeps ==
    ASSUME TypeOK, NEW t \in Tables, NEW q \in Questions, NEW v, Insert(t, q, v)
    PROVE  /\ AnswersKept
           /\ rows'[t][q] # NoRow \/ v = NoRow
           /\ \A u \in Tables, r \in Questions :
                 rows'[u][r] = rows[u][r] \/ (u = t /\ r = q /\ rows[u][r] = NoRow /\ rows'[u][r] = v)
<1>1. \A u \in Tables, r \in Questions :
         rows'[u][r] = rows[u][r] \/ (u = t /\ r = q /\ rows[u][r] = NoRow /\ rows'[u][r] = v)
  BY DEF TypeOK, Insert
<1>2. rows'[t][q] # NoRow \/ v = NoRow
  BY DEF TypeOK, Insert
<1>3. "answers" \in Tables
  BY DEF Tables
<1> QED BY <1>1, <1>2, <1>3 DEF AnswersKept, Answered

(* Where answers are kept, what nobody touched stays right.                 *)
LEMMA Kept ==
    ASSUME IInv, AnswersKept
    PROVE  /\ \A q \in Questions : \A v : About(v, q) => About(v, q)'
           /\ \A p \in Evaluators : Me(p)' = Me(p) => StageOK(p)'
           /\ UNCHANGED baseliner => BaselineInv'
           /\ UNCHANGED builder => BuildInv'
           /\ UNCHANGED matrices => MatrixComparesOneAnswer'
<1>0. TypeOK /\ AnswerInv
  BY DEF IInv
<1>1. ASSUME NEW q \in Questions, NEW v, About(v, q)
      PROVE  rows'["answers"][q] # NoRow /\ v.about = rows'["answers"][q]
  BY <1>1 DEF AnswersKept, Answered, About
<1>2. ASSUME NEW p \in Evaluators, Me(p)' = Me(p)
      PROVE  StageOK(p)'
  <2>1. StageOK(p) /\ Subset(p) \subseteq Questions
    BY <1>0, ValidAssumption DEF AnswerInv, StageInv, Subset
  <2>2. \A q \in Questions : Answered(q) => Answered(q)'
    BY DEF AnswersKept, Answered
  <2>3. Busy(p)' = Busy(p)
    BY <1>2 DEF Busy
  <2>4. Subset(p)' = Subset(p)
    BY DEF Subset
  <2> QED BY <1>2, <2>1, <2>2, <2>3, <2>4 DEF StageOK, AnswersKept
<1>3. ASSUME UNCHANGED baseliner PROVE BaselineInv'
  <2>1. ASSUME NEW b \in Baseliners, baseliner[b].pc \in {"verdict", "put"}
        PROVE  baseliner[b].answer = rows'["answers"][baseliner[b].question]
    <3>1. baseliner[b].question \in Questions /\ baseliner[b].answer \in Answers
      BY <1>0, <2>1, BaselinerType
    <3>2. baseliner[b].answer = rows["answers"][baseliner[b].question]
      BY <1>0, <2>1 DEF AnswerInv, BaselineInv
    <3> QED BY <3>1, <3>2, AbsenceAssumption DEF AnswersKept, Answered
  <2> QED BY <1>3, <2>1 DEF BaselineInv
<1>4. ASSUME UNCHANGED builder PROVE BuildInv'
  BY <1>0, <1>1, <1>4, ValidAssumption DEF AnswerInv, BuildInv, About
<1>5. ASSUME UNCHANGED matrices PROVE MatrixComparesOneAnswer'
  BY <1>0, <1>5 DEF AnswerInv, MatrixComparesOneAnswer
<1> QED BY <1>1, <1>2, <1>3, <1>4, <1>5 DEF About

LEMMA Became ==
    ASSUME TypeOK, NEW p \in Evaluators, NEW s, Become(p, s)
    PROVE  /\ Me(p)' = s
           /\ \A r \in Evaluators : r # p => Me(r)' = Me(r)
BY DEF TypeOK, Become, Me

LEMMA Idling ==
    ASSUME NEW p \in Evaluators, Me(p)' = Off
    PROVE  StageOK(p)'
BY DEF StageOK, Off

(* Entering a stage: everything of the slice is still to be listed.         *)
LEMMA Entering ==
    ASSUME NEW p \in Evaluators, NEW s, Me(p)' = Stage(p, s), UNCHANGED rows,
           s = "answers" \/ \A q \in Subset(p) : Answered(q)
    PROVE  StageOK(p)'
<1>1. /\ Me(p)'.pc = s /\ Me(p)'.unread = Subset(p) /\ Me(p)'.todo = {}
      /\ Me(p)'.doing = [q \in Questions |-> NoTask]
  BY DEF Stage
<1>2. Busy(p)' = {} /\ Subset(p)' = Subset(p) /\ Subset(p) \subseteq Questions
  BY <1>1, ValidAssumption DEF Busy, Subset
<1> QED BY <1>1, <1>2 DEF StageOK, Answered

(* A process that reads, hands out or gives up its work.                    *)
LEMMA ReadingKeepsStage ==
    ASSUME IInv, NEW p \in Evaluators, List(p) \/ Take(p) \/ Cancel(p) \/ Raise(p) \/ Stop(p)
    PROVE  StageOK(p)' /\ UNCHANGED rows /\ \A r \in Evaluators : r # p => Me(r)' = Me(r)
<1>1. TypeOK /\ StageOK(p)
  BY DEF IInv, AnswerInv, StageInv
<1>2. /\ Me(p).pc # "off"
      /\ Me(p) \in Running /\ Me(p).doing \in [Questions -> Answers \cup {NoRow, NoTask}]
  BY <1>1, MeType DEF List, Take, Cancel, Raise, Stop, Pooling
<1>3. \A q \in Questions : rows["answers"][q] # NoTask
  BY <1>1, AbsenceAssumption DEF TypeOK, Tables, RowsOf
<1>4. Subset(p)' = Subset(p) /\ Subset(p) \subseteq Questions
  BY ValidAssumption DEF Subset
<1>5. CASE List(p)
  <2> DEFINE s(q) == [Me(p) EXCEPT !.unread = @ \ {q},
                        !.todo = IF rows[Me(p).pc][q] = NoRow THEN @ \cup {q} ELSE @]
  <2>1. PICK q \in Questions : First(q, Me(p).unread) /\ Become(p, s(q))
    BY <1>5 DEF List
  <2>2. Me(p)' = s(q) /\ \A r \in Evaluators : r # p => Me(r)' = Me(r)
    BY <1>1, <2>1, Became
  <2>3. /\ Me(p)'.pc = Me(p).pc /\ Me(p)'.failed = Me(p).failed /\ Me(p)'.doing = Me(p).doing
        /\ Me(p)'.unread = Me(p).unread \ {q}
        /\ Me(p)'.todo = IF rows[Me(p).pc][q] = NoRow THEN Me(p).todo \cup {q} ELSE Me(p).todo
    BY <1>2, <2>2 DEF Running
  <2>4. Busy(p)' = Busy(p) /\ UNCHANGED rows /\ q \in Me(p).unread
    BY <1>5, <2>1, <2>3 DEF Busy, List, First
  <2>5. StageOK(p)'
    BY <1>1, <1>2, <1>4, <2>3, <2>4 DEF StageOK, Answered
  <2> QED BY <2>2, <2>4, <2>5
<1>6. CASE Take(p)
  <2> DEFINE s(q) == [Me(p) EXCEPT !.todo = @ \ {q}, !.doing[q] = rows["answers"][q]]
  <2>1. PICK q \in Questions : First(q, Me(p).todo) /\ Become(p, s(q))
    BY <1>6 DEF Take
  <2>2. Me(p)' = s(q) /\ \A r \in Evaluators : r # p => Me(r)' = Me(r)
    BY <1>1, <2>1, Became
  <2>3. /\ Me(p)'.pc = Me(p).pc /\ Me(p)'.failed = Me(p).failed /\ Me(p)'.unread = Me(p).unread
        /\ Me(p)'.todo = Me(p).todo \ {q}
        /\ Me(p)'.doing = [Me(p).doing EXCEPT ![q] = rows["answers"][q]]
    BY <1>2, <2>2 DEF Running
  <2>4. Busy(p)' = Busy(p) \cup {q} /\ UNCHANGED rows /\ q \in Me(p).todo
    BY <1>2, <1>3, <1>6, <2>1, <2>3 DEF Busy, Take, First
  <2>5. \A r \in Questions : Me(p)'.doing[r] \in {Me(p).doing[r], rows["answers"][r]}
    BY <1>2, <2>3
  <2>6. StageOK(p)'
    BY <1>1, <1>2, <1>4, <2>3, <2>4, <2>5 DEF StageOK, Answered
  <2> QED BY <2>2, <2>4, <2>6
<1>7. CASE Cancel(p)
  <2>1. Me(p)' = [Me(p) EXCEPT !.todo = {}] /\ \A r \in Evaluators : r # p => Me(r)' = Me(r)
    BY <1>1, <1>7, Became DEF Cancel
  <2>2. /\ Me(p)'.pc = Me(p).pc /\ Me(p)'.failed /\ Me(p)'.unread = Me(p).unread
        /\ Me(p)'.todo = {} /\ Me(p)'.doing = Me(p).doing
    BY <1>2, <1>7, <2>1 DEF Running, Cancel
  <2>3. Busy(p)' = Busy(p) /\ UNCHANGED rows
    BY <1>7, <2>2 DEF Busy, Cancel
  <2> QED BY <1>1, <1>2, <1>4, <2>1, <2>2, <2>3 DEF StageOK, Answered
<1>8. CASE Raise(p)
  <2>1. PICK q \in Busy(p) : Become(p, [Me(p) EXCEPT !.doing[q] = NoTask, !.failed = TRUE])
    BY <1>8 DEF Raise
  <2>2. /\ Me(p)' = [Me(p) EXCEPT !.doing[q] = NoTask, !.failed = TRUE]
        /\ \A r \in Evaluators : r # p => Me(r)' = Me(r)
    BY <1>1, <2>1, Became
  <2>3. /\ Me(p)'.pc = Me(p).pc /\ Me(p)'.failed /\ Me(p)'.unread = Me(p).unread
        /\ Me(p)'.todo = Me(p).todo /\ Me(p)'.doing = [Me(p).doing EXCEPT ![q] = NoTask]
    BY <1>2, <2>2 DEF Running
  <2>4. /\ Busy(p)' \subseteq Busy(p) /\ UNCHANGED rows
        /\ \A r \in Questions : Me(p)'.doing[r] \in {Me(p).doing[r], NoTask}
    BY <1>2, <1>8, <2>3 DEF Busy, Raise
  <2> QED BY <1>1, <1>2, <1>4, <2>2, <2>3, <2>4 DEF StageOK, Answered
<1>9. CASE Stop(p)
  <2>1. Me(p)' = [Me(p) EXCEPT !.failed = TRUE] /\ \A r \in Evaluators : r # p => Me(r)' = Me(r)
    BY <1>1, <1>9, Became DEF Stop
  <2>2. /\ Me(p)'.pc = Me(p).pc /\ Me(p)'.failed /\ Me(p)'.unread = Me(p).unread
        /\ Me(p)'.todo = Me(p).todo /\ Me(p)'.doing = Me(p).doing
    BY <1>2, <2>1 DEF Running
  <2>3. Busy(p)' = Busy(p) /\ UNCHANGED rows
    BY <1>9, <2>2 DEF Busy, Stop
  <2> QED BY <1>1, <1>2, <1>4, <2>1, <2>2, <2>3 DEF StageOK, Answered
<1> QED BY <1>5, <1>6, <1>7, <1>8, <1>9

(* A thread stores an answer where there is none, or a verdict on the one   *)
(* its process has in hand.                                                 *)
LEMMA PutKeepsStage ==
    ASSUME IInv, NEW p \in Evaluators, Put(p)
    PROVE  /\ AnswersKept /\ StageOK(p)' /\ RulingInv'
           /\ \A r \in Evaluators : r # p => Me(r)' = Me(r)
<1> DEFINE t == Me(p).pc
<1>1. TypeOK /\ StageOK(p) /\ RulingInv
  BY DEF IInv, AnswerInv, StageInv
<1>2. PICK q \in Busy(p) : /\ \E v \in Results(t, Me(p).doing[q]) : Insert(t, q, v)
                           /\ Become(p, [Me(p) EXCEPT !.doing[q] = NoTask])
  BY DEF Put
<1>3. PICK v \in Results(t, Me(p).doing[q]) : Insert(t, q, v)
  BY <1>2
<1>4. /\ Me(p) \in Running /\ Me(p).doing \in [Questions -> Answers \cup {NoRow, NoTask}]
      /\ t \in {"answers", "berlue", "judge"} /\ t \in Tables
  BY <1>1, MeType DEF Put, Pooling, Tables, VerdictTables
<1>5. q \in Questions /\ q \in Subset(p) /\ Me(p).doing[q] # NoTask
  BY <1>1, <1>4 DEF Busy, StageOK
<1>6. /\ AnswersKept
      /\ rows'[t][q] # NoRow \/ v = NoRow
      /\ \A u \in Tables, r \in Questions :
            rows'[u][r] = rows[u][r] \/ (u = t /\ r = q /\ rows[u][r] = NoRow /\ rows'[u][r] = v)
  BY <1>1, <1>3, <1>4, <1>5, InsertKeeps
<1>7. t = "answers" => rows'["answers"][q] # NoRow
  BY <1>3, <1>6, AbsenceAssumption DEF Results
<1>8. t # "answers" => About(v, q)
  <2>1. t # "answers" => Me(p).doing[q] = rows["answers"][q] /\ rows["answers"][q] # NoRow
    BY <1>1, <1>4, <1>5 DEF StageOK, Answered
  <2> QED BY <1>3, <2>1 DEF Results, About
<1>9. /\ Me(p)' = [Me(p) EXCEPT !.doing[q] = NoTask]
      /\ \A r \in Evaluators : r # p => Me(r)' = Me(r)
  BY <1>1, <1>2, Became
<1>10. StageOK(p)'
  <2>1. /\ Me(p)'.pc = t /\ Me(p)'.failed = Me(p).failed /\ Me(p)'.unread = Me(p).unread
        /\ Me(p)'.todo = Me(p).todo /\ Me(p)'.doing = [Me(p).doing EXCEPT ![q] = NoTask]
    BY <1>4, <1>9 DEF Running
  <2>2. Busy(p)' = Busy(p) \ {q} /\ \A r \in Questions : Me(p)'.doing[r] \in {Me(p).doing[r], NoTask}
    BY <1>4, <2>1 DEF Busy
  <2>3. Subset(p)' = Subset(p) /\ Subset(p) \subseteq Questions
    BY ValidAssumption DEF Subset
  <2>4. \A r \in Questions : Answered(r) => Answered(r)' /\ rows'["answers"][r] = rows["answers"][r]
    BY <1>6 DEF AnswersKept, Answered
  <2>5. t = "answers" => Answered(q)'
    BY <1>7 DEF Answered
  <2> QED BY <1>1, <1>4, <2>1, <2>2, <2>3, <2>4, <2>5 DEF StageOK
<1>11. RulingInv'
  <2>1. ASSUME NEW u \in VerdictTables, NEW r \in Questions, rows'[u][r] # NoRow
        PROVE  About(rows[u][r], r)'
    <3>1. u \in Tables /\ u # "answers"
      BY DEF Tables, VerdictTables
    <3>2. About(rows'[u][r], r)
      BY <1>1, <1>6, <1>8, <2>1, <3>1 DEF RulingInv
    <3>3. rows'["answers"][r] = rows["answers"][r]
      BY <1>6, <3>2 DEF About, AnswersKept, Answered
    <3> QED BY <3>2, <3>3 DEF About
  <2> QED BY <2>1 DEF RulingInv
<1> QED BY <1>6, <1>9, <1>10, <1>11

(* A process that changes stage has an answer to every question of its      *)
(* slice: none failed and its threads are done.                             *)
LEMMA NextKeepsStage ==
    ASSUME IInv, NEW p \in Evaluators, Launch(p) \/ NextStage(p) \/ Kill(p)
    PROVE  StageOK(p)' /\ UNCHANGED rows /\ \A r \in Evaluators : r # p => Me(r)' = Me(r)
<1>1. TypeOK /\ StageOK(p)
  BY DEF IInv, AnswerInv, StageInv
<1>2. CASE Launch(p)
  <2>1. Me(p)' = Stage(p, "answers") /\ \A r \in Evaluators : r # p => Me(r)' = Me(r)
    BY <1>1, <1>2, Became DEF Launch
  <2>2. UNCHANGED rows
    BY <1>2 DEF Launch
  <2> QED BY <2>1, <2>2, Entering
<1>3. CASE NextStage(p)
  <2> DEFINE s == IF Me(p).failed THEN Off
                  ELSE CASE Me(p).pc = "answers" -> Stage(p, "berlue")
                         [] Me(p).pc = "berlue" -> Stage(p, "judge")
                         [] OTHER -> Off
  <2>1. Become(p, s) /\ UNCHANGED rows
    BY <1>3 DEF NextStage
  <2>2. s = Off \/ (~Me(p).failed /\ \E n \in {"berlue", "judge"} : s = Stage(p, n))
    OBVIOUS
  <2> HIDE DEF s
  <2>3. Me(p)' = s /\ \A r \in Evaluators : r # p => Me(r)' = Me(r)
    BY <1>1, <2>1, Became
  <2>4. ~Me(p).failed => \A q \in Subset(p) : Answered(q)
    BY <1>1, <1>3 DEF NextStage, Pooling, StageOK
  <2>5. CASE s = Off
    BY <2>1, <2>3, <2>5, Idling
  <2>6. ASSUME NEW n \in {"berlue", "judge"}, s = Stage(p, n), ~Me(p).failed
        PROVE  StageOK(p)'
    <3>1. Me(p)' = Stage(p, n)
      BY <2>3, <2>6
    <3> QED BY <2>1, <2>4, <2>6, <3>1, Entering
  <2> QED BY <2>1, <2>2, <2>3, <2>5, <2>6
<1>4. CASE Kill(p)
  <2>1. Me(p)' = Off /\ \A r \in Evaluators : r # p => Me(r)' = Me(r)
    BY <1>1, <1>4, Became DEF Kill
  <2>2. UNCHANGED rows
    BY <1>4 DEF Kill
  <2> QED BY <2>1, <2>2, Idling
<1> QED BY <1>2, <1>3, <1>4

LEMMA EvaluatorKeeps ==
    ASSUME IInv, NEW p \in Evaluators, Evaluate(p) \/ Raise(p) \/ Stop(p) \/ Kill(p)
    PROVE  AnswerInv'
<1>1. UNCHANGED <<matrices, baseliner, builder>>
  BY DEF Evaluate, Launch, List, Take, Put, Cancel, NextStage, Raise, Stop, Kill
<1>2. /\ AnswersKept /\ StageOK(p)' /\ RulingInv'
      /\ \A r \in Evaluators : r # p => Me(r)' = Me(r)
  <2>1. CASE Put(p)
    BY <2>1, PutKeepsStage
  <2>2. CASE ~Put(p)
    <3>1. StageOK(p)' /\ UNCHANGED rows /\ \A r \in Evaluators : r # p => Me(r)' = Me(r)
      BY <2>2, NextKeepsStage, ReadingKeepsStage DEF Evaluate
    <3>2. RulingInv' /\ AnswersKept
      BY <3>1 DEF IInv, AnswerInv, RulingInv, About, AnswersKept
    <3> QED BY <3>1, <3>2
  <2> QED BY <2>1, <2>2
<1>3. StageInv'
  BY <1>2, Kept DEF StageInv
<1> QED BY <1>1, <1>2, <1>3, Kept DEF AnswerInv

(* The baseline keeps in hand the answer it read.                           *)
LEMMA BaselineKeeps ==
    ASSUME IInv, NEW b \in Baseliners, Baseline(b) \/ BaseStop(b)
    PROVE  AnswerInv'
<1>1. TypeOK /\ RulingInv /\ BaselineInv
  BY DEF IInv, AnswerInv
<1>2. UNCHANGED <<matrices, evaluator, builder>>
  BY DEF Baseline, BaseLaunch, BaseAnswer, BaseVerdict, BasePut, BaseEnd, BaseStop, Classify
<1>3. ASSUME AnswersKept, RulingInv', BaselineInv' PROVE AnswerInv'
  BY <1>2, <1>3, Kept DEF AnswerInv, StageInv, Me
<1>4. ASSUME UNCHANGED rows PROVE AnswersKept /\ RulingInv'
  BY <1>1, <1>4 DEF RulingInv, About, AnswersKept
<1>5. ASSUME NEW s, Classify(b, s),
             s.pc \in {"verdict", "put"} => s.answer = rows'["answers"][s.question],
             AnswersKept
      PROVE  BaselineInv'
  <2>1. /\ baseliner'[b] = s
        /\ \A c \in Baseliners : c # b => baseliner'[c] = baseliner[c]
    BY <1>1, <1>5 DEF Classify, TypeOK
  <2>2. ASSUME NEW c \in Baseliners, c # b, baseliner[c].pc \in {"verdict", "put"}
        PROVE  baseliner[c].answer = rows'["answers"][baseliner[c].question]
    <3>1. baseliner[c].question \in Questions /\ baseliner[c].answer \in Answers
      BY <1>1, <2>2, BaselinerType
    <3>2. baseliner[c].answer = rows["answers"][baseliner[c].question]
      BY <1>1, <2>2 DEF BaselineInv
    <3> QED BY <1>5, <3>1, <3>2, AbsenceAssumption DEF AnswersKept, Answered
  <2> QED BY <1>5, <2>1, <2>2 DEF BaselineInv
<1>6. \A left : Onward(left).pc = "answer"
  BY DEF Onward
<1>7. CASE BaseLaunch(b) \/ BaseEnd(b) \/ BaseStop(b)
  <2>1. UNCHANGED rows /\ \E s \in {Off, Onward(Valid)} : Classify(b, s)
    BY <1>7 DEF BaseLaunch, BaseEnd, BaseStop
  <2>2. Off.pc = "off"
    BY DEF Off
  <2> QED BY <1>3, <1>4, <1>5, <1>6, <2>1, <2>2
<1>8. CASE BaseAnswer(b)
  <2> DEFINE found(q) == [pc |-> "verdict", left |-> baseliner[b].left \ {q},
                          question |-> q, answer |-> rows["answers"][q]]
  <2>1. PICK q \in Questions :
           Classify(b, IF rows["answers"][q] = NoRow THEN Onward(baseliner[b].left \ {q}) ELSE found(q))
    BY <1>8 DEF BaseAnswer
  <2>2. UNCHANGED rows
    BY <1>8 DEF BaseAnswer
  <2>3. BaselineInv'
    BY <1>4, <1>5, <1>6, <2>1, <2>2
  <2> QED BY <1>3, <1>4, <2>2, <2>3
<1>9. CASE BaseVerdict(b)
  <2>1. UNCHANGED rows /\ baseliner[b].pc = "verdict"
    BY <1>9 DEF BaseVerdict
  <2>2. /\ baseliner[b] \in Classifying
        /\ baseliner[b].answer = rows["answers"][baseliner[b].question]
    BY <1>1, <2>1, BaselinerType DEF BaselineInv
  <2>3. \/ Classify(b, [baseliner[b] EXCEPT !.pc = "put"])
        \/ Classify(b, Onward(baseliner[b].left))
    BY <1>9 DEF BaseVerdict
  <2>4. LET s == [baseliner[b] EXCEPT !.pc = "put"]
        IN  s.answer = baseliner[b].answer /\ s.question = baseliner[b].question
    BY <2>2 DEF Classifying
  <2>5. BaselineInv'
    BY <1>4, <1>5, <1>6, <2>1, <2>2, <2>3, <2>4
  <2> QED BY <1>3, <1>4, <2>1, <2>5
<1>10. CASE BasePut(b)
  <2> DEFINE q == baseliner[b].question
  <2>1. q \in Questions /\ baseliner[b].answer \in Answers /\ baseliner[b].answer = rows["answers"][q]
    BY <1>1, <1>10, BaselinerType DEF BasePut, BaselineInv
  <2>2. PICK v \in Results("baseline", baseliner[b].answer) : Insert("baseline", q, v)
    BY <1>10 DEF BasePut
  <2>3. About(v, q)
    BY <2>1, <2>2, AbsenceAssumption DEF Results, About
  <2>4. "baseline" \in Tables
    BY DEF Tables, VerdictTables
  <2> HIDE DEF q
  <2>5. /\ AnswersKept
        /\ \A u \in Tables, r \in Questions :
              rows'[u][r] = rows[u][r] \/ (u = "baseline" /\ r = q /\ rows[u][r] = NoRow /\ rows'[u][r] = v)
    BY <1>1, <2>1, <2>2, <2>4, InsertKeeps
  <2>6. ASSUME NEW u \in VerdictTables, NEW r \in Questions, rows'[u][r] # NoRow
        PROVE  About(rows[u][r], r)'
    <3>1. About(rows'[u][r], r)
      BY <1>1, <2>3, <2>5, <2>6 DEF RulingInv, Tables
    <3>2. rows'["answers"][r] = rows["answers"][r]
      BY <2>5, <3>1 DEF About, AnswersKept, Answered
    <3> QED BY <3>1, <3>2 DEF About
  <2>7. BaselineInv'
    BY <1>5, <1>6, <1>10, <2>5 DEF BasePut
  <2> QED BY <1>3, <2>5, <2>6, <2>7 DEF RulingInv
<1> QED BY <1>7, <1>8, <1>9, <1>10 DEF Baseline

(* A builder reads rulings that are about answers which are still there     *)
(* when it stores its matrix.                                               *)
LEMMA BuilderKeeps ==
    ASSUME IInv, NEW b \in Builders, BuildMatrix(b)
    PROVE  AnswerInv'
<1>1. TypeOK /\ RulingInv /\ BuildInv /\ MatrixComparesOneAnswer
  BY DEF IInv, AnswerInv
<1>2. UNCHANGED <<rows, evaluator, baseliner>>
  BY DEF BuildMatrix, BuildStart, BuildJudge, BuildOther, BuildEnd, PutMatrix, Build
<1>3. AnswersKept /\ RulingInv'
  BY <1>1, <1>2 DEF AnswersKept, RulingInv, About
<1>4. StageInv' /\ BaselineInv'
  BY <1>2, <1>3, Kept DEF StageInv, Me
<1>5. UNCHANGED matrices => MatrixComparesOneAnswer'
  BY <1>3, Kept
<1>6. ASSUME NEW s, Build(b, s),
             s.pc # "off" => \A q \in Valid : /\ s.judge[q] # NoRow => About(s.judge[q], q)
                                              /\ s.other[q] # NoRow => About(s.other[q], q)
      PROVE  BuildInv'
  <2>1. /\ builder'[b] = s
        /\ \A c \in Builders : c # b => builder'[c] = builder[c]
    BY <1>1, <1>6 DEF Build, TypeOK
  <2> QED BY <1>1, <1>2, <1>6, <2>1 DEF BuildInv, About
<1>7. CASE BuildStart(b)
  <2>1. PICK m \in Matrices : Build(b, [pc |-> "judge", matrix |-> m, left |-> Valid,
                                        judge |-> Unknown, other |-> Unknown])
    BY <1>7 DEF BuildStart
  <2>2. \A q \in Valid : Unknown[q] = NoRow
    BY DEF Unknown
  <2>3. BuildInv'
    BY <1>6, <2>1, <2>2
  <2> QED BY <1>3, <1>4, <1>5, <1>7, <2>3 DEF AnswerInv, BuildStart
<1>8. ASSUME NEW t \in VerdictTables, NEW q \in Valid, rows[t][q] # NoRow
      PROVE  About(rows[t][q], q)
  BY <1>1, <1>8, ValidAssumption DEF RulingInv
<1>9. CASE BuildJudge(b)
  <2>1. PICK q \in Valid :
           Build(b, [builder[b] EXCEPT !.pc = "other", !.judge[q] = rows["judge"][q]])
    BY <1>9 DEF BuildJudge
  <2> DEFINE s == [builder[b] EXCEPT !.pc = "other", !.judge[q] = rows["judge"][q]]
  <2>2. builder[b] \in Building /\ builder[b].judge \in Counted
    BY <1>1, <1>9, BuilderType DEF BuildJudge
  <2>3. s.judge = [builder[b].judge EXCEPT ![q] = rows["judge"][q]] /\ s.other = builder[b].other
    BY <2>2 DEF Building
  <2>4. rows["judge"][q] # NoRow => About(rows["judge"][q], q)
    BY <1>8 DEF VerdictTables
  <2> HIDE DEF s
  <2>5. \A r \in Valid : s.judge[r] = builder[b].judge[r] \/ (r = q /\ s.judge[r] = rows["judge"][q])
    BY <2>2, <2>3 DEF Counted
  <2>6. \A r \in Valid : /\ builder[b].judge[r] # NoRow => About(builder[b].judge[r], r)
                         /\ builder[b].other[r] # NoRow => About(builder[b].other[r], r)
    BY <1>1, <1>9 DEF BuildInv, BuildJudge
  <2>7. Build(b, s)
    BY <2>1 DEF s
  <2>8. BuildInv'
    BY <1>6, <2>3, <2>4, <2>5, <2>6, <2>7
  <2> QED BY <1>3, <1>4, <1>5, <1>9, <2>8 DEF AnswerInv, BuildJudge
<1>10. CASE BuildOther(b)
  <2> DEFINE t == Compared(builder[b].matrix)
  <2>1. PICK q \in Valid :
           Build(b, [builder[b] EXCEPT !.pc = "judge", !.left = @ \ {q}, !.other[q] = rows[t][q]])
    BY <1>10 DEF BuildOther
  <2>2. t \in VerdictTables
    BY DEF Compared, VerdictTables
  <2> HIDE DEF t
  <2> DEFINE s == [builder[b] EXCEPT !.pc = "judge", !.left = @ \ {q}, !.other[q] = rows[t][q]]
  <2>3. builder[b] \in Building /\ builder[b].other \in Counted
    BY <1>1, <1>10, BuilderType DEF BuildOther
  <2>4. s.other = [builder[b].other EXCEPT ![q] = rows[t][q]] /\ s.judge = builder[b].judge
    BY <2>3 DEF Building
  <2>5. rows[t][q] # NoRow => About(rows[t][q], q)
    BY <1>8, <2>2
  <2>6. Build(b, s)
    BY <2>1
  <2> HIDE DEF s
  <2>7. \A r \in Valid : s.other[r] = builder[b].other[r] \/ (r = q /\ s.other[r] = rows[t][q])
    BY <2>3, <2>4 DEF Counted
  <2>8. \A r \in Valid : /\ builder[b].judge[r] # NoRow => About(builder[b].judge[r], r)
                         /\ builder[b].other[r] # NoRow => About(builder[b].other[r], r)
    BY <1>1, <1>10 DEF BuildInv, BuildOther
  <2>9. BuildInv'
    BY <1>6, <2>4, <2>5, <2>6, <2>7, <2>8
  <2> QED BY <1>3, <1>4, <1>5, <1>10, <2>9 DEF AnswerInv, BuildOther
<1>11. CASE BuildEnd(b)
  <2>1. BuildInv'
    BY <1>6, <1>11 DEF BuildEnd, PutMatrix, Off
  <2>2. MatrixComparesOneAnswer'
    <3>1. CASE \E q \in Valid : NoRow \in {builder[b].judge[q], builder[b].other[q]}
      BY <1>5, <1>11, <3>1 DEF BuildEnd, PutMatrix
    <3>2. CASE ~\E q \in Valid : NoRow \in {builder[b].judge[q], builder[b].other[q]}
      <4> DEFINE new == [judge |-> builder[b].judge, other |-> builder[b].other]
      <4>1. matrices' = [matrices EXCEPT ![builder[b].matrix] = new]
        BY <1>11, <3>2 DEF BuildEnd, PutMatrix
      <4>2. ASSUME NEW q \in Valid
            PROVE  /\ NoRow \notin {new.judge[q], new.other[q]}
                   /\ new.judge[q].about = new.other[q].about
        <5>1. builder[b].judge[q] # NoRow /\ builder[b].other[q] # NoRow
          BY <3>2
        <5>2. About(builder[b].judge[q], q) /\ About(builder[b].other[q], q)
          BY <1>1, <1>11, <5>1 DEF BuildInv, BuildEnd, PutMatrix
        <5> QED BY <5>1, <5>2 DEF About
      <4> HIDE DEF new
      <4>3. \A m \in Matrices : matrices'[m] \in {matrices[m], new}
        BY <1>1, <4>1 DEF TypeOK
      <4> QED BY <1>1, <4>2, <4>3 DEF MatrixComparesOneAnswer
    <3> QED BY <3>1, <3>2
  <2> QED BY <1>3, <1>4, <2>1, <2>2 DEF AnswerInv
<1> QED BY <1>7, <1>9, <1>10, <1>11 DEF BuildMatrix

LEMMA PurgeKeeps ==
    ASSUME IInv, OwnPurges, Purge
    PROVE  AnswerInv'
<1>1. TypeOK /\ RulingInv /\ MatrixComparesOneAnswer
  BY DEF IInv, AnswerInv
<1>2. Idle /\ UNCHANGED <<evaluator, baseliner, builder>>
  BY DEF OwnPurges, Purge
<1>3. StageInv' /\ BaselineInv' /\ BuildInv'
  BY <1>2 DEF Idle, StageInv, StageOK, BaselineInv, BuildInv, Me
<1>4. PICK T \in Effects :
         /\ rows' = [t \in Tables |-> IF t \in T THEN [q \in Questions |-> NoRow] ELSE rows[t]]
         /\ matrices' = [m \in Matrices |-> IF m \in T THEN NoRow ELSE matrices[m]]
  BY DEF Purge
<1>5. MatrixComparesOneAnswer'
  BY <1>1, <1>4 DEF MatrixComparesOneAnswer
<1>6. ASSUME NEW t \in VerdictTables, NEW q \in Questions, rows'[t][q] # NoRow
      PROVE  About(rows[t][q], q)'
  <2>1. t \in Tables /\ "answers" \in Tables
    BY DEF Tables
  <2>2. t \notin T /\ rows'[t] = rows[t]
    BY <1>4, <1>6, <2>1
  <2>3. rows'["answers"] = rows["answers"]
    BY <1>4, <2>1, <2>2, PurgedTogether
  <2> QED BY <1>1, <1>6, <2>2, <2>3 DEF RulingInv, About
<1> QED BY <1>3, <1>5, <1>6 DEF AnswerInv, RulingInv

(* The inductive invariant.                                                 *)
LEMMA Inductive ==
    ASSUME OwnPurges
    PROVE  Spec => []IInv
<1>1. Init => AnswerInv
  BY DEF Init, AnswerInv, RulingInv, StageInv, StageOK, BaselineInv, BuildInv,
         MatrixComparesOneAnswer, Off, Me, Tables, Matrices
<1>2. IInv /\ TypeOK' /\ [Next]_vars => IInv'
  <2> SUFFICES ASSUME IInv, [Next]_vars PROVE AnswerInv'
    BY DEF IInv
  <2>1. ASSUME UNCHANGED vars PROVE AnswerInv'
    <3>1. AnswersKept /\ RulingInv'
      BY <2>1 DEF vars, IInv, AnswerInv, RulingInv, About, AnswersKept
    <3> QED BY <2>1, <3>1, Kept DEF vars, AnswerInv, StageInv, Me
  <2> QED BY <2>1, EvaluatorKeeps, BaselineKeeps, BuilderKeeps, PurgeKeeps DEF Next
<1> QED BY <1>1, <1>2, TypeCorrect, PTL DEF Spec, IInv

(* Where an answer is stored, the verdicts stored for it are about it.      *)
THEOREM VerdictTheorem ==
    ASSUME OwnPurges
    PROVE  Spec => []VerdictAboutAnswer
<1>1. IInv => VerdictAboutAnswer
  BY DEF IInv, AnswerInv, RulingInv, About, VerdictAboutAnswer
<1> QED BY <1>1, Inductive, PTL

(* A matrix compares rulings on the same answers, for all valid questions.  *)
THEOREM MatrixTheorem ==
    ASSUME OwnPurges
    PROVE  Spec => []MatrixComparesOneAnswer
<1>1. IInv => MatrixComparesOneAnswer
  BY DEF IInv, AnswerInv
<1> QED BY <1>1, Inductive, PTL

-------------------------------------------------------------------------------
(* The four tables, taken together, implement the write-once table.         *)

Table    == [k \in Tables \X Questions |-> rows[k[1]][k[2]]]
RowStep  == AllRows!Next \/ UNCHANGED Table

LEMMA RowValue ==
    ASSUME TypeOK, NEW t \in Tables, NEW q \in Questions
    PROVE  /\ <<t, q>> \in Tables \X Questions
           /\ Table[<<t, q>>] = rows[t][q] /\ Table'[<<t, q>>] = rows'[t][q]
           /\ rows[t][q] \in Answers \cup Rulings \cup {NoRow}
BY DEF TypeOK, Table

(* A put of any stage inserts into a free row, or changes nothing.          *)
LEMMA InsertRefines ==
    ASSUME TypeOK, NEW t \in Tables, NEW q \in Questions, NEW v \in RowsOf(t), Insert(t, q, v)
    PROVE  RowStep
<1>1. CASE rows[t][q] = NoRow
  <2> DEFINE k == <<t, q>>
  <2>1. k \in Tables \X Questions /\ v \in Answers \cup Rulings
    BY DEF RowsOf
  <2>2. rows' = [rows EXCEPT ![t][q] = v]
    BY <1>1 DEF Insert
  <2>3. Table[k] = NoRow
    BY <1>1, RowValue
  <2>4. \A j \in Tables \X Questions :
           Table'[j] = IF j = k THEN v ELSE Table[j]
    <3> SUFFICES ASSUME NEW u \in Tables, NEW r \in Questions
                 PROVE  rows'[u][r] = IF u = t /\ r = q THEN v ELSE rows[u][r]
      BY DEF Table
    <3> QED BY <2>2 DEF TypeOK
  <2>5. Table' = [Table EXCEPT ![k] = v]
    BY <2>1, <2>4 DEF Table
  <2>6. AllRows!Insert(k, v)
    BY <2>3, <2>5 DEF AllRows!Insert, Table
  <2> QED BY <2>1, <2>6 DEF RowStep, AllRows!Next
<1>2. CASE rows[t][q] # NoRow
  BY <1>2 DEF Insert, RowStep, Table
<1> QED BY <1>1, <1>2

LEMMA QuietRefines == (UNCHANGED rows) => RowStep
BY DEF RowStep, Table

LEMMA EvaluatorRefines ==
    ASSUME TypeOK, NEW p \in Evaluators, Evaluate(p) \/ Raise(p) \/ Stop(p) \/ Kill(p)
    PROVE  RowStep
<1>1. CASE Put(p)
  <2>1. PICK q \in Busy(p) : \E v \in Results(Me(p).pc, Me(p).doing[q]) : Insert(Me(p).pc, q, v)
    BY <1>1 DEF Put
  <2>2. PICK v \in Results(Me(p).pc, Me(p).doing[q]) : Insert(Me(p).pc, q, v)
    BY <2>1
  <2>3. q \in Questions /\ Me(p).pc \in Tables /\ Me(p).doing[q] \in Answers \cup {NoRow}
    BY <1>1, MeType DEF Put, Pooling, Busy, Tables, VerdictTables
  <2> QED BY <2>2, <2>3, ResultType, InsertRefines
<1>2. CASE ~Put(p)
  BY <1>2, QuietRefines
     DEF Evaluate, Launch, List, Take, Cancel, NextStage, Raise, Stop, Kill
<1> QED BY <1>1, <1>2

LEMMA BaselineRefines ==
    ASSUME TypeOK, NEW b \in Baseliners, Baseline(b) \/ BaseStop(b)
    PROVE  RowStep
<1>1. CASE BasePut(b)
  <2>1. PICK v \in Results("baseline", baseliner[b].answer) :
           Insert("baseline", baseliner[b].question, v)
    BY <1>1 DEF BasePut
  <2>2. baseliner[b].question \in Questions /\ baseliner[b].answer \in Answers
    BY <1>1, BaselinerType DEF BasePut
  <2>3. "baseline" \in Tables
    BY DEF Tables, VerdictTables
  <2> QED BY <2>1, <2>2, <2>3, ResultType, InsertRefines
<1>2. CASE ~BasePut(b)
  BY <1>2, QuietRefines
     DEF Baseline, BaseLaunch, BaseAnswer, BaseVerdict, BaseEnd, BaseStop
<1> QED BY <1>1, <1>2

(* A purge deletes whole tables.                                            *)
LEMMA PurgeRefines ==
    ASSUME TypeOK, Purge
    PROVE  RowStep
<1>1. PICK T \in Effects :
         rows' = [t \in Tables |-> IF t \in T THEN [q \in Questions |-> NoRow] ELSE rows[t]]
  BY DEF Purge
<1> DEFINE K == (Tables \cap T) \X Questions
<1>2. \A j \in Tables \X Questions : Table'[j] = IF j \in K THEN NoRow ELSE Table[j]
  <2> SUFFICES ASSUME NEW u \in Tables, NEW r \in Questions
               PROVE  rows'[u][r] = IF u \in T THEN NoRow ELSE rows[u][r]
    BY DEF Table
  <2> QED BY <1>1
<1>3. AllRows!Delete(K)
  BY <1>2 DEF AllRows!Delete, Table
<1>4. K \in SUBSET (Tables \X Questions)
  OBVIOUS
<1> QED BY <1>3, <1>4 DEF RowStep, AllRows!Next

LEMMA RowsStep == TypeOK /\ [Next]_vars => [AllRows!Next]_Table
<1> SUFFICES ASSUME TypeOK, [Next]_vars PROVE RowStep
  BY DEF RowStep
<1>1. ASSUME NEW b \in Builders, BuildMatrix(b) PROVE RowStep
  BY <1>1, QuietRefines DEF BuildMatrix, BuildStart, BuildJudge, BuildOther, BuildEnd, Build
<1>2. ASSUME UNCHANGED vars PROVE RowStep
  BY <1>2, QuietRefines DEF vars
<1> QED BY <1>1, <1>2, EvaluatorRefines, BaselineRefines, PurgeRefines DEF Next

(* "deux workers tombant sur la même question ne dupliquent rien": the      *)
(* tables of mode 2 keep the first value of each row, until a purge,        *)
(* whatever purges ask for and whenever they run.                           *)
THEOREM RowsTheorem == Spec => RowsWriteOnce
<1>1. Init => AllRows!Init
  BY DEF Init, AllRows!Init, Tables
<1>2. [AllRows!Next]_Table <=> [AllRows!Next]_([k \in Tables \X Questions |-> rows[k[1]][k[2]]])
  BY DEF Table
<1> QED BY <1>1, <1>2, RowsStep, TypeCorrect, PTL DEF Spec, RowsWriteOnce, AllRows!Spec

-------------------------------------------------------------------------------
(* A run whose stages all succeed leaves no hole in its slice.              *)

Stages       == {"answers", "berlue", "judge"}
Stored(t, q) == rows[t][q] # NoRow
Earlier(s)   == CASE s = "berlue" -> {"answers"}
                  [] s = "judge" -> {"answers", "berlue"}
                  [] OTHER -> {}
Ahead(p)     == Me(p).unread \cup Me(p).todo \cup Busy(p)

(* The stages that are over left a row for each question of the slice; the  *)
(* one that runs did so for those it no longer has to do, unless it failed. *)
Behind(p) ==
    Me(p).pc # "off" =>
        \A q \in Subset(p) :
            /\ \A t \in Earlier(Me(p).pc) : Stored(t, q)
            /\ Me(p).failed \/ Stored(Me(p).pc, q) \/ q \in Ahead(p)

(* No row is deleted by this step.                                          *)
NoneLost == \A t \in Tables, q \in Questions : Stored(t, q) => Stored(t, q)'

(* A run that ends, neither failed nor killed, ends with an answer and both *)
(* verdicts in the store for each question of its slice.                    *)
CompleteEnd(p) ==
    Me(p).pc # "off" /\ Me(p)'.pc = "off" /\ ~Me(p).failed /\ failures' = failures
        => \A t \in Stages, q \in Subset(p) : Stored(t, q)'

LEMMA SubsetType ==
    ASSUME NEW p \in Evaluators
    PROVE  Subset(p) \subseteq Questions /\ Subset(p)' = Subset(p)
BY ValidAssumption DEF Subset

(* A process that goes on with its stage, and drops a question only when it *)
(* has a row or the stage fails.                                            *)
LEMMA StillBehind ==
    ASSUME TypeOK, NEW p \in Evaluators, Behind(p), NoneLost,
           Me(p).pc # "off", Me(p)'.pc = Me(p).pc, Me(p).failed => Me(p)'.failed,
           \A q \in Subset(p) : q \in Ahead(p) =>
               Me(p)'.failed \/ rows'[Me(p).pc][q] # NoRow \/ q \in Ahead(p)'
    PROVE  Behind(p)' /\ CompleteEnd(p)
<1>1. Me(p).pc \in Tables /\ Earlier(Me(p).pc) \subseteq Tables
  BY MeType DEF Tables, VerdictTables, Earlier
<1>2. ASSUME NEW q \in Subset(p)
      PROVE  /\ \A t \in Earlier(Me(p).pc) : rows'[t][q] # NoRow
             /\ Me(p)'.failed \/ rows'[Me(p).pc][q] # NoRow \/ q \in Ahead(p)'
  <2>1. q \in Questions
    BY SubsetType
  <2>2. ASSUME NEW t \in Earlier(Me(p).pc) PROVE rows'[t][q] # NoRow
    <3>1. Stored(t, q) /\ t \in Tables
      BY <1>1 DEF Behind
    <3> QED BY <2>1, <3>1 DEF NoneLost, Stored
  <2>3. Me(p).failed \/ Stored(Me(p).pc, q) \/ q \in Ahead(p)
    BY DEF Behind
  <2>4. CASE Stored(Me(p).pc, q)
    <3>1. rows'[Me(p).pc][q] # NoRow
      BY <1>1, <2>1, <2>4 DEF NoneLost, Stored
    <3> QED BY <2>2, <3>1
  <2> QED BY <2>2, <2>3, <2>4
<1>3. Behind(p)'
  BY <1>2, SubsetType DEF Behind, Stored
<1> QED BY <1>3 DEF CompleteEnd

(* A process that does not move.                                            *)
LEMMA StillThere ==
    ASSUME TypeOK, NEW p \in Evaluators, Behind(p), NoneLost, Me(p)' = Me(p)
    PROVE  Behind(p)' /\ CompleteEnd(p)
<1>1. CASE Me(p).pc = "off"
  BY <1>1 DEF Behind, CompleteEnd
<1>2. CASE Me(p).pc # "off"
  <2>1. Ahead(p)' = Ahead(p)
    BY DEF Ahead, Busy
  <2>2. Me(p)'.pc = Me(p).pc /\ Me(p)'.failed = Me(p).failed
    OBVIOUS
  <2> QED BY <1>2, <2>1, <2>2, StillBehind
<1> QED BY <1>1, <1>2

(* A question goes from the list to a thread, to the table.                 *)
LEMMA StageBehind ==
    ASSUME TypeOK, NEW p \in Evaluators, Behind(p), NoneLost,
           List(p) \/ Take(p) \/ Put(p) \/ Raise(p) \/ Stop(p) \/ Cancel(p)
    PROVE  Behind(p)' /\ CompleteEnd(p)
<1>1. Me(p).pc # "off"
  BY DEF List, Take, Put, Raise, Stop, Cancel, Pooling
<1>2. /\ Me(p) \in Running
      /\ Me(p).unread \subseteq Questions /\ Me(p).todo \subseteq Questions
      /\ Me(p).doing \in [Questions -> Answers \cup {NoRow, NoTask}]
      /\ Me(p).pc \in Tables
  BY <1>1, MeType DEF Tables, VerdictTables
<1>3. CASE List(p)
  <2> DEFINE s(q) == [Me(p) EXCEPT !.unread = @ \ {q},
                        !.todo = IF rows[Me(p).pc][q] = NoRow THEN @ \cup {q} ELSE @]
  <2>1. PICK q \in Questions : First(q, Me(p).unread) /\ Become(p, s(q))
    BY <1>3 DEF List
  <2>2. Me(p)' = s(q)
    BY <2>1, Became
  <2>3. /\ Me(p)'.pc = Me(p).pc /\ Me(p)'.failed = Me(p).failed /\ Me(p)'.doing = Me(p).doing
        /\ Me(p)'.unread = Me(p).unread \ {q}
        /\ Me(p)'.todo = IF rows[Me(p).pc][q] = NoRow THEN Me(p).todo \cup {q} ELSE Me(p).todo
    BY <1>2, <2>2 DEF Running
  <2>4. Busy(p)' = Busy(p) /\ UNCHANGED rows
    BY <1>3, <2>3 DEF Busy, List
  <2>5. \A r \in Ahead(p) : rows'[Me(p).pc][r] # NoRow \/ r \in Ahead(p)'
    BY <2>3, <2>4 DEF Ahead
  <2> QED BY <1>1, <2>3, <2>5, StillBehind
<1>4. CASE Take(p)
  <2>1. PICK q \in Questions :
           Become(p, [Me(p) EXCEPT !.todo = @ \ {q}, !.doing[q] = rows["answers"][q]])
    BY <1>4 DEF Take
  <2>2. Me(p)' = [Me(p) EXCEPT !.todo = @ \ {q}, !.doing[q] = rows["answers"][q]]
    BY <2>1, Became
  <2>3. /\ Me(p)'.pc = Me(p).pc /\ Me(p)'.failed = Me(p).failed /\ Me(p)'.unread = Me(p).unread
        /\ Me(p)'.todo = Me(p).todo \ {q}
        /\ Me(p)'.doing = [Me(p).doing EXCEPT ![q] = rows["answers"][q]]
    BY <1>2, <2>2 DEF Running
  <2>4. rows["answers"][q] # NoTask
    BY AbsenceAssumption DEF TypeOK, Tables, RowsOf
  <2>5. Busy(p)' = Busy(p) \cup {q}
    BY <1>2, <2>3, <2>4 DEF Busy
  <2>6. Ahead(p) \subseteq Ahead(p)'
    BY <2>3, <2>5 DEF Ahead
  <2> QED BY <1>1, <2>3, <2>6, StillBehind
<1>5. CASE Put(p)
  <2>1. PICK q \in Busy(p) : /\ \E v \in Results(Me(p).pc, Me(p).doing[q]) : Insert(Me(p).pc, q, v)
                             /\ Become(p, [Me(p) EXCEPT !.doing[q] = NoTask])
    BY <1>5 DEF Put
  <2>2. PICK v \in Results(Me(p).pc, Me(p).doing[q]) : Insert(Me(p).pc, q, v)
    BY <2>1
  <2>3. q \in Questions /\ Me(p).doing[q] \in Answers \cup {NoRow}
    BY <1>2 DEF Busy
  <2>4. v \in RowsOf(Me(p).pc)
    BY <1>2, <2>3, ResultType
  <2>5. rows'[Me(p).pc][q] # NoRow
    BY <1>2, <2>2, <2>3, <2>4, InsertKeeps, AbsenceAssumption DEF RowsOf
  <2>6. Me(p)' = [Me(p) EXCEPT !.doing[q] = NoTask]
    BY <2>1, Became
  <2>7. /\ Me(p)'.pc = Me(p).pc /\ Me(p)'.failed = Me(p).failed /\ Me(p)'.unread = Me(p).unread
        /\ Me(p)'.todo = Me(p).todo /\ Me(p)'.doing = [Me(p).doing EXCEPT ![q] = NoTask]
    BY <1>2, <2>6 DEF Running
  <2>8. Busy(p) \ {q} \subseteq Busy(p)'
    BY <1>2, <2>7 DEF Busy
  <2>9. \A r \in Ahead(p) : r = q \/ r \in Ahead(p)'
    BY <2>7, <2>8 DEF Ahead
  <2> QED BY <1>1, <2>5, <2>7, <2>9, StillBehind
<1>6. CASE Raise(p)
  <2>1. PICK q \in Busy(p) : Become(p, [Me(p) EXCEPT !.doing[q] = NoTask, !.failed = TRUE])
    BY <1>6 DEF Raise
  <2>2. Me(p)' = [Me(p) EXCEPT !.doing[q] = NoTask, !.failed = TRUE]
    BY <2>1, Became
  <2>3. Me(p)'.pc = Me(p).pc /\ Me(p)'.failed
    BY <1>2, <2>2 DEF Running
  <2> QED BY <1>1, <2>3, StillBehind
<1>7. CASE Stop(p)
  <2>1. Me(p)' = [Me(p) EXCEPT !.failed = TRUE]
    BY <1>7, Became DEF Stop
  <2>2. Me(p)'.pc = Me(p).pc /\ Me(p)'.failed
    BY <1>2, <2>1 DEF Running
  <2> QED BY <1>1, <2>2, StillBehind
<1>8. CASE Cancel(p)
  <2>1. Me(p)' = [Me(p) EXCEPT !.todo = {}] /\ Me(p).failed
    BY <1>8, Became DEF Cancel
  <2>2. Me(p)'.pc = Me(p).pc /\ Me(p)'.failed
    BY <1>2, <2>1 DEF Running
  <2> QED BY <1>1, <2>2, StillBehind
<1> QED BY <1>3, <1>4, <1>5, <1>6, <1>7, <1>8

(* Entering a stage, everything is ahead.                                   *)
LEMMA EnteringBehind ==
    ASSUME NEW p \in Evaluators, NEW s \in Stages, Me(p)' = Stage(p, s),
           \A t \in Earlier(s), q \in Subset(p) : rows'[t][q] # NoRow
    PROVE  Behind(p)' /\ CompleteEnd(p)
<1>1. Me(p)'.pc = s /\ Me(p)'.unread = Subset(p) /\ s # "off"
  BY DEF Stage, Stages
<1>2. \A q \in Subset(p) : q \in Ahead(p)'
  BY <1>1 DEF Ahead
<1>3. Behind(p)'
  BY <1>1, <1>2, SubsetType DEF Behind, Stored
<1> QED BY <1>1, <1>3 DEF CompleteEnd

(* A process starts, goes to its next stage, ends or is killed.             *)
LEMMA NextBehind ==
    ASSUME TypeOK, NEW p \in Evaluators, Behind(p), Launch(p) \/ NextStage(p) \/ Kill(p)
    PROVE  Behind(p)' /\ CompleteEnd(p)
<1>1. CASE Launch(p)
  <2>1. Me(p)' = Stage(p, "answers")
    BY <1>1, Became DEF Launch
  <2>2. "answers" \in Stages /\ Earlier("answers") = {}
    BY DEF Stages, Earlier
  <2> QED BY <2>1, <2>2, EnteringBehind
<1>2. CASE Kill(p)
  <2>1. Me(p)' = Off /\ failures \in Nat /\ failures' = failures + 1
    BY <1>2, Became DEF Kill, Fails, TypeOK
  <2>2. Me(p)'.pc = "off" /\ failures' # failures
    BY <2>1 DEF Off
  <2> QED BY <2>2 DEF Behind, CompleteEnd
<1>3. CASE NextStage(p)
  <2> DEFINE s == IF Me(p).failed THEN Off
                  ELSE CASE Me(p).pc = "answers" -> Stage(p, "berlue")
                         [] Me(p).pc = "berlue" -> Stage(p, "judge")
                         [] OTHER -> Off
  <2>1. Me(p)' = s
    BY <1>3, Became DEF NextStage
  <2>2. Me(p).pc \in Stages /\ Ahead(p) = {}
    BY <1>3, MeType DEF NextStage, Pooling, Ahead, Stages
  <2>3. UNCHANGED rows
    BY <1>3 DEF NextStage
  <2>4. CASE Me(p).failed
    <3>1. Me(p)'.pc = "off"
      BY <2>1, <2>4 DEF Off
    <3> QED BY <2>4, <3>1 DEF Behind, CompleteEnd
  <2>5. CASE ~Me(p).failed
    <3>1. \A q \in Subset(p) : /\ \A t \in Earlier(Me(p).pc) : rows'[t][q] # NoRow
                               /\ rows'[Me(p).pc][q] # NoRow
      BY <2>2, <2>3, <2>5 DEF Behind, Stored, Stages
    <3>2. CASE Me(p).pc = "answers"
      <4>1. Me(p)' = Stage(p, "berlue")
        BY <2>1, <2>5, <3>2
      <4>2. \A t \in Earlier("berlue"), q \in Subset(p) : rows'[t][q] # NoRow
        BY <3>1, <3>2 DEF Earlier
      <4> QED BY <4>1, <4>2, EnteringBehind DEF Stages
    <3>3. CASE Me(p).pc = "berlue"
      <4>1. Me(p)' = Stage(p, "judge")
        BY <2>1, <2>5, <3>3
      <4>2. \A t \in Earlier("judge"), q \in Subset(p) : rows'[t][q] # NoRow
        BY <3>1, <3>3 DEF Earlier
      <4> QED BY <4>1, <4>2, EnteringBehind DEF Stages
    <3>4. CASE Me(p).pc = "judge"
      <4>1. Me(p)'.pc = "off"
        BY <2>1, <2>5, <3>4 DEF Off
      <4>2. \A t \in Stages, q \in Subset(p) : rows'[t][q] # NoRow
        BY <3>1, <3>4 DEF Earlier, Stages
      <4> QED BY <4>1, <4>2 DEF Behind, CompleteEnd, Stored
    <3> QED BY <2>2, <3>2, <3>3, <3>4 DEF Stages
  <2> QED BY <2>4, <2>5
<1> QED BY <1>1, <1>2, <1>3

(* One step of the system, when it deletes no row.                          *)
LEMMA BehindStep ==
    ASSUME TypeOK, NEW p \in Evaluators, Behind(p), NoneLost, [Next]_vars
    PROVE  Behind(p)' /\ CompleteEnd(p)
<1>1. ASSUME Evaluate(p) \/ Raise(p) \/ Stop(p) \/ Kill(p)
      PROVE  Behind(p)' /\ CompleteEnd(p)
  BY <1>1, StageBehind, NextBehind DEF Evaluate
<1>2. ASSUME NEW r \in Evaluators, r # p, Evaluate(r) \/ Raise(r) \/ Stop(r) \/ Kill(r)
      PROVE  Me(p)' = Me(p)
  <2>1. \E s : Become(r, s)
    BY <1>2 DEF Evaluate, Launch, List, Take, Put, Cancel, NextStage, Raise, Stop, Kill
  <2> QED BY <1>2, <2>1, Became
<1>3. ASSUME \/ \E b \in Baseliners : Baseline(b) \/ BaseStop(b)
             \/ \E b \in Builders : BuildMatrix(b)
             \/ Purge \/ UNCHANGED vars
      PROVE  Me(p)' = Me(p)
  <2>1. UNCHANGED evaluator
    BY <1>3 DEF Baseline, BaseLaunch, BaseAnswer, BaseVerdict, BasePut, BaseEnd, BaseStop,
           Classify, BuildMatrix, BuildStart, BuildJudge, BuildOther, BuildEnd, Build,
           Purge, vars
  <2> QED BY <2>1 DEF Me
<1>4. CASE Me(p)' = Me(p)
  BY <1>4, StillThere
<1>5. CASE Me(p)' # Me(p)
  <2>1. \E r \in Evaluators : Evaluate(r) \/ Raise(r) \/ Stop(r) \/ Kill(r)
    BY <1>3, <1>5 DEF Next
  <2> QED BY <1>1, <1>2, <1>5, <2>1
<1> QED BY <1>4, <1>5

(* `evaluate_model_generated` lists what has no row, stage by stage, and    *)
(* its pools only drop a question by failing: from a moment when p is not   *)
(* running, as long as no row is deleted, each of its runs that ends        *)
(* without an exception, an interruption or a kill leaves an answer and the *)
(* verdicts of Berlue and of the judge for every question of its slice,     *)
(* whatever other processes do and however purges are filtered. The         *)
(* conclusion is about single steps: what happens after one has no bearing  *)
(* on it, and the hypothesis is only used up to it.                         *)
THEOREM EvaluationIsComplete ==
    ASSUME NEW p \in Evaluators
    PROVE  Spec => [](Me(p).pc = "off" /\ [][NoneLost]_vars => [][CompleteEnd(p)]_vars)
<1>1. Me(p).pc = "off" => Behind(p)
  BY DEF Behind
<1>2. TypeOK /\ Behind(p) /\ [Next]_vars /\ [NoneLost]_vars => Behind(p)' /\ CompleteEnd(p)
  <2>1. UNCHANGED vars => NoneLost
    BY DEF vars, NoneLost, Stored
  <2> QED BY <2>1, BehindStep
<1> QED BY <1>1, <1>2, TypeCorrect, PTL DEF Spec
=============================================================================
