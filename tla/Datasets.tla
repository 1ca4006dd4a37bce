-------------------------------- MODULE Datasets --------------------------------
(***************************************************************************)
(* The labelled examples: berlue/evaluation/data.py, the training and the   *)
(* use of the NLI baseline (berlue/nli_baseline), and the test part that    *)
(* berlue/evaluation/run_eval.py asks for, measures and reports on.         *)
(*                                                                          *)
(* A question is a number: its rank in the order of `sorted`; 0 is the text *)
(* of a line that a cut file ends with. An answer is its rank in its line.  *)
(* The permutation that sklearn draws depends on the number of questions    *)
(* only (`random_state=0`): Place gives it, TrainSize the size of its end.  *)
(*                                                                          *)
(* KeyByDataset, EmptyOnFailure and StartKept are mutated forms of the      *)
(* definition that follows each: no specification uses them, they show      *)
(* which property notices.                                                  *)
(***************************************************************************)
EXTENDS SequencesExt, Lists

CONSTANTS Commands,         \* processes of the command line, one call each
          Threads,          \* requests served at once by the evaluation service
          Lines,            \* the lines of each dataset, as published
          Settings,         \* values of BERLUE_EVAL_DATASETS
          Ratios,           \* values of the train/test ratio
          Place,            \* n |-> the place of each rank in the permutation
          TrainSize(_, _),  \* questions and ratio |-> size of the train part
          MaxCalls,         \* bound on the calls started
          MaxKills          \* bound on the kills of a process

KNOWN_DATASETS == {"halueval", "truthfulqa"}
Damaged == [question |-> 0, right |-> 1, wrong |-> 1]   \* NaN reads as "nan"
AllLines == {Damaged} \cup UNION {ToSet(Lines[s]) : s \in KNOWN_DATASETS}
AllQuestions == {line.question : line \in AllLines}
Sizes == {Cardinality(Q) : Q \in SUBSET AllQuestions}

ASSUME ActorsAssumption == Commands \cap Threads = {}
ASSUME LinesAssumption ==
    /\ DOMAIN Lines = KNOWN_DATASETS
    /\ \A s \in KNOWN_DATASETS : Lines[s] \in Seq(ToSet(Lines[s]))
    /\ AllQuestions \subseteq Nat /\ IsFiniteSet(AllQuestions)
    /\ \A line \in AllLines : line.right \in Nat /\ line.wrong \in Nat
ASSUME PlaceAssumption ==
    \A n \in Sizes \ {0} : {Place[n][i] : i \in 1..n} = 1..n
ASSUME TrainSizeAssumption ==
    \A n \in Sizes, r \in Ratios, t \in Ratios :
        /\ TrainSize(n, r) \in 0..n
        /\ r <= t => TrainSize(n, r) <= TrainSize(n, t)
ASSUME RatiosAssumption == Ratios \subseteq Int
ASSUME SettingsAssumption == Settings \subseteq SUBSET KNOWN_DATASETS

VARIABLES files,            \* lines on disk of each dataset, Absent if none
          saved,            \* the baseline's file: what it holds, and if whole
          actor,            \* what each command or request is doing
          cache,            \* the splits that the service has in memory
          measured,         \* the evaluations of the baseline printed so far
          calls, kills      \* how many of the bounds are used

vars == <<files, saved, actor, cache, measured, calls, kills>>

Actors  == Commands \cup Threads
Absent  == -1
Nothing == [s \in KNOWN_DATASETS |-> <<>>]
NoFit   == [questions |-> {}, loaded |-> Nothing, ratio |-> 0]
NoCall  == [kind |-> "none"]
NoSplit == [known |-> FALSE, loaded |-> Nothing, tested |-> {}]
Steps   == {"idle", "model", "cache", "exists", "request", "write", "read",
            "split", "dump", "use"}
Calls   == [kind : {"train"}, datasets : Settings, ratio : Ratios]
           \cup [kind : {"baseline", "coverage"},
                 datasets : {{d} : d \in KNOWN_DATASETS}, ratio : Ratios]
Keys    == {{d} : d \in KNOWN_DATASETS} \X Ratios
Rest    == [at |-> "idle", call |-> NoCall, todo |-> {},
            loaded |-> Nothing, fit |-> NoFit, split |-> NoSplit]

Init == /\ files = [s \in KNOWN_DATASETS |-> Absent]
        /\ saved = [state |-> "absent", fit |-> NoFit]
        /\ actor = [a \in Actors |-> Rest]
        /\ cache = [k \in Keys |-> NoSplit]
        /\ measured = {}
        /\ calls = 0 /\ kills = 0

-------------------------------------------------------------------------------
(***************************************************************************)
(* What a split is made of, from the lines read of each dataset.            *)
(***************************************************************************)
Variants(s, line, label) ==
    IF s = "halueval" THEN 1 ELSE IF label THEN line.right ELSE line.wrong

Labelled(s, lines, label) ==            \* one example per answer of each line
    FlattenSeq([i \in DOMAIN lines |->
        [v \in 1..Variants(s, lines[i], label) |->
            [question |-> lines[i].question, source |-> s,
             answer |-> <<i, v>>, label |-> label]]])

Examples(loaded) ==                     \* `load_labeled_examples`
    FlattenSeq(<<Labelled("halueval", loaded["halueval"], TRUE),
                 Labelled("halueval", loaded["halueval"], FALSE),
                 Labelled("truthfulqa", loaded["truthfulqa"], TRUE),
                 Labelled("truthfulqa", loaded["truthfulqa"], FALSE)>>)

Questions(loaded) ==
    UNION {{line.question : line \in ToSet(loaded[s])} : s \in KNOWN_DATASETS}

Rank(q, Q) == Cardinality({p \in Q : p <= q})

(* The test part is the head of the permutation, the train part its end. *)
TestQuestions(loaded, ratio) ==
    LET Q == Questions(loaded)
        n == Cardinality(Q)
    IN  {q \in Q : Place[n][Rank(q, Q)] \in 1..(n - TrainSize(n, ratio))}

TestExamples(split) ==
    LET E    == Examples(split.loaded)
        kept == InOrder({i \in DOMAIN E : E[i].question \in split.tested})
    IN  [k \in DOMAIN kept |-> E[kept[k]]]

TrainExamples(loaded, ratio) ==
    {ex \in ToSet(Examples(loaded)) :
        ex.question \notin TestQuestions(loaded, ratio)}

(* `balance_classes`: as many true as false of each source, drawn. *)
Side(E, s, label) == {ex \in E : ex.source = s /\ ex.label = label}

Drawn(E, s) ==
    Min({Cardinality(Side(E, s, TRUE)), Cardinality(Side(E, s, FALSE))})

Sampled(E, s) ==
    UNION {{T \cup F : T \in kSubset(Drawn(E, s), Side(E, s, TRUE))} :
              F \in kSubset(Drawn(E, s), Side(E, s, FALSE))}

-------------------------------------------------------------------------------
Start(s) == IF "halueval" \in s THEN "halueval" ELSE "truthfulqa"

Goto(a, at) == actor' = [actor EXCEPT ![a].at = at]

Raise(a) == actor' = [actor EXCEPT ![a] = Rest]

At(a, at) == actor[a].at = at

Training(a) == ~At(a, "idle") /\ actor[a].call.kind = "train"

Ask(a, c) ==                \* a command line, or a request of the service
    /\ At(a, "idle")
    /\ calls < MaxCalls
    /\ c.kind = "train" =>   \* one training at a time, by hand
          a \in Commands /\ \A b \in Actors \ {a} : ~Training(b)
    /\ calls' = calls + 1
    /\ actor' = [actor EXCEPT ![a] =
            [Rest EXCEPT !.at = CASE c.kind = "train"    -> "exists"
                                  [] c.kind = "baseline" -> "model"
                                  [] c.kind = "coverage" -> "cache",
                         !.call = c, !.todo = c.datasets]]
    /\ UNCHANGED <<files, saved, cache, measured, kills>>

LoadModel(a) ==             \* `NliBaseline.__init__`: none, cut, or whole
    /\ At(a, "model")
    /\ IF saved.state = "saved"
       THEN actor' = [actor EXCEPT ![a].at = "cache", ![a].fit = saved.fit]
       ELSE Raise(a)
    /\ UNCHANGED <<files, saved, cache, measured, calls, kills>>

KeyByDataset(c) == <<c.datasets, CHOOSE r \in Ratios : TRUE>>

Key(c) == <<c.datasets, c.ratio>>

Lookup(a) ==                \* `lru_cache`: a command starts with an empty one
    /\ At(a, "cache")
    /\ LET hit == cache[Key(actor[a].call)] IN
       IF a \in Threads /\ hit.known
       THEN actor' = [actor EXCEPT ![a].at = "use", ![a].split = hit]
       ELSE Goto(a, "exists")
    /\ UNCHANGED <<files, saved, cache, measured, calls, kills>>

Source(a) == Start(actor[a].todo)

Exists(a) ==                \* `os.path.exists`, for each dataset in turn
    /\ At(a, "exists")
    /\ Goto(a, IF actor[a].todo = {} THEN "split"
               ELSE IF files[Source(a)] = Absent THEN "request" ELSE "read")
    /\ UNCHANGED <<files, saved, cache, measured, calls, kills>>

EmptyOnFailure(a) ==
    /\ At(a, "request")
    /\ files' = [files EXCEPT ![Source(a)] = 0]
    /\ Raise(a)
    /\ UNCHANGED <<saved, cache, measured, calls, kills>>

RequestFails(a) ==          \* `raise_for_status`
    /\ At(a, "request")
    /\ Raise(a)
    /\ UNCHANGED <<files, saved, cache, measured, calls, kills>>

Open(a) ==                  \* the body is in memory; "wb" empties the file
    /\ At(a, "request")
    /\ files' = [files EXCEPT ![Source(a)] = 0]
    /\ Goto(a, "write")
    /\ UNCHANGED <<saved, cache, measured, calls, kills>>

Write(a) ==
    /\ At(a, "write")
    /\ files' = [files EXCEPT ![Source(a)] = Len(Lines[Source(a)])]
    /\ Goto(a, "read")
    /\ UNCHANGED <<saved, cache, measured, calls, kills>>

Writers(s) == {b \in Actors : At(b, "write") /\ Source(b) = s}

(* What pandas makes of a file of k lines: a cut one may be refused, or,    *)
(* with the CSV of TruthfulQA, read up to a line that is damaged.           *)
Readings(s, k) ==
    LET whole == SubSeq(Lines[s], 1, k)
    IN  (IF s = "halueval" /\ k = 0 THEN {} ELSE {whole})
        \cup (IF s = "truthfulqa" /\ k < Len(Lines[s])
              THEN {Append(whole, Damaged)} ELSE {})

Read(a) ==
    /\ At(a, "read")
    /\ \E k \in 0..Len(Lines[Source(a)]) :
          /\ \/ k = files[Source(a)]
             \/ k > files[Source(a)] /\ Writers(Source(a)) # {}
          /\ \/ \E lines \in Readings(Source(a), k) :
                   actor' = [actor EXCEPT ![a].at = "exists",
                                          ![a].todo = @ \ {Source(a)},
                                          ![a].loaded[Source(a)] = lines]
             \/ k < Len(Lines[Source(a)]) /\ Raise(a)
    /\ UNCHANGED <<files, saved, cache, measured, calls, kills>>

Splittable(a) ==            \* else `train_test_split` raises a ValueError
    TrainSize(Cardinality(Questions(actor[a].loaded)), actor[a].call.ratio) > 0

Unsplittable(a) ==
    /\ At(a, "split") /\ ~Splittable(a)
    /\ Raise(a)
    /\ UNCHANGED <<files, saved, cache, measured, calls, kills>>

SplitTest(a) ==             \* the end of `_cached_split`
    /\ At(a, "split") /\ Splittable(a)
    /\ actor[a].call.kind # "train"
    /\ LET key  == Key(actor[a].call)
           made == [known |-> TRUE, loaded |-> actor[a].loaded,
                    tested |-> TestQuestions(actor[a].loaded, actor[a].call.ratio)]
       IN  /\ actor' = [actor EXCEPT ![a].at = "use", ![a].split = made]
           /\ cache' = IF a \in Threads /\ ~cache[key].known
                       THEN [cache EXCEPT ![key] = made] ELSE cache
    /\ UNCHANGED <<files, saved, measured, calls, kills>>

Train(a) ==                 \* `train_baseline`, up to the opening of its file
    /\ At(a, "split") /\ Splittable(a)
    /\ actor[a].call.kind = "train"
    /\ LET E == TrainExamples(actor[a].loaded, actor[a].call.ratio) IN
       \E h \in Sampled(E, "halueval"), t \in Sampled(E, "truthfulqa") :
          IF h \cup t = {}  \* nothing to fit: ValueError
          THEN Raise(a) /\ UNCHANGED saved
          ELSE /\ actor' = [actor EXCEPT ![a].at = "dump", ![a].fit =
                     [questions |-> {q \in Questions(actor[a].loaded) :
                                        \E ex \in h \cup t : ex.question = q},
                      loaded |-> actor[a].loaded, ratio |-> actor[a].call.ratio]]
               /\ saved' = [state |-> "cut", fit |-> NoFit]
    /\ UNCHANGED <<files, cache, measured, calls, kills>>

Dump(a) ==
    /\ At(a, "dump")
    /\ saved' = [state |-> "saved", fit |-> actor[a].fit]
    /\ Raise(a)
    /\ UNCHANGED <<files, cache, measured, calls, kills>>

Measure(a) ==               \* `evaluate_baseline` prints its matrix
    /\ At(a, "use") /\ actor[a].call.kind = "baseline"
    /\ measured' = measured \cup
          {[fit |-> actor[a].fit, loaded |-> actor[a].split.loaded,
            tested |-> actor[a].split.tested, ratio |-> actor[a].call.ratio]}
    /\ Raise(a)
    /\ UNCHANGED <<files, saved, cache, calls, kills>>

Report(a) ==                \* `--coverage` writes nothing
    /\ At(a, "use") /\ actor[a].call.kind = "coverage"
    /\ Raise(a)
    /\ UNCHANGED <<files, saved, cache, measured, calls, kills>>

Cuts(A, s) ==
    IF A \cap Writers(s) # {} THEN files[s]..Len(Lines[s]) ELSE {files[s]}

Killed(A) ==                \* what A was writing is cut at any line
    /\ kills < MaxKills
    /\ \E a \in A : ~At(a, "idle")
    /\ kills' = kills + 1
    /\ actor' = [a \in Actors |-> IF a \in A THEN Rest ELSE actor[a]]
    /\ \E h \in Cuts(A, "halueval"), t \in Cuts(A, "truthfulqa") :
          files' = [halueval |-> h, truthfulqa |-> t]
    /\ UNCHANGED <<saved, measured, calls>>

KillCommand(a) == Killed({a}) /\ UNCHANGED cache

KillService ==              \* the memory of the service goes with it
    /\ Killed(Threads)
    /\ cache' = [k \in Keys |-> NoSplit]

Work(a) == \/ LoadModel(a) \/ Lookup(a) \/ Exists(a)
           \/ RequestFails(a) \/ Open(a) \/ Write(a) \/ Read(a)
           \/ Unsplittable(a) \/ SplitTest(a) \/ Train(a) \/ Dump(a)
           \/ Measure(a) \/ Report(a)

Done == calls = MaxCalls /\ (\A a \in Actors : At(a, "idle")) /\ UNCHANGED vars

Next == \/ \E a \in Actors : Work(a) \/ \E c \in Calls : Ask(a, c)
        \/ \E a \in Commands : KillCommand(a)
        \/ KillService
        \/ Done

Spec == Init /\ [][Next]_vars

-------------------------------------------------------------------------------
(***************************************************************************)
(* `coverage_report` on a test part and the keys that the store holds, and  *)
(* the ranges that `format_index_ranges` prints. Indices start at 0.        *)
(***************************************************************************)
(* The store knows an example by its texts: two of the same text are in it  *)
(* together, which is one of the contents that CoverageIsExact tries.       *)
KeyOf(ex) == <<ex.question, ex.answer, ex.label>>

coverage_dataset(test, stored) ==
    LET I == 0..(Len(test) - 1)
        Known(i) == KeyOf(test[i + 1]) \in stored
    IN  [total   |-> Len(test),
         done    |-> InOrder({i \in I : Known(i)}),
         missing |-> InOrder({i \in I : ~Known(i)}),
         skipped |-> <<>>]

QuestionsOf(test) == InOrder({ex.question : ex \in ToSet(test)})

Judgeable(test, q) ==       \* a reference of each side, in this test part
    \A label \in BOOLEAN :
        \E ex \in ToSet(test) : ex.question = q /\ ex.label = label

coverage_generated(test, answered) ==
    LET asked    == QuestionsOf(test)
        I        == 0..(Len(asked) - 1)
        Valid(i) == Judgeable(test, asked[i + 1])
        Known(i) == asked[i + 1] \in answered
    IN  [total   |-> Len(asked),
         done    |-> InOrder({i \in I : Valid(i) /\ Known(i)}),
         missing |-> InOrder({i \in I : Valid(i) /\ ~Known(i)}),
         skipped |-> InOrder({i \in I : ~Valid(i)})]

(* What a matrix of the whole test part counts, in each mode.               *)
_official_dataset_test_size(test) == Len(test)

_official_valid_question_count(test) ==
    Cardinality({q \in ToSet(QuestionsOf(test)) : Judgeable(test, q)})

(* The loop on its k first indices: the ranges that it has closed, and the  *)
(* one that it may still extend.                                            *)
Closed(loop) == Append(loop.ranges, <<loop.start, loop.prev>>)

StartKept(loop, i) ==
    IF i = loop.prev + 1 THEN [loop EXCEPT !.prev = i]
    ELSE [loop EXCEPT !.ranges = Closed(loop), !.prev = i]

Extended(loop, i) ==
    IF i = loop.prev + 1 THEN [loop EXCEPT !.prev = i]
    ELSE [ranges |-> Closed(loop), start |-> i, prev |-> i]

format_index_ranges(indices) ==         \* pairs first-last, both included
    LET loop[k \in 1..Len(indices)] ==
            IF k = 1 THEN [ranges |-> <<>>, start |-> indices[1], prev |-> indices[1]]
            ELSE Extended(loop[k - 1], indices[k])
    IN  IF indices = <<>> THEN <<>> ELSE Closed(loop[Len(indices)])

-------------------------------------------------------------------------------
(* The baseline is measured on questions it was not trained on, whatever    *)
(* processes download, train, measure and die at the same time, as long as  *)
(* the training read the same lines and kept no larger a part of them:      *)
(* "partie non utilisée par `nli_baseline.train.train_baseline`".           *)
NoLeak ==
    \A e \in measured :
        e.fit.loaded = e.loaded /\ e.fit.ratio <= e.ratio
            => e.tested \cap e.fit.questions = {}

(* The same, of every training with the default settings of the program.    *)
TestIsUnseen == \A e \in measured : e.tested \cap e.fit.questions = {}

Covered(ranges) == UNION {r[1]..r[2] : r \in ToSet(ranges)}

(* What an operator does with a report: launch the missing ranges, which    *)
(* `--start` and `--end` (excluded) delimit. The three lists share out the  *)
(* indices, the ranges printed are exactly the missing ones and cannot be   *)
(* joined further. A matrix is complete when nothing is missing: what the   *)
(* report counts as to be done is the official size, which the code         *)
(* computes another way.                                                    *)
ReportIsExact(report, official) ==
    LET ranges == format_index_ranges(report.missing) IN
    /\ Len(report.done) + Len(report.missing) + Len(report.skipped) = report.total
    /\ Len(report.done) + Len(report.missing) = official
    /\ ToSet(report.done) \cup ToSet(report.missing) \cup ToSet(report.skipped)
          = 0..(report.total - 1)
    /\ Covered(ranges) = ToSet(report.missing)
    /\ \A k \in 1..(Len(ranges) - 1) : ranges[k][2] + 1 < ranges[k + 1][1]

CoverageIsExact ==
    \A a \in Actors :
        At(a, "use") /\ actor[a].call.kind = "coverage" =>
            LET test == TestExamples(actor[a].split) IN
            /\ \A stored \in SUBSET {KeyOf(ex) : ex \in ToSet(test)} :
                  ReportIsExact(coverage_dataset(test, stored),
                                _official_dataset_test_size(test))
            /\ \A answered \in SUBSET ToSet(QuestionsOf(test)) :
                  ReportIsExact(coverage_generated(test, answered),
                                _official_valid_question_count(test))

(* A file that is neither absent nor whole is being written, or a kill cut  *)
(* it: two downloads of the same dataset at once never leave it cut.        *)
CutOnlyByKill ==
    kills = 0 =>
        \A s \in KNOWN_DATASETS :
            files[s] \in {Absent, Len(Lines[s])} \/ Writers(s) # {}
===============================================================================
