-------------------------------- MODULE EvalRun --------------------------------
(***************************************************************************)
(* The mode 1 evaluation of one scope (berlue/evaluation/run_eval.py):      *)
(* processes that run `evaluate_model` on slices of the test set and share  *)
(* the store, a process that builds the matrix, and the user, who           *)
(* interrupts runs, purges, and changes the FUSION_* settings.              *)
(*                                                                          *)
(* An example is its rank in the test set. The pipeline is Pipeline's: it   *)
(* brings back signals (what the claims got from the RAG and SelfCheck, or  *)
(* a panne) or raises. Every call to the store is one SQLite transaction.   *)
(*                                                                          *)
(* PastSlice, SkipSignalsCache, ReplaceSignals, ReplacePrediction,          *)
(* LosePrediction and PartialMatrix are mutated forms of definitions below. *)
(***************************************************************************)
EXTENDS Integers, Sequences, FiniteSets

CONSTANTS
    NExamples,              \* size of the test set
    Truth,                  \* ground truth of each example
    Workers,                \* processes that run evaluate_model
    Builders,               \* processes that run evaluate_model_matrix
    Slice,                  \* `start` and `end` of each: ranks start+1..end
    ClaimSignals,           \* what one claim got from the two branches
    Settings,               \* values of the FUSION_* the user tries
    Status(_, _),           \* status of a claim: fuse under settings
    OldRows,                \* examples whose signals an older version stored
    PurgeScopes,            \* values of `--purge-scope` the user passes
    MaxInterrupts,          \* bound on interruptions and exceptions
    MaxPurges,              \* bound on purges
    NoRow, OldFormat,       \* no row; a row of signals in an older format
    NoSignals, NoMatrix     \* nothing in hand; no matrix

Examples == 1..NExamples
Statuses == {"green", "orange", "red"}

ASSUME SizeAssumption  == NExamples \in Nat /\ Truth \in [Examples -> BOOLEAN]
ASSUME SliceAssumption == Slice \in [Workers -> (0..NExamples) \X (0..NExamples)]
ASSUME StatusAssumption ==
    \A st \in Settings, c \in ClaimSignals : Status(st, c) \in Statuses
ASSUME StoreAssumption ==
    /\ OldRows \subseteq Examples
    /\ PurgeScopes \subseteq {"fusion", "signals", "results", "matrices", "all"}
ASSUME BoundAssumption == MaxInterrupts \in Nat /\ MaxPurges \in Nat

VARIABLES
    predictions,            \* eval_predictions, by example
    signals,                \* eval_signals, by example
    matrix,                 \* the row of eval_matrices
    env,                    \* FUSION_* in the environment of the next process
    worker,                 \* the processes running evaluate_model
    builder,                \* those running evaluate_model_matrix; `purges`
                            \* remembers the count when one started
    interrupts, purges,     \* how many so far
    resets,                 \* how many purges deleted the signals
    calls                   \* how many times the pipeline ran on each example

vars == <<predictions, signals, matrix, env, worker, builder, interrupts,
          purges, resets, calls>>
store == <<predictions, signals, matrix>>
bounds == <<interrupts, purges, resets>>

Verdicts  == {"SUPPORTED", "CONTRADICTED", "NOT_ENOUGH_INFO", "PANNE"}

(* A panne is a claim's: without claims the RAG is not called at all. *)
Signals == [panne : {FALSE}, claims : SUBSET ClaimSignals] \cup
           [panne : {TRUE}, claims : SUBSET ClaimSignals \ {{}}]

ASSUME AbsenceAssumption ==
    /\ NoRow \notin Verdicts \cup Signals \cup {OldFormat}
    /\ OldFormat \notin Signals /\ NoSignals \notin Signals

(* `aggregate_verdict` of what the fusion makes of the signals. *)
aggregate_verdict(st, s) ==
    LET statuses == IF s.panne THEN {"panne" : c \in s.claims}
                               ELSE {Status(st, c) : c \in s.claims}
    IN  IF statuses = {} THEN "NOT_ENOUGH_INFO"
        ELSE IF "panne" \in statuses THEN "PANNE"
        ELSE IF "red" \in statuses THEN "CONTRADICTED"
        ELSE IF "orange" \in statuses THEN "NOT_ENOUGH_INFO" ELSE "SUPPORTED"

(* `build_confusion_matrix` on the verdicts read: pannes are left out. *)
Cells(verdict) ==
    [gt \in BOOLEAN |->
        [v \in Verdicts \ {"PANNE"} |->
            Cardinality({e \in DOMAIN verdict : Truth[e] = gt /\ verdict[e] = v})]]

Off == [pc |-> "off", at |-> 0, settings |-> CHOOSE st \in Settings : TRUE,
        signals |-> NoSignals]

NotBuilding == [pc |-> "off", read |-> <<>>, purges |-> 0]

Init == /\ predictions = [e \in Examples |-> NoRow]
        /\ signals = [e \in Examples |-> IF e \in OldRows THEN OldFormat ELSE NoRow]
        /\ matrix = NoMatrix
        /\ env \in Settings
        /\ worker = [w \in Workers |-> Off]
        /\ builder = [b \in Builders |-> NotBuilding]
        /\ interrupts = 0 /\ purges = 0 /\ resets = 0
        /\ calls = [e \in Examples |-> 0]

(***************************************************************************)
(* evaluate_model, in process w.                                            *)
(***************************************************************************)
Goto(w, pc)    == worker' = [worker EXCEPT ![w].pc = pc]
At(w)          == worker[w].at
Running(w, pc) == worker[w].pc = pc

PastSlice(w, e) ==
    worker' = [worker EXCEPT ![w] =
                  IF e <= Slice[w][2] + 1
                  THEN [@ EXCEPT !.pc = "get_verdict", !.at = e, !.signals = NoSignals]
                  ELSE Off]

(* The loop goes on to the next example of the slice, or the run ends. *)
NextExample(w, e) ==
    worker' = [worker EXCEPT ![w] =
                  IF e <= Slice[w][2]
                  THEN [@ EXCEPT !.pc = "get_verdict", !.at = e, !.signals = NoSignals]
                  ELSE Off]

Launch(w) ==                \* params.py reads FUSION_* when it is imported
    /\ Running(w, "off")
    /\ Slice[w][1] < Slice[w][2]
    /\ worker' = [worker EXCEPT ![w] =
                     [pc |-> "get_verdict", at |-> Slice[w][1] + 1,
                      settings |-> env, signals |-> NoSignals]]
    /\ UNCHANGED <<store, env, builder, bounds, calls>>

GetVerdict(w) ==            \* a stored verdict, a PANNE included, is final
    /\ Running(w, "get_verdict")
    /\ IF predictions[At(w)] = NoRow THEN Goto(w, "get_signals")
                                     ELSE NextExample(w, At(w) + 1)
    /\ UNCHANGED <<store, env, builder, bounds, calls>>

SkipSignalsCache(w) ==
    /\ Running(w, "get_signals")
    /\ Goto(w, "compute")
    /\ UNCHANGED <<store, env, builder, bounds, calls>>

GetSignals(w) ==            \* an old format is read as an absence
    /\ Running(w, "get_signals")
    /\ IF signals[At(w)] \in {NoRow, OldFormat}
       THEN Goto(w, "compute")
       ELSE worker' = [worker EXCEPT ![w].pc = "put_prediction",
                                     ![w].signals = signals[At(w)]]
    /\ UNCHANGED <<store, env, builder, bounds, calls>>

ComputeSignals(w) ==
    /\ Running(w, "compute")
    /\ \E s \in Signals :
          worker' = [worker EXCEPT ![w].pc = "put_signals", ![w].signals = s]
    /\ calls' = [calls EXCEPT ![At(w)] = @ + 1]
    /\ UNCHANGED <<store, env, builder, bounds>>

ComputeRaises(w) ==         \* the exception ends the run
    /\ Running(w, "compute")
    /\ interrupts < MaxInterrupts
    /\ interrupts' = interrupts + 1
    /\ calls' = [calls EXCEPT ![At(w)] = @ + 1]
    /\ worker' = [worker EXCEPT ![w] = Off]
    /\ UNCHANGED <<store, env, builder, purges, resets>>

ReplaceSignals(w) ==
    /\ Running(w, "put_signals")
    /\ signals' = [signals EXCEPT ![At(w)] = worker[w].signals]
    /\ Goto(w, "put_prediction")
    /\ UNCHANGED <<predictions, matrix, env, builder, bounds, calls>>

PutSignals(w) ==            \* INSERT OR IGNORE
    /\ Running(w, "put_signals")
    /\ signals' = [signals EXCEPT ![At(w)] = IF @ = NoRow THEN worker[w].signals ELSE @]
    /\ Goto(w, "put_prediction")
    /\ UNCHANGED <<predictions, matrix, env, builder, bounds, calls>>

Fused(w) == aggregate_verdict(worker[w].settings, worker[w].signals)

ReplacePrediction(w) ==
    /\ Running(w, "put_prediction")
    /\ predictions' = [predictions EXCEPT ![At(w)] = Fused(w)]
    /\ NextExample(w, At(w) + 1)
    /\ UNCHANGED <<signals, matrix, env, builder, bounds, calls>>

LosePrediction(w) ==
    /\ Running(w, "put_prediction")
    /\ NextExample(w, At(w) + 1)
    /\ UNCHANGED <<store, env, builder, bounds, calls>>

(* The fusion of the signals in hand, then INSERT OR IGNORE. *)
PutPrediction(w) ==
    /\ Running(w, "put_prediction")
    /\ predictions' = [predictions EXCEPT ![At(w)] = IF @ = NoRow THEN Fused(w) ELSE @]
    /\ NextExample(w, At(w) + 1)
    /\ UNCHANGED <<signals, matrix, env, builder, bounds, calls>>

Evaluate(w) == \/ Launch(w) \/ GetVerdict(w) \/ GetSignals(w)
               \/ ComputeSignals(w) \/ PutSignals(w) \/ PutPrediction(w)

(***************************************************************************)
(* evaluate_model_matrix, one read of the store per example.                *)
(***************************************************************************)
BuildStart(b) ==
    /\ builder[b].pc = "off"
    /\ builder' = [builder EXCEPT ![b] =
                      [pc |-> "reading", read |-> <<>>, purges |-> purges]]
    /\ UNCHANGED <<store, env, worker, bounds, calls>>

BuildRead(b) ==
    /\ builder[b].pc = "reading"
    /\ Len(builder[b].read) < NExamples
    /\ builder' = [builder EXCEPT
                      ![b].read = Append(@, predictions[Len(@) + 1])]
    /\ UNCHANGED <<store, env, worker, bounds, calls>>

Row(verdict) == [cells |-> Cells(verdict), n_examples |-> NExamples]

PartialMatrix(b) ==
    /\ builder[b].pc = "reading"
    /\ Len(builder[b].read) = NExamples
    /\ matrix' = Row(builder[b].read)
    /\ builder' = [builder EXCEPT ![b] = NotBuilding]
    /\ UNCHANGED <<predictions, signals, env, worker, bounds, calls>>

BuildEnd(b) ==              \* put_matrix replaces, or ValueError if one is missing
    /\ builder[b].pc = "reading"
    /\ Len(builder[b].read) = NExamples
    /\ matrix' = IF \E e \in Examples : builder[b].read[e] = NoRow THEN matrix
                 ELSE Row(builder[b].read)
    /\ builder' = [builder EXCEPT ![b] = NotBuilding]
    /\ UNCHANGED <<predictions, signals, env, worker, bounds, calls>>

(***************************************************************************)
(* The user.                                                                *)
(***************************************************************************)
Interrupt(w) ==             \* Ctrl+C, a killed process
    /\ ~Running(w, "off")
    /\ interrupts < MaxInterrupts
    /\ interrupts' = interrupts + 1
    /\ worker' = [worker EXCEPT ![w] = Off]
    /\ UNCHANGED <<store, env, builder, purges, resets, calls>>

Purge(scope) ==             \* the whole purge is one transaction
    /\ purges < MaxPurges
    /\ purges' = purges + 1
    /\ resets' = IF scope \in {"all", "signals"} THEN resets + 1 ELSE resets
    /\ predictions' = IF scope \in {"all", "results", "fusion"}
                      THEN [e \in Examples |-> NoRow] ELSE predictions
    /\ signals' = IF scope \in {"all", "signals"}
                  THEN [e \in Examples |-> NoRow] ELSE signals
    /\ matrix' = IF scope \in {"all", "matrices", "fusion"} THEN NoMatrix ELSE matrix
    /\ UNCHANGED <<env, worker, builder, interrupts, calls>>

Retune == /\ env' \in Settings
          /\ UNCHANGED <<store, worker, builder, bounds, calls>>

Work == \E w \in Workers : Evaluate(w)
Build == \E b \in Builders : BuildStart(b) \/ BuildRead(b) \/ BuildEnd(b)
User == \/ \E w \in Workers : Interrupt(w)
        \/ \E scope \in PurgeScopes : Purge(scope)
        \/ Retune

Next == Work \/ (\E w \in Workers : ComputeRaises(w)) \/ Build \/ User

Spec == Init /\ [][Next]_vars

(* A process goes on, and the user launches again what was interrupted, as  *)
(* docs/evaluation/run.md tells to do; nothing makes the user purge.        *)
FairSpec == Spec /\ \A w \in Workers : WF_vars(Evaluate(w))

-------------------------------------------------------------------------------
Pcs == {"off", "get_verdict", "get_signals", "compute", "put_signals", "put_prediction"}

(* Every variable keeps its shape. *)
TypeOK ==
    /\ predictions \in [Examples -> Verdicts \cup {NoRow}]
    /\ signals \in [Examples -> Signals \cup {NoRow, OldFormat}]
    /\ matrix # NoMatrix => matrix.n_examples = NExamples
    /\ env \in Settings
    /\ worker \in [Workers -> [pc : Pcs, at : 0..NExamples, settings : Settings,
                               signals : Signals \cup {NoSignals}]]
    /\ \A w \in Workers :
          /\ worker[w].pc # "off" => worker[w].at \in (Slice[w][1] + 1)..Slice[w][2]
          /\ worker[w].pc \in {"put_signals", "put_prediction"}
                => worker[w].signals # NoSignals
    /\ builder \in [Builders -> [pc : {"off", "reading"}, purges : 0..MaxPurges,
                                 read : Seq(Verdicts \cup {NoRow})]]
    /\ \A b \in Builders : Len(builder[b].read) <= NExamples
    /\ interrupts \in 0..MaxInterrupts
    /\ purges \in 0..MaxPurges
    /\ resets \in 0..purges
    /\ calls \in [Examples -> Nat]

(* The tables of predictions and signals, as docs/evaluation/storage.md     *)
(* promises them to several workers of one scope: whoever comes second      *)
(* changes nothing.                                                         *)
PredictionTable == INSTANCE WriteOnceTable
                   WITH Keys <- Examples, Values <- Verdicts, table <- predictions
PredictionsWriteOnce == PredictionTable!Spec

SignalTable == INSTANCE WriteOnceTable
               WITH Keys <- Examples, Values <- Signals \cup {OldFormat}, table <- signals
SignalsWriteOnce == SignalTable!Spec

Slices(e) == {w \in Workers : Slice[w][1] < e /\ e <= Slice[w][2]}
Alone(e)  == \A v, w \in Slices(e) : v = w

(* Replaying the fusion on the signals in the cache gives the verdict in    *)
(* the cache, under one of the settings tried, for every example that no    *)
(* two processes work on; purging either table, interrupting or changing    *)
(* settings at any point does not break it.                                 *)
ReplayAgrees ==
    \A e \in Examples :
        Alone(e) /\ predictions[e] # NoRow /\ signals[e] \notin {NoRow, OldFormat}
            => \E st \in Settings : predictions[e] = aggregate_verdict(st, signals[e])

(* Why it holds: a process that found no verdict and no readable signals is *)
(* the only one that can store some, and what it holds at the end is what   *)
(* the store has, unless it was purged.                                     *)
ReplayInv ==
    \A w \in Workers : Alone(At(w)) =>
        /\ worker[w].pc \in Pcs \ {"off", "get_verdict"} => predictions[At(w)] = NoRow
        /\ worker[w].pc \in {"compute", "put_signals"}
              => signals[At(w)] \in {NoRow, OldFormat}
        /\ worker[w].pc = "put_prediction"
              => signals[At(w)] \in {NoRow, OldFormat, worker[w].signals}

(* "une interruption ne perd que la prédiction en cours", and a purge of    *)
(* scope "fusion" costs nothing ("RAG et SelfCheck sortent du cache, seule  *)
(* la fusion recalcule"): the pipeline runs once on an example, plus once   *)
(* per interruption and per purge of the signals, however often processes   *)
(* are launched again.                                                      *)
FusionPurgeIsFree ==
    \A e \in Examples : Alone(e) => calls[e] <= 1 + interrupts + resets

(* Why it holds: each call that no interruption and no purge lost is in the *)
(* hands of a process about to store it, or in the store.                   *)
Kept(e) == \/ signals[e] # NoRow
           \/ \E w \in Workers : worker[w].pc = "put_signals" /\ At(w) = e
CostInv ==
    \A e \in Examples :
        Alone(e) => calls[e] <= interrupts + resets + (IF Kept(e) THEN 1 ELSE 0)

(* storage.md: a matrix is "un snapshot du dernier calcul complet": when it *)
(* is stored, it counts what the store holds, and the store holds it all,   *)
(* whatever the workers wrote while it was built. (Not when a purge ran in  *)
(* between: the matrix then outlives the results it counts.)                *)
Snapshot == /\ \A e \in Examples : predictions[e] # NoRow
            /\ matrix'.cells = Cells(predictions)

UndisturbedEnd(b) == /\ builder'[b] # builder[b] /\ builder[b].purges = purges
                     /\ matrix' \notin {matrix, NoMatrix}

MatrixIsSnapshot == [][\A b \in Builders : UndisturbedEnd(b) => Snapshot]_vars

(* However runs are cut, launching again ends up with a verdict for every   *)
(* example of the slices.                                                   *)
Covered == {e \in Examples : \E w \in Workers : e \in (Slice[w][1] + 1)..Slice[w][2]}
ScopeCompletes == <>[](\A e \in Covered : predictions[e] # NoRow)
===============================================================================
