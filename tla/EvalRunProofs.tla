----------------------------- MODULE EvalRunProofs -----------------------------
(***************************************************************************)
(* Proofs about EvalRun, for every number of examples, of processes, of     *)
(* settings, every slicing of the test set and every sequence of purges and *)
(* interruptions: type correctness, the write-once contract of both tables, *)
(* the agreement of the predictions with the signals in the store, that a   *)
(* matrix is a snapshot of the predictions, and that a run which is not cut *)
(* short leaves no hole in its slice.                                       *)
(***************************************************************************)
EXTENDS EvalRun, TLAPS

(* The verdict of an answer is one of the four, whatever its claims. *)
LEMMA VerdictType == \A st, s : aggregate_verdict(st, s) \in Verdicts
BY DEF aggregate_verdict, Verdicts

(* What a process does when it goes to another line of the loop, in terms   *)
(* of the processes: the type of `worker` is kept.                          *)
WorkerOK(f) ==
    /\ f \in [Workers -> [pc : Pcs, at : 0..NExamples, settings : Settings,
                          signals : Signals \cup {NoSignals}]]
    /\ \A w \in Workers :
          /\ f[w].pc # "off" => f[w].at \in (Slice[w][1] + 1)..Slice[w][2]
          /\ f[w].pc \in {"put_signals", "put_prediction"} => f[w].signals # NoSignals

(* The record of a process that is not running is well typed. *)
LEMMA OffType ==
    ASSUME Settings # {}
    PROVE  Off \in [pc : Pcs, at : 0..NExamples, settings : Settings,
                    signals : Signals \cup {NoSignals}]
BY SizeAssumption DEF Off, Pcs

(* The move to the next example of the slice keeps the type. *)
LEMMA NextExampleType ==
    ASSUME NEW w \in Workers, WorkerOK(worker), Settings # {},
           worker[w].pc # "off", NextExample(w, At(w) + 1)
    PROVE  WorkerOK(worker')
<1>1. Slice[w][1] \in 0..NExamples /\ Slice[w][2] \in 0..NExamples
  BY SliceAssumption
<1>2. At(w) \in (Slice[w][1] + 1)..Slice[w][2]
  BY DEF WorkerOK, At
<1>3. CASE At(w) + 1 <= Slice[w][2]
  <2> DEFINE r == [worker[w] EXCEPT !.pc = "get_verdict", !.at = At(w) + 1,
                                    !.signals = NoSignals]
  <2>1. worker' = [worker EXCEPT ![w] = r]
    BY <1>3 DEF NextExample
  <2>2. At(w) + 1 \in 0..NExamples /\ At(w) + 1 \in (Slice[w][1] + 1)..Slice[w][2]
    BY <1>1, <1>2, <1>3, SizeAssumption
  <2>3. /\ r \in [pc : Pcs, at : 0..NExamples, settings : Settings,
                  signals : Signals \cup {NoSignals}]
        /\ r.pc = "get_verdict" /\ r.at = At(w) + 1
    BY <2>2 DEF WorkerOK, Pcs
  <2> HIDE DEF r
  <2> QED BY <2>1, <2>2, <2>3 DEF WorkerOK
<1>4. CASE ~(At(w) + 1 <= Slice[w][2])
  <2>1. worker' = [worker EXCEPT ![w] = Off]
    BY <1>4 DEF NextExample
  <2> QED BY <2>1, OffType DEF WorkerOK, Off
<1> QED BY <1>3, <1>4

(* Going to another line of the loop with the same signals, or with new     *)
(* ones in hand.                                                            *)
LEMMA GotoType ==
    ASSUME NEW w \in Workers, NEW pc \in Pcs \ {"off"}, WorkerOK(worker),
           worker[w].pc # "off", Goto(w, pc),
           pc \in {"put_signals", "put_prediction"} => worker[w].signals # NoSignals
    PROVE  WorkerOK(worker')
<1>1. worker' = [worker EXCEPT ![w] = [worker[w] EXCEPT !.pc = pc]]
  BY DEF Goto
<1> QED BY <1>1 DEF WorkerOK

LEMMA HoldType ==
    ASSUME NEW w \in Workers, NEW pc \in Pcs \ {"off"}, NEW s \in Signals,
           WorkerOK(worker), worker[w].pc # "off",
           worker' = [worker EXCEPT ![w].pc = pc, ![w].signals = s]
    PROVE  WorkerOK(worker')
<1>1. worker' = [worker EXCEPT ![w] = [worker[w] EXCEPT !.pc = pc, !.signals = s]]
  BY DEF WorkerOK
<1>2. s # NoSignals
  BY AbsenceAssumption
<1> QED BY <1>1, <1>2 DEF WorkerOK

(* The other variables, taken together. *)
StoreOK ==
    /\ predictions \in [Examples -> Verdicts \cup {NoRow}]
    /\ signals \in [Examples -> Signals \cup {NoRow, OldFormat}]
    /\ matrix # NoMatrix => matrix.n_examples = NExamples
BuilderOK ==
    /\ builder \in [Builders -> [pc : {"off", "reading"}, purges : 0..MaxPurges,
                                 read : Seq(Verdicts \cup {NoRow})]]
    /\ \A b \in Builders : Len(builder[b].read) <= NExamples
CountsOK ==
    /\ interrupts \in 0..MaxInterrupts
    /\ purges \in 0..MaxPurges
    /\ resets \in 0..purges
    /\ calls \in [Examples -> Nat]

LEMMA TypeParts ==
    TypeOK <=> StoreOK /\ env \in Settings /\ WorkerOK(worker) /\ BuilderOK /\ CountsOK
BY DEF TypeOK, StoreOK, WorkerOK, BuilderOK, CountsOK

(* A running process is at an example of the test set. *)
LEMMA AtExample ==
    ASSUME TypeOK, NEW w \in Workers, worker[w].pc # "off"
    PROVE  At(w) \in Examples
<1>1. WorkerOK(worker)
  BY TypeParts
<1> QED BY <1>1, SliceAssumption, SizeAssumption DEF WorkerOK, At, Examples

(* The initial states are well typed. *)
LEMMA InitType == Init => TypeOK
<1> SUFFICES ASSUME Init PROVE TypeOK
  OBVIOUS
<1>1. Settings # {} /\ env \in Settings
  BY DEF Init
<1>2. StoreOK
  BY DEF Init, StoreOK
<1>3. WorkerOK(worker)
  BY <1>1, OffType DEF Init, WorkerOK, Off
<1>4. BuilderOK
  BY BoundAssumption, SizeAssumption DEF Init, BuilderOK, NotBuilding
<1>5. CountsOK
  BY BoundAssumption DEF Init, CountsOK
<1> QED BY <1>1, <1>2, <1>3, <1>4, <1>5, TypeParts

(* Every step keeps the types: one case per action. *)
LEMMA NextType == TypeOK /\ [Next]_vars => TypeOK'
<1> SUFFICES ASSUME TypeOK, [Next]_vars PROVE TypeOK'
  OBVIOUS
<1>0. /\ StoreOK /\ env \in Settings /\ WorkerOK(worker) /\ BuilderOK /\ CountsOK
      /\ Settings # {}
  BY TypeParts
<1>a. (StoreOK /\ env \in Settings /\ WorkerOK(worker) /\ BuilderOK /\ CountsOK)'
         => TypeOK'
  BY DEF TypeOK, StoreOK, WorkerOK, BuilderOK, CountsOK
<1> DEFINE Kept1 == UNCHANGED <<predictions, signals, matrix>>
<1>s. ASSUME Kept1 PROVE StoreOK'
  BY <1>0, <1>s DEF StoreOK
<1>b. ASSUME UNCHANGED builder PROVE BuilderOK'
  BY <1>0, <1>b DEF BuilderOK
<1>c. ASSUME UNCHANGED <<interrupts, purges, resets, calls>> PROVE CountsOK'
  BY <1>0, <1>c DEF CountsOK
<1>w. ASSUME UNCHANGED worker PROVE WorkerOK(worker')
  BY <1>0, <1>w
<1>at. ASSUME NEW w \in Workers, worker[w].pc # "off"
       PROVE  At(w) \in Examples
  BY <1>at, AtExample
<1>1. ASSUME NEW w \in Workers, Launch(w) PROVE TypeOK'
  <2> DEFINE r == [pc |-> "get_verdict", at |-> Slice[w][1] + 1,
                   settings |-> env, signals |-> NoSignals]
  <2>1. worker' = [worker EXCEPT ![w] = r]
    BY <1>1 DEF Launch
  <2>2. Slice[w][1] \in 0..NExamples /\ Slice[w][2] \in 0..NExamples
        /\ Slice[w][1] < Slice[w][2]
    BY <1>1, SliceAssumption DEF Launch
  <2>3. /\ r \in [pc : Pcs, at : 0..NExamples, settings : Settings,
                  signals : Signals \cup {NoSignals}]
        /\ r.pc = "get_verdict" /\ r.at \in (Slice[w][1] + 1)..Slice[w][2]
    BY <2>2, <1>0, SizeAssumption DEF Pcs
  <2> HIDE DEF r
  <2>4. WorkerOK(worker')
    BY <2>1, <2>3, <1>0 DEF WorkerOK
  <2> QED BY <2>4, <1>1, <1>0, <1>a, <1>s, <1>b, <1>c DEF Launch, store, bounds
<1>2. ASSUME NEW w \in Workers, GetVerdict(w) PROVE TypeOK'
  <2>1. worker[w].pc = "get_verdict"
    BY <1>2 DEF GetVerdict, Running
  <2>2. CASE predictions[At(w)] = NoRow
    <3>1. WorkerOK(worker')
      BY <2>1, <2>2, <1>2, <1>0, GotoType DEF GetVerdict, Pcs
    <3> QED BY <3>1, <1>2, <1>0, <1>a, <1>s, <1>b, <1>c DEF GetVerdict, store, bounds
  <2>3. CASE predictions[At(w)] # NoRow
    <3>1. WorkerOK(worker')
      BY <2>1, <2>3, <1>2, <1>0, NextExampleType DEF GetVerdict
    <3> QED BY <3>1, <1>2, <1>0, <1>a, <1>s, <1>b, <1>c DEF GetVerdict, store, bounds
  <2> QED BY <2>2, <2>3
<1>3. ASSUME NEW w \in Workers, GetSignals(w) PROVE TypeOK'
  <2>1. worker[w].pc = "get_signals" /\ At(w) \in Examples
    BY <1>3, <1>at DEF GetSignals, Running
  <2>2. CASE signals[At(w)] \in {NoRow, OldFormat}
    <3>1. WorkerOK(worker')
      BY <2>1, <2>2, <1>3, <1>0, GotoType DEF GetSignals, Pcs
    <3> QED BY <3>1, <1>3, <1>0, <1>a, <1>s, <1>b, <1>c DEF GetSignals, store, bounds
  <2>3. CASE signals[At(w)] \notin {NoRow, OldFormat}
    <3>1. signals[At(w)] \in Signals
      BY <2>1, <2>3, <1>0 DEF StoreOK
    <3>2. WorkerOK(worker')
      BY <3>1, <2>1, <2>3, <1>3, <1>0, HoldType DEF GetSignals, Pcs
    <3> QED BY <3>2, <1>3, <1>0, <1>a, <1>s, <1>b, <1>c DEF GetSignals, store, bounds
  <2> QED BY <2>2, <2>3
<1>4. ASSUME NEW w \in Workers, ComputeSignals(w) PROVE TypeOK'
  <2>1. worker[w].pc = "compute" /\ At(w) \in Examples
    BY <1>4, <1>at DEF ComputeSignals, Running
  <2>2. WorkerOK(worker')
    BY <2>1, <1>4, <1>0, HoldType DEF ComputeSignals, Pcs
  <2>3. CountsOK'
    BY <2>1, <1>4, <1>0 DEF ComputeSignals, CountsOK, bounds
  <2> QED BY <2>2, <2>3, <1>4, <1>0, <1>a, <1>s, <1>b DEF ComputeSignals, store
<1>5. ASSUME NEW w \in Workers, ComputeRaises(w) PROVE TypeOK'
  <2>1. worker[w].pc = "compute" /\ At(w) \in Examples
    BY <1>5, <1>at DEF ComputeRaises, Running
  <2>2. WorkerOK(worker')
    BY <1>5, <1>0, OffType DEF ComputeRaises, WorkerOK, Off
  <2>3. CountsOK'
    BY <2>1, <1>5, <1>0, BoundAssumption DEF ComputeRaises, CountsOK
  <2> QED BY <2>2, <2>3, <1>5, <1>0, <1>a, <1>s, <1>b DEF ComputeRaises, store
<1>6. ASSUME NEW w \in Workers, PutSignals(w) PROVE TypeOK'
  <2>1. worker[w].pc = "put_signals" /\ At(w) \in Examples
    BY <1>6, <1>at DEF PutSignals, Running
  <2>2. worker[w].signals \in Signals
    BY <2>1, <1>0 DEF WorkerOK
  <2>3. StoreOK'
    BY <2>1, <2>2, <1>6, <1>0 DEF PutSignals, StoreOK
  <2>4. WorkerOK(worker')
    BY <2>1, <2>2, <1>6, <1>0, GotoType, AbsenceAssumption DEF PutSignals, Pcs
  <2> QED BY <2>3, <2>4, <1>6, <1>0, <1>a, <1>b, <1>c DEF PutSignals, bounds
<1>7. ASSUME NEW w \in Workers, PutPrediction(w) PROVE TypeOK'
  <2>1. worker[w].pc = "put_prediction" /\ At(w) \in Examples
    BY <1>7, <1>at DEF PutPrediction, Running
  <2>2. Fused(w) \in Verdicts
    BY VerdictType DEF Fused
  <2>3. StoreOK'
    BY <2>1, <2>2, <1>7, <1>0 DEF PutPrediction, StoreOK
  <2>4. WorkerOK(worker')
    BY <2>1, <1>7, <1>0, NextExampleType DEF PutPrediction
  <2> QED BY <2>3, <2>4, <1>7, <1>0, <1>a, <1>b, <1>c DEF PutPrediction, bounds
<1>8. ASSUME NEW b \in Builders, BuildStart(b) PROVE TypeOK'
  <2>1. BuilderOK'
    BY <1>8, <1>0, SizeAssumption DEF BuildStart, BuilderOK, CountsOK
  <2> QED BY <2>1, <1>8, <1>0, <1>a, <1>s, <1>w, <1>c DEF BuildStart, store, bounds
<1>9. ASSUME NEW b \in Builders, BuildRead(b) PROVE TypeOK'
  <2> DEFINE read == builder[b].read
             more == Append(read, predictions[Len(read) + 1])
  <2>1. read \in Seq(Verdicts \cup {NoRow}) /\ Len(read) < NExamples
    BY <1>9, <1>0 DEF BuildRead, BuilderOK
  <2>2. Len(read) + 1 \in Examples
    BY <2>1, SizeAssumption DEF Examples
  <2>3. predictions[Len(read) + 1] \in Verdicts \cup {NoRow}
    BY <2>2, <1>0 DEF StoreOK
  <2>4. more \in Seq(Verdicts \cup {NoRow}) /\ Len(more) <= NExamples
    BY <2>1, <2>2, <2>3 DEF Examples
  <2>5. builder' = [builder EXCEPT ![b] = [builder[b] EXCEPT !.read = more]]
    BY <1>9 DEF BuildRead
  <2> HIDE DEF more
  <2>6. BuilderOK'
    BY <2>4, <2>5, <1>0 DEF BuilderOK
  <2> QED BY <2>6, <1>9, <1>0, <1>a, <1>s, <1>w, <1>c DEF BuildRead, store, bounds
<1>10. ASSUME NEW b \in Builders, BuildEnd(b) PROVE TypeOK'
  <2>1. BuilderOK'
    BY <1>10, <1>0, SizeAssumption, BoundAssumption DEF BuildEnd, BuilderOK, NotBuilding
  <2>2. StoreOK'
    BY <1>10, <1>0 DEF BuildEnd, StoreOK, Row
  <2> QED BY <2>1, <2>2, <1>10, <1>0, <1>a, <1>w, <1>c DEF BuildEnd, bounds
<1>11. ASSUME NEW w \in Workers, Interrupt(w) PROVE TypeOK'
  <2>1. WorkerOK(worker')
    BY <1>11, <1>0, OffType DEF Interrupt, WorkerOK, Off
  <2>2. CountsOK'
    BY <1>11, <1>0, BoundAssumption DEF Interrupt, CountsOK
  <2> QED BY <2>1, <2>2, <1>11, <1>0, <1>a, <1>s, <1>b DEF Interrupt, store
<1>12. ASSUME NEW scope \in PurgeScopes, Purge(scope) PROVE TypeOK'
  <2>1. StoreOK'
    BY <1>12, <1>0 DEF Purge, StoreOK
  <2>2. CountsOK'
    BY <1>12, <1>0, BoundAssumption DEF Purge, CountsOK
  <2> QED BY <2>1, <2>2, <1>12, <1>0, <1>a, <1>w, <1>b DEF Purge
<1>13. ASSUME Retune PROVE TypeOK'
  BY <1>13, <1>0, <1>a, <1>s, <1>w, <1>b, <1>c DEF Retune, store, bounds
<1>14. ASSUME UNCHANGED vars PROVE TypeOK'
  BY <1>14, <1>0, <1>a, <1>s, <1>w, <1>b, <1>c DEF vars
<1> QED
  BY <1>1, <1>2, <1>3, <1>4, <1>5, <1>6, <1>7, <1>8, <1>9, <1>10, <1>11, <1>12,
     <1>13, <1>14 DEF Next, Work, Evaluate, Build, User


(* Type correctness of the evaluation (TypeOK of EvalRun). *)
THEOREM TypeCorrect == Spec => []TypeOK
BY InitType, NextType, PTL DEF Spec

-------------------------------------------------------------------------------
(* Storage writes a row once (INSERT OR IGNORE) and only purges delete.     *)

(* The predictions: a step of EvalRun is an insertion into a free row of    *)
(* eval_predictions, a deletion of all its rows, or leaves it alone.        *)
LEMMA PredictionStep ==
    TypeOK /\ [Next]_vars => [PredictionTable!Next]_predictions
<1> SUFFICES ASSUME TypeOK, [Next]_vars
             PROVE  PredictionTable!Next \/ UNCHANGED predictions
  BY DEF PredictionTable!Next
<1>0. predictions \in [Examples -> Verdicts \cup {NoRow}]
  BY DEF TypeOK
<1>1. ASSUME NEW w \in Workers, PutPrediction(w)
      PROVE  PredictionTable!Next \/ UNCHANGED predictions
  <2>1. worker[w].pc = "put_prediction" /\ At(w) \in Examples
    BY <1>1, AtExample DEF PutPrediction, Running
  <2>2. Fused(w) \in Verdicts
    BY VerdictType DEF Fused
  <2>3. CASE predictions[At(w)] = NoRow
    <3>1. predictions' = [predictions EXCEPT ![At(w)] = Fused(w)]
      BY <1>1, <2>3, <1>0 DEF PutPrediction
    <3> QED BY <3>1, <2>1, <2>2, <2>3 DEF PredictionTable!Next, PredictionTable!Insert
  <2>4. CASE predictions[At(w)] # NoRow
    BY <1>1, <2>4, <1>0 DEF PutPrediction
  <2> QED BY <2>3, <2>4
<1>2. ASSUME NEW scope \in PurgeScopes, Purge(scope)
      PROVE  PredictionTable!Next \/ UNCHANGED predictions
  <2>1. CASE scope \in {"all", "results", "fusion"}
    <3>1. PredictionTable!Delete(Examples)
      BY <1>2, <2>1 DEF Purge, PredictionTable!Delete
    <3> QED BY <3>1 DEF PredictionTable!Next
  <2>2. CASE scope \notin {"all", "results", "fusion"}
    BY <1>2, <2>2 DEF Purge
  <2> QED BY <2>1, <2>2
<1>3. ASSUME NEW w \in Workers,
             \/ Launch(w) \/ GetVerdict(w) \/ GetSignals(w) \/ ComputeSignals(w)
             \/ ComputeRaises(w) \/ PutSignals(w) \/ Interrupt(w)
      PROVE  UNCHANGED predictions
  BY <1>3 DEF Launch, GetVerdict, GetSignals, ComputeSignals, ComputeRaises,
     PutSignals, Interrupt, store
<1>4. ASSUME NEW b \in Builders, BuildStart(b) \/ BuildRead(b) \/ BuildEnd(b)
      PROVE  UNCHANGED predictions
  BY <1>4 DEF BuildStart, BuildRead, BuildEnd, store
<1>5. ASSUME Retune \/ UNCHANGED vars
      PROVE  UNCHANGED predictions
  BY <1>5 DEF Retune, store, vars
<1> QED BY <1>1, <1>2, <1>3, <1>4, <1>5 DEF Next, Work, Evaluate, Build, User

(* The table of predictions implements the write-once table: whoever comes  *)
(* second changes nothing (put_prediction, purge).                          *)
THEOREM PredictionsRefine == Spec => PredictionsWriteOnce
<1>1. Init => PredictionTable!Init
  BY DEF Init, PredictionTable!Init
<1> QED BY <1>1, PredictionStep, TypeCorrect, PTL
        DEF Spec, PredictionsWriteOnce, PredictionTable!Spec

(* The signals: a step of EvalRun is an insertion into a free row of        *)
(* eval_signals, a deletion of all its rows, or leaves it alone.            *)
LEMMA SignalStep ==
    TypeOK /\ [Next]_vars => [SignalTable!Next]_signals
<1> SUFFICES ASSUME TypeOK, [Next]_vars
             PROVE  SignalTable!Next \/ UNCHANGED signals
  BY DEF SignalTable!Next
<1>0. signals \in [Examples -> Signals \cup {NoRow, OldFormat}]
  BY DEF TypeOK
<1>1. ASSUME NEW w \in Workers, PutSignals(w)
      PROVE  SignalTable!Next \/ UNCHANGED signals
  <2>1. worker[w].pc = "put_signals" /\ At(w) \in Examples
    BY <1>1, AtExample DEF PutSignals, Running
  <2>2. worker[w].signals \in Signals
    BY <2>1 DEF TypeOK
  <2>3. CASE signals[At(w)] = NoRow
    <3>1. signals' = [signals EXCEPT ![At(w)] = worker[w].signals]
      BY <1>1, <2>3, <1>0 DEF PutSignals
    <3> QED BY <3>1, <2>1, <2>2, <2>3 DEF SignalTable!Next, SignalTable!Insert
  <2>4. CASE signals[At(w)] # NoRow
    BY <1>1, <2>4, <1>0 DEF PutSignals
  <2> QED BY <2>3, <2>4
<1>2. ASSUME NEW scope \in PurgeScopes, Purge(scope)
      PROVE  SignalTable!Next \/ UNCHANGED signals
  <2>1. CASE scope \in {"all", "signals"}
    <3>1. SignalTable!Delete(Examples)
      BY <1>2, <2>1 DEF Purge, SignalTable!Delete
    <3> QED BY <3>1 DEF SignalTable!Next
  <2>2. CASE scope \notin {"all", "signals"}
    BY <1>2, <2>2 DEF Purge
  <2> QED BY <2>1, <2>2
<1>3. ASSUME NEW w \in Workers,
             \/ Launch(w) \/ GetVerdict(w) \/ GetSignals(w) \/ ComputeSignals(w)
             \/ ComputeRaises(w) \/ PutPrediction(w) \/ Interrupt(w)
      PROVE  UNCHANGED signals
  BY <1>3 DEF Launch, GetVerdict, GetSignals, ComputeSignals, ComputeRaises,
     PutPrediction, Interrupt, store
<1>4. ASSUME NEW b \in Builders, BuildStart(b) \/ BuildRead(b) \/ BuildEnd(b)
      PROVE  UNCHANGED signals
  BY <1>4 DEF BuildStart, BuildRead, BuildEnd, store
<1>5. ASSUME Retune \/ UNCHANGED vars
      PROVE  UNCHANGED signals
  BY <1>5 DEF Retune, store, vars
<1> QED BY <1>1, <1>2, <1>3, <1>4, <1>5 DEF Next, Work, Evaluate, Build, User

(* The table of signals implements the write-once table (put_signals).      *)
THEOREM SignalsRefine == Spec => SignalsWriteOnce
<1>1. Init => SignalTable!Init
  BY DEF Init, SignalTable!Init
<1> QED BY <1>1, SignalStep, TypeCorrect, PTL
        DEF Spec, SignalsWriteOnce, SignalTable!Spec

-------------------------------------------------------------------------------
(* The verdicts in the cache agree with the signals in the cache.           *)

(* ReplayInv, for one process. *)
ReplayFor(w) ==
    Alone(At(w)) =>
        /\ worker[w].pc \in Pcs \ {"off", "get_verdict"} => predictions[At(w)] = NoRow
        /\ worker[w].pc \in {"compute", "put_signals"}
              => signals[At(w)] \in {NoRow, OldFormat}
        /\ worker[w].pc = "put_prediction"
              => signals[At(w)] \in {NoRow, OldFormat, worker[w].signals}

(* ReplayAgrees, for one example. *)
AgreesAt(e) ==
    Alone(e) /\ predictions[e] # NoRow /\ signals[e] \notin {NoRow, OldFormat}
        => \E st \in Settings : predictions[e] = aggregate_verdict(st, signals[e])

(* A running process works on an example of its slice, so two of them are   *)
(* never on an example that only one works on.                              *)
LEMMA NotBoth ==
    ASSUME TypeOK, NEW v \in Workers, NEW w \in Workers, v # w,
           worker[v].pc # "off", worker[w].pc # "off", Alone(At(w))
    PROVE  At(v) # At(w)
<1>1. ASSUME NEW u \in Workers, worker[u].pc # "off" PROVE u \in Slices(At(u))
  <2>1. /\ Slice[u][1] \in Int /\ Slice[u][2] \in Int
        /\ At(u) \in (Slice[u][1] + 1)..Slice[u][2]
    BY <1>1, SliceAssumption, SizeAssumption DEF TypeOK, At
  <2> QED BY <2>1 DEF Slices
<1> QED BY <1>1 DEF Alone

(* What a process does on its own example is nothing to the others. *)
LEMMA OthersUnmoved ==
    ASSUME TypeOK, ReplayInv, NEW w \in Workers, worker[w].pc # "off",
           \A v \in Workers \ {w} : worker'[v] = worker[v],
           \A e \in Examples \ {At(w)} :
              predictions'[e] = predictions[e] /\ signals'[e] = signals[e],
           NEW v \in Workers \ {w}
    PROVE  ReplayFor(v)'
<1>1. At(v)' = At(v) /\ worker'[v] = worker[v]
  BY DEF At
<1>2. CASE worker[v].pc = "off"
  BY <1>1, <1>2 DEF ReplayFor
<1>3. CASE worker[v].pc # "off" /\ Alone(At(v))
  <2>1. At(v) # At(w) /\ At(v) \in Examples
    BY <1>3, NotBoth, AtExample
  <2>2. predictions'[At(v)] = predictions[At(v)] /\ signals'[At(v)] = signals[At(v)]
    BY <2>1
  <2> QED BY <1>1, <1>3, <2>2 DEF ReplayFor, ReplayInv
<1>4. CASE ~Alone(At(v))
  BY <1>1, <1>4 DEF ReplayFor, Alone, Slices
<1> QED BY <1>2, <1>3, <1>4

(* Every step keeps ReplayInv and ReplayAgrees: one case per action.        *)
LEMMA ReplayStep ==
    TypeOK /\ ReplayInv /\ ReplayAgrees /\ [Next]_vars => ReplayInv' /\ ReplayAgrees'
<1> SUFFICES ASSUME TypeOK, ReplayInv, ReplayAgrees, [Next]_vars
             PROVE  ReplayInv' /\ ReplayAgrees'
  OBVIOUS
<1>0. /\ predictions \in [Examples -> Verdicts \cup {NoRow}]
      /\ signals \in [Examples -> Signals \cup {NoRow, OldFormat}]
      /\ DOMAIN worker = Workers
      /\ \A w \in Workers : /\ worker[w].settings \in Settings
                            /\ worker[w].pc \in Pcs
                            /\ DOMAIN worker[w] = {"pc", "at", "settings", "signals"}
                            /\ ReplayFor(w)
      /\ \A e \in Examples : AgreesAt(e)
  BY DEF TypeOK, ReplayInv, ReplayAgrees, ReplayFor, AgreesAt
<1>at. ASSUME NEW w \in Workers, worker[w].pc # "off" PROVE At(w) \in Examples
  BY <1>at, AtExample
<1>each. ASSUME \A v \in Workers : ReplayFor(v)', \A e \in Examples : AgreesAt(e)'
         PROVE  ReplayInv' /\ ReplayAgrees'
  BY <1>each DEF ReplayInv, ReplayAgrees, ReplayFor, AgreesAt
<1>same. ASSUME predictions' = predictions, signals' = signals
         PROVE  \A e \in Examples : AgreesAt(e)'
  BY <1>0, <1>same DEF AgreesAt, Alone, Slices
<1>one. ASSUME NEW w \in Workers, worker[w].pc # "off",
               \A v \in Workers \ {w} : worker'[v] = worker[v],
               \A e \in Examples \ {At(w)} :
                  predictions'[e] = predictions[e] /\ signals'[e] = signals[e],
               ReplayFor(w)', \A e \in Examples : e = At(w) => AgreesAt(e)'
        PROVE  ReplayInv' /\ ReplayAgrees'
  <2>1. \A v \in Workers : ReplayFor(v)'
    BY <1>one, OthersUnmoved
  <2>2. ASSUME NEW e \in Examples PROVE AgreesAt(e)'
    <3>1. CASE e = At(w)
      BY <1>one, <3>1
    <3>2. CASE e # At(w)
      BY <1>one, <3>2, <1>0 DEF AgreesAt, Alone, Slices
    <3> QED BY <3>1, <3>2
  <2> QED BY <2>1, <2>2, <1>each
<1> DEFINE Calm(w) == worker'[w].pc \in {"off", "get_verdict"}
<1>calm. ASSUME NEW w \in Workers, Calm(w) PROVE ReplayFor(w)'
  BY <1>calm DEF ReplayFor
<1>next. ASSUME NEW w \in Workers, NextExample(w, At(w) + 1)
         PROVE  Calm(w) /\ \A v \in Workers \ {w} : worker'[v] = worker[v]
  BY <1>next, <1>0 DEF NextExample, Off
<1> HIDE DEF Calm
<1>1. ASSUME NEW w \in Workers, Launch(w) PROVE ReplayInv' /\ ReplayAgrees'
  <2>1. predictions' = predictions /\ signals' = signals
    BY <1>1 DEF Launch, store
  <2>2. Calm(w) /\ \A v \in Workers \ {w} : worker'[v] = worker[v]
    BY <1>1, <1>0 DEF Launch, Calm
  <2>3. ASSUME NEW v \in Workers PROVE ReplayFor(v)'
    <3>1. CASE v = w
      BY <3>1, <2>2, <1>calm
    <3>2. CASE v # w
      BY <3>2, <2>1, <2>2, <1>0 DEF ReplayFor, Alone, Slices, At
    <3> QED BY <3>1, <3>2
  <2> QED BY <2>1, <2>3, <1>same, <1>each
<1>2. ASSUME NEW w \in Workers, GetVerdict(w) PROVE ReplayInv' /\ ReplayAgrees'
  <2>1. worker[w].pc = "get_verdict" /\ At(w) \in Examples
    BY <1>2, <1>at DEF GetVerdict, Running
  <2>2. predictions' = predictions /\ signals' = signals
    BY <1>2 DEF GetVerdict, store
  <2>3. ReplayFor(w)' /\ \A v \in Workers \ {w} : worker'[v] = worker[v]
    <3>1. CASE predictions[At(w)] = NoRow
      BY <1>2, <2>1, <2>2, <3>1, <1>0 DEF GetVerdict, Goto, ReplayFor, At
    <3>2. CASE predictions[At(w)] # NoRow
      BY <1>2, <3>2, <1>next, <1>calm DEF GetVerdict
    <3> QED BY <3>1, <3>2
  <2> QED BY <2>1, <2>2, <2>3, <1>same, <1>one
<1>3. ASSUME NEW w \in Workers, GetSignals(w) PROVE ReplayInv' /\ ReplayAgrees'
  <2>1. worker[w].pc = "get_signals" /\ At(w) \in Examples
    BY <1>3, <1>at DEF GetSignals, Running
  <2>2. predictions' = predictions /\ signals' = signals
    BY <1>3 DEF GetSignals, store
  <2>3. Alone(At(w)) => predictions[At(w)] = NoRow
    BY <2>1, <1>0 DEF ReplayFor, Pcs
  <2>4. ReplayFor(w)' /\ \A v \in Workers \ {w} : worker'[v] = worker[v]
    <3>1. CASE signals[At(w)] \in {NoRow, OldFormat}
      <4>1. worker' = [worker EXCEPT ![w] = [worker[w] EXCEPT !.pc = "compute"]]
        BY <1>3, <3>1 DEF GetSignals, Goto
      <4>2. At(w)' = At(w) /\ worker'[w].pc = "compute"
        BY <4>1, <1>0 DEF At
      <4> QED BY <4>1, <4>2, <2>2, <2>3, <3>1, <1>0 DEF ReplayFor, Alone, Slices
    <3>2. CASE signals[At(w)] \notin {NoRow, OldFormat}
      <4>1. worker' = [worker EXCEPT ![w] = [worker[w] EXCEPT !.pc = "put_prediction",
                                                !.signals = signals[At(w)]]]
        BY <1>3, <3>2, <1>0 DEF GetSignals
      <4>2. /\ At(w)' = At(w) /\ worker'[w].pc = "put_prediction"
            /\ worker'[w].signals = signals[At(w)]
        BY <4>1, <1>0 DEF At
      <4> QED BY <4>1, <4>2, <2>2, <2>3, <1>0 DEF ReplayFor, Alone, Slices
    <3> QED BY <3>1, <3>2
  <2> QED BY <2>1, <2>2, <2>4, <1>same, <1>one
<1>4. ASSUME NEW w \in Workers, ComputeSignals(w) PROVE ReplayInv' /\ ReplayAgrees'
  <2>1. worker[w].pc = "compute" /\ At(w) \in Examples
    BY <1>4, <1>at DEF ComputeSignals, Running
  <2>2. predictions' = predictions /\ signals' = signals
    BY <1>4 DEF ComputeSignals, store
  <2>3. Alone(At(w)) => /\ predictions[At(w)] = NoRow
                        /\ signals[At(w)] \in {NoRow, OldFormat}
    BY <2>1, <1>0 DEF ReplayFor, Pcs
  <2>4. PICK s \in Signals : worker' = [worker EXCEPT ![w].pc = "put_signals",
                                                      ![w].signals = s]
    BY <1>4 DEF ComputeSignals
  <2>5. /\ At(w)' = At(w) /\ worker'[w].pc = "put_signals"
        /\ \A v \in Workers \ {w} : worker'[v] = worker[v]
    BY <2>4, <1>0 DEF At
  <2>6. ReplayFor(w)'
    BY <2>2, <2>3, <2>5 DEF ReplayFor, Alone, Slices
  <2> QED BY <2>1, <2>2, <2>5, <2>6, <1>same, <1>one
<1>5. ASSUME NEW w \in Workers, ComputeRaises(w) \/ Interrupt(w)
      PROVE  ReplayInv' /\ ReplayAgrees'
  <2>1. worker[w].pc # "off" /\ At(w) \in Examples
    BY <1>5, <1>at DEF ComputeRaises, Interrupt, Running
  <2>2. predictions' = predictions /\ signals' = signals
    BY <1>5 DEF ComputeRaises, Interrupt, store
  <2>3. Calm(w) /\ \A v \in Workers \ {w} : worker'[v] = worker[v]
    BY <1>5, <1>0 DEF ComputeRaises, Interrupt, Calm, Off
  <2> QED BY <2>1, <2>2, <2>3, <1>calm, <1>same, <1>one
<1>6. ASSUME NEW w \in Workers, PutSignals(w) PROVE ReplayInv' /\ ReplayAgrees'
  <2>1. worker[w].pc = "put_signals" /\ At(w) \in Examples
    BY <1>6, <1>at DEF PutSignals, Running
  <2>2. predictions' = predictions
    BY <1>6 DEF PutSignals
  <2>3. Alone(At(w)) => /\ predictions[At(w)] = NoRow
                        /\ signals[At(w)] \in {NoRow, OldFormat}
    BY <2>1, <1>0 DEF ReplayFor, Pcs
  <2>4. worker' = [worker EXCEPT ![w] = [worker[w] EXCEPT !.pc = "put_prediction"]]
    BY <1>6 DEF PutSignals, Goto
  <2>5. /\ At(w)' = At(w) /\ worker'[w].pc = "put_prediction"
        /\ worker'[w].signals = worker[w].signals
        /\ \A v \in Workers \ {w} : worker'[v] = worker[v]
    BY <2>4, <1>0 DEF At
  <2>6. /\ \A e \in Examples \ {At(w)} : signals'[e] = signals[e]
        /\ signals'[At(w)] \in {signals[At(w)], worker[w].signals}
    BY <1>6, <2>1, <1>0 DEF PutSignals
  <2>7. ReplayFor(w)'
    BY <2>2, <2>3, <2>5, <2>6 DEF ReplayFor, Alone, Slices
  <2>8. ASSUME NEW e \in Examples, e = At(w) PROVE AgreesAt(e)'
    BY <2>2, <2>3, <2>8 DEF AgreesAt, Alone, Slices
  <2> QED BY <2>1, <2>2, <2>5, <2>6, <2>7, <2>8, <1>one
<1>7. ASSUME NEW w \in Workers, PutPrediction(w) PROVE ReplayInv' /\ ReplayAgrees'
  <2>1. worker[w].pc = "put_prediction" /\ At(w) \in Examples
    BY <1>7, <1>at DEF PutPrediction, Running
  <2>2. signals' = signals
    BY <1>7 DEF PutPrediction
  <2>3. Alone(At(w)) => /\ predictions[At(w)] = NoRow
                        /\ signals[At(w)] \in {NoRow, OldFormat, worker[w].signals}
    BY <2>1, <1>0 DEF ReplayFor, Pcs
  <2>4. /\ \A e \in Examples \ {At(w)} : predictions'[e] = predictions[e]
        /\ predictions'[At(w)] \in {predictions[At(w)], Fused(w)}
        /\ predictions[At(w)] = NoRow => predictions'[At(w)] = Fused(w)
    BY <1>7, <2>1, <1>0 DEF PutPrediction
  <2>5. ReplayFor(w)' /\ \A v \in Workers \ {w} : worker'[v] = worker[v]
    BY <1>7, <1>next, <1>calm DEF PutPrediction
  <2>6. ASSUME NEW e \in Examples, e = At(w) PROVE AgreesAt(e)'
    <3>1. SUFFICES ASSUME Alone(e), signals[e] \notin {NoRow, OldFormat}
                   PROVE  \E st \in Settings :
                             predictions'[e] = aggregate_verdict(st, signals[e])
      BY <2>2 DEF AgreesAt, Alone, Slices
    <3>2. predictions'[e] = aggregate_verdict(worker[w].settings, signals[e])
      BY <3>1, <2>3, <2>4, <2>6 DEF Fused
    <3> QED BY <3>2, <1>0
  <2>7. ASSUME NEW e \in Examples, e # At(w) PROVE AgreesAt(e)'
    BY <2>2, <2>4, <2>7, <1>0 DEF AgreesAt, Alone, Slices
  <2>8. \A v \in Workers : ReplayFor(v)'
    BY <2>1, <2>2, <2>4, <2>5, OthersUnmoved
  <2> QED BY <2>6, <2>7, <2>8, <1>each
<1>8. ASSUME NEW scope \in PurgeScopes, Purge(scope) PROVE ReplayInv' /\ ReplayAgrees'
  <2>1. /\ worker' = worker
        /\ \A e \in Examples : predictions'[e] \in {predictions[e], NoRow}
        /\ \A e \in Examples : signals'[e] \in {signals[e], NoRow}
    BY <1>8, <1>0 DEF Purge
  <2>2. ASSUME NEW v \in Workers PROVE ReplayFor(v)'
    <3>1. CASE worker[v].pc = "off"
      BY <2>1, <3>1 DEF ReplayFor
    <3>2. CASE worker[v].pc # "off"
      BY <2>1, <3>2, <1>at, <1>0 DEF ReplayFor, Alone, Slices, At
    <3> QED BY <3>1, <3>2
  <2>3. \A e \in Examples : AgreesAt(e)'
    BY <2>1, <1>0 DEF AgreesAt, Alone, Slices
  <2> QED BY <2>2, <2>3, <1>each
<1>9. ASSUME NEW b \in Builders, BuildStart(b) \/ BuildRead(b) \/ BuildEnd(b)
      PROVE  ReplayInv' /\ ReplayAgrees'
  <2>1. worker' = worker /\ predictions' = predictions /\ signals' = signals
    BY <1>9 DEF BuildStart, BuildRead, BuildEnd, store
  <2> QED BY <2>1 DEF ReplayInv, ReplayAgrees, Alone, Slices, At
<1>10. ASSUME Retune \/ UNCHANGED vars PROVE ReplayInv' /\ ReplayAgrees'
  <2>1. worker' = worker /\ predictions' = predictions /\ signals' = signals
    BY <1>10 DEF Retune, vars, store
  <2> QED BY <2>1 DEF ReplayInv, ReplayAgrees, Alone, Slices, At
<1> QED BY <1>1, <1>2, <1>3, <1>4, <1>5, <1>6, <1>7, <1>8, <1>9, <1>10
        DEF Next, Work, Evaluate, Build, User

(* Replaying the fusion on the signals in the cache gives the verdict in    *)
(* the cache, for every example that no two processes work on.              *)
THEOREM ReplayTheorem == Spec => []ReplayAgrees
<1>1. Init => ReplayInv /\ ReplayAgrees
  BY DEF Init, ReplayInv, ReplayAgrees, Off
<1> QED BY <1>1, ReplayStep, TypeCorrect, PTL DEF Spec

-------------------------------------------------------------------------------
(* What the pipeline is called for, when no signals of an older format are  *)
(* in the store.                                                            *)
NoOldRow == \A e \in Examples : signals[e] # OldFormat

(* CostInv, for one example.                                                *)
CostAt(e) == Alone(e) => calls[e] <= interrupts + resets + (IF Kept(e) THEN 1 ELSE 0)

(* A step that leaves the store and the counts alone, and in which nobody   *)
(* forgets signals to be stored, costs nothing.                             *)
LEMMA CostFree ==
    ASSUME TypeOK, CostInv, NoOldRow, UNCHANGED <<signals, interrupts, resets, calls>>,
           \A w \in Workers : worker[w].pc = "put_signals" => worker'[w] = worker[w]
    PROVE  CostInv' /\ NoOldRow'
<1>1. \A e \in Examples : Kept(e) => Kept(e)'
  BY DEF Kept, At
<1>2. \A e \in Examples : calls[e] \in Int /\ interrupts \in Int /\ resets \in Int
  BY DEF TypeOK
<1>3. ASSUME NEW e \in Examples PROVE CostAt(e)'
  BY <1>1, <1>2 DEF CostAt, CostInv, Alone, Slices
<1> QED BY <1>3 DEF CostInv, CostAt, NoOldRow

(* Every step keeps CostInv: one case per action.                           *)
LEMMA CostStep ==
    TypeOK /\ ReplayInv /\ NoOldRow /\ CostInv /\ [Next]_vars => CostInv' /\ NoOldRow'
<1> SUFFICES ASSUME TypeOK, ReplayInv, NoOldRow, CostInv, [Next]_vars
             PROVE  CostInv' /\ NoOldRow'
  OBVIOUS
<1>0. /\ signals \in [Examples -> Signals \cup {NoRow}]
      /\ calls \in [Examples -> Nat] /\ interrupts \in Nat /\ resets \in Nat
      /\ DOMAIN worker = Workers
      /\ \A w \in Workers : /\ DOMAIN worker[w] = {"pc", "at", "settings", "signals"}
                            /\ ReplayFor(w)
      /\ \A e \in Examples : CostAt(e)
  BY DEF TypeOK, ReplayInv, ReplayFor, NoOldRow, CostInv, CostAt
<1>at. ASSUME NEW w \in Workers, worker[w].pc # "off" PROVE At(w) \in Examples
  BY <1>at, AtExample
<1>each. ASSUME \A e \in Examples : CostAt(e)' /\ signals'[e] # OldFormat
         PROVE  CostInv' /\ NoOldRow'
  BY <1>each DEF CostInv, CostAt, NoOldRow
<1>lost. ASSUME NEW w \in Workers, worker[w].pc = "compute", Alone(At(w))
         PROVE  ~Kept(At(w))
  <2>1. signals[At(w)] = NoRow
    BY <1>lost, <1>at, <1>0, AbsenceAssumption DEF ReplayFor
  <2>2. ASSUME NEW v \in Workers, worker[v].pc = "put_signals" PROVE At(v) # At(w)
    <3>1. v # w /\ worker[v].pc # "off" /\ worker[w].pc # "off"
      BY <1>lost, <2>2
    <3> QED BY <3>1, <1>lost, NotBoth
  <2> QED BY <2>1, <2>2 DEF Kept
<1>1. ASSUME NEW w \in Workers, Launch(w) \/ GetVerdict(w) \/ GetSignals(w) \/ PutPrediction(w)
      PROVE  CostInv' /\ NoOldRow'
  <2>1. UNCHANGED <<signals, interrupts, resets, calls>>
    BY <1>1 DEF Launch, GetVerdict, GetSignals, PutPrediction, store, bounds
  <2>2. \A v \in Workers : worker[v].pc = "put_signals" => worker'[v] = worker[v]
    BY <1>1, <1>0 DEF Launch, GetVerdict, GetSignals, PutPrediction, Running, Goto, NextExample
  <2> QED BY <2>1, <2>2, CostFree
<1>2. ASSUME NEW w \in Workers, ComputeSignals(w) PROVE CostInv' /\ NoOldRow'
  <2>1. worker[w].pc = "compute" /\ At(w) \in Examples
    BY <1>2, <1>at DEF ComputeSignals, Running
  <2>2. UNCHANGED <<signals, interrupts, resets>>
    BY <1>2 DEF ComputeSignals, store, bounds
  <2>3. PICK s \in Signals : worker' = [worker EXCEPT ![w].pc = "put_signals",
                                                      ![w].signals = s]
    BY <1>2 DEF ComputeSignals
  <2>4. /\ worker'[w].pc = "put_signals" /\ At(w)' = At(w)
        /\ \A v \in Workers \ {w} : worker'[v] = worker[v]
    BY <2>3, <1>0 DEF At
  <2>6. ASSUME NEW e \in Examples, e # At(w) PROVE CostAt(e)'
    <3>1. calls'[e] = calls[e]
      BY <1>2, <2>1, <2>6, <1>0 DEF ComputeSignals
    <3>2. Kept(e) => Kept(e)'
      BY <2>1, <2>2, <2>4 DEF Kept, At
    <3> QED BY <3>1, <3>2, <2>2, <1>0 DEF CostAt, Alone, Slices
  <2>7. ASSUME NEW e \in Examples, e = At(w) PROVE CostAt(e)'
    <3>1. calls'[At(w)] = calls[At(w)] + 1
      BY <1>2, <2>1, <1>0 DEF ComputeSignals
    <3>2. Alone(At(w)) => calls[At(w)] <= interrupts + resets
      BY <2>1, <1>lost, <1>0 DEF CostAt
    <3>3. Kept(e)'
      BY <2>4, <2>7 DEF Kept
    <3> QED BY <3>1, <3>2, <3>3, <2>1, <2>2, <2>7, <1>0 DEF CostAt, Alone, Slices
  <2>8. ASSUME NEW e \in Examples PROVE CostAt(e)'
    BY <2>6, <2>7
  <2> QED BY <2>2, <2>8, <1>each DEF NoOldRow
<1>3. ASSUME NEW w \in Workers, ComputeRaises(w) PROVE CostInv' /\ NoOldRow'
  <2>1. worker[w].pc = "compute" /\ At(w) \in Examples
    BY <1>3, <1>at DEF ComputeRaises, Running
  <2>2. UNCHANGED <<signals, resets>> /\ interrupts' = interrupts + 1
    BY <1>3 DEF ComputeRaises, store
  <2>3. \A e \in Examples \ {At(w)} : calls'[e] = calls[e]
    BY <1>3, <2>1, <1>0 DEF ComputeRaises
  <2>4. calls'[At(w)] = calls[At(w)] + 1
    BY <1>3, <2>1, <1>0 DEF ComputeRaises
  <2>5. Alone(At(w)) => calls[At(w)] <= interrupts + resets
    BY <2>1, <1>lost, <1>0 DEF CostAt
  <2>6. ASSUME NEW e \in Examples PROVE CostAt(e)'
    <3>1. CASE e = At(w)
      BY <3>1, <2>1, <2>2, <2>4, <2>5, <1>0 DEF CostAt, Alone, Slices
    <3>2. CASE e # At(w)
      BY <3>2, <2>2, <2>3, <1>0 DEF CostAt, Alone, Slices
    <3> QED BY <3>1, <3>2
  <2> QED BY <2>2, <2>6, <1>each DEF NoOldRow
<1>4. ASSUME NEW w \in Workers, PutSignals(w) PROVE CostInv' /\ NoOldRow'
  <2>1. worker[w].pc = "put_signals" /\ At(w) \in Examples
    BY <1>4, <1>at DEF PutSignals, Running
  <2>2. UNCHANGED <<interrupts, resets, calls>>
    BY <1>4 DEF PutSignals, bounds
  <2>3. worker[w].signals \in Signals
    BY <2>1 DEF TypeOK
  <2>4. /\ \A e \in Examples \ {At(w)} : signals'[e] = signals[e]
        /\ signals'[At(w)] \in Signals
    BY <1>4, <2>1, <2>3, <1>0 DEF PutSignals
  <2>5. \A v \in Workers \ {w} : worker'[v] = worker[v]
    BY <1>4, <1>0 DEF PutSignals, Goto
  <2>6. ASSUME NEW e \in Examples PROVE Kept(e) => Kept(e)'
    <3>1. CASE e = At(w)
      BY <3>1, <2>4, AbsenceAssumption DEF Kept
    <3>2. CASE e # At(w)
      BY <3>2, <2>4, <2>5 DEF Kept, At
    <3> QED BY <3>1, <3>2
  <2>7. ASSUME NEW e \in Examples PROVE CostAt(e)'
    BY <2>2, <2>6, <1>0 DEF CostAt, Alone, Slices
  <2> QED BY <2>4, <2>7, <1>each, <1>0, AbsenceAssumption DEF NoOldRow
<1>5. ASSUME NEW w \in Workers, Interrupt(w) PROVE CostInv' /\ NoOldRow'
  <2>1. UNCHANGED <<signals, resets, calls>> /\ interrupts' = interrupts + 1
    BY <1>5 DEF Interrupt, store
  <2>2. ASSUME NEW e \in Examples PROVE CostAt(e)'
    BY <2>1, <1>0 DEF CostAt, Alone, Slices
  <2> QED BY <2>1, <2>2, <1>each DEF NoOldRow
<1>6. ASSUME NEW scope \in PurgeScopes, Purge(scope) PROVE CostInv' /\ NoOldRow'
  <2>1. UNCHANGED <<interrupts, calls, worker>>
    BY <1>6 DEF Purge
  <2>2. CASE scope \in {"all", "signals"}
    <3>1. resets' = resets + 1 /\ signals' = [e \in Examples |-> NoRow]
      BY <1>6, <2>2 DEF Purge
    <3>2. ASSUME NEW e \in Examples PROVE CostAt(e)'
      BY <2>1, <3>1, <1>0 DEF CostAt, Alone, Slices
    <3> QED BY <3>1, <3>2, <1>each, AbsenceAssumption
  <2>3. CASE scope \notin {"all", "signals"}
    <3>1. UNCHANGED <<signals, interrupts, resets, calls>>
      BY <1>6, <2>1, <2>3 DEF Purge
    <3> QED BY <2>1, <3>1, CostFree
  <2> QED BY <2>2, <2>3
<1>7. ASSUME NEW b \in Builders, BuildStart(b) \/ BuildRead(b) \/ BuildEnd(b)
      PROVE  CostInv' /\ NoOldRow'
  <2>1. UNCHANGED <<signals, interrupts, resets, calls, worker>>
    BY <1>7 DEF BuildStart, BuildRead, BuildEnd, store, bounds
  <2> QED BY <2>1, CostFree
<1>8. ASSUME Retune \/ UNCHANGED vars PROVE CostInv' /\ NoOldRow'
  <2>1. UNCHANGED <<signals, interrupts, resets, calls, worker>>
    BY <1>8 DEF Retune, vars, store, bounds
  <2> QED BY <2>1, CostFree
<1> QED BY <1>1, <1>2, <1>3, <1>4, <1>5, <1>6, <1>7, <1>8
        DEF Next, Work, Evaluate, Build, User

(* When no older format is in the store, the pipeline runs once on an       *)
(* example that only one process works on, plus once per interruption and   *)
(* per purge of the signals: a purge of scope "fusion" costs no call.       *)
THEOREM CostTheorem == ASSUME OldRows = {} PROVE Spec => []FusionPurgeIsFree
<1>1. Init => ReplayInv /\ ReplayAgrees /\ NoOldRow /\ CostInv
  BY AbsenceAssumption
     DEF Init, ReplayInv, ReplayAgrees, Off, NoOldRow, CostInv
<1>2. TypeOK /\ CostInv => FusionPurgeIsFree
  BY DEF TypeOK, CostInv, FusionPurgeIsFree
<1> QED BY <1>1, <1>2, ReplayStep, CostStep, TypeCorrect, PTL DEF Spec

-------------------------------------------------------------------------------
(* A matrix is a snapshot, although it is read one verdict at a time.       *)

(* What a builder has read is what the store still holds, as long as no     *)
(* purge ran since it started; and no purge count is ahead of its time.     *)
ReadIsKept ==
    \A b \in Builders :
        /\ builder[b].purges <= purges
        /\ builder[b].purges = purges =>
              \A k \in 1..Len(builder[b].read) :
                  builder[b].read[k] # NoRow => predictions[k] = builder[b].read[k]

(* A step that is not a purge keeps every verdict in the table.             *)
VerdictsKept == \A e \in Examples : predictions[e] # NoRow => predictions'[e] = predictions[e]

LEMMA PredictionsKept ==
    ASSUME TypeOK, NEW w \in Workers, PutPrediction(w)
    PROVE  VerdictsKept
BY AtExample DEF TypeOK, PutPrediction, Running, VerdictsKept

(* The builders that do not move keep what they have read.                  *)
LEMMA ReadKept ==
    ASSUME TypeOK, ReadIsKept, VerdictsKept, UNCHANGED <<builder, purges>>
    PROVE  ReadIsKept'
<1> SUFFICES ASSUME NEW b \in Builders, builder[b].purges = purges,
                    NEW k \in 1..Len(builder[b].read), builder[b].read[k] # NoRow
             PROVE  predictions'[k] = builder[b].read[k]
  BY DEF ReadIsKept
<1>1. predictions[k] = builder[b].read[k]
  BY DEF ReadIsKept
<1>2. k \in Examples
  BY SizeAssumption DEF TypeOK, Examples
<1> QED BY <1>1, <1>2 DEF VerdictsKept

(* One more verdict is read: the one that the table holds now.              *)
LEMMA BuildReadKept ==
    ASSUME TypeOK, ReadIsKept, NEW b \in Builders, BuildRead(b)
    PROVE  ReadIsKept'
<1> DEFINE old == builder[b].read
           new == Append(old, predictions[Len(old) + 1])
<1>1. /\ builder[b].read \in Seq(Verdicts \cup {NoRow})
      /\ predictions[Len(old) + 1] \in Verdicts \cup {NoRow}
  <2>1. old \in Seq(Verdicts \cup {NoRow}) /\ Len(old) < NExamples
    BY DEF TypeOK, BuildRead
  <2>2. Len(old) + 1 \in Examples
    BY <2>1, SizeAssumption DEF Examples
  <2> QED BY <2>1, <2>2 DEF TypeOK
<1>2. /\ builder'[b].read = new /\ builder'[b].purges = builder[b].purges
      /\ \A c \in Builders \ {b} : builder'[c] = builder[c]
      /\ predictions' = predictions /\ purges' = purges
  BY DEF BuildRead, TypeOK, store, bounds
<1>3. \A k \in 1..Len(new) :
         (k \in 1..Len(old) /\ new[k] = old[k]) \/ new[k] = predictions[k]
  BY <1>1
<1> HIDE DEF old, new
<1> SUFFICES ASSUME NEW c \in Builders
             PROVE  /\ builder'[c].purges <= purges'
                    /\ builder'[c].purges = purges' =>
                          \A k \in 1..Len(builder'[c].read) :
                              builder'[c].read[k] # NoRow
                                 => predictions'[k] = builder'[c].read[k]
  BY DEF ReadIsKept
<1>4. CASE c = b
  <2>1. \A k \in 1..Len(old) : builder[b].purges = purges /\ old[k] # NoRow
                                  => predictions[k] = old[k]
    BY DEF ReadIsKept, old
  <2> QED BY <1>2, <1>3, <1>4, <2>1 DEF ReadIsKept
<1>5. CASE c # b
  BY <1>2, <1>5 DEF ReadIsKept
<1> QED BY <1>4, <1>5

(* A builder that starts, or that ends, has read nothing.                   *)
LEMMA BuildResetKept ==
    ASSUME TypeOK, ReadIsKept, NEW b \in Builders, BuildStart(b) \/ BuildEnd(b)
    PROVE  ReadIsKept'
<1>1. /\ builder'[b].read = <<>> /\ builder'[b].purges \in {0, purges}
      /\ \A c \in Builders \ {b} : builder'[c] = builder[c]
      /\ predictions' = predictions /\ purges' = purges /\ purges \in Nat
  BY BoundAssumption DEF BuildStart, BuildEnd, TypeOK, NotBuilding, store, bounds
<1> SUFFICES ASSUME NEW c \in Builders
             PROVE  /\ builder'[c].purges <= purges'
                    /\ builder'[c].purges = purges' =>
                          \A k \in 1..Len(builder'[c].read) :
                              builder'[c].read[k] # NoRow
                                 => predictions'[k] = builder'[c].read[k]
  BY DEF ReadIsKept
<1>2. CASE c = b
  BY <1>1, <1>2
<1>3. CASE c # b
  BY <1>1, <1>3 DEF ReadIsKept
<1> QED BY <1>2, <1>3

LEMMA NextReadKept == TypeOK /\ ReadIsKept /\ [Next]_vars => ReadIsKept'
<1> SUFFICES ASSUME TypeOK, ReadIsKept, [Next]_vars PROVE ReadIsKept'
  OBVIOUS
<1>0. (UNCHANGED predictions) => VerdictsKept
  BY DEF VerdictsKept
<1>1. ASSUME NEW w \in Workers, PutPrediction(w) PROVE ReadIsKept'
  BY <1>1, PredictionsKept, ReadKept DEF PutPrediction, bounds
<1>2. ASSUME NEW w \in Workers,
             \/ Launch(w) \/ GetVerdict(w) \/ GetSignals(w) \/ ComputeSignals(w)
             \/ ComputeRaises(w) \/ PutSignals(w) \/ Interrupt(w)
      PROVE  ReadIsKept'
  BY <1>0, <1>2, ReadKept
     DEF Launch, GetVerdict, GetSignals, ComputeSignals, ComputeRaises, PutSignals,
         Interrupt, store, bounds
<1>3. ASSUME NEW scope \in PurgeScopes, Purge(scope) PROVE ReadIsKept'
  <2>1. /\ purges \in Nat /\ purges' = purges + 1 /\ builder' = builder
        /\ \A b \in Builders : builder[b].purges \in Nat /\ builder[b].purges <= purges
    BY <1>3, BoundAssumption DEF Purge, TypeOK, ReadIsKept
  <2>2. \A b \in Builders : builder'[b].purges <= purges' /\ builder'[b].purges # purges'
    BY <2>1
  <2> QED BY <2>2 DEF ReadIsKept
<1>4. ASSUME NEW b \in Builders, BuildStart(b) \/ BuildRead(b) \/ BuildEnd(b)
      PROVE  ReadIsKept'
  BY <1>4, BuildReadKept, BuildResetKept
<1>5. ASSUME Retune \/ UNCHANGED vars PROVE ReadIsKept'
  BY <1>0, <1>5, ReadKept DEF Retune, store, bounds, vars
<1> QED BY <1>1, <1>2, <1>3, <1>4, <1>5 DEF Next, Work, Evaluate, Build, User

(* A builder that stores its matrix undisturbed has read a verdict of every *)
(* example, and those are the verdicts of the store.                        *)
LEMMA EndIsSnapshot ==
    ASSUME TypeOK, ReadIsKept, NEW b \in Builders, BuildEnd(b), UndisturbedEnd(b)
    PROVE  Snapshot
<1> DEFINE read == builder[b].read
<1>1. read \in Seq(Verdicts \cup {NoRow}) /\ Len(read) = NExamples
  BY DEF TypeOK, BuildEnd
<1>2. \A e \in Examples : read[e] # NoRow
  BY DEF BuildEnd, UndisturbedEnd
<1>3. matrix' = Row(read)
  BY <1>2 DEF BuildEnd
<1>4. \A e \in Examples : read[e] = predictions[e]
  BY <1>1, <1>2 DEF ReadIsKept, UndisturbedEnd, Examples
<1>5. read \in [Examples -> Verdicts \cup {NoRow}]
  BY <1>1, SizeAssumption DEF Examples
<1>6. predictions \in [Examples -> Verdicts \cup {NoRow}]
  BY DEF TypeOK
<1> HIDE DEF read
<1>7. read = predictions
  BY <1>4, <1>5, <1>6
<1> QED BY <1>2, <1>3, <1>4, <1>7 DEF Snapshot, Row

(* Only the end of a builder stores a matrix.                               *)
LEMMA SnapshotStep ==
    TypeOK /\ ReadIsKept /\ [Next]_vars
        => \A b \in Builders : UndisturbedEnd(b) => Snapshot
<1> SUFFICES ASSUME TypeOK, ReadIsKept, [Next]_vars, NEW b \in Builders, UndisturbedEnd(b)
             PROVE  Snapshot
  OBVIOUS
<1>1. builder'[b] # builder[b] /\ matrix' # matrix
  BY DEF UndisturbedEnd
<1>2. ASSUME NEW c \in Builders, BuildEnd(c) PROVE Snapshot
  <2>1. c = b
    BY <1>1, <1>2 DEF BuildEnd, TypeOK
  <2> QED BY <1>2, <2>1, EndIsSnapshot
<1>3. ASSUME NEW c \in Builders, BuildStart(c) \/ BuildRead(c) PROVE FALSE
  BY <1>1, <1>3 DEF BuildStart, BuildRead, store
<1>4. ASSUME \/ \E w \in Workers : Evaluate(w) \/ ComputeRaises(w) \/ Interrupt(w)
             \/ \E scope \in PurgeScopes : Purge(scope)
             \/ Retune \/ UNCHANGED vars
      PROVE  FALSE
  BY <1>1, <1>4
     DEF Evaluate, Launch, GetVerdict, GetSignals, ComputeSignals, ComputeRaises,
         PutSignals, PutPrediction, Interrupt, Purge, Retune, vars
<1> QED BY <1>2, <1>3, <1>4 DEF Next, Work, Build, User

(* "un snapshot du dernier calcul complet": a matrix that is stored counts  *)
(* what the store holds, all of it, when no purge ran since its builder     *)
(* started, however many processes write in between.                        *)
THEOREM SnapshotTheorem == Spec => MatrixIsSnapshot
<1>1. Init => ReadIsKept
  BY DEF Init, ReadIsKept, NotBuilding
<1> QED BY <1>1, NextReadKept, SnapshotStep, TypeCorrect, PTL DEF Spec, MatrixIsSnapshot

-------------------------------------------------------------------------------
(* A launch that is not cut short leaves no hole in its slice.              *)

Evaluated(e) == predictions[e] # NoRow

(* A process has left a verdict on every example it went past.              *)
Behind(w) == Running(w, "off") \/ \A e \in (Slice[w][1] + 1)..(At(w) - 1) : Evaluated(e)

(* No verdict is deleted by this step.                                      *)
NoneLost == \A e \in Examples : Evaluated(e) => Evaluated(e)'

(* A run that ends without an exception or an interruption ends with a      *)
(* verdict in the store for each example of its slice.                      *)
CompleteEnd(w) ==
    ~Running(w, "off") /\ Running(w, "off")' /\ interrupts' = interrupts
        => \A e \in (Slice[w][1] + 1)..Slice[w][2] : Evaluated(e)'

(* A running process is at an example of its slice, which is in the test    *)
(* set.                                                                     *)
LEMMA InSlice ==
    ASSUME TypeOK, NEW w \in Workers, ~Running(w, "off")
    PROVE  /\ At(w) \in (Slice[w][1] + 1)..Slice[w][2]
           /\ Slice[w][1] \in 0..NExamples /\ Slice[w][2] \in 0..NExamples
BY SliceAssumption DEF TypeOK, Running, At

(* The work on an example is over, and its verdict is in the store.         *)
LEMMA ExampleDone ==
    ASSUME TypeOK, NEW w \in Workers, Behind(w), NoneLost, ~Running(w, "off"),
           predictions'[At(w)] # NoRow, NextExample(w, At(w) + 1)
    PROVE  Behind(w)' /\ CompleteEnd(w)
<1>1. DOMAIN worker = Workers /\ DOMAIN worker[w] = {"pc", "at", "settings", "signals"}
  BY DEF TypeOK
<1>2. PICK a \in Int : a = At(w)
  BY InSlice
<1>3. PICK first \in Int, last \in Int : first = Slice[w][1] + 1 /\ last = Slice[w][2]
  BY InSlice
<1>4. a \in first..last /\ first >= 1 /\ last <= NExamples
  BY <1>2, <1>3, InSlice, SizeAssumption
<1>5. ASSUME NEW e \in first..a PROVE Evaluated(e)'
  <2>1. e \in Examples
    BY <1>4, SizeAssumption DEF Examples
  <2>2. CASE e = a
    BY <2>2, <1>2 DEF Evaluated
  <2>3. CASE e # a
    <3>1. e \in first..(a - 1)
      BY <2>3
    <3>2. Evaluated(e)
      BY <3>1, <1>2, <1>3 DEF Behind
    <3> QED BY <2>1, <3>2 DEF NoneLost
  <2> QED BY <2>2, <2>3
<1>6. CASE a + 1 <= last
  <2>1. worker'[w].pc = "get_verdict" /\ worker'[w].at = a + 1
    BY <1>1, <1>2, <1>3, <1>6 DEF NextExample
  <2>2. ~Running(w, "off")'
    BY <2>1 DEF Running
  <2>3. \A e \in first..((a + 1) - 1) : Evaluated(e)'
    BY <1>5
  <2>4. Behind(w)'
    BY <1>3, <2>1, <2>3 DEF Behind, At
  <2> QED BY <2>2, <2>4 DEF CompleteEnd
<1>7. CASE ~(a + 1 <= last)
  <2>1. Running(w, "off")'
    BY <1>1, <1>2, <1>3, <1>7 DEF NextExample, Running, Off
  <2>2. \A e \in first..last : Evaluated(e)'
    BY <1>4, <1>5, <1>7
  <2> QED BY <1>3, <2>1, <2>2 DEF Behind, CompleteEnd
<1> QED BY <1>6, <1>7

(* A step that leaves process w at its example, or not running.             *)
LEMMA StillBehind ==
    ASSUME TypeOK, NEW w \in Workers, Behind(w), NoneLost,
           worker'[w].at = worker[w].at,
           worker'[w].pc = "off" <=> worker[w].pc = "off"
    PROVE  Behind(w)' /\ CompleteEnd(w)
<1>1. ASSUME ~Running(w, "off") PROVE Behind(w)'
  <2>0. PICK a \in Int : a = At(w)
    BY <1>1, InSlice
  <2>1. a = At(w) /\ a = worker'[w].at
    BY <2>0 DEF At
  <2>2. PICK first \in Int : first = Slice[w][1] + 1
    BY <1>1, InSlice
  <2>3. first >= 1 /\ a <= NExamples
    BY <1>1, <2>0, <2>2, InSlice, SizeAssumption
  <2>4. ASSUME NEW e \in first..(a - 1) PROVE Evaluated(e)'
    <3>1. e \in Examples
      BY <2>3, SizeAssumption DEF Examples
    <3>2. Evaluated(e)
      BY <1>1, <2>1, <2>2 DEF Behind
    <3> QED BY <3>1, <3>2 DEF NoneLost
  <2> QED BY <2>1, <2>2, <2>4 DEF Behind, At
<1>2. Running(w, "off")' <=> Running(w, "off")
  BY DEF Running
<1>3. Behind(w)'
  BY <1>1, <1>2 DEF Behind
<1> QED BY <1>2, <1>3 DEF CompleteEnd

(* One step of the system, when it deletes no verdict.                      *)
LEMMA BehindStep ==
    ASSUME TypeOK, NEW w \in Workers, Behind(w), NoneLost, [Next]_vars
    PROVE  Behind(w)' /\ CompleteEnd(w)
<1>0. /\ DOMAIN worker = Workers
      /\ \A v \in Workers : DOMAIN worker[v] = {"pc", "at", "settings", "signals"}
  BY DEF TypeOK
<1>o. ASSUME worker'[w] = worker[w] PROVE Behind(w)' /\ CompleteEnd(w)
  BY <1>o, StillBehind
<1>1. ASSUME NEW v \in Workers, v # w, Evaluate(v) \/ ComputeRaises(v) \/ Interrupt(v)
      PROVE  worker'[w] = worker[w]
  BY <1>1, <1>0
     DEF Evaluate, Launch, GetVerdict, GetSignals, ComputeSignals, PutSignals,
         PutPrediction, ComputeRaises, Interrupt, Goto, NextExample
<1>2. ASSUME Launch(w) PROVE Behind(w)' /\ CompleteEnd(w)
  <2>1. worker'[w].at = Slice[w][1] + 1 /\ worker[w].pc = "off"
    BY <1>2, <1>0 DEF Launch, Running
  <2>2. \A e \in (Slice[w][1] + 1)..((Slice[w][1] + 1) - 1) : FALSE
    BY SliceAssumption
  <2>3. Behind(w)'
    BY <2>1, <2>2 DEF Behind, At
  <2> QED BY <2>1, <2>3 DEF CompleteEnd, Running
<1>3. ASSUME GetVerdict(w) PROVE Behind(w)' /\ CompleteEnd(w)
  <2>1. worker[w].pc = "get_verdict" /\ predictions' = predictions
    BY <1>3 DEF GetVerdict, Running, store
  <2>2. CASE predictions[At(w)] # NoRow
    <3>1. NextExample(w, At(w) + 1)
      BY <1>3, <2>2 DEF GetVerdict
    <3> QED BY <2>1, <2>2, <3>1, ExampleDone DEF Running
  <2>3. CASE predictions[At(w)] = NoRow
    <3>1. worker'[w] = [worker[w] EXCEPT !.pc = "get_signals"]
      BY <1>3, <2>3, <1>0 DEF GetVerdict, Goto
    <3>2. worker'[w].pc = "get_signals" /\ worker'[w].at = worker[w].at
      BY <3>1, <1>0
    <3> QED BY <2>1, <3>2, StillBehind
  <2> QED BY <2>2, <2>3
<1>4. ASSUME GetSignals(w) \/ ComputeSignals(w) \/ PutSignals(w)
      PROVE  Behind(w)' /\ CompleteEnd(w)
  <2>1. worker[w].pc \in {"get_signals", "compute", "put_signals"}
    BY <1>4 DEF GetSignals, ComputeSignals, PutSignals, Running
  <2>2. /\ worker'[w].pc \in {"compute", "put_signals", "put_prediction"}
        /\ worker'[w].at = worker[w].at
    BY <1>4, <1>0 DEF GetSignals, ComputeSignals, PutSignals, Goto
  <2> QED BY <2>1, <2>2, StillBehind
<1>5. ASSUME PutPrediction(w) PROVE Behind(w)' /\ CompleteEnd(w)
  <2>1. /\ worker[w].pc = "put_prediction"
        /\ NextExample(w, At(w) + 1)
    BY <1>5 DEF PutPrediction, Running
  <2>2. At(w) \in Examples
    BY <2>1, AtExample
  <2>3. Fused(w) # NoRow
    BY VerdictType, AbsenceAssumption DEF Fused
  <2>4. predictions'[At(w)] # NoRow
    BY <1>5, <2>2, <2>3 DEF PutPrediction, TypeOK
  <2> QED BY <2>1, <2>4, ExampleDone DEF Running
<1>6. ASSUME ComputeRaises(w) \/ Interrupt(w) PROVE Behind(w)' /\ CompleteEnd(w)
  <2>1. worker'[w].pc = "off"
    BY <1>6, <1>0 DEF ComputeRaises, Interrupt, Off
  <2>2. interrupts' = interrupts + 1 /\ interrupts \in Int
    BY <1>6, BoundAssumption DEF ComputeRaises, Interrupt, TypeOK
  <2>3. interrupts' # interrupts
    BY <2>2
  <2> QED BY <2>1, <2>3 DEF Behind, CompleteEnd, Running
<1>7. ASSUME \/ \E b \in Builders : BuildStart(b) \/ BuildRead(b) \/ BuildEnd(b)
             \/ \E scope \in PurgeScopes : Purge(scope)
             \/ Retune \/ UNCHANGED vars
      PROVE  worker'[w] = worker[w]
  BY <1>7 DEF BuildStart, BuildRead, BuildEnd, Purge, Retune, vars
<1>8. ASSUME Evaluate(w) PROVE Behind(w)' /\ CompleteEnd(w)
  BY <1>2, <1>3, <1>4, <1>5, <1>8 DEF Evaluate
<1>9. ASSUME NEW v \in Workers, Evaluate(v) \/ ComputeRaises(v) \/ Interrupt(v)
      PROVE  Behind(w)' /\ CompleteEnd(w)
  <2>1. CASE v = w
    BY <1>9, <2>1, <1>6, <1>8
  <2>2. CASE v # w
    BY <1>9, <2>2, <1>1, <1>o
  <2> QED BY <2>1, <2>2
<1>10. ASSUME Next PROVE \/ \E v \in Workers :
                                Evaluate(v) \/ ComputeRaises(v) \/ Interrupt(v)
                         \/ worker'[w] = worker[w]
  BY <1>10, <1>7 DEF Next, Work, Build, User
<1>11. CASE Next
  BY <1>9, <1>10, <1>11, <1>o
<1>12. CASE UNCHANGED vars
  BY <1>7, <1>12, <1>o
<1> QED BY <1>11, <1>12

(* `evaluate_model` skips only what has a verdict, and nobody but a purge   *)
(* takes one away: from a moment when w is not running, as long as no       *)
(* verdict is deleted, each of its runs that is not cut short ends with     *)
(* every example of its slice in the store, whatever other processes,       *)
(* purges of signals or of matrices and changes of the settings do in the   *)
(* meantime, so that `evaluate_model_matrix` then finds them all. The       *)
(* conclusion is about single steps: what happens after one has no bearing  *)
(* on it, and the hypothesis is only used up to it.                         *)
THEOREM EvaluationIsComplete ==
    ASSUME NEW w \in Workers
    PROVE  Spec => [](Running(w, "off") /\ [][NoneLost]_vars => [][CompleteEnd(w)]_vars)
<1>1. Running(w, "off") => Behind(w)
  BY DEF Behind
<1>2. TypeOK /\ Behind(w) /\ [Next]_vars /\ [NoneLost]_vars => Behind(w)' /\ CompleteEnd(w)
  <2>1. UNCHANGED vars => NoneLost
    BY DEF vars, NoneLost, Evaluated
  <2> QED BY <2>1, BehindStep
<1> QED BY <1>1, <1>2, TypeCorrect, PTL DEF Spec
===============================================================================
