---------------------------- MODULE DatasetsProofs ----------------------------
(***************************************************************************)
(* NoLeak for every number of processes, every content of the datasets and  *)
(* every permutation. A split depends on the lines read and on the ratio    *)
(* only, and the test part of a larger ratio is inside the one of a smaller *)
(* ratio; the invariant carries, for each place where a split or a trained  *)
(* baseline is kept (a process, the cache of the service, the file, the     *)
(* results), the lines and the ratio that it comes from. CutOnlyByKill is   *)
(* inductive by itself, given these types. CoverageIsExact needs the types  *)
(* only: it is what the report computes from any test part, and the loop    *)
(* that prints the ranges is followed step by step.                         *)
(***************************************************************************)
EXTENDS Datasets, ListsProofs, SequenceTheorems

Loads == [KNOWN_DATASETS -> Seq(AllLines)]
Fits == [questions : SUBSET AllQuestions, loaded : Loads, ratio : Int]
Splits == [known : BOOLEAN, loaded : Loads, tested : SUBSET AllQuestions]
ActorStates == [at : Steps, call : Calls \cup {NoCall},
                todo : SUBSET KNOWN_DATASETS, loaded : Loads,
                fit : Fits, split : Splits]

(* Every component keeps its shape; a process at work has a call, and a      *)
(* training looks at no baseline and no cache.                              *)
Typed ==
    /\ saved \in [state : {"absent", "cut", "saved"}, fit : Fits]
    /\ actor \in [Actors -> ActorStates]
    /\ cache \in [Keys -> Splits]
    /\ \A a \in Actors : ~At(a, "idle") => actor[a].call \in Calls
    /\ \A a \in Actors : At(a, "model") \/ At(a, "cache")
                             => actor[a].call.kind # "train"
    /\ \A e \in measured : e.fit \in Fits /\ e.loaded \in Loads /\ e.ratio \in Ratios

Unseen(f) ==
    \/ f.questions = {}
    \/ f.ratio \in Ratios /\ f.questions \cap TestQuestions(f.loaded, f.ratio) = {}

Traced ==
    /\ Unseen(saved.fit)
    /\ \A a \in Actors : Unseen(actor[a].fit)
    /\ \A a \in Actors : At(a, "use") =>
          actor[a].split.tested =
             TestQuestions(actor[a].split.loaded, actor[a].call.ratio)
    /\ \A k \in Keys : cache[k].known =>
          cache[k].tested = TestQuestions(cache[k].loaded, k[2])
    /\ \A e \in measured : /\ Unseen(e.fit)
                           /\ e.tested = TestQuestions(e.loaded, e.ratio)

IInv == Typed /\ Traced

-------------------------------------------------------------------------------
LEMMA QuestionsType ==
    ASSUME NEW loaded \in Loads
    PROVE  Questions(loaded) \subseteq AllQuestions
  BY DEF Loads, Questions, AllQuestions, ToSet

(* The test part only grows when the ratio decreases. *)
LEMMA NestedTests ==
    ASSUME NEW loaded \in Loads, NEW r \in Ratios, NEW t \in Ratios, r <= t
    PROVE  TestQuestions(loaded, t) \subseteq TestQuestions(loaded, r)
<1> DEFINE Q == Questions(loaded)
           n == Cardinality(Q)
<1>1. n \in Sizes /\ n \in Nat
  BY QuestionsType, LinesAssumption, FS_Subset, FS_CardinalityType DEF Sizes
<1>2. n - TrainSize(n, t) <= n - TrainSize(n, r)
  <2>1. /\ TrainSize(n, r) \in 0..n
        /\ TrainSize(n, t) \in 0..n
        /\ TrainSize(n, r) <= TrainSize(n, t)
    BY <1>1, TrainSizeAssumption
  <2> QED BY <1>1, <2>1
<1>3. n - TrainSize(n, t) \in Int /\ n - TrainSize(n, r) \in Int
  BY <1>1, TrainSizeAssumption
<1>4. 1..(n - TrainSize(n, t)) \subseteq 1..(n - TrainSize(n, r))
  BY <1>2, <1>3
<1> QED BY <1>4 DEF TestQuestions

LEMMA SampledSubset ==
    ASSUME NEW E, NEW s, NEW X \in Sampled(E, s)
    PROVE  X \subseteq E
<1>0. PICK F \in kSubset(Drawn(E, s), Side(E, s, FALSE)) :
            X \in {T \cup F : T \in kSubset(Drawn(E, s), Side(E, s, TRUE))}
  BY DEF Sampled
<1>1. PICK T \in kSubset(Drawn(E, s), Side(E, s, TRUE)) : X = T \cup F
  BY <1>0
<1>2. T \subseteq Side(E, s, TRUE) /\ F \subseteq Side(E, s, FALSE)
  BY DEF kSubset
<1> QED BY <1>1, <1>2 DEF Side

LEMMA DamagedType == Damaged \in AllLines
<1> HIDE DEF Damaged
<1> QED BY Zenon DEF AllLines

LEMMA NothingType == Nothing \in Loads
<1>1. <<>> \in Seq(AllLines)
  OBVIOUS
<1> QED BY <1>1 DEF Nothing, Loads

LEMMA RestType == Rest \in ActorStates /\ Unseen(Rest.fit)
<1>1. NoFit \in Fits
  BY NothingType DEF NoFit, Fits
<1>2. NoSplit \in Splits
  BY NothingType DEF NoSplit, Splits
<1>3. Rest.fit.questions = {}
  BY DEF Rest, NoFit
<1>4. Rest \in ActorStates
  <2>1. Rest.at \in Steps
    BY DEF Rest, Steps
  <2>2. Rest.call \in Calls \cup {NoCall}
    BY DEF Rest
  <2>3. Rest.todo \in SUBSET KNOWN_DATASETS
    BY DEF Rest
  <2>4. Rest.loaded \in Loads /\ Rest.fit \in Fits /\ Rest.split \in Splits
    BY <1>1, <1>2, NothingType DEF Rest
  <2> QED BY <2>1, <2>2, <2>3, <2>4 DEF Rest, ActorStates
<1> QED BY <1>3, <1>4 DEF Unseen

-------------------------------------------------------------------------------
LEMMA InitIInv == Init => IInv
<1> SUFFICES ASSUME Init PROVE IInv
  OBVIOUS
<1> USE DEF Init
<1>1. NoFit \in Fits /\ NoSplit \in Splits
  BY NothingType DEF NoFit, NoSplit, Fits, Splits
<1>2. Unseen(NoFit) /\ ~NoSplit.known
  BY DEF Unseen, NoFit, NoSplit
<1>3. \A a \in Actors : actor[a] = Rest /\ Rest.at = "idle"
  BY DEF Rest
<1>4. \A k \in Keys : cache[k] = NoSplit
  OBVIOUS
<1>5. Typed
  <2>1. saved \in [state : {"absent", "cut", "saved"}, fit : Fits]
    BY <1>1
  <2>2. actor \in [Actors -> ActorStates]
    BY RestType
  <2>3. cache \in [Keys -> Splits]
    BY <1>1
  <2> QED BY <2>1, <2>2, <2>3, <1>3 DEF Typed, At
<1>6. Traced
  BY <1>2, <1>3, <1>4, RestType DEF Traced, At
<1> QED BY <1>5, <1>6 DEF IInv

(* A process goes on, and leaves everything that others read as it was. *)
LEMMA ActorStep ==
    ASSUME IInv, NEW a \in Actors, NEW v \in ActorStates,
           actor' = [actor EXCEPT ![a] = v],
           UNCHANGED <<saved, cache, measured>>,
           Unseen(v.fit),
           v.at # "idle" => v.call \in Calls,
           v.at \in {"model", "cache"} => v.call.kind # "train",
           v.at = "use" => v.split.tested =
                              TestQuestions(v.split.loaded, v.call.ratio)
    PROVE  IInv'
<1>1. \A b \in Actors : actor'[b] = IF b = a THEN v ELSE actor[b]
  BY DEF IInv, Typed
<1>2. Typed'
  <2>1. actor' \in [Actors -> ActorStates]
    BY DEF IInv, Typed
  <2>2. \A b \in Actors : ~At(b, "idle")' => (actor[b].call \in Calls)'
    BY <1>1 DEF IInv, Typed, At
  <2>3. \A b \in Actors : At(b, "model")' \/ At(b, "cache")'
                             => (actor[b].call.kind # "train")'
    BY <1>1 DEF IInv, Typed, At
  <2> QED BY <2>1, <2>2, <2>3 DEF IInv, Typed
<1>3. Traced'
  <2>1. \A b \in Actors : Unseen(actor[b].fit)'
    BY <1>1 DEF IInv, Traced, Unseen
  <2>2. \A b \in Actors : At(b, "use")' =>
           (actor[b].split.tested =
              TestQuestions(actor[b].split.loaded, actor[b].call.ratio))'
    BY <1>1 DEF IInv, Traced, At
  <2> QED BY <2>1, <2>2 DEF IInv, Traced, Unseen
<1> QED BY <1>2, <1>3 DEF IInv

LEMMA RaiseStep ==
    ASSUME IInv, NEW a \in Actors, Raise(a), UNCHANGED <<saved, cache, measured>>
    PROVE  IInv'
<1>1. Rest.at = "idle"
  BY DEF Rest
<1> QED BY <1>1, RestType, ActorStep DEF Raise

(* A process that only moves keeps what it holds; it is not yet at "use". *)
LEMMA GotoStep ==
    ASSUME IInv, NEW a \in Actors, NEW at \in Steps \ {"model", "cache", "use"},
           ~At(a, "idle"), Goto(a, at), UNCHANGED <<saved, cache, measured>>
    PROVE  IInv'
<1> DEFINE v == [actor[a] EXCEPT !.at = at]
<1>1. actor[a] \in ActorStates /\ actor[a].call \in Calls /\ Unseen(actor[a].fit)
  BY DEF IInv, Typed, Traced
<1>2. v \in ActorStates /\ v.at = at /\ v.fit = actor[a].fit /\ v.call = actor[a].call
  BY <1>1 DEF ActorStates
<1>3. actor' = [actor EXCEPT ![a] = v]
  BY DEF Goto
<1> HIDE DEF v
<1> QED BY <1>1, <1>2, <1>3, ActorStep

LEMMA AskStep ==
    ASSUME IInv, NEW a \in Actors, NEW c \in Calls, Ask(a, c)
    PROVE  IInv'
<1> DEFINE at == CASE c.kind = "train"    -> "exists"
                   [] c.kind = "baseline" -> "model"
                   [] c.kind = "coverage" -> "cache"
           v == [Rest EXCEPT !.at = at, !.call = c, !.todo = c.datasets]
<1>1. c.kind \in {"train", "baseline", "coverage"}
  BY DEF Calls
<1>2. c.datasets \in SUBSET KNOWN_DATASETS
  BY SettingsAssumption DEF Calls
<1>3. at \in Steps \ {"use"} /\ (at \in {"model", "cache"} => c.kind # "train")
  BY <1>1 DEF Steps
<1> HIDE DEF at
<1>4. v \in ActorStates /\ v.at = at /\ v.call = c /\ v.fit = Rest.fit
  BY RestType, <1>2, <1>3 DEF ActorStates
<1>5. actor' = [actor EXCEPT ![a] = v] /\ UNCHANGED <<saved, cache, measured>>
  BY DEF Ask, at
<1> HIDE DEF v
<1> QED BY <1>3, <1>4, <1>5, RestType, ActorStep

LEMMA LoadModelStep ==
    ASSUME IInv, NEW a \in Actors, LoadModel(a)
    PROVE  IInv'
<1>1. CASE saved.state = "saved"
  <2> DEFINE v == [actor[a] EXCEPT !.at = "cache", !.fit = saved.fit]
  <2>1. actor[a] \in ActorStates /\ saved.fit \in Fits /\ Unseen(saved.fit)
    BY DEF IInv, Typed, Traced
  <2>2. actor[a].call \in Calls
    BY DEF IInv, Typed, LoadModel, At
  <2>2a. actor[a].call.kind # "train"
    BY DEF IInv, Typed, LoadModel
  <2>3. /\ v \in ActorStates /\ v.at = "cache"
        /\ v.fit = saved.fit /\ v.call = actor[a].call
    BY <2>1 DEF ActorStates, Steps
  <2>4. actor' = [actor EXCEPT ![a] = v] /\ UNCHANGED <<saved, cache, measured>>
    BY <1>1, <2>1 DEF LoadModel, IInv, Typed, ActorStates
  <2> HIDE DEF v
  <2> QED BY <2>1, <2>2, <2>3, <2>4, <2>2a, ActorStep
<1>2. CASE saved.state # "saved"
  BY <1>2, RaiseStep DEF LoadModel
<1> QED BY <1>1, <1>2

LEMMA KeyType ==
    ASSUME NEW c \in Calls, c.kind # "train"
    PROVE  Key(c) \in Keys /\ Key(c)[2] = c.ratio
  BY DEF Key, Keys, Calls

LEMMA LookupStep ==
    ASSUME IInv, NEW a \in Actors, Lookup(a)
    PROVE  IInv'
<1> DEFINE hit == cache[Key(actor[a].call)]
<1>0. actor[a] \in ActorStates /\ Unseen(actor[a].fit) /\ actor[a].call \in Calls
  BY DEF IInv, Typed, Traced, Lookup, At
<1>0a. actor[a].call.kind # "train"
  BY DEF IInv, Typed, Lookup
<1>1. CASE a \in Threads /\ hit.known
  <2> DEFINE v == [actor[a] EXCEPT !.at = "use", !.split = hit]
  <2>1. hit \in Splits /\ hit.tested = TestQuestions(hit.loaded, actor[a].call.ratio)
    BY <1>0, <1>1, <1>0a, KeyType DEF IInv, Typed, Traced
  <2>2. /\ v \in ActorStates /\ v.at = "use" /\ v.split = hit
        /\ v.fit = actor[a].fit /\ v.call = actor[a].call
    BY <1>0, <2>1 DEF ActorStates, Steps
  <2>3. actor' = [actor EXCEPT ![a] = v] /\ UNCHANGED <<saved, cache, measured>>
    BY <1>1 DEF Lookup, IInv, Typed
  <2> HIDE DEF v, hit
  <2> QED BY <1>0, <2>1, <2>2, <2>3, ActorStep
<1>2. CASE ~(a \in Threads /\ hit.known)
  <2>1. Goto(a, "exists") /\ UNCHANGED <<saved, cache, measured>>
    BY <1>2 DEF Lookup
  <2> QED BY <2>1, GotoStep DEF Lookup, At, Steps
<1> QED BY <1>1, <1>2

LEMMA ReadStep ==
    ASSUME IInv, NEW a \in Actors, Read(a)
    PROVE  IInv'
<1> DEFINE s == Source(a)
<1>0. actor[a] \in ActorStates /\ Unseen(actor[a].fit) /\ actor[a].call \in Calls
  BY DEF IInv, Typed, Traced, Read, At
<1>1. s \in KNOWN_DATASETS
  BY DEF Source, Start, KNOWN_DATASETS
<1>2. UNCHANGED <<saved, cache, measured>>
  BY DEF Read
<1>3. CASE Raise(a)
  BY <1>2, <1>3, RaiseStep
<1>4. CASE \E k \in 0..Len(Lines[s]) : \E lines \in Readings(s, k) :
              actor' = [actor EXCEPT ![a].at = "exists",
                                     ![a].todo = @ \ {s},
                                     ![a].loaded[s] = lines]
  <2>1. PICK k \in 0..Len(Lines[s]) : \E lines \in Readings(s, k) :
              actor' = [actor EXCEPT ![a].at = "exists",
                                     ![a].todo = @ \ {s},
                                     ![a].loaded[s] = lines]
    BY <1>4
  <2>2. PICK lines \in Readings(s, k) :
              actor' = [actor EXCEPT ![a].at = "exists",
                                     ![a].todo = @ \ {s},
                                     ![a].loaded[s] = lines]
    BY <2>1
  <2> HIDE DEF s
  <2>3. Lines[s] \in Seq(AllLines)
    BY <1>1, LinesAssumption DEF AllLines
  <2>4. SubSeq(Lines[s], 1, k) \in Seq(AllLines)
    <3> HIDE DEF AllLines
    <3> QED BY <2>3, SubSeqProperties
  <2>5. lines \in Seq(AllLines)
    <3> QED BY <2>4, DamagedType, AppendProperties DEF Readings
  <2> DEFINE v == [actor[a] EXCEPT !.at = "exists", !.todo = @ \ {s},
                                   !.loaded[s] = lines]
  <2>6. [actor[a].loaded EXCEPT ![s] = lines] \in Loads
    BY <1>0, <1>1, <2>5 DEF ActorStates, Loads
  <2>7. v = [actor[a] EXCEPT !.at = "exists", !.todo = actor[a].todo \ {s},
                             !.loaded = [actor[a].loaded EXCEPT ![s] = lines]]
    BY <1>0 DEF ActorStates
  <2>8. /\ v \in ActorStates /\ v.at = "exists"
        /\ v.fit = actor[a].fit /\ v.call = actor[a].call
    BY <1>0, <2>6, <2>7 DEF ActorStates, Steps
  <2>9. actor' = [actor EXCEPT ![a] = v]
    BY <2>2 DEF IInv, Typed
  <2> HIDE DEF v
  <2> QED BY <1>0, <1>2, <2>8, <2>9, ActorStep
<1> QED BY <1>3, <1>4 DEF Read

LEMMA SplitTestStep ==
    ASSUME IInv, NEW a \in Actors, SplitTest(a)
    PROVE  IInv'
<1> DEFINE key  == Key(actor[a].call)
           made == [known |-> TRUE, loaded |-> actor[a].loaded,
                    tested |-> TestQuestions(actor[a].loaded, actor[a].call.ratio)]
           v    == [actor[a] EXCEPT !.at = "use", !.split = made]
<1>1. actor[a] \in ActorStates /\ Unseen(actor[a].fit) /\ actor[a].call \in Calls
  BY DEF IInv, Typed, Traced, SplitTest, At
<1>2. key \in Keys /\ key[2] = actor[a].call.ratio
  BY <1>1, KeyType DEF SplitTest
<1>3. actor[a].loaded \in Loads
  BY <1>1 DEF ActorStates
<1>4. TestQuestions(actor[a].loaded, actor[a].call.ratio) \subseteq AllQuestions
  BY <1>3, QuestionsType DEF TestQuestions
<1>5. made \in Splits
  BY <1>3, <1>4 DEF Splits
<1>6. made.loaded = actor[a].loaded
      /\ made.tested = TestQuestions(made.loaded, actor[a].call.ratio)
  OBVIOUS
<1>7. /\ actor' = [actor EXCEPT ![a] = v]
      /\ cache' \in {cache, [cache EXCEPT ![key] = made]}
      /\ UNCHANGED <<saved, measured>>
  BY DEF SplitTest, IInv, Typed
<1> HIDE DEF made, key
<1>8. /\ v \in ActorStates /\ v.at = "use" /\ v.split = made
      /\ v.fit = actor[a].fit /\ v.call = actor[a].call
  BY <1>1, <1>5 DEF ActorStates, Steps
<1> HIDE DEF v
<1>9. \A b \in Actors : actor'[b] = IF b = a THEN v ELSE actor[b]
  BY <1>7 DEF IInv, Typed
<1>10. \A k \in Keys : cache'[k] \in {cache[k]} \cup (IF k = key THEN {made} ELSE {})
  BY <1>7 DEF IInv, Typed
<1>11. Typed'
  <2>1. actor' \in [Actors -> ActorStates]
    BY <1>7, <1>8 DEF IInv, Typed
  <2>2. cache' \in [Keys -> Splits]
    BY <1>5, <1>7 DEF IInv, Typed
  <2>3. \A b \in Actors : ~At(b, "idle")' => (actor[b].call \in Calls)'
    BY <1>1, <1>8, <1>9 DEF IInv, Typed, At
  <2>4. \A b \in Actors : At(b, "model")' \/ At(b, "cache")'
                             => (actor[b].call.kind # "train")'
    BY <1>8, <1>9 DEF IInv, Typed, At
  <2> QED BY <1>7, <2>1, <2>2, <2>3, <2>4 DEF IInv, Typed
<1>12. Traced'
  <2>1. \A b \in Actors : Unseen(actor[b].fit)'
    BY <1>1, <1>8, <1>9 DEF IInv, Traced, Unseen
  <2>2. \A b \in Actors : At(b, "use")' =>
           (actor[b].split.tested =
              TestQuestions(actor[b].split.loaded, actor[b].call.ratio))'
    BY <1>6, <1>8, <1>9 DEF IInv, Traced, At
  <2>3. \A k \in Keys : cache'[k].known =>
           cache'[k].tested = TestQuestions(cache'[k].loaded, k[2])
    BY <1>2, <1>6, <1>10 DEF IInv, Traced
  <2> QED BY <1>7, <2>1, <2>2, <2>3 DEF IInv, Traced, Unseen
<1> QED BY <1>11, <1>12 DEF IInv

(* What a training learns avoids the test part of its own split. *)
LEMMA TrainStep ==
    ASSUME IInv, NEW a \in Actors, Train(a)
    PROVE  IInv'
<1> DEFINE L == actor[a].loaded
           r == actor[a].call.ratio
           E == TrainExamples(L, r)
<1>1. actor[a] \in ActorStates /\ actor[a].call \in Calls
  BY DEF IInv, Typed, Train, At
<1>2. L \in Loads /\ r \in Ratios /\ r \in Int
  BY <1>1, RatiosAssumption DEF ActorStates, Calls
<1>3. PICK h \in Sampled(E, "halueval") : \E t \in Sampled(E, "truthfulqa") :
          IF h \cup t = {}
          THEN Raise(a) /\ UNCHANGED saved
          ELSE /\ actor' = [actor EXCEPT ![a].at = "dump", ![a].fit =
                     [questions |-> {q \in Questions(L) :
                                        \E ex \in h \cup t : ex.question = q},
                      loaded |-> L, ratio |-> r]]
               /\ saved' = [state |-> "cut", fit |-> NoFit]
  BY DEF Train
<1>4. PICK t \in Sampled(E, "truthfulqa") :
          IF h \cup t = {}
          THEN Raise(a) /\ UNCHANGED saved
          ELSE /\ actor' = [actor EXCEPT ![a].at = "dump", ![a].fit =
                     [questions |-> {q \in Questions(L) :
                                        \E ex \in h \cup t : ex.question = q},
                      loaded |-> L, ratio |-> r]]
               /\ saved' = [state |-> "cut", fit |-> NoFit]
  BY <1>3
<1>5. h \cup t \subseteq E
  BY SampledSubset
<1>6. UNCHANGED <<cache, measured>>
  BY DEF Train
<1>7. CASE h \cup t = {}
  BY <1>4, <1>6, <1>7, RaiseStep
<1>8. CASE h \cup t # {}
  <2> DEFINE Qs  == {q \in Questions(L) : \E ex \in h \cup t : ex.question = q}
             fit == [questions |-> Qs, loaded |-> L, ratio |-> r]
             v   == [actor[a] EXCEPT !.at = "dump", !.fit = fit]
  <2>1. Qs \cap TestQuestions(L, r) = {}
    BY <1>5 DEF TrainExamples
  <2>2. Qs \subseteq AllQuestions
    BY <1>2, QuestionsType
  <2> HIDE DEF Qs, L, r
  <2>3. fit \in Fits
    BY <1>2, <2>2 DEF Fits
  <2>4. Unseen(fit)
    BY <1>2, <2>1 DEF Unseen
  <2> HIDE DEF fit
  <2>5. /\ v \in ActorStates /\ v.at = "dump"
        /\ v.fit = fit /\ v.call = actor[a].call
    BY <1>1, <2>3 DEF ActorStates, Steps
  <2>6. actor' = [actor EXCEPT ![a] = v] /\ saved' = [state |-> "cut", fit |-> NoFit]
    BY <1>4, <1>8 DEF fit, Qs, IInv, Typed
  <2> HIDE DEF v
  <2>7. \A b \in Actors : actor'[b] = IF b = a THEN v ELSE actor[b]
    BY <2>6 DEF IInv, Typed
  <2>8. NoFit \in Fits /\ Unseen(NoFit)
    BY NothingType DEF NoFit, Fits, Unseen
  <2>9. Typed'
    <3>1. actor' \in [Actors -> ActorStates]
      BY <2>5, <2>6 DEF IInv, Typed
    <3>2. saved' \in [state : {"absent", "cut", "saved"}, fit : Fits]
      BY <2>6, <2>8
    <3>3. \A b \in Actors : ~At(b, "idle")' => (actor[b].call \in Calls)'
      BY <1>1, <2>5, <2>7 DEF IInv, Typed, At
    <3>4. \A b \in Actors : At(b, "model")' \/ At(b, "cache")'
                               => (actor[b].call.kind # "train")'
      BY <2>5, <2>7 DEF IInv, Typed, At
    <3> QED BY <1>6, <3>1, <3>2, <3>3, <3>4 DEF IInv, Typed
  <2>10. Traced'
    <3>1. \A b \in Actors : Unseen(actor[b].fit)'
      BY <2>4, <2>5, <2>7 DEF IInv, Traced, Unseen
    <3>2. \A b \in Actors : At(b, "use")' =>
             (actor[b].split.tested =
                TestQuestions(actor[b].split.loaded, actor[b].call.ratio))'
      BY <2>5, <2>7 DEF IInv, Traced, At
    <3>3. Unseen(saved.fit)'
      BY <2>6, <2>8 DEF Unseen
    <3> QED BY <1>6, <3>1, <3>2, <3>3 DEF IInv, Traced, Unseen
  <2> QED BY <2>9, <2>10 DEF IInv
<1> QED BY <1>7, <1>8

LEMMA DumpStep ==
    ASSUME IInv, NEW a \in Actors, Dump(a)
    PROVE  IInv'
<1>1. actor' = [actor EXCEPT ![a] = Rest] /\ UNCHANGED <<cache, measured>>
      /\ saved' = [state |-> "saved", fit |-> actor[a].fit]
  BY DEF Dump, Raise
<1>2. \A b \in Actors : actor'[b] = IF b = a THEN Rest ELSE actor[b]
  BY <1>1 DEF IInv, Typed
<1>3. actor[a].fit \in Fits /\ Unseen(actor[a].fit)
  BY DEF IInv, Typed, Traced, ActorStates
<1>4. Rest \in ActorStates /\ Unseen(Rest.fit) /\ Rest.at = "idle"
  BY RestType DEF Rest
<1>5. Typed'
  <2>1. actor' \in [Actors -> ActorStates]
    BY <1>1, <1>4 DEF IInv, Typed
  <2>2. \A b \in Actors : ~At(b, "idle")' => (actor[b].call \in Calls)'
    BY <1>2, <1>4 DEF IInv, Typed, At
  <2>3. \A b \in Actors : At(b, "model")' \/ At(b, "cache")'
                             => (actor[b].call.kind # "train")'
    BY <1>2, <1>4 DEF IInv, Typed, At
  <2> QED BY <1>1, <1>3, <2>1, <2>2, <2>3 DEF IInv, Typed
<1>6. Traced'
  <2>1. \A b \in Actors : Unseen(actor[b].fit)'
    BY <1>2, <1>4 DEF IInv, Traced, Unseen
  <2>2. \A b \in Actors : At(b, "use")' =>
           (actor[b].split.tested =
              TestQuestions(actor[b].split.loaded, actor[b].call.ratio))'
    BY <1>2, <1>4 DEF IInv, Traced, At
  <2> QED BY <1>1, <1>3, <2>1, <2>2 DEF IInv, Traced, Unseen
<1> QED BY <1>5, <1>6 DEF IInv

LEMMA MeasureStep ==
    ASSUME IInv, NEW a \in Actors, Measure(a)
    PROVE  IInv'
<1> DEFINE e == [fit |-> actor[a].fit, loaded |-> actor[a].split.loaded,
                 tested |-> actor[a].split.tested, ratio |-> actor[a].call.ratio]
<1>1. Raise(a) /\ UNCHANGED <<saved, cache>> /\ measured' = measured \cup {e}
  BY DEF Measure
<1>2. actor[a] \in ActorStates /\ actor[a].call \in Calls /\ Unseen(actor[a].fit)
  BY DEF IInv, Typed, Traced, Measure, At
<1>3. /\ e.fit \in Fits /\ e.loaded \in Loads /\ e.ratio \in Ratios
      /\ Unseen(e.fit) /\ e.tested = TestQuestions(e.loaded, e.ratio)
  BY <1>2 DEF IInv, Traced, Measure, At, ActorStates, Splits, Calls
<1> HIDE DEF e
<1>4. \A b \in Actors : actor'[b] = IF b = a THEN Rest ELSE actor[b]
  BY <1>1 DEF Raise, IInv, Typed
<1>5. Rest \in ActorStates /\ Unseen(Rest.fit) /\ Rest.at = "idle"
  BY RestType DEF Rest
<1>6. Typed'
  <2>1. actor' \in [Actors -> ActorStates]
    BY <1>1, <1>5 DEF Raise, IInv, Typed
  <2>2. \A b \in Actors : ~At(b, "idle")' => (actor[b].call \in Calls)'
    BY <1>4, <1>5 DEF IInv, Typed, At
  <2>3. \A b \in Actors : At(b, "model")' \/ At(b, "cache")'
                             => (actor[b].call.kind # "train")'
    BY <1>4, <1>5 DEF IInv, Typed, At
  <2> QED BY <1>1, <1>3, <2>1, <2>2, <2>3 DEF IInv, Typed
<1>7. Traced'
  <2>1. \A b \in Actors : Unseen(actor[b].fit)'
    BY <1>4, <1>5 DEF IInv, Traced, Unseen
  <2>2. \A b \in Actors : At(b, "use")' =>
           (actor[b].split.tested =
              TestQuestions(actor[b].split.loaded, actor[b].call.ratio))'
    BY <1>4, <1>5 DEF IInv, Traced, At
  <2> QED BY <1>1, <1>3, <2>1, <2>2 DEF IInv, Traced, Unseen
<1> QED BY <1>6, <1>7 DEF IInv

LEMMA KillStep ==
    ASSUME IInv, NEW A \in SUBSET Actors, Killed(A),
           cache' \in {cache, [k \in Keys |-> NoSplit]}
    PROVE  IInv'
<1>1. /\ actor' = [a \in Actors |-> IF a \in A THEN Rest ELSE actor[a]]
      /\ UNCHANGED <<saved, measured>>
  BY DEF Killed
<1>2. Rest \in ActorStates /\ Unseen(Rest.fit) /\ Rest.at = "idle"
  BY RestType DEF Rest
<1>3. NoSplit \in Splits /\ ~NoSplit.known
  BY NothingType DEF NoSplit, Splits
<1>4. \A b \in Actors : actor'[b] = IF b \in A THEN Rest ELSE actor[b]
  BY <1>1
<1>5. \A k \in Keys : cache'[k] \in {cache[k], NoSplit}
  OBVIOUS
<1>6. Typed'
  <2>1. actor' \in [Actors -> ActorStates]
    BY <1>1, <1>2 DEF IInv, Typed
  <2>2. cache' \in [Keys -> Splits]
    BY <1>3 DEF IInv, Typed
  <2>3. \A b \in Actors : ~At(b, "idle")' => (actor[b].call \in Calls)'
    BY <1>2, <1>4 DEF IInv, Typed, At
  <2>4. \A b \in Actors : At(b, "model")' \/ At(b, "cache")'
                             => (actor[b].call.kind # "train")'
    BY <1>2, <1>4 DEF IInv, Typed, At
  <2> QED BY <1>1, <2>1, <2>2, <2>3, <2>4 DEF IInv, Typed
<1>7. Traced'
  <2>1. \A b \in Actors : Unseen(actor[b].fit)'
    BY <1>2, <1>4 DEF IInv, Traced, Unseen
  <2>2. \A b \in Actors : At(b, "use")' =>
           (actor[b].split.tested =
              TestQuestions(actor[b].split.loaded, actor[b].call.ratio))'
    BY <1>2, <1>4 DEF IInv, Traced, At
  <2>3. \A k \in Keys : cache'[k].known =>
           cache'[k].tested = TestQuestions(cache'[k].loaded, k[2])
    BY <1>3, <1>5 DEF IInv, Traced
  <2> QED BY <1>1, <2>1, <2>2, <2>3 DEF IInv, Traced, Unseen
<1> QED BY <1>6, <1>7 DEF IInv

LEMMA WorkStep ==
    ASSUME IInv, NEW a \in Actors, Work(a)
    PROVE  IInv'
<1>1. CASE Exists(a)
  <2>1. PICK at \in {"split", "request", "read"} : Goto(a, at)
    BY <1>1 DEF Exists
  <2> QED BY <1>1, <2>1, GotoStep DEF Exists, At, Steps
<1>2. CASE RequestFails(a)
  BY <1>2, RaiseStep DEF RequestFails
<1>3. CASE Open(a)
  BY <1>3, GotoStep DEF Open, At, Steps
<1>4. CASE Write(a)
  BY <1>4, GotoStep DEF Write, At, Steps
<1>5. CASE Unsplittable(a)
  BY <1>5, RaiseStep DEF Unsplittable
<1>6. CASE Report(a)
  BY <1>6, RaiseStep DEF Report
<1> QED
  BY <1>1, <1>2, <1>3, <1>4, <1>5, <1>6, LoadModelStep, LookupStep, ReadStep,
     SplitTestStep, TrainStep, DumpStep, MeasureStep DEF Work

LEMMA NextIInv == IInv /\ [Next]_vars => IInv'
<1> SUFFICES ASSUME IInv, [Next]_vars PROVE IInv'
  OBVIOUS
<1>1. CASE \E a \in Actors : Work(a) \/ \E c \in Calls : Ask(a, c)
  BY <1>1, WorkStep, AskStep
<1>2. CASE \E a \in Commands : KillCommand(a)
  BY <1>2, KillStep DEF KillCommand, Actors
<1>3. CASE KillService
  BY <1>3, KillStep DEF KillService, Actors
<1>4. CASE UNCHANGED vars
  BY <1>4 DEF vars, IInv, Typed, Traced, At, Unseen
<1> QED BY <1>1, <1>2, <1>3, <1>4 DEF Next, Done

LEMMA IInvNoLeak == IInv => NoLeak
<1> SUFFICES ASSUME IInv, NEW e \in measured,
                    e.fit.loaded = e.loaded, e.fit.ratio <= e.ratio
             PROVE  e.tested \cap e.fit.questions = {}
  BY DEF NoLeak
<1>1. /\ e.loaded \in Loads /\ e.ratio \in Ratios /\ Unseen(e.fit)
      /\ e.tested = TestQuestions(e.loaded, e.ratio)
  BY DEF IInv, Typed, Traced
<1>2. CASE e.fit.questions = {}
  BY <1>2
<1>3. CASE e.fit.ratio \in Ratios
           /\ e.fit.questions \cap TestQuestions(e.loaded, e.fit.ratio) = {}
  BY <1>1, <1>3, NestedTests
<1> QED BY <1>1, <1>2, <1>3 DEF Unseen

(* No process ever measures the baseline on a question it was trained on,   *)
(* when the training read the same lines with the same or a smaller ratio.  *)
THEOREM NoLeakTheorem == Spec => []NoLeak
<1>1. Spec => []IInv
  BY InitIInv, NextIInv, PTL DEF Spec
<1> QED BY <1>1, IInvNoLeak, PTL

-------------------------------------------------------------------------------
CutInv == /\ kills \in Nat
          /\ files \in [KNOWN_DATASETS -> Int]
          /\ CutOnlyByKill

LEMMA InitCut == Init => CutInv
  BY DEF Init, CutInv, CutOnlyByKill, Absent

(* Steps that leave the files and those who write them alone.               *)
LEMMA QuietStep ==
    ASSUME CutInv, UNCHANGED <<files, kills>>,
           \A b \in Actors : At(b, "write") => actor'[b] = actor[b]
    PROVE  CutInv'
<1>1. \A s \in KNOWN_DATASETS : Writers(s) \subseteq Writers(s)'
  BY DEF Writers, At, Source
<1> QED BY <1>1 DEF CutInv, CutOnlyByKill

LEMMA OpenCut ==
    ASSUME IInv, CutInv, NEW a \in Actors, Open(a)
    PROVE  CutInv'
<1> DEFINE d == Source(a)
<1>0. actor' = [actor EXCEPT ![a].at = "write"] /\ ~At(a, "write")
  BY DEF Open, Goto, At
<1>a. files' = [files EXCEPT ![d] = 0] /\ kills' = kills
  BY DEF Open
<1>1. At(a, "write")' /\ Source(a)' = Source(a)
  BY <1>0 DEF IInv, Typed, ActorStates, At, Source
<1>2. \A s \in KNOWN_DATASETS : s = d => a \in Writers(s)'
  BY <1>1 DEF Writers
<1>3. \A b \in Actors \ {a} : actor'[b] = actor[b]
  BY <1>0 DEF IInv, Typed
<1>4. \A s \in KNOWN_DATASETS : Writers(s) \subseteq Writers(s)'
  BY <1>0, <1>3 DEF Writers, At, Source
<1>5. d \in KNOWN_DATASETS
  BY DEF Source, Start, KNOWN_DATASETS
<1>6. \A s \in KNOWN_DATASETS \ {d} : files'[s] = files[s]
  BY <1>a DEF CutInv
<1>7. \A s \in KNOWN_DATASETS :
          kills' = 0 => files'[s] \in {Absent, Len(Lines[s])} \/ Writers(s)' # {}
  BY <1>a, <1>2, <1>4, <1>6 DEF CutInv, CutOnlyByKill
<1>8. kills' \in Nat /\ files' \in [KNOWN_DATASETS -> Int]
  <2> HIDE DEF d
  <2> QED BY <1>a, <1>5 DEF CutInv
<1> QED BY <1>7, <1>8 DEF CutInv, CutOnlyByKill

LEMMA WriteCut ==
    ASSUME IInv, CutInv, NEW a \in Actors, Write(a)
    PROVE  CutInv'
<1> DEFINE d == Source(a)
<1>0. /\ files' = [files EXCEPT ![d] = Len(Lines[d])] /\ kills' = kills
      /\ actor' = [actor EXCEPT ![a].at = "read"]
  BY DEF Write, Goto
<1>1. \A s \in KNOWN_DATASETS : Len(Lines[s]) \in Nat
  BY LinesAssumption
<1>2. \A b \in Actors \ {a} : actor'[b] = actor[b]
  BY <1>0 DEF IInv, Typed
<1>3. \A s \in KNOWN_DATASETS \ {d} : Writers(s) \subseteq Writers(s)'
  BY <1>2 DEF Writers, At, Source
<1>4. d \in KNOWN_DATASETS
  BY DEF Source, Start, KNOWN_DATASETS
<1> HIDE DEF d
<1> QED BY <1>0, <1>1, <1>3, <1>4 DEF CutInv, CutOnlyByKill

LEMMA KillCut ==
    ASSUME CutInv, NEW A \in SUBSET Actors, Killed(A)
    PROVE  CutInv'
<1>1. \A s \in KNOWN_DATASETS : Len(Lines[s]) \in Nat
  BY LinesAssumption
<1>2. \A s \in KNOWN_DATASETS : Cuts(A, s) \subseteq Int
  BY <1>1 DEF Cuts, CutInv
<1>3. files' \in [KNOWN_DATASETS -> Int]
  BY <1>2 DEF Killed, KNOWN_DATASETS
<1>4. kills' = kills + 1
  BY DEF Killed
<1> QED BY <1>3, <1>4 DEF CutInv, CutOnlyByKill

LEMMA WorkCut ==
    ASSUME IInv, CutInv, NEW a \in Actors, Work(a)
    PROVE  CutInv'
<1>1. CASE Open(a)
  BY <1>1, OpenCut
<1>2. CASE Write(a)
  BY <1>2, WriteCut
<1>3. CASE ~Open(a) /\ ~Write(a)
  <2>1. ~At(a, "write") /\ UNCHANGED <<files, kills>>
    <3>1. CASE Read(a)
      BY <3>1 DEF Read, At
    <3>2. CASE Train(a) \/ SplitTest(a)
      BY <3>2 DEF Train, SplitTest, At
    <3>3. CASE ~Read(a) /\ ~Train(a) /\ ~SplitTest(a)
      BY <1>3, <3>3 DEF Work, LoadModel, Lookup, Exists, RequestFails, Unsplittable,
                        Dump, Measure, Report, At
    <3> QED BY <3>1, <3>2, <3>3
  <2>2. \A b \in Actors \ {a} : actor'[b] = actor[b]
    <3>1. CASE Read(a)
      BY <3>1 DEF Read, Raise, IInv, Typed
    <3>2. CASE Train(a)
      BY <3>2 DEF Train, Raise, IInv, Typed
    <3>3. CASE SplitTest(a)
      BY <3>3 DEF SplitTest, IInv, Typed
    <3>4. CASE ~Read(a) /\ ~Train(a) /\ ~SplitTest(a)
      BY <1>3, <3>4 DEF Work, LoadModel, Lookup, Exists, RequestFails, Unsplittable,
                        Dump, Measure, Report, Goto, Raise, IInv, Typed
    <3> QED BY <3>1, <3>2, <3>3, <3>4
  <2> QED BY <2>1, <2>2, QuietStep
<1> QED BY <1>1, <1>2, <1>3

LEMMA NextCut == IInv /\ CutInv /\ [Next]_vars => CutInv'
<1> SUFFICES ASSUME IInv, CutInv, [Next]_vars PROVE CutInv'
  OBVIOUS
<1>1. CASE \E a \in Actors : Work(a)
  BY <1>1, WorkCut
<1>2. CASE \E a \in Actors : \E c \in Calls : Ask(a, c)
  BY <1>2, QuietStep DEF Ask, At, IInv, Typed
<1>3. CASE (\E a \in Commands : KillCommand(a)) \/ KillService
  BY <1>3, KillCut DEF KillCommand, KillService, Actors
<1>4. CASE UNCHANGED vars
  BY <1>4, QuietStep DEF vars
<1> QED BY <1>1, <1>2, <1>3, <1>4 DEF Next, Done

(* Two downloads of a dataset at once, or a download that fails, never      *)
(* leave a cut file behind: only a kill does.                               *)
THEOREM CutTheorem == Spec => []CutOnlyByKill
<1>1. Spec => []IInv
  BY InitIInv, NextIInv, PTL DEF Spec
<1>2. Spec => []CutInv
  BY <1>1, InitCut, NextCut, PTL DEF Spec
<1>3. CutInv => CutOnlyByKill
  BY DEF CutInv
<1> QED BY <1>2, <1>3, PTL

-------------------------------------------------------------------------------
(***************************************************************************)
(* The coverage report. Its lists are the indices of three disjoint sets,   *)
(* in order, whose union is all of them; the loop that prints the ranges of *)
(* one has closed, after k indices, ranges that cover the first of them.    *)
(***************************************************************************)
Labels == [question : AllQuestions, source : KNOWN_DATASETS,
           answer : Nat \X Nat, label : BOOLEAN]

LEMMA LabelledType ==
    ASSUME NEW s \in KNOWN_DATASETS, NEW lines \in Seq(AllLines), NEW label \in BOOLEAN
    PROVE  Labelled(s, lines, label) \in Seq(Labels)
<1> DEFINE Of(i) == [v \in 1..Variants(s, lines[i], label) |->
                        [question |-> lines[i].question, source |-> s,
                         answer |-> <<i, v>>, label |-> label]]
           n == Len(lines)
<1>1. n \in Nat /\ DOMAIN lines = 1..n /\ \A i \in 1..n : lines[i] \in AllLines
  OBVIOUS
<1>2. ASSUME NEW i \in 1..n PROVE Of(i) \in Seq(Labels)
  <2> DEFINE c == Variants(s, lines[i], label)
             line == lines[i]
  <2>1. line \in AllLines
    BY <1>1
  <2>2. line.right \in Nat /\ line.wrong \in Nat /\ line.question \in AllQuestions
    <3> HIDE DEF line
    <3> QED
      BY <2>1, LinesAssumption DEF AllQuestions
  <2>3. c \in Nat
    BY <2>2 DEF Variants
  <2>4. ASSUME NEW v \in 1..c
        PROVE  [question |-> line.question, source |-> s,
                answer |-> <<i, v>>, label |-> label] \in Labels
    <3>1. i \in Nat /\ v \in Nat
      BY <1>1, <2>3
    <3> HIDE DEF line
    <3> QED
      BY <2>2, <3>1 DEF Labels
  <2> DEFINE e(v) == [question |-> line.question, source |-> s,
                      answer |-> <<i, v>>, label |-> label]
  <2>5. Of(i) = [v \in 1..c |-> e(v)] /\ \A v \in 1..c : e(v) \in Labels
    BY <2>4
  <2> HIDE DEF c, e, Of
  <2>6. Of(i) \in [1..c -> Labels]
    BY <2>5
  <2> QED
    BY <2>3, <2>6
<1> DEFINE ss == [i \in DOMAIN lines |-> Of(i)]
<1>3. ss \in Seq(Seq(Labels))
  <2> HIDE DEF Of
  <2>1. ss \in [1..n -> Seq(Labels)]
    BY <1>1, <1>2
  <2> DEFINE T == Seq(Labels)
  <2> HIDE DEF T, ss
  <2>2. ss \in Seq(T)
    BY <1>1, <2>1 DEF T
  <2> QED
    BY <2>2 DEF T
<1>4. Labelled(s, lines, label) = FlattenSeq(ss)
  BY DEF Labelled
<1> HIDE DEF ss
<1> QED
  BY <1>3, <1>4, FlattenType

LEMMA ExamplesType ==
    ASSUME NEW loaded \in Loads
    PROVE  Examples(loaded) \in Seq(Labels)
<1> DEFINE a == Labelled("halueval", loaded["halueval"], TRUE)
           b == Labelled("halueval", loaded["halueval"], FALSE)
           c == Labelled("truthfulqa", loaded["truthfulqa"], TRUE)
           d == Labelled("truthfulqa", loaded["truthfulqa"], FALSE)
<1>1. loaded["halueval"] \in Seq(AllLines) /\ loaded["truthfulqa"] \in Seq(AllLines)
  BY DEF Loads, KNOWN_DATASETS
<1>2. a \in Seq(Labels) /\ b \in Seq(Labels) /\ c \in Seq(Labels) /\ d \in Seq(Labels)
  BY <1>1, LabelledType DEF KNOWN_DATASETS
<1>3. Examples(loaded) = FlattenSeq(<<a, b, c, d>>)
  BY DEF Examples
<1> HIDE DEF a, b, c, d
<1>4. <<a, b, c, d>> \in Seq(Seq(Labels))
  BY <1>2
<1> QED
  BY <1>3, <1>4, FlattenType

(* A set of integers in order, as a list.                                   *)
LEMMA Ordered ==
    ASSUME NEW S, IsFiniteSet(S), S \subseteq Int
    PROVE  /\ Cardinality(S) \in Nat /\ Len(InOrder(S)) = Cardinality(S)
           /\ DOMAIN InOrder(S) = 1..Cardinality(S)
           /\ InOrder(S) \in Seq(Int) /\ ToSet(InOrder(S)) = S
           /\ \A k \in 1..Cardinality(S) : InOrder(S)[k] \in S
           /\ \A k, l \in 1..Cardinality(S) : k < l => InOrder(S)[k] < InOrder(S)[l]
<1> DEFINE f == InOrder(S)
           c == Cardinality(S)
<1>1. /\ c \in Nat /\ DOMAIN f = 1..c /\ f \in [1..c -> S]
      /\ \A x \in S : \E k \in DOMAIN f : f[k] = x
      /\ \A k, l \in DOMAIN f : k < l => f[k] < f[l]
  BY InOrderEnumerates
<1> HIDE DEF f, c
<1>2. f \in Seq(Int) /\ Len(f) = c
  <2>1. f \in [1..c -> Int]
    BY <1>1
  <2>2. \A g \in [1..c -> Int] : g \in Seq(Int) /\ Len(g) = c
    BY <1>1
  <2> QED
    BY <2>1, <2>2
<1>3. ToSet(f) = S
  BY <1>1 DEF ToSet
<1> QED
  BY <1>1, <1>2, <1>3 DEF f, c

LEMMA TestType ==
    ASSUME NEW split \in Splits
    PROVE  TestExamples(split) \in Seq(Labels)
<1> DEFINE E == Examples(split.loaded)
           n == Len(E)
           S == {i \in DOMAIN E : E[i].question \in split.tested}
           kept == InOrder(S)
           c == Cardinality(S)
<1>1. E \in Seq(Labels)
  <2>1. split.loaded \in Loads
    BY DEF Splits
  <2> QED
    BY <2>1, ExamplesType
<1> HIDE DEF E
<1>2. n \in Nat /\ DOMAIN E = 1..n /\ \A i \in 1..n : E[i] \in Labels
  BY <1>1
<1>3. IsFiniteSet(1..n) /\ S \in SUBSET (1..n)
  BY <1>2, FS_Interval
<1>4. IsFiniteSet(S) /\ S \subseteq Int
  BY <1>2, <1>3, FS_Subset
<1>5. c \in Nat /\ DOMAIN kept = 1..c /\ \A k \in 1..c : kept[k] \in S
  <2> HIDE DEF S
  <2> QED
    BY <1>4, Ordered
<1>6. TestExamples(split) = [k \in DOMAIN kept |-> E[kept[k]]]
  BY DEF TestExamples, E
<1>7. \A k \in 1..c : E[kept[k]] \in Labels
  BY <1>2, <1>3, <1>5
<1> HIDE DEF kept, c, S, n
<1> QED
  BY <1>5, <1>6, <1>7

(***************************************************************************)
(* The loop of format_index_ranges: closed ranges R, an open one s..p, and  *)
(* the indices X read so far.                                               *)
(***************************************************************************)
Apart(R) == \A k \in 1..(Len(R) - 1) : R[k][2] + 1 < R[k + 1][1]

LoopOK(R, s, p, X) ==
    /\ R \in Seq(Int \X Int) /\ s \in Int /\ p \in Int
    /\ Covered(R) \cup (s..p) = X
    /\ Apart(R)
    /\ Len(R) # 0 => R[Len(R)][2] + 1 < s

LEMMA ClosedIs ==
    ASSUME NEW R, NEW s, NEW p, NEW X, LoopOK(R, s, p, X)
    PROVE  LET C == Append(R, <<s, p>>)
           IN  /\ C \in Seq(Int \X Int) /\ Covered(C) = X /\ Apart(C)
               /\ Len(C) # 0 /\ C[Len(C)][2] = p
<1> DEFINE r == <<s, p>>
           C == Append(R, r)
           n == Len(R)
<1>1. /\ R \in Seq(Int \X Int) /\ s \in Int /\ p \in Int /\ n \in Nat
      /\ Covered(R) \cup (s..p) = X /\ Apart(R)
      /\ n # 0 => R[n][2] + 1 < s
  BY DEF LoopOK
<1>2. r \in Int \X Int /\ r[1] = s /\ r[2] = p
  BY <1>1
<1> HIDE DEF r
<1>3. /\ C \in Seq(Int \X Int) /\ Len(C) = n + 1 /\ C[n + 1] = r
      /\ \A k \in 1..n : C[k] = R[k]
  BY <1>1, <1>2
<1>4. ToSet(C) = ToSet(R) \cup {r}
  <2>1. DOMAIN C = 1..(n + 1) /\ DOMAIN R = 1..n
    BY <1>1, <1>3
  <2>2. \A k \in 1..(n + 1) : k \in 1..n \/ k = n + 1
    BY <1>1
  <2>3. n + 1 \in 1..(n + 1) /\ \A k \in 1..n : k \in 1..(n + 1)
    BY <1>1
  <2> HIDE DEF C, n
  <2> QED
    BY <1>3, <2>1, <2>2, <2>3 DEF ToSet
<1>5. Covered(C) = Covered(R) \cup (r[1]..r[2])
  <2> HIDE DEF C
  <2> QED
    BY <1>4 DEF Covered
<1>6. Apart(C)
  <2> SUFFICES ASSUME NEW k \in 1..(Len(C) - 1) PROVE C[k][2] + 1 < C[k + 1][1]
    BY DEF Apart
  <2>1. k \in 1..n /\ (k = n \/ (k \in 1..(n - 1) /\ k + 1 \in 1..n))
    BY <1>1, <1>3
  <2> HIDE DEF C, n
  <2>2. CASE k = n
    <3>1. n # 0
      BY <1>1, <2>1, <2>2
    <3> QED
      BY <1>1, <1>2, <1>3, <2>1, <2>2, <3>1
  <2>3. CASE k \in 1..(n - 1) /\ k + 1 \in 1..n
    <3>1. R[k][2] + 1 < R[k + 1][1]
      BY <1>1, <2>3 DEF Apart, n
    <3> QED
      BY <1>3, <2>1, <2>3, <3>1
  <2> QED
    BY <2>1, <2>2, <2>3
<1>7. Len(C) # 0 /\ C[Len(C)][2] = p
  BY <1>1, <1>2, <1>3
<1>8. Covered(C) = X
  BY <1>1, <1>2, <1>5
<1> QED
  BY <1>3, <1>6, <1>7, <1>8 DEF r

LEMMA ExtendedIs ==
    ASSUME NEW R, NEW s, NEW p, NEW X, LoopOK(R, s, p, X), s <= p, NEW i \in Int, p < i
    PROVE  /\ i = p + 1 => LoopOK(R, s, i, X \cup {i}) /\ s <= i
           /\ i # p + 1 => LoopOK(Append(R, <<s, p>>), i, i, X \cup {i})
<1> DEFINE C == Append(R, <<s, p>>)
<1>1. /\ R \in Seq(Int \X Int) /\ s \in Int /\ p \in Int
      /\ Covered(R) \cup (s..p) = X /\ Apart(R)
      /\ Len(R) # 0 => R[Len(R)][2] + 1 < s
  BY DEF LoopOK
<1>2. ASSUME i = p + 1 PROVE LoopOK(R, s, i, X \cup {i}) /\ s <= i
  <2>1. s..i = (s..p) \cup {i} /\ s <= i
    BY <1>1, <1>2
  <2>2. Covered(R) \cup (s..i) = X \cup {i}
    BY <1>1, <2>1
  <2> QED
    BY <1>1, <2>1, <2>2 DEF LoopOK
<1>3. ASSUME i # p + 1 PROVE LoopOK(C, i, i, X \cup {i})
  <2>1. C \in Seq(Int \X Int) /\ Covered(C) = X /\ Apart(C) /\ C[Len(C)][2] = p
    BY ClosedIs
  <2>2. i..i = {i} /\ p + 1 < i
    BY <1>1, <1>3
  <2> HIDE DEF C
  <2>3. Covered(C) \cup (i..i) = X \cup {i}
    BY <2>1, <2>2
  <2>4. C[Len(C)][2] + 1 < i
    BY <2>1, <2>2
  <2> QED
    BY <2>1, <2>3, <2>4 DEF LoopOK
<1> QED
  BY <1>2, <1>3

(* The recursion of the loop.                                               *)
Begun(i) == [ranges |-> <<>>, start |-> i, prev |-> i]
Ran(indices, n, g) ==
    g = [k \in 1..n |-> IF k = 1 THEN Begun(indices[1]) ELSE Extended(g[k - 1], indices[k])]

LEMMA RanExists ==
    ASSUME NEW indices, NEW n \in Nat
    PROVE  \E g : Ran(indices, n, g)
<1> DEFINE Bad == {k \in Nat : ~ \E g : Ran(indices, k, g)}
<1>1. SUFFICES ASSUME Bad # {} PROVE FALSE
  OBVIOUS
<1>2. PICK k \in Bad : \A j \in Bad : k <= j
  <2>1. Bad \subseteq Nat
    OBVIOUS
  <2> HIDE DEF Bad
  <2> QED
    BY <1>1, <2>1, FirstExists
<1>3. k \in Nat /\ ~ \E g : Ran(indices, k, g)
  OBVIOUS
<1>4. CASE k = 0
  <2>1. Ran(indices, 0, <<>>)
    BY DEF Ran
  <2> QED
    BY <2>1, <1>3, <1>4
<1>5. CASE k # 0
  <2>1. k - 1 \in Nat /\ k - 1 \notin Bad
    <3>1. k - 1 \in Nat /\ ~(k <= k - 1)
      BY <1>3, <1>5
    <3> HIDE DEF Bad
    <3> QED
      BY <3>1, <1>2
  <2>2. PICK g : Ran(indices, k - 1, g)
    BY <2>1
  <2> DEFINE last == IF k = 1 THEN Begun(indices[1]) ELSE Extended(g[k - 1], indices[k])
             h == [i \in 1..k |-> IF i = k THEN last ELSE g[i]]
  <2>3. g = [i \in 1..(k - 1) |-> IF i = 1 THEN Begun(indices[1])
                                  ELSE Extended(g[i - 1], indices[i])]
    BY <2>2 DEF Ran
  <2>4. ASSUME NEW i \in 1..k
        PROVE  h[i] = IF i = 1 THEN Begun(indices[1]) ELSE Extended(h[i - 1], indices[i])
    <3>1. i \in Int /\ (i # 1 => i - 1 \in 1..k /\ i - 1 # k)
      BY <1>3
    <3>2. i # 1 => h[i - 1] = g[i - 1]
      BY <3>1
    <3>3. CASE i = k
      BY <3>2, <3>3
    <3>4. CASE i # k
      <4>1. i \in 1..(k - 1)
        BY <3>1, <3>4, <1>3
      <4>2. h[i] = g[i]
        BY <3>4
      <4>3. g[i] = IF i = 1 THEN Begun(indices[1]) ELSE Extended(g[i - 1], indices[i])
        BY <4>1, <2>3
      <4> QED
        BY <4>2, <4>3, <3>2
    <3> QED
      BY <3>3, <3>4
  <2>5. Ran(indices, k, h)
    <3> DEFINE r == [i \in 1..k |-> IF i = 1 THEN Begun(indices[1])
                                    ELSE Extended(h[i - 1], indices[i])]
    <3>1. DOMAIN h = 1..k /\ DOMAIN r = 1..k
      OBVIOUS
    <3>2. \A i \in 1..k : r[i] = IF i = 1 THEN Begun(indices[1])
                                 ELSE Extended(h[i - 1], indices[i])
      OBVIOUS
    <3>3. \A i \in 1..k : h[i] = r[i]
      BY <2>4, <3>2
    <3>4. h = [i \in 1..k |-> h[i]]
      OBVIOUS
    <3>5. r = [i \in 1..k |-> r[i]]
      OBVIOUS
    <3> HIDE DEF h, r
    <3>6. h = r
      BY <3>1, <3>3, <3>4, <3>5
    <3> QED
      BY <3>6 DEF Ran, r
  <2> QED
    BY <2>5, <1>3
<1> QED
  BY <1>4, <1>5

LEMMA RangesBySteps ==
    ASSUME NEW indices, Len(indices) \in Nat, Len(indices) > 0, indices # <<>>
    PROVE  \E loop : /\ loop[1] = Begun(indices[1])
                     /\ \A k \in 2..Len(indices) : loop[k] = Extended(loop[k - 1], indices[k])
                     /\ format_index_ranges(indices) = Closed(loop[Len(indices)])
<1> DEFINE n == Len(indices)
           loop == CHOOSE g : Ran(indices, n, g)
<1>1. Ran(indices, n, loop)
  BY RanExists
<1>2. format_index_ranges(indices) = Closed(loop[n])
  BY DEF format_index_ranges, Ran, Begun
<1> HIDE DEF loop
<1>3. loop = [k \in 1..n |-> IF k = 1 THEN Begun(indices[1])
                             ELSE Extended(loop[k - 1], indices[k])]
  BY <1>1 DEF Ran
<1>4. loop[1] = Begun(indices[1]) /\ \A k \in 2..n : loop[k] = Extended(loop[k - 1], indices[k])
  <2>1. 1 \in 1..n /\ \A k \in 2..n : k \in 1..n /\ k # 1
    OBVIOUS
  <2> HIDE DEF n
  <2> QED
    BY <2>1, <1>3
<1> QED
  BY <1>2, <1>4

(* The loop after k indices of an increasing list.                          *)
RangesOf(loop) == loop.ranges
StartOf(loop)  == loop.start
PrevOf(loop)   == loop.prev
Upto(indices, k) == {indices[j] : j \in 1..k}
LoopIs(loop, indices, k) ==
    /\ LoopOK(RangesOf(loop), StartOf(loop), PrevOf(loop), Upto(indices, k))
    /\ StartOf(loop) <= PrevOf(loop) /\ PrevOf(loop) = indices[k]
    /\ DOMAIN loop = {"ranges", "start", "prev"}

LEMMA LoopGoesOn ==
    ASSUME NEW loop, NEW indices \in Seq(Int), NEW k \in Nat, k > 0,
           k + 1 \in 1..Len(indices), indices[k] < indices[k + 1],
           LoopIs(loop, indices, k)
    PROVE  LoopIs(Extended(loop, indices[k + 1]), indices, k + 1)
<1> DEFINE i == indices[k + 1]
           e == Extended(loop, i)
           R == RangesOf(loop)
           s == StartOf(loop)
           p == PrevOf(loop)
           X == Upto(indices, k)
<1>1. /\ LoopOK(R, s, p, X) /\ s <= p /\ p = indices[k] /\ i \in Int /\ p < i
  BY DEF LoopIs
<1>2. Upto(indices, k + 1) = X \cup {i}
  <2>1. \A j \in 1..(k + 1) : j \in 1..k \/ j = k + 1
    OBVIOUS
  <2>2. k + 1 \in 1..(k + 1) /\ \A j \in 1..k : j \in 1..(k + 1)
    OBVIOUS
  <2> HIDE DEF i
  <2> QED
    BY <2>1, <2>2 DEF Upto, i
<1>3. CASE i = p + 1
  <2>1. /\ RangesOf(e) = R /\ StartOf(e) = s /\ PrevOf(e) = i
        /\ DOMAIN e = {"ranges", "start", "prev"}
    <3>1. e = [loop EXCEPT !.prev = i]
      BY <1>3 DEF Extended, PrevOf
    <3>2. DOMAIN loop = {"ranges", "start", "prev"}
      BY DEF LoopIs
    <3> QED
      BY <3>1, <3>2 DEF RangesOf, StartOf, PrevOf
  <2> HIDE DEF e, R, s, p, X, i
  <2>2. LoopOK(R, s, i, X \cup {i}) /\ s <= i
    BY <1>1, <1>3, ExtendedIs
  <2>3. LoopOK(RangesOf(e), StartOf(e), PrevOf(e), Upto(indices, k + 1))
    BY <1>2, <2>1, <2>2
  <2>4. StartOf(e) <= PrevOf(e) /\ PrevOf(e) = indices[k + 1]
    BY <2>1, <2>2 DEF i
  <2>5. LoopIs(e, indices, k + 1)
    BY <2>1, <2>3, <2>4 DEF LoopIs
  <2> QED
    BY <2>5 DEF e, i
<1>4. CASE i # p + 1
  <2>1. /\ RangesOf(e) = Append(R, <<s, p>>) /\ StartOf(e) = i /\ PrevOf(e) = i
        /\ DOMAIN e = {"ranges", "start", "prev"}
    BY <1>4 DEF Extended, Closed, RangesOf, StartOf, PrevOf
  <2> HIDE DEF e, R, s, p, X, i
  <2>2. LoopOK(Append(R, <<s, p>>), i, i, X \cup {i}) /\ i <= i
    BY <1>1, <1>4, ExtendedIs
  <2>3. LoopOK(RangesOf(e), StartOf(e), PrevOf(e), Upto(indices, k + 1))
    BY <1>2, <2>1, <2>2
  <2>4. StartOf(e) <= PrevOf(e) /\ PrevOf(e) = indices[k + 1]
    BY <2>1, <2>2 DEF i
  <2>5. LoopIs(e, indices, k + 1)
    BY <2>1, <2>3, <2>4 DEF LoopIs
  <2> QED
    BY <2>5 DEF e, i
<1> QED
  BY <1>3, <1>4

(* The ranges printed for a set of indices are exactly that set, and no two *)
(* of them can be joined.                                                   *)
LEMMA RangesExact ==
    ASSUME NEW S, IsFiniteSet(S), S \subseteq Int
    PROVE  LET R == format_index_ranges(InOrder(S))
           IN  Covered(R) = S /\ Apart(R)
<1> DEFINE f == InOrder(S)
           n == Cardinality(S)
<1>1. /\ n \in Nat /\ Len(f) = n /\ DOMAIN f = 1..n /\ f \in Seq(Int) /\ ToSet(f) = S
      /\ \A k, l \in 1..n : k < l => f[k] < f[l]
  BY Ordered
<1> HIDE DEF f, n
<1>2. CASE n = 0
  <2>1. f = <<>>
    BY <1>1, <1>2
  <2>2. S = {}
    BY <1>1, <1>2 DEF ToSet
  <2>3. format_index_ranges(f) = <<>>
    BY <2>1 DEF format_index_ranges
  <2>4. Covered(<<>>) = {} /\ Apart(<<>>)
    BY DEF Covered, Apart, ToSet
  <2> QED
    BY <2>2, <2>3, <2>4 DEF f
<1>3. CASE n # 0
  <2>1. n > 0 /\ f # <<>>
    BY <1>1, <1>3
  <2>2. PICK loop : /\ loop[1] = Begun(f[1])
                    /\ \A k \in 2..n : loop[k] = Extended(loop[k - 1], f[k])
                    /\ format_index_ranges(f) = Closed(loop[n])
    BY <1>1, <2>1, RangesBySteps
  <2> DEFINE Bad == {k \in 1..n : ~LoopIs(loop[k], f, k)}
  <2>3. LoopIs(loop[1], f, 1)
    <3> DEFINE i == f[1]
    <3>1. i \in Int
      BY <1>1, <2>1
    <3>2. /\ RangesOf(loop[1]) = <<>> /\ StartOf(loop[1]) = i /\ PrevOf(loop[1]) = i
          /\ DOMAIN loop[1] = {"ranges", "start", "prev"}
      BY <2>2 DEF Begun, RangesOf, StartOf, PrevOf
    <3>3. Upto(f, 1) = {i}
      <4>1. 1..1 = {1}
        OBVIOUS
      <4> QED
        BY <4>1 DEF Upto
    <3> HIDE DEF i
    <3>4. LoopOK(<<>>, i, i, {i})
      <4>1. Covered(<<>>) = {} /\ Apart(<<>>)
        BY DEF Covered, Apart, ToSet
      <4>2. i..i = {i}
        BY <3>1
      <4>3. <<>> \in Seq(Int \X Int) /\ Len(<<>>) = 0
        OBVIOUS
      <4> QED
        BY <3>1, <4>1, <4>2, <4>3 DEF LoopOK
    <3>5. i <= i /\ i = f[1]
      BY <3>1 DEF i
    <3> QED
      BY <3>2, <3>3, <3>4, <3>5 DEF LoopIs
  <2>4. Bad = {}
    <3> SUFFICES ASSUME Bad # {} PROVE FALSE
      OBVIOUS
    <3>1. Bad \subseteq Nat
      BY <1>1
    <3>2. PICK k \in Bad : \A j \in Bad : k <= j
      <4> HIDE DEF Bad
      <4> QED
        BY <3>1, FirstExists
    <3>3. k \in 1..n /\ ~LoopIs(loop[k], f, k)
      OBVIOUS
    <3> DEFINE m == k - 1
    <3>4. k # 1
      BY <2>3, <3>3
    <3>5. m \in Nat /\ m > 0 /\ m \in 1..n /\ k = m + 1 /\ k \in 2..n /\ m < k /\ ~(k <= m)
      BY <1>1, <3>3, <3>4
    <3>6. LoopIs(loop[m], f, m)
      BY <3>2, <3>5
    <3>7. loop[k] = Extended(loop[m], f[m + 1]) /\ f[m] < f[m + 1] /\ m + 1 \in 1..Len(f)
      BY <1>1, <2>2, <3>3, <3>5
    <3> HIDE DEF m, Bad
    <3>8. LoopIs(loop[k], f, m + 1)
      BY <1>1, <3>5, <3>6, <3>7, LoopGoesOn
    <3> QED
      BY <3>3, <3>5, <3>8
  <2>5. n \in 1..n
    BY <1>1, <2>1
  <2>6. LoopIs(loop[n], f, n)
    BY <2>4, <2>5
  <2>7. Upto(f, n) = S
    BY <1>1 DEF Upto, ToSet
  <2>8. LoopOK(RangesOf(loop[n]), StartOf(loop[n]), PrevOf(loop[n]), S)
    BY <2>6, <2>7 DEF LoopIs
  <2>9. Closed(loop[n]) = Append(RangesOf(loop[n]), <<StartOf(loop[n]), PrevOf(loop[n])>>)
    BY DEF Closed, RangesOf, StartOf, PrevOf
  <2>10. Covered(Closed(loop[n])) = S /\ Apart(Closed(loop[n]))
    BY <2>8, <2>9, ClosedIs
  <2> QED
    BY <2>2, <2>10 DEF f
<1> QED
  BY <1>2, <1>3

(* Three disjoint sets that share out the indices 0..(n - 1).               *)
CountTo(n, D, M, K) == Cardinality(D) + Cardinality(M) + Cardinality(K) = n

LEMMA Shares ==
    ASSUME NEW n \in Nat, NEW D, NEW M, NEW K,
           D \cup M \cup K = 0..(n - 1),
           D \cap M = {}, D \cap K = {}, M \cap K = {}
    PROVE  /\ IsFiniteSet(D) /\ IsFiniteSet(M) /\ IsFiniteSet(K)
           /\ Cardinality(D) \in Nat /\ Cardinality(M) \in Nat /\ Cardinality(K) \in Nat
           /\ CountTo(n, D, M, K)
           /\ Cardinality(D \cup M) = Cardinality(D) + Cardinality(M)
<1>1. IsFiniteSet(0..(n - 1)) /\ Cardinality(0..(n - 1)) = n
  BY FS_Interval
<1>2. D \in SUBSET (0..(n - 1)) /\ M \in SUBSET (0..(n - 1)) /\ K \in SUBSET (0..(n - 1))
  OBVIOUS
<1>3. IsFiniteSet(D) /\ IsFiniteSet(M) /\ IsFiniteSet(K)
  BY <1>1, <1>2, FS_Subset
<1>4. Cardinality(D) \in Nat /\ Cardinality(M) \in Nat /\ Cardinality(K) \in Nat
  BY <1>3, FS_CardinalityType
<1>5. Cardinality({}) = 0
  BY FS_EmptySet
<1>6. /\ IsFiniteSet(D \cup M)
      /\ Cardinality(D \cup M) = Cardinality(D) + Cardinality(M) - 0
  <2>1. /\ IsFiniteSet(D \cup M)
        /\ Cardinality(D \cup M) =
              Cardinality(D) + Cardinality(M) - Cardinality(D \cap M)
    BY <1>3, FS_Union
  <2>2. Cardinality(D \cap M) = 0
    BY <1>5
  <2> QED
    BY <2>1, <2>2
<1>7. (D \cup M) \cap K = {}
  OBVIOUS
<1>8. Cardinality((D \cup M) \cup K) = Cardinality(D \cup M) + Cardinality(K) - 0
  <2> DEFINE DM == D \cup M
  <2>1. IsFiniteSet(DM) /\ DM \cap K = {}
    BY <1>6, <1>7
  <2> HIDE DEF DM
  <2>2. Cardinality(DM \cup K) =
           Cardinality(DM) + Cardinality(K) - Cardinality(DM \cap K)
    BY <1>3, <2>1, FS_Union
  <2>3. Cardinality(DM \cap K) = 0
    BY <1>5, <2>1
  <2>4. Cardinality(DM \cup K) = Cardinality(DM) + Cardinality(K) - 0
    BY <2>2, <2>3
  <2> QED
    BY <2>4 DEF DM
<1>9. (D \cup M) \cup K = 0..(n - 1)
  OBVIOUS
<1> DEFINE d == Cardinality(D)
           m == Cardinality(M)
           k == Cardinality(K)
           dm == Cardinality(D \cup M)
<1>10. n = dm + k - 0 /\ dm = d + m - 0
  BY <1>1, <1>6, <1>8, <1>9
<1>11. d \in Nat /\ m \in Nat /\ k \in Nat
  BY <1>4
<1>12. d + m + k = n /\ dm = d + m
  <2> HIDE DEF d, m, k, dm
  <2> QED
    BY <1>10, <1>11
<1> QED
  BY <1>3, <1>4, <1>12 DEF CountTo

LEMMA SharedReport ==
    ASSUME NEW n \in Nat, NEW D, NEW M, NEW K,
           D \cup M \cup K = 0..(n - 1),
           D \cap M = {}, D \cap K = {}, M \cap K = {}
    PROVE  ReportIsExact([total |-> n, done |-> InOrder(D), missing |-> InOrder(M),
                          skipped |-> InOrder(K)], Cardinality(D \cup M))
<1>1. /\ IsFiniteSet(D) /\ IsFiniteSet(M) /\ IsFiniteSet(K)
      /\ Cardinality(D) + Cardinality(M) + Cardinality(K) = n
      /\ Cardinality(D \cup M) = Cardinality(D) + Cardinality(M)
  <2>1. IsFiniteSet(D) /\ IsFiniteSet(M) /\ IsFiniteSet(K)
    BY Shares
  <2>2. CountTo(n, D, M, K)
    BY Shares
  <2>3. Cardinality(D \cup M) = Cardinality(D) + Cardinality(M)
    BY Shares
  <2> QED
    BY <2>1, <2>2, <2>3 DEF CountTo
<1> DEFINE report == [total |-> n, done |-> InOrder(D), missing |-> InOrder(M),
                      skipped |-> InOrder(K)]
           R == format_index_ranges(report.missing)
<1>2. D \subseteq Int /\ M \subseteq Int /\ K \subseteq Int
  <2>1. 0..(n - 1) \subseteq Int
    OBVIOUS
  <2> QED
    BY <2>1
<1>3. Len(InOrder(D)) = Cardinality(D) /\ ToSet(InOrder(D)) = D
  BY <1>1, <1>2, Ordered
<1>4. Len(InOrder(M)) = Cardinality(M) /\ ToSet(InOrder(M)) = M
  BY <1>1, <1>2, Ordered
<1>5. Len(InOrder(K)) = Cardinality(K) /\ ToSet(InOrder(K)) = K
  BY <1>1, <1>2, Ordered
<1>6. Covered(R) = M /\ Apart(R)
  BY <1>1, <1>2, RangesExact
<1>7. /\ report.total = n /\ report.done = InOrder(D) /\ report.missing = InOrder(M)
      /\ report.skipped = InOrder(K)
  OBVIOUS
<1> HIDE DEF report
<1> QED
  BY <1>1, <1>3, <1>4, <1>5, <1>6, <1>7 DEF ReportIsExact, Apart, report

LEMMA EmptyOrdered == InOrder({}) = <<>>
<1>1. Cardinality({}) = 0
  BY FS_EmptySet
<1>2. 1..0 = {}
  OBVIOUS
<1> QED
  BY <1>1, <1>2 DEF InOrder

LEMMA DatasetReport ==
    ASSUME NEW test \in Seq(Labels), NEW stored
    PROVE  ReportIsExact(coverage_dataset(test, stored), _official_dataset_test_size(test))
<1> DEFINE n == Len(test)
           I == 0..(n - 1)
           D == {i \in I : KeyOf(test[i + 1]) \in stored}
           M == {i \in I : ~(KeyOf(test[i + 1]) \in stored)}
<1>1. n \in Nat
  OBVIOUS
<1>2. D \cup M \cup {} = I /\ D \cap M = {} /\ D \cap {} = {} /\ M \cap {} = {} /\ D \cup M = I
  OBVIOUS
<1>3. coverage_dataset(test, stored) =
         [total |-> n, done |-> InOrder(D), missing |-> InOrder(M), skipped |-> InOrder({})]
  BY EmptyOrdered DEF coverage_dataset
<1>4. Cardinality(I) = n
  <2> HIDE DEF n
  <2>1. 0 \in Int /\ n - 1 \in Int
    BY <1>1
  <2>2. Cardinality(0..(n - 1)) = IF 0 > n - 1 THEN 0 ELSE (n - 1) - 0 + 1
    BY <2>1, FS_Interval
  <2> QED
    BY <1>1, <2>2
<1>5. _official_dataset_test_size(test) = Cardinality(D \cup M)
  BY <1>2, <1>4 DEF _official_dataset_test_size
<1> HIDE DEF D, M, n
<1> QED
  BY <1>1, <1>2, <1>3, <1>5, SharedReport

LEMMA GeneratedReport ==
    ASSUME NEW test \in Seq(Labels), NEW answered
    PROVE  ReportIsExact(coverage_generated(test, answered),
                         _official_valid_question_count(test))
<1> DEFINE Q == {ex.question : ex \in ToSet(test)}
           asked == InOrder(Q)
           c == Cardinality(Q)
           I == 0..(Len(asked) - 1)
           D == {i \in I : Judgeable(test, asked[i + 1]) /\ asked[i + 1] \in answered}
           M == {i \in I : Judgeable(test, asked[i + 1]) /\ ~(asked[i + 1] \in answered)}
           K == {i \in I : ~Judgeable(test, asked[i + 1])}
           V == {q \in ToSet(asked) : Judgeable(test, q)}
<1>1. IsFiniteSet(Q) /\ Q \subseteq Int
  <2>1. Q \in SUBSET AllQuestions
    <3>1. \A ex \in ToSet(test) : ex \in Labels
      BY DEF ToSet
    <3>2. \A ex \in Labels : ex.question \in AllQuestions
      BY DEF Labels
    <3> QED
      BY <3>1, <3>2
  <2>2. IsFiniteSet(AllQuestions) /\ AllQuestions \subseteq Nat
    BY LinesAssumption
  <2> HIDE DEF Q
  <2>3. IsFiniteSet(Q)
    BY <2>1, <2>2, FS_Subset
  <2>4. \A q \in AllQuestions : q \in Int
    BY <2>2
  <2> QED
    BY <2>1, <2>3, <2>4
<1>2. QuestionsOf(test) = asked
  BY DEF QuestionsOf
<1> HIDE DEF Q
<1>3. /\ c \in Nat /\ Len(asked) = c /\ DOMAIN asked = 1..c /\ ToSet(asked) = Q
      /\ \A k \in 1..c : asked[k] \in Q
      /\ \A k, l \in 1..c : k < l => asked[k] < asked[l]
  BY <1>1, Ordered
<1> HIDE DEF asked, c
<1>4. /\ D \cup M \cup K = 0..(c - 1)
      /\ D \cap M = {} /\ D \cap K = {} /\ M \cap K = {}
      /\ D \cup M = {i \in 0..(c - 1) : Judgeable(test, asked[i + 1])}
  BY <1>3
<1>5. coverage_generated(test, answered) =
         [total |-> c, done |-> InOrder(D), missing |-> InOrder(M), skipped |-> InOrder(K)]
  BY <1>2, <1>3 DEF coverage_generated
<1>6. Cardinality(V) = Cardinality(D \cup M)
  <2> DEFINE S == D \cup M
             f == [i \in S |-> asked[i + 1]]
  <2>1. \A i \in S : i \in 0..(c - 1) /\ i + 1 \in 1..c /\ Judgeable(test, asked[i + 1])
    BY <1>3, <1>4
  <2>2. IsFiniteSet(S)
    <3>1. IsFiniteSet(0..(c - 1))
      BY <1>3, FS_Interval
    <3>2. S \in SUBSET (0..(c - 1))
      BY <1>4
    <3> QED
      BY <3>1, <3>2, FS_Subset
  <2> HIDE DEF S
  <2>3. f \in [S -> V]
    BY <1>3, <2>1
  <2>4. ASSUME NEW v \in V PROVE \E i \in S : f[i] = v
    <3>1. PICK k \in 1..c : asked[k] = v
      BY <1>3 DEF ToSet
    <3>2. k - 1 \in 0..(c - 1) /\ (k - 1) + 1 = k
      BY <1>3
    <3>3. Judgeable(test, asked[(k - 1) + 1])
      BY <3>1, <3>2
    <3>4. k - 1 \in S
      BY <1>4, <3>2, <3>3 DEF S
    <3> QED
      BY <3>1, <3>2, <3>4
  <2>5. ASSUME NEW i \in S, NEW j \in S, f[i] = f[j] PROVE i = j
    <3>1. asked[i + 1] = asked[j + 1]
      BY <2>5
    <3>2. i \in 0..(c - 1) /\ j \in 0..(c - 1) /\ i + 1 \in 1..c /\ j + 1 \in 1..c
      BY <2>1
    <3>3. asked[i + 1] \in Int
      BY <1>1, <1>3, <3>2
    <3>4. i + 1 < j + 1 => asked[i + 1] < asked[j + 1]
      BY <1>3, <3>2
    <3>5. j + 1 < i + 1 => asked[j + 1] < asked[i + 1]
      BY <1>3, <3>2
    <3> QED
      BY <3>1, <3>2, <3>3, <3>4, <3>5
  <2> HIDE DEF f, V
  <2>6. f \in Surjection(S, V) /\ f \in Injection(S, V)
    BY <2>3, <2>4, <2>5 DEF Surjection, Injection, IsInjective
  <2>7. Cardinality(V) = Cardinality(S)
    BY <2>2, <2>6, FS_Surjection
  <2> QED
    BY <2>7 DEF S
<1>7. _official_valid_question_count(test) = Cardinality(D \cup M)
  BY <1>2, <1>6 DEF _official_valid_question_count
<1> HIDE DEF D, M, K
<1> QED
  BY <1>3, <1>4, <1>5, <1>7, SharedReport

(* The report of any test part that a request can be given, against any     *)
(* content of the store: nothing is assumed of the size of the dataset, of  *)
(* the split or of the answers already stored.                              *)
THEOREM CoverageTheorem == Spec => []CoverageIsExact
<1>1. Spec => []IInv
  BY InitIInv, NextIInv, PTL DEF Spec
<1>2. IInv => CoverageIsExact
  <2> SUFFICES ASSUME IInv, NEW a \in Actors PROVE
        LET test == TestExamples(actor[a].split) IN
        /\ \A stored \in SUBSET {KeyOf(ex) : ex \in ToSet(test)} :
              ReportIsExact(coverage_dataset(test, stored),
                            _official_dataset_test_size(test))
        /\ \A answered \in SUBSET ToSet(QuestionsOf(test)) :
              ReportIsExact(coverage_generated(test, answered),
                            _official_valid_question_count(test))
    BY DEF CoverageIsExact
  <2> DEFINE test == TestExamples(actor[a].split)
  <2>1. actor[a].split \in Splits
    BY DEF IInv, Typed, ActorStates
  <2>2. test \in Seq(Labels)
    BY <2>1, TestType
  <2> HIDE DEF test
  <2>3. \A stored : ReportIsExact(coverage_dataset(test, stored),
                                  _official_dataset_test_size(test))
    BY <2>2, DatasetReport
  <2>4. \A answered : ReportIsExact(coverage_generated(test, answered),
                                    _official_valid_question_count(test))
    BY <2>2, GeneratedReport
  <2> QED
    BY <2>3, <2>4 DEF test
<1> QED BY <1>1, <1>2, PTL
===============================================================================
