--------------------------- MODULE PooledCallsProofs ---------------------------
(***************************************************************************)
(* First ParallelMap alone, for every length of the list, every number of   *)
(* threads and every set of failing elements: the inductive invariant IInv, *)
(* the absence of stray tasks, the cancellation discipline, and that the    *)
(* pool implements OrderedMap. Then, for every life of a token and bound of *)
(* the clock: the pool with the calls of the program is the pool of         *)
(* ParallelMap, and the tokens and the model that the calls share are used  *)
(* as they should be; the lock is released, and every step brings the end   *)
(* of the call nearer.                                                      *)
(***************************************************************************)
EXTENDS PooledCalls, FiniteSetTheorems, TLAPS

USE DEF Items, Running, Queued, NextRank

(* The invariant holds before the call starts. *)
LEMMA InitIInv == Init => IInv
  BY MaxItemsAssumption, WorkerChoicesAssumption
     DEF Init, IInv, TypeOK, AnswerInv, CallerInv, TaskStates, Callers

(* Every step of the caller and of the pool preserves it. *)
LEMMA NextIInv == IInv /\ [Next]_vars => IInv'
<1> SUFFICES ASSUME IInv, [Next]_vars PROVE IInv'
  OBVIOUS
<1> USE DEF IInv, TypeOK, AnswerInv, CallerInv, TaskStates, Callers, args
<1>1. CASE Enter
  BY <1>1 DEF Enter
<1>2. CASE RunInline
  <2> DEFINE i == NextRank
  <2>0. i \in Items /\ caller = "inline" /\ task[i] \notin {"cancelled"}
    BY <1>2 DEF RunInline
  <2>1. CASE i \in fails
    <3>1. /\ task' = [task EXCEPT ![i] = "failed"]
          /\ caller' = "raised" /\ error' = i
          /\ UNCHANGED <<n, maxWorkers, fails, collected>>
      BY <1>2, <2>1 DEF RunInline
    <3> HIDE DEF i
    <3>2. i = Len(collected) + 1 /\ Len(collected) < n
      BY <2>0 DEF i
    <3>3. TypeOK' /\ AnswerInv'
      BY <2>0, <2>1, <3>1, <3>2
    <3>4. CallerInv'
      BY <2>0, <2>1, <3>1, <3>2
    <3>5. QED
      BY <3>3, <3>4
  <2>2. CASE i \notin fails
    <3>1. /\ task' = [task EXCEPT ![i] = "done"]
          /\ collected' = Append(collected, i)
          /\ caller' = IF i = n THEN "returned" ELSE "inline"
          /\ UNCHANGED <<n, maxWorkers, fails, error>>
      BY <1>2, <2>2 DEF RunInline
    <3> HIDE DEF i
    <3>2. i = Len(collected) + 1 /\ Len(collected) < n
      BY <2>0 DEF i
    <3>3. TypeOK' /\ AnswerInv'
      BY <2>0, <2>2, <3>1, <3>2
    <3>4. CallerInv'
      BY <2>0, <2>2, <3>1, <3>2
    <3>5. QED
      BY <3>3, <3>4
  <2>3. QED
    BY <2>1, <2>2
<1>3. ASSUME NEW i \in Items, Submit(i) PROVE IInv'
  BY <1>3 DEF Submit
<1>4. ASSUME NEW i \in Items, Read(i) PROVE IInv'
  BY <1>4 DEF Read
<1>5. ASSUME NEW i \in Items, ReadFailure(i) PROVE IInv'
  BY <1>5 DEF ReadFailure
<1>6. ASSUME NEW i \in Items, Cancel(i) PROVE IInv'
  BY <1>6 DEF Cancel
<1>7. CASE CancelDone
  BY <1>7 DEF CancelDone
<1>8. CASE Exit
  BY <1>8 DEF Exit
<1>9. ASSUME NEW i \in Items, Start(i) PROVE IInv'
  BY <1>9 DEF Start
<1>10. ASSUME NEW i \in Items, Finish(i) PROVE IInv'
  BY <1>10 DEF Finish
<1>11. CASE UNCHANGED vars
  BY <1>11 DEF vars
<1>12. QED
  BY <1>1, <1>2, <1>3, <1>4, <1>5, <1>6, <1>7, <1>8, <1>9, <1>10, <1>11
     DEF Next, Call, Pool, Done

(* The inductive invariant, for every value of the constants. *)
THEOREM Invariant == Spec => []IInv
  BY InitIInv, NextIInv, PTL DEF Spec

(* Once `map_parallele` has come back, none of its tasks runs or may start. *)
THEOREM NothingLeftRunning == Spec => []NoStrayTask
<1>1. IInv => NoStrayTask
  BY DEF IInv, CallerInv, NoStrayTask, Finished
<1>2. QED
  BY <1>1, Invariant, PTL

(* A cancellation never discards a result or an exception: it only hits     *)
(* futures that no thread has taken, behind the one whose failure is being  *)
(* reported.                                                                *)
THEOREM CancellationIsSafe == Spec => CancelOnlyUnstarted
<1>1. IInv /\ [Next]_vars => [CancelStep]_vars
  <2> SUFFICES ASSUME IInv, Next PROVE CancelStep
    OBVIOUS
  <2> USE DEF IInv, TypeOK, AnswerInv, CallerInv, TaskStates, args,
              CancelStep
  <2>1. CASE RunInline
    BY <2>1 DEF RunInline
  <2>2. ASSUME NEW i \in Items, Cancel(i) PROVE CancelStep
    BY <2>2 DEF Cancel
  <2>3. ASSUME NEW i \in Items,
               Submit(i) \/ Start(i) \/ Finish(i)
        PROVE CancelStep
    BY <2>3 DEF Submit, Start, Finish
  <2>4. CASE UNCHANGED task
    BY <2>4
  <2>5. QED
    BY <2>1, <2>2, <2>3, <2>4
       DEF Next, Call, Pool, Done, vars, Enter, Read, ReadFailure, CancelDone,
           Exit
<1>2. QED
  BY <1>1, Invariant, PTL DEF Spec, CancelOnlyUnstarted

-------------------------------------------------------------------------------
(* The answer, when it comes, is the one the contract allows. *)
LEMMA AnswerIsCorrect ==
    IInv /\ Finished => Abstract!Correct(Outcome)
<1> SUFFICES ASSUME IInv, caller \in {"returned", "raised"}
             PROVE  Abstract!Correct(Outcome)
  BY DEF Finished
<1> USE DEF IInv, TypeOK, AnswerInv, CallerInv
<1>1. CASE caller = "returned"
  <2>1. fails = {}
    BY <1>1
  <2>2. collected = [i \in 1..n |-> i]
    BY <1>1
  <2>3. QED
    BY <1>1, <2>1, <2>2 DEF Outcome, Abstract!Correct, Abstract!Returned
<1>2. CASE caller = "raised"
  <2>1. error \in fails /\ \A j \in fails : error <= j
    BY <1>2
  <2>2. Outcome = Abstract!Raised(error)
    BY <1>2 DEF Outcome, Abstract!Raised
  <2>3. QED
    BY <2>1, <2>2 DEF Abstract!Correct
<1>3. QED
  BY <1>1, <1>2

(* The pool implements the ordered map: whatever the interleaving, the      *)
(* caller sees one atomic answer, in input order (docstring of              *)
(* map_parallele).                                                          *)
THEOREM Refinement == Spec => ImplementsOrderedMap
<1>1. Init => Abstract!Init
  BY DEF Init, Abstract!Init, Outcome, Abstract!Pending
<1>2. (IInv /\ Finished => Abstract!Correct(Outcome))'
  BY AnswerIsCorrect, PTL
<1>3. IInv /\ IInv' /\ [Next]_vars => [Abstract!Answer]_(Abstract!vars)
  <2> SUFFICES ASSUME IInv, IInv', [Next]_vars
               PROVE  [Abstract!Answer]_(Abstract!vars)
    OBVIOUS
  <2>1. UNCHANGED <<n, maxWorkers, fails>>
    BY DEF Next, Call, Pool, Done, vars, args, Enter, RunInline, Submit, Read,
           ReadFailure, Cancel, CancelDone, Exit, Start, Finish
  <2>2. CASE Finished
    <3>1. UNCHANGED vars
      BY <2>2 DEF Finished, Next, Call, Pool, Done, vars, Enter, RunInline,
                  Submit, Read, ReadFailure, Cancel, CancelDone, Exit, Start,
                  Finish, IInv, CallerInv
    <3>2. QED
      BY <3>1 DEF vars, Abstract!vars, Outcome
  <2>3. CASE ~Finished /\ ~Finished'
    BY <2>1, <2>3 DEF Abstract!vars, Outcome, Finished
  <2>4. CASE ~Finished /\ Finished'
    <3>1. Outcome = Abstract!Pending
      BY <2>4 DEF Outcome, Abstract!Pending, Finished
    <3>2. Abstract!Correct(Outcome)'
      BY <2>4, <1>2
    <3>3. QED
      BY <2>1, <3>1, <3>2 DEF Abstract!Answer, Abstract!Correct
  <2>5. QED
    BY <2>2, <2>3, <2>4
<1>4. QED
  BY <1>1, <1>3, Invariant, PTL DEF Spec, Abstract!Spec, ImplementsOrderedMap

-------------------------------------------------------------------------------
(* The steps of the calls are invisible to the pool.                        *)
LEMMA PInitIsInit == PInit => Init
  BY DEF PInit

LEMMA PNextIsNext == [PNext]_pvars => [Next]_vars
<1> SUFFICES ASSUME [PNext]_pvars PROVE [Next]_vars
  OBVIOUS
<1>1. CASE PCall
  BY <1>1 DEF PCall, Next
<1>2. CASE PPool
  BY <1>2 DEF PPool, Next, Pool
<1>3. CASE Working
  BY <1>3 DEF Working
<1>4. CASE Tick
  BY <1>4 DEF Tick
<1>5. CASE PDone \/ UNCHANGED pvars
  BY <1>5 DEF PDone, pvars
<1> QED BY <1>1, <1>2, <1>3, <1>4, <1>5 DEF PNext

THEOREM PoolImplementsMap == PSpec => Spec
  BY PInitIsInit, PNextIsNext, PTL DEF PSpec, Spec

(* The list of calls that the program makes implements the sequential map,  *)
(* whatever the calls share.                                                *)
THEOREM PooledRefinement == PSpec => ImplementsOrderedMap
  BY PoolImplementsMap, Refinement, PTL

THEOREM PooledInvariant == PSpec => []IInv
  BY PoolImplementsMap, Invariant, PTL

-------------------------------------------------------------------------------
(* The list itself never changes.                                           *)
LEMMA SameItems == [PNext]_pvars => n' = n
  BY PNextIsNext
     DEF Next, Call, Pool, Done, Enter, RunInline, Submit, Read, ReadFailure,
         Cancel, CancelDone, Exit, Start, Finish, vars, args

LEMMA Quiet == ASSUME PIInv, n' = n, UNCHANGED <<shared, mine>> PROVE PIInv'
  BY DEF PIInv, StepInv, ValueInv, CloudInv, StoreInv, ScoreInv, Items, shared, mine,
         ollama, firestore

LEMMA PInitInv == PInit => PIInv
<1> SUFFICES ASSUME PInit PROVE PIInv
  OBVIOUS
<1>1. n \in Nat
  BY MaxItemsAssumption DEF PInit, Init
<1>2. StepInv /\ ValueInv
  BY <1>1, MarginAssumption
     DEF PInit, StepInv, ValueInv, Steps, StepKind, NoToken, NoHeader, OldToken, NoModel,
            Preload, AtStart
<1>3. CloudInv /\ StoreInv /\ ScoreInv
  BY DEF PInit, CloudInv, StoreInv, ScoreInv
<1> QED BY <1>2, <1>3 DEF PIInv

(* What StoreInv says of one call.                                          *)
StoreOf(i) ==
    /\ i \in refused => step[i] # "called"
    /\ step[i] \in {"assigning", "expiring", "reading", "sending"}
          => now <= since[i] + MaxDelay
    /\ step[i] \in {"assigning", "expiring"}
          => held[i] > since[i] + MaxDelay + MaxDelay
    /\ step[i] = "expiring" \/ (step[i] = "reading" /\ i \in refused)
          => token > since[i] + MaxDelay
    /\ step[i] = "sending" /\ i \in refused => held[i] > since[i] + MaxDelay

LEMMA PNextInv == PIInv /\ [PNext]_pvars => PIInv'
<1> SUFFICES ASSUME PIInv, [PNext]_pvars PROVE PIInv'
  OBVIOUS
<1> USE LivesAssumption, MarginAssumption
<1>0. n' = n /\ Items' = Items
  BY SameItems DEF Items
<1>a. CASE PCall \/ PPool \/ PDone \/ UNCHANGED pvars
  BY <1>a, <1>0, Quiet DEF PCall, PPool, PDone, pvars
<1>b. CASE Tick
  BY <1>b, <1>0
     DEF Tick, PIInv, StepInv, ValueInv, CloudInv, StoreInv, ScoreInv, Items, mine,
            ollama, firestore
<1>c. CASE Working
  <2> USE DEF At, Goto, Items, shared, mine, ollama, firestore
  <2> PICK i \in Items : Fn(i)
    BY <1>c DEF Working
  <2>1. CASE AskClient(i)
    <3>0. kind' = kind /\ kind \in {"local", "cloud"}
      BY <2>1 DEF AskClient, Acquire, valid
    <3>b. /\ step[i] = "called" /\ lock = 0 /\ lock' = i
          /\ since' = [since EXCEPT ![i] = now]
          /\ \/ step' = [step EXCEPT ![i] = "refreshing"]
             \/ /\ step' = [step EXCEPT ![i] = "building"]
                /\ kind = "cloud" => valid
          /\ UNCHANGED <<kind, now, credentials, client, held>>
      BY <2>1, <3>0 DEF AskClient, Acquire
    <3>1. StepInv'
      BY <2>1, <1>0
         DEF AskClient, Acquire, valid, PIInv, StepInv, Steps, StepKind, Ended
    <3>2. ValueInv'
      BY <2>1, <1>0
         DEF AskClient, Acquire, valid, PIInv, StepInv, ValueInv, NoToken,
             NoHeader
    <3>3. CloudInv'
      BY <1>0, <3>0, <3>b DEF PIInv, StepInv, ValueInv, CloudInv, NoToken, NoHeader, valid
    <3>4. StoreInv'
      BY <3>0 DEF StoreInv
    <3>5. ScoreInv'
      BY <3>0 DEF ScoreInv
    <3> QED BY <3>1, <3>2, <3>3, <3>4, <3>5 DEF PIInv
  <2>2. CASE RefreshRaises(i)
    <3>0. kind' = kind /\ kind \in {"local", "cloud"}
      BY <2>2 DEF RefreshRaises, RaiseUnderLock, PIInv, StepInv, StepKind
    <3>b. /\ step[i] = "refreshing" /\ step' = [step EXCEPT ![i] = "raised"]
          /\ UNCHANGED <<kind, now, credentials, client, held, since>>
          /\ lock' = 0
      BY <2>2, <3>0 DEF RefreshRaises, RaiseUnderLock
    <3>1. StepInv'
      BY <2>2, <1>0
         DEF RefreshRaises, RaiseUnderLock, PIInv, StepInv, Steps, StepKind, Ended
    <3>2. ValueInv'
      BY <2>2, <1>0
         DEF RefreshRaises, RaiseUnderLock, PIInv, StepInv, ValueInv, NoToken,
             NoHeader
    <3>3. CloudInv'
      BY <1>0, <3>0, <3>b DEF PIInv, StepInv, ValueInv, CloudInv, NoToken, NoHeader
    <3>4. StoreInv'
      BY <3>0 DEF StoreInv
    <3>5. ScoreInv'
      BY <3>0 DEF ScoreInv
    <3> QED BY <3>1, <3>2, <3>3, <3>4, <3>5 DEF PIInv
  <2>2e. CASE EmptyToken(i)
    <3>0. kind' = kind /\ kind \in {"local", "cloud"}
      BY <2>2e DEF EmptyToken, RaiseUnderLock, PIInv, StepInv, StepKind
    <3>b. /\ step[i] = "refreshing" /\ step' = [step EXCEPT ![i] = "raised"]
          /\ credentials' = NoToken /\ UNCHANGED <<kind, now, client, held, since>>
          /\ lock' = 0
      BY <2>2e, <3>0 DEF EmptyToken, RaiseUnderLock
    <3>1. StepInv'
      BY <2>2e, <1>0
         DEF EmptyToken, RaiseUnderLock, PIInv, StepInv, Steps, StepKind, Ended
    <3>2. ValueInv'
      BY <2>2e, <1>0
         DEF EmptyToken, RaiseUnderLock, PIInv, StepInv, ValueInv, NoToken,
             NoHeader
    <3>3. CloudInv'
      BY <1>0, <3>0, <3>b DEF PIInv, StepInv, ValueInv, CloudInv, NoToken, NoHeader
    <3>4. StoreInv'
      BY <3>0 DEF StoreInv
    <3>5. ScoreInv'
      BY <3>0 DEF ScoreInv
    <3> QED BY <3>1, <3>2, <3>3, <3>4, <3>5 DEF PIInv
  <2>3. CASE Refresh(i)
    <3>0. kind' = kind /\ kind \in {"local", "cloud"}
      BY <2>3 DEF Refresh, PIInv, StepInv, StepKind
    <3>a. credentials' \in Int /\ credentials' > now + MaxDelay
      BY <2>3 DEF Refresh, PIInv, ValueInv
    <3>b. /\ step[i] = "refreshing" /\ step' = [step EXCEPT ![i] = "building"]
          /\ client' = NoToken /\ since' = [since EXCEPT ![i] = now]
          /\ UNCHANGED <<kind, lock, now, held>>
      BY <2>3, <3>0 DEF Refresh
    <3>1. StepInv'
      BY <2>3, <1>0 DEF Refresh, PIInv, StepInv, Steps, StepKind, Ended
    <3>2. ValueInv'
      BY <2>3, <1>0, <3>a DEF Refresh, PIInv, StepInv, ValueInv, NoToken, NoHeader
    <3>3. CloudInv'
      BY <1>0, <3>a, <3>0, <3>b
         DEF PIInv, StepInv, ValueInv, CloudInv, NoToken, NoHeader
    <3>4. StoreInv'
      BY <3>0 DEF StoreInv
    <3>5. ScoreInv'
      BY <3>0 DEF ScoreInv
    <3> QED BY <3>1, <3>2, <3>3, <3>4, <3>5 DEF PIInv
  <2>4. CASE BuildClient(i)
    <3>0. kind' = kind /\ kind \in {"local", "cloud"}
      BY <2>4 DEF BuildClient, PIInv, StepInv, StepKind
    <3>b. /\ step[i] = "building" /\ step' = [step EXCEPT ![i] = "sending"]
          /\ client' = IF client # NoToken THEN client
                          ELSE IF kind = "local" THEN NoHeader ELSE credentials
          /\ lock' = 0 /\ held' = [held EXCEPT ![i] = client']
          /\ UNCHANGED <<kind, now, credentials, since>>
      BY <2>4, <3>0 DEF BuildClient
    <3>1. StepInv'
      BY <2>4, <1>0 DEF BuildClient, PIInv, StepInv, Steps, StepKind, Ended
    <3>2. ValueInv'
      BY <2>4, <1>0 DEF BuildClient, PIInv, StepInv, ValueInv, NoToken, NoHeader
    <3>3. CloudInv'
      BY <1>0, <3>0, <3>b DEF PIInv, StepInv, ValueInv, CloudInv, NoToken, NoHeader
    <3>4. StoreInv'
      BY <3>0 DEF StoreInv
    <3>5. ScoreInv'
      BY <3>0 DEF ScoreInv
    <3> QED BY <3>1, <3>2, <3>3, <3>4, <3>5 DEF PIInv
  <2>5. CASE Received(i)
    <3>1. StepInv'
      BY <2>5, <1>0 DEF Received, PIInv, StepInv, Steps, StepKind, Ended
    <3>2. ValueInv'
      BY <2>5, <1>0 DEF Received, PIInv, StepInv, ValueInv, NoToken, NoHeader
    <3>3. CloudInv'
      BY <2>5, <1>0
         DEF Received, PIInv, StepInv, ValueInv, CloudInv, StepKind, NoToken, NoHeader
    <3>4. StoreInv'
      BY <2>5, <1>0
         DEF Received, PIInv, StepInv, ValueInv, StoreInv, StepKind, NoToken
    <3>5. ScoreInv'
      BY <2>5, <1>0
         DEF Received, PIInv, StepInv, ValueInv, ScoreInv, StepKind, NoModel
    <3> QED BY <3>1, <3>2, <3>3, <3>4, <3>5 DEF PIInv
  <2>6. CASE Answered(i)
    <3>1. StepInv'
      BY <2>6, <1>0 DEF Answered, PIInv, StepInv, Steps, StepKind, Ended
    <3>2. ValueInv'
      BY <2>6, <1>0 DEF Answered, PIInv, StepInv, ValueInv, NoToken, NoHeader
    <3>3. CloudInv'
      BY <2>6, <1>0
         DEF Answered, PIInv, StepInv, ValueInv, CloudInv, StepKind, NoToken, NoHeader
    <3>4. StoreInv'
      BY <2>6, <1>0
         DEF Answered, PIInv, StepInv, ValueInv, StoreInv, StepKind, NoToken
    <3>5. ScoreInv'
      BY <2>6, <1>0
         DEF Answered, PIInv, StepInv, ValueInv, ScoreInv, StepKind, NoModel
    <3> QED BY <3>1, <3>2, <3>3, <3>4, <3>5 DEF PIInv
  <2>7. CASE AskHeaders(i)
    <3>0. kind' = kind /\ kind = "store"
      BY <2>7 DEF AskHeaders
    <3>b. /\ step[i] = "called" /\ since' = [since EXCEPT ![i] = now]
          /\ \/ step' = [step EXCEPT ![i] = "fetching"]
             \/ step' = [step EXCEPT ![i] = "reading"]
          /\ UNCHANGED <<kind, now, token, held, refused>>
      BY <2>7, <3>0 DEF AskHeaders
    <3>1. StepInv'
      BY <2>7, <1>0 DEF AskHeaders, PIInv, StepInv, Steps, StepKind, Ended
    <3>2. ValueInv'
      BY <2>7, <1>0 DEF AskHeaders, PIInv, StepInv, ValueInv, NoToken, NoHeader
    <3>3. CloudInv'
      BY <3>0 DEF CloudInv
    <3>4. StoreInv'
      BY <1>0, <3>0, <3>b DEF PIInv, StepInv, ValueInv, StoreInv, NoToken
    <3>5. ScoreInv'
      BY <3>0 DEF ScoreInv
    <3> QED BY <3>1, <3>2, <3>3, <3>4, <3>5 DEF PIInv
  <2>8. CASE AccessToken(i)
    <3>0. kind' = kind /\ kind = "store"
      BY <2>8 DEF AccessToken, PIInv, StepInv, StepKind
    <3>a. \/ \E life \in Nat : /\ life > MaxDelay + MaxDelay
                               /\ held' = [held EXCEPT ![i] = now + life]
                               /\ step' = [step EXCEPT ![i] = "assigning"]
          \/ held' = held /\ step' = [step EXCEPT ![i] = "raised"]
      BY <2>8 DEF AccessToken
    <3>b. /\ step[i] = "fetching" /\ since' = [since EXCEPT ![i] = now]
          /\ UNCHANGED <<kind, lock, credentials, client, token, expiry, model, now, refused>>
      BY <2>8, <3>0 DEF AccessToken
    <3>1. StepInv'
      BY <2>8, <1>0 DEF AccessToken, PIInv, StepInv, Steps, StepKind, Ended
    <3>2. ValueInv'
      BY <2>8, <1>0, <3>a
         DEF AccessToken, PIInv, StepInv, ValueInv, NoToken, NoHeader
    <3>3. CloudInv'
      BY <3>0 DEF CloudInv
    <3>4. StoreInv'
      <4>1. ASSUME NEW life \in Nat, life > MaxDelay + MaxDelay,
                   held' = [held EXCEPT ![i] = now + life],
                   step' = [step EXCEPT ![i] = "assigning"]
            PROVE  StoreInv'
        BY <1>0, <3>0, <3>b, <4>1 DEF PIInv, StepInv, ValueInv, StoreInv
      <4>2. CASE held' = held /\ step' = [step EXCEPT ![i] = "raised"]
        BY <1>0, <3>0, <3>b, <4>2 DEF PIInv, StepInv, ValueInv, StoreInv
      <4> QED BY <3>a, <4>1, <4>2
    <3>5. ScoreInv'
      BY <3>0 DEF ScoreInv
    <3> QED BY <3>1, <3>2, <3>3, <3>4, <3>5 DEF PIInv
  <2>9. CASE AssignToken(i)
    <3>0. kind' = kind /\ kind = "store"
      BY <2>9 DEF AssignToken, PIInv, StepInv, StepKind
    <3>b. /\ step[i] = "assigning" /\ token' = held[i]
          /\ step' = [step EXCEPT ![i] = "expiring"]
          /\ UNCHANGED <<kind, now, held, since, refused>>
      BY <2>9, <3>0 DEF AssignToken
    <3>1. StepInv'
      BY <2>9, <1>0 DEF AssignToken, PIInv, StepInv, Steps, StepKind, Ended
    <3>2. ValueInv'
      BY <2>9, <1>0 DEF AssignToken, PIInv, StepInv, ValueInv, NoToken, NoHeader
    <3>3. CloudInv'
      BY <3>0 DEF CloudInv
    <3>4. StoreInv'
      <4>1. /\ step[i] = "assigning" /\ token' = held[i]
            /\ step' = [step EXCEPT ![i] = "expiring"]
            /\ UNCHANGED <<kind, now, held, since, refused>>
        BY <2>9 DEF AssignToken
      <4>2. SUFFICES ASSUME kind = "store", NEW j \in Items
                     PROVE  StoreOf(j)'
        BY <1>0, <4>1 DEF StoreInv, StoreOf, PIInv, StepInv
      <4>3. StoreOf(i) /\ StoreOf(j)
        BY <1>0, <4>2 DEF PIInv, StoreInv, StoreOf
      <4>4. /\ step \in [Items -> Steps] /\ MaxDelay \in Nat /\ now \in Nat
            /\ held[i] \in Int /\ since[i] \in Nat /\ since[j] \in Nat /\ since[j] <= now
        BY <1>0 DEF PIInv, StepInv, ValueInv
      <4>5. held[i] > since[i] + MaxDelay + MaxDelay /\ now <= since[i] + MaxDelay
        BY <4>1, <4>3 DEF StoreOf
      <4>6. token' > since[j] + MaxDelay
        BY <4>1, <4>4, <4>5
      <4>7. CASE j = i
        BY <4>1, <4>3, <4>4, <4>5, <4>6, <4>7 DEF StoreOf
      <4>8. CASE j # i
        BY <4>1, <4>3, <4>4, <4>6, <4>8 DEF StoreOf
      <4> QED BY <4>7, <4>8
    <3>5. ScoreInv'
      BY <3>0 DEF ScoreInv
    <3> QED BY <3>1, <3>2, <3>3, <3>4, <3>5 DEF PIInv
  <2>10. CASE AssignExpiry(i)
    <3>0. kind' = kind /\ kind = "store"
      BY <2>10 DEF AssignExpiry, PIInv, StepInv, StepKind
    <3>b. /\ step[i] = "expiring" /\ step' = [step EXCEPT ![i] = "reading"]
          /\ UNCHANGED <<kind, now, token, held, since, refused>>
      BY <2>10, <3>0 DEF AssignExpiry
    <3>1. StepInv'
      BY <2>10, <1>0 DEF AssignExpiry, PIInv, StepInv, Steps, StepKind, Ended
    <3>2. ValueInv'
      BY <2>10, <1>0 DEF AssignExpiry, PIInv, StepInv, ValueInv, NoToken, NoHeader
    <3>3. CloudInv'
      BY <3>0 DEF CloudInv
    <3>4. StoreInv'
      BY <1>0, <3>0, <3>b DEF PIInv, StepInv, ValueInv, StoreInv, NoToken
    <3>5. ScoreInv'
      BY <3>0 DEF ScoreInv
    <3> QED BY <3>1, <3>2, <3>3, <3>4, <3>5 DEF PIInv
  <2>11. CASE ReadToken(i)
    <3>0. kind' = kind /\ kind = "store"
      BY <2>11 DEF ReadToken, PIInv, StepInv, StepKind
    <3>b. /\ step[i] = "reading" /\ step' = [step EXCEPT ![i] = "sending"]
          /\ held' = [held EXCEPT ![i] = token]
          /\ UNCHANGED <<kind, now, token, since, refused>>
      BY <2>11, <3>0 DEF ReadToken
    <3>1. StepInv'
      BY <2>11, <1>0 DEF ReadToken, PIInv, StepInv, Steps, StepKind, Ended
    <3>2. ValueInv'
      BY <2>11, <1>0 DEF ReadToken, PIInv, StepInv, ValueInv, NoToken, NoHeader
    <3>3. CloudInv'
      BY <3>0 DEF CloudInv
    <3>4. StoreInv'
      BY <1>0, <3>0, <3>b DEF PIInv, StepInv, ValueInv, StoreInv, NoToken
    <3>5. ScoreInv'
      BY <3>0 DEF ScoreInv
    <3> QED BY <3>1, <3>2, <3>3, <3>4, <3>5 DEF PIInv
  <2>12. CASE Unauthorized(i)
    <3>0. kind' = kind /\ kind = "store"
      BY <2>12 DEF Unauthorized, PIInv, StepInv, StepKind
    <3>b. /\ step[i] = "sending" /\ step' = [step EXCEPT ![i] = "fetching"]
          /\ refused' = refused \cup {i}
          /\ UNCHANGED <<kind, now, token, held, since>>
      BY <2>12, <3>0 DEF Unauthorized
    <3>1. StepInv'
      BY <2>12, <1>0 DEF Unauthorized, PIInv, StepInv, Steps, StepKind, Ended
    <3>2. ValueInv'
      BY <2>12, <1>0 DEF Unauthorized, PIInv, StepInv, ValueInv, NoToken, NoHeader
    <3>3. CloudInv'
      BY <3>0 DEF CloudInv
    <3>4. StoreInv'
      BY <1>0, <3>0, <3>b DEF PIInv, StepInv, ValueInv, StoreInv, NoToken
    <3>5. ScoreInv'
      BY <3>0 DEF ScoreInv
    <3> QED BY <3>1, <3>2, <3>3, <3>4, <3>5 DEF PIInv
  <2>13. CASE FirstCheck(i)
    <3>0. kind' = kind /\ kind = "score"
      BY <2>13 DEF FirstCheck
    <3>b. /\ step[i] = "called"
          /\ step' = [step EXCEPT ![i] = IF model = NoModel THEN "waiting" ELSE "got"]
          /\ UNCHANGED <<kind, lock, model, held>>
      BY <2>13, <3>0 DEF FirstCheck
    <3>1. StepInv'
      BY <2>13, <1>0 DEF FirstCheck, PIInv, StepInv, Steps, StepKind, Ended
    <3>2. ValueInv'
      BY <2>13, <1>0 DEF FirstCheck, PIInv, StepInv, ValueInv, NoToken, NoHeader
    <3>3. CloudInv'
      BY <3>0 DEF CloudInv
    <3>4. StoreInv'
      BY <3>0 DEF StoreInv
    <3>5. ScoreInv'
      BY <1>0, <3>0, <3>b DEF PIInv, StepInv, ValueInv, ScoreInv, NoModel
    <3> QED BY <3>1, <3>2, <3>3, <3>4, <3>5 DEF PIInv
  <2>14. CASE SecondCheck(i)
    <3>0. kind' = kind /\ kind = "score"
      BY <2>14 DEF SecondCheck, Acquire, PIInv, StepInv, StepKind
    <3>b. /\ step[i] = "waiting" /\ lock = 0
          /\ \/ /\ model = NoModel /\ lock' = i
                /\ step' = [step EXCEPT ![i] = "loading"]
             \/ /\ model # NoModel /\ lock' = lock
                /\ step' = [step EXCEPT ![i] = "got"]
          /\ UNCHANGED <<kind, model, held>>
      BY <2>14, <3>0 DEF SecondCheck, Acquire
    <3>1. StepInv'
      BY <2>14, <1>0
         DEF SecondCheck, Acquire, PIInv, StepInv, Steps, StepKind, Ended
    <3>2. ValueInv'
      BY <2>14, <1>0
         DEF SecondCheck, Acquire, PIInv, StepInv, ValueInv, NoToken, NoHeader
    <3>3. CloudInv'
      BY <3>0 DEF CloudInv
    <3>4. StoreInv'
      BY <3>0 DEF StoreInv
    <3>5. ScoreInv'
      BY <1>0, <3>0, <3>b DEF PIInv, StepInv, ValueInv, ScoreInv, NoModel
    <3> QED BY <3>1, <3>2, <3>3, <3>4, <3>5 DEF PIInv
  <2>15. CASE LoadFails(i)
    <3>0. kind' = kind /\ kind = "score"
      BY <2>15 DEF LoadFails, RaiseUnderLock, PIInv, StepInv, StepKind
    <3>b. /\ step[i] = "loading" /\ step' = [step EXCEPT ![i] = "raised"]
          /\ lock' = 0
          /\ UNCHANGED <<kind, model, held>>
      BY <2>15, <3>0 DEF LoadFails, RaiseUnderLock
    <3>1. StepInv'
      BY <2>15, <1>0
         DEF LoadFails, RaiseUnderLock, PIInv, StepInv, Steps, StepKind, Ended
    <3>2. ValueInv'
      BY <2>15, <1>0
         DEF LoadFails, RaiseUnderLock, PIInv, StepInv, ValueInv, NoToken,
             NoHeader
    <3>3. CloudInv'
      BY <3>0 DEF CloudInv
    <3>4. StoreInv'
      BY <3>0 DEF StoreInv
    <3>5. ScoreInv'
      BY <1>0, <3>0, <3>b DEF PIInv, StepInv, ValueInv, ScoreInv, NoModel
    <3> QED BY <3>1, <3>2, <3>3, <3>4, <3>5 DEF PIInv
  <2>16. CASE Load(i)
    <3>0. kind' = kind /\ kind = "score"
      BY <2>16 DEF Load, PIInv, StepInv, StepKind
    <3>b. /\ step[i] = "loading" /\ step' = [step EXCEPT ![i] = "got"]
          /\ lock' = 0 /\ model' = i
          /\ UNCHANGED <<kind, held>>
      BY <2>16, <3>0 DEF Load
    <3>1. StepInv'
      BY <2>16, <1>0 DEF Load, PIInv, StepInv, Steps, StepKind, Ended
    <3>2. ValueInv'
      BY <2>16, <1>0 DEF Load, PIInv, StepInv, ValueInv, NoToken, NoHeader
    <3>3. CloudInv'
      BY <3>0 DEF CloudInv
    <3>4. StoreInv'
      BY <3>0 DEF StoreInv
    <3>5. ScoreInv'
      BY <1>0, <3>0, <3>b DEF PIInv, StepInv, ValueInv, ScoreInv, NoModel
    <3> QED BY <3>1, <3>2, <3>3, <3>4, <3>5 DEF PIInv
  <2>17. CASE UseModel(i)
    <3>0. kind' = kind /\ kind = "score"
      BY <2>17 DEF UseModel, PIInv, StepInv, StepKind
    <3>b. /\ step[i] = "got" /\ step' = [step EXCEPT ![i] = "answering"]
          /\ held' = [held EXCEPT ![i] = model]
          /\ UNCHANGED <<kind, lock, model>>
      BY <2>17, <3>0 DEF UseModel
    <3>1. StepInv'
      BY <2>17, <1>0 DEF UseModel, PIInv, StepInv, Steps, StepKind, Ended
    <3>2. ValueInv'
      BY <2>17, <1>0 DEF UseModel, PIInv, StepInv, ValueInv, NoToken, NoHeader
    <3>3. CloudInv'
      BY <3>0 DEF CloudInv
    <3>4. StoreInv'
      BY <3>0 DEF StoreInv
    <3>5. ScoreInv'
      BY <1>0, <3>0, <3>b DEF PIInv, StepInv, ValueInv, ScoreInv, NoModel
    <3> QED BY <3>1, <3>2, <3>3, <3>4, <3>5 DEF PIInv
  <2> QED
    BY <2>1, <2>2, <2>2e, <2>3, <2>4, <2>5, <2>6, <2>7, <2>8, <2>9, <2>10, <2>11,
       <2>12, <2>13, <2>14, <2>15, <2>16, <2>17
     DEF Fn
<1> QED BY <1>a, <1>b, <1>c DEF PNext

THEOREM SharedInvariant == PSpec => []PIInv
  BY PInitInv, PNextInv, PTL DEF PSpec

(* No call of a list leaves with a token that dies before it is checked,    *)
(* the first attempt on Firestore excepted.                                 *)
THEOREM NoDeadTokenTheorem == PSpec => []NoDeadToken
<1>1. PIInv => NoDeadToken
  BY MarginAssumption DEF PIInv, StepInv, ValueInv, CloudInv, StoreInv, NoDeadToken
<1> QED BY <1>1, SharedInvariant, PTL

(* All the scores of a list come from one model.                            *)
THEOREM OneModelTheorem == PSpec => []OneModel
<1>1. PIInv => OneModel
  BY DEF PIInv, ScoreInv, OneModel
<1> QED BY <1>1, SharedInvariant, PTL

-------------------------------------------------------------------------------
(***************************************************************************)
(* The lock. Only the call that holds it is under it, and only a call that  *)
(* has ended leaves its thread.                                             *)
(***************************************************************************)
LEMMA LockStep ==
    ASSUME IInv, PIInv, LockInv, n' = n, UNCHANGED vars, NEW i \in Items, Executing(i),
           NEW s \in Steps, step' = [step EXCEPT ![i] = s],
           \/ lock' = lock /\ (step[i] \in UnderLock <=> s \in UnderLock)
           \/ lock = 0 /\ lock' = i /\ s \in UnderLock
           \/ step[i] \in UnderLock /\ lock' = 0 /\ s \notin UnderLock
    PROVE  LockInv'
<1>1. step \in [Items -> Steps] /\ Items' = Items /\ 0 \notin Items
  BY DEF PIInv, StepInv, Items
<1>2. step'[i] = s /\ \A j \in Items \ {i} : step'[j] = step[j]
  BY <1>1
<1>4. \A j \in Items : step[j] \in UnderLock => lock = j
  BY DEF LockInv
<1>5. lock # 0 => lock \in Items /\ step[lock] \in UnderLock /\ Executing(lock)
  BY DEF LockInv
<1>6. \A j \in Items : step'[j] \in UnderLock => lock' = j
  BY <1>1, <1>2, <1>4, <1>5
<1>7. lock' # 0 => lock' \in Items /\ step'[lock'] \in UnderLock /\ Executing(lock')
  BY <1>1, <1>2, <1>4, <1>5
<1>8. lock' # 0 => Executing(lock)'
  BY <1>7 DEF Executing, NextRank, vars
<1> QED
  BY <1>1, <1>6, <1>7, <1>8 DEF LockInv, Executing, NextRank

(* One step of a call. *)
LEMMA FnLock ==
    ASSUME IInv, PIInv, LockInv, n' = n, UNCHANGED vars, NEW i \in Items, Fn(i)
    PROVE  LockInv'
<1> USE DEF At, Goto, shared, UnderLock, Steps, Ended
<1>0. step[i] \in Steps
  BY DEF PIInv, StepInv
<1>1. Executing(i)
  BY DEF Fn, AskClient, RefreshRaises, EmptyToken, Refresh, BuildClient, Received, Answered, AskHeaders,
         AccessToken, AssignToken, AssignExpiry, ReadToken, Unauthorized, FirstCheck,
         SecondCheck, LoadFails, Load, UseModel
<1>2. CASE AskClient(i)
  BY <1>1, <1>2, LockStep DEF AskClient, Acquire
<1>3. CASE SecondCheck(i)
  BY <1>1, <1>3, LockStep DEF SecondCheck, Acquire
<1>4. CASE RefreshRaises(i) \/ EmptyToken(i) \/ LoadFails(i)
  BY <1>1, <1>4, LockStep DEF RefreshRaises, EmptyToken, LoadFails, RaiseUnderLock
<1>5. CASE Refresh(i)
  BY <1>1, <1>5, LockStep DEF Refresh
<1>6. CASE BuildClient(i) \/ Load(i)
  BY <1>1, <1>6, LockStep DEF BuildClient, Load
<1>7. CASE Received(i)
  BY <1>1, <1>7, LockStep DEF Received
<1>8. CASE Answered(i)
  BY <1>1, <1>8, LockStep DEF Answered
<1>9. CASE AskHeaders(i)
  BY <1>1, <1>9, LockStep DEF AskHeaders
<1>10. CASE AccessToken(i)
  BY <1>1, <1>10, LockStep DEF AccessToken
<1>11. CASE AssignToken(i)
  BY <1>1, <1>11, LockStep DEF AssignToken
<1>12. CASE AssignExpiry(i)
  BY <1>1, <1>12, LockStep DEF AssignExpiry
<1>13. CASE ReadToken(i)
  BY <1>1, <1>13, LockStep DEF ReadToken
<1>14. CASE Unauthorized(i)
  BY <1>1, <1>14, LockStep DEF Unauthorized
<1>15. CASE FirstCheck(i)
  BY <1>1, <1>15, LockStep DEF FirstCheck
<1>16. CASE UseModel(i)
  BY <1>1, <1>16, LockStep DEF UseModel
<1> QED
  BY <1>2, <1>3, <1>4, <1>5, <1>6, <1>7, <1>8, <1>9, <1>10, <1>11, <1>12, <1>13, <1>14, <1>15, <1>16
     DEF Fn

(* One step of the pool: the call that holds the lock is at work, and has   *)
(* not ended.                                                               *)
LEMMA PoolLock ==
    ASSUME IInv, PIInv, LockInv, n' = n, PCall \/ PPool
    PROVE  LockInv'
<1>1. UNCHANGED <<lock, step>> /\ Items' = Items
  BY DEF PCall, PPool, shared, mine, Items
<1>2. SUFFICES ASSUME lock # 0
               PROVE  Executing(lock)'
  BY <1>1 DEF LockInv
<1>3. lock \in Items /\ step[lock] \notin Ended /\ Executing(lock)
  BY <1>2 DEF LockInv, UnderLock, Ended
<1>4. task \in [Items -> TaskStates]
  BY DEF IInv, TypeOK
<1>5. task[lock] = "running" => caller \notin {"enter", "inline"}
  BY <1>3 DEF IInv, CallerInv, Running
<1>6. CASE PCall
  <2>1. caller # "inline"
    BY <1>3, <1>5, <1>6 DEF PCall, Executing
  <2>2. task[lock] = "running" /\ caller # "enter"
    BY <1>3, <1>5, <2>1 DEF Executing
  <2>3. task'[lock] = "running"
    BY <1>3, <1>4, <1>6, <2>1, <2>2
       DEF PCall, Call, Enter, RunInline, Submit, Read, ReadFailure, Cancel, CancelDone, Exit,
           Queued
  <2> QED
    BY <1>1, <2>3 DEF Executing
<1>7. CASE PPool
  <2>1. PICK i \in Items : Start(i) \/ (step[i] \in Ended /\ Finish(i))
    BY <1>7 DEF PPool
  <2>2. UNCHANGED <<caller, collected>> /\ (task[lock] = "running" => task'[lock] = "running")
    BY <1>3, <1>4, <2>1 DEF Start, Finish, Queued
  <2> QED
    BY <1>1, <1>3, <2>2 DEF Executing, NextRank
<1> QED
  BY <1>6, <1>7

(* The lock is held by a call at work, between the `with` and its end.      *)
THEOREM LockTheorem == PSpec => []LockInv
<1>1. PInit => LockInv
  BY DEF PInit, LockInv, UnderLock, Items
<1>2. IInv /\ PIInv /\ LockInv /\ [PNext]_pvars => LockInv'
  <2> SUFFICES ASSUME IInv, PIInv, LockInv, [PNext]_pvars
               PROVE  LockInv'
    OBVIOUS
  <2>1. n' = n
    BY SameItems
  <2>2. CASE PCall \/ PPool
    BY <2>1, <2>2, PoolLock
  <2>3. CASE Working
    BY <2>1, <2>3, FnLock DEF Working
  <2>4. CASE Tick \/ PDone \/ UNCHANGED pvars
    BY <2>4 DEF Tick, PDone, pvars, vars, shared, mine, LockInv, Executing, Items, NextRank
  <2> QED
    BY <2>2, <2>3, <2>4 DEF PNext
<1> QED
  BY <1>1, <1>2, PooledInvariant, SharedInvariant, PTL DEF PSpec

(* When the call returns or raises, no thread has left the lock taken.      *)
THEOREM LockIsReleased == PSpec => []LockReleased
<1>1. IInv /\ LockInv => LockReleased
  BY DEF IInv, CallerInv, LockInv, LockReleased, Finished, Executing, Running
<1> QED
  BY <1>1, LockTheorem, PooledInvariant, PTL

-------------------------------------------------------------------------------
(***************************************************************************)
(* Every step is a step forward. What is left of a call of `map_parallele`: *)
(* the steps its caller, its futures and its calls of `fn` may still take.  *)
(* A call of Firestore that has not been answered 401 may take five steps   *)
(* again; a call that has, none.                                            *)
(***************************************************************************)
LeftAt == [s \in Steps |->
    CASE s = "called"                                -> 7
      [] s \in {"refreshing", "fetching", "waiting"} -> 6
      [] s \in {"building", "assigning", "loading"}  -> 5
      [] s \in {"expiring", "got"}                   -> 4
      [] s = "reading"                               -> 3
      [] s = "sending"                               -> 2
      [] s = "answering"                             -> 1
      [] OTHER                                       -> 0]

FnLeft(i) == LeftAt[step[i]] + (IF i \in refused THEN 0 ELSE 5)

TaskLeft(i) == CASE task[i] = "new"     -> 3
                 [] task[i] = "queued"  -> 2
                 [] task[i] = "running" -> 1
                 [] OTHER               -> 0

CallerLeft == CASE caller = "enter"                    -> 5
                [] caller \in {"submitting", "inline"} -> 4
                [] caller = "reading"                  -> 3
                [] caller = "cancelling"               -> 2
                [] caller = "leaving"                  -> 1
                [] OTHER                               -> 0

Unread == n - Len(collected)

(* The steps left, numbered from the last one, each with whose it is.       *)
LeftOf(who) == CASE who \in {"fn"} \X Items   -> FnLeft(who[2])
                 [] who \in {"task"} \X Items -> TaskLeft(who[2])
                 [] who = <<"caller", 0>>      -> CallerLeft
                 [] who = <<"read", 0>>        -> Unread
                 [] OTHER                      -> 0

Whose == {"fn", "task", "caller", "read"} \X (0..n)
Left  == {x \in Whose \X (1..(n + 12)) : x[2] <= LeftOf(x[1])}

Forward == Cardinality(Left') < Cardinality(Left)

LeftTyped == /\ n \in Nat
             /\ \A i \in Items : FnLeft(i) \in 0..12 /\ TaskLeft(i) \in 0..3
             /\ CallerLeft \in 0..5 /\ Unread \in 0..n

LEMMA LeftTypes == IInv /\ PIInv => LeftTyped
<1> SUFFICES ASSUME IInv, PIInv PROVE LeftTyped
  OBVIOUS
<1>1. n \in Nat /\ Len(collected) \in Nat /\ Len(collected) <= n
  BY DEF IInv, TypeOK, AnswerInv
<1>2. ASSUME NEW i \in Items PROVE FnLeft(i) \in 0..12
  <2>1. step[i] \in Steps
    BY DEF PIInv, StepInv
  <2>2. LeftAt[step[i]] \in 0..7
    BY <2>1 DEF LeftAt
  <2> QED
    BY <2>2 DEF FnLeft
<1>3. ASSUME NEW i \in Items PROVE TaskLeft(i) \in 0..3
  BY DEF TaskLeft
<1>4. CallerLeft \in 0..5
  BY DEF CallerLeft
<1>5. Unread \in 0..n
  BY <1>1 DEF Unread
<1> QED
  BY <1>1, <1>2, <1>3, <1>4, <1>5 DEF LeftTyped

LEMMA LeftTypesNext == IInv' /\ PIInv' => LeftTyped'
  BY LeftTypes, PTL

LEMMA LeftOfType == LeftTyped => \A who \in Whose : LeftOf(who) \in 0..(n + 12)
<1> SUFFICES ASSUME LeftTyped, NEW who \in Whose
             PROVE  LeftOf(who) \in 0..(n + 12)
  OBVIOUS
<1>1. /\ n \in Nat
      /\ \A i \in Items : FnLeft(i) \in 0..12 /\ TaskLeft(i) \in 0..3
      /\ CallerLeft \in 0..5 /\ Unread \in 0..n
  BY DEF LeftTyped
<1>2. CASE who \in {"fn"} \X Items
  BY <1>1, <1>2 DEF LeftOf
<1>3. CASE who \in {"task"} \X Items
  BY <1>1, <1>3 DEF LeftOf
<1>4. CASE who \notin {"fn", "task"} \X Items
  <2>1. LeftOf(who) \in {CallerLeft, Unread, 0}
    BY <1>4 DEF LeftOf
  <2> QED
    BY <1>1, <2>1
<1> QED
  BY <1>2, <1>3, <1>4

LEMMA LeftOfTypeNext == LeftTyped' => (\A who \in Whose : LeftOf(who) \in 0..(n + 12))'
  BY LeftOfType, PTL

LEMMA LeftFinite == ASSUME n \in Nat PROVE IsFiniteSet(Left)
<1>1. IsFiniteSet({"fn", "task", "caller", "read"})
  <2>1. IsFiniteSet({"fn"}) /\ IsFiniteSet({"task"}) /\ IsFiniteSet({"caller"})
        /\ IsFiniteSet({"read"})
    BY FS_Singleton
  <2>2. IsFiniteSet({"fn"} \cup {"task"}) /\ IsFiniteSet({"caller"} \cup {"read"})
    BY <2>1, FS_Union
  <2>3. IsFiniteSet(({"fn"} \cup {"task"}) \cup ({"caller"} \cup {"read"}))
    BY <2>2, FS_Union
  <2>4. ({"fn"} \cup {"task"}) \cup ({"caller"} \cup {"read"})
            = {"fn", "task", "caller", "read"}
    OBVIOUS
  <2> QED
    BY <2>3, <2>4
<1>2. IsFiniteSet(0..n) /\ IsFiniteSet(1..(n + 12))
  BY FS_Interval
<1>3. IsFiniteSet(Whose)
  BY <1>1, <1>2, FS_Product DEF Whose
<1>4. IsFiniteSet(Whose \X (1..(n + 12)))
  BY <1>2, <1>3, FS_Product
<1> QED
  BY <1>4, FS_Subset DEF Left

(* A step that takes from one of them and adds to none is a step forward.   *)
LEMMA Shrinks ==
    ASSUME LeftTyped, LeftTyped', n' = n,
           \A who \in Whose : LeftOf(who)' <= LeftOf(who),
           NEW who \in Whose, LeftOf(who)' < LeftOf(who)
    PROVE  Forward
<1>1. n \in Nat /\ Whose' = Whose
  BY DEF Whose, LeftTyped
<1>2. \A w \in Whose : LeftOf(w) \in 0..(n + 12)
  BY LeftOfType
<1>3. \A w \in Whose : LeftOf(w)' \in 0..(n + 12)
  BY <1>1, LeftOfTypeNext
<1>4. Left' \subseteq Left
  BY <1>1, <1>2, <1>3 DEF Left
<1>5. <<who, LeftOf(who)>> \in Left \ Left'
  BY <1>1, <1>2, <1>3 DEF Left
<1>6. IsFiniteSet(Left) /\ IsFiniteSet(Left')
  BY <1>1, <1>4, LeftFinite, FS_Subset
<1>7. Cardinality(Left') <= Cardinality(Left)
  BY <1>4, <1>6, FS_Subset
<1>8. Cardinality(Left') # Cardinality(Left)
  BY <1>4, <1>5, <1>6, FS_Subset
<1>9. Cardinality(Left') \in Nat /\ Cardinality(Left) \in Nat
  BY <1>6, FS_CardinalityType
<1> QED
  BY <1>7, <1>8, <1>9 DEF Forward

LEMMA Narrower ==
    ASSUME LeftTyped, LeftTyped', n' = n,
           \A j \in Items : FnLeft(j)' <= FnLeft(j) /\ TaskLeft(j)' <= TaskLeft(j),
           CallerLeft' <= CallerLeft, Unread' <= Unread,
           \/ \E j \in Items : FnLeft(j)' < FnLeft(j) \/ TaskLeft(j)' < TaskLeft(j)
           \/ CallerLeft' < CallerLeft
           \/ Unread' < Unread
    PROVE  Forward
<1>1. Items' = Items /\ 0 \in 0..n /\ Items \subseteq 0..n
  BY DEF LeftTyped
<1>2. \A j \in Items : /\ <<"fn", j>> \in Whose /\ LeftOf(<<"fn", j>>) = FnLeft(j)
                       /\ LeftOf(<<"fn", j>>)' = FnLeft(j)'
  BY <1>1 DEF LeftOf, Whose
<1>3. \A j \in Items : /\ <<"task", j>> \in Whose /\ LeftOf(<<"task", j>>) = TaskLeft(j)
                       /\ LeftOf(<<"task", j>>)' = TaskLeft(j)'
  BY <1>1 DEF LeftOf, Whose
<1>4. /\ <<"caller", 0>> \in Whose /\ LeftOf(<<"caller", 0>>) = CallerLeft
      /\ LeftOf(<<"caller", 0>>)' = CallerLeft'
  BY <1>1 DEF LeftOf, Whose
<1>5. /\ <<"read", 0>> \in Whose /\ LeftOf(<<"read", 0>>) = Unread
      /\ LeftOf(<<"read", 0>>)' = Unread'
  BY <1>1 DEF LeftOf, Whose
<1>6. ASSUME NEW who \in Whose PROVE LeftOf(who)' <= LeftOf(who)
  <2>1. CASE who \in {"fn"} \X Items
    BY <1>2, <2>1
  <2>2. CASE who \in {"task"} \X Items
    BY <1>3, <2>2
  <2>3. CASE who \in {<<"caller", 0>>, <<"read", 0>>}
    BY <1>4, <1>5, <2>3
  <2>4. CASE who \notin {"fn", "task"} \X Items /\ who \notin {<<"caller", 0>>, <<"read", 0>>}
    BY <1>1, <2>4 DEF LeftOf
  <2> QED
    BY <2>1, <2>2, <2>3, <2>4
<1>7. \E who \in Whose : LeftOf(who)' < LeftOf(who)
  BY <1>2, <1>3, <1>4, <1>5
<1> QED
  BY <1>6, <1>7, Shrinks

(* A step of `fn` is one step less of its call: the retry after a 401 is    *)
(* taken once.                                                              *)
LEMMA FnStep ==
    ASSUME PIInv, NEW i \in Items, Fn(i)
    PROVE  \E s \in Steps :
              /\ step' = [step EXCEPT ![i] = s]
              /\ \/ refused' = refused /\ LeftAt[s] < LeftAt[step[i]]
                 \/ /\ i \notin refused /\ refused' = refused \cup {i}
                    /\ step[i] = "sending" /\ s = "fetching"
<1>0. /\ LeftAt["called"] = 7 /\ LeftAt["refreshing"] = 6 /\ LeftAt["fetching"] = 6
      /\ LeftAt["waiting"] = 6 /\ LeftAt["building"] = 5 /\ LeftAt["assigning"] = 5
      /\ LeftAt["loading"] = 5 /\ LeftAt["expiring"] = 4 /\ LeftAt["got"] = 4
      /\ LeftAt["reading"] = 3 /\ LeftAt["sending"] = 2 /\ LeftAt["answering"] = 1
      /\ LeftAt["ended"] = 0 /\ LeftAt["raised"] = 0
  BY DEF LeftAt, Steps, Ended
<1> USE <1>0 DEF At, Goto, Steps, Ended
<1>1. CASE AskClient(i)
  <2>1. /\ step[i] = "called" /\ refused' = refused
        /\ \/ step' = [step EXCEPT ![i] = "refreshing"]
           \/ step' = [step EXCEPT ![i] = "building"]
    BY <1>1 DEF AskClient, Acquire
  <2> QED
    BY <2>1
<1>2. CASE RefreshRaises(i) \/ EmptyToken(i)
  BY <1>2 DEF RefreshRaises, EmptyToken, RaiseUnderLock
<1>3. CASE Refresh(i)
  BY <1>3 DEF Refresh
<1>4. CASE BuildClient(i)
  BY <1>4 DEF BuildClient
<1>5. CASE Received(i)
  BY <1>5 DEF Received
<1>6. CASE Answered(i)
  <2>1. /\ step[i] = "answering" /\ refused' = refused
        /\ \/ step' = [step EXCEPT ![i] = "raised"]
           \/ step' = [step EXCEPT ![i] = "ended"]
    BY <1>6 DEF Answered
  <2> QED
    BY <2>1
<1>7. CASE AskHeaders(i)
  <2>1. /\ step[i] = "called" /\ refused' = refused
        /\ \/ step' = [step EXCEPT ![i] = "fetching"]
           \/ step' = [step EXCEPT ![i] = "reading"]
    BY <1>7 DEF AskHeaders
  <2> QED
    BY <2>1
<1>8. CASE AccessToken(i)
  BY <1>8 DEF AccessToken
<1>9. CASE AssignToken(i)
  BY <1>9 DEF AssignToken
<1>10. CASE AssignExpiry(i)
  BY <1>10 DEF AssignExpiry
<1>11. CASE ReadToken(i)
  BY <1>11 DEF ReadToken
<1>12. CASE FirstCheck(i)
  <2>1. /\ step[i] = "called" /\ refused' = refused
        /\ \/ step' = [step EXCEPT ![i] = "waiting"]
           \/ step' = [step EXCEPT ![i] = "got"]
    BY <1>12 DEF FirstCheck
  <2> QED
    BY <2>1
<1>13. CASE SecondCheck(i)
  BY <1>13 DEF SecondCheck, Acquire
<1>14. CASE LoadFails(i)
  BY <1>14 DEF LoadFails, RaiseUnderLock
<1>15. CASE Load(i)
  BY <1>15 DEF Load
<1>16. CASE UseModel(i)
  BY <1>16 DEF UseModel
<1>17. CASE Unauthorized(i)
  BY <1>17 DEF Unauthorized
<1> QED
  BY <1>1, <1>2, <1>3, <1>4, <1>5, <1>6, <1>7, <1>8, <1>9, <1>10,
     <1>11, <1>12, <1>13, <1>14, <1>15, <1>16, <1>17
     DEF Fn

LEMMA FnForward ==
    ASSUME PIInv, LeftTyped, LeftTyped', n' = n, UNCHANGED vars, NEW i \in Items, Fn(i)
    PROVE  Forward
<1>1. PICK s \in Steps :
         /\ step' = [step EXCEPT ![i] = s]
         /\ \/ refused' = refused /\ LeftAt[s] < LeftAt[step[i]]
            \/ /\ i \notin refused /\ refused' = refused \cup {i}
               /\ step[i] = "sending" /\ s = "fetching"
  BY FnStep
<1>2. step \in [Items -> Steps] /\ n \in Nat
  BY DEF PIInv, StepInv
<1>3. step'[i] = s /\ \A j \in Items \ {i} : step'[j] = step[j]
  BY <1>1, <1>2
<1>4. \A j \in Items \ {i} : FnLeft(j)' = FnLeft(j)
  BY <1>1, <1>3 DEF FnLeft
<1>5. FnLeft(i)' < FnLeft(i)
  <2>1. LeftAt[s] \in 0..7 /\ LeftAt[step[i]] \in 0..7
    BY <1>2 DEF LeftAt
  <2>2. LeftAt["sending"] = 2 /\ LeftAt["fetching"] = 6
    BY DEF LeftAt, Steps
  <2> QED
    BY <1>1, <1>3, <2>1, <2>2 DEF FnLeft
<1>6. \A j \in Items : TaskLeft(j)' = TaskLeft(j)
  BY DEF TaskLeft, vars
<1>7. CallerLeft' = CallerLeft /\ Unread' = Unread
  BY DEF CallerLeft, Unread, vars
<1>8. \A j \in Items : FnLeft(j) \in Int /\ FnLeft(j)' \in Int /\ TaskLeft(j) \in Int
  BY <1>3, <1>4, <1>5 DEF LeftTyped
<1> QED
  BY <1>4, <1>5, <1>6, <1>7, <1>8, Narrower DEF LeftTyped

(* A step of the caller or of the pool moves one future, the caller, or the *)
(* rank that is read next.                                                  *)
LEMMA TaskStep ==
    ASSUME IInv, NEW i \in Items, NEW t \in TaskStates, task' = [task EXCEPT ![i] = t], n' = n,
           \/ task[i] = "new" /\ t = "queued"
           \/ task[i] = "queued" /\ t \in {"running", "cancelled"}
           \/ task[i] = "running" /\ t \in {"done", "failed"}
    PROVE  /\ \A j \in Items : TaskLeft(j)' <= TaskLeft(j)
           /\ TaskLeft(i)' < TaskLeft(i)
<1>1. task \in [Items -> TaskStates]
  BY DEF IInv, TypeOK
<1>2. task'[i] = t /\ \A j \in Items \ {i} : task'[j] = task[j]
  BY <1>1
<1>3. TaskLeft(i)' < TaskLeft(i)
  BY <1>2 DEF TaskLeft
<1>4. \A j \in Items \ {i} : TaskLeft(j)' = TaskLeft(j)
  BY <1>2 DEF TaskLeft
<1>5. \A j \in Items : TaskLeft(j) \in Int /\ TaskLeft(j)' \in Int
  BY DEF TaskLeft
<1> QED
  BY <1>3, <1>4, <1>5

LEMMA PoolForward ==
    ASSUME IInv, LeftTyped, LeftTyped', n' = n, Call \/ Pool, UNCHANGED mine
    PROVE  Forward
<1>1. /\ \A j \in Items : FnLeft(j)' = FnLeft(j) /\ FnLeft(j) \in Int
      /\ \A j \in Items : TaskLeft(j) \in Int
      /\ CallerLeft \in Int /\ Unread \in Int /\ Items' = Items
  BY DEF FnLeft, mine, LeftTyped
<1>2. ASSUME \A j \in Items : TaskLeft(j)' <= TaskLeft(j),
             CallerLeft' <= CallerLeft, Unread' <= Unread,
             \/ \E j \in Items : TaskLeft(j)' < TaskLeft(j)
             \/ CallerLeft' < CallerLeft
             \/ Unread' < Unread
      PROVE  Forward
  <2>1. \A j \in Items : FnLeft(j)' <= FnLeft(j)
    BY <1>1
  <2> QED
    BY <1>2, <2>1, Narrower
<1>3. task' = task => \A j \in Items : TaskLeft(j)' <= TaskLeft(j)
  <2>1. task' = task => \A j \in Items : TaskLeft(j)' = TaskLeft(j)
    BY DEF TaskLeft
  <2> QED
    BY <1>1, <2>1
<1>4. caller' = caller => CallerLeft' <= CallerLeft
  <2>1. caller' = caller => CallerLeft' = CallerLeft
    BY DEF CallerLeft
  <2> QED
    BY <1>1, <2>1
<1>5. collected' = collected => Unread' <= Unread
  <2>1. collected' = collected => Unread' = Unread
    BY DEF Unread
  <2> QED
    BY <1>1, <2>1
<1>6. \A i \in Items : collected' = Append(collected, i) => Unread' < Unread /\ Unread' <= Unread
  BY DEF Unread, IInv, TypeOK
<1>7. CASE Enter \/ CancelDone \/ Exit
  <2>1. task' = task /\ collected' = collected
    BY <1>7 DEF Enter, CancelDone, Exit
  <2>2. CallerLeft' < CallerLeft
    BY <1>7 DEF Enter, CancelDone, Exit, CallerLeft
  <2> QED
    BY <1>1, <1>2, <1>3, <1>5, <2>1, <2>2 DEF LeftTyped
<1>8. ASSUME NEW i \in Items, ReadFailure(i) PROVE Forward
  <2>1. task' = task /\ collected' = collected
    BY <1>8 DEF ReadFailure
  <2>2. CallerLeft' < CallerLeft
    BY <1>8 DEF ReadFailure, CallerLeft
  <2> QED
    BY <1>1, <1>2, <1>3, <1>5, <2>1, <2>2 DEF LeftTyped
<1>9. ASSUME NEW i \in Items, Read(i) PROVE Forward
  <2>1. task' = task /\ collected' = Append(collected, i)
    BY <1>9 DEF Read
  <2>2. CallerLeft' <= CallerLeft
    BY <1>9 DEF Read, CallerLeft
  <2> QED
    BY <1>2, <1>3, <1>6, <2>1, <2>2
<1>10. ASSUME NEW i \in Items, Submit(i) PROVE Forward
  <2>1. task' = [task EXCEPT ![i] = "queued"] /\ task[i] = "new" /\ collected' = collected
    BY <1>10 DEF Submit
  <2>2. CallerLeft' <= CallerLeft
    BY <1>10 DEF Submit, CallerLeft
  <2>3. (\A j \in Items : TaskLeft(j)' <= TaskLeft(j)) /\ TaskLeft(i)' < TaskLeft(i)
    BY <2>1, TaskStep DEF TaskStates
  <2> QED
    BY <1>2, <1>5, <2>1, <2>2, <2>3
<1>11. ASSUME NEW i \in Items, Cancel(i) \/ Start(i) \/ Finish(i) PROVE Forward
  <2>1. caller' = caller /\ collected' = collected
    BY <1>11 DEF Cancel, Start, Finish
  <2>2. (\A j \in Items : TaskLeft(j)' <= TaskLeft(j)) /\ TaskLeft(i)' < TaskLeft(i)
    BY <1>11, TaskStep DEF Cancel, Start, Finish, TaskStates
  <2> QED
    BY <1>2, <1>4, <1>5, <2>1, <2>2
<1>12. CASE RunInline
  <2>1. caller = "inline" /\ \E r \in Items : r = NextRank
    BY <1>12 DEF RunInline, IInv, TypeOK, CallerInv
  <2>a. PICK i \in Items : i = NextRank
    BY <2>1
  <2>2. \E t \in {"done", "failed"} : task' = [task EXCEPT ![i] = t]
    BY <1>12, <2>a DEF RunInline
  <2>3. \A j \in Items : TaskLeft(j)' <= TaskLeft(j)
    <3>1. task'[i] \in {"done", "failed"} /\ \A j \in Items \ {i} : task'[j] = task[j]
      BY <2>1, <2>2 DEF IInv, TypeOK
    <3>2. TaskLeft(i)' = 0
      BY <3>1 DEF TaskLeft
    <3>3. \A j \in Items \ {i} : TaskLeft(j)' = TaskLeft(j)
      BY <3>1 DEF TaskLeft
    <3>4. TaskLeft(i) \in 0..3 /\ \A j \in Items : TaskLeft(j) \in 0..3
      BY DEF LeftTyped
    <3> QED
      BY <3>2, <3>3, <3>4
  <2>4. CASE i \in fails
    <3>1. caller' = "raised" /\ collected' = collected
      BY <1>12, <2>a, <2>4 DEF RunInline
    <3>2. CallerLeft' < CallerLeft
      BY <2>1, <3>1 DEF CallerLeft
    <3> QED
      BY <1>1, <1>2, <1>5, <2>3, <3>1, <3>2 DEF LeftTyped
  <2>5. CASE i \notin fails
    <3>1. caller' \in {"returned", "inline"} /\ collected' = Append(collected, i)
      BY <1>12, <2>a, <2>5 DEF RunInline
    <3>2. CallerLeft' <= CallerLeft
      BY <2>1, <3>1 DEF CallerLeft
    <3> QED
      BY <1>2, <1>6, <2>1, <2>3, <3>1, <3>2
  <2> QED
    BY <2>4, <2>5
<1> QED
  BY <1>7, <1>8, <1>9, <1>10, <1>11, <1>12 DEF Call, Pool

(* Whatever the threads do and whichever call fails, every step of a call   *)
(* of `map_parallele` is one of a finite number that is left, none of which *)
(* is ever taken twice: no retry goes round, no future is run again. Only   *)
(* the clock moves otherwise.                                               *)
THEOREM AlwaysForward ==
    PSpec => []IsFiniteSet(Left) /\ [][Forward \/ (Tick /\ Left' = Left)]_pvars
<1>0. PIInv => IsFiniteSet(Left)
  BY LeftFinite DEF PIInv, StepInv
<1>1. IInv /\ IInv' /\ PIInv /\ PIInv' /\ [PNext]_pvars
         => [Forward \/ (Tick /\ Left' = Left)]_pvars
  <2> SUFFICES ASSUME IInv, IInv', PIInv, PIInv', [PNext]_pvars, pvars' # pvars
               PROVE  Forward \/ (Tick /\ Left' = Left)
    OBVIOUS
  <2>1. n' = n
    BY SameItems
  <2>2. LeftTyped /\ LeftTyped'
    BY LeftTypes, LeftTypesNext
  <2>3. CASE PCall \/ PPool
    <3>1. (Call \/ Pool) /\ UNCHANGED mine
      BY <2>3 DEF PCall, PPool, Pool
    <3> QED
      BY <2>1, <2>2, <3>1, PoolForward
  <2>4. CASE Working
    BY <2>1, <2>2, <2>4, FnForward DEF Working
  <2>5. CASE Tick
    <3>1. UNCHANGED vars /\ UNCHANGED mine
      BY <2>5 DEF Tick
    <3>2. Left' = Left
      BY <3>1 DEF vars, mine, Left, Whose, LeftOf, FnLeft, TaskLeft, CallerLeft, Unread
    <3> QED
      BY <2>5, <3>2
  <2> QED
    BY <2>3, <2>4, <2>5 DEF PNext, PDone
<1> QED
  BY <1>0, <1>1, PooledInvariant, SharedInvariant, PTL DEF PSpec
===============================================================================
