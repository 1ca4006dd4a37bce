------------------------------ MODULE ParallelMap ------------------------------
(***************************************************************************)
(* `map_parallele` of berlue/pipeline/parallel.py: the calling thread, the  *)
(* futures of `executor.map` and the threads of the pool, for one call.     *)
(*                                                                          *)
(* The thread pool is CPython's: the futures are submitted in input order,  *)
(* a thread takes the oldest queued one, the lazy iterator reads them in    *)
(* input order, and when a read raises, its `finally` cancels the futures   *)
(* not yet read, the last one first, while the threads keep working; the    *)
(* end of the `with` block then joins the threads.                          *)
(*                                                                          *)
(* ReadAnyOrder, FailureAnyOrder, CancelRunning and RetryFailed are mutated *)
(* forms of the definition that follows each: no specification uses them,   *)
(* they show which property notices.                                        *)
(***************************************************************************)
EXTENDS Integers, Sequences, FiniteSets

CONSTANTS MaxItems,         \* bound on the length of `items`
          WorkerChoices     \* the values of `max_workers` callers pass

ASSUME MaxItemsAssumption == MaxItems \in Nat
ASSUME WorkerChoicesAssumption == WorkerChoices \subseteq Int

VARIABLES n,                \* len(items)
          maxWorkers,       \* the argument `max_workers`
          fails,            \* the ranks on which `fn` raises
          task,             \* state of each future
          collected,        \* results read so far, in reading order
          caller,           \* where the calling thread stands
          error             \* rank whose exception propagates, 0 if none

vars == <<n, maxWorkers, fails, task, collected, caller, error>>
args == <<n, maxWorkers, fails>>

Items      == 1..n
TaskStates == {"new", "queued", "running", "done", "failed", "cancelled"}
Callers    == {"enter", "submitting", "inline", "reading", "cancelling",
               "leaving", "returned", "raised"}

Workers   == IF maxWorkers <= n THEN maxWorkers ELSE n
Running   == {i \in Items : task[i] = "running"}
Queued    == {i \in Items : task[i] = "queued"}
NextRank  == Len(collected) + 1

Init == /\ n \in 0..MaxItems
        /\ maxWorkers \in WorkerChoices
        /\ fails \in SUBSET (1..n)
        /\ task = [i \in 1..n |-> "new"]
        /\ collected = <<>>
        /\ caller = "enter"
        /\ error = 0

(***************************************************************************)
(* The calling thread.                                                      *)
(***************************************************************************)
Enter ==                    \* empty list, sequential fallback, or pool
    /\ caller = "enter"
    /\ caller' = IF n = 0 THEN "returned"
                 ELSE IF Workers <= 1 THEN "inline" ELSE "submitting"
    /\ UNCHANGED <<args, task, collected, error>>

RunInline ==                \* `[fn(item) for item in items]`
    /\ caller = "inline"
    /\ LET i == NextRank IN
       IF i \in fails
       THEN /\ task' = [task EXCEPT ![i] = "failed"]
            /\ error' = i
            /\ caller' = "raised"
            /\ UNCHANGED collected
       ELSE /\ task' = [task EXCEPT ![i] = "done"]
            /\ collected' = Append(collected, i)
            /\ caller' = IF i = n THEN "returned" ELSE "inline"
            /\ UNCHANGED error
    /\ UNCHANGED args

Submit(i) ==
    /\ caller = "submitting"
    /\ task[i] = "new"
    /\ \A j \in 1..(i - 1) : task[j] # "new"
    /\ task' = [task EXCEPT ![i] = "queued"]
    /\ caller' = IF i = n THEN "reading" ELSE "submitting"
    /\ UNCHANGED <<args, collected, error>>

ReadAnyOrder(i) ==
    /\ caller = "reading"
    /\ task[i] = "done" /\ \A k \in DOMAIN collected : collected[k] # i
    /\ collected' = Append(collected, i)
    /\ caller' = IF NextRank = n THEN "leaving" ELSE "reading"
    /\ UNCHANGED <<args, task, error>>

Read(i) ==                  \* the iterator yields the next result
    /\ caller = "reading"
    /\ i = NextRank
    /\ task[i] = "done"
    /\ collected' = Append(collected, i)
    /\ caller' = IF i = n THEN "leaving" ELSE "reading"
    /\ UNCHANGED <<args, task, error>>

FailureAnyOrder(i) ==
    /\ caller = "reading"
    /\ task[i] = "failed"
    /\ error' = i
    /\ caller' = "cancelling"
    /\ UNCHANGED <<args, task, collected>>

ReadFailure(i) ==           \* the iterator raises: its `finally` starts
    /\ caller = "reading"
    /\ i = NextRank
    /\ task[i] = "failed"
    /\ error' = i
    /\ caller' = "cancelling"
    /\ UNCHANGED <<args, task, collected>>

CancelRunning(i) ==
    /\ caller = "cancelling"
    /\ i \in Queued \cup Running
    /\ task' = [task EXCEPT ![i] = "cancelled"]
    /\ UNCHANGED <<args, collected, caller, error>>

Cancel(i) ==                \* last unread future first
    /\ caller = "cancelling"
    /\ i \in Queued
    /\ \A j \in Queued : j <= i
    /\ task' = [task EXCEPT ![i] = "cancelled"]
    /\ UNCHANGED <<args, collected, caller, error>>

CancelDone ==
    /\ caller = "cancelling"
    /\ Queued = {}
    /\ caller' = "leaving"
    /\ UNCHANGED <<args, task, collected, error>>

Exit ==                     \* end of the `with`: the threads are joined
    /\ caller = "leaving"
    /\ Running = {} /\ Queued = {}
    /\ caller' = IF error = 0 THEN "returned" ELSE "raised"
    /\ UNCHANGED <<args, task, collected, error>>

(***************************************************************************)
(* The threads of the pool.                                                 *)
(***************************************************************************)
Start(i) ==                 \* a free thread takes the oldest queued future
    /\ i \in Queued
    /\ \A j \in Queued : i <= j
    /\ Cardinality(Running) < Workers
    /\ task' = [task EXCEPT ![i] = "running"]
    /\ UNCHANGED <<args, collected, caller, error>>

RetryFailed(i) ==
    /\ task[i] = "running"
    /\ task' = [task EXCEPT ![i] = IF i \in fails THEN "queued" ELSE "done"]
    /\ UNCHANGED <<args, collected, caller, error>>

Finish(i) ==                \* `fn` returns or raises in its thread
    /\ task[i] = "running"
    /\ task' = [task EXCEPT ![i] = IF i \in fails THEN "failed" ELSE "done"]
    /\ UNCHANGED <<args, collected, caller, error>>

Finished == caller \in {"returned", "raised"}

Done == Finished /\ UNCHANGED vars

Pool == \E i \in Items : Start(i) \/ Finish(i)

Call == \/ Enter
        \/ RunInline
        \/ \E i \in Items : Submit(i) \/ Read(i) \/ ReadFailure(i) \/ Cancel(i)
        \/ CancelDone
        \/ Exit

Next == Call \/ Pool \/ Done

Spec == Init /\ [][Next]_vars

-------------------------------------------------------------------------------
(* Every state component keeps its shape, and results are ranks. *)
TypeOK ==
    /\ n \in Nat
    /\ maxWorkers \in Int
    /\ fails \in SUBSET Items
    /\ task \in [Items -> TaskStates]
    /\ collected \in Seq(Items)
    /\ caller \in Callers
    /\ error \in 0..n

(* What makes the answer right: results are read off the front of the list, *)
(* in order and only from futures that succeeded; an exception is the one   *)
(* of the first rank not read; the futures cancelled are behind it.         *)
AnswerInv ==
    /\ Len(collected) <= n
    /\ \A i \in 1..Len(collected) : collected[i] = i /\ task[i] = "done"
    /\ \A i \in Items : /\ task[i] = "done" => i \notin fails
                        /\ task[i] = "failed" => i \in fails
                        /\ task[i] = "cancelled" => error # 0 /\ error < i
    /\ error # 0 => error = NextRank /\ task[error] = "failed"

(* How far the calling thread has come says what it may have read and       *)
(* whether threads may be at work.                                          *)
CallerInv ==
    /\ caller \in {"enter", "inline", "submitting", "reading", "returned"}
          => error = 0
    /\ caller \in {"cancelling", "raised"} => error # 0
    /\ caller \in {"enter", "submitting"} => collected = <<>>
    /\ caller \in {"submitting", "inline", "reading"} => Len(collected) < n
    /\ caller = "returned" \/ (caller = "leaving" /\ error = 0)
          => Len(collected) = n
    /\ caller \in {"enter", "inline", "returned", "raised"}
          => Running = {} /\ Queued = {}

IInv == TypeOK /\ AnswerInv /\ CallerInv

(* Once the call is over, no task of it is still running or may still       *)
(* start: a panne never leaves threads working for an abandoned question.   *)
NoStrayTask == Finished => Running = {} /\ Queued = {}

CancelStep ==
    \A i \in DOMAIN task :
        task'[i] = "cancelled" /\ task[i] # "cancelled"
            => task[i] = "queued" /\ error # 0 /\ error < i

(* No result or exception of `fn` is discarded by a cancellation: a future  *)
(* is only cancelled before it starts, and never one that the caller would  *)
(* have had to read before the failing one.                                 *)
CancelOnlyUnstarted == [][CancelStep]_vars

(* The call always comes back. *)
Terminates == <>Finished

(* What the callers see of it, in the terms of OrderedMap. *)
Outcome == CASE caller = "returned" -> [kind |-> "returned", list |-> collected]
             [] caller = "raised"   -> [kind |-> "raised", rank |-> error]
             [] OTHER               -> [kind |-> "pending"]

Abstract == INSTANCE OrderedMap WITH outcome <- Outcome

(* Every behaviour of the pool is a behaviour of the sequential map. *)
ImplementsOrderedMap == Abstract!Spec
===============================================================================
