----------------------------- MODULE ScopeRegistry -----------------------------
(***************************************************************************)
(* GcpResultStore of berlue/evaluation/gcp_result_store.py: the rows of the *)
(* Firestore collections and _scope_registry, the summary (table, scope) -> *)
(* n_rows that the lists of scopes read instead of the rows. A store counts *)
(* the rows it creates in memory and sends the counts by batches; calls of  *)
(* run_eval and of the push script run in Processes, each with one store.   *)
(*                                                                          *)
(* A scope is a table and the values of its key columns; a row is a scope   *)
(* and the question (and answer) that completes the document id. What a row *)
(* says is left out, and the matrices, which are in BigQuery.               *)
(*                                                                          *)
(* CountAgain, FlushByScope, OverwriteDoc, SendNothing and ForgottenFlush   *)
(* are mutated forms of definitions below.                                  *)
(***************************************************************************)
EXTENDS Naturals, FiniteSets, FiniteSetsExt

CONSTANTS
    Rows,                   \* the documents calls may create
    Processes,
    Services,               \* processes that keep their store between calls
    Concurrency,            \* threads of a call
    Calls,                  \* what each process may launch
    PurgeRequests,          \* [scope, filters]
    RegistryFlushEvery,
    MaxFailures, MaxPurges,
    NoDoc                   \* no document in the registry for a scope

Scopes == {r.scope : r \in Rows}
Main(p) == <<p, 0>>         \* the thread that flushes at the end, and purges
Workers(p) == {<<p, k>> : k \in 1..Concurrency[p]}
Own(p) == Workers(p) \cup {Main(p)}
Threads == UNION {Own(p) : p \in Processes}
Kinds == {"model", "generated", "baseline", "push"}

ASSUME RowsAssumption == IsFiniteSet(Rows)
ASSUME TablesAssumption == \A s \in Scopes : s.table # "rows"
ASSUME ProcessesAssumption == IsFiniteSet(Processes)
ASSUME CallsAssumption ==   \* the push is a script, no request runs it
    /\ Calls \in [Processes -> SUBSET Kinds]
    /\ \A p \in Processes \cap Services : "push" \notin Calls[p]
ASSUME ConcurrencyAssumption == Concurrency \in [Processes -> Nat \ {0}]
ASSUME FlushAssumption == RegistryFlushEvery \in Nat \ {0}
ASSUME AbsenceAssumption == NoDoc \notin Nat

VARIABLES
    rows,                   \* the documents of the collections
    registry,               \* n_rows of each scope
    buffer,                 \* _registry_buffer of the store of each process
    call,                   \* what each process is doing
    thread,
    halfPurged,             \* scopes with rows deleted, and their document not yet
    failures, purges        \* how many, for the bounds

vars == <<rows, registry, buffer, call, thread, halfPurged, failures, purges>>

Off  == [pc |-> "off"]
Rest == [pc |-> "rest"]
Nothing == [s \in Scopes |-> 0]
SumOf(f, S) == MapThenSumSet(LAMBDA x : f[x], S)
Total(counts) == SumOf(counts, Scopes)
RowsOf(s) == {r \in rows : r.scope = s}

Init == /\ rows = {}
        /\ registry = [s \in Scopes |-> NoDoc]
        /\ buffer = [p \in Processes |-> Nothing]
        /\ call = [p \in Processes |-> Off]
        /\ thread = [t \in Threads |-> Rest]
        /\ halfPurged = {}
        /\ failures = 0 /\ purges = 0

Fails    == failures < MaxFailures /\ failures' = failures + 1
Do(t, s) == thread' = [thread EXCEPT ![t] = s]
Become(p, c) == call' = [call EXCEPT ![p] = c]
Resting(T) == \A t \in T : thread[t] = Rest

(***************************************************************************)
(* The tables: which calls write them, and their columns.                   *)
(***************************************************************************)
ModelTables     == {"eval_predictions", "eval_signals"}
GeneratedTables == {"llm_answers", "eval_berlue_generated", "judge_verdicts"}
BaselineTables  == {"eval_baseline_generated"}
WrittenBy(kind) == CASE kind = "model"     -> ModelTables
                     [] kind = "generated" -> GeneratedTables
                     [] kind = "baseline"  -> BaselineTables
                     [] kind = "push"      -> {"eval_predictions"}

ColumnsOf(t) ==
    {"model_id"}
    \cup (IF t \in {"llm_answers", "judge_verdicts"} THEN {} ELSE {"dataset", "ratio"})
    \cup (IF t \in {"eval_predictions", "eval_signals"} THEN {} ELSE {"generation_version"})
    \cup (IF t \in {"eval_signals", "llm_answers"} THEN {} ELSE {"eval_version"})
    \cup (IF t \in {"eval_predictions", "eval_signals", "eval_berlue_generated"}
          THEN {"pipeline_version"} ELSE {})
    \cup (IF t = "judge_verdicts" THEN {"judge_model"} ELSE {})

(***************************************************************************)
(* A put, in thread t of process p: create the document, then count it.     *)
(***************************************************************************)
Launch(p) ==
    /\ call[p].pc = "off"
    /\ \A q \in Processes : call[q].pc # "purge"
    /\ \E kind \in Calls[p] :
          Become(p, [pc |-> "run", kind |-> kind, failed |-> FALSE,
                     todo |-> {r \in Rows : r.scope.table \in WrittenBy(kind)}])
    /\ UNCHANGED <<rows, registry, buffer, thread, halfPurged, failures, purges>>

Take(p, t) ==               \* what is in the cache is not computed; a push does not look
    /\ call[p].pc = "run" /\ thread[t] = Rest
    /\ call[p].failed => Concurrency[p] > 1     \* a pool goes on until it is told
    /\ \E r \in call[p].todo :
          /\ Become(p, [call[p] EXCEPT !.todo = @ \ {r}])
          /\ Do(t, IF r \in rows /\ call[p].kind # "push" THEN Rest
                   ELSE [pc |-> "create", row |-> r])
    /\ UNCHANGED <<rows, registry, buffer, halfPurged, failures, purges>>

(* After a put the two evaluations flush every so many items.               *)
AfterPut(p) == IF call[p].kind \in {"model", "generated"} THEN {"rest", "flush"} ELSE {"rest"}

CountAgain(p, t) ==
    /\ thread[t].pc = "create"
    /\ rows' = rows \cup {thread[t].row}
    /\ Do(t, [thread[t] EXCEPT !.pc = "register"])
    /\ UNCHANGED <<registry, buffer, call, halfPurged, failures, purges>>

Create(p, t) ==             \* 409 if another thread or process was first
    /\ thread[t].pc = "create"
    /\ rows' = rows \cup {thread[t].row}
    /\ IF thread[t].row \in rows
       THEN \E pc \in AfterPut(p) : Do(t, [pc |-> pc])
       ELSE Do(t, [thread[t] EXCEPT !.pc = "register"])
    /\ UNCHANGED <<registry, buffer, call, halfPurged, failures, purges>>

Counted(p, s) == [buffer[p] EXCEPT ![s] = @ + 1]

FlushByScope(p, t) ==
    /\ thread[t].pc = "register"
    /\ LET counts == Counted(p, thread[t].row.scope) IN
       /\ buffer' = [buffer EXCEPT ![p] = counts]
       /\ \E pc \in AfterPut(p) :
             Do(t, [pc |-> IF counts[thread[t].row.scope] >= RegistryFlushEvery THEN "flush" ELSE pc])
    /\ UNCHANGED <<rows, registry, call, halfPurged, failures, purges>>

Register(p, t) ==           \* _register_new_row: under the lock, the flush after it
    /\ thread[t].pc = "register"
    /\ LET counts == Counted(p, thread[t].row.scope) IN
       /\ buffer' = [buffer EXCEPT ![p] = counts]
       /\ \E pc \in AfterPut(p) :
             Do(t, [pc |-> IF Total(counts) >= RegistryFlushEvery THEN "flush" ELSE pc])
    /\ UNCHANGED <<rows, registry, call, halfPurged, failures, purges>>

(***************************************************************************)
(* flush_registry: the buffer is copied and emptied under the lock, then    *)
(* each scope of the copy costs two requests.                               *)
(***************************************************************************)
SendNothing(pending) == [pc |-> "document", pending |-> pending]
Sending(pending) == IF pending = Nothing THEN Rest ELSE [pc |-> "document", pending |-> pending]

Flush(p, t) ==
    /\ thread[t].pc = "flush"
    /\ Do(t, Sending(buffer[p]))
    /\ buffer' = [buffer EXCEPT ![p] = Nothing]
    /\ UNCHANGED <<rows, registry, call, halfPurged, failures, purges>>

OverwriteDoc(s) == registry' = [registry EXCEPT ![s] = 0]
CreateDoc(s)    == registry' = [registry EXCEPT ![s] = IF @ = NoDoc THEN 0 ELSE @]

Document(t) ==
    /\ thread[t].pc = "document"
    /\ \E s \in Scopes :
          /\ thread[t].pending[s] > 0
          /\ CreateDoc(s)
          /\ Do(t, [pc |-> "increment", pending |-> thread[t].pending, scope |-> s])
    /\ UNCHANGED <<rows, buffer, call, halfPurged, failures, purges>>

Sent(t) == registry' = [registry EXCEPT ![thread[t].scope] = @ + thread[t].pending[thread[t].scope]]

Increment(t) ==             \* a transform, atomic on the server
    /\ thread[t].pc = "increment"
    /\ Sent(t)
    /\ Do(t, Sending([thread[t].pending EXCEPT ![thread[t].scope] = 0]))
    /\ UNCHANGED <<rows, buffer, call, halfPurged, failures, purges>>

(***************************************************************************)
(* The end of a call. The evaluations flush in a `finally`, the push at its *)
(* last line, the baseline does not. A service keeps its store, the process *)
(* of a command ends with it.                                               *)
(***************************************************************************)
ForgottenFlush(c) == c.kind \in {"model", "generated"}
FlushesAtEnd(c) == c.kind \in {"model", "generated"} \/ (c.kind = "push" /\ ~c.failed)
Exit(p) == /\ Become(p, Off)
           /\ buffer' = IF p \in Services THEN buffer ELSE [buffer EXCEPT ![p] = Nothing]

Finish(p) ==                \* the pool is over, or gave up what it had not started
    /\ call[p].pc = "run" /\ Resting(Workers(p))
    /\ call[p].todo = {} \/ call[p].failed
    /\ IF FlushesAtEnd(call[p])
       THEN Become(p, [pc |-> "end"]) /\ Do(Main(p), [pc |-> "flush"]) /\ UNCHANGED buffer
       ELSE Exit(p) /\ UNCHANGED thread
    /\ UNCHANGED <<rows, registry, halfPurged, failures, purges>>

End(p) ==
    /\ call[p].pc = "end" /\ thread[Main(p)] = Rest
    /\ Exit(p)
    /\ UNCHANGED <<rows, registry, thread, halfPurged, failures, purges>>

(***************************************************************************)
(* purge: flush, then for each table the filters concern, delete the rows   *)
(* and then their documents of the registry. Nobody purges while a call     *)
(* runs (see the README), so no one sees a table between two lots.          *)
(***************************************************************************)
Idle == \A p \in Processes : call[p].pc = "off"

TablesOf(scope) == CASE scope = "all"     -> {s.table : s \in Scopes}
                     [] scope = "results" -> {s.table : s \in Scopes} \ {"eval_signals"}
                     [] scope = "signals" -> {s.table : s \in Scopes} \cap {"eval_signals"}
                     [] scope = "fusion"  -> {s.table : s \in Scopes} \cap {"eval_predictions"}
                     [] OTHER             -> {}       \* matrices only

Concerned(t, filters) == DOMAIN filters = {} \/ DOMAIN filters \cap ColumnsOf(t) # {}
Matching(t, filters) ==
    {s \in Scopes : s.table = t /\ \A c \in DOMAIN filters \cap ColumnsOf(t) : s.key[c] = filters[c]}

Purge(p) ==
    /\ Idle /\ purges < MaxPurges
    /\ \E r \in PurgeRequests :
          Become(p, [pc |-> "purge", step |-> "rows", filters |-> r.filters,
                     left |-> {t \in TablesOf(r.scope) : Concerned(t, r.filters)}])
    /\ Do(Main(p), [pc |-> "flush"])
    /\ purges' = purges + 1
    /\ UNCHANGED <<rows, registry, buffer, halfPurged, failures>>

PurgeRows(p, t) ==
    /\ call[p].pc = "purge" /\ call[p].step = "rows" /\ thread[Main(p)] = Rest
    /\ t \in call[p].left
    /\ LET gone == Matching(t, call[p].filters) IN
       /\ rows' = {r \in rows : r.scope \notin gone}
       /\ halfPurged' = halfPurged \cup gone
    /\ Become(p, [call[p] EXCEPT !.step = t])
    /\ UNCHANGED <<registry, buffer, thread, failures, purges>>

PurgeRegistry(p, t) ==
    /\ call[p].pc = "purge" /\ call[p].step = t
    /\ LET gone == Matching(t, call[p].filters) IN
       /\ registry' = [s \in Scopes |-> IF s \in gone THEN NoDoc ELSE registry[s]]
       /\ halfPurged' = halfPurged \ gone
    /\ Become(p, [call[p] EXCEPT !.step = "rows", !.left = @ \ {t}])
    /\ UNCHANGED <<rows, buffer, thread, failures, purges>>

PurgeEnd(p) ==
    /\ call[p].pc = "purge" /\ thread[Main(p)] = Rest /\ call[p].left = {}
    /\ Exit(p)
    /\ UNCHANGED <<rows, registry, thread, halfPurged, failures, purges>>

(* Rows and documents are deleted by lots of 500, a request each: those of   *)
(* the lots before the one that raises are gone, and those of that one too  *)
(* if only its answer is lost.                                              *)
SomeRows(p) ==
    \E t \in call[p].left :
    \E deleted \in SUBSET {r \in rows : r.scope \in Matching(t, call[p].filters)} :
        /\ rows' = rows \ deleted
        /\ halfPurged' = halfPurged \cup {r.scope : r \in deleted}
        /\ UNCHANGED registry

SomeDocuments(p) ==
    \E deleted \in SUBSET Matching(call[p].step, call[p].filters) :
        /\ registry' = [s \in Scopes |-> IF s \in deleted THEN NoDoc ELSE registry[s]]
        /\ halfPurged' = halfPurged \ deleted
        /\ UNCHANGED rows

PurgeRaises(p) ==           \* or its process is killed there
    /\ call[p].pc = "purge" /\ thread[Main(p)] = Rest
    /\ \/ call[p].step = "rows" /\ SomeRows(p)
       \/ call[p].step # "rows" /\ SomeDocuments(p)
       \/ UNCHANGED <<rows, registry, halfPurged>>
    /\ Exit(p)
    /\ Fails
    /\ UNCHANGED <<thread, purges>>

(***************************************************************************)
(* A request of a thread raises, served (its answer is lost) or not; or a   *)
(* Ctrl+C stops a command of one thread anywhere. Its counts are dropped.   *)
(***************************************************************************)
Request(t) == thread[t].pc \in {"create", "document", "increment"}
Served(t) ==
    CASE thread[t].pc = "create"    -> rows' = rows \cup {thread[t].row} /\ UNCHANGED registry
      [] thread[t].pc = "document"  -> /\ \E s \in Scopes : thread[t].pending[s] > 0 /\ CreateDoc(s)
                                       /\ UNCHANGED rows
      [] thread[t].pc = "increment" -> Sent(t) /\ UNCHANGED rows
      [] OTHER                      -> FALSE
Unserved == UNCHANGED <<rows, registry>>

Raise(p, t) ==
    /\ Request(t) \/ (thread[t] # Rest /\ Concurrency[p] = 1 /\ p \notin Services)
    /\ Served(t) \/ Unserved
    /\ Do(t, Rest)
    /\ IF t = Main(p) THEN Exit(p)
       ELSE Become(p, [call[p] EXCEPT !.failed = TRUE]) /\ UNCHANGED buffer
    /\ Fails
    /\ UNCHANGED <<halfPurged, purges>>

Kill(p) ==                  \* the process of a command, or the instance of a service
    /\ call[p].pc # "off"
    /\ Become(p, Off)
    /\ buffer' = [buffer EXCEPT ![p] = Nothing]
    /\ thread' = [t \in Threads |-> IF t \in Own(p) THEN Rest ELSE thread[t]]
    /\ Fails
    /\ UNCHANGED <<rows, registry, halfPurged, purges>>

Work(p) == \/ \E t \in Workers(p) : Take(p, t) \/ Create(p, t) \/ Register(p, t)
           \/ \E t \in Own(p) : Flush(p, t) \/ Document(t) \/ Increment(t)
           \/ Finish(p) \/ End(p)
           \/ \E t \in TablesOf("all") : PurgeRows(p, t) \/ PurgeRegistry(p, t)
           \/ PurgeEnd(p)

Next == \E p \in Processes :
           \/ Launch(p) \/ Purge(p) \/ Work(p) \/ PurgeRaises(p) \/ Kill(p)
           \/ \E t \in Own(p) : Raise(p, t)

Spec == Init /\ [][Next]_vars

(* Calls end; nobody has to launch one.                                     *)
FairSpec == Spec /\ \A p \in Processes : WF_vars(Work(p))
-------------------------------------------------------------------------------
Counts  == [Scopes -> Nat]
Batches == Counts \ {Nothing}
Tables  == {s.table : s \in Scopes}
Filters == {r.filters : r \in PurgeRequests}

CallStates ==
    {Off, [pc |-> "end"]}
    \cup [pc : {"run"}, kind : Kinds, failed : BOOLEAN, todo : SUBSET Rows]
    \cup [pc : {"purge"}, step : {"rows"} \cup Tables, filters : Filters,
          left : SUBSET Tables]

ThreadStates ==
    {Rest, [pc |-> "flush"]}
    \cup [pc : {"create", "register"}, row : Rows]
    \cup [pc : {"document"}, pending : Batches]
    \cup [pc : {"increment"}, pending : Batches, scope : Scopes]

(* Every variable keeps its shape, and a batch under way is never empty.    *)
TypeOK ==
    /\ rows \subseteq Rows
    /\ registry \in [Scopes -> Nat \cup {NoDoc}]
    /\ buffer \in [Processes -> Counts]
    /\ call \in [Processes -> CallStates]
    /\ thread \in [Threads -> ThreadStates]
    /\ halfPurged \subseteq Scopes
    /\ failures \in Nat /\ purges \in Nat

(* What the registry says of a scope, and what is still in memory.          *)
NRows(s) == IF registry[s] = NoDoc THEN 0 ELSE registry[s]
Carried(state, s) == CASE state.pc \in {"document", "increment"} -> state.pending[s]
                       [] state.pc = "register" -> IF state.row.scope = s THEN 1 ELSE 0
                       [] OTHER -> 0
InBuffers(s) == [p \in Processes |-> buffer[p][s]]
InThreads(s) == [t \in Threads |-> Carried(thread[t], s)]
InMemory(s)  == SumOf(InBuffers(s), Processes) + SumOf(InThreads(s), Threads)

(* put_*, flush_registry: a row is counted once, by the thread whose create *)
(* was not refused, whatever two processes do with the same question,       *)
(* whatever request is lost or answered by an error, and whichever thread   *)
(* sends the batch: the registry never announces more rows than there are,  *)
(* even when all that is in memory has arrived. A purge that stopped after  *)
(* some lots of the rows, or between the rows and their document, is the    *)
(* exception, until it is launched again.                                   *)
NeverOvercounts ==
    \A s \in Scopes \ halfPurged : NRows(s) + InMemory(s) <= Cardinality(RowsOf(s))

(* gcp_result_store.py:17-20, storage.md:247-249, "envoyés par lots [...]   *)
(* périodiquement et en fin de run": when all calls are over and none was   *)
(* interrupted, each scope with rows is listed with their number and a      *)
(* scope without rows, purged or never filled, is not listed.               *)
NavigationExact ==
    failures = 0 /\ Idle =>
        \A s \in Scopes : registry[s] = IF RowsOf(s) = {} THEN NoDoc ELSE Cardinality(RowsOf(s))

(* _register_new_row decides under the lock and flushes after it: several   *)
(* threads may count rows into a full buffer before one of them takes it.   *)
(* A crash loses less than a batch, plus one row for each thread that is on *)
(* its way to flush; only a Ctrl+C on that way leaves a full buffer alone.  *)
Flushing(p) == {t \in Own(p) : thread[t].pc = "flush"}
BufferBounded ==
    \A p \in Processes :
        \/ Total(buffer[p]) < RegistryFlushEvery + Cardinality(Flushing(p))
        \/ call[p].pc = "run" /\ call[p].failed

(* The same as a promise over time: every call ends, whatever is launched   *)
(* beside it, and from some point on the registry tells all rows.           *)
CatchesUp == <>[](failures = 0 => \A s \in Scopes : NRows(s) = Cardinality(RowsOf(s)))

(***************************************************************************)
(* Why they hold. Workers work in a run, the main thread flushes and        *)
(* purges, and a purge is alone.                                            *)
(***************************************************************************)
Control(p) ==
    /\ call[p].pc # "run" => Resting(Workers(p))
    /\ call[p].pc \in {"off", "run"} => thread[Main(p)] = Rest
    /\ thread[Main(p)].pc \notin {"create", "register"}
    /\ call[p].pc = "purge" => \A q \in Processes \ {p} : call[q] = Off
    /\ call[p].pc = "purge" /\ call[p].step # "rows" =>
          thread[Main(p)] = Rest /\ call[p].step \in call[p].left
    /\ call[p].pc = "run" /\ call[p].failed /\ Concurrency[p] = 1 => Resting(Workers(p))
    /\ call[p].pc = "run" => call[p].kind \in Calls[p]
ControlInv == \A p \in Processes : Control(p)

(* The document of a scope is there when its count is sent.                 *)
BatchInv ==
    \A t \in Threads :
        thread[t].pc = "increment" => /\ thread[t].pending[thread[t].scope] > 0
                                      /\ registry[thread[t].scope] # NoDoc

(* Between two calls nothing is left in memory, if the calls of a service   *)
(* flush at their end: see the run `registry_baseline`.                     *)
ServicesFlush == \A p \in Processes \cap Services : "baseline" \notin Calls[p]
EveryCallFlushes == \A p \in Processes : "baseline" \notin Calls[p]

LastFlush(p) == call[p].pc = "end" /\ thread[Main(p)].pc # "flush"
Clean(p) == call[p].pc \in {"off", "purge"} \/ LastFlush(p) => buffer[p] = Nothing
BufferInv == \A p \in Processes : Clean(p)

(* A purge in progress, between the rows of a table and their documents.    *)
Between(p) == call[p].pc = "purge" /\ call[p].step # "rows"
Gone(p) == Matching(call[p].step, call[p].filters)
PurgeInv == \A p \in Processes : Between(p) => \A s \in Gone(p) : RowsOf(s) = {}

ListedInv == \A s \in Scopes \ halfPurged : registry[s] # NoDoc => RowsOf(s) # {}

CountInv == BufferInv /\ PurgeInv /\ NeverOvercounts /\ ListedInv

(* Without a failure nothing is lost either.                                *)
ExactInv ==
    failures = 0 =>
        /\ \A p \in Processes : call[p].pc = "run" => ~call[p].failed
        /\ \A s \in halfPurged : \E p \in Processes : Between(p) /\ s \in Gone(p)
        /\ \A s \in Scopes \ halfPurged : NRows(s) + InMemory(s) = Cardinality(RowsOf(s))

(* A buffer above its limit is about to be taken by a thread of its own,    *)
(* unless a Ctrl+C stopped that thread; a run of one thread is then over.   *)
Room(p) == RegistryFlushEvery + Cardinality(Flushing(p))
Full(p) ==
    \/ Total(buffer[p]) < Room(p)
    \/ /\ call[p].pc = "run" /\ call[p].failed
       /\ Concurrency[p] = 1 /\ p \notin Services
       /\ Total(buffer[p]) = Room(p)
FullInv == \A p \in Processes : Full(p)
===============================================================================
