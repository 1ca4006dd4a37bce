# Berlue in TLA+

Berlue checks the answers of a language model. A question is answered, the
answer is cut into claims, each claim is judged by a RAG over the FEVER corpus
and by SelfCheck (does the model contradict itself when asked again?), and the
two signals are fused into a verdict. Around that pipeline stand an evaluation
harness with two modes, result stores (SQLite and Firestore) that cache every
paid call, and an HTTP service with a cache of predictions.

This directory holds a specification of that code: what each part does, what it
must guarantee, what TLC checks of it and what TLAPS proves. Every definition
that stands for code is listed in `PROJECT.json` ("map") with its lines.

## 1. Inventory

| Part | State | Operations | Interacts by | Hard because |
|---|---|---|---|---|
| `pipeline/parallel.py` | futures of one call | `map_parallele` | called by RAG, SelfCheck, samples | out-of-order completion, one failure among many, cancellation |
| `pipeline/fusion.py` | none (pure) | `fuse_claim`, `do_fusion` | called after the join, and to replay stored signals | thresholds, three confidence formulas, asymmetric weights |
| `pipeline/hurlu_berlu.py`, `extraction.py`, `rag/retriever.py`, `selfcheck/` | one `PipelineResult` per question | `generate_answer`, `extract_claims`, `compute_signals`, `fuse` | two threads per question, each with its pool | a branch fails while the other works; joins by claim id; replies of the judge that are cut or badly formed |
| `rag/indexer.py` | two files, the vectors and their texts | build, load | read by `RagRetriever` | two writes, two reads, nothing ties them together |
| `evaluation/run_eval.py`, mode 1 | rows of the store | `evaluate_model`, `evaluate_model_matrix`, purge | several processes on one store | interruptions, races on one example, purges in flight |
| `evaluation/run_eval.py`, mode 2; `judge.py` | rows of the store | generate, check, judge, baseline, matrices | threads per stage, processes | stages that read the answer again; partial purges |
| `evaluation/result_store.py` | 10 tables | get, put (`OR IGNORE` or `REPLACE`), purge by scope and filters | everything above | filters that some tables lack |
| `evaluation/gcp_result_store.py` | collections, registry of scopes | the same, by REST; `flush_registry` | several writers | no transaction over a row and its registry entry |
| `api/service.py`, `api/predict_cache*.py`, `api/fast.py` | cache of predictions, singletons | `predict`, `push`, `purge` | concurrent requests, a push from a workstation | read, minutes of pipeline, then replace |
| `llm/client.py` | HTTP client, token, their lock | `generate`, `generate_many` | shared by all threads | the token expires between check and use |
| the Firestore client of `gcp_result_store.py` | token, its expiry | `_request` | shared by all threads, without a lock | two assignments, a retry after a 401 |
| `selfcheck/scorer.py`, `api/fast_eval.py` | lazy singletons | get | threads | double-checked creation, `lru_cache` |
| `api/eval_service.py` | its store, the splits under `lru_cache` | `/invoke`, `/purge` | HTTP; one request at a time by deployment (`--concurrency=1`), not by a lock | state kept from one call to the next |
| `evaluation/data.py`, `nli_baseline/`, `coverage_report` | two dataset files, the splits, the saved model | download, split, balance, train, measure, report | commands and the service on one disk | a file whose presence alone says that it is whole; two programs that must draw the same split |
| prompts, `ml_logic/`, `interface/`, notebooks | none | | | texts, templates and exploration |

What makes each part correct is stated with the module that models it, below.
The hazards themselves, each at its line, are in `PROJECT.json` ("hazards").

## 2. Plan

Order: what every question goes through first, then what stores and replays it.

1. `OrderedMap`, `ParallelMap`: the thread pool and its contract. *Done, proved.*
2. `Fusion`: the rules as operators. *Done, proved.*
3. `Pipeline` (extends `Fusion`): a run with its two branches. *Done, proved.*
4. `WriteOnceTable`, `EvalRun`: mode 1 on the local store. *Done, proved.*
5. `PredictCache`: requests, the cache, `push` and `purge`. *Done, proved.*
6. `GeneratedEval`: mode 2, its stages and threads, the baseline, the matrices and
   the filters of the purge. *Done, proved.*
7. `ScopeRegistry`: Firestore rows, the registry of scopes, the calls that count
   rows by batches, purges and failures. *Done, proved.*
8. `PooledCalls` (extends `ParallelMap`): what the calls of a pool share - the Ollama
   client and its token, the Firestore token, the NLI model. *Done, proved.*
9. `RagReply`, `EvidenceIndex` (extended by `Pipeline`): how the judge's reply is read
   and repaired; the two files of the index. *Done, proved with `Pipeline`.*
10. `Datasets`: files, splits, the baseline, the coverage report. *Done, proved.*
11. `Lists`: positions in order, shared by `EvidenceIndex`, `Pipeline` and `Datasets`;
    `ListsProofs`: the lemmas on lists that their proofs cite. *Done.*
12. Left: the hazards that no property covers yet (`PROJECT.json` says why for each), the
    matrices on BigQuery and the reads of the registry that only display.

Abstract specifications: `OrderedMap` (a parallel map is a sequential one) and
`WriteOnceTable` (a result table keeps the first value of each row until a purge).

## 3. Modules that are written

Each `MC` module gives the constants of a component small values, and each `.cfg`
is a run; `PROJECT.json` lists them. A module `XProofs` holds the theorems on `X`
(`PooledCallsProofs` those on `ParallelMap` too, `PipelineProofs` those on `Fusion`,
`RagReply` and `EvidenceIndex`). Each safety, action and refinement property of a passing
run is the conclusion of a theorem: the runs show it on a small instance, the theorem for
every value of the constants that the named assumptions allow.

### ParallelMap: `map_parallele`

State: the arguments (`n`, `maxWorkers`, the ranks on which `fn` raises), one
state per future, the results read so far, where the calling thread stands and
the rank whose exception propagates. Actions: the sequential fallback
(`RunInline`), submission in input order, the threads' `Start` and `Finish`, the
lazy reads of `list(executor.map(...))`, and, when one raises, the `finally` of
CPython's generator, which cancels the futures not yet read, the last first,
one at a time while the threads go on; then the join of the `with`. The thread
pool is the standard library's and is marked external in the map.

It is checked inside `pooled_calls`, below, where `fn` takes several steps instead of
one, with the same properties: the inductive invariant, `CancelOnlyUnstarted`,
termination and that it implements `OrderedMap`. Three elements and up to three threads
give every relative position of a failure: before, among and behind running and queued
tasks.

Proved (head of `PooledCallsProofs`), for every length, number of threads and set of
failures: `IInv`, `NoStrayTask` (no task is running or queued when the call is over),
`CancelOnlyUnstarted` and the refinement. The
inductive invariant is `TypeOK /\ AnswerInv /\ CallerInv`. `AnswerInv` says that what
was read is a prefix of the list and that the error, if any, is the next rank;
`CallerInv` ties the caller's progress to the threads. The refinement needs the
first to know that the rank that failed is the least one (every earlier rank was
read, hence done, hence not failing).

### PooledCalls: what the threads of a pool share

State: that of `ParallelMap`, plus the step of each call inside `fn`, a lock, a clock and
what is shared. A run has one `kind` of call:

* `local`, `cloud`: `OllamaClient.generate_detail`. Under the lock: the check of the
  token, its renewal (which drops the HTTP client), the construction of the client.
  Then the request, outside the lock, with the client in hand. Without authentication
  (`local`) the client has no header and no clock matters. A renewal fails in two ways: it
  raises (`RefreshRaises`), or leaves the credentials without a token (`EmptyToken`), beside the
  client of the old one; a list may start in that state (`OldToken`).
* `store`: `_request` of the Firestore client. No lock: a thread reads value and expiry,
  fetches, assigns the one then the other, reads the attribute again; a 401 is followed
  by one more attempt with a fresh token.
* `score`: `_get_selfcheck_nli`, double-checked under its lock. The service loads the
  model before it serves (`AtStart`), a command does not.

A token is named by the time at which it expires. `fails` says in advance which calls
raise; where they do is free (the refresh, the model, the request). `MaxDelay` bounds the
time from a check to the server; the margin below which a token is renewed is taken to be at least
that, and a fresh token to live more than twice as long (`MarginAssumption`,
`LivesAssumption`): a delay beyond them is refused by the server whatever the code does.

Checked (`pooled_calls`: up to 3 calls, 0, 2 or 3 threads, margins and delays of one
tick, three ticks): every interleaving implements the sequential map, comes back, sends no
token that the code could have known to be dead (`NoDeadToken`) and scores with one model
(`OneModel`). Lists on Firestore, whose calls take a dozen unlocked steps, are run by two
threads, and with three elements only when none fails. Fairness: each thread is scheduled,
the network and the model answer or raise (calls have a timeout).

Proved (`PooledCallsProofs`), for every length, number of threads, margin, life and set of
failures: `PSpec => Spec` (each step of a call is invisible to the pool, so every
theorem on `ParallelMap` carries over), `NoDeadToken` and `OneModel`. The
invariant `PIInv` has a part by kind. `CloudInv`: from the check to the construction of
the client the lock keeps the checked token, which then has more than `MaxDelay` left.
`StoreInv`: without a lock, whichever thread assigned the token last had just asked for it,
so it has more than `MaxDelay` left when a second attempt reads it; this is where
`lives > 2 * MaxDelay` is needed, and why the property says nothing of the first attempt.
`ScoreInv`: who loads holds the lock and found no model under it.

Also proved, in the same module:

* `LockTheorem`, `LockIsReleased`: the lock of the client or of the model is held by the one
  call that is under it, which is at work in its thread; so it is free once the list has
  returned or raised, whichever calls failed under it (the refresh, the load) and whichever
  were cancelled. The second needs `CallerInv`: no task is running after the `with`.
* `AlwaysForward`: each step of a list of calls removes one of a finite set of steps left
  (`Left`: the caller's, the submissions, reads and cancellations, each task's, each call's inside
  `fn`) and puts none back; `Tick` alone leaves them as they are. A retry after a 401 happens once,
  so its steps are counted in advance (`FnLeft`). It is the decreasing half of
  `Terminates`.

### Fusion: R1 to R5

Arithmetic on integers: percentages, and beliefs in units of `1 / (2 * HALF)`, so that
the two half-lines of `selfcheck_belief` are exact; scores and confidences are
fractions. The Python code computes in floating point; the two agree except where a
score falls exactly on a threshold (divergences of 0.10, 0.20, 0.35 and 0.80), and the grids
leave those out (`MCPipeline` names them). A confidence that is not a number (`NaN`) is
not modelled.

The settings are constants. `FusionAssumption` bounds them (percentages, divisors above 0).
What `params.py` explains beside them, and no line of the code checks when the environment
overrides one, is written as two predicates: `ComparableSettings` (the two thresholds do not
cross, a firm signal of one side alone is worth the threshold of the arbitrated score) and
`AsymmetricSettings` (SelfCheck does not weigh enough to reverse a categorical RAG). The
two theorems that need one of them assume it by name; the shipped values satisfy both
(`MCPipeline!ShippedSettings`, evaluated by TLC). Section 4 tells what the shipped
discount does not achieve.

### RagReply, EvidenceIndex, Pipeline: one `HurluBerlu.run`

`RagReply` reads what the judge replies about one claim. A text is a sequence of tokens
(braces, keys, values, the digits that make a number longer, scrap), received whole, cut,
cut in the middle of a token, or with a mistake and the rest; the prose before the object
may hold a brace. `_premier_objet_json` decodes the first object or repairs it by the
longest fragment that decodes once closed. `EvidenceIndex` has the two files of a build and
the -1 that FAISS pads its answer with; what is loaded may be of two builds. What `float`
accepts as a confidence is a number, a boolean or the text of a number; a verdict that is an
object or a list cannot be looked up and is a panne (`Unusable`).

`Pipeline` has the calling thread's step, the files loaded, the answer, the claims, the
two branches, the result and the fused verdicts. Since `map_parallele` implements a
sequential map (proved), a map over the claims is one step whose exception is the first
failing claim's. The environment chooses the extractor's array (claims, possibly of the
same text, blanks, elements that are not text), what each check meets (no neighbour, an
exception of the search, a failure of the judge, a reply) and the divergences.

Checked (`pipeline`: up to two claims; one claim of the first text meets the whole grids of
confidences and divergences, one of the second every broken or strange reply and both
builds, two claims a few of each):

* `PanneIsTotal`: an answer whose check failed shows no verdict at all;
* `VerdictIsOwn`: each claim is fused from its own signals;
* `JudgeIsHeard`: when no brace stands before the object, the judgment kept is the one that
  the received part of the reply holds (`FieldsDue`, stated from what the judge meant, whatever
  the prose, not from how it is decoded). Without that condition the property,
  `JudgeIsHeardInAnyProse`, does not hold (section 4);
* `ProofIsCited`: a FEVER proof shown is an excerpt that was cited, and, when the files
  are of one build, the text of the vector that was found;
* `ConfidenceIsComparable`, `CategoricalNeverReversed`: the confidence, whichever of the
  three formulas gives it, stays in [0, 1], is 0 when nothing is decided and, when a conviction
  decides, not below the threshold of the decision; SelfCheck never reverses a categorical judgment;
* `NoBranchLeftBehind`, `Terminates`: no branch survives the call, and every question ends
  (weak fairness of the run's steps: each external call ends).

Proved (`PipelineProofs`), for any number of claims, elements of the extractor, replies,
divergences, indexes and settings: `TypeOK` and each of these properties but `Terminates`.
Of that one, the decreasing half: a question takes nine steps at most, each of which leaves
fewer (`QuestionGoesForward`; `StepsLeft` adds the calling thread's and each branch's).

* The inductive invariant is `TypeOK /\ ClaimInv /\ RagInv /\ SelfcheckInv /\ ControlInv`.
  `ControlInv` orders the calling thread and the branches (past a join, the branch has
  ended; past the `with`, the result is that of both); `RagInv` and `SelfcheckInv` say that what a
  branch leaves is the function of the claims that it was given; `ClaimInv` that no two
  claims share an id, which `VerdictIsOwn` rests on: a join by id finds the claim's own
  row only because ranks, skipped elements included, make the ids distinct. None of the
  properties is inductive alone, as each speaks of the last step of the run only.
* `JudgeIsHeard` follows from `ReadingIsDue`: for a reply of any members, whole, cut
  anywhere or with a mistake, and no brace before its object, `_premier_objet_json` renders
  exactly the fields received. The theorem `JudgesAreHeard` states the other case too
  (`HiddenIsIgnorance`): behind a brace every reply is read as an ignorance, so the
  refutation is not an accident of one reply. The proof follows the tokens: a text is the concatenation of its members
  (`FlattenBySteps`), and the longest fragment that decodes ends with the last member
  received whole, or whose number was cut after a first digit. `IsReply` says what a
  reply is: only numbers are cut inside, and a mistake comes after the first token of
  the object.
* `ProofIsCited` assumes `OneDigitCitations`: the judge numbers excerpts with one digit, as
  the prompt shows it `top_k` of them. Without it the statement is false (section 4: 12 cut
  to 1 cites another excerpt).
* `ConfidenceIsComparable` assumes `ComparableSettings`, `CategoricalNeverReversed`
  `AsymmetricSettings`: sufficient inequalities, each of which one rule of the fusion uses.

### WriteOnceTable, EvalRun: mode 1 and its caches

State: `eval_predictions`, `eval_signals` and the row of `eval_matrices` of one
scope; processes running `evaluate_model` on a slice (`worker`: where in the
loop, which example, the settings read at import, the signals in hand); the
process building a matrix; the environment's FUSION_* settings. Each call to the
store is a transaction and an action of its own, since the processes interleave
between them; a whole purge is one transaction. The pipeline is a nondeterministic
choice of signals or an exception. Bounds: `MaxInterrupts` (interruptions and
exceptions) and `MaxPurges`.

* `eval_run`: two processes, example 1 shared, example 2 the first one's alone; two
  settings, an interruption, two purges of the fusion or of the signals. Both tables
  implement `WriteOnceTable`. `ReplayAgrees`: the verdict in the cache is the fusion
  of the signals in the cache, which is what makes calibration by replay meaningful.
  `FusionPurgeIsFree`: the pipeline is paid once per example, plus once per
  interruption and per purge of the signals. Both are stated for the examples only
  one process works on (`Alone`): of two processes on one example, the second
  fuses its own signals, which `INSERT OR IGNORE` drops, and may be the first to
  store its verdict. `ScopeCompletes`: every example of the slices ends up with a
  verdict, under weak fairness of each process, launches included: launching again
  is the documented way to resume. Nobody has to purge.
* `eval_matrix`: a matrix built while workers write is what the store holds when it
  is stored, provided no purge ran since its builder started (`MatrixIsSnapshot`).

Two examples suffice: one being computed while another is stored, skipped or lost;
the properties relate the rows of one example, or all of them to the matrix.

Proved (`EvalRunProofs`): `TypeOK`, that each table implements `WriteOnceTable`,
`ReplayAgrees`, `MatrixIsSnapshot`, and `FusionPurgeIsFree` when the store starts without
old rows (`OldRows = {}`). `ReplayAgrees` is not inductive. `ReplayInv` adds that the only
process of an example, once past the read of the verdict, is the only one that could
store one, and that the signals it is about to fuse are those of the store unless
they were purged. `CostInv` counts a call that is still in a process's hands as kept.
`MatrixIsSnapshot` rests on `ReadIsKept`: as long as no purge ran since a builder started,
each verdict that it has read is still the one in the store. A builder stores only when it
has read a verdict for every example, and rows never change without a purge, so what it
read one row at a time is what the table holds at once; this is why the property needs no
snapshot isolation, and why it says nothing of a builder that a purge overtook.

`EvaluationIsComplete` is the safety side of `ScopeCompletes`, without fairness: from a moment
when a process is not running, as long as no step deletes a verdict, each of its runs that ends
without an exception or an interruption (`interrupts` unchanged) leaves a verdict for every
example of its slice, so that `evaluate_model_matrix` finds them all. Its invariant,
`Behind`, says that a process left a verdict on each example it went past: the loop
skips only what it found in the store, and `INSERT OR IGNORE` leaves a row in any case. The
hypothesis says no more than needed: with a purge of the verdicts the claim is false (TLC
refutes `Behind` with `PurgeScopes = {"fusion"}`).

### PredictCache: `/predict`, push and purge

State: the cache on each store (local and Firestore), the requests in flight, the
push and a purge of Firestore. A key is a question and a temperature, a demand is
the three model tags of a request, and what was computed is reduced to the tags
that computed it and to whether it is a panne. A request reads, runs for minutes
and replaces the entry: three actions, each of which may fail as the code allows
(a read that raises is a miss, a write that raises is ignored). The push lists,
reads, compares and writes one key at a time. A purge of Firestore lists, then
deletes by name. `Size` is what `taille_modele` reads from a tag, `NoSize` when it
reads nothing.

* `predict_cache` (one key, one request on each store, three demands: smaller,
  bigger, incomparable): `OriginIsReal`, `ServedIsWorthy`, `PushServes`, and
  `ComputedIsAnswered` under weak fairness of the handling of a request (every call
  it makes has a timeout). Keys do not interact except in the push's list, which
  takes them one at a time; more requests only bring more writers of the same row,
  which the second request and the push already are.
* `PushKeepsBetter` and `NoPanneServed` are stated in the module and do not
  hold; no run checks them, section 4 tells how they fail.

The runs are those of a pipeline that meets no panne (`Pannes = {FALSE}`): what the cache
does with one does not depend on it.

Proved (`PredictCacheProofs`): `TypeOK`, `OriginIsReal`, `ServedIsWorthy` and
`PushServes`. The invariant `OriginInv` says that each row, each request and the
push's entry hold a payload computed by the models they name; the worth of what is
served then follows from `satisfait`, role by role. `PushServes` needs `satisfait`
to be reflexive and transitive, which is where `NoSize` matters.

### GeneratedEval: mode 2

State: the rows of the four tables of mode 2 for one scope, its two matrices, the
processes of `evaluate_model_generated` (stage, questions still to list, queue,
the answer each thread has in hand), of `evaluate_baseline_generated` and of the
two builders of matrices. A verdict carries the answer it is `about`: not a column
of the table, but what the judge, Berlue or the baseline was really given, which the
store does not record and which everything built on it takes for granted. The list
of a stage is read one question per query; a thread of `_run_pool` takes the oldest
question of the queue and reads its answer; storing is another action, with
`INSERT OR IGNORE`. A failure of a model, Ctrl+C, and a kill end a launch as the code
does: what runs ends, what waits is cancelled, later stages do not start.

A purge is a request: a scope and, for each column asked for, this scope's own value
or another one. `Purged` is the loop of `purge` over the tables: which have one of the
columns asked for, and whether this scope's rows match the filters on theirs.

* `generated` (two processes of two threads, one slice inside the other, two
  failures, two purges): `VerdictAboutAnswer`, the tables implement `WriteOnceTable`,
  and launching again completes the scope (weak fairness of each process, launches
  included). Two questions are one ahead and one behind in a stage.
* `generated_matrix` (one process, the baseline, a builder, a purge):
  `MatrixComparesOneAnswer`: although a
  builder makes two queries per question while the others write, the two rulings it
  compares are on one answer.
* `generated_purge` is a refutation, told in section 4.

Both passing runs assume that a purge waits for the processes to end
(`PurgeInFlight = FALSE`; nothing in the code enforces it, see the hazards) and that
it asks for this scope's own values. The baseline and the builders cover all valid
questions, the default of the command line.

Proved (`GeneratedEvalProofs`), for any number of questions, processes, threads,
failures and purges: `TypeOK`; that the four tables implement `WriteOnceTable`
(`RowsWriteOnce`), which needs none of the assumptions, purges in flight and of any
filters included; and under those two assumptions (`OwnPurges`)
`VerdictAboutAnswer` and `MatrixComparesOneAnswer`. The inductive invariant is
`TypeOK /\ AnswerInv`: no verdict outlives its answer (`RulingInv`, stronger than the
property, which says nothing of a verdict whose answer is gone), from its second stage
on a process has an answer to each of its questions, the one in its threads' hands
(`StageInv`), and so for the baseline and the builders. The argument has two halves:
outside a purge an answer never changes (`AnswersKept`, `Kept`), and a purge that
deletes the answers deletes every verdict, because the columns of `llm_answers` are
columns of all the other tables (`PurgedTogether`). The refutation is the case where
this second half fails: a filter on a column that only the others have.

`EvaluationIsComplete` of this module says of `evaluate_model_generated` what its namesake
says of mode 1, with neither assumption: as long as no row is deleted, a run that ends neither failed
nor killed leaves an answer, Berlue's verdict and the judge's for each question of its slice. Its
invariant, `Behind`, has a part for the stages that are over and one for the stage at work:
a question without a row is still to be listed, in the queue or in a thread, unless the stage
failed, in which case no later stage starts. A purge in flight that deletes rows breaks it (TLC
finds how with `PurgeInFlight = TRUE`).

### ScopeRegistry: Firestore and the registry of scopes

State: the documents of the six collections of results (`rows`), `_scope_registry`
(`registry`: `n_rows` of each scope, or no document), the buffer of each process's store,
the call each process is in and where each of its threads is. A scope is a table and the
values of its key columns, as in the code, so that a purge's filters select scopes the
way `purge` does. A put is two actions, as in `put_*`: `Create` (refused with 409 if the
document exists) and `Register` (count it under the lock, decide whether the buffer is
full). A flush is `Flush` (copy and empty the buffer under the lock), then two requests
per scope, `Document` and `Increment`. A purge deletes the rows of a table, then their documents,
by lots of 500: nobody else sees a table between two lots, so a purge that goes through is two
actions per table, and `PurgeRaises` may leave any part of the rows or of the documents deleted
(`SomeRows`, `SomeDocuments`). The calls are `evaluate_model`,
`evaluate_model_generated`, `evaluate_baseline_generated` and the push script; they differ
by the tables they write, by the periodic flush (a choice after each put: its counters
are not modelled) and by what they do at their end. A service keeps its store, hence its
buffer, from one call to the next (`eval_service.py`); a command's dies with it.

Each request may raise, and then was served or not: a lost answer is not told from a
lost request. The renewal of the token after a 401 is part of a request. Ctrl+C stops a
command of one thread anywhere, a kill any process. `MaxFailures` bounds the three,
`MaxPurges` the purges. Two assumptions: nobody purges while a call runs, and an
instance of the service handles one request at a time (`make/cloudrun.mk` deploys it with
`--concurrency=1`).

* `registry` (a push from a command beside evaluations of two threads in a service; two
  scopes, one with two rows; batches of 2; a failure; two purges, one by a filter that
  reaches both scopes and one by another scope of purge): `NeverOvercounts`,
  `NavigationExact`, `BufferBounded`, and `CatchesUp` under weak fairness of the calls
  (every request has an end); nobody has to launch one. Two processes are the two sides
  of a 409, two threads the two sides of a flush; batches of 2 are reached with rows of one scope
  or of two. The size of a batch only moves the moment of a flush.
* `registry_baseline` is a refutation, told in section 4.

`NeverOvercounts` counts what is in memory as well, so that it says that each creation
is counted once, not only that the registry is late.

Proved (`ScopeRegistryProofs`), for any number of rows, scopes, processes, threads, failures
and purges, and any batch: `TypeOK`, `NeverOvercounts`, `NavigationExact` and `BufferBounded`.

* A count is a sum over the threads and buffers of all processes. The library can only unfold
  such a fold by an induction that the provers cannot instantiate, so a sum over a finite set is
  first shown to be the number of its units (`Units`, a disjoint union of intervals): it then moves
  by one with one element, and facts on cardinality do the rest.
* `NeverOvercounts` is not inductive. `CountInv` adds that the buffer of a process between
  two calls is empty (`BufferInv`), that a purge between the rows of a table and their documents
  has no row left (`PurgeInv`), and that a document without a row belongs to a purge that stopped half way, after
  some lots or between the rows and their documents
  (`ListedInv`). `BufferInv` needs `ServicesFlush`: a service runs no call that ends without a flush. The run
  `registry_baseline` shows what happens otherwise.
* `NavigationExact` adds `ExactInv` (without a failure nothing is lost: written is listed or in
  memory) and needs `EveryCallFlushes`, for a command that ends takes its buffer with it.
* `BufferBounded` follows from `FullInv`: a buffer above its limit has a thread of its own
  about to take it, unless a Ctrl+C stopped that thread, which ends a run of one thread.

### Datasets: the labelled examples, the baseline, the coverage report

State: the lines on disk of each dataset, the baseline's file, what each command and each
request of the service is doing, the splits that the service keeps under `lru_cache`, and
the measures printed. A call (train, measure, report) is a dozen steps: the presence of the
file, the request, the opening that empties the file, the write, the read of as many lines
as are there, the split. Two actors may download at once; a kill cuts at any line what is
being written, and what pandas makes of a cut file depends on its format (`Readings`). A question
is its rank in the sorted list; the permutation depends on the number of questions only
(`random_state=0`), so `Place` is a constant. Trainings are launched one at a time, by hand.

* `datasets` (three lines in each dataset, a question in both; a command and two requests,
  three calls, one kill; ratios below and above the half): `NoLeak`, the baseline is
  measured on questions it was not trained on, when the training read the same
  lines and kept no larger a part; `CoverageIsExact`, the ranges that a report prints are
  exactly what is left to launch, for every content of the store (each of the two answers of a line
  stored or not), and "to be done" is the
  official size, which the code computes another way; `CutOnlyByKill`, two downloads at once
  or a failed one never leave a cut file. Three calls are a training and two measures, or two
  downloads against a reader.
* `baseline_leak` is a refutation, told in section 4.

Proved (`DatasetsProofs`), for all datasets, permutations, ratios, processes and kills:
`NoLeak`, `CutOnlyByKill` and `CoverageIsExact`. The argument of the first: the test part is the head of a
permutation that the lines determine, so that of a larger ratio is inside that of a smaller
one; the invariant says that every split, in an actor's hands or in the cache, is the
one its key and its lines determine, and that what is saved was trained outside it.
`CoverageIsExact` needs the types only, and three arguments: a list of a report is a set of
indices in increasing order (`InOrderEnumerates`), so the three lists share the indices out
as their sets do; the official number of valid questions counts questions where the report
counts indices, and `sorted` is a bijection between them; and the loop of
`format_index_ranges` is followed one index at a time (`LoopOK`): the closed ranges and the
open one cover what was read, and leave a gap of at least one index between any two.

## 4. What the code does that its documentation does not say

Refuted by a run:

* `generated_purge`: the purge of another data set of the same model (the example of
  `storage.md`) deletes the answers of this one, and keeps its Berlue and baseline
  verdicts; the next launch generates new answers under them.
* `registry_baseline`: `evaluate_baseline_generated` never flushes the registry. Up to 19
  rows of its last batch are never listed; in the evaluation service they stay in the
  buffer, and a purge from elsewhere does not know of them.
* `baseline_leak`: with the default settings the baseline is trained on the split of both
  datasets taken together and measured on the split of one: part of the questions it is
  measured on were trained on.

Met while modelling, without a run:

* The push compares its entry with the remote one, then replaces it: a better entry that a
  request stores in between is lost (`predict_cache_cli.py:77-94`). TLC refutes
  `PushKeepsBetter` of `PredictCache`.
* A brace in the prose before the object loses the verdict. The search starts from the first
  brace (`retriever.py:70`), the repair then always ends at `{}`: a complete `FEVER_REFUTES` at
  0.95 that cites a valid excerpt (`Wordy`, among the replies of the run `pipeline`) is read as
  `I_DONT_KNOWN`, and with a low divergence the claim is even shown as SUPPORTED. The docstring
  says "Décode le premier objet JSON complet" (`retriever.py:62`), that of `RagPanne` (53-57) that
  a reply that cannot be used is not an ignorance. TLC refutes `JudgeIsHeardInAnyProse` of
  `Pipeline` on the constants of that run, and `JudgesAreHeard` proves that it happens to every
  reply of this kind.
* A reply that cannot be read is an ignorance, not a panne: `_reparer_objet_tronque` always ends at
  `{}`, and a text without a brace gives `{}` too, hence `I_DONT_KNOWN` with confidence 0. The docstring
  of `RagPanne` (`retriever.py:53-57`) and the name of the test at `test_rag.py:158` say the
  contrary; the branch "RÉPONSE ILLISIBLE" (`retriever.py:330`) is hardly reachable.
* A number cut after its first digits
  is read shorter: an index 12 cut to 1 cites another excerpt. Claims are lost when one
  holds a `]`, since the search is not greedy (`extraction.py:38`).
* An index and the metadata of another build load without a word, and vectors are given
  the texts of others (`indexer.py:74`).
* Two threads may leave the Firestore client the token of one with the expiry of the other
  (`gcp_result_store.py:176`); the retry after the 401 repairs it.
* A file cut by a kill is kept for ever, since its presence is all that `download_dataset` checks
  (`data.py:38`); the split made of it is cached, and "deux machines [...] obtiennent le même
  total" (`run_eval.py:175-176`) does not hold. A cut line of the CSV gives the answer "nan".
* A baseline trained with a larger ratio than the one it is measured with has seen
  questions of the test part: nothing records the ratio of the training.
* `_cached_split(None, ...)` loads all the datasets, where the docstring of its caller says
  "le premier dataset" and that they are never mixed (`run_eval.py:159-163`).
* The ranges of a coverage report include their end, `--end` excludes it (`run_eval.py:826`).
* `--baseline` wins over `--coverage` when both are given (`run_eval.py:944`, `956`).
* The push of matrices replaces the remote ones whatever they count, and without
  `dataset_test_size` (`push_local_to_gcp.py:71`).
* The judge of mode 2 takes `NOT TRUE` for a TRUE (`judge.py:18`).

* A panne is cached and served like an answer (`service.py:72`), although
  `schemas.py:15-16` says that "la question est à rejouer". With
  `Pannes = {TRUE, FALSE}` TLC refutes `NoPanneServed` of `PredictCache`.
* Signals of an older format are read as an absence but keep their key
  (`result_store.py:497-508`): the day there is a second format, each purge of the fusion
  pays for the pipeline again. With `OldRows = {1}` TLC refutes `FusionPurgeIsFree`.
* `eval_service.py` says that `eval_version` "filtre systématiquement toutes les tables";
  `eval_signals` and `llm_answers` have no such column and are left alone
  (`ColumnsOf`, `Concerned`).
* `fusion.py:192` says that a SelfCheck failure goes through `result.panne`; an
  exception of that branch leaves `HurluBerlu.run` (`hurlu_berlu.py:80`).
* A panne of mode 1 is stored as a verdict and counted as cached: no launch replays
  it, and the signals of a panne are cached as well.
* With the shipped settings the confidence still drops when a more convinced RAG
  leaves the neutral band (0.80 at its edge), although `params.py:285-287` gives its
  absence as the reason for the discount.
* `test_fusion.py` calls a divergence of 0.05 "parfaitement stable" and wants
  CONTRADICTED when the RAG is sure that the claim is false; at divergence 0 the score
  is 35/85, above the threshold of 0.40, and the verdict is NOT_ENOUGH_INFO.
* `n_examples` of a matrix counts the pannes that its cells leave out.
* `map_parallele` says that the other tasks are awaited before it leaves: those that
  have not started are cancelled instead.

## 5. What is not proved and not modelled

Model-checked only: the liveness properties (`Terminates` of the pool and of the pipeline,
`ScopeCompletes` of both modes, `CatchesUp`, `ComputedIsAnswered`), since the proof system has
no rule for fairness here; and the three refutations of section 4, which are counterexamples.
What is proved beside them is what they rest on: that every step of the pool and of the pipeline
leaves fewer (`AlwaysForward`, `QuestionGoesForward`), and that a run of either mode that ends well
leaves nothing to do (`EvaluationIsComplete`). What remains to TLC is that a step is possible
and that fairness takes it. These theorems and those on the lock state properties of no listed
run; TLC checked each of them on the constants of the runs (completeness without the purges
that delete rows) before it was proved.

The proofs are cut into leaves small enough to be found in about a tenth of the provers'
default time, so that a slower machine checks them as well.

The library's induction principles take an operator as a parameter, which the installed provers
cannot instantiate. What a recursive function computes for every input is proved by
a smallest counterexample instead (`FirstExists`, from the well-foundedness of `<`): the rendering
and the repair of a reply, the ranges of a report, the flattening of lists. The sums of the
registry are proved by counting units.

The theorems assume what the constants' ASSUMEs say, evaluated by TLC on every run, and, by name
in their statement, `ServicesFlush`, `EveryCallFlushes`, `OwnPurges`, `OldRows = {}`,
`ComparableSettings`, `AsymmetricSettings` and `OneDigitCitations`. Each holds of the constants of
a passing run. `ComparableSettings` and `AsymmetricSettings` are sufficient; sections 3 and 4 tell
how the property fails without each of the others.

Not modelled: the components with status `not_modelled` in
`PROJECT.json`, with the reason; the bodies of Firestore calls beyond what `PredictCache`,
`ScopeRegistry` and `PooledCalls` need, the matrices on BigQuery; the read-only API and the lists for
display (they read the store and format it); prompts, logging, timing and the wording of explanations.
Examples of a test set are taken to be distinct (question, answer) pairs.

Four details of the modelled components are left out, since no property depends on them. A pool of
one worker in mode 2 may take one more question between a failure and its cancellation
(`run_eval.py:543-547`): `GeneratedEval` has that step, `ScopeRegistry` only for two threads or more.
A cached entry that no longer fits the schema of the answer raises outside the `try`
(`service.py:99`), and the request gets an error instead of an answer: `ComputedIsAnswered` is
about what the pipeline computed. `lru_cache` forgets a split beyond eight (`run_eval.py:128`), which is
then made again as after a restart of the service. A renewal that leaves an empty text as a token,
rather than none, is taken for one that leaves none (`client.py:101`).
