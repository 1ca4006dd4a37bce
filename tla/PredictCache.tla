------------------------------ MODULE PredictCache ------------------------------
(***************************************************************************)
(* The cache of /predict: requests (berlue/api/service.py), on the local    *)
(* store or on Firestore, the push of the local cache to Firestore and the  *)
(* purges (berlue/api/predict_cache_cli.py).                                *)
(*                                                                          *)
(* A key stands for a normalised question and a temperature, a demand for   *)
(* the tags (generator, extraction, RAG) of a request: the first is the     *)
(* user's, the others are the server's. What was computed is reduced to     *)
(* the tags that computed it and to whether it is a panne.                  *)
(*                                                                          *)
(* AnyFormat, BestRole, DemandedOrigin, SwappedPush and WriteOrDie are      *)
(* mutated forms of definitions below.                                      *)
(***************************************************************************)
EXTENDS Integers

CONSTANTS
    Keys, Requests,
    On,                     \* the store of each request: "local" or "gcp"
    Tags, Size,             \* model tags; billions of parameters in the tag
    Demands,                \* the (generator, extraction, RAG) of the requests
    Pannes,                 \* may the pipeline end in a panne?
    NoSize, NoEntry,        \* unreadable size; no row
    OldPayload              \* what a row of an older format holds

Stores == {"local", "gcp"}

ASSUME OnAssumption     == On \in [Requests -> Stores]
ASSUME DemandAssumption == Demands \subseteq Tags \X Tags \X Tags
ASSUME SizeAssumption   == Size \in [Tags -> Nat \cup {NoSize}] /\ NoSize \notin Nat
ASSUME PanneAssumption  == Pannes \subseteq BOOLEAN /\ Pannes # {}

VARIABLES
    cache,                  \* predict_cache, by store and key
    req,                    \* the requests in flight
    push,                   \* the process running `push`, or Idle
    purge                   \* what a purge of Firestore is about to delete

vars == <<cache, req, push, purge>>

(* What the pipeline computed, and a row of the cache.                      *)
Payloads == [by : Demands, panne : Pannes]
Entries  == [models : Demands, payload : Payloads \cup {OldPayload}]

ASSUME AbsenceAssumption == NoEntry \notin Entries /\ OldPayload \notin Payloads

Row(s, k)       == cache[s][k]
AnyFormat(s, k) == Row(s, k) # NoEntry

(* get_predict_cache: a row of an older format is an absence.               *)
Readable(s, k) == Row(s, k) # NoEntry /\ Row(s, k).payload # OldPayload

BestRole(demandes, caches) ==
    \E i \in 1..3 : \/ demandes[i] = caches[i]
                    \/ /\ Size[demandes[i]] # NoSize /\ Size[caches[i]] # NoSize
                       /\ Size[demandes[i]] <= Size[caches[i]]

(* Each role is held by the same tag or by one at least as big.             *)
satisfait(demandes, caches) ==
    \A i \in 1..3 : \/ demandes[i] = caches[i]
                    \/ /\ Size[demandes[i]] # NoSize /\ Size[caches[i]] # NoSize
                       /\ Size[demandes[i]] <= Size[caches[i]]

Off  == [pc |-> "off"]
Idle == [pc |-> "off"]
Init == /\ cache \in [Stores -> [Keys -> [models : Demands, payload : {OldPayload}] \cup {NoEntry}]]
        /\ req = [r \in Requests |-> Off]
        /\ push = Idle
        /\ purge = {}

(***************************************************************************)
(* BerlueService.predict, request r.                                        *)
(***************************************************************************)
Put(s, k, e) == cache' = [cache EXCEPT ![s][k] = e]

Answer(r, cached, models, payload) ==
    req' = [req EXCEPT ![r] = [pc |-> "answered", key |-> @.key, models |-> @.models,
                               cached |-> cached, origin |-> models, payload |-> payload]]

Arrive(r) ==                \* ignore_cache skips the read, never the write
    /\ req[r].pc = "off"
    /\ \E k \in Keys, d \in Demands, ignore_cache \in BOOLEAN :
          req' = [req EXCEPT ![r] = [pc |-> IF ignore_cache THEN "run" ELSE "read",
                                     key |-> k, models |-> d]]
    /\ UNCHANGED <<cache, push, purge>>

NoStore(r) ==               \* get_store raises: the endpoint answers 500
    /\ req[r].pc = "off"
    /\ req' = [req EXCEPT ![r] = [pc |-> "failed"]]
    /\ UNCHANGED <<cache, push, purge>>

Usable(r) == /\ Readable(On[r], req[r].key)
             /\ satisfait(req[r].models, Row(On[r], req[r].key).models)

DemandedOrigin(r) ==
    /\ req[r].pc = "read"
    /\ Usable(r)
    /\ LET e == Row(On[r], req[r].key) IN Answer(r, TRUE, req[r].models, e.payload)
    /\ UNCHANGED <<cache, push, purge>>

Hit(r) ==                   \* the origin names the models of the entry
    /\ req[r].pc = "read"
    /\ Usable(r)
    /\ LET e == Row(On[r], req[r].key) IN Answer(r, TRUE, e.models, e.payload)
    /\ UNCHANGED <<cache, push, purge>>

Miss(r) ==
    /\ req[r].pc = "read"
    /\ ~Usable(r)
    /\ req' = [req EXCEPT ![r].pc = "run"]
    /\ UNCHANGED <<cache, push, purge>>

ReadRaises(r) ==            \* the pipeline runs
    /\ req[r].pc = "read"
    /\ req' = [req EXCEPT ![r].pc = "run"]
    /\ UNCHANGED <<cache, push, purge>>

Run(r) ==
    /\ req[r].pc = "run"
    /\ \E panne \in Pannes :
          req' = [req EXCEPT ![r] =
                     [pc |-> "write", key |-> @.key, models |-> @.models,
                      payload |-> [by |-> @.models, panne |-> panne]]]
    /\ UNCHANGED <<cache, push, purge>>

RunRaises(r) ==
    /\ req[r].pc = "run"
    /\ req' = [req EXCEPT ![r] = [pc |-> "failed"]]
    /\ UNCHANGED <<cache, push, purge>>

Write(r) ==                 \* INSERT OR REPLACE, or PATCH
    /\ req[r].pc = "write"
    /\ Put(On[r], req[r].key, [models |-> req[r].models, payload |-> req[r].payload])
    /\ Answer(r, FALSE, req[r].models, req[r].payload)
    /\ UNCHANGED <<push, purge>>

WriteOrDie(r) ==
    /\ req[r].pc = "write"
    /\ req' = [req EXCEPT ![r] = [pc |-> "failed"]]
    /\ UNCHANGED <<cache, push, purge>>

WriteRaises(r) ==           \* the answer is given all the same
    /\ req[r].pc = "write"
    /\ Answer(r, FALSE, req[r].models, req[r].payload)
    /\ UNCHANGED <<cache, push, purge>>

Leave(r) ==
    /\ req[r].pc \in {"answered", "failed"}
    /\ req' = [req EXCEPT ![r] = Off]
    /\ UNCHANGED <<cache, push, purge>>

Handle(r) == \/ Hit(r) \/ Miss(r) \/ ReadRaises(r) \/ Run(r) \/ RunRaises(r)
             \/ Write(r) \/ WriteRaises(r)

(***************************************************************************)
(* `push`: each local entry to Firestore, unless Firestore has one as good. *)
(***************************************************************************)
PushStart ==                \* all keys, or one question's at each temperature
    /\ push.pc = "off"
    /\ \E K \in SUBSET Keys, force \in BOOLEAN :
          push' = [pc |-> "next", force |-> force,
                   todo |-> {k \in K : Row("local", k) # NoEntry}]
    /\ UNCHANGED <<cache, req, purge>>

PushLocal ==                \* purged or unreadable since it was listed: skipped
    /\ push.pc = "next"
    /\ \E k \in push.todo :
          LET rest == push.todo \ {k} IN
          push' = IF Readable("local", k)
                  THEN [pc |-> "compare", force |-> push.force, todo |-> rest,
                        key |-> k, entry |-> Row("local", k)]
                  ELSE [push EXCEPT !.todo = rest]
    /\ UNCHANGED <<cache, req, purge>>

Onward == push' = [pc |-> "next", force |-> push.force, todo |-> push.todo]

SwappedPush ==
    /\ push.pc = "compare"
    /\ IF /\ Readable("gcp", push.key) /\ ~push.force
          /\ satisfait(Row("gcp", push.key).models, push.entry.models)
       THEN Onward
       ELSE push' = [push EXCEPT !.pc = "put"]
    /\ UNCHANGED <<cache, req, purge>>

PushCompare ==
    /\ push.pc = "compare"
    /\ IF /\ Readable("gcp", push.key) /\ ~push.force
          /\ satisfait(push.entry.models, Row("gcp", push.key).models)
       THEN Onward
       ELSE push' = [push EXCEPT !.pc = "put"]
    /\ UNCHANGED <<cache, req, purge>>

PushPut ==                  \* without a precondition
    /\ push.pc = "put"
    /\ Put("gcp", push.key, push.entry)
    /\ Onward
    /\ UNCHANGED <<req, purge>>

PushEnd ==                  \* done, or an exception of either store
    /\ push.pc # "off"
    /\ push' = Idle
    /\ UNCHANGED <<cache, req, purge>>

(***************************************************************************)
(* `purge`: K are the keys that the filters on the question and on the      *)
(* temperature leave, G the generators that the filter on the model leaves. *)
(***************************************************************************)
Generators == {d[1] : d \in Demands}
Matching(s) == {{k \in K : Row(s, k) # NoEntry /\ Row(s, k).models[1] \in G} :
                   K \in SUBSET Keys, G \in {Generators} \cup {{g} : g \in Generators}}

Erase(s, K) == cache' = [cache EXCEPT ![s] = [k \in Keys |-> IF k \in K THEN NoEntry ELSE @[k]]]

PurgeLocal ==               \* one DELETE
    /\ \E K \in Matching("local") : Erase("local", K)
    /\ UNCHANGED <<req, push, purge>>

PurgeQuery ==               \* delete_matching: the ids first ...
    /\ purge = {}
    /\ purge' \in Matching("gcp")
    /\ UNCHANGED <<cache, req, push>>

PurgeCommit ==              \* ... then the deletions, whatever is there by then
    /\ purge # {}
    /\ Erase("gcp", purge)
    /\ purge' = {}
    /\ UNCHANGED <<req, push>>

Publish == PushStart \/ PushLocal \/ PushCompare \/ PushPut \/ PushEnd
Clean   == PurgeLocal \/ PurgeQuery \/ PurgeCommit

Next == \/ \E r \in Requests : Arrive(r) \/ NoStore(r) \/ Handle(r) \/ Leave(r)
        \/ Publish \/ Clean

Spec == Init /\ [][Next]_vars

(* A request goes on: each of its calls ends, well or with an exception.    *)
FairSpec == Spec /\ \A r \in Requests : WF_vars(Handle(r))
-------------------------------------------------------------------------------
Full == [models : Demands, payload : Payloads]       \* a row that can be read
ReqTypes ==
    [pc : {"off", "failed"}] \cup [pc : {"read", "run"}, key : Keys, models : Demands]
    \cup [pc : {"write"}, key : Keys, models : Demands, payload : Payloads]
    \cup [pc : {"answered"}, key : Keys, models : Demands, cached : BOOLEAN,
          origin : Demands, payload : Payloads]
PushTypes ==
    [pc : {"off"}] \cup [pc : {"next"}, force : BOOLEAN, todo : SUBSET Keys]
    \cup [pc : {"compare", "put"}, force : BOOLEAN, todo : SUBSET Keys,
          key : Keys, entry : Full]

(* Every variable keeps its shape; an old payload is never held by anyone.  *)
TypeOK ==
    /\ cache \in [Stores -> [Keys -> Entries \cup {NoEntry}]]
    /\ req \in [Requests -> ReqTypes]
    /\ push \in PushTypes
    /\ purge \subseteq Keys

(* api/schemas.py: the origin fields "nomment les modeles REELLEMENT        *)
(* utilises, jamais ceux demandes": in an answer, and in every row, through *)
(* reads, pushes and replacements in any order.                             *)
Genuine(e) == e.payload # OldPayload => e.payload.by = e.models
OriginIsReal ==
    /\ \A s \in Stores, k \in Keys : Row(s, k) # NoEntry => Genuine(Row(s, k))
    /\ \A r \in Requests : req[r].pc = "answered" => req[r].origin = req[r].payload.by

(* No stage of an answer was computed by a smaller model than the one asked *)
(* for, nor by another one when a size is unreadable, wherever the entry    *)
(* came from.                                                               *)
Weaker(tag, asked) == /\ tag # asked
                      /\ \/ NoSize \in {Size[tag], Size[asked]}
                         \/ Size[tag] < Size[asked]
ServedIsWorthy ==
    \A r \in Requests : req[r].pc = "answered" =>
        \A i \in 1..3 : ~Weaker(req[r].payload.by[i], req[r].models[i])

(* "Une ecriture qui echoue ne doit jamais faire echouer une requete": what *)
(* was computed is answered, whatever happens to the cache.                 *)
ComputedIsAnswered ==
    \A r \in Requests : (req[r].pc = "write") ~> (req[r].pc = "answered")

(* When the push is done with an entry, Firestore serves every demand that  *)
(* the entry serves: skipping it loses nothing, since `satisfait` is        *)
(* transitive, and whatever requests and purges did meanwhile.              *)
DoneWithOne == push.pc \in {"compare", "put"} /\ push'.pc = "next"
Serves(row, d) == satisfait(d, row.models)
ServesAsMuch(row, e) ==
    /\ row # NoEntry /\ row.payload # OldPayload
    /\ \A d \in Demands : Serves(e, d) => Serves(row, d)
PushServes == [][DoneWithOne => ServesAsMuch(cache'["gcp"][push.key], push.entry)]_vars

(* predict_cache_cli.py: "L'entree distante est conservee si elle vaut au   *)
(* moins la locale": without --force, no better entry is replaced.          *)
PushKeepsBetter ==
    [][push.pc = "put" /\ push'.pc = "next" /\ ~push.force /\ Readable("gcp", push.key)
         => ~Serves(Row("gcp", push.key), push.entry.models)]_vars

(* core/schemas.py, of a panne: "aucun verdict n'est rendu et la question   *)
(* est a rejouer": no answer is served from the cache of such a run.        *)
NoPanneServed ==
    \A r \in Requests : req[r].pc = "answered" /\ req[r].cached => ~req[r].payload.panne
=============================================================================
