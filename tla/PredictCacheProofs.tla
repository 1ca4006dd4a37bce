--------------------------- MODULE PredictCacheProofs ---------------------------
(***************************************************************************)
(* Proofs about PredictCache, for every set of keys, of requests and of     *)
(* tags: what is served names the models that computed it and is worth the  *)
(* demand, and a push loses nothing that the local cache could serve.       *)
(***************************************************************************)
EXTENDS PredictCache, TLAPS

(* `satisfait` orders the demands: a demand is served by its own models,    *)
(* and by whatever serves something that serves it.                         *)
LEMMA SatisfaitReflexive == ASSUME NEW d \in Demands PROVE satisfait(d, d)
BY DEF satisfait

LEMMA SatisfaitTransitive ==
    ASSUME NEW a \in Demands, NEW b \in Demands, NEW c \in Demands,
           satisfait(a, b), satisfait(b, c)
    PROVE  satisfait(a, c)
<1> SUFFICES ASSUME NEW i \in 1..3
             PROVE  \/ a[i] = c[i]
                    \/ /\ Size[a[i]] # NoSize /\ Size[c[i]] # NoSize
                       /\ Size[a[i]] <= Size[c[i]]
  BY DEF satisfait
<1>1. a[i] \in Tags /\ b[i] \in Tags /\ c[i] \in Tags
  BY DemandAssumption
<1>2. \A t \in Tags : Size[t] # NoSize => Size[t] \in Nat
  BY SizeAssumption
<1> QED BY <1>1, <1>2 DEF satisfait

(* It compares as ServedIsWorthy does.                                      *)
LEMMA SatisfaitIsWorthy ==
    ASSUME NEW a \in Demands, NEW b \in Demands, satisfait(a, b), NEW i \in 1..3
    PROVE  ~Weaker(b[i], a[i])
<1>1. a[i] \in Tags /\ b[i] \in Tags
  BY DemandAssumption
<1>2. \A t \in Tags : Size[t] # NoSize => Size[t] \in Nat
  BY SizeAssumption
<1> QED BY <1>1, <1>2 DEF satisfait, Weaker

-------------------------------------------------------------------------------
(* What the types say of a request, of the push and of a row.               *)
LEMMA ReqType ==
    ASSUME TypeOK, NEW r \in Requests
    PROVE  /\ req[r].pc \in {"read", "run", "write", "answered"} =>
                 req[r].key \in Keys /\ req[r].models \in Demands
           /\ req[r].pc \in {"write", "answered"} => req[r].payload \in Payloads
BY DEF TypeOK, ReqTypes

LEMMA PushType ==
    ASSUME TypeOK
    PROVE  /\ push.pc # "off" => push.force \in BOOLEAN /\ push.todo \in SUBSET Keys
           /\ push.pc \in {"compare", "put"} => push.key \in Keys /\ push.entry \in Full
BY DEF TypeOK, PushTypes

LEMMA RowType ==
    ASSUME TypeOK, NEW s \in Stores, NEW k \in Keys
    PROVE  /\ Row(s, k) \in Entries \cup {NoEntry}
           /\ Readable(s, k) => Row(s, k) \in Full
BY DEF TypeOK, Row, Readable, Entries, Full

(* The moves of a request, of the push and of the cache keep the types.     *)
LEMMA ReqMove ==
    ASSUME TypeOK, NEW r \in Requests, NEW q \in ReqTypes, req' = [req EXCEPT ![r] = q]
    PROVE  req' \in [Requests -> ReqTypes]
BY DEF TypeOK

LEMMA PutMove ==
    ASSUME TypeOK, NEW s \in Stores, NEW k \in Keys, NEW e \in Full, Put(s, k, e)
    PROVE  /\ cache' \in [Stores -> [Keys -> Entries \cup {NoEntry}]]
           /\ cache'[s][k] = e
           /\ \A t \in Stores, j \in Keys : <<t, j>> # <<s, k>> => cache'[t][j] = cache[t][j]
<1>1. e \in Entries
  BY DEF Full, Entries
<1>2. cache' = [cache EXCEPT ![s] = [cache[s] EXCEPT ![k] = e]]
  BY DEF Put
<1> QED BY <1>1, <1>2 DEF TypeOK

LEMMA EraseMove ==
    ASSUME TypeOK, NEW s \in Stores, NEW K \in SUBSET Keys, Erase(s, K)
    PROVE  /\ cache' \in [Stores -> [Keys -> Entries \cup {NoEntry}]]
           /\ \A t \in Stores, k \in Keys : cache'[t][k] \in {cache[t][k], NoEntry}
<1>1. cache' = [cache EXCEPT ![s] = [k \in Keys |-> IF k \in K THEN NoEntry ELSE cache[s][k]]]
  BY DEF Erase
<1> QED BY <1>1 DEF TypeOK

LEMMA InitType == Init => TypeOK
BY DEF Init, TypeOK, Off, Idle, Entries, ReqTypes, PushTypes

(* Every step keeps the types: one case per action.                         *)
LEMMA NextType == TypeOK /\ [Next]_vars => TypeOK'
<1> SUFFICES ASSUME TypeOK, [Next]_vars PROVE TypeOK'
  OBVIOUS
<1> USE DEF TypeOK
<1>1. ASSUME NEW r \in Requests, Arrive(r) PROVE TypeOK'
  <2>1. PICK k \in Keys, d \in Demands, ignore_cache \in BOOLEAN :
           req' = [req EXCEPT ![r] = [pc |-> IF ignore_cache THEN "run" ELSE "read",
                                      key |-> k, models |-> d]]
    BY <1>1 DEF Arrive
  <2>2. req' \in [Requests -> ReqTypes]
    <3>1. [pc |-> IF ignore_cache THEN "run" ELSE "read", key |-> k, models |-> d] \in ReqTypes
      BY DEF ReqTypes
    <3> QED BY <2>1, <3>1, ReqMove
  <2> QED BY <1>1, <2>2 DEF Arrive
<1>2. ASSUME NEW r \in Requests, NoStore(r) \/ RunRaises(r) \/ Leave(r) PROVE TypeOK'
  <2>1. [pc |-> "failed"] \in ReqTypes /\ Off \in ReqTypes
    BY DEF ReqTypes, Off
  <2> QED BY <1>2, <2>1, ReqMove DEF NoStore, RunRaises, Leave
<1>3. ASSUME NEW r \in Requests, Hit(r) PROVE TypeOK'
  <2>1. req[r].key \in Keys /\ req[r].models \in Demands /\ On[r] \in Stores
    BY <1>3, ReqType, OnAssumption DEF Hit
  <2>2. Row(On[r], req[r].key) \in Full
    BY <1>3, <2>1, RowType DEF Hit, Usable
  <2> DEFINE e == Row(On[r], req[r].key)
             q == [pc |-> "answered", key |-> req[r].key, models |-> req[r].models,
                   cached |-> TRUE, origin |-> e.models, payload |-> e.payload]
  <2>3. q \in ReqTypes
    BY <2>1, <2>2 DEF ReqTypes, Full
  <2>4. req' = [req EXCEPT ![r] = q]
    BY <1>3 DEF Hit, Answer
  <2> HIDE DEF q
  <2>5. req' \in [Requests -> ReqTypes]
    BY <2>3, <2>4, ReqMove
  <2> QED BY <1>3, <2>5 DEF Hit
<1>4. ASSUME NEW r \in Requests, Miss(r) \/ ReadRaises(r) PROVE TypeOK'
  <2>1. [req[r] EXCEPT !.pc = "run"] \in ReqTypes
    BY <1>4 DEF Miss, ReadRaises, ReqTypes
  <2>2. req' = [req EXCEPT ![r] = [req[r] EXCEPT !.pc = "run"]]
    BY <1>4 DEF Miss, ReadRaises
  <2> QED BY <1>4, <2>1, <2>2, ReqMove DEF Miss, ReadRaises
<1>5. ASSUME NEW r \in Requests, Run(r) PROVE TypeOK'
  <2>1. req[r].key \in Keys /\ req[r].models \in Demands
    BY <1>5, ReqType DEF Run
  <2>2. PICK panne \in Pannes :
           req' = [req EXCEPT ![r] =
                      [pc |-> "write", key |-> req[r].key, models |-> req[r].models,
                       payload |-> [by |-> req[r].models, panne |-> panne]]]
    BY <1>5 DEF Run
  <2>3. [pc |-> "write", key |-> req[r].key, models |-> req[r].models,
         payload |-> [by |-> req[r].models, panne |-> panne]] \in ReqTypes
    BY <2>1 DEF ReqTypes, Payloads
  <2> QED BY <1>5, <2>2, <2>3, ReqMove DEF Run
<1>6. ASSUME NEW r \in Requests, Write(r) \/ WriteRaises(r) PROVE TypeOK'
  <2>1. /\ req[r].key \in Keys /\ req[r].models \in Demands
        /\ req[r].payload \in Payloads /\ On[r] \in Stores
    BY <1>6, ReqType, OnAssumption DEF Write, WriteRaises
  <2> DEFINE q == [pc |-> "answered", key |-> req[r].key, models |-> req[r].models,
                   cached |-> FALSE, origin |-> req[r].models, payload |-> req[r].payload]
             e == [models |-> req[r].models, payload |-> req[r].payload]
  <2>2. q \in ReqTypes /\ e \in Full
    BY <2>1 DEF ReqTypes, Full
  <2>3. req' = [req EXCEPT ![r] = q] /\ (Put(On[r], req[r].key, e) \/ UNCHANGED cache)
    BY <1>6 DEF Write, WriteRaises, Answer
  <2> HIDE DEF q, e
  <2>4. req' \in [Requests -> ReqTypes]
    BY <2>2, <2>3, ReqMove
  <2>5. cache' \in [Stores -> [Keys -> Entries \cup {NoEntry}]]
    BY <2>1, <2>2, <2>3, PutMove
  <2> QED BY <1>6, <2>4, <2>5 DEF Write, WriteRaises
<1>7. ASSUME PushStart PROVE TypeOK'
  BY <1>7 DEF PushStart, PushTypes
<1>8. ASSUME PushLocal PROVE TypeOK'
  <2>1. push.force \in BOOLEAN /\ push.todo \in SUBSET Keys /\ push.pc = "next"
    BY <1>8, PushType DEF PushLocal
  <2>2. push = [pc |-> "next", force |-> push.force, todo |-> push.todo]
    BY <2>1 DEF PushTypes
  <2>3. PICK k \in push.todo :
           push' = IF Readable("local", k)
                   THEN [pc |-> "compare", force |-> push.force, todo |-> push.todo \ {k},
                         key |-> k, entry |-> Row("local", k)]
                   ELSE [push EXCEPT !.todo = push.todo \ {k}]
    BY <1>8 DEF PushLocal
  <2>4. push' \in PushTypes
    <3>1. CASE Readable("local", k)
      <4>1. Row("local", k) \in Full
        BY <2>1, <3>1, RowType DEF Stores
      <4> QED BY <2>1, <2>3, <3>1, <4>1 DEF PushTypes
    <3>2. CASE ~Readable("local", k)
      BY <2>1, <2>2, <2>3, <3>2 DEF PushTypes
    <3> QED BY <3>1, <3>2
  <2> QED BY <1>8, <2>4 DEF PushLocal
<1>9. ASSUME PushCompare \/ PushPut PROVE TypeOK'
  <2>1. /\ push.force \in BOOLEAN /\ push.todo \in SUBSET Keys
        /\ push.key \in Keys /\ push.entry \in Full /\ push.pc \in {"compare", "put"}
    BY <1>9, PushType DEF PushCompare, PushPut
  <2>2. [push EXCEPT !.pc = "put"] \in PushTypes
    BY <2>1 DEF PushTypes
  <2>3. [pc |-> "next", force |-> push.force, todo |-> push.todo] \in PushTypes
    BY <2>1 DEF PushTypes
  <2>4. push' \in PushTypes
    BY <1>9, <2>2, <2>3 DEF PushCompare, PushPut, Onward
  <2>5. cache' \in [Stores -> [Keys -> Entries \cup {NoEntry}]]
    BY <1>9, <2>1, PutMove DEF PushCompare, PushPut, Stores
  <2> QED BY <1>9, <2>4, <2>5 DEF PushCompare, PushPut
<1>10. ASSUME PushEnd PROVE TypeOK'
  BY <1>10 DEF PushEnd, Idle, PushTypes
<1>11. ASSUME Clean PROVE TypeOK'
  <2>1. \A s \in Stores : \A K \in Matching(s) : K \in SUBSET Keys
    BY DEF Matching
  <2>2. CASE PurgeLocal
    BY <2>1, <2>2, EraseMove DEF PurgeLocal, Stores
  <2>3. CASE PurgeQuery
    BY <2>1, <2>3 DEF PurgeQuery, Stores
  <2>4. CASE PurgeCommit
    BY <2>4, EraseMove DEF PurgeCommit, Stores
  <2> QED BY <1>11, <2>2, <2>3, <2>4 DEF Clean
<1>12. CASE UNCHANGED vars
  BY <1>12 DEF vars
<1> QED
  BY <1>1, <1>2, <1>3, <1>4, <1>5, <1>6, <1>7, <1>8, <1>9, <1>10, <1>11, <1>12
     DEF Next, Handle, Publish

(* Type correctness of the cache of predictions.                            *)
THEOREM TypeCorrect == Spec => []TypeOK
BY InitType, NextType, PTL DEF Spec

-------------------------------------------------------------------------------
(* What is served was computed by the models it names, which are worth the  *)
(* demand. The invariant adds to the rows and the answers what is in        *)
(* flight: a result about to be written, an entry about to be pushed.       *)
RowsGenuine == \A s \in Stores, k \in Keys : Row(s, k) # NoEntry => Genuine(Row(s, k))
Right(q) == /\ q.pc = "write" => q.payload.by = q.models
            /\ q.pc = "answered" => /\ q.origin = q.payload.by
                                    /\ satisfait(q.models, q.payload.by)
PushGenuine == push.pc \in {"compare", "put"} => push.entry.payload.by = push.entry.models
OriginInv == RowsGenuine /\ (\A r \in Requests : Right(req[r])) /\ PushGenuine

(* A row that is purged, or replaced by a genuine one, leaves all genuine.  *)
LEMMA RowsKept ==
    ASSUME RowsGenuine,
           \A s \in Stores, k \in Keys :
              \/ cache'[s][k] \in {cache[s][k], NoEntry}
              \/ Genuine(cache'[s][k])
    PROVE  RowsGenuine'
BY DEF RowsGenuine, Row, Genuine

(* A request that moves to a right state leaves all of them right.          *)
LEMMA RightKept ==
    ASSUME TypeOK, OriginInv, NEW r \in Requests, NEW q, Right(q),
           req' = [req EXCEPT ![r] = q]
    PROVE  \A p \in Requests : Right(req'[p])
<1>1. \A p \in Requests : req'[p] = (IF p = r THEN q ELSE req[p])
  BY DEF TypeOK
<1> QED BY <1>1 DEF OriginInv

(* Every step keeps OriginInv: one case per action.                         *)
LEMMA OriginStep == TypeOK /\ OriginInv /\ [Next]_vars => OriginInv'
<1> SUFFICES ASSUME TypeOK, OriginInv, [Next]_vars PROVE OriginInv'
  OBVIOUS
<1>a. RowsGenuine /\ PushGenuine
  BY DEF OriginInv
<1>b. ASSUME UNCHANGED cache PROVE RowsGenuine'
  BY <1>a, <1>b, RowsKept
<1>c. ASSUME UNCHANGED push PROVE PushGenuine'
  BY <1>a, <1>c DEF PushGenuine
<1>d. ASSUME UNCHANGED req PROVE \A r \in Requests : Right(req'[r])
  BY <1>d DEF OriginInv
<1>1. ASSUME NEW r \in Requests, Arrive(r) PROVE OriginInv'
  <2>1. PICK k \in Keys, d \in Demands, ignore_cache \in BOOLEAN :
           req' = [req EXCEPT ![r] = [pc |-> IF ignore_cache THEN "run" ELSE "read",
                                      key |-> k, models |-> d]]
    BY <1>1 DEF Arrive
  <2>2. Right([pc |-> IF ignore_cache THEN "run" ELSE "read", key |-> k, models |-> d])
    BY DEF Right
  <2>3. \A p \in Requests : Right(req'[p])
    BY <2>1, <2>2, RightKept
  <2> QED BY <1>1, <2>3, <1>b, <1>c DEF Arrive, OriginInv
<1>2. ASSUME NEW r \in Requests, NoStore(r) \/ RunRaises(r) \/ Leave(r) PROVE OriginInv'
  <2>1. Right([pc |-> "failed"]) /\ Right(Off)
    BY DEF Right, Off
  <2>2. \A p \in Requests : Right(req'[p])
    BY <1>2, <2>1, RightKept DEF NoStore, RunRaises, Leave
  <2> QED BY <1>2, <2>2, <1>b, <1>c DEF NoStore, RunRaises, Leave, OriginInv
<1>3. ASSUME NEW r \in Requests, Hit(r) PROVE OriginInv'
  <2> DEFINE e == Row(On[r], req[r].key)
             q == [pc |-> "answered", key |-> req[r].key, models |-> req[r].models,
                   cached |-> TRUE, origin |-> e.models, payload |-> e.payload]
  <2>1. req[r].key \in Keys /\ On[r] \in Stores
    BY <1>3, ReqType, OnAssumption DEF Hit
  <2>2. e.payload.by = e.models /\ satisfait(req[r].models, e.models)
    BY <1>3, <2>1, <1>a DEF Hit, Usable, Readable, RowsGenuine, Genuine
  <2>3. Right(q)
    BY <2>2 DEF Right
  <2>4. req' = [req EXCEPT ![r] = q]
    BY <1>3 DEF Hit, Answer
  <2> HIDE DEF q
  <2>5. \A p \in Requests : Right(req'[p])
    BY <2>3, <2>4, RightKept
  <2> QED BY <1>3, <2>5, <1>b, <1>c DEF Hit, OriginInv
<1>4. ASSUME NEW r \in Requests, Miss(r) \/ ReadRaises(r) PROVE OriginInv'
  <2>1. Right([req[r] EXCEPT !.pc = "run"])
    BY DEF Right, TypeOK, ReqTypes
  <2>2. req' = [req EXCEPT ![r] = [req[r] EXCEPT !.pc = "run"]]
    BY <1>4 DEF Miss, ReadRaises
  <2>3. \A p \in Requests : Right(req'[p])
    BY <2>1, <2>2, RightKept
  <2> QED BY <1>4, <2>3, <1>b, <1>c DEF Miss, ReadRaises, OriginInv
<1>5. ASSUME NEW r \in Requests, Run(r) PROVE OriginInv'
  <2>1. PICK panne \in Pannes :
           req' = [req EXCEPT ![r] =
                      [pc |-> "write", key |-> req[r].key, models |-> req[r].models,
                       payload |-> [by |-> req[r].models, panne |-> panne]]]
    BY <1>5 DEF Run
  <2>2. Right([pc |-> "write", key |-> req[r].key, models |-> req[r].models,
               payload |-> [by |-> req[r].models, panne |-> panne]])
    BY DEF Right
  <2>3. \A p \in Requests : Right(req'[p])
    BY <2>1, <2>2, RightKept
  <2> QED BY <1>5, <2>3, <1>b, <1>c DEF Run, OriginInv
<1>6. ASSUME NEW r \in Requests, Write(r) \/ WriteRaises(r) PROVE OriginInv'
  <2> DEFINE q == [pc |-> "answered", key |-> req[r].key, models |-> req[r].models,
                   cached |-> FALSE, origin |-> req[r].models, payload |-> req[r].payload]
             e == [models |-> req[r].models, payload |-> req[r].payload]
  <2>1. /\ req[r].key \in Keys /\ req[r].models \in Demands
        /\ req[r].payload \in Payloads /\ On[r] \in Stores
        /\ req[r].payload.by = req[r].models
    BY <1>6, ReqType, OnAssumption DEF Write, WriteRaises, OriginInv, Right
  <2>2. Right(q)
    BY <2>1, SatisfaitReflexive DEF Right
  <2>3. Genuine(e) /\ e \in Full
    BY <2>1 DEF Genuine, Full
  <2>4. req' = [req EXCEPT ![r] = q] /\ (Put(On[r], req[r].key, e) \/ UNCHANGED cache)
    BY <1>6 DEF Write, WriteRaises, Answer
  <2> HIDE DEF q, e
  <2>5. \A p \in Requests : Right(req'[p])
    BY <2>2, <2>4, RightKept
  <2>6. RowsGenuine'
    <3>1. CASE Put(On[r], req[r].key, e)
      BY <3>1, <2>1, <2>3, <1>a, PutMove, RowsKept
    <3> QED BY <3>1, <2>4, <1>b
  <2> QED BY <1>6, <2>5, <2>6, <1>c DEF Write, WriteRaises, OriginInv
<1>7. ASSUME PushStart \/ PushEnd PROVE OriginInv'
  <2>1. PushGenuine'
    BY <1>7 DEF PushStart, PushEnd, Idle, PushGenuine
  <2> QED BY <1>7, <2>1, <1>b, <1>d DEF PushStart, PushEnd, OriginInv
<1>8. ASSUME PushLocal PROVE OriginInv'
  <2>1. PICK k \in push.todo :
           push' = IF Readable("local", k)
                   THEN [pc |-> "compare", force |-> push.force, todo |-> push.todo \ {k},
                         key |-> k, entry |-> Row("local", k)]
                   ELSE [push EXCEPT !.todo = push.todo \ {k}]
    BY <1>8 DEF PushLocal
  <2>2. push.todo \in SUBSET Keys /\ push.pc = "next"
    BY <1>8, PushType DEF PushLocal
  <2>3. PushGenuine'
    <3>1. CASE Readable("local", k)
      <4>1. Row("local", k).payload.by = Row("local", k).models
        BY <3>1, <2>2, <1>a DEF RowsGenuine, Genuine, Readable, Stores
      <4> QED BY <2>1, <3>1, <4>1 DEF PushGenuine
    <3>2. CASE ~Readable("local", k)
      <4>1. push'.pc = "next"
        BY <2>1, <2>2, <3>2 DEF TypeOK, PushTypes
      <4> QED BY <4>1 DEF PushGenuine
    <3> QED BY <3>1, <3>2
  <2> QED BY <1>8, <2>3, <1>b, <1>d DEF PushLocal, OriginInv
<1>9. ASSUME PushCompare PROVE OriginInv'
  <2>1. push'.pc = "next" \/ push'.entry = push.entry
    <3>1. [push EXCEPT !.pc = "put"].entry = push.entry
      BY <1>9 DEF PushCompare, TypeOK, PushTypes
    <3>2. [pc |-> "next", force |-> push.force, todo |-> push.todo].pc = "next"
      OBVIOUS
    <3> QED BY <1>9, <3>1, <3>2 DEF PushCompare, Onward
  <2>2. push.entry.payload.by = push.entry.models
    BY <1>9, <1>a DEF PushCompare, PushGenuine
  <2> QED BY <1>9, <2>1, <2>2, <1>b, <1>d DEF PushCompare, PushGenuine, OriginInv
<1>10. ASSUME PushPut PROVE OriginInv'
  <2>1. push.key \in Keys /\ push.entry \in Full /\ Genuine(push.entry)
    BY <1>10, <1>a, PushType DEF PushPut, PushGenuine, Genuine
  <2>2. RowsGenuine'
    BY <1>10, <2>1, <1>a, PutMove, RowsKept DEF PushPut, Stores
  <2>3. PushGenuine'
    BY <1>10 DEF PushPut, Onward, PushGenuine
  <2> QED BY <1>10, <2>2, <2>3, <1>d DEF PushPut, OriginInv
<1>11. ASSUME Clean PROVE OriginInv'
  <2>1. \A s \in Stores : \A K \in Matching(s) : K \in SUBSET Keys
    BY DEF Matching
  <2>2. purge \in SUBSET Keys
    BY DEF TypeOK
  <2>3. RowsGenuine'
    <3>1. CASE PurgeLocal \/ PurgeCommit
      <4>1. PICK s \in Stores, K \in SUBSET Keys : Erase(s, K)
        BY <3>1, <2>1, <2>2 DEF PurgeLocal, PurgeCommit, Stores
      <4> QED BY <4>1, <1>a, EraseMove, RowsKept
    <3>2. CASE PurgeQuery
      BY <3>2, <1>b DEF PurgeQuery
    <3> QED BY <1>11, <3>1, <3>2 DEF Clean
  <2> QED BY <1>11, <2>3, <1>c, <1>d DEF Clean, PurgeLocal, PurgeQuery, PurgeCommit, OriginInv
<1>12. CASE UNCHANGED vars
  BY <1>12, <1>b, <1>c, <1>d DEF vars, OriginInv
<1> QED
  BY <1>1, <1>2, <1>3, <1>4, <1>5, <1>6, <1>7, <1>8, <1>9, <1>10, <1>11, <1>12
     DEF Next, Handle, Publish

LEMMA OriginInit == Init => OriginInv
BY DEF Init, OriginInv, RowsGenuine, Row, Genuine, Right, PushGenuine, Off, Idle

(* The origin of an answer, and the models of a row, are those that         *)
(* computed what it holds (OriginIsReal).                                   *)
THEOREM OriginTheorem == Spec => []OriginIsReal
<1>1. OriginInv => OriginIsReal
  BY DEF OriginInv, OriginIsReal, RowsGenuine, Right
<1> QED BY <1>1, OriginInit, OriginStep, TypeCorrect, PTL DEF Spec

(* No stage of an answer was computed by a smaller model than the one asked *)
(* for, nor by an incomparable one (ServedIsWorthy).                        *)
THEOREM WorthTheorem == Spec => []ServedIsWorthy
<1>1. ASSUME TypeOK, OriginInv PROVE ServedIsWorthy
  <2>1. SUFFICES ASSUME NEW r \in Requests, req[r].pc = "answered", NEW i \in 1..3
                 PROVE  ~Weaker(req[r].payload.by[i], req[r].models[i])
    BY DEF ServedIsWorthy
  <2>2. /\ req[r].models \in Demands /\ req[r].payload.by \in Demands
        /\ satisfait(req[r].models, req[r].payload.by)
    BY <2>1, <1>1, ReqType DEF OriginInv, Right, Payloads
  <2> QED BY <2>2, SatisfaitIsWorthy
<1> QED BY <1>1, OriginInit, OriginStep, TypeCorrect, PTL DEF Spec

-------------------------------------------------------------------------------
(* A push loses nothing: either the row that made it skip the entry serves  *)
(* all that the entry serves, since `satisfait` is transitive, or the entry *)
(* itself is there.                                                         *)
LEMMA PushStep ==
    TypeOK /\ [Next]_vars =>
        (DoneWithOne => ServesAsMuch(cache'["gcp"][push.key], push.entry))
<1> SUFFICES ASSUME TypeOK, [Next]_vars, DoneWithOne
             PROVE  ServesAsMuch(cache'["gcp"][push.key], push.entry)
  OBVIOUS
<1>0. push.key \in Keys /\ push.entry \in Full /\ push.pc \in {"compare", "put"}
  BY PushType DEF DoneWithOne
<1>1. \A e \in Full : e # NoEntry /\ e.payload # OldPayload /\ e.models \in Demands
  BY AbsenceAssumption DEF Full, Entries
<1>2. CASE PushCompare
  <2> DEFINE row == Row("gcp", push.key)
  <2>1. push.pc = "compare" /\ UNCHANGED cache
    BY <1>2 DEF PushCompare
  <2>2. [push EXCEPT !.pc = "put"].pc = "put"
    BY <1>0, <2>1 DEF TypeOK, PushTypes
  <2>3. Readable("gcp", push.key) /\ satisfait(push.entry.models, row.models)
    BY <1>2, <2>2 DEF PushCompare, DoneWithOne
  <2>4. row \in Full /\ cache'["gcp"][push.key] = row
    BY <1>0, <2>1, <2>3, RowType DEF Stores, Row
  <2>5. \A d \in Demands : Serves(push.entry, d) => Serves(row, d)
    BY <1>0, <1>1, <2>3, <2>4, SatisfaitTransitive DEF Serves
  <2> QED BY <1>1, <2>4, <2>5 DEF ServesAsMuch
<1>3. CASE PushPut
  <2>1. cache'["gcp"][push.key] = push.entry
    BY <1>0, <1>3, PutMove DEF PushPut, Stores
  <2> QED BY <1>0, <1>1, <2>1 DEF ServesAsMuch
<1>4. CASE PushStart \/ PushLocal \/ PushEnd
  BY <1>0, <1>4 DEF PushStart, PushLocal, PushEnd, Idle, DoneWithOne
<1>5. CASE UNCHANGED push
  BY <1>0, <1>5 DEF DoneWithOne
<1>6. CASE Publish
  BY <1>2, <1>3, <1>4, <1>6 DEF Publish
<1>7. CASE UNCHANGED vars \/ Clean \/ \E r \in Requests : Arrive(r) \/ NoStore(r) \/ Handle(r) \/ Leave(r)
  <2>1. UNCHANGED push
    BY <1>7 DEF vars, Clean, PurgeLocal, PurgeQuery, PurgeCommit, Arrive, NoStore, Handle,
       Leave, Hit, Miss, ReadRaises, Run, RunRaises, Write, WriteRaises
  <2> QED BY <2>1, <1>5
<1> QED BY <1>6, <1>7 DEF Next

(* When the push is done with an entry, Firestore serves every demand that  *)
(* the entry serves (PushServes).                                           *)
THEOREM PushTheorem == Spec => PushServes
BY PushStep, TypeCorrect, PTL DEF Spec, PushServes
===============================================================================
