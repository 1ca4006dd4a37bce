------------------------------ MODULE PooledCalls ------------------------------
(***************************************************************************)
(* What the threads of `map_parallele` share while they work: the HTTP      *)
(* client of OllamaClient (berlue/llm/client.py), whose identity token      *)
(* lives for a limited time; the access token of the Firestore client       *)
(* (berlue/evaluation/gcp_result_store.py), which no lock protects; and the *)
(* NLI model of SelfCheck (berlue/selfcheck/scorer.py), loaded by the first *)
(* thread that needs it.                                                    *)
(*                                                                          *)
(* The pool is ParallelMap's: here its `fn` takes several steps, under a    *)
(* lock or not, and may raise at any of them. `fails` tells in advance      *)
(* which calls will. A token is named by the time at which it expires.      *)
(*                                                                          *)
(* FrozenHeader, KeptToken and LoadUnchecked are mutated forms of the       *)
(* definition that follows each: no specification uses them.                *)
(***************************************************************************)
EXTENDS ParallelMap

CONSTANTS Lives,            \* what a token may have left when it is obtained
          Margin,           \* a token that has less left is renewed
          MaxDelay,         \* longest time from a check to the server
          MaxTime           \* bound on the clock

ASSUME LivesAssumption == Lives \subseteq Nat /\ \A l \in Lives : l > 2 * MaxDelay
ASSUME MarginAssumption == MaxDelay \in Nat /\ Margin \in Nat /\ Margin >= MaxDelay

VARIABLES kind,             \* "local" or "cloud" generation, "store", or "score"
          step,             \* where the call of each rank stands in `fn`
          lock,             \* rank of the call that holds the lock, 0 if none
          now,              \* the clock
          credentials,      \* their token, NoToken before the first refresh
          client,           \* the token in the header of the HTTP client
          token, expiry,    \* those of the Firestore client
          model,            \* the NLI model loaded: the rank of who loaded it
          held,             \* the client, token or model each call works with
          since,            \* when each call last checked or asked for a token
          refused           \* the calls that Firestore has answered 401

ollama    == <<credentials, client>>
firestore == <<token, expiry>>
shared == <<kind, lock, now, ollama, firestore, model>>
mine   == <<step, held, since, refused>>
pvars  == <<vars, shared, mine>>

NoToken  == -1              \* no token, no client
NoHeader == 0               \* a client without authentication
OldToken == 0               \* a token that is dead
NoModel  == -1
Preload  == 0               \* who loads the model when the service starts
Ended    == {"ended", "raised"}

(* The service loads the model before it serves; a command does not.        *)
AtStart  == IF kind = "score" THEN {NoModel, Preload} ELSE {NoModel}

PInit == /\ Init
         /\ kind \in {"local", "cloud", "store", "score"}
         /\ step = [i \in Items |-> "called"]
         /\ held = [i \in Items |-> NoToken]
         /\ since = [i \in Items |-> 0]
         /\ lock = 0
         /\ now = 0
         /\ credentials \in IF kind = "cloud" THEN {NoToken, Margin, Margin + 2}
                            ELSE {NoToken}
         /\ client \in CASE kind = "cloud" -> {NoToken, credentials, OldToken}
                         [] kind = "local" -> {NoToken, NoHeader}
                         [] OTHER          -> {NoToken}
         /\ client = OldToken => credentials = NoToken  \* after an empty token
         /\ token \in IF kind = "store" THEN {NoToken, Margin, Margin + 2} ELSE {NoToken}
         /\ expiry = IF token = NoToken THEN NoToken ELSE token - Margin
         /\ refused = {}
         /\ model \in AtStart

(* `fn` runs for this rank, in a thread of the pool or in the caller's. *)
Executing(i) == \/ task[i] = "running"
                \/ caller = "inline" /\ i = NextRank

At(i, s) == Executing(i) /\ step[i] = s

Goto(i, s) == step' = [step EXCEPT ![i] = s]

Acquire(i) == lock = 0 /\ lock' = i

(* An exception leaves the `with` of a lock, which releases it. *)
RaiseUnderLock(i) ==
    /\ i \in fails
    /\ Goto(i, "raised")
    /\ lock' = 0

-------------------------------------------------------------------------------
(***************************************************************************)
(* `generate_detail`: the property `client`, then the request.              *)
(***************************************************************************)
valid == credentials # NoToken /\ now < credentials - Margin

AskClient(i) ==             \* `with self._client_lock`, and the check
    /\ kind \in {"local", "cloud"}
    /\ At(i, "called")
    /\ Acquire(i)
    /\ Goto(i, IF kind = "local" \/ valid THEN "building" ELSE "refreshing")
    /\ since' = [since EXCEPT ![i] = now]
    /\ UNCHANGED <<kind, now, ollama, firestore, model, held, refused>>

RefreshRaises(i) ==
    /\ At(i, "refreshing")
    /\ RaiseUnderLock(i)
    /\ UNCHANGED <<kind, now, ollama, firestore, model, held, since, refused>>

EmptyToken(i) ==            \* of the old token, the client alone is left
    /\ At(i, "refreshing")
    /\ credentials' = NoToken
    /\ RaiseUnderLock(i)
    /\ UNCHANGED <<kind, now, client, firestore, model, held, since, refused>>

FrozenHeader(i) ==
    /\ At(i, "refreshing")
    /\ \E life \in Lives : credentials' = now + life
    /\ since' = [since EXCEPT ![i] = now]
    /\ Goto(i, "building")
    /\ UNCHANGED <<kind, lock, now, client, firestore, model, held, refused>>

Refresh(i) ==               \* the client built with the old token is dropped
    /\ At(i, "refreshing")
    /\ \E life \in Lives : credentials' = now + life
    /\ client' = NoToken
    /\ since' = [since EXCEPT ![i] = now]
    /\ Goto(i, "building")
    /\ UNCHANGED <<kind, lock, now, firestore, model, held, refused>>

BuildClient(i) ==
    /\ At(i, "building")
    /\ client' = IF client # NoToken THEN client
                 ELSE IF kind = "local" THEN NoHeader ELSE credentials
    /\ held' = [held EXCEPT ![i] = client']
    /\ lock' = 0
    /\ Goto(i, "sending")
    /\ UNCHANGED <<kind, now, credentials, firestore, model, since, refused>>

Received(i) ==              \* the server has let the request through
    /\ At(i, "sending")
    /\ kind = "store" => now < held[i] \/ i \in refused
    /\ Goto(i, "answering")
    /\ since' = [since EXCEPT ![i] = 0]
    /\ UNCHANGED <<shared, held, refused>>

Answered(i) ==              \* a text; or a timeout, an error, an empty text
    /\ At(i, "answering")
    /\ Goto(i, IF i \in fails THEN "raised" ELSE "ended")
    /\ held' = [held EXCEPT ![i] = NoToken]
    /\ UNCHANGED <<shared, since, refused>>

-------------------------------------------------------------------------------
(***************************************************************************)
(* `_request` of the Firestore client: `_headers`, the request, and one     *)
(* more time with a fresh token when the answer is 401.                     *)
(***************************************************************************)
AskHeaders(i) ==
    /\ kind = "store"
    /\ At(i, "called")
    /\ Goto(i, IF token = NoToken \/ now >= expiry THEN "fetching" ELSE "reading")
    /\ since' = [since EXCEPT ![i] = now]
    /\ UNCHANGED <<shared, held, refused>>

AccessToken(i) ==           \* the metadata server, or the gcloud command
    /\ At(i, "fetching")
    /\ \/ /\ \E life \in Lives : held' = [held EXCEPT ![i] = now + life]
          /\ Goto(i, "assigning")
       \/ /\ i \in fails
          /\ Goto(i, "raised")
          /\ UNCHANGED held
    /\ since' = [since EXCEPT ![i] = now]
    /\ UNCHANGED <<shared, refused>>

AssignToken(i) ==
    /\ At(i, "assigning")
    /\ token' = held[i]
    /\ Goto(i, "expiring")
    /\ UNCHANGED <<kind, lock, now, ollama, expiry, model, held, since, refused>>

AssignExpiry(i) ==
    /\ At(i, "expiring")
    /\ expiry' = held[i] - Margin
    /\ Goto(i, "reading")
    /\ UNCHANGED <<kind, lock, now, ollama, token, model, held, since, refused>>

ReadToken(i) ==             \* the attribute, whoever assigned it last
    /\ At(i, "reading")
    /\ held' = [held EXCEPT ![i] = token]
    /\ Goto(i, "sending")
    /\ UNCHANGED <<shared, since, refused>>

KeptToken(i) ==
    /\ kind = "store" /\ i \notin refused
    /\ At(i, "sending")
    /\ refused' = refused \cup {i}
    /\ Goto(i, "reading")
    /\ UNCHANGED <<shared, held, since>>

Unauthorized(i) ==          \* the token is dead, revoked, or a clock is late
    /\ kind = "store" /\ i \notin refused
    /\ At(i, "sending")
    /\ refused' = refused \cup {i}
    /\ Goto(i, "fetching")
    /\ UNCHANGED <<shared, held, since>>

-------------------------------------------------------------------------------
(***************************************************************************)
(* `compute_divergence`: `_get_selfcheck_nli`, then the model at work.      *)
(***************************************************************************)
FirstCheck(i) ==
    /\ kind = "score"
    /\ At(i, "called")
    /\ Goto(i, IF model = NoModel THEN "waiting" ELSE "got")
    /\ UNCHANGED <<shared, held, since, refused>>

LoadUnchecked(i) ==
    /\ At(i, "waiting")
    /\ Acquire(i)
    /\ Goto(i, "loading")
    /\ UNCHANGED <<kind, now, ollama, firestore, model, held, since, refused>>

SecondCheck(i) ==
    /\ At(i, "waiting")
    /\ lock = 0
    /\ IF model = NoModel
       THEN Acquire(i) /\ Goto(i, "loading")
       ELSE Goto(i, "got") /\ UNCHANGED lock
    /\ UNCHANGED <<kind, now, ollama, firestore, model, held, since, refused>>

LoadFails(i) ==             \* the next thread tries again
    /\ At(i, "loading")
    /\ RaiseUnderLock(i)
    /\ UNCHANGED <<kind, now, ollama, firestore, model, held, since, refused>>

Load(i) ==
    /\ At(i, "loading")
    /\ model' = i
    /\ lock' = 0
    /\ Goto(i, "got")
    /\ UNCHANGED <<kind, now, ollama, held, since, firestore, refused>>

UseModel(i) ==              \* the global is read again when it is returned
    /\ At(i, "got")
    /\ held' = [held EXCEPT ![i] = model]
    /\ Goto(i, "answering")
    /\ UNCHANGED <<shared, since, refused>>

-------------------------------------------------------------------------------
Fn(i) == \/ AskClient(i) \/ RefreshRaises(i) \/ EmptyToken(i) \/ Refresh(i) \/ BuildClient(i)
         \/ Received(i) \/ Answered(i)
         \/ AskHeaders(i) \/ AccessToken(i) \/ AssignToken(i) \/ AssignExpiry(i)
         \/ ReadToken(i) \/ Unauthorized(i)
         \/ FirstCheck(i) \/ SecondCheck(i) \/ LoadFails(i) \/ Load(i) \/ UseModel(i)

Working == /\ \E i \in Items : Fn(i)
           /\ UNCHANGED vars

(* The pool learns the result of a call when `fn` has ended. *)
PCall == /\ Call
         /\ caller = "inline" => step[NextRank] \in Ended
         /\ UNCHANGED <<shared, mine>>

PPool == /\ \E i \in Items : Start(i) \/ (step[i] \in Ended /\ Finish(i))
         /\ UNCHANGED <<shared, mine>>

Tick == /\ kind \in {"cloud", "store"} /\ now < MaxTime
        /\ \A i \in Items :
              step[i] \in {"building", "assigning", "expiring", "reading", "sending"}
                  => now < since[i] + MaxDelay
        /\ now' = now + 1
        /\ UNCHANGED <<vars, kind, lock, ollama, firestore, model, mine>>

PDone == Finished /\ UNCHANGED pvars

PNext == PCall \/ PPool \/ Working \/ Tick \/ PDone

(* Each thread is scheduled, the network and the model answer or raise.     *)
PFairness == /\ WF_pvars(PCall) /\ WF_pvars(PPool)
             /\ \A i \in 1..MaxItems : WF_pvars(i \in Items /\ Fn(i) /\ UNCHANGED vars)

PSpec == PInit /\ [][PNext]_pvars /\ PFairness

-------------------------------------------------------------------------------
(* No request leaves with a token that dies before the server checks it,    *)
(* however long the client has lived and whichever thread renewed it:       *)
(* "Client HTTP dont le jeton d'authentification est toujours valide".      *)
(* Threads may leave the Firestore client a token with the expiry of        *)
(* another one; the second attempt of a call that is answered 401 for that  *)
(* still leaves with a living one ("on retente une fois avec un jeton       *)
(* frais"), although it reads the attribute that others assign meanwhile.   *)
NoDeadToken ==
    \A i \in Items :
        /\ kind = "cloud" /\ step[i] = "sending" => now < held[i]
        /\ kind = "store" /\ step[i] = "sending" /\ i \in refused => now < held[i]

(* The calls of a list are scored by one model, loaded by one of them at    *)
(* most, the failed attempts excepted.                                      *)
OneModel ==
    kind = "score" =>
        \A i \in Items : step[i] = "answering" => held[i] = model

(***************************************************************************)
(* Why they hold. Each kind of call goes through its own steps; the lock is *)
(* held from the check of a token to its use, and while the model loads.    *)
(***************************************************************************)
Steps == {"called", "refreshing", "building", "sending", "answering",
          "fetching", "assigning", "expiring", "reading",
          "waiting", "loading", "got"} \cup Ended

StepKind(s) == CASE s \in {"refreshing", "building"}    -> {"local", "cloud"}
                 [] s \in {"fetching", "assigning",
                           "expiring", "reading"}       -> {"store"}
                 [] s = "sending"                       -> {"local", "cloud", "store"}
                 [] s \in {"waiting", "loading", "got"} -> {"score"}
                 [] OTHER -> {"local", "cloud", "store", "score"}

StepInv ==
    /\ n \in Nat
    /\ step \in [Items -> Steps]
    /\ \A i \in Items : kind \in StepKind(step[i])

ValueInv ==
    /\ held \in [Items -> Int] /\ since \in [Items -> Nat]
    /\ now \in Nat /\ \A i \in Items : since[i] <= now
    /\ credentials \in Int /\ client \in Int
    /\ token \in Int /\ expiry \in Int /\ model \in Int
    /\ lock \in Nat /\ refused \subseteq Items

(* From a check of the identity token to the request, the lock keeps the    *)
(* token checked, and the request leaves before MaxDelay has passed.        *)
CloudInv ==
    kind = "cloud" =>
        /\ credentials # NoToken => client \in {NoToken, credentials}
        /\ \A i \in Items :
              /\ step[i] \in {"refreshing", "building"} => lock = i
              /\ step[i] \in {"building", "sending"} => now <= since[i] + MaxDelay
              /\ step[i] = "building" => credentials > since[i] + MaxDelay
              /\ step[i] = "sending" => held[i] > since[i] + MaxDelay

(* No lock here: whichever thread assigned the token last had just asked    *)
(* for it, so it outlives every request that is about to read it.           *)
StoreInv ==
    kind = "store" =>
        \A i \in Items :
            /\ i \in refused => step[i] # "called"
            /\ step[i] \in {"assigning", "expiring", "reading", "sending"}
                  => now <= since[i] + MaxDelay
            /\ step[i] \in {"assigning", "expiring"}
                  => held[i] > since[i] + MaxDelay + MaxDelay
            /\ step[i] = "expiring" \/ (step[i] = "reading" /\ i \in refused)
                  => token > since[i] + MaxDelay
            /\ step[i] = "sending" /\ i \in refused => held[i] > since[i] + MaxDelay

ScoreInv ==
    kind = "score" =>
        \A i \in Items :
            /\ step[i] = "loading" => lock = i /\ model = NoModel
            /\ step[i] \in {"got", "answering"} => model # NoModel
            /\ step[i] = "answering" => held[i] = model

PIInv == StepInv /\ ValueInv /\ CloudInv /\ StoreInv /\ ScoreInv

(* The lock is held by the call that is between the `with` and its end, and *)
(* by no other; that call is at work, in its thread.                        *)
UnderLock == {"refreshing", "building", "loading"}

LockInv ==
    /\ \A i \in Items : step[i] \in UnderLock => lock = i
    /\ lock # 0 => lock \in Items /\ step[lock] \in UnderLock /\ Executing(lock)

(* An exception in a thread never leaves the lock taken behind it, for the  *)
(* next list of the process.                                                *)
LockReleased == Finished => lock = 0
===============================================================================
