-------------------------- MODULE ScopeRegistryProofs --------------------------
(***************************************************************************)
(* Theorems about ScopeRegistry, for every set of rows, processes, threads, *)
(* calls, failures and purges. A sum over a finite set is first shown to be *)
(* the number of its units, which makes it move with one element.           *)
(***************************************************************************)
EXTENDS ScopeRegistry, FiniteSetTheorems, TLAPS

(* The units that a sum counts.                                             *)
Units(f, T) == UNION {{x} \X (1..f[x]) : x \in T}

LEMMA UnitsFinite ==
    ASSUME NEW T, IsFiniteSet(T), NEW f, \A x \in T : f[x] \in Nat
    PROVE  IsFiniteSet(Units(f, T))
<1> DEFINE Parts == {{x} \X (1..f[x]) : x \in T}
<1>1. IsFiniteSet(Parts)
  <2> DEFINE part == [x \in T |-> {x} \X (1..f[x])]
  <2>1. part \in Surjection(T, Parts)
    BY DEF Surjection
  <2>2. QED
    BY <2>1, FS_Surjection
<1>2. \A P \in Parts : IsFiniteSet(P)
  <2> SUFFICES ASSUME NEW x \in T PROVE IsFiniteSet({x} \X (1..f[x]))
    OBVIOUS
  <2>1. IsFiniteSet({x}) /\ IsFiniteSet(1..f[x])
    <3>1. IsFiniteSet(1..f[x])
      BY FS_Interval
    <3>2. QED
      BY <3>1, FS_Singleton
  <2>2. QED
    BY <2>1, FS_Product
<1>3. QED
    BY <1>1, <1>2, FS_UNION DEF Units

LEMMA UnitsStep ==
    ASSUME NEW T, IsFiniteSet(T), NEW f, \A x \in T : f[x] \in Nat, NEW x \in T
    PROVE  Cardinality(Units(f, T)) = f[x] + Cardinality(Units(f, T \ {x}))
<1> DEFINE Mine == {x} \X (1..f[x])
<1>1. IsFiniteSet(Mine) /\ Cardinality(Mine) = f[x]
  <2>1. IsFiniteSet({x}) /\ Cardinality({x}) = 1
    BY FS_Singleton
  <2>2. IsFiniteSet(1..f[x]) /\ Cardinality(1..f[x]) = f[x]
    BY FS_Interval
  <2>3. QED
    BY <2>1, <2>2, FS_Product
<1>2. IsFiniteSet(Units(f, T \ {x}))
    BY FS_RemoveElement, UnitsFinite
<1>3. Units(f, T) = Mine \cup Units(f, T \ {x}) /\ Mine \cap Units(f, T \ {x}) = {}
    BY DEF Units
<1>4. Cardinality(Units(f, T \ {x})) \in Nat
    BY <1>2, FS_CardinalityType
<1>5. Cardinality(Mine \cup Units(f, T \ {x})) = Cardinality(Mine) + Cardinality(Units(f, T \ {x})) - 0
  <2> DEFINE Others == Units(f, T \ {x})
  <2>1. IsFiniteSet(Mine) /\ IsFiniteSet(Others) /\ Mine \cap Others = {}
    BY <1>1, <1>2, <1>3
  <2> HIDE DEF Mine, Others
  <2>2. Cardinality(Mine \cup Others) =
           Cardinality(Mine) + Cardinality(Others) - Cardinality(Mine \cap Others)
    BY <2>1, FS_Union
  <2>3. Cardinality(Mine \cap Others) = 0
    BY <2>1, FS_EmptySet
  <2>4. Cardinality(Mine \cup Others) = Cardinality(Mine) + Cardinality(Others) - 0
    BY <2>2, <2>3
  <2>5. QED
    BY <2>4 DEF Others
<1>6. QED
    BY <1>1, <1>3, <1>4, <1>5

LEMMA SumIsCardinality ==
    ASSUME NEW S, IsFiniteSet(S), NEW f, \A x \in S : f[x] \in Nat
    PROVE  SumOf(f, S) = Cardinality(Units(f, S))
<1> DEFINE c(T) == CHOOSE x \in T : TRUE
           Rec(g) == [s \in SUBSET S |-> IF s = {} THEN 0 ELSE f[c(s)] + g[s \ {c(s)}]]
           h == [s \in SUBSET S |-> Cardinality(Units(f, s))]
<1>0. \A T \in SUBSET S : IsFiniteSet(T)
    BY FS_Subset
<1>1. h = Rec(h)
  <2> SUFFICES ASSUME NEW s \in SUBSET S PROVE h[s] = Rec(h)[s]
    OBVIOUS
  <2>1. CASE s = {}
    <3>1. Units(f, {}) = {}
      BY DEF Units
    <3>2. QED
      BY <2>1, <3>1, FS_EmptySet
  <2>2. CASE s # {}
    <3>1. c(s) \in s
      BY <2>2
    <3>2. Cardinality(Units(f, s)) = f[c(s)] + Cardinality(Units(f, s \ {c(s)}))
      <4> DEFINE x == c(s)
      <4>1. IsFiniteSet(s) /\ x \in s /\ \A y \in s : f[y] \in Nat
        BY <1>0, <3>1
      <4> HIDE DEF x
      <4>2. Cardinality(Units(f, s)) = f[x] + Cardinality(Units(f, s \ {x}))
        BY <4>1, UnitsStep
      <4>3. QED
        BY <4>2 DEF x
    <3>3. QED
      BY <2>2, <3>2
  <2>3. QED
    BY <2>1, <2>2
<1>2. ASSUME NEW g, g = Rec(g) PROVE g = h
  <2> DEFINE Bad == {s \in SUBSET S : g[s] # h[s]}
  <2>1. CASE Bad = {}
    BY <1>2, <2>1
  <2>2. CASE Bad # {}
    <3>1. PICK s \in Bad : \A t \in Bad : <<t, s>> \notin StrictSubsetOrdering(S)
      <4>1. Bad \subseteq FiniteSubsetsOf(S)
        BY <1>0 DEF FiniteSubsetsOf
      <4>2. QED
        BY <2>2, <4>1, FS_StrictSubsetOrderingWellFounded, WFMin
    <3>2. CASE s = {}
      BY <1>1, <1>2, <3>2
    <3>3. CASE s # {}
      <4> DEFINE t == s \ {c(s)}
      <4>1. c(s) \in s
        BY <3>3
      <4>2. <<t, s>> \in StrictSubsetOrdering(S)
        BY <4>1 DEF StrictSubsetOrdering
      <4>3. g[t] = h[t]
        BY <3>1, <4>2
      <4>4. g[s] = f[c(s)] + g[t]
        BY <1>2, <3>3
      <4>5. h[s] = f[c(s)] + h[t]
        BY <1>1, <3>3
      <4>6. QED
        BY <4>3, <4>4, <4>5
    <3>4. QED
      BY <3>2, <3>3
  <2>3. QED
    BY <2>1, <2>2
<1>3. (CHOOSE g : g = Rec(g)) = h
    BY <1>1, <1>2
<1>4. SumOf(f, S) = (CHOOSE g : g = Rec(g))[S]
    BY DEF SumOf, MapThenSumSet, MapThenFoldSet
<1>5. QED
    BY <1>3, <1>4

LEMMA SumType ==
    ASSUME NEW S, IsFiniteSet(S), NEW f, \A x \in S : f[x] \in Nat
    PROVE  SumOf(f, S) \in Nat
BY SumIsCardinality, UnitsFinite, FS_CardinalityType

LEMMA SumZero ==
    ASSUME NEW S, IsFiniteSet(S), NEW f, \A x \in S : f[x] = 0
    PROVE  SumOf(f, S) = 0
<1>1. Units(f, S) = {}
    BY DEF Units
<1>2. QED
    BY <1>1, SumIsCardinality, FS_EmptySet

LEMMA SumOneChanged ==
    ASSUME NEW S, IsFiniteSet(S), NEW x \in S,
           NEW f, \A y \in S : f[y] \in Nat,
           NEW g, \A y \in S : g[y] \in Nat,
           \A y \in S \ {x} : g[y] = f[y]
    PROVE  SumOf(g, S) + f[x] = SumOf(f, S) + g[x]
<1>1. Units(f, S \ {x}) = Units(g, S \ {x})
    BY DEF Units
<1>2. IsFiniteSet(S \ {x})
    BY FS_RemoveElement
<1>3. Cardinality(Units(f, S \ {x})) \in Nat
    BY <1>2, UnitsFinite, FS_CardinalityType
<1>4. /\ Cardinality(Units(f, S)) = f[x] + Cardinality(Units(f, S \ {x}))
      /\ Cardinality(Units(g, S)) = g[x] + Cardinality(Units(g, S \ {x}))
    BY UnitsStep
<1>5. SumOf(f, S) = Cardinality(Units(f, S)) /\ SumOf(g, S) = Cardinality(Units(g, S))
    BY SumIsCardinality
<1>6. QED
    BY <1>1, <1>3, <1>4, <1>5

LEMMA SumAtLeast ==
    ASSUME NEW S, IsFiniteSet(S), NEW x \in S, NEW f, \A y \in S : f[y] \in Nat
    PROVE  f[x] <= SumOf(f, S)
<1>1. Cardinality(Units(f, S \ {x})) \in Nat
    BY FS_RemoveElement, UnitsFinite, FS_CardinalityType
<1>2. Cardinality(Units(f, S)) = f[x] + Cardinality(Units(f, S \ {x}))
    BY UnitsStep
<1>3. QED
    BY <1>1, <1>2, SumIsCardinality

LEMMA SumMonotonic ==
    ASSUME NEW S, IsFiniteSet(S),
           NEW f, \A y \in S : f[y] \in Nat,
           NEW g, \A y \in S : g[y] \in Nat,
           \A y \in S : g[y] <= f[y]
    PROVE  SumOf(g, S) <= SumOf(f, S)
<1>1. Units(g, S) \subseteq Units(f, S)
    BY DEF Units
<1>2. Cardinality(Units(g, S)) <= Cardinality(Units(f, S))
    BY <1>1, UnitsFinite, FS_Subset
<1>3. QED
    BY <1>2, SumIsCardinality

-------------------------------------------------------------------------------
(***************************************************************************)
(* Processes, their threads, and what a state of theirs holds.              *)
(***************************************************************************)
LEMMA ThreadFacts ==
    /\ IsFiniteSet(Threads) /\ IsFiniteSet(Scopes)
    /\ \A p \in Processes : /\ Main(p) \in Threads /\ Main(p) \in Own(p)
                            /\ Workers(p) \subseteq Own(p) /\ Own(p) \subseteq Threads
                            /\ Main(p) \notin Workers(p) /\ IsFiniteSet(Own(p))
                            /\ \A t \in Own(p) : t = Main(p) \/ t \in Workers(p)
    /\ \A p, q \in Processes : p # q => Own(p) \cap Own(q) = {}
    /\ \A t \in Threads : \E p \in Processes : t \in Own(p)
<1>1. \A p \in Processes : IsFiniteSet(Own(p))
  <2> SUFFICES ASSUME NEW p \in Processes PROVE IsFiniteSet(Own(p))
    OBVIOUS
  <2>1. IsFiniteSet(1..Concurrency[p]) /\ IsFiniteSet({p})
    <3>1. Concurrency[p] \in Nat
      BY ConcurrencyAssumption
    <3>2. IsFiniteSet(1..Concurrency[p])
      BY <3>1, FS_Interval
    <3>3. QED
      BY <3>2, FS_Singleton
  <2>2. IsFiniteSet({p} \X (1..Concurrency[p]))
    BY <2>1, FS_Product
  <2>3. Workers(p) = {p} \X (1..Concurrency[p])
    BY DEF Workers
  <2>4. QED
    BY <2>2, <2>3, FS_AddElement DEF Own
<1>2. IsFiniteSet(Threads)
  <2>1. [p \in Processes |-> Own(p)] \in Surjection(Processes, {Own(p) : p \in Processes})
    BY DEF Surjection
  <2>2. IsFiniteSet({Own(p) : p \in Processes})
    BY <2>1, ProcessesAssumption, FS_Surjection
  <2>3. QED
    BY <1>1, <2>2, FS_UNION DEF Threads
<1>3. IsFiniteSet(Scopes)
  <2>1. [r \in Rows |-> r.scope] \in Surjection(Rows, Scopes)
    BY DEF Surjection, Scopes
  <2>2. QED
    BY <2>1, RowsAssumption, FS_Surjection
<1>4. \A p \in Processes : Main(p) \notin Workers(p)
    BY ConcurrencyAssumption DEF Main, Workers
<1>5. \A p, q \in Processes : p # q => Own(p) \cap Own(q) = {}
    BY DEF Own, Main, Workers
<1>6. QED
    BY <1>1, <1>2, <1>3, <1>4, <1>5 DEF Threads, Own

LEMMA CallFacts ==
    ASSUME TypeOK, NEW p \in Processes
    PROVE  /\ call[p].pc \in {"off", "end", "run", "purge"}
           /\ call[p].pc = "off" <=> call[p] = Off
           /\ call[p].pc = "end" <=> call[p] = [pc |-> "end"]
           /\ call[p].pc = "run" =>
                 call[p] \in [pc : {"run"}, kind : Kinds, failed : BOOLEAN, todo : SUBSET Rows]
           /\ call[p].pc = "purge" =>
                 call[p] \in [pc : {"purge"}, step : {"rows"} \cup Tables,
                              filters : Filters, left : SUBSET Tables]
BY DEF TypeOK, CallStates, Off

LEMMA ThreadStateFacts ==
    ASSUME TypeOK, NEW t \in Threads
    PROVE  /\ thread[t].pc \in {"rest", "flush", "create", "register", "document", "increment"}
           /\ thread[t].pc = "rest" <=> thread[t] = Rest
           /\ thread[t].pc = "flush" <=> thread[t] = [pc |-> "flush"]
           /\ thread[t].pc \in {"create", "register"} =>
                 thread[t] \in [pc : {"create", "register"}, row : Rows]
           /\ thread[t].pc = "document" =>
                 thread[t] \in [pc : {"document"}, pending : Batches]
           /\ thread[t].pc = "increment" =>
                 thread[t] \in [pc : {"increment"}, pending : Batches, scope : Scopes]
BY DEF TypeOK, ThreadStates, Rest

LEMMA SendingType ==
    ASSUME NEW counts \in Counts
    PROVE  /\ Sending(counts) \in ThreadStates
           /\ Sending(counts).pc \in {"rest", "document"}
           /\ counts = Nothing => Sending(counts) = Rest
           /\ counts # Nothing => Sending(counts) = [pc |-> "document", pending |-> counts]
BY DEF Sending, ThreadStates, Rest, Batches

LEMMA NothingType == Nothing \in Counts /\ \A s \in Scopes : Nothing[s] = 0
BY DEF Nothing, Counts

(* The variables of the control: what a step of the calls may change.       *)
TInv == TypeOK /\ ControlInv /\ BatchInv

LEMMA InitTInv == ASSUME Init PROVE TInv
<1>1. TypeOK
    BY NothingType DEF Init, TypeOK, CallStates, ThreadStates, Off, Rest
<1>2. ControlInv
    BY ThreadFacts DEF Init, ControlInv, Control, Resting, Off, Rest
<1>3. BatchInv
    BY DEF Init, BatchInv, Rest
<1>4. QED
    BY <1>1, <1>2, <1>3 DEF TInv

(***************************************************************************)
(* The control: how a step of a process, or of a thread of it, leaves the   *)
(* others alone.                                                            *)
(***************************************************************************)
LEMMA DoFacts ==
    ASSUME TypeOK, NEW p \in Processes, NEW t \in Own(p), NEW s \in ThreadStates, Do(t, s)
    PROVE  /\ thread' \in [Threads -> ThreadStates]
           /\ thread'[t] = s
           /\ \A u \in Threads \ {t} : thread'[u] = thread[u]
           /\ \A q \in Processes \ {p} : \A u \in Own(q) : thread'[u] = thread[u]
<1>1. t \in Threads
    BY ThreadFacts
<1>2. thread' = [thread EXCEPT ![t] = s] /\ thread \in [Threads -> ThreadStates]
    BY DEF TypeOK, Do
<1>3. \A u \in Threads \ {t} : thread'[u] = thread[u]
    BY <1>1, <1>2
<1>4. \A q \in Processes \ {p} : t \notin Own(q) /\ Own(q) \subseteq Threads
    BY ThreadFacts
<1>5. QED
    BY <1>1, <1>2, <1>3, <1>4

LEMMA BecomeFacts ==
    ASSUME TypeOK, NEW p \in Processes, NEW c \in CallStates, Become(p, c)
    PROVE  /\ call' \in [Processes -> CallStates]
           /\ call'[p] = c
           /\ \A q \in Processes \ {p} : call'[q] = call[q]
BY DEF TypeOK, Become

LEMMA Alone ==
    ASSUME TInv, NEW p \in Processes, call[p].pc # "off"
    PROVE  \A q \in Processes \ {p} : call[q].pc # "purge"
BY DEF TInv, ControlInv, Control, Off

(* A process that steps alone and keeps its own control keeps them all.     *)
LEMMA ControlKept ==
    ASSUME TInv, NEW p \in Processes, Control(p)',
           \A q \in Processes \ {p} : call'[q] = call[q],
           \A q \in Processes \ {p} : \A u \in Own(q) : thread'[u] = thread[u],
           call'[p] = Off \/ \A q \in Processes \ {p} : call[q].pc # "purge"
    PROVE  ControlInv'
<1> SUFFICES ASSUME NEW q \in Processes PROVE Control(q)'
    BY DEF ControlInv
<1>1. CASE q = p
    BY <1>1
<1>2. CASE q # p
  <2>1. call'[q] = call[q] /\ thread'[Main(q)] = thread[Main(q)] /\ Control(q)
    BY <1>2, ThreadFacts DEF TInv, ControlInv
  <2>2. \A u \in Workers(q) : thread'[u] = thread[u]
    BY <1>2, ThreadFacts
  <2>3. call[q].pc = "purge" => \A o \in Processes \ {q} : call'[o] = Off
    BY <1>2, <2>1 DEF Control
  <2>4. QED
    BY <2>1, <2>2, <2>3 DEF Control, Resting
<1>3. QED
    BY <1>1, <1>2

(* A thread at work moves.                                                  *)
LEMMA Busy ==
    ASSUME TInv, NEW p \in Processes, NEW t \in Own(p), thread[t] # Rest
    PROVE  /\ call[p].pc # "off"
           /\ t = Main(p) => /\ call[p].pc \in {"end", "purge"}
                             /\ call[p].pc = "purge" => call[p].step = "rows"
                             /\ thread[t].pc \notin {"create", "register"}
                             /\ Resting(Workers(p))
           /\ t # Main(p) => /\ t \in Workers(p) /\ call[p].pc = "run"
                             /\ ~(call[p].failed /\ Concurrency[p] = 1)
<1>1. Control(p) /\ (t = Main(p) \/ t \in Workers(p))
    BY ThreadFacts DEF TInv, ControlInv
<1>2. call[p].pc \in {"off", "end", "run", "purge"}
    BY CallFacts DEF TInv
<1>3. QED
    BY <1>1, <1>2 DEF Control, Resting

LEMMA BusyControl ==
    ASSUME TInv, NEW p \in Processes, NEW t \in Own(p), thread[t] # Rest,
           NEW s \in ThreadStates, Do(t, s), call' = call,
           t = Main(p) => s.pc \notin {"create", "register"}
    PROVE  ControlInv'
<1>1. /\ thread'[t] = s
      /\ \A u \in Threads \ {t} : thread'[u] = thread[u]
      /\ \A q \in Processes \ {p} : \A u \in Own(q) : thread'[u] = thread[u]
    BY DoFacts DEF TInv
<1>2. Control(p)'
  <2>0. Control(p) /\ Main(p) \in Threads /\ Workers(p) \subseteq Threads /\ Main(p) \notin Workers(p)
    BY ThreadFacts DEF TInv, ControlInv
  <2>1. CASE t = Main(p)
    <3>1. \A u \in Workers(p) : thread'[u] = thread[u]
      BY <1>1, <2>0, <2>1
    <3>2. QED
      BY <1>1, <2>0, <2>1, <3>1, Busy DEF Control, Resting
  <2>2. CASE t # Main(p)
    <3>1. thread'[Main(p)] = thread[Main(p)]
      BY <1>1, <2>0, <2>2
    <3>2. QED
      BY <2>0, <2>2, <3>1, Busy DEF Control, Resting
  <2>3. QED
    BY <2>1, <2>2
<1>3. QED
    BY <1>1, <1>2, ControlKept, Alone, Busy

(* A batch keeps the document of its scope, unless a purge takes it.        *)
LEMMA BatchKept ==
    ASSUME TInv, NEW p \in Processes, NEW t \in Own(p), NEW s \in ThreadStates, Do(t, s),
           s.pc = "increment" => s.pending[s.scope] > 0 /\ registry'[s.scope] # NoDoc,
           \A o \in Scopes : registry[o] # NoDoc => registry'[o] # NoDoc
    PROVE  BatchInv'
<1> SUFFICES ASSUME NEW u \in Threads, thread'[u].pc = "increment"
             PROVE  /\ thread'[u].pending[thread'[u].scope] > 0
                    /\ registry'[thread'[u].scope] # NoDoc
    BY DEF BatchInv
<1>1. CASE u = t
    BY <1>1, DoFacts DEF TInv
<1>2. CASE u # t
  <2>1. thread'[u] = thread[u]
    BY <1>2, DoFacts DEF TInv
  <2>2. thread[u].scope \in Scopes
    BY <2>1, ThreadStateFacts DEF TInv
  <2>3. QED
    BY <2>1, <2>2 DEF TInv, BatchInv
<1>3. QED
    BY <1>1, <1>2

-------------------------------------------------------------------------------
LEMMA LaunchMoves ==
    ASSUME TInv, NEW p \in Processes, Launch(p)
    PROVE  /\ call[p].pc = "off" /\ call'[p].pc = "run" /\ ~call'[p].failed
           /\ call'[p].kind \in Calls[p]
           /\ call' \in [Processes -> CallStates]
           /\ \A q \in Processes \ {p} : call'[q] = call[q]
           /\ \A q \in Processes : call[q].pc # "purge"
<1>1. PICK kind \in Calls[p] :
         Become(p, [pc |-> "run", kind |-> kind, failed |-> FALSE,
                    todo |-> {r \in Rows : r.scope.table \in WrittenBy(kind)}])
    BY DEF Launch
<1> DEFINE c == [pc |-> "run", kind |-> kind, failed |-> FALSE,
                 todo |-> {r \in Rows : r.scope.table \in WrittenBy(kind)}]
<1>2. c \in CallStates
  <2>1. kind \in Kinds
    BY CallsAssumption
  <2>2. QED
    BY <2>1 DEF CallStates
<1>3. QED
    BY <1>1, <1>2, BecomeFacts DEF TInv, Launch

LEMMA LaunchShape ==
    ASSUME TInv, NEW p \in Processes, Launch(p)
    PROVE  TInv'
<1>1. UNCHANGED <<rows, registry, buffer, thread, halfPurged, failures, purges>>
    BY DEF Launch
<1>2. TypeOK'
    BY <1>1, LaunchMoves DEF TInv, TypeOK
<1>3. Control(p)'
    BY <1>1, LaunchMoves DEF Control, TInv, ControlInv, Resting
<1>4. ControlInv'
    BY <1>1, <1>3, LaunchMoves, ControlKept
<1>5. QED
    BY <1>1, <1>2, <1>4 DEF TInv, BatchInv

LEMMA TakeMoves ==
    ASSUME TInv, NEW p \in Processes, NEW t \in Workers(p), Take(p, t)
    PROVE  /\ call[p].pc = "run" /\ call'[p].pc = "run" /\ call'[p].failed = call[p].failed
           /\ call'[p].kind = call[p].kind
           /\ call' \in [Processes -> CallStates] /\ thread' \in [Threads -> ThreadStates]
           /\ \A q \in Processes \ {p} : call'[q] = call[q]
           /\ \A q \in Processes \ {p} : \A u \in Own(q) : thread'[u] = thread[u]
           /\ \A u \in Threads \ {t} : thread'[u] = thread[u]
           /\ thread[t] = Rest /\ thread'[t].pc \in {"rest", "create"}
           /\ t \in Own(p) /\ t \in Threads /\ t # Main(p)
<1>1. PICK r \in call[p].todo :
         /\ Become(p, [call[p] EXCEPT !.todo = @ \ {r}])
         /\ Do(t, IF r \in rows /\ call[p].kind # "push" THEN Rest ELSE [pc |-> "create", row |-> r])
    BY DEF Take
<1> DEFINE c == [call[p] EXCEPT !.todo = @ \ {r}]
           state == IF r \in rows /\ call[p].kind # "push" THEN Rest ELSE [pc |-> "create", row |-> r]
<1>2. /\ call[p] \in [pc : {"run"}, kind : Kinds, failed : BOOLEAN, todo : SUBSET Rows]
      /\ call[p].pc = "run" /\ r \in Rows
    BY <1>1, CallFacts DEF Take, TInv
<1>3. c \in CallStates /\ c.pc = "run" /\ c.failed = call[p].failed /\ c.kind = call[p].kind
    BY <1>2 DEF CallStates
<1>4. state \in ThreadStates /\ state.pc \in {"rest", "create"}
    BY <1>2 DEF ThreadStates, Rest
<1>5. t \in Own(p) /\ t \in Threads /\ t # Main(p) /\ Do(t, state) /\ Become(p, c)
    BY <1>1, ThreadFacts
<1>6. /\ call' \in [Processes -> CallStates]
      /\ call'[p] = c /\ \A q \in Processes \ {p} : call'[q] = call[q]
    BY <1>3, <1>5, BecomeFacts DEF TInv
<1>7. /\ thread' \in [Threads -> ThreadStates] /\ thread'[t] = state
      /\ \A u \in Threads \ {t} : thread'[u] = thread[u]
      /\ \A q \in Processes \ {p} : \A u \in Own(q) : thread'[u] = thread[u]
    BY <1>4, <1>5, DoFacts DEF TInv
<1>8. QED
    BY <1>2, <1>3, <1>4, <1>5, <1>6, <1>7 DEF Take

LEMMA TakeShape ==
    ASSUME TInv, NEW p \in Processes, NEW t \in Workers(p), Take(p, t)
    PROVE  TInv'
<1>1. TypeOK'
    BY TakeMoves DEF TInv, TypeOK, Take
<1>2. Control(p)'
  <2>1. thread'[Main(p)] = thread[Main(p)]
    BY TakeMoves, ThreadFacts
  <2>2. call[p].failed => Concurrency[p] > 1
    BY DEF Take
  <2>3. ~(call[p].failed /\ Concurrency[p] = 1)
    BY <2>2, ConcurrencyAssumption
  <2>4. QED
    BY <2>1, <2>3, TakeMoves DEF Control, TInv, ControlInv
<1>3. ControlInv'
    BY <1>2, TakeMoves, ControlKept, Alone
<1>4. BatchInv'
  <2>1. UNCHANGED registry
    BY DEF Take
  <2>2. QED
    BY <2>1, TakeMoves DEF TInv, BatchInv
<1>5. QED
    BY <1>1, <1>3, <1>4 DEF TInv

(* A thread at work that moves and leaves the calls alone.                  *)
LEMMA BusyShape ==
    ASSUME TInv, NEW p \in Processes, NEW t \in Own(p), thread[t] # Rest,
           NEW s \in ThreadStates, Do(t, s), UNCHANGED <<call, halfPurged, failures, purges>>,
           t = Main(p) => s.pc \notin {"create", "register"},
           s.pc = "increment" => s.pending[s.scope] > 0 /\ registry'[s.scope] # NoDoc,
           \A o \in Scopes : registry[o] # NoDoc => registry'[o] # NoDoc,
           rows' \subseteq Rows, registry' \in [Scopes -> Nat \cup {NoDoc}],
           buffer' \in [Processes -> Counts]
    PROVE  TInv'
<1>1. TypeOK'
    BY DoFacts DEF TInv, TypeOK
<1>2. ControlInv'
    BY BusyControl
<1>3. BatchInv'
    BY BatchKept
<1>4. QED
    BY <1>1, <1>2, <1>3 DEF TInv

LEMMA Puts ==
    ASSUME TInv, NEW p \in Processes, NEW t \in Workers(p), thread[t].pc \in {"create", "register"}
    PROVE  /\ t \in Own(p) /\ t \in Threads /\ t # Main(p) /\ thread[t] # Rest
           /\ thread[t] \in [pc : {"create", "register"}, row : Rows]
           /\ thread[t].row \in Rows /\ thread[t].row.scope \in Scopes
           /\ [thread[t] EXCEPT !.pc = "register"] \in ThreadStates
           /\ [thread[t] EXCEPT !.pc = "register"] = [pc |-> "register", row |-> thread[t].row]
           /\ AfterPut(p) \subseteq {"rest", "flush"}
<1>1. t \in Own(p) /\ t \in Threads /\ t # Main(p)
    BY ThreadFacts
<1>2. thread[t] \in [pc : {"create", "register"}, row : Rows]
    BY <1>1, ThreadStateFacts DEF TInv
<1>3. thread[t] # Rest /\ thread[t].row.scope \in Scopes
    BY <1>2 DEF Rest, Scopes
<1>4. QED
    BY <1>1, <1>2, <1>3 DEF ThreadStates, AfterPut

LEMMA Idles == \A pc \in {"rest", "flush"} : [pc |-> pc] \in ThreadStates
BY DEF ThreadStates, Rest

LEMMA CreateShape ==
    ASSUME TInv, NEW p \in Processes, NEW t \in Workers(p), Create(p, t)
    PROVE  TInv'
<1>1. PICK s \in ThreadStates : Do(t, s) /\ s.pc \in {"rest", "flush", "register"}
  <2>1. CASE thread[t].row \in rows
    <3>1. PICK pc \in AfterPut(p) : Do(t, [pc |-> pc])
      BY <2>1 DEF Create
    <3>2. pc \in {"rest", "flush"}
      BY <3>1, Puts DEF Create
    <3>3. QED
      BY <3>1, <3>2, Idles
  <2>2. CASE thread[t].row \notin rows
    <3>1. Do(t, [thread[t] EXCEPT !.pc = "register"])
      BY <2>2 DEF Create
    <3>2. /\ [thread[t] EXCEPT !.pc = "register"] \in ThreadStates
          /\ [thread[t] EXCEPT !.pc = "register"].pc = "register"
      BY Puts DEF Create
    <3>3. QED
      BY <3>1, <3>2
  <2>3. QED
    BY <2>1, <2>2
<1>2. rows' \subseteq Rows
    BY Puts DEF Create, TInv, TypeOK
<1>3. QED
    BY <1>1, <1>2, BusyShape, Puts DEF Create, TInv, TypeOK

LEMMA CountedType ==
    ASSUME TInv, NEW p \in Processes, NEW s \in Scopes
    PROVE  /\ Counted(p, s) \in Counts
           /\ Counted(p, s)[s] = buffer[p][s] + 1
           /\ \A o \in Scopes \ {s} : Counted(p, s)[o] = buffer[p][o]
<1>1. buffer[p] \in [Scopes -> Nat]
    BY DEF TInv, TypeOK, Counts
<1>2. QED
    BY <1>1 DEF Counted, Counts

LEMMA RegisterShape ==
    ASSUME TInv, NEW p \in Processes, NEW t \in Workers(p), Register(p, t)
    PROVE  TInv'
<1>1. PICK s \in ThreadStates : Do(t, s) /\ s.pc \in {"rest", "flush"}
  <2>1. PICK pc \in AfterPut(p) :
          Do(t, [pc |-> IF Total(Counted(p, thread[t].row.scope)) >= RegistryFlushEvery
                        THEN "flush" ELSE pc])
    BY DEF Register
  <2>2. pc \in {"rest", "flush"}
    BY Puts, <2>1 DEF Register
  <2>3. [pc |-> "rest"] \in ThreadStates /\ [pc |-> "flush"] \in ThreadStates
    BY Idles
  <2>4. QED
    BY <2>1, <2>2, <2>3
<1>2. buffer' \in [Processes -> Counts]
  <2>1. Counted(p, thread[t].row.scope) \in Counts
    BY Puts, CountedType DEF Register
  <2>2. QED
    BY <2>1 DEF Register, TInv, TypeOK
<1>3. QED
    BY <1>1, <1>2, BusyShape, Puts DEF Register, TInv, TypeOK

LEMMA FlushShape ==
    ASSUME TInv, NEW p \in Processes, NEW t \in Own(p), Flush(p, t)
    PROVE  TInv'
<1>1. Sending(buffer[p]) \in ThreadStates /\ Sending(buffer[p]).pc \in {"rest", "document"}
    BY SendingType DEF TInv, TypeOK
<1>2. thread[t] # Rest
    BY DEF Flush, Rest
<1>3. buffer' \in [Processes -> Counts]
    BY NothingType DEF Flush, TInv, TypeOK
<1>4. QED
    BY <1>1, <1>2, <1>3, BusyShape DEF Flush, TInv, TypeOK

LEMMA CreateDocFacts ==
    ASSUME TypeOK, NEW s \in Scopes, CreateDoc(s)
    PROVE  /\ registry' \in [Scopes -> Nat \cup {NoDoc}]
           /\ registry'[s] # NoDoc
           /\ \A o \in Scopes : registry[o] # NoDoc => registry'[o] # NoDoc
           /\ \A o \in Scopes : NRows(o)' = NRows(o)
<1>1. \A o \in Scopes : registry'[o] = IF o = s /\ registry[s] = NoDoc THEN 0 ELSE registry[o]
    BY DEF TypeOK, CreateDoc
<1>2. QED
    BY <1>1, AbsenceAssumption DEF TypeOK, CreateDoc, NRows

LEMMA DocumentShape ==
    ASSUME TInv, NEW p \in Processes, NEW t \in Own(p), Document(t)
    PROVE  TInv'
<1>1. PICK s \in Scopes :
         /\ thread[t].pending[s] > 0
         /\ CreateDoc(s)
         /\ Do(t, [pc |-> "increment", pending |-> thread[t].pending, scope |-> s])
    BY DEF Document
<1>2. [pc |-> "increment", pending |-> thread[t].pending, scope |-> s] \in ThreadStates
    BY ThreadFacts, ThreadStateFacts DEF Document, TInv, ThreadStates
<1>3. thread[t] # Rest
    BY DEF Document, Rest
<1>4. registry' \in [Scopes -> Nat \cup {NoDoc}] /\ registry'[s] # NoDoc
      /\ \A o \in Scopes : registry[o] # NoDoc => registry'[o] # NoDoc
    BY <1>1, CreateDocFacts DEF TInv
<1>5. QED
    BY <1>1, <1>2, <1>3, <1>4, BusyShape DEF Document, TInv, TypeOK

(* An increment adds to one scope what its batch then has no more.          *)
LEMMA SentFacts ==
    ASSUME TInv, NEW t \in Threads, thread[t].pc = "increment"
    PROVE  /\ thread[t].scope \in Scopes
           /\ thread[t].pending \in Counts
           /\ [thread[t].pending EXCEPT ![thread[t].scope] = 0] \in Counts
           /\ registry[thread[t].scope] \in Nat
           /\ Sent(t) => /\ registry' \in [Scopes -> Nat \cup {NoDoc}]
                         /\ \A o \in Scopes : registry[o] # NoDoc => registry'[o] # NoDoc
                         /\ \A o \in Scopes : o = thread[t].scope =>
                               NRows(o)' = NRows(o) + thread[t].pending[o]
                         /\ \A o \in Scopes \ {thread[t].scope} : registry'[o] = registry[o]
<1>1. thread[t] \in [pc : {"increment"}, pending : Batches, scope : Scopes]
    BY ThreadStateFacts DEF TInv
<1>2. thread[t].scope \in Scopes /\ thread[t].pending \in [Scopes -> Nat]
    BY <1>1 DEF Batches, Counts
<1>3. registry[thread[t].scope] \in Nat /\ registry \in [Scopes -> Nat \cup {NoDoc}]
    BY <1>2 DEF TInv, BatchInv, TypeOK
<1>4. [thread[t].pending EXCEPT ![thread[t].scope] = 0] \in [Scopes -> Nat]
    BY <1>2
<1>5. ASSUME Sent(t)
      PROVE  /\ registry'[thread[t].scope] =
                    registry[thread[t].scope] + thread[t].pending[thread[t].scope]
             /\ registry'[thread[t].scope] \in Nat
             /\ registry' \in [Scopes -> Nat \cup {NoDoc}]
             /\ \A o \in Scopes \ {thread[t].scope} : registry'[o] = registry[o]
    BY <1>2, <1>3, <1>5 DEF Sent
<1>6. ASSUME Sent(t)
      PROVE  \A o \in Scopes : o = thread[t].scope => NRows(o)' = NRows(o) + thread[t].pending[o]
    BY <1>3, <1>5, <1>6, AbsenceAssumption DEF NRows
<1>7. QED
    BY <1>2, <1>3, <1>4, <1>5, <1>6, AbsenceAssumption DEF Counts

LEMMA IncrementShape ==
    ASSUME TInv, NEW p \in Processes, NEW t \in Own(p), Increment(t)
    PROVE  TInv'
<1> DEFINE s == Sending([thread[t].pending EXCEPT ![thread[t].scope] = 0])
<1>1. t \in Threads /\ thread[t].pc = "increment" /\ thread[t] # Rest
    BY ThreadFacts DEF Increment, Rest
<1>2. /\ [thread[t].pending EXCEPT ![thread[t].scope] = 0] \in Counts
      /\ registry' \in [Scopes -> Nat \cup {NoDoc}]
      /\ \A o \in Scopes : registry[o] # NoDoc => registry'[o] # NoDoc
    BY <1>1, SentFacts DEF Increment
<1>3. s \in ThreadStates /\ s.pc \in {"rest", "document"}
    BY <1>2, SendingType
<1>4. Do(t, s) /\ UNCHANGED <<rows, buffer, call, halfPurged, failures, purges>>
    BY DEF Increment
<1> HIDE DEF s
<1>5. QED
    BY <1>1, <1>2, <1>3, <1>4, BusyShape DEF TInv, TypeOK

(* What a process leaves behind.                                            *)
LEMMA ExitFacts ==
    ASSUME TInv, NEW p \in Processes, Exit(p)
    PROVE  /\ call' \in [Processes -> CallStates] /\ call'[p] = Off
           /\ \A q \in Processes \ {p} : call'[q] = call[q]
           /\ buffer' \in [Processes -> Counts]
           /\ \A q \in Processes \ {p} : buffer'[q] = buffer[q]
           /\ buffer'[p] = buffer[p] \/ (p \notin Services /\ buffer'[p] = Nothing)
           /\ buffer'[p] = IF p \in Services THEN buffer[p] ELSE Nothing
<1>1. Off \in CallStates
    BY DEF CallStates
<1>2. QED
    BY <1>1, BecomeFacts, NothingType DEF Exit, TInv, TypeOK

(* A process ends, or raises, with all its threads at rest.                 *)
LEMMA ExitShape ==
    ASSUME TInv, NEW p \in Processes, Exit(p), Resting(Workers(p)),
           thread[Main(p)] = Rest, UNCHANGED <<thread, purges>>,
           rows' \subseteq Rows, registry' \in [Scopes -> Nat \cup {NoDoc}],
           halfPurged' \subseteq Scopes, failures' \in Nat, BatchInv'
    PROVE  TInv'
<1>1. TypeOK'
    BY ExitFacts DEF TInv, TypeOK
<1>2. Control(p)'
    BY ExitFacts DEF Control, Resting, Off, Rest
<1>3. ControlInv'
    BY <1>2, ExitFacts, ControlKept
<1>4. QED
    BY <1>1, <1>3 DEF TInv

(* A call is over: the flush of the end, or the exit.                       *)
LEMMA FinishMoves ==
    ASSUME TInv, NEW p \in Processes, Finish(p)
    PROVE  /\ call[p].pc = "run" /\ Resting(Workers(p)) /\ thread[Main(p)] = Rest
           /\ \A q \in Processes \ {p} : /\ call'[q] = call[q] /\ buffer'[q] = buffer[q]
                                         /\ \A u \in Own(q) : thread'[u] = thread[u]
           /\ call' \in [Processes -> CallStates] /\ thread' \in [Threads -> ThreadStates]
           /\ FlushesAtEnd(call[p]) => /\ call'[p] = [pc |-> "end"]
                                       /\ thread'[Main(p)] = [pc |-> "flush"]
                                       /\ \A u \in Workers(p) : thread'[u] = thread[u]
                                       /\ buffer' = buffer
           /\ ~FlushesAtEnd(call[p]) => Exit(p) /\ UNCHANGED thread
           /\ UNCHANGED <<rows, registry, halfPurged, failures, purges>>
<1>0. call[p].pc = "run" /\ Resting(Workers(p)) /\ thread[Main(p)] = Rest
    BY DEF Finish, TInv, ControlInv, Control
<1>1. CASE FlushesAtEnd(call[p])
  <2> DEFINE c == [pc |-> "end"]
             state == [pc |-> "flush"]
  <2>1. c \in CallStates /\ state \in ThreadStates
    BY DEF CallStates, ThreadStates
  <2>2. Become(p, c) /\ Do(Main(p), state) /\ UNCHANGED <<buffer, rows, registry, halfPurged, failures, purges>>
    BY <1>1 DEF Finish
  <2>3. call' \in [Processes -> CallStates] /\ call'[p] = c /\ \A q \in Processes \ {p} : call'[q] = call[q]
    BY <2>1, <2>2, BecomeFacts DEF TInv
  <2>4. /\ thread' \in [Threads -> ThreadStates] /\ thread'[Main(p)] = state
        /\ \A q \in Processes \ {p} : \A u \in Own(q) : thread'[u] = thread[u]
        /\ \A u \in Threads \ {Main(p)} : thread'[u] = thread[u]
    BY <2>1, <2>2, DoFacts, ThreadFacts DEF TInv
  <2>5. \A u \in Workers(p) : thread'[u] = thread[u]
    BY <2>4, ThreadFacts
  <2>6. QED
    BY <1>0, <1>1, <2>2, <2>3, <2>4, <2>5
<1>2. CASE ~FlushesAtEnd(call[p])
    BY <1>0, <1>2, ExitFacts DEF Finish, TInv, TypeOK
<1>3. QED
    BY <1>1, <1>2

LEMMA FinishShape ==
    ASSUME TInv, NEW p \in Processes, Finish(p)
    PROVE  TInv'
<1>1. CASE FlushesAtEnd(call[p])
  <2>1. TypeOK'
    BY <1>1, FinishMoves DEF TInv, TypeOK
  <2>2. Control(p)'
    BY <1>1, FinishMoves DEF Control, Resting
  <2>3. ControlInv'
    BY <1>1, <2>2, FinishMoves, ControlKept, Alone
  <2>4. BatchInv'
    <3>1. Do(Main(p), [pc |-> "flush"]) /\ [pc |-> "flush"] \in ThreadStates /\ Main(p) \in Own(p)
      BY <1>1, ThreadFacts DEF Finish, ThreadStates
    <3>2. QED
      BY <3>1, FinishMoves, BatchKept
  <2>5. QED
    BY <2>1, <2>3, <2>4 DEF TInv
<1>2. CASE ~FlushesAtEnd(call[p])
    BY <1>2, FinishMoves, ExitShape DEF TInv, TypeOK, BatchInv
<1>3. QED
    BY <1>1, <1>2

LEMMA EndShape ==
    ASSUME TInv, NEW p \in Processes, End(p)
    PROVE  TInv'
<1>1. Resting(Workers(p))
    BY DEF End, TInv, ControlInv, Control
<1>2. QED
    BY <1>1, ExitShape DEF End, TInv, TypeOK, BatchInv

LEMMA PurgeMoves ==
    ASSUME TInv, NEW p \in Processes, Purge(p)
    PROVE  /\ call'[p].pc = "purge" /\ call'[p].step = "rows"
           /\ call' \in [Processes -> CallStates] /\ thread' \in [Threads -> ThreadStates]
           /\ \A q \in Processes : call[q] = Off
           /\ \A q \in Processes \ {p} : call'[q] = call[q]
           /\ thread[Main(p)] = Rest /\ thread'[Main(p)] = [pc |-> "flush"]
           /\ \A u \in Threads \ {Main(p)} : thread'[u] = thread[u]
<1>1. PICK r \in PurgeRequests :
         Become(p, [pc |-> "purge", step |-> "rows", filters |-> r.filters,
                    left |-> {t \in TablesOf(r.scope) : Concerned(t, r.filters)}])
    BY DEF Purge
<1> DEFINE left == {t \in TablesOf(r.scope) : Concerned(t, r.filters)}
           c == [pc |-> "purge", step |-> "rows", filters |-> r.filters, left |-> left]
<1>2. c \in CallStates /\ c.pc = "purge" /\ c.step = "rows"
  <2>1. left \subseteq Tables
    BY DEF TablesOf, Tables
  <2>2. QED
    BY <2>1 DEF CallStates, Filters
<1>3. call' \in [Processes -> CallStates] /\ call'[p] = c /\ \A q \in Processes \ {p} : call'[q] = call[q]
    BY <1>1, <1>2, BecomeFacts DEF TInv
<1>4. \A q \in Processes : call[q] = Off
    BY CallFacts DEF Purge, Idle, TInv
<1>5. thread[Main(p)] = Rest
    BY <1>4 DEF TInv, ControlInv, Control, Off
<1>6. [pc |-> "flush"] \in ThreadStates /\ Do(Main(p), [pc |-> "flush"]) /\ Main(p) \in Own(p)
    BY ThreadFacts DEF Purge, ThreadStates
<1>7. QED
    BY <1>2, <1>3, <1>4, <1>5, <1>6, DoFacts DEF TInv

LEMMA PurgeShape ==
    ASSUME TInv, NEW p \in Processes, Purge(p)
    PROVE  TInv'
<1>1. UNCHANGED <<rows, registry, buffer, halfPurged, failures>> /\ purges' = purges + 1
    BY DEF Purge
<1>2. TypeOK'
    BY <1>1, PurgeMoves DEF TInv, TypeOK
<1>3. Control(p)'
  <2>1. \A u \in Workers(p) : thread'[u] = thread[u] /\ thread[u] = Rest
    BY PurgeMoves, ThreadFacts DEF TInv, ControlInv, Control, Resting, Off
  <2>2. \A q \in Processes \ {p} : call'[q] = Off
    BY PurgeMoves
  <2>3. QED
    BY <2>1, <2>2, PurgeMoves DEF Control, Resting
<1>4. ControlInv'
  <2>1. \A q \in Processes \ {p} : call[q].pc # "purge" /\ call'[q] = call[q]
    BY PurgeMoves DEF Off
  <2>2. \A q \in Processes \ {p} : \A u \in Own(q) : thread'[u] = thread[u]
    BY PurgeMoves, ThreadFacts
  <2>3. QED
    BY <1>3, <2>1, <2>2, ControlKept
<1>5. BatchInv'
    BY <1>1, PurgeMoves DEF TInv, BatchInv
<1>6. QED
    BY <1>2, <1>4, <1>5 DEF TInv

(* A purge that deletes, its main thread at rest, has no thread at work.    *)
LEMMA PurgeAlone ==
    ASSUME TInv, NEW p \in Processes, call[p].pc = "purge", thread[Main(p)] = Rest
    PROVE  /\ \A q \in Processes \ {p} : call[q] = Off
           /\ \A t \in Threads : thread[t] = Rest
           /\ call[p] \in [pc : {"purge"}, step : {"rows"} \cup Tables,
                           filters : Filters, left : SUBSET Tables]
           /\ "rows" \notin Tables
<1>1. \A q \in Processes \ {p} : call[q] = Off
    BY DEF TInv, ControlInv, Control
<1>2. \A q \in Processes : thread[Main(q)] = Rest /\ Resting(Workers(q))
    BY <1>1 DEF TInv, ControlInv, Control, Off
<1>3. \A t \in Threads : thread[t] = Rest
  <2> SUFFICES ASSUME NEW t \in Threads PROVE thread[t] = Rest
    OBVIOUS
  <2>1. PICK q \in Processes : t = Main(q) \/ t \in Workers(q)
    BY ThreadFacts
  <2>2. QED
    BY <1>2, <2>1 DEF Resting
<1>4. "rows" \notin Tables
    BY TablesAssumption DEF Tables
<1>5. QED
    BY <1>1, <1>3, <1>4, CallFacts DEF TInv

(* Between two requests of a purge.                                         *)
LEMMA PurgeStepShape ==
    ASSUME TInv, NEW p \in Processes, call[p].pc = "purge", thread[Main(p)] = Rest,
           NEW c \in CallStates, Become(p, c), c.pc = "purge",
           c.step # "rows" => c.step \in c.left,
           UNCHANGED <<buffer, thread, failures, purges>>,
           rows' \subseteq Rows, halfPurged' \subseteq Scopes,
           registry' \in [Scopes -> Nat \cup {NoDoc}]
    PROVE  TInv'
<1>1. call' \in [Processes -> CallStates] /\ call'[p] = c /\ \A q \in Processes \ {p} : call'[q] = call[q]
    BY BecomeFacts DEF TInv
<1>2. TypeOK'
    BY <1>1 DEF TInv, TypeOK
<1>3. Control(p)'
  <2>1. \A q \in Processes \ {p} : call'[q] = Off
    BY <1>1, PurgeAlone
  <2>2. \A u \in Workers(p) : thread'[u] = Rest
    BY PurgeAlone, ThreadFacts
  <2>3. QED
    BY <1>1, <2>1, <2>2 DEF Control, Resting, Rest
<1>4. ControlInv'
    BY <1>1, <1>3, ControlKept, Alone
<1>5. BatchInv'
    BY PurgeAlone DEF BatchInv, Rest
<1>6. QED
    BY <1>2, <1>4, <1>5 DEF TInv

LEMMA PurgeRowsFacts ==
    ASSUME TInv, NEW p \in Processes, NEW t, PurgeRows(p, t)
    PROVE  /\ call[p].pc = "purge" /\ call[p].step = "rows" /\ thread[Main(p)] = Rest
           /\ t \in call[p].left /\ t \in Tables /\ t # "rows"
           /\ [call[p] EXCEPT !.step = t] \in CallStates
           /\ call'[p] = [call[p] EXCEPT !.step = t]
           /\ call'[p].pc = "purge" /\ call'[p].step = t
           /\ call'[p].filters = call[p].filters /\ call'[p].left = call[p].left
           /\ \A q \in Processes \ {p} : call'[q] = call[q]
<1>1. call[p].pc = "purge" /\ call[p].step = "rows" /\ thread[Main(p)] = Rest /\ t \in call[p].left
      /\ Become(p, [call[p] EXCEPT !.step = t])
    BY DEF PurgeRows
<1>2. call[p] \in [pc : {"purge"}, step : {"rows"} \cup Tables,
                   filters : Filters, left : SUBSET Tables] /\ "rows" \notin Tables
    BY <1>1, PurgeAlone
<1> DEFINE c == [call[p] EXCEPT !.step = t]
<1>3. c \in CallStates /\ c.pc = "purge" /\ c.step = t /\ c.filters = call[p].filters /\ c.left = call[p].left
    BY <1>1, <1>2 DEF CallStates
<1>4. call'[p] = c /\ \A q \in Processes \ {p} : call'[q] = call[q]
    BY <1>1, <1>3, BecomeFacts DEF TInv
<1>5. QED
    BY <1>1, <1>2, <1>3, <1>4

LEMMA PurgeRowsShape ==
    ASSUME TInv, NEW p \in Processes, NEW t, PurgeRows(p, t)
    PROVE  TInv'
<1> DEFINE c == [call[p] EXCEPT !.step = t]
<1>1. rows' \subseteq Rows /\ halfPurged' \subseteq Scopes
    BY DEF PurgeRows, Matching, TInv, TypeOK
<1>2. c \in CallStates /\ c.pc = "purge" /\ c.step \in c.left
    BY PurgeRowsFacts
<1>3. Become(p, c) /\ UNCHANGED <<registry, buffer, thread, failures, purges>>
    BY DEF PurgeRows
<1>4. registry' \in [Scopes -> Nat \cup {NoDoc}]
    BY <1>3 DEF TInv, TypeOK
<1>5. call[p].pc = "purge" /\ thread[Main(p)] = Rest
    BY PurgeRowsFacts
<1> HIDE DEF c
<1>6. QED
    BY <1>1, <1>2, <1>3, <1>4, <1>5, PurgeStepShape

LEMMA PurgeRegistryFacts ==
    ASSUME TInv, NEW p \in Processes, NEW t \in TablesOf("all"), PurgeRegistry(p, t)
    PROVE  /\ call[p].pc = "purge" /\ call[p].step = t /\ thread[Main(p)] = Rest /\ Between(p)
           /\ [call[p] EXCEPT !.step = "rows", !.left = @ \ {t}] \in CallStates
           /\ call'[p].pc = "purge" /\ call'[p].step = "rows"
           /\ \A q \in Processes \ {p} : call'[q] = call[q]
           /\ Gone(p) = Matching(t, call[p].filters)
<1>1. t # "rows"
    BY TablesAssumption DEF TablesOf
<1>2. call[p].pc = "purge" /\ call[p].step = t /\ thread[Main(p)] = Rest /\ Between(p)
    BY <1>1 DEF PurgeRegistry, TInv, ControlInv, Control, Between
<1>3. call[p] \in [pc : {"purge"}, step : {"rows"} \cup Tables,
                   filters : Filters, left : SUBSET Tables]
    BY <1>2, PurgeAlone
<1> DEFINE c == [call[p] EXCEPT !.step = "rows", !.left = @ \ {t}]
<1>4. c \in CallStates /\ c.pc = "purge" /\ c.step = "rows"
    BY <1>3 DEF CallStates
<1>5. Become(p, c)
    BY DEF PurgeRegistry
<1>6. call'[p] = c /\ \A q \in Processes \ {p} : call'[q] = call[q]
    BY <1>4, <1>5, BecomeFacts DEF TInv
<1>7. QED
    BY <1>2, <1>4, <1>6 DEF Gone

LEMMA PurgeRegistryShape ==
    ASSUME TInv, NEW p \in Processes, NEW t \in TablesOf("all"), PurgeRegistry(p, t)
    PROVE  TInv'
<1> DEFINE c == [call[p] EXCEPT !.step = "rows", !.left = @ \ {t}]
<1>1. /\ rows' \subseteq Rows /\ halfPurged' \subseteq Scopes
      /\ registry' \in [Scopes -> Nat \cup {NoDoc}]
    BY DEF PurgeRegistry, TInv, TypeOK
<1>2. call[p].pc = "purge" /\ thread[Main(p)] = Rest /\ c \in CallStates
    BY PurgeRegistryFacts
<1>3. c.pc = "purge" /\ c.step = "rows"
  <2>1. call[p] \in [pc : {"purge"}, step : {"rows"} \cup Tables,
                     filters : Filters, left : SUBSET Tables]
    BY <1>2, PurgeAlone
  <2>2. QED
    BY <2>1
<1>4. Become(p, c) /\ UNCHANGED <<buffer, thread, failures, purges>>
    BY DEF PurgeRegistry
<1> HIDE DEF c
<1>5. QED
    BY <1>1, <1>2, <1>3, <1>4, PurgeStepShape

(* A purge that raises has deleted rows of scopes it marks, or documents of *)
(* scopes without rows, or nothing.                                         *)
LEMMA PurgeRaisesFacts ==
    ASSUME TInv, NEW p \in Processes, PurgeRaises(p)
    PROVE  /\ call[p].pc = "purge" /\ thread[Main(p)] = Rest /\ Exit(p)
           /\ failures' = failures + 1 /\ UNCHANGED <<thread, purges>>
           /\ \/ /\ rows' \subseteq rows
                 /\ halfPurged' \subseteq Scopes
                 /\ halfPurged \subseteq halfPurged'
                 /\ \A r \in rows \ rows' : r.scope \in halfPurged'
                 /\ UNCHANGED registry
              \/ /\ Between(p)
                 /\ \E deleted \in SUBSET Gone(p) :
                       /\ registry' = [s \in Scopes |-> IF s \in deleted THEN NoDoc ELSE registry[s]]
                       /\ halfPurged' = halfPurged \ deleted
                 /\ UNCHANGED rows
<1>1. /\ call[p].pc = "purge" /\ thread[Main(p)] = Rest /\ Exit(p)
      /\ failures' = failures + 1 /\ UNCHANGED <<thread, purges>>
    BY DEF PurgeRaises, Fails
<1>2. rows \subseteq Rows /\ halfPurged \subseteq Scopes
    BY DEF TInv, TypeOK
<1>3. CASE call[p].step = "rows" /\ SomeRows(p)
  <2>1. PICK deleted \in SUBSET rows : /\ rows' = rows \ deleted
                                       /\ halfPurged' = halfPurged \cup {r.scope : r \in deleted}
                                       /\ UNCHANGED registry
    BY <1>3 DEF SomeRows
  <2>2. \A r \in rows : r.scope \in Scopes
    BY <1>2 DEF Scopes
  <2>3. halfPurged' \subseteq Scopes
    BY <1>2, <2>1, <2>2
  <2>4. \A r \in rows \ rows' : r.scope \in halfPurged'
    BY <2>1
  <2>5. QED
    BY <1>1, <2>1, <2>3, <2>4
<1>4. CASE call[p].step # "rows" /\ SomeDocuments(p)
    BY <1>1, <1>4 DEF SomeDocuments, Between, Gone
<1>5. CASE UNCHANGED <<rows, registry, halfPurged>>
    BY <1>1, <1>2, <1>5
<1>6. QED
    BY <1>3, <1>4, <1>5 DEF PurgeRaises

LEMMA PurgeRaisesTables ==
    ASSUME TInv, NEW p \in Processes, PurgeRaises(p)
    PROVE  /\ rows' \subseteq Rows /\ halfPurged' \subseteq Scopes
           /\ registry' \in [Scopes -> Nat \cup {NoDoc}]
<1>1. /\ rows \subseteq Rows /\ halfPurged \subseteq Scopes
      /\ registry \in [Scopes -> Nat \cup {NoDoc}]
    BY DEF TInv, TypeOK
<1>2. rows' \subseteq Rows
    BY <1>1, PurgeRaisesFacts
<1>3. halfPurged' \subseteq Scopes
    BY <1>1, PurgeRaisesFacts
<1>4. registry' \in [Scopes -> Nat \cup {NoDoc}]
    BY <1>1, PurgeRaisesFacts
<1>5. QED
    BY <1>2, <1>3, <1>4

LEMMA PurgeEndShape ==
    ASSUME TInv, NEW p \in Processes, PurgeEnd(p)
    PROVE  TInv'
<1>1. Resting(Workers(p)) /\ thread[Main(p)] = Rest /\ Exit(p)
    BY DEF PurgeEnd, TInv, ControlInv, Control
<1>2. failures' \in Nat
    BY DEF PurgeEnd, TInv, TypeOK
<1>3. QED
    BY <1>1, <1>2, ExitShape DEF PurgeEnd, TInv, TypeOK, BatchInv

LEMMA PurgeRaisesShape ==
    ASSUME TInv, NEW p \in Processes, PurgeRaises(p)
    PROVE  TInv'
<1>1. Resting(Workers(p)) /\ thread[Main(p)] = Rest /\ Exit(p) /\ UNCHANGED <<thread, purges>>
    BY PurgeRaisesFacts DEF TInv, ControlInv, Control
<1>2. failures' \in Nat
    BY PurgeRaisesFacts DEF TInv, TypeOK
<1>3. BatchInv'
    BY <1>1, PurgeAlone, PurgeRaisesFacts DEF BatchInv, Rest
<1>4. QED
    BY <1>1, <1>2, <1>3, PurgeRaisesTables, ExitShape

(* A request that raises has been served or not.                            *)
LEMMA ServedFacts ==
    ASSUME TInv, NEW p \in Processes, NEW t \in Own(p), Served(t) \/ Unserved
    PROVE  /\ registry' \in [Scopes -> Nat \cup {NoDoc}] /\ rows' \subseteq Rows
           /\ \A o \in Scopes : registry[o] # NoDoc => registry'[o] # NoDoc
<1>0. t \in Threads
    BY ThreadFacts
<1>1. CASE Unserved
    BY <1>1 DEF Unserved, TInv, TypeOK
<1>2. CASE Served(t) /\ thread[t].pc = "create"
    BY <1>0, <1>2, ThreadStateFacts DEF Served, TInv, TypeOK
<1>3. CASE Served(t) /\ thread[t].pc = "document"
    BY <1>3, CreateDocFacts DEF Served, TInv, TypeOK
<1>4. CASE Served(t) /\ thread[t].pc = "increment"
    BY <1>0, <1>4, SentFacts DEF Served, TInv, TypeOK
<1>5. QED
    BY <1>1, <1>2, <1>3, <1>4 DEF Served

LEMMA RaiseFacts ==
    ASSUME TInv, NEW p \in Processes, NEW t \in Own(p), Raise(p, t)
    PROVE  /\ thread[t] # Rest
           /\ Rest \in ThreadStates /\ Do(t, Rest)
           /\ \A q \in Processes \ {p} : call'[q] = call[q]
           /\ call' \in [Processes -> CallStates] /\ buffer' \in [Processes -> Counts]
           /\ t = Main(p) => Exit(p) /\ call'[p] = Off
           /\ t # Main(p) => /\ call'[p].pc = "run" /\ call'[p].failed /\ call'[p].kind = call[p].kind
                             /\ call'[p].todo = call[p].todo
                             /\ UNCHANGED buffer
           /\ failures' = failures + 1 /\ UNCHANGED <<halfPurged, purges>>
<1>1. thread[t] # Rest /\ Rest \in ThreadStates /\ Do(t, Rest) /\ failures' = failures + 1
      /\ UNCHANGED <<halfPurged, purges>>
    BY DEF Raise, Request, Rest, ThreadStates, Fails
<1>2. CASE t = Main(p)
    BY <1>1, <1>2, ExitFacts DEF Raise
<1>3. CASE t # Main(p)
  <2> DEFINE c == [call[p] EXCEPT !.failed = TRUE]
  <2>1. call[p] \in [pc : {"run"}, kind : Kinds, failed : BOOLEAN, todo : SUBSET Rows]
    BY <1>1, <1>3, Busy, CallFacts DEF TInv
  <2>2. c \in CallStates /\ c.pc = "run" /\ c.failed /\ c.kind = call[p].kind /\ c.todo = call[p].todo
    BY <2>1 DEF CallStates
  <2>3. Become(p, c) /\ UNCHANGED buffer
    BY <1>3 DEF Raise
  <2>4. QED
    BY <1>1, <1>3, <2>2, <2>3, BecomeFacts DEF TInv, TypeOK
<1>4. QED
    BY <1>2, <1>3

LEMMA RaiseShape ==
    ASSUME TInv, NEW p \in Processes, NEW t \in Own(p), Raise(p, t)
    PROVE  TInv'
<1>1. /\ thread' \in [Threads -> ThreadStates] /\ thread'[t] = Rest
      /\ \A u \in Threads \ {t} : thread'[u] = thread[u]
      /\ \A q \in Processes \ {p} : \A u \in Own(q) : thread'[u] = thread[u]
    BY RaiseFacts, DoFacts DEF TInv
<1>2. rows' \subseteq Rows /\ registry' \in [Scopes -> Nat \cup {NoDoc}]
      /\ \A o \in Scopes : registry[o] # NoDoc => registry'[o] # NoDoc
    BY ServedFacts DEF Raise
<1>3. TypeOK'
    BY <1>1, <1>2, RaiseFacts DEF TInv, TypeOK
<1>4. Control(p)'
  <2>0. /\ Control(p) /\ Main(p) \in Threads /\ Workers(p) \subseteq Threads /\ Main(p) \notin Workers(p)
        /\ \A u \in Own(p) : u = Main(p) \/ u \in Workers(p)
    BY ThreadFacts DEF TInv, ControlInv
  <2>1. CASE t = Main(p)
    <3>1. \A u \in Workers(p) : thread'[u] = Rest
      BY <1>1, <2>0, <2>1, RaiseFacts, Busy DEF Resting
    <3>2. call'[p] = Off /\ thread'[Main(p)] = Rest
      BY <1>1, <2>1, RaiseFacts
    <3>3. QED
      BY <3>1, <3>2 DEF Control, Resting, Off, Rest
  <2>2. CASE t # Main(p)
    <3>1. thread'[Main(p)] = Rest
      BY <1>1, <2>0, <2>2, RaiseFacts, Busy DEF Control
    <3>2. Concurrency[p] = 1 => \A u \in Workers(p) : thread'[u] = Rest
      <4> HAVE Concurrency[p] = 1
      <4>1. Workers(p) = {<<p, 1>>}
        BY DEF Workers
      <4>2. t \in Workers(p)
        BY <2>0, <2>2
      <4>3. QED
        BY <1>1, <4>1, <4>2
    <3>3. call'[p].pc = "run" /\ call'[p].kind \in Calls[p]
      BY <2>0, <2>2, RaiseFacts, Busy DEF Control
    <3>4. QED
      BY <3>1, <3>2, <3>3 DEF Control, Resting, Rest
  <2>3. QED
    BY <2>1, <2>2
<1>5. ControlInv'
    BY <1>1, <1>4, RaiseFacts, Busy, Alone, ControlKept
<1>6. BatchInv'
    BY <1>2, RaiseFacts, BatchKept DEF Rest
<1>7. QED
    BY <1>3, <1>5, <1>6 DEF TInv

LEMMA KillFacts ==
    ASSUME TInv, NEW p \in Processes, Kill(p)
    PROVE  /\ call' \in [Processes -> CallStates] /\ call'[p] = Off
           /\ \A q \in Processes \ {p} : call'[q] = call[q]
           /\ buffer' \in [Processes -> Counts] /\ buffer'[p] = Nothing
           /\ \A q \in Processes \ {p} : buffer'[q] = buffer[q]
           /\ thread' \in [Threads -> ThreadStates]
           /\ \A t \in Own(p) : thread'[t] = Rest
           /\ \A t \in Threads \ Own(p) : thread'[t] = thread[t]
           /\ \A q \in Processes \ {p} : \A u \in Own(q) : thread'[u] = thread[u]
           /\ failures' = failures + 1 /\ UNCHANGED <<rows, registry, halfPurged, purges>>
<1>1. Off \in CallStates /\ Rest \in ThreadStates
    BY DEF CallStates, ThreadStates
<1>2. /\ call' \in [Processes -> CallStates] /\ call'[p] = Off
      /\ \A q \in Processes \ {p} : call'[q] = call[q]
    BY <1>1, BecomeFacts DEF Kill, TInv
<1>3. /\ buffer' \in [Processes -> Counts] /\ buffer'[p] = Nothing
      /\ \A q \in Processes \ {p} : buffer'[q] = buffer[q]
    BY NothingType DEF Kill, TInv, TypeOK
<1>4. thread' = [t \in Threads |-> IF t \in Own(p) THEN Rest ELSE thread[t]]
    BY DEF Kill
<1>5. thread' \in [Threads -> ThreadStates]
    BY <1>1, <1>4 DEF TInv, TypeOK
<1>6. \A q \in Processes \ {p} : \A u \in Own(q) : u \in Threads /\ u \notin Own(p)
    BY ThreadFacts
<1>7. QED
    BY <1>2, <1>3, <1>4, <1>5, <1>6, ThreadFacts DEF Kill, Fails

LEMMA KillShape ==
    ASSUME TInv, NEW p \in Processes, Kill(p)
    PROVE  TInv'
<1>1. TypeOK'
    BY KillFacts DEF TInv, TypeOK
<1>2. Control(p)'
    BY KillFacts, ThreadFacts DEF Control, Resting, Off, Rest
<1>3. ControlInv'
    BY <1>2, KillFacts, ControlKept
<1>4. BatchInv'
    BY KillFacts DEF TInv, BatchInv, Rest
<1>5. QED
    BY <1>1, <1>3, <1>4 DEF TInv

(* The steps of a process, one by one.                                      *)
LEMMA Steps ==
    ASSUME Next
    PROVE  \E p \in Processes :
              \/ Launch(p)
              \/ \E t \in Workers(p) : Take(p, t)
              \/ \E t \in Workers(p) : Create(p, t)
              \/ \E t \in Workers(p) : Register(p, t)
              \/ \E t \in Own(p) : Flush(p, t)
              \/ \E t \in Own(p) : Document(t)
              \/ \E t \in Own(p) : Increment(t)
              \/ Finish(p)
              \/ End(p)
              \/ Purge(p)
              \/ \E t \in TablesOf("all") : PurgeRows(p, t)
              \/ \E t \in TablesOf("all") : PurgeRegistry(p, t)
              \/ PurgeEnd(p) \/ PurgeRaises(p)
              \/ Kill(p)
              \/ \E t \in Own(p) : Raise(p, t)
BY DEF Next, Work

LEMMA NextTInv ==
    ASSUME TInv, [Next]_vars
    PROVE  TInv'
<1>1. CASE Next
    BY <1>1, Steps, LaunchShape, TakeShape, CreateShape, RegisterShape, FlushShape, DocumentShape,
       IncrementShape, FinishShape, EndShape, PurgeShape, PurgeRowsShape, PurgeRegistryShape,
       PurgeEndShape, PurgeRaisesShape, KillShape, RaiseShape
<1>2. CASE UNCHANGED vars
    BY <1>2 DEF vars, TInv, TypeOK, ControlInv, Control, Resting, BatchInv
<1>3. QED
    BY <1>1, <1>2

(* Every variable keeps its shape in every reachable state.                 *)
THEOREM TypeCorrect == Spec => []TypeOK
<1>1. Spec => []TInv
    BY InitTInv, NextTInv, PTL DEF Spec
<1>2. TInv => TypeOK
    BY DEF TInv
<1>3. QED
    BY <1>1, <1>2, PTL

-------------------------------------------------------------------------------
(***************************************************************************)
(* The count of a scope: what the registry says, what the threads and the   *)
(* buffers hold, and the rows there are, move together.                     *)
(***************************************************************************)
LEMMA CarriedFacts ==
    ASSUME NEW s \in Scopes, NEW state \in ThreadStates
    PROVE  /\ Carried(state, s) \in Nat
           /\ state.pc \in {"rest", "flush", "create"} => Carried(state, s) = 0
           /\ state.pc = "register" => Carried(state, s) = IF state.row.scope = s THEN 1 ELSE 0
           /\ state.pc \in {"document", "increment"} => Carried(state, s) = state.pending[s]
<1>1. CASE state.pc \in {"document", "increment"}
  <2>1. state.pending \in Counts
    BY <1>1 DEF ThreadStates, Rest, Batches
  <2>2. QED
    BY <1>1, <2>1 DEF Carried, Counts
<1>2. CASE state.pc \notin {"document", "increment"}
    BY <1>2 DEF Carried
<1>3. QED
    BY <1>1, <1>2

LEMMA MemoryType ==
    ASSUME TypeOK, NEW s \in Scopes
    PROVE  /\ InMemory(s) \in Nat /\ NRows(s) \in Nat
           /\ \A p \in Processes : InBuffers(s)[p] = buffer[p][s] /\ InBuffers(s)[p] \in Nat
           /\ \A t \in Threads : /\ InThreads(s)[t] = Carried(thread[t], s)
                                 /\ InThreads(s)[t] \in Nat
           /\ SumOf(InBuffers(s), Processes) \in Nat /\ SumOf(InThreads(s), Threads) \in Nat
           /\ IsFiniteSet(RowsOf(s)) /\ Cardinality(RowsOf(s)) \in Nat
<1>1. \A p \in Processes : InBuffers(s)[p] = buffer[p][s] /\ InBuffers(s)[p] \in Nat
    BY DEF InBuffers, TypeOK, Counts
<1>2. \A t \in Threads : InThreads(s)[t] = Carried(thread[t], s) /\ InThreads(s)[t] \in Nat
    BY CarriedFacts DEF InThreads, TypeOK
<1>3. SumOf(InBuffers(s), Processes) \in Nat /\ SumOf(InThreads(s), Threads) \in Nat
    BY <1>1, <1>2, SumType, ProcessesAssumption, ThreadFacts
<1>4. RowsOf(s) \subseteq Rows
    BY DEF RowsOf, TypeOK
<1>5. IsFiniteSet(RowsOf(s)) /\ Cardinality(RowsOf(s)) \in Nat
    BY <1>4, RowsAssumption, FS_Subset, FS_CardinalityType
<1>6. NRows(s) \in Nat
    BY DEF NRows, TypeOK
<1>7. QED
    BY <1>1, <1>2, <1>3, <1>5, <1>6 DEF InMemory

LEMMA MemoryTypeNext ==
    ASSUME TypeOK', NEW s \in Scopes
    PROVE  /\ InMemory(s)' \in Nat /\ NRows(s)' \in Nat
           /\ \A p \in Processes : InBuffers(s)'[p] = buffer'[p][s] /\ InBuffers(s)'[p] \in Nat
           /\ \A t \in Threads : /\ InThreads(s)'[t] = Carried(thread'[t], s)
                                 /\ InThreads(s)'[t] \in Nat
           /\ SumOf(InBuffers(s)', Processes) \in Nat /\ SumOf(InThreads(s)', Threads) \in Nat
           /\ IsFiniteSet(RowsOf(s)') /\ Cardinality(RowsOf(s)') \in Nat
<1>1. \A p \in Processes : InBuffers(s)'[p] = buffer'[p][s] /\ InBuffers(s)'[p] \in Nat
    BY DEF InBuffers, TypeOK, Counts
<1>2. \A t \in Threads : InThreads(s)'[t] = Carried(thread'[t], s) /\ InThreads(s)'[t] \in Nat
    BY CarriedFacts DEF InThreads, TypeOK
<1>3. SumOf(InBuffers(s)', Processes) \in Nat /\ SumOf(InThreads(s)', Threads) \in Nat
    BY <1>1, <1>2, SumType, ProcessesAssumption, ThreadFacts
<1>4. RowsOf(s)' \subseteq Rows
    BY DEF RowsOf, TypeOK
<1>5. IsFiniteSet(RowsOf(s)') /\ Cardinality(RowsOf(s)') \in Nat
    BY <1>4, RowsAssumption, FS_Subset, FS_CardinalityType
<1>6. NRows(s)' \in Nat
    BY DEF NRows, TypeOK
<1>7. QED
    BY <1>1, <1>2, <1>3, <1>5, <1>6 DEF InMemory

(* One thread and the buffer of one process change.                         *)
LEMMA MemoryMoves ==
    ASSUME TypeOK, TypeOK', NEW s \in Scopes, NEW p \in Processes, NEW t \in Threads,
           \A q \in Processes \ {p} : buffer'[q] = buffer[q],
           \A u \in Threads \ {t} : thread'[u] = thread[u]
    PROVE  InMemory(s)' + Carried(thread[t], s) + buffer[p][s]
              = InMemory(s) + Carried(thread'[t], s) + buffer'[p][s]
<1> DEFINE B == InBuffers(s)
           T == InThreads(s)
           B1 == InBuffers(s)'
           T1 == InThreads(s)'
<1>1. /\ \A q \in Processes : B[q] = buffer[q][s] /\ B[q] \in Nat
      /\ \A u \in Threads : T[u] = Carried(thread[u], s) /\ T[u] \in Nat
      /\ SumOf(B, Processes) \in Nat /\ SumOf(T, Threads) \in Nat
    BY MemoryType
<1>2. /\ \A q \in Processes : B1[q] = buffer'[q][s] /\ B1[q] \in Nat
      /\ \A u \in Threads : T1[u] = Carried(thread'[u], s) /\ T1[u] \in Nat
      /\ SumOf(B1, Processes) \in Nat /\ SumOf(T1, Threads) \in Nat
    BY MemoryTypeNext
<1>3. \A q \in Processes \ {p} : B1[q] = B[q]
    BY <1>1, <1>2
<1>4. \A u \in Threads \ {t} : T1[u] = T[u]
    BY <1>1, <1>2
<1>5. InMemory(s) = SumOf(B, Processes) + SumOf(T, Threads)
    BY DEF InMemory
<1>6. InMemory(s)' = SumOf(B1, Processes) + SumOf(T1, Threads)
    BY DEF InMemory
<1> HIDE DEF B, T, B1, T1
<1>a. (\A q \in Processes : B[q] \in Nat) /\ (\A q \in Processes : B1[q] \in Nat)
    BY <1>1, <1>2
<1>b. (\A u \in Threads : T[u] \in Nat) /\ (\A u \in Threads : T1[u] \in Nat)
    BY <1>1, <1>2
<1>7. SumOf(B1, Processes) + B[p] = SumOf(B, Processes) + B1[p]
    BY <1>a, <1>3, SumOneChanged, ProcessesAssumption
<1>8. SumOf(T1, Threads) + T[t] = SumOf(T, Threads) + T1[t]
  <2>1. IsFiniteSet(Threads)
    BY ThreadFacts
  <2>2. QED
    BY <1>b, <1>4, <2>1, SumOneChanged
<1>9. QED
    BY <1>1, <1>2, <1>5, <1>6, <1>7, <1>8

(* A process is killed, or nothing but a buffer is dropped.                 *)
LEMMA MemoryDrops ==
    ASSUME TypeOK, TypeOK', NEW s \in Scopes,
           \A q \in Processes : buffer'[q] = buffer[q] \/ buffer'[q] = Nothing,
           \A u \in Threads : thread'[u] = thread[u] \/ thread'[u] = Rest
    PROVE  InMemory(s)' <= InMemory(s)
<1> DEFINE B == InBuffers(s)
           T == InThreads(s)
           B1 == InBuffers(s)'
           T1 == InThreads(s)'
<1>1. /\ \A q \in Processes : B[q] = buffer[q][s] /\ B[q] \in Nat
      /\ \A u \in Threads : T[u] = Carried(thread[u], s) /\ T[u] \in Nat
      /\ SumOf(B, Processes) \in Nat /\ SumOf(T, Threads) \in Nat
    BY MemoryType
<1>2. /\ \A q \in Processes : B1[q] = buffer'[q][s] /\ B1[q] \in Nat
      /\ \A u \in Threads : T1[u] = Carried(thread'[u], s) /\ T1[u] \in Nat
      /\ SumOf(B1, Processes) \in Nat /\ SumOf(T1, Threads) \in Nat
    BY MemoryTypeNext
<1>3. \A q \in Processes : B1[q] <= B[q]
    BY <1>1, <1>2, NothingType
<1>4. Carried(Rest, s) = 0
    BY DEF Carried, Rest
<1>5. \A u \in Threads : T1[u] <= T[u]
    BY <1>1, <1>2, <1>4
<1>6. InMemory(s) = SumOf(B, Processes) + SumOf(T, Threads)
    BY DEF InMemory
<1>7. InMemory(s)' = SumOf(B1, Processes) + SumOf(T1, Threads)
    BY DEF InMemory
<1> HIDE DEF B, T, B1, T1
<1>8. SumOf(B1, Processes) <= SumOf(B, Processes)
    BY <1>1, <1>2, <1>3, SumMonotonic, ProcessesAssumption
<1>9. SumOf(T1, Threads) <= SumOf(T, Threads)
    BY <1>1, <1>2, <1>5, SumMonotonic, ThreadFacts
<1>10. QED
    BY <1>1, <1>2, <1>6, <1>7, <1>8, <1>9

(* Nothing is left in memory.                                               *)
LEMMA MemoryEmpty ==
    ASSUME TypeOK, NEW s \in Scopes,
           \A q \in Processes : buffer[q] = Nothing, \A u \in Threads : thread[u] = Rest
    PROVE  InMemory(s) = 0
<1>1. \A q \in Processes : InBuffers(s)[q] = 0
    BY MemoryType, NothingType
<1>2. Carried(Rest, s) = 0
    BY DEF Carried, Rest
<1>3. \A u \in Threads : InThreads(s)[u] = 0
    BY <1>2, MemoryType
<1>4. SumOf(InBuffers(s), Processes) = 0 /\ SumOf(InThreads(s), Threads) = 0
    BY <1>1, <1>3, SumZero, ProcessesAssumption, ThreadFacts
<1>5. QED
    BY <1>4 DEF InMemory

(* What a thread carries is in memory.                                      *)
LEMMA CarriedInMemory ==
    ASSUME TypeOK, NEW s \in Scopes, NEW t \in Threads
    PROVE  Carried(thread[t], s) <= InMemory(s)
<1>1. InThreads(s)[t] <= SumOf(InThreads(s), Threads)
    BY MemoryType, SumAtLeast, ThreadFacts
<1>2. QED
    BY <1>1, MemoryType DEF InMemory

LEMMA RowsGrow ==
    ASSUME TypeOK, TypeOK', NEW s \in Scopes, NEW r \in Rows, rows' = rows \cup {r}
    PROVE  /\ RowsOf(s) \subseteq RowsOf(s)'
           /\ Cardinality(RowsOf(s)) <= Cardinality(RowsOf(s)')
           /\ r \notin rows =>
                 Cardinality(RowsOf(s)') = Cardinality(RowsOf(s)) + IF r.scope = s THEN 1 ELSE 0
           /\ r \in rows => Cardinality(RowsOf(s)') = Cardinality(RowsOf(s))
<1>1. RowsOf(s) \subseteq RowsOf(s)'
    BY DEF RowsOf
<1>2. Cardinality(RowsOf(s)) <= Cardinality(RowsOf(s)')
    BY <1>1, MemoryTypeNext, FS_Subset
<1>3. CASE r.scope = s /\ r \notin rows
  <2>1. RowsOf(s)' = RowsOf(s) \cup {r} /\ r \notin RowsOf(s)
    BY <1>3 DEF RowsOf
  <2>2. Cardinality(RowsOf(s) \cup {r}) = Cardinality(RowsOf(s)) + 1
    BY <2>1, MemoryType, FS_AddElement
  <2>3. QED
    BY <1>1, <1>2, <1>3, <2>1, <2>2
<1>4. CASE r.scope # s \/ r \in rows
  <2>1. RowsOf(s)' = RowsOf(s)
    BY <1>4 DEF RowsOf
  <2>2. QED
    BY <1>1, <1>2, <1>4, <2>1, MemoryType
<1>5. QED
    BY <1>3, <1>4

(* A step that counts: the three move together, rows only come, and a       *)
(* document comes when something is there to be counted.                    *)
Comes(s) == /\ RowsOf(s) \subseteq RowsOf(s)'
            /\ registry'[s] # NoDoc => registry[s] # NoDoc \/ InMemory(s) > 0
Balanced(s) ==
    /\ NRows(s)' + InMemory(s)' + Cardinality(RowsOf(s))
          = NRows(s) + InMemory(s) + Cardinality(RowsOf(s)')
    /\ Comes(s)
Loses(s) ==
    /\ NRows(s)' + InMemory(s)' + Cardinality(RowsOf(s))
          <= NRows(s) + InMemory(s) + Cardinality(RowsOf(s)')
    /\ Comes(s)

(* Rows and documents stay, a thread moves with what it carries.            *)
LEMMA QuietCounts ==
    ASSUME TInv, TInv', NEW p \in Processes, NEW t \in Own(p), NEW state \in ThreadStates,
           Do(t, state), UNCHANGED <<rows, registry>>,
           \A q \in Processes \ {p} : buffer'[q] = buffer[q],
           \A s \in Scopes : Carried(state, s) + buffer'[p][s] = Carried(thread[t], s) + buffer[p][s],
           NEW s \in Scopes
    PROVE  Balanced(s)
<1>1. t \in Threads /\ thread'[t] = state /\ \A u \in Threads \ {t} : thread'[u] = thread[u]
    BY DoFacts, ThreadFacts DEF TInv
<1>2. InMemory(s)' + Carried(thread[t], s) + buffer[p][s]
         = InMemory(s) + Carried(thread'[t], s) + buffer'[p][s]
    BY <1>1, MemoryMoves DEF TInv
<1>3. buffer[p][s] \in Nat /\ buffer'[p][s] \in Nat
    BY DEF TInv, TypeOK, Counts
<1>4. Carried(thread[t], s) \in Nat /\ Carried(thread'[t], s) \in Nat
    BY <1>1, CarriedFacts DEF TInv, TypeOK
<1>5. InMemory(s) \in Nat /\ InMemory(s)' \in Nat
    BY MemoryType, MemoryTypeNext DEF TInv
<1>6. InMemory(s)' = InMemory(s)
    BY <1>1, <1>2, <1>3, <1>4, <1>5
<1>7. NRows(s)' = NRows(s) /\ RowsOf(s)' = RowsOf(s)
    BY DEF NRows, RowsOf
<1>8. QED
    BY <1>6, <1>7 DEF Balanced, Comes

LEMMA LaunchCounts ==
    ASSUME TInv, TInv', NEW p \in Processes, Launch(p), NEW s \in Scopes
    PROVE  Balanced(s)
<1>1. InMemory(s)' = InMemory(s) /\ NRows(s)' = NRows(s) /\ RowsOf(s)' = RowsOf(s)
    BY DEF Launch, InMemory, InBuffers, InThreads, NRows, RowsOf
<1>2. QED
    BY <1>1 DEF Balanced, Comes, Launch

LEMMA TakeCounts ==
    ASSUME TInv, TInv', NEW p \in Processes, NEW t \in Workers(p), Take(p, t), NEW s \in Scopes
    PROVE  Balanced(s)
<1>1. PICK r \in call[p].todo :
         Do(t, IF r \in rows /\ call[p].kind # "push" THEN Rest ELSE [pc |-> "create", row |-> r])
    BY DEF Take
<1> DEFINE state == IF r \in rows /\ call[p].kind # "push" THEN Rest ELSE [pc |-> "create", row |-> r]
<1>2. r \in Rows
    BY CallFacts DEF Take, TInv
<1>3. state \in ThreadStates /\ state.pc \in {"rest", "create"}
    BY <1>2 DEF ThreadStates, Rest
<1>4. t \in Own(p) /\ Do(t, state)
    BY <1>1, ThreadFacts
<1>5. thread[t] \in ThreadStates /\ thread[t].pc = "rest"
    BY DEF Take, ThreadStates, Rest
<1> HIDE DEF state
<1>6. \A o \in Scopes : Carried(state, o) = 0 /\ Carried(thread[t], o) = 0
    BY <1>3, <1>5, CarriedFacts
<1>7. QED
    BY <1>3, <1>4, <1>6, QuietCounts DEF Take

LEMMA CreateCounts ==
    ASSUME TInv, TInv', NEW p \in Processes, NEW t \in Workers(p), Create(p, t), NEW s \in Scopes
    PROVE  Balanced(s)
<1> DEFINE row == thread[t].row
<1>1. /\ t \in Own(p) /\ t \in Threads /\ row \in Rows /\ thread[t].pc = "create"
      /\ [thread[t] EXCEPT !.pc = "register"] = [pc |-> "register", row |-> row]
      /\ [pc |-> "register", row |-> row] \in ThreadStates
    BY Puts DEF Create
<1>2. UNCHANGED <<registry, buffer>> /\ rows' = rows \cup {row}
    BY DEF Create
<1>3. Carried(thread[t], s) = 0
    BY <1>1, CarriedFacts DEF TInv, TypeOK
<1>4. buffer[p][s] \in Nat /\ InMemory(s) \in Nat /\ InMemory(s)' \in Nat
      /\ Cardinality(RowsOf(s)) \in Nat /\ Cardinality(RowsOf(s)') \in Nat
      /\ NRows(s) \in Nat /\ NRows(s)' \in Nat
    BY MemoryType, MemoryTypeNext DEF TInv
<1>5. NRows(s)' = NRows(s)
    BY <1>2 DEF NRows
<1>6. RowsOf(s) \subseteq RowsOf(s)'
    BY <1>1, <1>2, RowsGrow DEF TInv
<1>7. CASE row \in rows
  <2>1. PICK state \in ThreadStates : Do(t, state) /\ state.pc \in {"rest", "flush"}
    <3>1. PICK pc \in AfterPut(p) : Do(t, [pc |-> pc])
      BY <1>7 DEF Create
    <3>2. pc \in {"rest", "flush"}
      BY <3>1, Puts DEF Create
    <3>3. QED
      BY <3>1, <3>2, Idles
  <2>2. thread'[t] = state /\ \A u \in Threads \ {t} : thread'[u] = thread[u]
    BY <1>1, <2>1, DoFacts DEF TInv
  <2>3. Carried(thread'[t], s) = 0
    BY <2>1, <2>2, CarriedFacts
  <2>4. InMemory(s)' = InMemory(s)
    <3>1. InMemory(s)' + Carried(thread[t], s) + buffer[p][s]
             = InMemory(s) + Carried(thread'[t], s) + buffer'[p][s]
      BY <1>1, <1>2, <2>2, MemoryMoves DEF TInv
    <3>2. QED
      BY <1>2, <1>3, <1>4, <2>3, <3>1
  <2>5. Cardinality(RowsOf(s)') = Cardinality(RowsOf(s))
    BY <1>1, <1>2, <1>7, RowsGrow DEF TInv
  <2>6. QED
    BY <1>2, <1>5, <1>6, <2>4, <2>5 DEF Balanced, Comes
<1>8. CASE row \notin rows
  <2> DEFINE state == [pc |-> "register", row |-> row]
  <2>1. Do(t, state)
    BY <1>1, <1>8 DEF Create
  <2>2. thread'[t] = state /\ \A u \in Threads \ {t} : thread'[u] = thread[u]
    BY <1>1, <2>1, DoFacts DEF TInv
  <2>3. Carried(thread'[t], s) = IF row.scope = s THEN 1 ELSE 0
    BY <1>1, <2>2, CarriedFacts
  <2>4. InMemory(s)' = InMemory(s) + IF row.scope = s THEN 1 ELSE 0
    <3>1. InMemory(s)' + Carried(thread[t], s) + buffer[p][s]
             = InMemory(s) + Carried(thread'[t], s) + buffer'[p][s]
      BY <1>1, <1>2, <2>2, MemoryMoves DEF TInv
    <3>2. QED
      BY <1>2, <1>3, <1>4, <2>3, <3>1
  <2>5. Cardinality(RowsOf(s)') = Cardinality(RowsOf(s)) + IF row.scope = s THEN 1 ELSE 0
    BY <1>1, <1>2, <1>8, RowsGrow DEF TInv
  <2>6. QED
    BY <1>2, <1>4, <1>5, <1>6, <2>4, <2>5 DEF Balanced, Comes
<1>9. QED
    BY <1>7, <1>8

LEMMA RegisterCounts ==
    ASSUME TInv, TInv', NEW p \in Processes, NEW t \in Workers(p), Register(p, t), NEW s \in Scopes
    PROVE  Balanced(s)
<1>1. /\ t \in Own(p) /\ t \in Threads /\ thread[t].pc = "register"
      /\ thread[t].row.scope \in Scopes /\ thread[t] \in ThreadStates
    BY Puts DEF Register, TInv, TypeOK
<1>2. PICK state \in ThreadStates : Do(t, state) /\ state.pc \in {"rest", "flush"}
    BY Puts, Idles DEF Register
<1>3. buffer' = [buffer EXCEPT ![p] = Counted(p, thread[t].row.scope)] /\ UNCHANGED <<rows, registry>>
    BY DEF Register
<1>4. buffer'[p] = Counted(p, thread[t].row.scope) /\ \A q \in Processes \ {p} : buffer'[q] = buffer[q]
    BY <1>3 DEF TInv, TypeOK
<1>5. ASSUME NEW o \in Scopes
      PROVE  Carried(state, o) + buffer'[p][o] = Carried(thread[t], o) + buffer[p][o]
  <2>1. Carried(state, o) = 0 /\ Carried(thread[t], o) = IF thread[t].row.scope = o THEN 1 ELSE 0
    BY <1>1, <1>2, CarriedFacts
  <2>2. buffer[p][o] \in Nat
    BY DEF TInv, TypeOK, Counts
  <2>3. buffer'[p][o] = IF thread[t].row.scope = o THEN buffer[p][o] + 1 ELSE buffer[p][o]
    BY <1>1, <1>4, CountedType
  <2>4. QED
    BY <2>1, <2>2, <2>3
<1>6. QED
    BY <1>1, <1>2, <1>3, <1>4, <1>5, QuietCounts

(* What a batch to send carries.                                            *)
LEMMA SendingCarries ==
    ASSUME NEW counts \in Counts, NEW s \in Scopes
    PROVE  Carried(Sending(counts), s) = counts[s]
<1>1. CASE counts = Nothing
    BY <1>1, NothingType, SendingType, CarriedFacts DEF Rest
<1>2. CASE counts # Nothing
    BY <1>2, SendingType, CarriedFacts
<1>3. QED
    BY <1>1, <1>2

LEMMA FlushCounts ==
    ASSUME TInv, TInv', NEW p \in Processes, NEW t \in Own(p), Flush(p, t), NEW s \in Scopes
    PROVE  Balanced(s)
<1>1. t \in Threads /\ thread[t] \in ThreadStates /\ thread[t].pc = "flush" /\ buffer[p] \in Counts
    BY ThreadFacts DEF Flush, TInv, TypeOK
<1>2. Sending(buffer[p]) \in ThreadStates /\ Do(t, Sending(buffer[p])) /\ UNCHANGED <<rows, registry>>
    BY <1>1, SendingType DEF Flush
<1>3. buffer'[p] = Nothing /\ \A q \in Processes \ {p} : buffer'[q] = buffer[q]
    BY DEF Flush, TInv, TypeOK
<1>4. ASSUME NEW o \in Scopes
      PROVE  Carried(Sending(buffer[p]), o) + buffer'[p][o] = Carried(thread[t], o) + buffer[p][o]
  <2>1. Carried(Sending(buffer[p]), o) = buffer[p][o] /\ Carried(thread[t], o) = 0 /\ buffer'[p][o] = 0
    BY <1>1, <1>3, SendingCarries, CarriedFacts, NothingType
  <2>2. buffer[p][o] \in Nat
    BY <1>1 DEF Counts
  <2>3. QED
    BY <2>1, <2>2
<1>5. QED
    BY <1>2, <1>3, <1>4, QuietCounts

LEMMA DocumentCounts ==
    ASSUME TInv, TInv', NEW p \in Processes, NEW t \in Own(p), Document(t), NEW s \in Scopes
    PROVE  Balanced(s)
<1>1. PICK o \in Scopes :
         /\ thread[t].pending[o] > 0
         /\ CreateDoc(o)
         /\ Do(t, [pc |-> "increment", pending |-> thread[t].pending, scope |-> o])
    BY DEF Document
<1> DEFINE state == [pc |-> "increment", pending |-> thread[t].pending, scope |-> o]
<1>2. t \in Threads /\ thread[t] \in ThreadStates /\ thread[t].pc = "document"
    BY ThreadFacts DEF Document, TInv, TypeOK
<1>3. state \in ThreadStates
    BY <1>2, ThreadStateFacts DEF TInv, ThreadStates
<1>4. thread'[t] = state /\ \A u \in Threads \ {t} : thread'[u] = thread[u]
    BY <1>1, <1>3, DoFacts DEF TInv
<1>5. Carried(state, s) = Carried(thread[t], s)
  <2>1. Carried(thread[t], s) = thread[t].pending[s]
    BY <1>2, CarriedFacts
  <2>2. Carried(state, s) = thread[t].pending[s]
    BY <1>3, CarriedFacts
  <2>3. QED
    BY <2>1, <2>2
<1>6. InMemory(s)' = InMemory(s)
  <2>1. Carried(thread[t], s) \in Nat /\ buffer[p][s] \in Nat /\ InMemory(s) \in Nat /\ InMemory(s)' \in Nat
    BY <1>2, CarriedFacts, MemoryType, MemoryTypeNext DEF TInv
  <2>2. UNCHANGED buffer
    BY DEF Document
  <2>3. InMemory(s)' + Carried(thread[t], s) + buffer[p][s]
           = InMemory(s) + Carried(thread'[t], s) + buffer'[p][s]
    BY <1>2, <1>4, <2>2, MemoryMoves DEF TInv
  <2>4. QED
    BY <1>4, <1>5, <2>1, <2>2, <2>3
<1>7. NRows(s)' = NRows(s)
    BY <1>1, CreateDocFacts DEF TInv
<1>8. RowsOf(s)' = RowsOf(s)
    BY DEF Document, RowsOf
<1>9. registry'[s] # NoDoc => registry[s] # NoDoc \/ InMemory(s) > 0
  <2>1. CASE s = o
    <3>1. Carried(thread[t], s) > 0
      BY <1>1, <1>2, <2>1, CarriedFacts
    <3>2. Carried(thread[t], s) <= InMemory(s) /\ Carried(thread[t], s) \in Nat /\ InMemory(s) \in Nat
      BY <1>2, CarriedFacts, CarriedInMemory, MemoryType DEF TInv
    <3>3. QED
      BY <3>1, <3>2
  <2>2. CASE s # o
    BY <1>1, <2>2 DEF CreateDoc, TInv, TypeOK
  <2>3. QED
    BY <2>1, <2>2
<1>10. QED
    BY <1>6, <1>7, <1>8, <1>9 DEF Balanced, Comes

LEMMA IncrementCounts ==
    ASSUME TInv, TInv', NEW p \in Processes, NEW t \in Own(p), Increment(t), NEW s \in Scopes
    PROVE  Balanced(s)
<1> DEFINE batch == thread[t].pending
           left == [batch EXCEPT ![thread[t].scope] = 0]
<1>1. t \in Threads /\ thread[t] \in ThreadStates /\ thread[t].pc = "increment"
    BY ThreadFacts DEF Increment, TInv, TypeOK
<1>2. thread[t].scope \in Scopes /\ batch \in Counts /\ left \in Counts /\ Sent(t)
    BY <1>1, SentFacts DEF Increment
<1>3. Sending(left) \in ThreadStates /\ Do(t, Sending(left)) /\ UNCHANGED <<rows, buffer>>
    BY <1>2, SendingType DEF Increment
<1>4. thread'[t] = Sending(left) /\ \A u \in Threads \ {t} : thread'[u] = thread[u]
    BY <1>3, DoFacts DEF TInv
<1>5. Carried(thread'[t], s) = left[s] /\ Carried(thread[t], s) = batch[s]
  <2>1. Carried(thread[t], s) = batch[s]
    BY <1>1, CarriedFacts
  <2> HIDE DEF left
  <2>2. QED
    BY <1>2, <1>4, <2>1, SendingCarries
<1>6. left[s] \in Nat /\ batch[s] \in Nat /\ buffer[p][s] \in Nat /\ InMemory(s) \in Nat
      /\ InMemory(s)' \in Nat /\ NRows(s) \in Nat /\ NRows(s)' \in Nat
    BY <1>2, MemoryType, MemoryTypeNext DEF TInv, Counts
<1>7. InMemory(s)' + batch[s] + buffer[p][s] = InMemory(s) + left[s] + buffer[p][s]
    BY <1>1, <1>3, <1>4, <1>5, MemoryMoves DEF TInv
<1>8. RowsOf(s)' = RowsOf(s)
    BY <1>3 DEF RowsOf
<1>9. NRows(s)' + InMemory(s)' = NRows(s) + InMemory(s)
  <2>1. CASE s = thread[t].scope
    <3>1. NRows(s)' = NRows(s) + batch[s]
      BY <1>1, <1>2, <2>1, SentFacts
    <3>2. left[s] = 0
      BY <1>2, <2>1 DEF Counts
    <3> HIDE DEF batch, left
    <3>3. QED
      BY <1>6, <1>7, <3>1, <3>2
  <2>2. CASE s # thread[t].scope
    <3>1. registry'[s] = registry[s]
      BY <1>1, <1>2, <2>2, SentFacts
    <3>2. NRows(s)' = NRows(s)
      BY <3>1 DEF NRows
    <3>3. left[s] = batch[s]
      BY <1>2, <2>2 DEF Counts
    <3> HIDE DEF batch, left
    <3>4. QED
      BY <1>6, <1>7, <3>2, <3>3
  <2>3. QED
    BY <2>1, <2>2
<1>10. registry'[s] # NoDoc => registry[s] # NoDoc
    BY <1>1, <1>2, SentFacts, AbsenceAssumption
<1>11. QED
    BY <1>8, <1>9, <1>10 DEF Balanced, Comes

LEMMA ExitCounts ==
    ASSUME TInv, TInv', NEW p \in Processes, Exit(p), UNCHANGED <<rows, registry, thread>>,
           NEW s \in Scopes
    PROVE  /\ Loses(s)
           /\ buffer[p] = Nothing => Balanced(s)
<1>1. NRows(s)' = NRows(s) /\ RowsOf(s)' = RowsOf(s) /\ Comes(s)
    BY DEF NRows, RowsOf, Comes
<1>2. \A q \in Processes : buffer'[q] = buffer[q] \/ buffer'[q] = Nothing
    BY ExitFacts
<1>3. InMemory(s)' <= InMemory(s)
    BY <1>2, MemoryDrops DEF TInv
<1>4. buffer[p] = Nothing => InMemory(s)' = InMemory(s)
  <2> HAVE buffer[p] = Nothing
  <2>1. \A q \in Processes : buffer'[q] = buffer[q]
    BY ExitFacts
  <2>2. InBuffers(s)' = InBuffers(s) /\ InThreads(s)' = InThreads(s)
    BY <2>1 DEF InBuffers, InThreads
  <2>3. QED
    BY <2>2 DEF InMemory
<1>5. InMemory(s) \in Nat /\ InMemory(s)' \in Nat /\ NRows(s) \in Nat /\ Cardinality(RowsOf(s)) \in Nat
    BY MemoryType, MemoryTypeNext DEF TInv
<1>6. QED
    BY <1>1, <1>3, <1>4, <1>5 DEF Loses, Balanced

(* The main thread, at rest, is about to flush.                             *)
LEMMA MainFlushCounts ==
    ASSUME TInv, TInv', NEW p \in Processes, thread[Main(p)] = Rest,
           Do(Main(p), [pc |-> "flush"]), UNCHANGED <<rows, registry, buffer>>, NEW s \in Scopes
    PROVE  Balanced(s)
<1>1. Main(p) \in Own(p) /\ [pc |-> "flush"] \in ThreadStates /\ Rest \in ThreadStates
    BY ThreadFacts DEF ThreadStates
<1>2. \A o \in Scopes : Carried([pc |-> "flush"], o) = 0 /\ Carried(Rest, o) = 0
    BY <1>1, CarriedFacts DEF Rest
<1>3. QED
    BY <1>1, <1>2, QuietCounts

LEMMA KillCounts ==
    ASSUME TInv, TInv', NEW p \in Processes, Kill(p), NEW s \in Scopes
    PROVE  Loses(s)
<1>1. NRows(s)' = NRows(s) /\ RowsOf(s)' = RowsOf(s) /\ Comes(s)
    BY KillFacts DEF NRows, RowsOf, Comes
<1>2. InMemory(s)' <= InMemory(s)
    BY KillFacts, MemoryDrops DEF TInv
<1>3. InMemory(s) \in Nat /\ InMemory(s)' \in Nat /\ NRows(s) \in Nat /\ Cardinality(RowsOf(s)) \in Nat
    BY MemoryType, MemoryTypeNext DEF TInv
<1>4. QED
    BY <1>1, <1>2, <1>3 DEF Loses

LEMMA RaiseCounts ==
    ASSUME TInv, TInv', NEW p \in Processes, NEW t \in Own(p), Raise(p, t), NEW s \in Scopes
    PROVE  Loses(s)
<1>1. t \in Threads /\ thread[t] \in ThreadStates
    BY ThreadFacts DEF TInv, TypeOK
<1>2. thread'[t] = Rest /\ \A u \in Threads \ {t} : thread'[u] = thread[u]
    BY RaiseFacts, DoFacts DEF TInv
<1>3. /\ \A q \in Processes \ {p} : buffer'[q] = buffer[q]
      /\ buffer'[p] = buffer[p] \/ buffer'[p] = Nothing
    BY RaiseFacts, ExitFacts
<1>4. InMemory(s) \in Nat /\ InMemory(s)' \in Nat /\ NRows(s) \in Nat /\ Cardinality(RowsOf(s)) \in Nat
      /\ NRows(s)' \in Nat /\ Cardinality(RowsOf(s)') \in Nat /\ Carried(thread[t], s) \in Nat
      /\ buffer[p][s] \in Nat
    BY <1>1, MemoryType, MemoryTypeNext, CarriedFacts DEF TInv
<1>5. InMemory(s)' + Carried(thread[t], s) <= InMemory(s)
  <2>1. InMemory(s)' + Carried(thread[t], s) + buffer[p][s]
           = InMemory(s) + Carried(thread'[t], s) + buffer'[p][s]
    BY <1>1, <1>2, <1>3, MemoryMoves DEF TInv
  <2>2. Carried(thread'[t], s) = 0
    BY <1>2 DEF Carried, Rest
  <2>3. buffer'[p][s] <= buffer[p][s] /\ buffer'[p][s] \in Nat
    BY <1>3, <1>4, NothingType
  <2>4. QED
    BY <1>4, <2>1, <2>2, <2>3
<1>6. CASE Unserved
  <2>1. NRows(s)' = NRows(s) /\ RowsOf(s)' = RowsOf(s) /\ Comes(s)
    BY <1>6 DEF Unserved, NRows, RowsOf, Comes
  <2>2. QED
    BY <1>4, <1>5, <2>1 DEF Loses
<1>7. CASE Served(t) /\ thread[t].pc = "create"
  <2>1. rows' = rows \cup {thread[t].row} /\ registry' = registry
    BY <1>7 DEF Served
  <2>2. thread[t].row \in Rows
    BY <1>1, <1>7, ThreadStateFacts DEF TInv
  <2>3. RowsOf(s) \subseteq RowsOf(s)' /\ Cardinality(RowsOf(s)) <= Cardinality(RowsOf(s)')
    BY <2>1, <2>2, RowsGrow DEF TInv
  <2>4. NRows(s)' = NRows(s) /\ Comes(s)
    BY <2>1, <2>3 DEF NRows, Comes
  <2>5. QED
    BY <1>4, <1>5, <2>3, <2>4 DEF Loses
<1>8. CASE Served(t) /\ thread[t].pc = "document"
  <2>1. PICK o \in Scopes : thread[t].pending[o] > 0 /\ CreateDoc(o)
    BY <1>8 DEF Served
  <2>2. NRows(s)' = NRows(s)
    BY <2>1, CreateDocFacts DEF TInv
  <2>3. RowsOf(s)' = RowsOf(s)
    BY <1>8 DEF Served, RowsOf
  <2>4. registry'[s] # NoDoc => registry[s] # NoDoc \/ InMemory(s) > 0
    <3>1. CASE s = o
      <4>1. Carried(thread[t], s) > 0
        BY <1>1, <1>8, <2>1, <3>1, CarriedFacts
      <4>2. QED
        BY <1>4, <1>5, <4>1
    <3>2. CASE s # o
      BY <2>1, <3>2 DEF CreateDoc, TInv, TypeOK
    <3>3. QED
      BY <3>1, <3>2
  <2>5. QED
    BY <1>4, <1>5, <2>2, <2>3, <2>4 DEF Loses, Comes
<1>9. CASE Served(t) /\ thread[t].pc = "increment"
  <2>1. Sent(t) /\ rows' = rows
    BY <1>9 DEF Served
  <2>2. NRows(s)' <= NRows(s) + Carried(thread[t], s)
    <3>1. CASE s = thread[t].scope
      <4>1. NRows(s)' = NRows(s) + thread[t].pending[s]
        BY <1>1, <1>9, <2>1, <3>1, SentFacts DEF TInv
      <4>2. Carried(thread[t], s) = thread[t].pending[s]
        BY <1>1, <1>9, CarriedFacts
      <4>3. QED
        BY <1>4, <4>1, <4>2
    <3>2. CASE s # thread[t].scope
      <4>1. registry'[s] = registry[s]
        BY <1>1, <1>9, <2>1, <3>2, SentFacts
      <4>2. NRows(s)' = NRows(s)
        BY <4>1 DEF NRows
      <4>3. QED
        BY <1>4, <4>2
    <3>3. QED
      BY <3>1, <3>2
  <2>3. RowsOf(s)' = RowsOf(s)
    BY <2>1 DEF RowsOf
  <2>4. registry'[s] # NoDoc => registry[s] # NoDoc
    BY <1>1, <1>9, <2>1, SentFacts, AbsenceAssumption
  <2>5. QED
    BY <1>4, <1>5, <2>2, <2>3, <2>4 DEF Loses, Comes
<1>10. QED
    BY <1>6, <1>7, <1>8, <1>9 DEF Raise, Served

(* A step that counts keeps what is announced of the scopes it does not     *)
(* purge.                                                                   *)
LEMMA LosesKeeps ==
    ASSUME TInv, TInv', NeverOvercounts, ListedInv, UNCHANGED halfPurged,
           \A s \in Scopes : Loses(s) \/ Balanced(s)
    PROVE  NeverOvercounts' /\ ListedInv'
<1> SUFFICES ASSUME NEW s \in Scopes \ halfPurged
             PROVE  /\ NRows(s)' + InMemory(s)' <= Cardinality(RowsOf(s)')
                    /\ registry'[s] # NoDoc => RowsOf(s)' # {}
    BY DEF NeverOvercounts, ListedInv
<1>1. /\ InMemory(s) \in Nat /\ InMemory(s)' \in Nat /\ NRows(s) \in Nat /\ NRows(s)' \in Nat
      /\ Cardinality(RowsOf(s)) \in Nat /\ Cardinality(RowsOf(s)') \in Nat
    BY MemoryType, MemoryTypeNext DEF TInv
<1>2. NRows(s) + InMemory(s) <= Cardinality(RowsOf(s))
    BY DEF NeverOvercounts
<1>3. /\ NRows(s)' + InMemory(s)' + Cardinality(RowsOf(s))
            <= NRows(s) + InMemory(s) + Cardinality(RowsOf(s)')
      /\ Comes(s)
    BY <1>1 DEF Loses, Balanced
<1>4. registry'[s] # NoDoc => RowsOf(s)' # {}
  <2>1. CASE registry[s] # NoDoc
    BY <1>3, <2>1 DEF ListedInv, Comes
  <2>2. CASE InMemory(s) > 0
    <3>1. RowsOf(s) # {}
      <4>1. Cardinality(RowsOf(s)) # 0
        BY <1>1, <1>2, <2>2
      <4>2. QED
        BY <4>1, FS_EmptySet
    <3>2. QED
      BY <1>3, <3>1 DEF Comes
  <2>3. QED
    BY <1>3, <2>1, <2>2 DEF Comes
<1>5. QED
    BY <1>1, <1>2, <1>3, <1>4

-------------------------------------------------------------------------------
(***************************************************************************)
(* Between two calls nothing is left in memory, a purge finds its rows gone *)
(* until their documents follow, and the registry never overcounts.         *)
(***************************************************************************)
LEMMA CountStep ==
    ASSUME TInv, TInv', CountInv, UNCHANGED halfPurged, NEW p \in Processes, Clean(p)', ~Between(p)',
           \A q \in Processes \ {p} : /\ call'[q] = call[q] /\ buffer'[q] = buffer[q]
                                      /\ thread'[Main(q)] = thread[Main(q)]
                                      /\ call[q].pc # "purge",
           \A s \in Scopes : Loses(s) \/ Balanced(s)
    PROVE  CountInv'
<1>1. BufferInv'
  <2> SUFFICES ASSUME NEW q \in Processes PROVE Clean(q)'
    BY DEF BufferInv
  <2>1. CASE q = p
    BY <2>1
  <2>2. CASE q # p
    BY <2>2 DEF CountInv, BufferInv, Clean, LastFlush
  <2>3. QED
    BY <2>1, <2>2
<1>2. PurgeInv'
  <2> SUFFICES ASSUME NEW q \in Processes, Between(q)' PROVE FALSE
    BY DEF PurgeInv
  <2>1. QED
    BY DEF Between
<1>3. NeverOvercounts' /\ ListedInv'
    BY LosesKeeps DEF CountInv
<1>4. QED
    BY <1>1, <1>2, <1>3 DEF CountInv

(* A thread at work moves, its call does not.                               *)
LEMMA BusyCount ==
    ASSUME TInv, TInv', CountInv, UNCHANGED <<call, halfPurged>>, NEW p \in Processes,
           NEW t \in Own(p), thread[t] # Rest, NEW state \in ThreadStates, Do(t, state),
           \A q \in Processes \ {p} : buffer'[q] = buffer[q],
           t = Main(p) => buffer'[p] = Nothing,
           \A s \in Scopes : Balanced(s)
    PROVE  CountInv'
<1>1. \A q \in Processes \ {p} : /\ thread'[Main(q)] = thread[Main(q)]
                                 /\ call[q].pc # "purge"
    BY DoFacts, Alone, Busy, ThreadFacts DEF TInv
<1>2. Clean(p)' /\ ~Between(p)'
    BY Busy DEF Clean, LastFlush, Between
<1>3. QED
    BY <1>1, <1>2, CountStep

(* The main thread sends what it took: the buffer stays empty.              *)
LEMMA MainSends ==
    ASSUME TInv, CountInv, NEW p \in Processes, thread[Main(p)] # Rest, thread[Main(p)].pc # "flush"
    PROVE  buffer[p] = Nothing
BY Busy, ThreadFacts DEF CountInv, BufferInv, Clean, LastFlush

LEMMA PutCount ==
    ASSUME TInv, TInv', CountInv, NEW p \in Processes, NEW t \in Workers(p), Create(p, t) \/ Register(p, t)
    PROVE  CountInv'
<1>1. t \in Own(p) /\ t # Main(p) /\ thread[t] # Rest
    BY Puts DEF Create, Register
<1>2. PICK state \in ThreadStates : Do(t, state)
  <2>1. CASE Create(p, t)
    BY <2>1, Puts, Idles DEF Create
  <2>2. CASE Register(p, t)
    BY <2>2, Puts, Idles DEF Register
  <2>3. QED
    BY <2>1, <2>2
<1>3. \A q \in Processes \ {p} : buffer'[q] = buffer[q]
    BY DEF Create, Register, TInv, TypeOK
<1>4. \A s \in Scopes : Balanced(s)
    BY CreateCounts, RegisterCounts
<1>5. UNCHANGED <<call, halfPurged>>
    BY DEF Create, Register
<1>6. QED
    BY <1>1, <1>2, <1>3, <1>4, <1>5, BusyCount

LEMMA SendCount ==
    ASSUME TInv, TInv', CountInv, NEW p \in Processes, NEW t \in Own(p),
           Flush(p, t) \/ Document(t) \/ Increment(t)
    PROVE  CountInv'
<1>0. t \in Threads
    BY ThreadFacts
<1>1. thread[t] # Rest
    BY DEF Flush, Document, Increment, Rest
<1>2. \E state \in ThreadStates : Do(t, state)
  <2>1. CASE Flush(p, t)
    BY <2>1, SendingType DEF Flush, TInv, TypeOK
  <2>2. CASE Document(t)
    <3>1. \A s \in Scopes : [pc |-> "increment", pending |-> thread[t].pending, scope |-> s] \in ThreadStates
      BY <1>0, <2>2, ThreadStateFacts DEF Document, TInv, ThreadStates
    <3>2. QED
      BY <2>2, <3>1 DEF Document
  <2>3. CASE Increment(t)
    BY <1>0, <2>3, SentFacts, SendingType DEF Increment
  <2>4. QED
    BY <2>1, <2>2, <2>3
<1>3. \A q \in Processes \ {p} : buffer'[q] = buffer[q]
    BY DEF Flush, Document, Increment, TInv, TypeOK
<1>4. t = Main(p) => buffer'[p] = Nothing
  <2>1. CASE Flush(p, t)
    BY <2>1 DEF Flush, TInv, TypeOK
  <2>2. CASE Document(t) \/ Increment(t)
    BY <1>1, <2>2, MainSends DEF Document, Increment
  <2>3. QED
    BY <2>1, <2>2
<1>5. \A s \in Scopes : Balanced(s)
    BY FlushCounts, DocumentCounts, IncrementCounts
<1>6. UNCHANGED <<call, halfPurged>>
    BY DEF Flush, Document, Increment
<1>7. QED
    BY <1>1, <1>2, <1>3, <1>4, <1>5, <1>6, BusyCount

LEMMA StartCount ==
    ASSUME TInv, TInv', CountInv, NEW p \in Processes, Launch(p) \/ \E t \in Workers(p) : Take(p, t)
    PROVE  CountInv'
<1>1. CASE Launch(p)
  <2>1. Clean(p)' /\ ~Between(p)'
    BY <1>1, LaunchMoves DEF Clean, LastFlush, Between
  <2>2. \A s \in Scopes : Balanced(s)
    BY <1>1, LaunchCounts
  <2>3. QED
    BY <1>1, <2>1, <2>2, LaunchMoves, CountStep DEF Launch
<1>2. ASSUME NEW t \in Workers(p), Take(p, t) PROVE CountInv'
  <2>1. Clean(p)' /\ ~Between(p)'
    BY <1>2, TakeMoves DEF Clean, LastFlush, Between
  <2>2. \A s \in Scopes : Balanced(s)
    BY <1>2, TakeCounts
  <2>3. \A q \in Processes \ {p} : Main(q) \in Threads /\ Main(q) # t
    BY <1>2, TakeMoves, ThreadFacts
  <2>4. \A q \in Processes \ {p} : call[q].pc # "purge"
    BY <1>2, TakeMoves, Alone
  <2>5. UNCHANGED <<buffer, halfPurged>>
    BY <1>2 DEF Take
  <2>6. \A q \in Processes \ {p} : call'[q] = call[q] /\ thread'[Main(q)] = thread[Main(q)]
    BY <1>2, <2>3, TakeMoves
  <2>7. QED
    BY <2>1, <2>2, <2>4, <2>5, <2>6, CountStep
<1>3. QED
    BY <1>1, <1>2

LEMMA ExitCount ==
    ASSUME TInv, TInv', CountInv, NEW p \in Processes, Exit(p), call[p].pc # "off",
           UNCHANGED <<rows, registry, thread, halfPurged>>, buffer'[p] = Nothing
    PROVE  CountInv'
<1>1. Clean(p)' /\ ~Between(p)'
    BY ExitFacts DEF Clean, Between, Off
<1>2. \A s \in Scopes : Loses(s)
    BY ExitCounts
<1>3. QED
    BY <1>1, <1>2, ExitFacts, Alone, CountStep

LEMMA FinishCount ==
    ASSUME ServicesFlush, TInv, TInv', CountInv, NEW p \in Processes, Finish(p)
    PROVE  CountInv'
<1>1. CASE FlushesAtEnd(call[p])
  <2>1. Clean(p)' /\ ~Between(p)'
    BY <1>1, FinishMoves DEF Clean, LastFlush, Between
  <2>2. \A s \in Scopes : Balanced(s)
    BY <1>1, FinishMoves, MainFlushCounts DEF Finish
  <2>3. \A q \in Processes \ {p} : thread'[Main(q)] = thread[Main(q)]
    BY FinishMoves, ThreadFacts
  <2>4. QED
    BY <2>1, <2>2, <2>3, FinishMoves, Alone, CountStep
<1>2. CASE ~FlushesAtEnd(call[p])
  <2>1. call[p].kind \in Calls[p] /\ call[p].kind \in Kinds
    BY FinishMoves, CallFacts DEF TInv, ControlInv, Control
  <2>2. p \notin Services
    BY <1>2, <2>1, CallsAssumption DEF FlushesAtEnd, ServicesFlush, Kinds
  <2>3. buffer'[p] = Nothing
    BY <1>2, <2>2, FinishMoves, ExitFacts
  <2>4. QED
    BY <1>2, <2>3, FinishMoves, ExitCount
<1>3. QED
    BY <1>1, <1>2

(* End, and a purge that is over: the buffer was empty.                     *)
LEMMA OverCount ==
    ASSUME TInv, TInv', CountInv, NEW p \in Processes, End(p) \/ PurgeEnd(p)
    PROVE  CountInv'
<1>1. buffer[p] = Nothing /\ Exit(p) /\ call[p].pc # "off"
      /\ UNCHANGED <<rows, registry, thread, halfPurged>>
    BY DEF End, PurgeEnd, CountInv, BufferInv, Clean, LastFlush, Rest
<1>2. buffer'[p] = Nothing
    BY <1>1, ExitFacts
<1>3. QED
    BY <1>1, <1>2, ExitCount

LEMMA PurgeCount ==
    ASSUME TInv, TInv', CountInv, NEW p \in Processes, Purge(p)
    PROVE  CountInv'
<1>1. Clean(p)' /\ ~Between(p)'
  <2>1. buffer[p] = Nothing
    BY PurgeMoves DEF CountInv, BufferInv, Clean, Off
  <2>2. buffer'[p] = Nothing
    BY <2>1 DEF Purge
  <2>3. QED
    BY <2>2, PurgeMoves DEF Clean, Between
<1>2. \A s \in Scopes : Balanced(s)
    BY PurgeMoves, MainFlushCounts DEF Purge
<1>3. \A q \in Processes \ {p} : thread'[Main(q)] = thread[Main(q)]
  <2>1. \A u \in Threads \ {Main(p)} : thread'[u] = thread[u]
    BY PurgeMoves
  <2>2. \A q \in Processes \ {p} : Main(q) \in Threads \ {Main(p)}
    BY ThreadFacts DEF Main
  <2>3. QED
    BY <2>1, <2>2
<1>4. UNCHANGED <<buffer, halfPurged>>
    BY DEF Purge
<1>5. \A q \in Processes \ {p} : call'[q] = call[q] /\ call[q].pc # "purge"
    BY PurgeMoves DEF Off
<1>6. QED
    BY <1>1, <1>2, <1>3, <1>4, <1>5, CountStep

(* A purge that deletes: all buffers are empty.                             *)
LEMMA PurgeEmpty ==
    ASSUME TInv, CountInv, NEW p \in Processes, call[p].pc = "purge", thread[Main(p)] = Rest
    PROVE  /\ \A q \in Processes : buffer[q] = Nothing
           /\ \A s \in Scopes : InMemory(s) = 0
<1>1. \A q \in Processes : buffer[q] = Nothing
    BY PurgeAlone DEF CountInv, BufferInv, Clean, Off
<1>2. QED
    BY <1>1, PurgeAlone, MemoryEmpty DEF TInv

(* A purge that deletes rows is the only call under way.                    *)
LEMMA PurgeRowsAlone ==
    ASSUME TInv, NEW p \in Processes, NEW t, PurgeRows(p, t)
    PROVE  \A q \in Processes \ {p} : call'[q] = Off /\ call[q] = Off
<1>1. call[p].pc = "purge" /\ thread[Main(p)] = Rest
    BY DEF PurgeRows
<1>2. \A q \in Processes \ {p} : call[q] = Off
    BY <1>1, PurgeAlone
<1>3. \A q \in Processes \ {p} : call'[q] = call[q]
    BY PurgeRowsFacts
<1>4. QED
    BY <1>2, <1>3

LEMMA PurgeRowsCount ==
    ASSUME TInv, TInv', CountInv, NEW p \in Processes, NEW t, PurgeRows(p, t)
    PROVE  CountInv'
<1> DEFINE gone == Matching(t, call[p].filters)
<1>1. /\ rows' = {r \in rows : r.scope \notin gone} /\ halfPurged' = halfPurged \cup gone
      /\ UNCHANGED <<registry, buffer, thread>>
    BY DEF PurgeRows
<1>2. \A q \in Processes \ {p} : call'[q] = Off
    BY PurgeRowsAlone
<1>3. BufferInv'
    BY <1>1, PurgeRowsFacts, PurgeEmpty DEF BufferInv, Clean
<1>4. PurgeInv'
  <2> SUFFICES ASSUME NEW q \in Processes, Between(q)', NEW s \in Gone(q)' PROVE RowsOf(s)' = {}
    BY DEF PurgeInv
  <2>1. q = p
    BY <1>2 DEF Between, Off
  <2>2. s \in gone
    <3>1. s \in Matching(call'[p].step, call'[p].filters)
      BY <2>1 DEF Gone, Matching
    <3>2. QED
      BY <3>1, PurgeRowsFacts
  <2>3. QED
    BY <1>1, <2>2 DEF RowsOf
<1>5. ASSUME NEW s \in Scopes \ halfPurged'
      PROVE  s \notin halfPurged /\ RowsOf(s)' = RowsOf(s) /\ NRows(s)' = NRows(s) /\ InMemory(s)' = InMemory(s)
  <2>1. s \notin halfPurged /\ s \notin gone
    BY <1>1
  <2>2. RowsOf(s)' = RowsOf(s)
    BY <1>1, <2>1 DEF RowsOf
  <2>3. NRows(s)' = NRows(s) /\ InMemory(s)' = InMemory(s)
    BY <1>1 DEF NRows, InMemory, InBuffers, InThreads
  <2>4. QED
    BY <2>1, <2>2, <2>3
<1>6. NeverOvercounts'
  <2> SUFFICES ASSUME NEW s \in Scopes \ halfPurged'
               PROVE  NRows(s)' + InMemory(s)' <= Cardinality(RowsOf(s)')
    BY DEF NeverOvercounts
  <2>1. NRows(s) + InMemory(s) <= Cardinality(RowsOf(s))
    BY <1>5 DEF CountInv, NeverOvercounts
  <2>2. QED
    BY <1>5, <2>1
<1>7. ListedInv'
    BY <1>1, <1>5 DEF CountInv, ListedInv
<1>8. QED
    BY <1>3, <1>4, <1>6, <1>7 DEF CountInv

LEMMA PurgeRegistryCount ==
    ASSUME TInv, TInv', CountInv, NEW p \in Processes, NEW t \in TablesOf("all"), PurgeRegistry(p, t)
    PROVE  CountInv'
<1> DEFINE gone == Matching(t, call[p].filters)
<1>1. /\ registry' = [s \in Scopes |-> IF s \in gone THEN NoDoc ELSE registry[s]]
      /\ halfPurged' = halfPurged \ gone
      /\ UNCHANGED <<rows, buffer, thread>>
    BY DEF PurgeRegistry
<1>2. \A q \in Processes \ {p} : call'[q] = Off
    BY PurgeRegistryFacts, PurgeAlone
<1>3. \A s \in gone : RowsOf(s) = {}
    BY PurgeRegistryFacts DEF CountInv, PurgeInv
<1>4. BufferInv'
    BY <1>1, PurgeRegistryFacts, PurgeEmpty DEF BufferInv, Clean
<1>5. PurgeInv'
  <2> SUFFICES ASSUME NEW q \in Processes, Between(q)' PROVE FALSE
    BY DEF PurgeInv
  <2>1. call'[q].pc = "purge" /\ call'[q].step # "rows"
    BY DEF Between
  <2>2. CASE q = p
    BY <2>1, <2>2, PurgeRegistryFacts
  <2>3. CASE q # p
    BY <1>2, <2>1, <2>3 DEF Off
  <2>4. QED
    BY <2>2, <2>3
<1>6. ASSUME NEW s \in Scopes \ halfPurged'
      PROVE  /\ NRows(s)' + InMemory(s)' <= Cardinality(RowsOf(s)')
             /\ registry'[s] # NoDoc => RowsOf(s)' # {}
  <2>1. RowsOf(s)' = RowsOf(s) /\ InMemory(s)' = InMemory(s)
    BY <1>1 DEF RowsOf, InMemory, InBuffers, InThreads
  <2>2. CASE s \in gone
    <3>1. registry'[s] = NoDoc
      BY <1>1, <2>2
    <3>2. NRows(s)' = 0 /\ InMemory(s)' = 0
      BY <2>1, <3>1, PurgeRegistryFacts, PurgeEmpty DEF NRows
    <3>3. Cardinality(RowsOf(s)') \in Nat
      BY MemoryTypeNext DEF TInv
    <3>4. QED
      BY <3>1, <3>2, <3>3
  <2>3. CASE s \notin gone
    <3>1. s \in Scopes \ halfPurged /\ registry'[s] = registry[s]
      BY <1>1, <2>3
    <3>2. NRows(s)' = NRows(s)
      BY <3>1 DEF NRows
    <3>3. NRows(s) + InMemory(s) <= Cardinality(RowsOf(s))
      BY <3>1 DEF CountInv, NeverOvercounts
    <3>4. registry[s] # NoDoc => RowsOf(s) # {}
      BY <3>1 DEF CountInv, ListedInv
    <3>5. QED
      BY <2>1, <3>1, <3>2, <3>3, <3>4
  <2>4. QED
    BY <2>2, <2>3
<1>7. QED
    BY <1>4, <1>5, <1>6 DEF CountInv, NeverOvercounts, ListedInv

(* A purge that raises: the scopes it leaves unmarked have their rows and   *)
(* their document, or neither.                                              *)
LEMMA PurgeRaisesCount ==
    ASSUME TInv, TInv', CountInv, NEW p \in Processes, PurgeRaises(p)
    PROVE  CountInv'
<1>1. /\ call[p].pc = "purge" /\ thread[Main(p)] = Rest /\ Exit(p) /\ UNCHANGED thread
    BY PurgeRaisesFacts
<1>2. /\ \A q \in Processes : call'[q] = Off /\ buffer'[q] = Nothing /\ buffer[q] = Nothing
      /\ \A s \in Scopes : InMemory(s) = 0
    BY <1>1, PurgeAlone, PurgeEmpty, ExitFacts
<1>3. BufferInv' /\ PurgeInv'
    BY <1>2 DEF BufferInv, Clean, PurgeInv, Between, Off
<1>4. \A s \in Scopes : InMemory(s)' = 0
  <2> TAKE s \in Scopes
  <2>1. InBuffers(s)' = InBuffers(s) /\ InThreads(s)' = InThreads(s)
    BY <1>1, <1>2 DEF InBuffers, InThreads
  <2>2. QED
    BY <1>2, <2>1 DEF InMemory
<1>5. ASSUME NEW s \in Scopes \ halfPurged'
      PROVE  /\ NRows(s)' <= Cardinality(RowsOf(s)')
             /\ registry'[s] # NoDoc => RowsOf(s)' # {}
  <2>0. Cardinality(RowsOf(s)') \in Nat
    BY MemoryTypeNext DEF TInv
  <2>1. CASE registry'[s] = NoDoc
    BY <2>0, <2>1 DEF NRows
  <2>2. CASE registry'[s] # NoDoc
    <3>1. s \notin halfPurged /\ registry'[s] = registry[s] /\ RowsOf(s)' = RowsOf(s)
      BY <2>2, PurgeRaisesFacts DEF RowsOf
    <3>2. NRows(s) + InMemory(s) <= Cardinality(RowsOf(s)) /\ InMemory(s) = 0
      BY <1>2, <3>1 DEF CountInv, NeverOvercounts
    <3>3. NRows(s) \in Nat /\ NRows(s)' = NRows(s)
      BY <3>1, MemoryType DEF TInv, NRows
    <3>4. registry[s] # NoDoc => RowsOf(s) # {}
      BY <3>1 DEF CountInv, ListedInv
    <3>5. QED
      BY <3>1, <3>2, <3>3, <3>4
  <2>3. QED
    BY <2>1, <2>2
<1>6. NeverOvercounts'
  <2> SUFFICES ASSUME NEW s \in Scopes \ halfPurged'
               PROVE  NRows(s)' + InMemory(s)' <= Cardinality(RowsOf(s)')
    BY DEF NeverOvercounts
  <2>1. NRows(s)' \in Nat /\ InMemory(s)' = 0 /\ NRows(s)' <= Cardinality(RowsOf(s)')
    BY <1>4, <1>5, MemoryTypeNext DEF TInv
  <2>2. QED
    BY <2>1
<1>7. ListedInv'
    BY <1>5 DEF ListedInv
<1>8. QED
    BY <1>3, <1>6, <1>7 DEF CountInv

LEMMA FailureCount ==
    ASSUME TInv, TInv', CountInv, NEW p \in Processes, Kill(p) \/ \E t \in Own(p) : Raise(p, t)
    PROVE  CountInv'
<1>1. CASE Kill(p)
  <2>1. Clean(p)' /\ ~Between(p)'
    BY <1>1, KillFacts DEF Clean, Between, Off
  <2>2. \A s \in Scopes : Loses(s)
    BY <1>1, KillCounts
  <2>3. \A q \in Processes \ {p} : thread'[Main(q)] = thread[Main(q)]
    BY <1>1, KillFacts, ThreadFacts
  <2>4. call[p].pc # "off"
    BY <1>1 DEF Kill
  <2>5. QED
    BY <1>1, <2>1, <2>2, <2>3, <2>4, KillFacts, Alone, CountStep
<1>2. ASSUME NEW t \in Own(p), Raise(p, t) PROVE CountInv'
  <2>1. call[p].pc # "off" /\ \A q \in Processes \ {p} : call[q].pc # "purge"
    BY <1>2, RaiseFacts, Busy, Alone
  <2>2. \A s \in Scopes : Loses(s)
    BY <1>2, RaiseCounts
  <2>3. \A q \in Processes \ {p} : /\ call'[q] = call[q] /\ buffer'[q] = buffer[q]
                                   /\ thread'[Main(q)] = thread[Main(q)]
    BY <1>2, RaiseFacts, ExitFacts, DoFacts, ThreadFacts DEF TInv
  <2>4. Clean(p)' /\ ~Between(p)'
    <3>1. CASE t = Main(p)
      <4>1. Exit(p) /\ call'[p] = Off
        BY <1>2, <3>1, RaiseFacts
      <4>2. buffer'[p] = Nothing
        <5>1. CASE thread[t].pc = "flush"
          <6>1. p \notin Services
            BY <1>2, <5>1 DEF Raise, Request
          <6>2. QED
            BY <4>1, <6>1, ExitFacts
        <5>2. CASE thread[t].pc # "flush"
          BY <1>2, <3>1, <4>1, <5>2, RaiseFacts, MainSends, ExitFacts
        <5>3. QED
          BY <5>1, <5>2
      <4>3. QED
        BY <4>1, <4>2 DEF Clean, Between, Off
    <3>2. CASE t # Main(p)
      BY <1>2, <3>2, RaiseFacts DEF Clean, LastFlush, Between
    <3>3. QED
      BY <3>1, <3>2
  <2>5. UNCHANGED halfPurged
    BY <1>2, RaiseFacts
  <2>6. QED
    BY <2>1, <2>2, <2>3, <2>4, <2>5, CountStep
<1>3. QED
    BY <1>1, <1>2

LEMMA InitCount == ASSUME Init PROVE CountInv
<1>1. TypeOK
    BY InitTInv DEF TInv
<1>2. \A s \in Scopes : InMemory(s) = 0 /\ NRows(s) = 0 /\ RowsOf(s) = {}
    BY <1>1, MemoryEmpty DEF Init, NRows, RowsOf
<1>3. NeverOvercounts /\ ListedInv
    BY <1>2, FS_EmptySet DEF NeverOvercounts, ListedInv, Init
<1>4. BufferInv /\ PurgeInv
    BY DEF Init, BufferInv, Clean, PurgeInv, Between, Off
<1>5. QED
    BY <1>3, <1>4 DEF CountInv

LEMMA NextCount ==
    ASSUME ServicesFlush, TInv, TInv', CountInv, [Next]_vars
    PROVE  CountInv'
<1>1. CASE Next
    BY <1>1, Steps, StartCount, PutCount, SendCount, FinishCount, OverCount, PurgeCount,
       PurgeRowsCount, PurgeRegistryCount, PurgeRaisesCount, FailureCount
<1>2. CASE UNCHANGED vars
  <2>1. BufferInv' /\ PurgeInv'
    BY <1>2 DEF vars, CountInv, BufferInv, Clean, LastFlush, PurgeInv, Between, Gone, Matching, RowsOf
  <2>2. \A s \in Scopes : InMemory(s)' = InMemory(s) /\ NRows(s)' = NRows(s) /\ RowsOf(s)' = RowsOf(s)
    BY <1>2 DEF vars, InMemory, InBuffers, InThreads, NRows, RowsOf
  <2>3. UNCHANGED <<halfPurged, registry>>
    BY <1>2 DEF vars
  <2>4. NeverOvercounts' /\ ListedInv'
    BY <2>2, <2>3 DEF CountInv, NeverOvercounts, ListedInv
  <2>5. QED
    BY <2>1, <2>4 DEF CountInv
<1>3. QED
    BY <1>1, <1>2

(* put_*, flush_registry: the registry never announces more rows than there *)
(* are, whatever two processes do with the same question, whatever request  *)
(* is lost or answered by an error, if the calls of the services flush.     *)
THEOREM RegistryNeverOvercounts ==
    ASSUME ServicesFlush
    PROVE  Spec => []NeverOvercounts
<1>1. Init => TInv /\ CountInv
    BY InitTInv, InitCount
<1>2. TInv /\ CountInv /\ [Next]_vars => (TInv /\ CountInv)'
    BY NextTInv, NextCount
<1>3. TInv /\ CountInv => NeverOvercounts
    BY DEF CountInv
<1>4. QED
    BY <1>1, <1>2, <1>3, PTL DEF Spec

-------------------------------------------------------------------------------
(***************************************************************************)
(* Without a failure nothing is lost.                                       *)
(***************************************************************************)
LEMMA EveryCallFlushesServices == EveryCallFlushes => ServicesFlush
BY DEF EveryCallFlushes, ServicesFlush

LEMMA ExactStep ==
    ASSUME TInv, TInv', ExactInv, UNCHANGED <<halfPurged, failures>>,
           \A s \in Scopes : Balanced(s),
           \A q \in Processes : \/ call'[q] = call[q]
                                \/ call'[q].pc # "run"
                                \/ ~call'[q].failed
                                \/ call[q].pc = "run" /\ call[q].failed,
           \A q \in Processes : Between(q) => call'[q] = call[q]
    PROVE  ExactInv'
<1> SUFFICES ASSUME failures' = 0
             PROVE  /\ \A p \in Processes : call'[p].pc = "run" => ~call'[p].failed
                    /\ \A s \in halfPurged' : \E p \in Processes : Between(p)' /\ s \in Gone(p)'
                    /\ \A s \in Scopes \ halfPurged' :
                          NRows(s)' + InMemory(s)' = Cardinality(RowsOf(s)')
    BY DEF ExactInv
<1>0. failures = 0
    OBVIOUS
<1>1. \A p \in Processes : call'[p].pc = "run" => ~call'[p].failed
    BY <1>0 DEF ExactInv
<1>2. ASSUME NEW s \in halfPurged' PROVE \E p \in Processes : Between(p)' /\ s \in Gone(p)'
  <2>1. PICK p \in Processes : Between(p) /\ s \in Gone(p)
    BY <1>0, <1>2 DEF ExactInv
  <2>2. Between(p)' /\ Gone(p)' = Gone(p)
    BY <2>1 DEF Between, Gone, Matching
  <2>3. QED
    BY <2>1, <2>2
<1>3. ASSUME NEW s \in Scopes \ halfPurged'
      PROVE  NRows(s)' + InMemory(s)' = Cardinality(RowsOf(s)')
  <2>1. NRows(s) + InMemory(s) = Cardinality(RowsOf(s))
    BY <1>0 DEF ExactInv
  <2>2. NRows(s)' + InMemory(s)' + Cardinality(RowsOf(s))
           = NRows(s) + InMemory(s) + Cardinality(RowsOf(s)')
    BY DEF Balanced
  <2>3. /\ InMemory(s) \in Nat /\ InMemory(s)' \in Nat /\ NRows(s) \in Nat /\ NRows(s)' \in Nat
        /\ Cardinality(RowsOf(s)) \in Nat /\ Cardinality(RowsOf(s)') \in Nat
    BY MemoryType, MemoryTypeNext DEF TInv
  <2>4. QED
    BY <2>1, <2>2, <2>3
<1>4. QED
    BY <1>1, <1>2, <1>3

LEMMA WorkExact ==
    ASSUME TInv, TInv', ExactInv, NEW p \in Processes,
           \/ Launch(p)
           \/ \E t \in Workers(p) : Take(p, t) \/ Create(p, t) \/ Register(p, t)
           \/ \E t \in Own(p) : Flush(p, t) \/ Document(t) \/ Increment(t)
    PROVE  ExactInv'
<1>1. CASE Launch(p)
  <2>1. \A s \in Scopes : Balanced(s)
    BY <1>1, LaunchCounts
  <2>2. \A q \in Processes : call'[q] = call[q] \/ ~call'[q].failed
    BY <1>1, LaunchMoves
  <2>3. \A q \in Processes : ~Between(q)
    BY <1>1, LaunchMoves DEF Between
  <2>4. QED
    BY <1>1, <2>1, <2>2, <2>3, ExactStep DEF Launch
<1>2. ASSUME NEW t \in Workers(p), Take(p, t) PROVE ExactInv'
  <2>1. \A s \in Scopes : Balanced(s)
    BY <1>2, TakeCounts
  <2>2. \A q \in Processes : \/ call'[q] = call[q]
                             \/ call[q].pc = "run" /\ (call'[q].failed => call[q].failed)
    BY <1>2, TakeMoves
  <2>3. \A q \in Processes : Between(q) => call'[q] = call[q]
    BY <1>2, TakeMoves DEF Between
  <2>4. UNCHANGED <<halfPurged, failures>>
    BY <1>2 DEF Take
  <2>5. QED
    BY <2>1, <2>2, <2>3, <2>4, ExactStep
<1>3. ASSUME NEW t \in Workers(p), Create(p, t) \/ Register(p, t) PROVE ExactInv'
  <2>1. \A s \in Scopes : Balanced(s)
    BY <1>3, CreateCounts, RegisterCounts
  <2>2. UNCHANGED <<call, halfPurged, failures>>
    BY <1>3 DEF Create, Register
  <2>3. QED
    BY <2>1, <2>2, ExactStep
<1>4. ASSUME NEW t \in Own(p), Flush(p, t) \/ Document(t) \/ Increment(t) PROVE ExactInv'
  <2>1. \A s \in Scopes : Balanced(s)
    BY <1>4, FlushCounts, DocumentCounts, IncrementCounts
  <2>2. UNCHANGED <<call, halfPurged, failures>>
    BY <1>4 DEF Flush, Document, Increment
  <2>3. QED
    BY <2>1, <2>2, ExactStep
<1>5. QED
    BY <1>1, <1>2, <1>3, <1>4

LEMMA OverExact ==
    ASSUME EveryCallFlushes, TInv, TInv', CountInv, ExactInv, NEW p \in Processes,
           Finish(p) \/ End(p) \/ Purge(p) \/ PurgeEnd(p)
    PROVE  ExactInv'
<1>1. CASE Finish(p)
  <2>1. CASE FlushesAtEnd(call[p])
    <3>1. \A s \in Scopes : Balanced(s)
      BY <1>1, <2>1, FinishMoves, MainFlushCounts DEF Finish
    <3>2. \A q \in Processes : /\ call'[q] = call[q] \/ call'[q].pc # "run"
                               /\ Between(q) => call'[q] = call[q]
      BY <1>1, <2>1, FinishMoves DEF Between
    <3>3. UNCHANGED <<halfPurged, failures>>
      BY <1>1, FinishMoves
    <3>4. QED
      BY <3>1, <3>2, <3>3, ExactStep
  <2>2. CASE ~FlushesAtEnd(call[p])
    <3>1. call[p].kind \in Calls[p] /\ call[p].kind \in Kinds /\ call[p].pc = "run"
      BY <1>1, FinishMoves, CallFacts DEF TInv, ControlInv, Control
    <3>2. call[p].failed
      BY <2>2, <3>1 DEF FlushesAtEnd, EveryCallFlushes, Kinds
    <3>3. failures # 0
      BY <3>1, <3>2 DEF ExactInv
    <3>4. failures' = failures
      BY <1>1, FinishMoves
    <3>5. QED
      BY <3>3, <3>4 DEF ExactInv
  <2>3. QED
    BY <2>1, <2>2
<1>2. CASE End(p) \/ PurgeEnd(p)
  <2>1. buffer[p] = Nothing /\ Exit(p) /\ UNCHANGED <<rows, registry, thread, halfPurged, failures>>
    BY <1>2 DEF End, PurgeEnd, CountInv, BufferInv, Clean, LastFlush, Rest
  <2>2. \A s \in Scopes : Balanced(s)
    BY <2>1, ExitCounts
  <2>3. ~Between(p)
    BY <1>2 DEF End, PurgeEnd, Between, TInv, ControlInv, Control
  <2>4. \A q \in Processes : /\ call'[q] = call[q] \/ call'[q].pc # "run"
                             /\ Between(q) => call'[q] = call[q]
    BY <2>1, <2>3, ExitFacts DEF Off
  <2>5. QED
    BY <2>1, <2>2, <2>4, ExactStep
<1>3. CASE Purge(p)
  <2>1. \A s \in Scopes : Balanced(s)
    BY <1>3, PurgeMoves, MainFlushCounts DEF Purge
  <2>2. \A q \in Processes : /\ call'[q] = call[q] \/ call'[q].pc # "run"
                             /\ ~Between(q)
    BY <1>3, PurgeMoves DEF Between, Off
  <2>3. UNCHANGED <<halfPurged, failures>>
    BY <1>3 DEF Purge
  <2>4. QED
    BY <2>1, <2>2, <2>3, ExactStep
<1>4. QED
    BY <1>1, <1>2, <1>3

LEMMA PurgeRowsExact ==
    ASSUME TInv, TInv', CountInv, ExactInv, NEW p \in Processes, NEW t \in TablesOf("all"), PurgeRows(p, t)
    PROVE  ExactInv'
<1> DEFINE gone == Matching(t, call[p].filters)
<1> SUFFICES ASSUME failures' = 0
             PROVE  /\ \A q \in Processes : call'[q].pc = "run" => ~call'[q].failed
                    /\ \A s \in halfPurged' : \E q \in Processes : Between(q)' /\ s \in Gone(q)'
                    /\ \A s \in Scopes \ halfPurged' :
                          NRows(s)' + InMemory(s)' = Cardinality(RowsOf(s)')
    BY DEF ExactInv
<1>1. /\ rows' = {r \in rows : r.scope \notin gone} /\ halfPurged' = halfPurged \cup gone
      /\ UNCHANGED <<registry, buffer, thread>> /\ failures = 0
    BY DEF PurgeRows
<1>2. \A q \in Processes \ {p} : call'[q] = Off /\ call[q] = Off
    BY PurgeRowsAlone
<1>3. ASSUME NEW q \in Processes PROVE call'[q].pc # "run"
  <2>1. CASE q = p
    BY <2>1, PurgeRowsFacts
  <2>2. CASE q # p
    BY <1>2, <2>2 DEF Off
  <2>3. QED
    BY <2>1, <2>2
<1>4. halfPurged = {}
  <2>1. ASSUME NEW q \in Processes PROVE ~Between(q)
    <3>1. CASE q = p
      BY <3>1, PurgeRowsFacts DEF Between
    <3>2. CASE q # p
      BY <1>2, <3>2 DEF Between, Off
    <3>3. QED
      BY <3>1, <3>2
  <2>2. QED
    BY <1>1, <2>1 DEF ExactInv
<1>5. Between(p)' /\ Gone(p)' = gone
  <2>1. Gone(p)' = Matching(call'[p].step, call'[p].filters)
    BY DEF Gone, Matching
  <2>2. QED
    BY <2>1, PurgeRowsFacts DEF Between
<1>6. ASSUME NEW s \in Scopes \ halfPurged'
      PROVE  NRows(s)' + InMemory(s)' = Cardinality(RowsOf(s)')
  <2>1. s \notin halfPurged /\ s \notin gone
    BY <1>1
  <2>2. RowsOf(s)' = RowsOf(s)
    BY <1>1, <2>1 DEF RowsOf
  <2>3. NRows(s)' = NRows(s) /\ InMemory(s)' = InMemory(s)
    BY <1>1 DEF NRows, InMemory, InBuffers, InThreads
  <2>4. NRows(s) + InMemory(s) = Cardinality(RowsOf(s))
    BY <1>1, <2>1 DEF ExactInv
  <2>5. QED
    BY <2>2, <2>3, <2>4
<1>7. QED
    BY <1>1, <1>3, <1>4, <1>5, <1>6

LEMMA PurgeRegistryExact ==
    ASSUME TInv, TInv', CountInv, ExactInv, NEW p \in Processes, NEW t \in TablesOf("all"),
           PurgeRegistry(p, t)
    PROVE  ExactInv'
<1> DEFINE gone == Matching(t, call[p].filters)
<1> SUFFICES ASSUME failures' = 0
             PROVE  /\ \A q \in Processes : call'[q].pc = "run" => ~call'[q].failed
                    /\ \A s \in halfPurged' : \E q \in Processes : Between(q)' /\ s \in Gone(q)'
                    /\ \A s \in Scopes \ halfPurged' :
                          NRows(s)' + InMemory(s)' = Cardinality(RowsOf(s)')
    BY DEF ExactInv
<1>1. /\ registry' = [s \in Scopes |-> IF s \in gone THEN NoDoc ELSE registry[s]]
      /\ halfPurged' = halfPurged \ gone
      /\ UNCHANGED <<rows, buffer, thread>> /\ failures = 0
    BY DEF PurgeRegistry
<1>2. \A q \in Processes \ {p} : call'[q] = Off /\ call[q] = Off
    BY PurgeRegistryFacts, PurgeAlone
<1>3. ASSUME NEW q \in Processes PROVE call'[q].pc # "run"
  <2>1. CASE q = p
    BY <2>1, PurgeRegistryFacts
  <2>2. CASE q # p
    BY <1>2, <2>2 DEF Off
  <2>3. QED
    BY <2>1, <2>2
<1>4. halfPurged' = {}
  <2>1. ASSUME NEW s \in halfPurged PROVE s \in gone
    <3>1. PICK q \in Processes : Between(q) /\ s \in Gone(q)
      BY <1>1, <2>1 DEF ExactInv
    <3>2. q = p
      BY <1>2, <3>1 DEF Between, Off
    <3>3. QED
      BY <3>1, <3>2, PurgeRegistryFacts
  <2>2. QED
    BY <1>1, <2>1
<1>5. ASSUME NEW s \in Scopes PROVE NRows(s)' + InMemory(s)' = Cardinality(RowsOf(s)')
  <2>1. RowsOf(s)' = RowsOf(s) /\ InMemory(s)' = InMemory(s)
    BY <1>1 DEF RowsOf, InMemory, InBuffers, InThreads
  <2>2. CASE s \in gone
    <3>1. NRows(s)' = 0
      BY <1>1, <2>2 DEF NRows
    <3>2. InMemory(s) = 0
      BY PurgeRegistryFacts, PurgeEmpty
    <3>3. RowsOf(s) = {}
      BY <2>2, PurgeRegistryFacts DEF CountInv, PurgeInv
    <3>4. QED
      BY <2>1, <3>1, <3>2, <3>3, FS_EmptySet
  <2>3. CASE s \notin gone
    <3>1. s \notin halfPurged
      BY <1>1, <1>4, <2>3
    <3>2. NRows(s)' = NRows(s)
      BY <1>1, <2>3 DEF NRows
    <3>3. NRows(s) + InMemory(s) = Cardinality(RowsOf(s))
      BY <1>1, <3>1 DEF ExactInv
    <3>4. QED
      BY <2>1, <3>2, <3>3
  <2>4. QED
    BY <2>2, <2>3
<1>6. QED
    BY <1>3, <1>4, <1>5

LEMMA FailureExact ==
    ASSUME TInv, NEW p \in Processes, PurgeRaises(p) \/ Kill(p) \/ \E t \in Own(p) : Raise(p, t)
    PROVE  ExactInv'
<1>1. failures' = failures + 1
    BY DEF PurgeRaises, Kill, Raise, Fails
<1>2. failures' # 0
    BY <1>1 DEF TInv, TypeOK
<1>3. QED
    BY <1>2 DEF ExactInv

LEMMA InitExact == ASSUME Init PROVE ExactInv
<1>1. TypeOK
    BY InitTInv DEF TInv
<1>2. \A s \in Scopes : InMemory(s) = 0 /\ NRows(s) = 0 /\ RowsOf(s) = {}
    BY <1>1, MemoryEmpty DEF Init, NRows, RowsOf
<1>3. QED
    BY <1>2, FS_EmptySet DEF Init, ExactInv, Off

LEMMA NextExact ==
    ASSUME EveryCallFlushes, TInv, TInv', CountInv, ExactInv, [Next]_vars
    PROVE  ExactInv'
<1>1. CASE Next
    BY <1>1, Steps, WorkExact, OverExact, PurgeRowsExact, PurgeRegistryExact, FailureExact
<1>2. CASE UNCHANGED vars
  <2>1. \A s \in Scopes : InMemory(s)' = InMemory(s) /\ NRows(s)' = NRows(s) /\ RowsOf(s)' = RowsOf(s)
    BY <1>2 DEF vars, InMemory, InBuffers, InThreads, NRows, RowsOf
  <2>2. \A q \in Processes : Between(q)' = Between(q) /\ Gone(q)' = Gone(q)
    BY <1>2 DEF vars, Between, Gone, Matching
  <2>3. UNCHANGED <<halfPurged, failures, call>>
    BY <1>2 DEF vars
  <2>4. QED
    BY <2>1, <2>2, <2>3 DEF ExactInv
<1>3. QED
    BY <1>1, <1>2

(* When nothing is in memory and nobody purges, the registry tells the rows.*)
LEMMA ExactAtRest ==
    ASSUME TInv, CountInv, ExactInv
    PROVE  NavigationExact
<1> SUFFICES ASSUME failures = 0, Idle, NEW s \in Scopes
             PROVE  registry[s] = IF RowsOf(s) = {} THEN NoDoc ELSE Cardinality(RowsOf(s))
    BY DEF NavigationExact
<1>1. \A q \in Processes : buffer[q] = Nothing /\ ~Between(q)
    BY DEF Idle, CountInv, BufferInv, Clean, Between
<1>2. \A t \in Threads : thread[t] = Rest
  <2> SUFFICES ASSUME NEW t \in Threads PROVE thread[t] = Rest
    OBVIOUS
  <2>1. PICK p \in Processes : t \in Own(p)
    BY ThreadFacts
  <2>2. QED
    BY <2>1, Busy DEF Idle
<1>3. InMemory(s) = 0 /\ s \notin halfPurged
    BY <1>1, <1>2, MemoryEmpty DEF TInv, ExactInv
<1>4. NRows(s) = Cardinality(RowsOf(s))
  <2>1. NRows(s) + InMemory(s) = Cardinality(RowsOf(s))
    BY <1>3 DEF ExactInv
  <2>2. QED
    BY <1>3, <2>1, MemoryType DEF TInv
<1>5. registry[s] # NoDoc => RowsOf(s) # {}
    BY <1>3 DEF CountInv, ListedInv
<1>6. registry[s] = NoDoc => RowsOf(s) = {}
  <2> HAVE registry[s] = NoDoc
  <2>1. Cardinality(RowsOf(s)) = 0
    BY <1>4 DEF NRows
  <2>2. QED
    BY <2>1, MemoryType, FS_EmptySet DEF TInv
<1>7. QED
    BY <1>4, <1>5, <1>6 DEF NRows

(* gcp_result_store.py:17-20, storage.md:247-249: when all calls are over   *)
(* and none was interrupted, each scope with rows is listed with their      *)
(* number and no other scope is, if no call is one of the baseline.         *)
THEOREM RegistryIsExact ==
    ASSUME EveryCallFlushes
    PROVE  Spec => []NavigationExact
<1>1. Init => TInv /\ CountInv /\ ExactInv
    BY InitTInv, InitCount, InitExact
<1>2. TInv /\ CountInv /\ ExactInv /\ [Next]_vars => (TInv /\ CountInv /\ ExactInv)'
    BY NextTInv, NextCount, NextExact, EveryCallFlushesServices
<1>3. TInv /\ CountInv /\ ExactInv => NavigationExact
    BY ExactAtRest
<1>4. QED
    BY <1>1, <1>2, <1>3, PTL DEF Spec

-------------------------------------------------------------------------------
(***************************************************************************)
(* A buffer above its limit is about to be taken.                           *)
(***************************************************************************)
LEMMA TotalFacts ==
    /\ Total(Nothing) = 0
    /\ \A counts \in Counts : Total(counts) \in Nat
    /\ \A counts \in Counts, s \in Scopes :
          Total([counts EXCEPT ![s] = @ + 1]) = Total(counts) + 1
<1>1. Total(Nothing) = 0
    BY NothingType, ThreadFacts, SumZero DEF Total
<1>2. \A counts \in Counts : Total(counts) \in Nat
    BY ThreadFacts, SumType DEF Total, Counts
<1>3. ASSUME NEW counts \in Counts, NEW s \in Scopes
      PROVE  Total([counts EXCEPT ![s] = @ + 1]) = Total(counts) + 1
  <2> DEFINE more == [counts EXCEPT ![s] = @ + 1]
  <2>1. more \in Counts /\ more[s] = counts[s] + 1 /\ \A o \in Scopes \ {s} : more[o] = counts[o]
    BY DEF Counts
  <2>2. \A o \in Scopes : counts[o] \in Nat /\ more[o] \in Nat
    BY <2>1 DEF Counts
  <2> HIDE DEF more
  <2>3. SumOf(more, Scopes) + counts[s] = SumOf(counts, Scopes) + more[s]
    BY <2>1, <2>2, ThreadFacts, SumOneChanged
  <2>4. SumOf(more, Scopes) \in Nat /\ SumOf(counts, Scopes) \in Nat
    BY <1>2, <2>1 DEF Total
  <2>5. SumOf(more, Scopes) = SumOf(counts, Scopes) + 1
    BY <2>1, <2>2, <2>3, <2>4
  <2>6. QED
    BY <2>5 DEF Total, more
<1>4. QED
    BY <1>1, <1>2, <1>3

LEMMA RoomFacts ==
    ASSUME NEW p \in Processes
    PROVE  /\ IsFiniteSet(Flushing(p)) /\ IsFiniteSet(Flushing(p)')
           /\ Cardinality(Flushing(p)) \in Nat /\ Cardinality(Flushing(p)') \in Nat
           /\ Room(p) = RegistryFlushEvery + Cardinality(Flushing(p))
           /\ Room(p)' = RegistryFlushEvery + Cardinality(Flushing(p)')
           /\ RegistryFlushEvery \in Nat \ {0}
           /\ Room(p) \in Nat /\ Room(p)' \in Nat /\ 0 < Room(p)'
           /\ RegistryFlushEvery <= Room(p)'
<1>1. Flushing(p) \subseteq Own(p) /\ Flushing(p)' \subseteq Own(p)
    BY DEF Flushing
<1>2. IsFiniteSet(Flushing(p)) /\ IsFiniteSet(Flushing(p)')
    BY <1>1, ThreadFacts, FS_Subset
<1>3. Cardinality(Flushing(p)) \in Nat /\ Cardinality(Flushing(p)') \in Nat
    BY <1>2, FS_CardinalityType
<1>4. QED
    BY <1>2, <1>3, FlushAssumption DEF Room

(* One thread moves: to flush, from it, or neither.                         *)
LEMMA RoomMoves ==
    ASSUME NEW p \in Processes, NEW t \in Own(p), \A u \in Own(p) \ {t} : thread'[u] = thread[u]
    PROVE  /\ (thread[t].pc = "flush") = (thread'[t].pc = "flush") => Room(p)' = Room(p)
           /\ thread[t].pc # "flush" /\ thread'[t].pc = "flush" => Room(p)' = Room(p) + 1
           /\ thread[t].pc = "flush" /\ thread'[t].pc # "flush" => Room(p)' = Room(p) - 1
<1>1. CASE (thread[t].pc = "flush") = (thread'[t].pc = "flush")
  <2>1. Flushing(p)' = Flushing(p)
    BY <1>1 DEF Flushing
  <2>2. QED
    BY <1>1, <2>1 DEF Room
<1>2. CASE thread[t].pc # "flush" /\ thread'[t].pc = "flush"
  <2>1. Flushing(p)' = Flushing(p) \cup {t} /\ t \notin Flushing(p)
    BY <1>2 DEF Flushing
  <2>2. Cardinality(Flushing(p)') = Cardinality(Flushing(p)) + 1
    <3>1. IsFiniteSet(Flushing(p))
      BY RoomFacts
    <3>2. Cardinality(Flushing(p) \cup {t}) = Cardinality(Flushing(p)) + 1
      BY <2>1, <3>1, FS_AddElement
    <3>3. QED
      BY <2>1, <3>2
  <2>3. QED
    BY <1>2, <2>2, RoomFacts
<1>3. CASE thread[t].pc = "flush" /\ thread'[t].pc # "flush"
  <2>1. Flushing(p)' = Flushing(p) \ {t} /\ t \in Flushing(p)
    BY <1>3 DEF Flushing
  <2>2. Cardinality(Flushing(p)') = Cardinality(Flushing(p)) - 1
    <3>1. IsFiniteSet(Flushing(p))
      BY RoomFacts
    <3>2. Cardinality(Flushing(p) \ {t}) = Cardinality(Flushing(p)) - 1
      BY <2>1, <3>1, FS_RemoveElement
    <3>3. QED
      BY <2>1, <3>2
  <2>3. QED
    BY <1>3, <2>2, RoomFacts
<1>4. QED
    BY <1>1, <1>2, <1>3

(* The other processes keep their buffers, their calls and their threads.   *)
LEMMA FullKept ==
    ASSUME FullInv, NEW p \in Processes, Full(p)',
           \A q \in Processes \ {p} : /\ call'[q] = call[q] /\ buffer'[q] = buffer[q]
                                      /\ \A u \in Own(q) : thread'[u] = thread[u]
    PROVE  FullInv'
<1> SUFFICES ASSUME NEW q \in Processes PROVE Full(q)'
    BY DEF FullInv
<1>1. CASE q = p
    BY <1>1
<1>2. CASE q # p
  <2>1. Flushing(q)' = Flushing(q)
    BY <1>2 DEF Flushing
  <2>2. Room(q)' = Room(q)
    BY <2>1 DEF Room
  <2>3. QED
    BY <1>2, <2>2 DEF FullInv, Full
<1>3. QED
    BY <1>1, <1>2

LEMMA BufferTotal ==
    ASSUME TypeOK, NEW p \in Processes
    PROVE  buffer[p] \in Counts /\ Total(buffer[p]) \in Nat
BY TotalFacts DEF TypeOK

(* A thread works, its process or call keeps what it says of the buffer.    *)
LEMMA FullThread ==
    ASSUME TInv, FullInv, NEW p \in Processes, NEW t \in Own(p), NEW state \in ThreadStates,
           Do(t, state), UNCHANGED buffer, \A q \in Processes \ {p} : call'[q] = call[q],
           thread[t].pc # "flush",
           Total(buffer[p]) < Room(p) \/ (call'[p] = call[p] /\ state.pc # "flush")
    PROVE  FullInv'
<1>1. /\ thread'[t] = state /\ \A u \in Own(p) \ {t} : thread'[u] = thread[u]
      /\ \A q \in Processes \ {p} : \A u \in Own(q) : thread'[u] = thread[u]
    BY DoFacts, ThreadFacts DEF TInv
<1>2. Room(p)' = Room(p) \/ Room(p)' = Room(p) + 1
    BY <1>1, RoomMoves
<1>3. state.pc # "flush" => Room(p)' = Room(p)
    BY <1>1, RoomMoves
<1>4. Full(p)'
  <2>1. CASE Total(buffer[p]) < Room(p)
    <3>1. Total(buffer'[p]) < Room(p)'
      BY <1>2, <2>1, BufferTotal, RoomFacts DEF TInv
    <3>2. QED
      BY <3>1 DEF Full
  <2>2. CASE call'[p] = call[p] /\ state.pc # "flush"
    BY <1>3, <2>2 DEF FullInv, Full
  <2>3. QED
    BY <2>1, <2>2
<1>5. QED
    BY <1>1, <1>4, FullKept

(* An exit, threads at rest or not about to flush.                          *)
LEMMA FullExit ==
    ASSUME TInv, FullInv, NEW p \in Processes, Exit(p),
           p \in Services => Room(p)' = Room(p),
           \A q \in Processes \ {p} : \A u \in Own(q) : thread'[u] = thread[u]
    PROVE  FullInv'
<1>1. CASE p \in Services
  <2>1. buffer'[p] = buffer[p] /\ Total(buffer[p]) < Room(p)
    BY <1>1, ExitFacts DEF FullInv, Full
  <2>2. Full(p)'
    BY <1>1, <2>1 DEF Full
  <2>3. QED
    BY <2>2, ExitFacts, FullKept
<1>2. CASE p \notin Services
  <2>1. buffer'[p] = Nothing
    BY <1>2, ExitFacts
  <2>2. Full(p)'
    BY <2>1, TotalFacts, RoomFacts DEF Full
  <2>3. QED
    BY <2>2, ExitFacts, FullKept
<1>3. QED
    BY <1>1, <1>2

(* A worker at work has room, or another thread has it taken.               *)
LEMMA WorkerRoom ==
    ASSUME TInv, FullInv, NEW p \in Processes, NEW t \in Own(p), thread[t] # Rest
    PROVE  Total(buffer[p]) < Room(p)
<1>1. t \in Own(p) /\ ~(call[p].pc = "run" /\ call[p].failed /\ Concurrency[p] = 1)
    BY Busy
<1>2. QED
    BY <1>1 DEF FullInv, Full

LEMMA PutFull ==
    ASSUME TInv, TInv', FullInv, NEW p \in Processes, NEW t \in Workers(p), Create(p, t) \/ Register(p, t)
    PROVE  FullInv'
<1>1. t \in Own(p) /\ thread[t] # Rest /\ thread[t].pc # "flush"
    BY Puts DEF Create, Register
<1>2. Total(buffer[p]) < Room(p)
    BY <1>1, WorkerRoom
<1>3. CASE Create(p, t)
  <2>1. PICK state \in ThreadStates : Do(t, state)
    BY <1>3, Puts, Idles DEF Create
  <2>2. UNCHANGED <<buffer, call>>
    BY <1>3 DEF Create
  <2>3. QED
    BY <1>1, <1>2, <2>1, <2>2, FullThread
<1>4. CASE Register(p, t)
  <2> DEFINE counts == Counted(p, thread[t].row.scope)
  <2>1. thread[t].row.scope \in Scopes
    BY <1>4, Puts DEF Register
  <2>2. counts \in Counts /\ Total(counts) = Total(buffer[p]) + 1
    <3>1. counts \in Counts
      BY <2>1, CountedType
    <3>2. QED
      BY <2>1, <3>1, TotalFacts, BufferTotal DEF Counted, TInv
  <2>3. PICK pc \in AfterPut(p) :
           Do(t, [pc |-> IF Total(counts) >= RegistryFlushEvery THEN "flush" ELSE pc])
    BY <1>4 DEF Register
  <2> DEFINE state == [pc |-> IF Total(counts) >= RegistryFlushEvery THEN "flush" ELSE pc]
  <2>4. state \in ThreadStates
    BY Idles DEF AfterPut
  <2>5. /\ thread'[t] = state /\ \A u \in Own(p) \ {t} : thread'[u] = thread[u]
        /\ \A q \in Processes \ {p} : \A u \in Own(q) : thread'[u] = thread[u]
    BY <1>1, <2>3, <2>4, DoFacts, ThreadFacts DEF TInv
  <2>6. /\ buffer'[p] = counts /\ UNCHANGED call
        /\ \A q \in Processes \ {p} : buffer'[q] = buffer[q]
    BY <1>4 DEF Register, TInv, TypeOK
  <2> HIDE DEF counts
  <2>7. Total(buffer'[p]) < Room(p)'
    <3>1. Total(buffer[p]) \in Nat /\ Room(p) \in Nat /\ RegistryFlushEvery <= Room(p)'
          /\ RegistryFlushEvery \in Nat /\ Room(p)' \in Nat
      BY BufferTotal, RoomFacts DEF TInv
    <3>2. CASE Total(counts) >= RegistryFlushEvery
      <4>1. Room(p)' = Room(p) + 1
        BY <1>1, <2>5, <3>2, RoomMoves
      <4>2. QED
        BY <1>2, <2>2, <2>6, <3>1, <4>1
    <3>3. CASE ~(Total(counts) >= RegistryFlushEvery)
      BY <2>2, <2>6, <3>1, <3>3
    <3>4. QED
      BY <3>2, <3>3
  <2>8. Full(p)'
    BY <2>7 DEF Full
  <2>9. QED
    BY <1>1, <2>5, <2>6, <2>8, FullKept
<1>5. QED
    BY <1>3, <1>4

LEMMA SendFull ==
    ASSUME TInv, TInv', FullInv, NEW p \in Processes, NEW t \in Own(p),
           Flush(p, t) \/ Document(t) \/ Increment(t)
    PROVE  FullInv'
<1>0. t \in Threads
    BY ThreadFacts
<1>1. CASE Flush(p, t)
  <2>1. Sending(buffer[p]) \in ThreadStates /\ Do(t, Sending(buffer[p]))
    BY <1>1, SendingType DEF Flush, TInv, TypeOK
  <2>2. \A q \in Processes \ {p} : \A u \in Own(q) : thread'[u] = thread[u]
    BY <2>1, DoFacts DEF TInv
  <2>3. /\ buffer'[p] = Nothing /\ UNCHANGED call
        /\ \A q \in Processes \ {p} : buffer'[q] = buffer[q]
    BY <1>1 DEF Flush, TInv, TypeOK
  <2>4. Full(p)'
    BY <2>3, TotalFacts, RoomFacts DEF Full
  <2>5. QED
    BY <2>2, <2>3, <2>4, FullKept
<1>2. CASE Document(t) \/ Increment(t)
  <2>1. PICK state \in ThreadStates : Do(t, state)
    <3>1. CASE Document(t)
      <4>1. \A s \in Scopes :
               [pc |-> "increment", pending |-> thread[t].pending, scope |-> s] \in ThreadStates
        BY <1>0, <3>1, ThreadStateFacts DEF Document, TInv, ThreadStates
      <4>2. QED
        BY <3>1, <4>1 DEF Document
    <3>2. CASE Increment(t)
      BY <1>0, <3>2, SentFacts, SendingType DEF Increment
    <3>3. QED
      BY <1>2, <3>1, <3>2
  <2>2. thread[t].pc # "flush" /\ thread[t] # Rest /\ UNCHANGED <<buffer, call>>
    BY <1>2 DEF Document, Increment, Rest
  <2>3. QED
    BY <2>1, <2>2, WorkerRoom, FullThread
<1>3. QED
    BY <1>1, <1>2

LEMMA StartFull ==
    ASSUME TInv, TInv', FullInv, NEW p \in Processes, Launch(p) \/ Purge(p)
    PROVE  FullInv'
<1>1. Total(buffer[p]) < Room(p)
    BY LaunchMoves, PurgeMoves DEF FullInv, Full, Off
<1>2. CASE Launch(p)
  <2>1. UNCHANGED <<thread, buffer>>
    BY <1>2 DEF Launch
  <2>2. Room(p)' = Room(p)
    BY <2>1 DEF Room, Flushing
  <2>3. Full(p)'
    BY <1>1, <2>1, <2>2 DEF Full
  <2>4. QED
    BY <1>2, <2>1, <2>3, LaunchMoves, FullKept
<1>3. CASE Purge(p)
  <2>1. [pc |-> "flush"] \in ThreadStates /\ Do(Main(p), [pc |-> "flush"]) /\ Main(p) \in Own(p)
    BY <1>3, ThreadFacts DEF Purge, ThreadStates
  <2>2. UNCHANGED buffer /\ thread[Main(p)].pc # "flush"
    <3>1. thread[Main(p)] = Rest
      BY <1>3, PurgeMoves
    <3>2. QED
      BY <1>3, <3>1 DEF Purge, Rest
  <2>3. QED
    BY <1>1, <1>3, <2>1, <2>2, PurgeMoves, FullThread
<1>4. QED
    BY <1>2, <1>3

LEMMA TakeFull ==
    ASSUME TInv, TInv', FullInv, NEW p \in Processes, NEW t \in Workers(p), Take(p, t)
    PROVE  FullInv'
<1>1. Total(buffer[p]) < Room(p)
  <2>1. ~(call[p].failed /\ Concurrency[p] = 1)
    <3>1. call[p].failed => Concurrency[p] > 1
      BY DEF Take
    <3>2. QED
      BY <3>1, ConcurrencyAssumption
  <2>2. QED
    BY <2>1 DEF FullInv, Full
<1>2. \A q \in Processes \ {p} : \A u \in Own(q) : u \in Threads /\ u # t
    BY TakeMoves, ThreadFacts
<1>3. Room(p)' = Room(p)
  <2>1. \A u \in Own(p) \ {t} : thread'[u] = thread[u]
    BY TakeMoves, ThreadFacts
  <2>2. thread[t].pc # "flush" /\ thread'[t].pc # "flush"
    BY TakeMoves DEF Rest
  <2>3. QED
    BY <2>1, <2>2, TakeMoves, RoomMoves
<1>4. UNCHANGED buffer
    BY DEF Take
<1>5. Full(p)'
    BY <1>1, <1>3, <1>4 DEF Full
<1>6. \A q \in Processes \ {p} : call'[q] = call[q] /\ \A u \in Own(q) : thread'[u] = thread[u]
    BY <1>2, TakeMoves
<1>7. QED
    BY <1>4, <1>5, <1>6, FullKept

LEMMA FinishFull ==
    ASSUME TInv, TInv', FullInv, NEW p \in Processes, Finish(p)
    PROVE  FullInv'
<1>1. CASE FlushesAtEnd(call[p])
  <2>1. \A u \in Own(p) \ {Main(p)} : thread'[u] = thread[u]
    BY <1>1, FinishMoves, ThreadFacts
  <2>2. thread[Main(p)].pc # "flush" /\ thread'[Main(p)].pc = "flush"
    BY <1>1, FinishMoves DEF Rest
  <2>3. Room(p)' = Room(p) + 1
    BY <2>1, <2>2, RoomMoves, ThreadFacts
  <2>4. Total(buffer[p]) <= Room(p)
    BY BufferTotal, RoomFacts DEF TInv, FullInv, Full
  <2>5. Total(buffer'[p]) < Room(p)'
    BY <1>1, <2>3, <2>4, FinishMoves, BufferTotal, RoomFacts DEF TInv
  <2>6. Full(p)'
    BY <2>5 DEF Full
  <2>7. QED
    BY <2>6, FinishMoves, FullKept
<1>2. CASE ~FlushesAtEnd(call[p])
  <2>1. Exit(p) /\ UNCHANGED thread
    BY <1>2, FinishMoves
  <2>2. Room(p)' = Room(p)
    BY <2>1 DEF Room, Flushing
  <2>3. QED
    BY <2>1, <2>2, FullExit
<1>3. QED
    BY <1>1, <1>2

LEMMA OverFull ==
    ASSUME TInv, TInv', FullInv, NEW p \in Processes, End(p) \/ PurgeEnd(p) \/ PurgeRaises(p)
    PROVE  FullInv'
<1>1. Exit(p) /\ UNCHANGED thread
    BY DEF End, PurgeEnd, PurgeRaises
<1>2. Room(p)' = Room(p)
    BY <1>1 DEF Room, Flushing
<1>3. QED
    BY <1>1, <1>2, FullExit

LEMMA PurgeStepFull ==
    ASSUME TInv, TInv', FullInv, NEW p \in Processes, NEW t \in TablesOf("all"),
           PurgeRows(p, t) \/ PurgeRegistry(p, t)
    PROVE  FullInv'
<1>1. call[p].pc = "purge" /\ \A q \in Processes \ {p} : call'[q] = call[q]
    BY PurgeRowsFacts, PurgeRegistryFacts
<1>2. UNCHANGED <<buffer, thread>>
    BY DEF PurgeRows, PurgeRegistry
<1>3. Room(p)' = Room(p)
    BY <1>2 DEF Room, Flushing
<1>4. Full(p)'
    BY <1>1, <1>2, <1>3 DEF FullInv, Full
<1>5. QED
    BY <1>1, <1>2, <1>4, FullKept

(* Only a Ctrl+C stops a thread on its way to flush, and its run is over.   *)
LEMMA RaiseFull ==
    ASSUME TInv, TInv', FullInv, NEW p \in Processes, NEW t \in Own(p), Raise(p, t)
    PROVE  FullInv'
<1>1. /\ thread'[t] = Rest /\ \A u \in Own(p) \ {t} : thread'[u] = thread[u]
      /\ \A q \in Processes \ {p} : \A u \in Own(q) : thread'[u] = thread[u]
    BY RaiseFacts, DoFacts, ThreadFacts DEF TInv
<1>2. thread[t].pc = "flush" => Concurrency[p] = 1 /\ p \notin Services
    BY DEF Raise, Request
<1>3. thread'[t].pc # "flush"
    BY <1>1 DEF Rest
<1>4. CASE t = Main(p)
  <2>1. p \in Services => Room(p)' = Room(p)
    BY <1>1, <1>2, <1>3, RoomMoves
  <2>2. QED
    BY <1>1, <1>4, <2>1, RaiseFacts, FullExit
<1>5. CASE t # Main(p)
  <2>1. Total(buffer[p]) < Room(p) /\ UNCHANGED buffer
    BY <1>5, RaiseFacts, WorkerRoom
  <2>2. Total(buffer[p]) \in Nat /\ Room(p) \in Nat /\ Room(p)' \in Nat
    BY BufferTotal, RoomFacts DEF TInv
  <2>3. Full(p)'
    <3>1. CASE thread[t].pc = "flush"
      <4>1. Room(p)' = Room(p) - 1
        BY <1>1, <1>3, <3>1, RoomMoves
      <4>2. Total(buffer'[p]) < Room(p)' \/ Total(buffer'[p]) = Room(p)'
        BY <2>1, <2>2, <4>1
      <4>3. call'[p].pc = "run" /\ call'[p].failed /\ Concurrency[p] = 1 /\ p \notin Services
        BY <1>2, <1>5, <3>1, RaiseFacts
      <4>4. QED
        BY <4>2, <4>3 DEF Full
    <3>2. CASE thread[t].pc # "flush"
      <4>1. Room(p)' = Room(p)
        BY <1>1, <1>3, <3>2, RoomMoves
      <4>2. QED
        BY <2>1, <4>1 DEF Full
    <3>3. QED
      BY <3>1, <3>2
  <2>4. QED
    BY <1>1, <2>1, <2>3, RaiseFacts, FullKept
<1>6. QED
    BY <1>4, <1>5

LEMMA KillFull ==
    ASSUME TInv, TInv', FullInv, NEW p \in Processes, Kill(p)
    PROVE  FullInv'
<1>1. Full(p)'
    BY KillFacts, TotalFacts, RoomFacts DEF Full
<1>2. QED
    BY <1>1, KillFacts, FullKept

LEMMA NextFull ==
    ASSUME TInv, TInv', FullInv, [Next]_vars
    PROVE  FullInv'
<1>1. CASE Next
    BY <1>1, Steps, StartFull, TakeFull, PutFull, SendFull, FinishFull, OverFull, PurgeStepFull,
       RaiseFull, KillFull
<1>2. CASE UNCHANGED vars
    BY <1>2 DEF vars, FullInv, Full, Room, Flushing
<1>3. QED
    BY <1>1, <1>2

(* _register_new_row, flush_registry: a crash loses less than a batch, plus *)
(* one row for each thread that is on its way to flush; only a Ctrl+C on    *)
(* that way leaves a full buffer alone.                                     *)
THEOREM RegistryBufferBounded == Spec => []BufferBounded
<1>1. Init => TInv /\ FullInv
  <2>1. Init => FullInv
    BY TotalFacts, FlushAssumption, RoomFacts DEF Init, FullInv, Full
  <2>2. QED
    BY <2>1, InitTInv
<1>2. TInv /\ FullInv /\ [Next]_vars => (TInv /\ FullInv)'
    BY NextTInv, NextFull
<1>3. TInv /\ FullInv => BufferBounded
    BY DEF FullInv, Full, Room, BufferBounded
<1>4. QED
    BY <1>1, <1>2, <1>3, PTL DEF Spec
===============================================================================
