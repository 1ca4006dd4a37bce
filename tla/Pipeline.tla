------------------------------- MODULE Pipeline -------------------------------
(***************************************************************************)
(* One `HurluBerlu.run` (berlue/pipeline/hurlu_berlu.py): the answer, its   *)
(* extraction into claims, the RAG and SelfCheck branches in two threads,   *)
(* and the fusion of what they bring back.                                  *)
(*                                                                          *)
(* Each branch maps its work with `map_parallele`; ParallelMap is proved to *)
(* implement OrderedMap, so a map is one step here, whose exception is the  *)
(* one of the first failing claim. The LLM, the FAISS index and the NLI     *)
(* model are the environment: they may answer anything, or fail.            *)
(*                                                                          *)
(* TextOnlyId, KeepAll, LeaveUnjoined, PartialOutcome and ResampleOnFailure *)
(* are mutated forms of the definition that follows each.                   *)
(***************************************************************************)
EXTENDS RagReply, EvidenceIndex

CONSTANTS
    Texts,                  \* texts of claims
    Blank, NotText,         \* elements of the extractor's array that it skips
    MaxElements,            \* bound on the length of that array
    Replies(_, _),          \* what the judge LLM may reply about a claim of
                            \* such claims, with such files
    Divergences(_)          \* what the NLI model may measure, in percent

VARIABLES
    files,                  \* the index and the metadata that are loaded
    step,                   \* progress of the calling thread
    answer,                 \* the text under verification, NoAnswer before
    claims,                 \* claims extracted, in order
    rag, selfcheck,         \* the two branches: [state, ...]
    result,                 \* the PipelineResult handed to the fusion
    fused                   \* fused_verdicts

vars == <<files, step, answer, claims, rag, selfcheck, result, fused>>

NoAnswer  == "none"
NoResult  == [panne |-> FALSE, rag_scores |-> <<>>, selfcheck_scores |-> <<>>]
Steps     == {"answer", "extract", "join_rag", "join_selfcheck", "leave",
              "leave_raising", "fuse", "done", "raised"}
InBranches == {"join_rag", "join_selfcheck", "leave", "leave_raising"}

(* What the check of one claim may meet: an exception of `retrieve`         *)
(* (outside the `try`), or what the search finds, then a failure of the     *)
(* judge LLM (timeout, empty answer) or its reply.                          *)
Checks(cs) == {[kind |-> "error"]} \cup
              [kind : {"failed"}, found : Found(cs, files)] \cup
              [kind : {"replied"}, found : Found(cs, files), reply : Replies(cs, files)]

TextOnlyId(rank, text) == <<text>>

_claim_id(rank, text) == <<rank, text>>

Claim(rank, text) == [id |-> _claim_id(rank, text), text |-> text]

(* The lists of claims an extraction may render, and more. *)
ClaimLists == UNION {[1..n -> [id : {_claim_id(r, t) : r \in 1..MaxElements, t \in Texts},
                               text : Texts]] : n \in 0..MaxElements}

ASSUME BoundAssumption == MaxElements \in Nat
ASSUME ReplyAssumption ==
    \A cs \in ClaimLists, f \in Loadable : \A reply \in Replies(cs, f) : IsReply(reply)
ASSUME DivergenceAssumption ==      \* a mean of probabilities
    \A cs \in ClaimLists : Divergences(cs) \subseteq Percent

(* The judge numbers excerpts with one digit, which is received or not: the *)
(* prompt shows it top_k of them.                                           *)
OneDigitCitations ==
    \A cs \in ClaimLists, f \in Loadable : \A reply \in Replies(cs, f) :
        \A m \in DOMAIN reply.members :
            reply.members[m].key = "used_evidence_index" =>
                reply.members[m].cut = reply.members[m].written

KeepAll(elements) == [k \in DOMAIN elements |-> Claim(k, elements[k])]

(* The claims of an array: ranks are those of the array, skipped elements   *)
(* included.                                                                *)
do_extraction(elements) ==
    LET Kept == InOrder({r \in DOMAIN elements : elements[r] \in Texts})
    IN  [k \in DOMAIN Kept |-> Claim(Kept[k], elements[Kept[k]])]

Reading(check) == _premier_objet_json(Text(check.reply))

Evidences(check) == retrieve(check.found, files)

Heard(check) == check.kind = "replied" /\ Evidences(check) # <<>>

Panne(check) == \/ check.kind = "failed" /\ Evidences(check) # <<>>
                \/ Heard(check) /\ Unusable(Reading(check))

verify_claim_detail(check) == IF Evidences(check) = <<>> THEN DontKnow
                              ELSE Judged(Reading(check), Evidences(check))

Scored(id, v) == [id |-> id, value |-> v]

(* `map_parallele` over the claims, then the `except RagPanne`.             *)
PartialOutcome(cs, checks) ==
    [state |-> "ended", panne |-> \E i \in DOMAIN cs : Panne(checks[i]),
     verdicts |-> [i \in DOMAIN cs |->
                      Scored(cs[i].id, IF Panne(checks[i]) \/ checks[i].kind = "error"
                                       THEN NoRag
                                       ELSE verify_claim_detail(checks[i]))]]

verify_claims(cs, checks) ==
    LET Failing == {i \in DOMAIN cs : checks[i].kind = "error" \/ Panne(checks[i])}
        first   == CHOOSE i \in Failing : \A j \in Failing : i <= j
    IN  IF Failing = {}
        THEN [state |-> "ended", panne |-> FALSE,
              verdicts |-> [i \in DOMAIN cs |->
                               Scored(cs[i].id, verify_claim_detail(checks[i]))]]
        ELSE [state |-> IF checks[first].kind = "error" THEN "raised" ELSE "ended",
              panne |-> checks[first].kind # "error",
              verdicts |-> <<>>]

Init == /\ files \in Loadable
        /\ step \in {"answer", "extract"}       \* `answer` given or not
        /\ answer \in IF step = "answer" THEN {NoAnswer} ELSE {"text", "blank"}
        /\ claims = <<>>
        /\ rag = [state |-> "idle", panne |-> FALSE, verdicts |-> <<>>, checks |-> <<>>]
        /\ selfcheck = [state |-> "idle", scores |-> <<>>]
        /\ result = NoResult
        /\ fused = <<>>

generate_answer ==          \* an empty generation raises, a blank one does not
    /\ step = "answer"
    /\ \/ answer' \in {"text", "blank"} /\ step' = "extract"
       \/ step' = "raised" /\ UNCHANGED answer
    /\ UNCHANGED <<claims, rag, selfcheck, result, fused>>

Branch(cs) ==               \* both futures are submitted
    /\ claims' = cs
    /\ step' = "join_rag"
    /\ rag' = [rag EXCEPT !.state = "running"]
    /\ selfcheck' = [selfcheck EXCEPT !.state = "sampling"]

extract_claims ==
    /\ step = "extract"
    /\ \/ /\ answer = "blank"                   \* no LLM call
          /\ Branch(<<>>)
       \/ /\ answer = "text"                    \* unreadable array: no claims
          /\ \/ Branch(<<>>)
             \/ \E m \in 1..MaxElements :
                \E elements \in [1..m -> Texts \cup {Blank, NotText}] :
                    Branch(do_extraction(elements))
       \/ /\ answer = "text"                    \* the extractor LLM fails
          /\ step' = "raised"
          /\ UNCHANGED <<claims, rag, selfcheck>>
    /\ UNCHANGED <<answer, result, fused>>

RagBranch ==
    /\ rag.state = "running"
    /\ \E checks \in [DOMAIN claims -> Checks(claims)] :
          LET o == verify_claims(claims, checks)
          IN  rag' = [state |-> o.state, panne |-> o.panne,
                      verdicts |-> o.verdicts, checks |-> checks]
    /\ UNCHANGED <<step, answer, claims, selfcheck, result, fused>>

SampleBranch ==             \* the K samples, drawn even without claims
    /\ selfcheck.state = "sampling"
    /\ \E s \in {IF claims = <<>> THEN "ended" ELSE "scoring", "raised"} :
          selfcheck' = [selfcheck EXCEPT !.state = s]
    /\ UNCHANGED <<step, answer, claims, rag, result, fused>>

ResampleOnFailure ==
    /\ selfcheck.state = "scoring"
    /\ \/ selfcheck' = [selfcheck EXCEPT !.state = "sampling"]
       \/ \E d \in [DOMAIN claims -> Divergences(claims)] :
             selfcheck' = [state |-> "ended",
                           scores |-> [i \in DOMAIN claims |-> Scored(claims[i].id, d[i])]]
    /\ UNCHANGED <<step, answer, claims, rag, result, fused>>

ScoreBranch ==
    /\ selfcheck.state = "scoring"
    /\ \/ selfcheck' = [selfcheck EXCEPT !.state = "raised"]
       \/ \E d \in [DOMAIN claims -> Divergences(claims)] :
             selfcheck' = [state |-> "ended",
                           scores |-> [i \in DOMAIN claims |-> Scored(claims[i].id, d[i])]]
    /\ UNCHANGED <<step, answer, claims, rag, result, fused>>

JoinRag ==                  \* futur_rag.result()
    /\ step = "join_rag"
    /\ rag.state \in {"ended", "raised"}
    /\ step' = IF rag.state = "ended" THEN "join_selfcheck" ELSE "leave_raising"
    /\ UNCHANGED <<answer, claims, rag, selfcheck, result, fused>>

JoinSelfcheck ==            \* futur_selfcheck.result()
    /\ step = "join_selfcheck"
    /\ selfcheck.state \in {"ended", "raised"}
    /\ step' = IF selfcheck.state = "ended" THEN "leave" ELSE "leave_raising"
    /\ UNCHANGED <<answer, claims, rag, selfcheck, result, fused>>

Busy == rag.state = "running" \/ selfcheck.state \in {"sampling", "scoring"}

LeaveUnjoined ==
    /\ step \in {"leave", "leave_raising"}
    /\ step' = IF step = "leave" THEN "fuse" ELSE "raised"
    /\ result' = IF step = "leave"
                 THEN [panne |-> rag.panne, rag_scores |-> rag.verdicts,
                       selfcheck_scores |-> selfcheck.scores]
                 ELSE result
    /\ UNCHANGED <<answer, claims, rag, selfcheck, fused>>

Leave ==                    \* end of the `with`, then the PipelineResult
    /\ step \in {"leave", "leave_raising"}
    /\ ~Busy
    /\ step' = IF step = "leave" THEN "fuse" ELSE "raised"
    /\ result' = IF step = "leave"
                 THEN [panne |-> rag.panne, rag_scores |-> rag.verdicts,
                       selfcheck_scores |-> selfcheck.scores]
                 ELSE result
    /\ UNCHANGED <<answer, claims, rag, selfcheck, fused>>

(* `{x.claim_id: x for x in scores}.get(id)`: the last one of an id wins.   *)
Get(scores, id, default) ==
    LET Same == {i \in DOMAIN scores : scores[i].id = id}
    IN  IF Same = {} THEN default
        ELSE scores[CHOOSE i \in Same : \A j \in Same : j <= i].value

fuse ==
    /\ step = "fuse"
    /\ fused' = [i \in DOMAIN claims |->
                    FusedVerdict(result.panne,
                                 Get(result.rag_scores, claims[i].id, NoRag),
                                 Get(result.selfcheck_scores, claims[i].id, NoDivergence))]
    /\ step' = "done"
    /\ UNCHANGED <<answer, claims, rag, selfcheck, result>>

Over == step \in {"done", "raised"}

Work == /\ \/ generate_answer \/ extract_claims
           \/ RagBranch \/ SampleBranch \/ ScoreBranch
           \/ JoinRag \/ JoinSelfcheck \/ Leave \/ fuse
        /\ UNCHANGED files                     \* loaded once, by the constructor

Done == Over /\ UNCHANGED vars

Next == Work \/ Done

Spec == Init /\ [][Next]_vars

(* Every external call ends: the HTTP client has a timeout, the NLI pass is *)
(* a finite computation.                                                    *)
FairSpec == Spec /\ WF_vars(Work)

-------------------------------------------------------------------------------
(* Every variable keeps its shape. *)
TypeOK ==
    /\ files \in Loadable
    /\ step \in Steps
    /\ answer \in {NoAnswer, "text", "blank"}
    /\ \A i \in DOMAIN claims : claims[i].text \in Texts
    /\ rag.state \in {"idle", "running", "ended", "raised"}
    /\ selfcheck.state \in {"idle", "sampling", "scoring", "ended", "raised"}
    /\ result.panne \in BOOLEAN
    /\ Len(fused) \in 0..MaxElements

(* All or nothing: a RAG failure on one claim leaves no verdict on any      *)
(* claim of the question, whatever SelfCheck found, and without a failure   *)
(* every claim is judged (rule R1, docstring of verify_claims).             *)
PanneIsTotal ==
    step = "done" =>
        /\ DOMAIN fused = DOMAIN claims
        /\ \A i \in DOMAIN fused : (fused[i].verdict = "PANNE") <=> rag.panne
        /\ rag.panne <=> \E i \in DOMAIN claims : Panne(rag.checks[i])
        /\ rag.panne => result.rag_scores = <<>>

(* Each claim is fused from its own RAG check and its own divergence, even  *)
(* when two claims of the answer have the same text (ids hold the rank).    *)
VerdictIsOwn ==
    (step = "done" /\ ~rag.panne) =>
        \A i \in DOMAIN claims :
            fused[i] = FusedVerdict(FALSE, verify_claim_detail(rag.checks[i]),
                                    selfcheck.scores[i].value)

(* The judge is heard when no brace stands before its object: the verdict   *)
(* on a claim is the one of the fields it wrote, wherever its reply was cut *)
(* or broken and whatever follows them. Nothing is invented, no field whose *)
(* value was received is lost, and only a number may be read shorter        *)
(* (docstring of _reparer_objet_tronque).                                   *)
AsWritten(i) == rag.verdicts[i].value =
                   Judged(FieldsDue(rag.checks[i].reply), Evidences(rag.checks[i]))

JudgeIsHeard ==
    (step = "done" /\ ~rag.panne) =>
        \A i \in {c \in DOMAIN claims : Heard(rag.checks[c])} :
            rag.checks[i].reply.prose # "brace" => AsWritten(i)

(* The same whatever the prose, as the docstrings of retriever.py have it:  *)
(* "Décode le premier objet JSON complet de `texte`" (line 62), and no      *)
(* verdict "perdu au parsing" taken for an ignorance (lines 53 to 57). It   *)
(* does not hold: the code starts from the first brace of the prose.        *)
JudgeIsHeardInAnyProse ==
    (step = "done" /\ ~rag.panne) =>
        \A i \in {c \in DOMAIN claims : Heard(rag.checks[c])} : AsWritten(i)

(* A verdict shown as proved by FEVER says what the judge said of an        *)
(* excerpt it cited, neither SelfCheck nor the announced confidence has a   *)
(* part in it, and only such a verdict shows an evidence to the user: the   *)
(* text of a vector that the search found, when the index and the metadata  *)
(* come from the same build, and never a text that FEVER does not settle.   *)
Wrote(reply, key) == {reply.members[m].written : m \in {n \in DOMAIN reply.members :
                                                           reply.members[n].key = key}}

ProofIsCited ==
    step = "done" =>
        \A i \in DOMAIN fused :
            /\ fused[i].evidence # NoEvidence <=> fused[i].fondement = "PREUVE_FEVER"
            /\ fused[i].evidence # NoEvidence =>
                  LET check == rag.checks[i]
                      Cited == {k \in 1..top_k : /\ check.found[k] # Missing
                                                 /\ \E used \in Wrote(check.reply, "used_evidence_index") :
                                                       used.type \in {"number", "list"} /\ used.num = k - 1}
                  IN  /\ check.kind = "replied"
                      /\ fused[i].evidence.label # "NOT ENOUGH INFO"
                      /\ files.index = files.metadata =>
                            \E k \in Cited : fused[i].evidence = Vectors(files)[check.found[k] + 1]
                      /\ Str(IF fused[i].verdict = "SUPPORTED" THEN "FEVER_CONFIRMS"
                                                               ELSE "FEVER_REFUTES")
                            \in Wrote(check.reply, "verdict")

(* Whichever rule decided, the confidence means the same thing: between 0   *)
(* and 1 whatever the judge announced, 0 for an undecided or failed claim,  *)
(* and a firm verdict that rests on a conviction is never below the         *)
(* classification threshold (R3, R4 and R5 compute it in three ways).       *)
ConfidenceIsComparable ==
    \A i \in DOMAIN fused :
        LET f == fused[i].confidence IN
        /\ 0 <= f[1] /\ f[1] <= f[2] /\ f[2] > 0
        /\ fused[i].verdict \in {"PANNE", "NOT_ENOUGH_INFO"} => f[1] = 0
        /\ (fused[i].verdict \in {"SUPPORTED", "CONTRADICTED"}
               /\ fused[i].fondement = "CONVICTION") => 100 * f[1] >= FUSION_SEUIL_VRAI * f[2]

(* A categorical judgment of the RAG is never reversed by SelfCheck, which  *)
(* can at most bring it down to undecided (asymmetric weights). It is less  *)
(* than params.py:239-246 wants ("reste CONTREDIT"), which the weights do   *)
(* not give at divergence 0, where the verdict is undecided.                *)
CategoricalNeverReversed ==
    (step = "done" /\ ~rag.panne) =>
        \A i \in {c \in DOMAIN claims : rag.verdicts[c].value.confidence = 100} :
            /\ rag.verdicts[i].value.verdict = "LIKELY_TRUE" => fused[i].verdict # "CONTRADICTED"
            /\ rag.verdicts[i].value.verdict = "LIKELY_FALSE" => fused[i].verdict # "SUPPORTED"

(* `compute_signals` never comes out, with a result or an exception, while  *)
(* a branch is still at work on the question.                               *)
NoBranchLeftBehind == step \in {"fuse", "done", "raised"} => ~Busy

(***************************************************************************)
(* Why they hold. A branch is idle until the calling thread has submitted   *)
(* it, and leaves what it computed from the claims; the thread goes on with *)
(* the outcomes of both, once they have ended.                              *)
(***************************************************************************)
ClaimInv ==                 \* no two claims of one id
    /\ claims \in ClaimLists
    /\ \A i, j \in DOMAIN claims : claims[i].id = claims[j].id => i = j

RagInv ==
    /\ rag = [state |-> rag.state, panne |-> rag.panne,
              verdicts |-> rag.verdicts, checks |-> rag.checks]
    /\ rag.panne \in BOOLEAN
    /\ rag.state = "ended" =>
          /\ rag.checks \in [DOMAIN claims -> Checks(claims)]
          /\ [state |-> rag.state, panne |-> rag.panne, verdicts |-> rag.verdicts]
                = verify_claims(claims, rag.checks)

Measured(scores) ==
    \E d \in [DOMAIN claims -> Divergences(claims)] :
        scores = [i \in DOMAIN claims |-> Scored(claims[i].id, d[i])]

SelfcheckInv ==
    /\ selfcheck = [state |-> selfcheck.state, scores |-> selfcheck.scores]
    /\ selfcheck.state # "ended" => selfcheck.scores = <<>>
    /\ selfcheck.state = "ended" => Measured(selfcheck.scores)

Outcome == [panne |-> rag.panne, rag_scores |-> rag.verdicts,
            selfcheck_scores |-> selfcheck.scores]

ControlInv ==
    /\ step \in {"answer", "extract"} =>
          claims = <<>> /\ rag.state = "idle" /\ selfcheck.state = "idle"
    /\ step \in {"join_selfcheck", "leave", "fuse", "done"} => rag.state = "ended"
    /\ step \in {"leave", "fuse", "done"} => selfcheck.state = "ended"
    /\ result = IF step \in {"fuse", "done"} THEN Outcome ELSE NoResult
    /\ fused = IF step = "done"
               THEN [i \in DOMAIN claims |->
                        FusedVerdict(rag.panne,
                                     Get(rag.verdicts, claims[i].id, NoRag),
                                     Get(selfcheck.scores, claims[i].id, NoDivergence))]
               ELSE <<>>

(* Every question ends, with verdicts or an exception. *)
Terminates == <>Over
===============================================================================
