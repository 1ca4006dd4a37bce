----------------------------- MODULE EvidenceIndex -----------------------------
(***************************************************************************)
(* The FEVER index: what berlue/rag/indexer.py writes, what RagRetriever    *)
(* loads and what a search renders (berlue/rag/retriever.py).               *)
(*                                                                          *)
(* A build writes the vectors (index.faiss), then the texts (metadata.pkl), *)
(* in the same order: a text is found by the position of its vector. The    *)
(* two files are two writes and two reads, and nothing ties them together.  *)
(*                                                                          *)
(* LastDocument is a mutated form of `retrieve`.                            *)
(***************************************************************************)
EXTENDS Sequences, Lists

CONSTANTS Builds,           \* the corpus that each build in turn reads
          Searches(_, _)    \* positions the nearest vectors may have, by the
                            \* claims in hand and the loaded files

top_k   == 3
Missing == -1               \* FAISS fills up with it when vectors lack

Lines == [id : Int, label : STRING]

(* Lines of the corpus that are kept, with their vector and their text. *)
Indexed(corpus) ==
    LET Kept == InOrder({i \in DOMAIN corpus : /\ corpus[i].label \in {"SUPPORTS", "REFUTES"}
                                               /\ corpus[i].id # -1})
    IN  [k \in DOMAIN Kept |-> corpus[Kept[k]]]

ASSUME BuildsAssumption ==          \* a build without a vector to stack raises
    /\ Builds # <<>>
    /\ \A b \in DOMAIN Builds : Builds[b] \in Seq(Lines) /\ Indexed(Builds[b]) # <<>>

(* What a retriever may load: both files of one build or, when builds are   *)
(* killed or at work between its two reads or their two writes, of any two. *)
Loadable == [index : DOMAIN Builds, metadata : DOMAIN Builds]

Vectors(files)  == Indexed(Builds[files.index])
Metadata(files) == Indexed(Builds[files.metadata])

Found(cs, files) == {s \in Searches(cs, files) :
    /\ DOMAIN s = 1..top_k
    /\ \A i \in 1..top_k : \/ s[i] \in 0..(Len(Vectors(files)) - 1)
                           \/ s[i] = Missing /\ i > Len(Vectors(files))
    /\ \A i, j \in 1..top_k : i # j /\ s[i] = s[j] => s[i] = Missing}

LastDocument(found, files) ==
    LET M == Metadata(files)
        In == InOrder({i \in DOMAIN found : found[i] < Len(M)})
    IN  [k \in DOMAIN In |-> M[IF found[In[k]] < 0 THEN Len(M) ELSE found[In[k]] + 1]]

retrieve(found, files) ==
    LET M == Metadata(files)
        In == InOrder({i \in DOMAIN found : 0 <= found[i] /\ found[i] < Len(M)})
    IN  [k \in DOMAIN In |-> M[found[In[k]] + 1]]
===============================================================================
