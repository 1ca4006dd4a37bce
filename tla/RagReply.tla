------------------------------- MODULE RagReply -------------------------------
(***************************************************************************)
(* How berlue/rag/retriever.py reads what the judge LLM answers about one   *)
(* claim: a JSON object, in prose, followed by anything, cut by the token   *)
(* limit or malformed somewhere.                                            *)
(*                                                                          *)
(* A text is a sequence of tokens: braces, commas, a key with its colon, a  *)
(* value, the digits that make a number longer ("more"), and "scrap" for    *)
(* whatever has no meaning where it stands: prose, half of a string. What   *)
(* the judge meant is kept beside it (`members`), so that what the code     *)
(* reads can be compared with it.                                           *)
(*                                                                          *)
(* StrictJson is a mutated form of `_premier_objet_json`.                   *)
(***************************************************************************)
EXTENDS Fusion, SequencesExt

(* JSON values, as far as the code tells them apart. *)
Value(type, str, num) == [type |-> type, str |-> str, num |-> num]
Str(s)     == Value("string", s, 0)
Num(n)     == Value("number", "", n)
ListOf(n)  == Value("list", "", n)
EmptyList  == Value("list", "empty", 0)
Null       == Value("null", "", 0)
Bool(n)    == Value("bool", "", n)         \* 100 for true: `float(True)` is 1.0
Numeral(n) == Value("numeral", "", n)      \* a number written between quotes
Object     == Value("object", "", 0)

(* `written` is the value; a number cut after its first digits reads `cut`. *)
Member(key, written, cut) == [key |-> key, written |-> written, cut |-> cut]
Field(key, value) == Member(key, value, value)

Values  == {v \in [type : STRING, str : STRING, num : Int] :
               v.type \notin {"number", "numeral", "bool", "list"} => v.num = 0}
Members == {m \in [key : STRING, written : Values, cut : Values] :    \* numbers only are cut
               m.cut # m.written => m.cut.type = "number" /\ m.written.type = "number"}

Token(t, key, value) == [t |-> t, key |-> key, value |-> value]
Mark(t) == Token(t, "", Null)

Tokens(m) == <<Token("key", m.key, Null), Token("value", "", m.cut)>>
             \o IF m.cut = m.written THEN <<>> ELSE <<Token("more", "", m.written)>>

(* Prose may hold a brace that opens no object.                             *)
Prose(reply) == IF reply.prose = "brace" THEN <<Mark("open"), Mark("scrap")>>
                                         ELSE <<Mark("scrap")>>

(* The text meant: prose, the object, then other objects and comments.      *)
Meant(reply) ==
    LET Separated == [i \in DOMAIN reply.members |->
                        (IF i = 1 THEN <<>> ELSE <<Mark("comma")>>) \o Tokens(reply.members[i])]
    IN  Prose(reply) \o <<Mark("open")>> \o FlattenSeq(Separated) \o <<Mark("close")>>
        \o <<Mark("scrap"), Mark("open"), Mark("scrap")>>

(* The text received: all of it, or `upto` tokens of it, then nothing, half *)
(* a token, or a mistake and the rest.                                      *)
Text(reply) ==
    LET meant == Meant(reply)
        head  == SubSeq(meant, 1, reply.upto)
    IN  CASE reply.end = "whole"   -> meant
          [] reply.end = "cut"     -> head
          [] reply.end = "half"    -> Append(head, Mark("scrap"))
          [] reply.end = "mistake" -> Append(head, Mark("scrap"))
                                      \o SubSeq(meant, reply.upto + 1, Len(meant))

(* The judge may write any members; a mistake before the brace is prose.    *)
IsReply(reply) == /\ reply.prose \in {"plain", "brace"}
                  /\ reply.members \in Seq(Members)
                  /\ reply.upto \in 0..Len(Meant(reply))
                  /\ reply.end \in {"whole", "cut", "half", "mistake"}
                  /\ reply.end = "mistake" => reply.upto >= 2

-------------------------------------------------------------------------------
NoFields == [k \in {} |-> Null]

Follows == [open  |-> {"key", "close"}, key  |-> {"value"},
            value |-> {"more", "comma", "close"}, more |-> {"comma", "close"},
            comma |-> {"key"}]

Closings(text) == {i \in DOMAIN text : text[i].t = "close"}

(* `raw_decode` reads one value and ignores what follows.                   *)
FirstObject(text) ==
    SubSeq(text, 1, CHOOSE e \in Closings(text) : \A i \in Closings(text) : e <= i)

Decodable(text) ==
    /\ Closings(text) # {}
    /\ LET s == FirstObject(text)
       IN  /\ s[1].t = "open"
           /\ \A i \in 1..(Len(s) - 1) :
                 s[i].t \in DOMAIN Follows /\ s[i + 1].t \in Follows[s[i].t]

(* The last value of a key wins, and the last digits of a value.            *)
Decoded(text) ==
    LET s == FirstObject(text)
        At(k) == {i \in DOMAIN s : s[i].t = "key" /\ s[i].key = k}
        last(k) == CHOOSE i \in At(k) : \A j \in At(k) : j <= i
        Keys == {s[i].key : i \in {j \in DOMAIN s : s[j].t = "key"}}
    IN  [k \in Keys |-> IF s[last(k) + 2].t = "more" THEN s[last(k) + 2].value
                                                     ELSE s[last(k) + 1].value]

(* A fragment without its final comma, and the brace that closes it.        *)
Refermed(text, end) ==
    LET fragment == SubSeq(text, 1, end)
    IN  Append(IF Last(fragment).t = "comma" THEN Front(fragment) ELSE fragment,
               Mark("close"))

(* The longest fragment that decodes once closed; the brace alone does.     *)
_reparer_objet_tronque(text) ==
    LET Ends == {e \in DOMAIN text : Decodable(Refermed(text, e))}
    IN  Decoded(Refermed(text, CHOOSE e \in Ends : \A f \in Ends : f <= e))

StrictJson(text) ==
    LET Braces == {i \in DOMAIN text : text[i].t = "open"}
        from   == SubSeq(text, CHOOSE i \in Braces : \A j \in Braces : i <= j, Len(text))
    IN  IF Braces # {} /\ Decodable(from) THEN Decoded(from) ELSE NoFields

_premier_objet_json(text) ==
    LET Braces == {i \in DOMAIN text : text[i].t = "open"}
        from   == SubSeq(text, CHOOSE i \in Braces : \A j \in Braces : i <= j, Len(text))
    IN  IF Braces = {} THEN NoFields
        ELSE IF Decodable(from) THEN Decoded(from) ELSE _reparer_objet_tronque(from)

-------------------------------------------------------------------------------
(***************************************************************************)
(* `verify_claim_detail`, from the fields read to the verdict.              *)
(***************************************************************************)
FieldOf(fields, key, default) == IF key \in DOMAIN fields THEN fields[key] ELSE default

(* `float` of what is no number, no boolean and no text of a number, `[0]`  *)
(* of an empty list, or a verdict that no dictionary can look up: an        *)
(* exception, hence a panne.                                                *)
Unusable(fields) ==
    \/ FieldOf(fields, "confidence", Num(0)).type \notin {"number", "bool", "numeral"}
    \/ FieldOf(fields, "used_evidence_index", Null) = EmptyList
    \/ FieldOf(fields, "verdict", Null).type \in {"object", "list"}

UsedIndex(fields) == FieldOf(fields, "used_evidence_index", Null)

index_valide(fields, evidences) ==
    /\ UsedIndex(fields).type \in {"number", "list"}
    /\ UsedIndex(fields).num \in 0..(Len(evidences) - 1)

RAG_VERDICT_TO_JUDGMENT(verdict) ==
    IF verdict.type = "string" /\ verdict.str \in Fever \cup {"LIKELY_TRUE", "LIKELY_FALSE"}
    THEN verdict.str ELSE "I_DONT_KNOWN"

DontKnow == [verdict |-> "I_DONT_KNOWN", confidence |-> 0, evidence |-> NoEvidence]

(* A FEVER judgment that cites no valid excerpt proves nothing and is       *)
(* degraded; the others never carry an evidence.                            *)
Judged(fields, evidences) ==
    LET judgment == RAG_VERDICT_TO_JUDGMENT(FieldOf(fields, "verdict", Null))
    IN  IF judgment \in Fever /\ ~index_valide(fields, evidences)
        THEN DontKnow
        ELSE [verdict |-> judgment, confidence |-> FieldOf(fields, "confidence", Num(0)).num,
              evidence |-> IF judgment \in Fever THEN evidences[UsedIndex(fields).num + 1]
                                                 ELSE NoEvidence]

-------------------------------------------------------------------------------
(* What is to be read of a reply, whatever its prose: the members whose     *)
(* value was received, a number cut in the middle with the digits there are.*)
Offset(reply, i) ==         \* of the value of a member: 3 tokens each, or 4
    3 * i + Cardinality({j \in 1..(i - 1) :
                            reply.members[j].cut # reply.members[j].written})

Place(reply, i) == Len(Prose(reply)) + Offset(reply, i)

Received(reply) ==
    {i \in DOMAIN reply.members : reply.end = "whole" \/ Place(reply, i) <= reply.upto}

Due(reply, i) == IF reply.end = "whole" \/ Place(reply, i) < reply.upto
                 THEN reply.members[i].written ELSE reply.members[i].cut

FieldsDue(reply) ==
    [k \in {reply.members[i].key : i \in Received(reply)} |->
        Due(reply, CHOOSE i \in Received(reply) :
                      /\ reply.members[i].key = k
                      /\ \A j \in Received(reply) : reply.members[j].key = k => j <= i)]
===============================================================================
