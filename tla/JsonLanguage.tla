---------------------------- MODULE JsonLanguage ----------------------------
(***************************************************************************)
(* The language of JSON and its meaning, without a parser, and what the    *)
(* parser of MiniJsonParser promises in their terms.                       *)
(***************************************************************************)
EXTENDS MiniJsonParser

(***************************************************************************)
(* The meanings of the tokens of a text from a to c: as a value, and, when *)
(* they are an array or object up to where an element begins, its elements *)
(* before that.  A text of JSON has one meaning, any other none.  They     *)
(* rest on the meanings of shorter parts: M[<<"value", a, c>>] and         *)
(* M[<<kind, a, c>>].                                                      *)
(***************************************************************************)

(* An element is a value, in an object with a key before it. *)
ElementMeanings(text, M, kind, a, c) ==
    IF kind = "array" THEN M[<<"value", a, c>>]
    ELSE IF a + 1 < c /\ text[a][1] = "string" /\ text[a + 1] = Mark(":")
    THEN {[key |-> text[a][2], value |-> v] : v \in M[<<"value", a + 2, c>>]}
    ELSE {}

(* Up to the end of an element: those before it, and it. *)
ListMeanings(text, M, kind, a, c) ==
    UNION {UNION {{Append(list, element) : list \in M[<<kind, a, n>>]} :
                     element \in ElementMeanings(text, M, kind, n + 1, c)} :
              n \in a .. (c - 1)}

(* A scalar, or brackets with nothing or elements between them. *)
ValueMeanings(text, M, a, c) ==
    IF a = c THEN {Scalar(token) : token \in {text[a]} \cap Scalars}
    ELSE UNION {{<<kind, list>> : list \in IF c = a + 1 THEN {<< >>}
                                           ELSE ListMeanings(text, M, kind, a, c - 1)} :
                   kind \in {k \in Kinds : /\ text[a] = Mark(Opening(k))
                                           /\ text[c] = Mark(Closing(k))}}

(* An element begins behind the opening bracket or a comma. *)
OpenMeanings(text, M, kind, a, c) ==
    IF a = c THEN IF text[a] = Mark(Opening(kind)) THEN {<< >>} ELSE {}
    ELSE IF text[c] = Mark(",") THEN ListMeanings(text, M, kind, a, c - 1)
    ELSE {}

MeaningsOf(text, M, part, a, c) ==
    IF a = 0 \/ a > c \/ c > Len(text) THEN {}
    ELSE IF part = "value" THEN ValueMeanings(text, M, a, c)
    ELSE OpenMeanings(text, M, part, a, c)

Parts == ({"value"} \cup Kinds) \X Nat \X Nat

Meanings(text) ==
    LET M[p \in Parts] == MeaningsOf(text, M, p[1], p[2], p[3])
    IN  M

(***************************************************************************)
(* The parser returns if and only if the text begins with a value, which   *)
(* is then what it returns, and never reads into what follows; it throws   *)
(* at every other text.                                                    *)
(***************************************************************************)
ParsesJson ==
    LET values(n) == Meanings(src)[<<"value", 1, n>>]
    IN  /\ pc = "returned" =>
              /\ values(pos - 1) = {value}
              /\ \A n \in 1 .. Len(src) : n # pos - 1 => values(n) = {}
        /\ pc = "threw" => \A n \in 1 .. Len(src) : values(n) = {}
=============================================================================
