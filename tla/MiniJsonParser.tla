--------------------------- MODULE MiniJsonParser ---------------------------
(***************************************************************************)
(* The recursive-descent parser of rules.json.  The calls that are open    *)
(* are an explicit stack; one action is one step of parse_value,           *)
(* parse_object or parse_array.  The input is a sequence of tokens, which  *)
(* skip_ws separates: a mark, a string, a number, a literal, or a bad      *)
(* token, on which the function that reads it throws: another character, a *)
(* string without its end, a number std::stod does not take, a misspelt    *)
(* literal.  A token is a pair of its kind and what it spells; a number is *)
(* counted in halves, so that not every number is an integer.              *)
(*                                                                         *)
(* A value is <<"string", s>>, <<"number", n>>, <<"none", "">>,            *)
(* <<"array", values>> or <<"object", members>>, a member being            *)
(* [key, value].                                                           *)
(***************************************************************************)
EXTENDS Integers, Sequences, SequencesExt

CONSTANTS
    Strings, Numbers    \* what the strings and numbers of a text spell

Mark(c) == <<"mark", c>>

Marks    == {Mark(c) : c \in {"{", "}", "[", "]", ",", ":"}}
Literals == {"literal"} \X {"true", "false", "null"}
Scalars  == ({"string"} \X Strings) \cup ({"number"} \X Numbers) \cup Literals
Token    == Marks \cup Scalars \cup {<<"bad", "">>}

VARIABLES
    src, pos,       \* the input, and the next token (from 1)
    pc,             \* "value" | "key" | "next" | "returned" | "threw"
    stack,          \* the arrays and objects being parsed, innermost last
    value           \* "next", "returned": the value parse_value returned

jsonVars == <<src, pos, pc, stack, value>>

NoValue == << >>

(* The text is chosen by the caller. *)
JsonInit ==
    /\ pos = 1
    /\ pc = "value"
    /\ stack = << >>
    /\ value = NoValue

More == pos <= Len(src)

Sees(c) == More /\ src[pos] = Mark(c)

Innermost == Last(stack)

(* parse_value returns: to the array or object it was called for, or to    *)
(* parse, which does not look at what follows.                             *)
Returns(v, callers) ==
    /\ value' = v
    /\ stack' = callers
    /\ pc' = IF callers = << >> THEN "returned" ELSE "next"
-----------------------------------------------------------------------------
(* The value of a scalar: true and false are the numbers 1 and 0. *)
Scalar(token) ==
    CASE token = <<"literal", "true">>  -> <<"number", 2>>
      [] token = <<"literal", "false">> -> <<"number", 0>>
      [] token = <<"literal", "null">>  -> <<"none", "">>
      [] OTHER                          -> token

(* parse_string_value, parse_number, parse_bool, parse_null *)
AtScalar == pc = "value" /\ More /\ src[pos] \in Scalars

ParseScalar ==
    /\ AtScalar
    /\ pos' = pos + 1
    /\ Returns(Scalar(src[pos]), stack)
    /\ UNCHANGED src

(* What an array or object begins and ends with, and where its parser      *)
(* stands before each of its elements.                                     *)
Kinds == {"array", "object"}

Opening(kind) == IF kind = "object" THEN "{" ELSE "["

Closing(kind) == IF kind = "object" THEN "}" ELSE "]"

ElementStart(kind) == IF kind = "object" THEN "key" ELSE "value"

(* An opening bracket, and the closing one at once or the first element.   *)
AtOpening(kind) == pc = "value" /\ Sees(Opening(kind)) /\ pos < Len(src)

Open(kind) ==
    /\ AtOpening(kind)
    /\ UNCHANGED src
    /\ \/ /\ src[pos + 1] = Mark(Closing(kind))
          /\ pos' = pos + 2
          /\ Returns(<<kind, << >> >>, stack)
       \/ /\ src[pos + 1] # Mark(Closing(kind))
          /\ pos' = pos + 1
          /\ pc' = ElementStart(kind)
          /\ stack' = Append(stack, [kind |-> kind, parsed |-> << >>, key |-> ""])
          /\ UNCHANGED value

OpenObject == Open("object")

OpenArray == Open("array")

(* parse_string, then expect(':') *)
AtKey ==
    /\ pc = "key"
    /\ More /\ src[pos][1] = "string"
    /\ pos < Len(src)
    /\ src[pos + 1] = Mark(":")

ParseKey ==
    /\ AtKey
    /\ pos' = pos + 2
    /\ pc' = "value"
    /\ stack' = [stack EXCEPT ![Len(stack)].key = src[pos][2]]
    /\ UNCHANGED <<src, value>>

(* emplace_back or push_back of the value just parsed. *)
WithValue(frame) ==
    [frame EXCEPT !.parsed =
        Append(@, IF frame.kind = "object"
                  THEN [key |-> frame.key, value |-> value] ELSE value)]

AtSeparator == pc = "next" /\ Sees(",")

Separator ==
    /\ AtSeparator
    /\ pos' = pos + 1
    /\ pc' = ElementStart(Innermost.kind)
    /\ stack' = [stack EXCEPT ![Len(stack)] = WithValue(@)]
    /\ UNCHANGED <<src, value>>

AtClosing == pc = "next" /\ Sees(Closing(Innermost.kind))

(* Mutant of Close: the last element is forgotten. *)
CloseWithoutLast ==
    /\ AtClosing
    /\ pos' = pos + 1
    /\ Returns(<<Innermost.kind, Innermost.parsed>>, Front(stack))
    /\ UNCHANGED src

Close ==
    /\ AtClosing
    /\ pos' = pos + 1
    /\ Returns(<<Innermost.kind, WithValue(Innermost).parsed>>, Front(stack))
    /\ UNCHANGED src

Parse == ParseScalar \/ OpenObject \/ OpenArray \/ ParseKey \/ Separator \/ Close

(* In every other case the function that looks at the token throws.        *)
Refused ==
    /\ pc \in {"value", "key", "next"}
    /\ ~ (AtScalar \/ AtKey \/ AtSeparator \/ AtClosing \/ \E kind \in Kinds : AtOpening(kind))

(* Mutant of Throw: the end of the input is not an error. *)
ThrowOrWait ==
    /\ Refused
    /\ pc' = IF More THEN "threw" ELSE pc
    /\ UNCHANGED <<src, pos, stack, value>>

Throw ==
    /\ Refused
    /\ pc' = "threw"
    /\ UNCHANGED <<src, pos, stack, value>>
=============================================================================
