--------------------------- MODULE OutputFormatter ---------------------------
(***************************************************************************)
(* format_value of output_formatter.hpp, character by character: what it   *)
(* prints is cut off by its buffer, and what it strips may not be there.   *)
(*                                                                         *)
(* A finite double is what "%.6f" prints of it: its sign, how many digits  *)
(* it has before the point, and the six after it.  The digits before the   *)
(* point are all the same character, which stands for any.                 *)
(***************************************************************************)
EXTENDS Integers, Sequences, FiniteSets

CONSTANT BufferSize     \* char buf[64]

ASSUME BufferAssumption == BufferSize \in Nat \ {0}

Digit == "d"

Finite(negative, digits, fraction) ==
    [kind |-> "finite", negative |-> negative, digits |-> digits, fraction |-> fraction]

NotFinite(text) == [kind |-> text]

Decimal == {"0", "1", "2", "3", "4", "5", "6", "7", "8", "9"}

(* The doubles, as "%.6f" tells them apart. *)
Double ==
    [kind : {"finite"}, negative : BOOLEAN, digits : Nat \ {0},
     fraction : [1 .. 6 -> Decimal]]
      \cup [kind : {"nan", "-nan", "inf", "-inf"}]

(* What "%.6f" prints into a buffer that is large enough. *)
Printed(val) ==
    IF val.kind # "finite" THEN <<val.kind>>
    ELSE (IF val.negative THEN <<"-">> ELSE << >>)
            \o [n \in 1 .. val.digits |-> Digit] \o <<".">> \o val.fraction

Fits(val) == Len(Printed(val)) < BufferSize

(* snprintf: the last place is for the terminating null. *)
snprintf(val) ==
    LET text == Printed(val)
    IN  IF Fits(val) THEN text ELSE SubSeq(text, 1, BufferSize - 1)

HasDot(text) == \E n \in 1 .. Len(text) : text[n] = "."

Dot(text) == CHOOSE n \in 1 .. Len(text) : text[n] = "."

LastNonzero(text) ==
    CHOOSE n \in 1 .. Len(text) :
        text[n] # "0" /\ \A k \in (n + 1) .. Len(text) : text[k] = "0"

(* s.erase(dot + 2) throws if the text ends in the point. *)
Throws(val) ==
    LET text == snprintf(val)
    IN  HasDot(text) /\ LastNonzero(text) = Dot(text) /\ Dot(text) = Len(text)

(* Mutant of format_value: no case for a number without decimals. *)
format_value_bare(val) ==
    LET text == snprintf(val)
    IN  IF ~ HasDot(text) THEN text ELSE SubSeq(text, 1, LastNonzero(text))

format_value(val) ==
    LET text == snprintf(val)
    IN  IF ~ HasDot(text) THEN text
        ELSE IF LastNonzero(text) = Dot(text)
             THEN SubSeq(text, 1, Dot(text) + 1)
             ELSE SubSeq(text, 1, LastNonzero(text))
-----------------------------------------------------------------------------
(* output_formatter.hpp:33: "stripping trailing zeros after the decimal    *)
(* point but keeping at least one decimal digit".                          *)
AtLeastOneDecimal(text) == HasDot(text) /\ Dot(text) < Len(text)

OnlyOneZero(text) == text[Len(text)] = "0" => text[Len(text) - 1] = "."

(* Whether the text is the number: all its digits, but zeros at the end. *)
Reads(text, val) ==
    LET printed == Printed(val)
    IN  /\ text = SubSeq(printed, 1, Len(text))
        /\ \A n \in (Len(text) + 1) .. Len(printed) : printed[n] = "0"
        /\ val.kind = "finite" => AtLeastOneDecimal(text)
=============================================================================
