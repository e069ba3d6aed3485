---------------------------- MODULE YamlSensors ----------------------------
(***************************************************************************)
(* load_sensors_from_yaml, a line at a time.  A line is a sequence of      *)
(* symbols: " " for a whitespace character, "'" for a quote of either      *)
(* kind, "- id:" and "id:" for the keys, and any other text.               *)
(***************************************************************************)
EXTENDS Integers, Sequences, SequencesExt

(* The line without these symbols on either side. *)
Trimmed(line, symbols) ==
    LET kept == {n \in 1 .. Len(line) : line[n] \notin symbols}
    IN  IF kept = {} THEN << >> ELSE SubSeq(line, Min(kept), Max(kept))

(* The text of these symbols. *)
Spelt(symbols) == FoldLeft(LAMBDA id, symbol : id \o symbol, "", symbols)

Keys == {"- id:", "id:"}

(* The sensor the line lists, if it does. *)
SensorOn(line) ==
    LET trimmed == Trimmed(line, {" "})
        value   == Trimmed(Tail(trimmed), {" ", "'"})
    IN  IF trimmed # << >> /\ trimmed[1] \in Keys /\ value # << >>
        THEN << Spelt(value) >>
        ELSE << >>

(* What a line is meant to list: a key, blanks before it, and behind it a  *)
(* name, with blanks and quotes on either side.                            *)
Lists(line, id) ==
    \E k, n \in 1 .. Len(line) :
        /\ k < n /\ line[k] \in Keys /\ line[n] = id
        /\ \A m \in 1 .. Len(line) :
              /\ m < k => line[m] = " "
              /\ m > k /\ m # n => line[m] \in {" ", "'"}
=============================================================================
