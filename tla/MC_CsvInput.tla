----------------------------- MODULE MC_CsvInput -----------------------------
(***************************************************************************)
(* Every file of up to MaxSize bytes: no line, a header only, empty lines, *)
(* no newline at the end; files of up to MaxLines lines over a valid line  *)
(* of a known and of an unknown sensor and a line that fails each test;    *)
(* and lines that end in carriage returns, begin with them or are too      *)
(* long.  One byte is a number, two are none, three spell a marker.        *)
(***************************************************************************)
EXTENDS CsvInput, SequencesExt

CONSTANTS MaxSize, MaxLines

Byte1 == <<Other>>
Byte2 == <<Other, Other>>
Byte3 == <<Other, Other, Other>>

MCMarkers  == {Byte3}
MCNumerals == {Byte1}
MCSensors  == <<Byte1>>

Row(sensor, number, priority) ==
    Byte1 \o <<Comma>> \o sensor \o <<Comma>> \o number \o <<Comma>> \o priority

Rows == { Row(Byte1, Byte1, Byte1), Row(Byte2, Byte1, Byte1),
          Row(Byte1, Byte2, Byte1), Row(Byte1, Byte1, Byte3),
          Row(Byte1, Byte1, << >>), <<Comma, Comma>> }

File(rows) == Byte1 \o FlattenSeq([n \in 1 .. Len(rows) |-> <<NL>> \o rows[n]])

Tails == BoundedSeq({CR, Comma}, 2)

MCInputs ==
    BoundedSeq(Byte, MaxSize)
      \cup {File(rows) : rows \in BoundedSeq(Rows, MaxLines)}
      \cup {File(<<Row(Byte1, Byte1, Byte1) \o tail, first \o Row(Byte1, Byte1, Byte1)>>) :
              tail \in Tails, first \in Tails}

MCLines ==
    {[fields |-> 0, corrupt |-> FALSE, number |-> FALSE, sensor_token |-> -1]}
      \cup [fields : {4}, corrupt : BOOLEAN, number : BOOLEAN, sensor_token : {-1, 0}]

MCFiles == UNION {[1 .. n -> MCLines] : n \in 0 .. MaxLines}
=============================================================================
