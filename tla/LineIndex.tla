----------------------------- MODULE LineIndex -----------------------------
(***************************************************************************)
(* From the bytes of the mapped file to the fields of its lines:           *)
(* build_line_offsets byte by byte, and on the index it builds get_line    *)
(* and tokenize_csv_line, with which the parser's threads begin.           *)
(*                                                                         *)
(* Positions count from 0 as in the code, sequences from 1.  A byte is one *)
(* of those the code tells apart, or another.                              *)
(***************************************************************************)
EXTENDS Integers, Sequences, FiniteSets

CONSTANTS
    NL, CR, Comma, Other,
    Inputs          \* the files the program may be given

Byte == {NL, CR, Comma, Other}

ASSUME BytesAssumption == Cardinality(Byte) = 4 /\ NL # Other /\ Comma \notin {NL, CR}

ASSUME InputsAssumption == Inputs \subseteq Seq(Byte)

VARIABLES
    data,           \* the bytes of the file
    pc,             \* "header" | "lines" | "line" | "done"
    pos,
    offsets

indexVars == <<data, pc, pos, offsets>>

size == Len(data)

At(p) == data[p + 1]

IndexInit ==
    /\ data \in Inputs
    /\ pc = "header"
    /\ pos = 0
    /\ offsets = << >>
-----------------------------------------------------------------------------
(* while (pos < size && data[pos] != '\n') ++pos; *)
SkipByte ==
    /\ pc \in {"header", "line"}
    /\ pos < size
    /\ At(pos) # NL
    /\ pos' = pos + 1
    /\ UNCHANGED <<data, pc, offsets>>

(* Mutant of EndLine: an empty line after this one is skipped with it. *)
EndLineAndEmpty ==
    /\ pc \in {"header", "line"}
    /\ ~ (pos < size /\ At(pos) # NL)
    /\ pos' = IF pos + 1 < size /\ At(pos + 1) = NL THEN pos + 2 ELSE pos + 1
    /\ pc' = "lines"
    /\ UNCHANGED <<data, offsets>>

(* The newline, or one past the end of a file that does not end in one. *)
EndLine ==
    /\ pc \in {"header", "line"}
    /\ ~ (pos < size /\ At(pos) # NL)
    /\ pos' = pos + 1
    /\ pc' = "lines"
    /\ UNCHANGED <<data, offsets>>

StartLine ==
    /\ pc = "lines"
    /\ pos < size
    /\ offsets' = Append(offsets, pos)
    /\ pc' = "line"
    /\ UNCHANGED <<data, pos>>

Finish ==
    /\ pc = "lines"
    /\ pos >= size
    /\ pc' = "done"
    /\ UNCHANGED <<data, pos, offsets>>

IndexDone == pc = "done" /\ UNCHANGED indexVars

IndexNext == SkipByte \/ EndLine \/ StartLine \/ Finish \/ IndexDone

IndexSpec == IndexInit /\ [][IndexNext]_indexVars
-----------------------------------------------------------------------------
(* The first newline from offset on, or size. *)
LineEnd(offset) ==
    LET ends == {p \in offset .. (size - 1) : At(p) = NL} \cup {size}
    IN  CHOOSE end \in ends : \A p \in ends : end <= p

get_line(offset) == SubSeq(data, offset + 1, LineEnd(offset))

(* Mutant of Strip: one carriage return only. *)
StripOne(line) ==
    IF line # << >> /\ line[Len(line)] = CR THEN SubSeq(line, 1, Len(line) - 1) ELSE line

(* line.remove_suffix while the last byte is '\r' or '\n' *)
Strip(line) ==
    LET kept == {n \in 1 .. Len(line) : line[n] \notin {CR, NL}}
    IN  IF kept = {} THEN << >>
        ELSE SubSeq(line, 1, CHOOSE n \in kept : \A k \in kept : k <= n)

npos == 0

(* line.find(',', from) *)
FindComma(line, from) ==
    LET found == {n \in from .. Len(line) : line[n] = Comma}
    IN  IF found = {} THEN npos ELSE CHOOSE n \in found : \A k \in found : n <= k

(* tokenize_csv_line: the four fields, or none. *)
Fields(text) ==
    LET line == Strip(text)
        c1   == FindComma(line, 1)
        c2   == FindComma(line, c1 + 1)
        c3   == FindComma(line, c2 + 1)
    IN  IF npos \in {c1, c2, c3} \/ FindComma(line, c3 + 1) # npos
        THEN << >>
        ELSE << SubSeq(line, 1, c1 - 1), SubSeq(line, c1 + 1, c2 - 1),
                SubSeq(line, c2 + 1, c3 - 1), SubSeq(line, c3 + 1, Len(line)) >>
-----------------------------------------------------------------------------
IndexTypeOK ==
    /\ data \in Inputs
    /\ pc \in {"header", "lines", "line", "done"}
    /\ pos \in 0 .. (size + 1)
    /\ offsets \in Seq(0 .. (size - 1))

(* Where a data line starts: after a newline, and before the end. *)
LineStarts(end) == {p \in 1 .. (end - 1) : p < size /\ At(p - 1) = NL}

Increasing(positions) ==
    \A n \in 1 .. Len(positions) : \A k \in 1 .. (n - 1) : positions[k] < positions[n]

(***************************************************************************)
(* The index has the start of every line after the header, in file order,  *)
(* and nothing else: an empty line has one, the end of the file has not,   *)
(* and a last line without a newline is not lost.                          *)
(***************************************************************************)
IndexComplete ==
    pc = "done" =>
        /\ {offsets[n] : n \in 1 .. Len(offsets)} = LineStarts(size)
        /\ Increasing(offsets)

(* How often byte p is in a line that is read through the index. *)
TimesRead(p) ==
    Cardinality({n \in 1 .. Len(offsets) :
        offsets[n] <= p /\ p < LineEnd(offsets[n])})

BytesReadOnce ==
    \A p \in 0 .. (size - 1) :
        TimesRead(p) = IF At(p) # NL /\ \E h \in 0 .. (p - 1) : At(h) = NL THEN 1 ELSE 0

Count(text, byte) == Cardinality({n \in 1 .. Len(text) : text[n] = byte})

(* The fields, joined by commas, are the line without its carriage returns. *)
FieldsAreTheLine(line) ==
    LET fields == Fields(line)
        joined == fields[1] \o <<Comma>> \o fields[2] \o <<Comma>>
                    \o fields[3] \o <<Comma>> \o fields[4]
        rest   == SubSeq(line, Len(joined) + 1, Len(line))
    IN  IF Count(line, Comma) # 3
        THEN fields = << >>
        ELSE /\ Len(fields) = 4
             /\ joined = SubSeq(line, 1, Len(joined))
             /\ \A k \in 1 .. Len(rest) : rest[k] = CR
             /\ joined[Len(joined)] # CR

(***************************************************************************)
(* Through the index every byte after the header but the newlines is read  *)
(* exactly once, and a line is cut into its fields exactly if it has three *)
(* commas, whatever its line end.                                          *)
(***************************************************************************)
LinesReadBack ==
    pc = "done" =>
        /\ BytesReadOnce
        /\ \A n \in 1 .. Len(offsets) : FieldsAreTheLine(get_line(offsets[n]))
=============================================================================
