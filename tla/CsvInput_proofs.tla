--------------------------- MODULE CsvInput_proofs ---------------------------
(***************************************************************************)
(* Theorems about the file: the line index, the parallel parser, for any   *)
(* number of threads, any file and any division of its lines into blocks,  *)
(* and the two together.                                                   *)
(***************************************************************************)
EXTENDS CsvInput, Orders_proofs

(***************************************************************************)
(* The index: build_line_offsets finds exactly the data lines, of files of *)
(* any length.                                                             *)
(***************************************************************************)
USE InputsAssumption

(* A loop over the bytes of a line does not start past the end. *)
InFile == pc \in {"header", "line"} => pos <= size

(* Positions and offsets stay within the file. *)
THEOREM IndexTypeCorrect == IndexSpec => []IndexTypeOK
<1>1. IndexInit => IndexTypeOK /\ InFile
  BY DEF IndexInit, IndexTypeOK, InFile, size
<1>2. IndexTypeOK /\ InFile /\ [IndexNext]_indexVars => IndexTypeOK' /\ InFile'
  <2> SUFFICES ASSUME IndexTypeOK, InFile, [IndexNext]_indexVars
               PROVE  IndexTypeOK' /\ InFile'
    OBVIOUS
  <2> USE DEF InFile
  <2>1. size \in Nat /\ pos \in Nat /\ offsets \in Seq(0 .. (size - 1))
    BY DEF IndexTypeOK, size
  <2>2. CASE SkipByte
    BY <2>1, <2>2 DEF SkipByte, IndexTypeOK, size
  <2>3. CASE EndLine
    BY <2>1, <2>3 DEF EndLine, IndexTypeOK, size
  <2>4. CASE StartLine
    <3>1. pos \in 0 .. (size - 1)
      BY <2>1, <2>4 DEF StartLine
    <3>2. Append(offsets, pos) \in Seq(0 .. (size - 1))
      BY <2>1, <3>1
    <3> QED
      BY <2>4, <3>2 DEF StartLine, IndexTypeOK, size
  <2>5. CASE Finish
    BY <2>5 DEF Finish, IndexTypeOK, size
  <2>6. CASE IndexDone \/ UNCHANGED indexVars
    BY <2>6 DEF IndexDone, indexVars, IndexTypeOK, size
  <2> QED
    BY <2>2, <2>3, <2>4, <2>5, <2>6 DEF IndexNext
<1> QED
  BY <1>1, <1>2, PTL DEF IndexSpec

(***************************************************************************)
(* The offsets are the line starts up to the position, in order; between   *)
(* two lines the position is itself a start, or past the end.              *)
(***************************************************************************)
Found == {offsets[n] : n \in 1 .. Len(offsets)}

IndexInv ==
    /\ pc \in {"header", "line"} => Found = LineStarts(pos + 1)
    /\ pc = "lines" => /\ Found = LineStarts(pos)
                       /\ pos < size => pos >= 1 /\ At(pos - 1) = NL
    /\ pc = "done" => Found = LineStarts(size)
    /\ Increasing(offsets)

(* A position that no newline precedes is not a start, others are.         *)
LEMMA NextStart ==
    ASSUME size \in Nat, NEW p \in Nat
    PROVE  LineStarts(p + 1) =
              IF p >= 1 /\ p < size /\ At(p - 1) = NL
              THEN LineStarts(p) \cup {p} ELSE LineStarts(p)
  BY DEF LineStarts

(* Past the end there are no starts. *)
LEMMA NoMoreStarts ==
    ASSUME size \in Nat, NEW p \in Nat, p >= size
    PROVE  LineStarts(p) = LineStarts(size)
  BY DEF LineStarts

(* The invariant of the scan. *)
LEMMA IndexInvariant == IndexSpec => []IndexInv
<1>1. IndexInit => IndexInv
  BY DEF IndexInit, IndexInv, Found, LineStarts, Increasing
<1>2. IndexTypeOK /\ IndexInv /\ [IndexNext]_indexVars => IndexInv'
  <2> SUFFICES ASSUME IndexTypeOK, IndexInv, [IndexNext]_indexVars
               PROVE  IndexInv'
    OBVIOUS
  <2>1. size \in Nat /\ pos \in Nat /\ offsets \in Seq(0 .. (size - 1))
    BY DEF IndexTypeOK, size
  <2>2. CASE SkipByte
    <3>1. /\ pos' = pos + 1 /\ pc' = pc /\ offsets' = offsets /\ data' = data
          /\ At(pos) # NL /\ pc \in {"header", "line"}
      BY <2>2 DEF SkipByte
    <3>2. LineStarts(pos + 2) = LineStarts(pos + 1)
      <4>1. pos + 1 \in Nat /\ (pos + 1) + 1 = pos + 2 /\ (pos + 1) - 1 = pos
        BY <2>1
      <4> QED
        BY <2>1, <3>1, <4>1, NextStart
    <3>3. LineStarts(pos + 1)' = LineStarts(pos + 2)
      BY <2>1, <3>1 DEF LineStarts, size, At
    <3> QED
      BY <3>1, <3>2, <3>3 DEF IndexInv, Found, Increasing
  <2>3. CASE EndLine
    <3>1. /\ pos' = pos + 1 /\ pc' = "lines" /\ offsets' = offsets /\ data' = data
          /\ pos < size => At(pos) = NL
          /\ pc \in {"header", "line"}
      BY <2>3 DEF EndLine
    <3>2. LineStarts(pos)' = LineStarts(pos + 1)
      BY <2>1, <3>1 DEF LineStarts, size, At
    <3>3. (pos < size => pos >= 1 /\ At(pos - 1) = NL)'
      BY <2>1, <3>1 DEF size, At
    <3> QED
      BY <3>1, <3>2, <3>3 DEF IndexInv, Found, Increasing
  <2>4. CASE StartLine
    <3>1. /\ pos' = pos /\ pc' = "line" /\ data' = data
          /\ offsets' = Append(offsets, pos)
          /\ pc = "lines" /\ pos < size
      BY <2>4 DEF StartLine
    <3>2. Found = LineStarts(pos) /\ pos >= 1 /\ At(pos - 1) = NL
      BY <3>1 DEF IndexInv
    <3>3. LineStarts(pos + 1) = LineStarts(pos) \cup {pos}
      BY <2>1, <3>1, <3>2, NextStart
    <3>4. /\ Len(offsets') = Len(offsets) + 1
          /\ offsets'[Len(offsets) + 1] = pos
          /\ \A n \in 1 .. Len(offsets) : offsets'[n] = offsets[n]
      BY <2>1, <3>1
    <3>5. Found' = Found \cup {pos}
      BY <2>1, <3>4 DEF Found
    <3>6. \A n \in 1 .. Len(offsets) : offsets[n] < pos
      <4>1. \A p \in LineStarts(pos) : p < pos
        BY <2>1 DEF LineStarts
      <4> QED
        BY <3>2, <4>1 DEF Found
    <3>7. Increasing(offsets')
      <4> SUFFICES ASSUME NEW n \in 1 .. Len(offsets'), NEW k \in 1 .. (n - 1)
                   PROVE  offsets'[k] < offsets'[n]
        BY DEF Increasing
      <4>1. CASE n = Len(offsets) + 1
        BY <2>1, <4>1, <3>4, <3>6
      <4>2. CASE n \in 1 .. Len(offsets)
        <5>1. k \in 1 .. Len(offsets)
          BY <2>1, <4>2
        <5>2. offsets[k] < offsets[n]
          BY <4>2 DEF IndexInv, Increasing
        <5> QED
          BY <4>2, <5>1, <5>2, <3>4
      <4> QED
        BY <2>1, <3>4, <4>1, <4>2
    <3>8. LineStarts(pos + 1)' = LineStarts(pos + 1)
      BY <2>1, <3>1 DEF LineStarts, size, At
    <3> QED
      BY <3>1, <3>2, <3>3, <3>5, <3>7, <3>8 DEF IndexInv
  <2>5. CASE Finish
    <3>1. /\ pos' = pos /\ pc' = "done" /\ data' = data /\ offsets' = offsets
          /\ pc = "lines" /\ pos >= size
      BY <2>5 DEF Finish
    <3>2. Found = LineStarts(size)
      BY <2>1, <3>1, NoMoreStarts DEF IndexInv
    <3>3. LineStarts(size)' = LineStarts(size)
      BY <3>1 DEF LineStarts, size, At
    <3> QED
      BY <3>1, <3>2, <3>3 DEF IndexInv, Found, Increasing
  <2>6. CASE IndexDone \/ UNCHANGED indexVars
    BY <2>6 DEF IndexDone, indexVars, IndexInv, Found, Increasing, LineStarts, At, size
  <2> QED
    BY <2>2, <2>3, <2>4, <2>5, <2>6 DEF IndexNext
<1> QED
  BY <1>1, <1>2, IndexTypeCorrect, PTL DEF IndexSpec

(* Every data line is in the index, once and in order, and nothing else.   *)
THEOREM IndexIsComplete == IndexSpec => []IndexComplete
<1>1. IndexInv => IndexComplete
  BY DEF IndexInv, IndexComplete, Found
<1> QED
  BY <1>1, IndexInvariant, PTL

HIDE InputsAssumption
-----------------------------------------------------------------------------
(***************************************************************************)
(* The parallel parser, whatever the lines it is given are.                *)
(***************************************************************************)
LEMMA AppendFacts ==
    ASSUME NEW S, NEW seq \in Seq(S), NEW e \in S
    PROVE  /\ Append(seq, e) \in Seq(S)
           /\ Len(Append(seq, e)) = Len(seq) + 1
           /\ \A k \in 1 .. Len(seq) : Append(seq, e)[k] = seq[k]
           /\ Append(seq, e)[Len(seq) + 1] = e
  OBVIOUS

LEMMA ConcatFacts ==
    ASSUME NEW S, NEW s \in Seq(S), NEW t \in Seq(S)
    PROVE  /\ s \o t \in Seq(S)
           /\ Len(s \o t) = Len(s) + Len(t)
           /\ \A k \in 1 .. Len(s) : (s \o t)[k] = s[k]
           /\ \A k \in 1 .. Len(t) : (s \o t)[Len(s) + k] = t[k]
  OBVIOUS

(* What the assumptions and the types say of a block and of a line. *)
LEMMA BlockFacts ==
    ASSUME TypeOK
    PROVE  /\ Len(lines) \in Nat
           /\ \A n \in 1 .. Len(lines) : lines[n] \in Line /\ RecordOf(n) \in Record
           /\ block[0] = 0 /\ block[NumThreads] = Len(lines)
           /\ \A t \in 0 .. NumThreads : block[t] \in 0 .. Len(lines)
           /\ \A t \in Threads : t + 1 \in 0 .. NumThreads /\ t \in 0 .. NumThreads
                                 /\ block[t] <= block[t + 1]
<1>1. lines \in Seq(Line)
  BY DEF TypeOK
<1>2. /\ block \in [0 .. NumThreads -> 0 .. Len(lines)]
      /\ block[0] = 0 /\ block[NumThreads] = Len(lines)
      /\ \A t \in Threads : block[t] <= block[t + 1]
  BY DEF TypeOK, Blocks
<1>3. \A n \in 1 .. Len(lines) : lines[n] \in Line
  BY <1>1
<1>4. \A n \in 1 .. Len(lines) : RecordOf(n) \in Record
  BY <1>3 DEF RecordOf, Record, Line
<1>5. \A t \in Threads : t + 1 \in 0 .. NumThreads /\ t \in 0 .. NumThreads
  BY NumThreadsAssumption DEF Threads
<1>6. Len(lines) \in Nat
  BY <1>1
<1> QED
  BY <1>2, <1>3, <1>4, <1>5, <1>6
-----------------------------------------------------------------------------
(* How a list of records in file order grows. *)
LEMMA OrderAppend ==
    ASSUME NEW recs \in Seq(Record), NEW from \in Nat, NEW n \in Nat,
           from < n, RecordOf(n) \in Record, Valid(lines[n]),
           InOrderFrom(recs, from, n - 1)
    PROVE  InOrderFrom(Append(recs, RecordOf(n)), from, n)
<1> DEFINE longer == Append(recs, RecordOf(n))
<1>1. /\ Len(longer) = Len(recs) + 1
      /\ Len(recs) \in Nat
      /\ \A k \in 1 .. Len(recs) : longer[k] = recs[k]
      /\ longer[Len(recs) + 1] = RecordOf(n)
  BY AppendFacts
<1>2. RecordOf(n).line = n
  BY DEF RecordOf
<1>3. \A k \in 1 .. Len(recs) :
         /\ recs[k].line \in (from + 1) .. (n - 1)
         /\ Valid(lines[recs[k].line])
         /\ recs[k] = RecordOf(recs[k].line)
  BY DEF InOrderFrom
<1>4. \A k, m \in 1 .. Len(recs) : k < m => recs[k].line < recs[m].line
  BY DEF InOrderFrom
<1>5. \A l \in (from + 1) .. (n - 1) :
         Valid(lines[l]) => \E k \in 1 .. Len(recs) : recs[k].line = l
  BY DEF InOrderFrom
<1> HIDE DEF longer
<1>6. \A k \in 1 .. Len(longer) :
         /\ longer[k].line \in (from + 1) .. n
         /\ Valid(lines[longer[k].line])
         /\ longer[k] = RecordOf(longer[k].line)
  <2> SUFFICES ASSUME NEW k \in 1 .. Len(longer)
               PROVE  /\ longer[k].line \in (from + 1) .. n
                      /\ Valid(lines[longer[k].line])
                      /\ longer[k] = RecordOf(longer[k].line)
    OBVIOUS
  <2>1. CASE k \in 1 .. Len(recs)
    BY <2>1, <1>1, <1>3
  <2>2. CASE k = Len(recs) + 1
    BY <2>2, <1>1, <1>2
  <2> QED
    BY <2>1, <2>2, <1>1
<1>7. \A k, m \in 1 .. Len(longer) : k < m => longer[k].line < longer[m].line
  <2> SUFFICES ASSUME NEW k \in 1 .. Len(longer), NEW m \in 1 .. Len(longer), k < m
               PROVE  longer[k].line < longer[m].line
    OBVIOUS
  <2>1. k \in 1 .. Len(recs)
    BY <1>1
  <2>2. CASE m \in 1 .. Len(recs)
    BY <2>1, <2>2, <1>1, <1>4
  <2>3. CASE m = Len(recs) + 1
    BY <2>1, <2>3, <1>1, <1>2, <1>3
  <2> QED
    BY <2>2, <2>3, <1>1
<1>8. \A l \in (from + 1) .. n :
         Valid(lines[l]) => \E k \in 1 .. Len(longer) : longer[k].line = l
  <2> SUFFICES ASSUME NEW l \in (from + 1) .. n, Valid(lines[l])
               PROVE  \E k \in 1 .. Len(longer) : longer[k].line = l
    OBVIOUS
  <2>1. CASE l = n
    <3>1. Len(recs) + 1 \in 1 .. Len(longer)
      BY <1>1
    <3> QED
      BY <2>1, <3>1, <1>1, <1>2
  <2>2. CASE l \in (from + 1) .. (n - 1)
    <3>1. PICK k \in 1 .. Len(recs) : recs[k].line = l
      BY <2>2, <1>5
    <3>2. k \in 1 .. Len(longer)
      BY <1>1
    <3> QED
      BY <3>1, <3>2, <1>1
  <2> QED
    BY <2>1, <2>2
<1>9. InOrderFrom(longer, from, n)
  BY <1>6, <1>7, <1>8 DEF InOrderFrom
<1> QED
  BY <1>9 DEF longer

LEMMA OrderSkip ==
    ASSUME NEW recs \in Seq(Record), NEW from \in Nat, NEW n \in Nat,
           ~ Valid(lines[n]), InOrderFrom(recs, from, n - 1)
    PROVE  InOrderFrom(recs, from, n)
<1>1. \A l \in (from + 1) .. n : l = n \/ l \in (from + 1) .. (n - 1)
  OBVIOUS
<1>2. \A l \in (from + 1) .. (n - 1) : l \in (from + 1) .. n
  OBVIOUS
<1> QED
  BY <1>1, <1>2 DEF InOrderFrom

LEMMA OrderConcat ==
    ASSUME NEW s \in Seq(Record), NEW t \in Seq(Record),
           NEW a \in Nat, NEW b \in Nat, NEW c \in Nat, a <= b, b <= c,
           InOrderFrom(s, a, b), InOrderFrom(t, b, c)
    PROVE  InOrderFrom(s \o t, a, c)
<1> DEFINE both == s \o t
<1>1. /\ Len(both) = Len(s) + Len(t)
      /\ Len(s) \in Nat /\ Len(t) \in Nat
      /\ \A k \in 1 .. Len(s) : both[k] = s[k]
      /\ \A k \in 1 .. Len(t) : both[Len(s) + k] = t[k]
  BY ConcatFacts
<1> HIDE DEF both
<1>2. \A k \in 1 .. Len(both) :
         \/ k \in 1 .. Len(s) /\ both[k] = s[k]
         \/ k - Len(s) \in 1 .. Len(t) /\ k > Len(s) /\ both[k] = t[k - Len(s)]
  <2> SUFFICES ASSUME NEW k \in 1 .. Len(both), k \notin 1 .. Len(s)
               PROVE  k - Len(s) \in 1 .. Len(t) /\ k > Len(s) /\ both[k] = t[k - Len(s)]
    BY <1>1
  <2>1. k - Len(s) \in 1 .. Len(t) /\ k > Len(s) /\ k = Len(s) + (k - Len(s))
    BY <1>1
  <2> QED
    BY <2>1, <1>1
<1>3. /\ \A k \in 1 .. Len(s) : /\ s[k].line \in (a + 1) .. b
                               /\ Valid(lines[s[k].line])
                               /\ s[k] = RecordOf(s[k].line)
      /\ \A k, m \in 1 .. Len(s) : k < m => s[k].line < s[m].line
      /\ \A l \in (a + 1) .. b : Valid(lines[l]) => \E k \in 1 .. Len(s) : s[k].line = l
  BY DEF InOrderFrom
<1>4. /\ \A k \in 1 .. Len(t) : /\ t[k].line \in (b + 1) .. c
                               /\ Valid(lines[t[k].line])
                               /\ t[k] = RecordOf(t[k].line)
      /\ \A k, m \in 1 .. Len(t) : k < m => t[k].line < t[m].line
      /\ \A l \in (b + 1) .. c : Valid(lines[l]) => \E k \in 1 .. Len(t) : t[k].line = l
  BY DEF InOrderFrom
<1>5. \A k \in 1 .. Len(both) :
         /\ both[k].line \in (a + 1) .. c
         /\ Valid(lines[both[k].line])
         /\ both[k] = RecordOf(both[k].line)
  <2> SUFFICES ASSUME NEW k \in 1 .. Len(both)
               PROVE  /\ both[k].line \in (a + 1) .. c
                      /\ Valid(lines[both[k].line])
                      /\ both[k] = RecordOf(both[k].line)
    OBVIOUS
  <2>1. CASE k \in 1 .. Len(s) /\ both[k] = s[k]
    <3>1. s[k].line \in (a + 1) .. c
      BY <2>1, <1>3
    <3> QED
      BY <2>1, <3>1, <1>3
  <2>2. CASE k - Len(s) \in 1 .. Len(t) /\ both[k] = t[k - Len(s)]
    <3>1. t[k - Len(s)].line \in (a + 1) .. c
      BY <2>2, <1>4
    <3> QED
      BY <2>2, <3>1, <1>4
  <2> QED
    BY <2>1, <2>2, <1>2
<1>6. \A k, m \in 1 .. Len(both) : k < m => both[k].line < both[m].line
  <2> SUFFICES ASSUME NEW k \in 1 .. Len(both), NEW m \in 1 .. Len(both), k < m
               PROVE  both[k].line < both[m].line
    OBVIOUS
  <2>1. CASE m \in 1 .. Len(s)
    <3>1. k \in 1 .. Len(s)
      BY <2>1
    <3> QED
      BY <2>1, <3>1, <1>1, <1>3
  <2>2. CASE k \in 1 .. Len(s) /\ m \notin 1 .. Len(s)
    <3>1. m - Len(s) \in 1 .. Len(t) /\ both[m] = t[m - Len(s)] /\ both[k] = s[k]
      BY <2>2, <1>1, <1>2
    <3>2. s[k].line \in (a + 1) .. b /\ t[m - Len(s)].line \in (b + 1) .. c
      BY <2>2, <3>1, <1>3, <1>4
    <3>3. \A x \in (a + 1) .. b : \A y \in (b + 1) .. c : x < y
      OBVIOUS
    <3>4. s[k].line < t[m - Len(s)].line
      BY <3>2, <3>3
    <3> QED
      BY <3>1, <3>4
  <2>3. CASE k \notin 1 .. Len(s) /\ m \notin 1 .. Len(s)
    <3>1. k - Len(s) \in 1 .. Len(t) /\ both[k] = t[k - Len(s)]
      BY <2>3, <1>2
    <3>2. m - Len(s) \in 1 .. Len(t) /\ both[m] = t[m - Len(s)]
      BY <2>3, <1>2
    <3>3. k - Len(s) < m - Len(s)
      BY <1>1
    <3> QED
      BY <3>1, <3>2, <3>3, <1>4
  <2> QED
    BY <2>1, <2>2, <2>3
<1>7. \A l \in (a + 1) .. c :
         Valid(lines[l]) => \E k \in 1 .. Len(both) : both[k].line = l
  <2> SUFFICES ASSUME NEW l \in (a + 1) .. c, Valid(lines[l])
               PROVE  \E k \in 1 .. Len(both) : both[k].line = l
    OBVIOUS
  <2>1. CASE l \in (a + 1) .. b
    <3>1. PICK k \in 1 .. Len(s) : s[k].line = l
      BY <2>1, <1>3
    <3>2. k \in 1 .. Len(both)
      BY <1>1
    <3> QED
      BY <3>1, <3>2, <1>1
  <2>2. CASE l \in (b + 1) .. c
    <3>1. PICK k \in 1 .. Len(t) : t[k].line = l
      BY <2>2, <1>4
    <3>2. Len(s) + k \in 1 .. Len(both)
      BY <1>1
    <3> QED
      BY <3>1, <3>2, <1>1
  <2> QED
    BY <2>1, <2>2
<1>8. InOrderFrom(both, a, c)
  BY <1>5, <1>6, <1>7 DEF InOrderFrom
<1> QED
  BY <1>8 DEF both
-----------------------------------------------------------------------------
(* The state in which the loop begins, on whatever lines. *)
LEMMA CalledType == Called /\ lines \in Seq(Line) => TypeOK
<1> SUFFICES ASSUME Called, lines \in Seq(Line)
             PROVE  TypeOK
  OBVIOUS
<1>1. block \in Blocks(Len(lines)) /\ phase = "parse"
  BY DEF Called
<1>2. DOMAIN next_line = Threads
  BY DEF Called
<1>3. \A t \in Threads : next_line[t] \in (block[t] + 1) .. (block[t + 1] + 1)
  <2>1. Len(lines) \in Nat
    OBVIOUS
  <2>2. \A t \in Threads : /\ block[t] \in Nat /\ block[t + 1] \in Nat
                           /\ block[t] <= block[t + 1]
    BY <1>1, <2>1, NumThreadsAssumption DEF Blocks, Threads
  <2>3. \A t \in Threads : next_line[t] = block[t] + 1
    BY DEF Called
  <2> QED
    BY <2>2, <2>3
<1>4. /\ thread_records \in [Threads -> Seq(Record)]
      /\ valid_count \in [Threads -> Nat]
      /\ invalid_count \in [Threads -> Nat]
      /\ reduced \subseteq Threads
      /\ total_valid \in Nat /\ total_invalid \in Nat
      /\ merged \in 0 .. NumThreads
      /\ all_records \in Seq(Record)
  BY NumThreadsAssumption DEF Called
<1> QED
  BY <1>1, <1>2, <1>3, <1>4 DEF TypeOK

LEMMA InitType == Init => TypeOK
BY CalledType, FilesAssumption DEF Init

(* A thread that has a line left to parse: the line is one of its block. *)
LEMMA OpenLine ==
    ASSUME TypeOK, NEW t \in Threads, next_line[t] <= block[t + 1]
    PROVE  /\ next_line[t] \in 1 .. Len(lines)
           /\ next_line[t] \in (block[t] + 1) .. block[t + 1]
           /\ block[t] \in Nat /\ block[t + 1] \in Nat
<1>1. next_line[t] \in (block[t] + 1) .. (block[t + 1] + 1)
  BY DEF TypeOK
<1>2. block[t] \in 0 .. Len(lines) /\ block[t + 1] \in 0 .. Len(lines) /\ Len(lines) \in Nat
  BY BlockFacts
<1> QED
  BY <1>1, <1>2

(* A loop that advances over such a line keeps within its block. *)
LEMMA Advance ==
    ASSUME TypeOK, NEW t \in Threads, next_line[t] <= block[t + 1],
           next_line' = [next_line EXCEPT ![t] = @ + 1], block' = block
    PROVE  /\ DOMAIN next_line' = Threads
           /\ \A u \in Threads : next_line'[u] \in (block'[u] + 1) .. (block'[u + 1] + 1)
<1>1. /\ DOMAIN next_line = Threads
      /\ \A u \in Threads : next_line[u] \in (block[u] + 1) .. (block[u + 1] + 1)
  BY DEF TypeOK
<1>2. next_line[t] + 1 \in (block[t] + 1) .. (block[t + 1] + 1)
  BY OpenLine
<1>3. \A u \in Threads : next_line'[u] = IF u = t THEN next_line[t] + 1 ELSE next_line[u]
  BY <1>1
<1> QED
  BY <1>1, <1>2, <1>3

LEMMA KeepLineType ==
    ASSUME TypeOK, NEW t \in Threads, KeepLine(t)
    PROVE  TypeOK'
<1> DEFINE n == next_line[t]
<1>1. n \in 1 .. Len(lines)
  BY OpenLine DEF KeepLine
<1>2. RecordOf(n) \in Record
  BY <1>1, BlockFacts
<1> HIDE DEF n
<1>3. thread_records' \in [Threads -> Seq(Record)]
  <2>1. thread_records \in [Threads -> Seq(Record)]
    BY DEF TypeOK
  <2>2. Append(thread_records[t], RecordOf(n)) \in Seq(Record)
    BY <2>1, <1>2, AppendFacts
  <2>3. thread_records' = [thread_records EXCEPT ![t] = Append(thread_records[t], RecordOf(n))]
    BY DEF KeepLine, n
  <2> QED
    BY <2>1, <2>2, <2>3
<1>4. valid_count' \in [Threads -> Nat]
  BY DEF KeepLine, TypeOK
<1>5. /\ DOMAIN next_line' = Threads
      /\ \A u \in Threads : next_line'[u] \in (block'[u] + 1) .. (block'[u + 1] + 1)
  BY Advance DEF KeepLine
<1>6. /\ lines' = lines /\ block' = block /\ phase' = phase
      /\ invalid_count' = invalid_count /\ reduced' = reduced
      /\ total_valid' = total_valid /\ total_invalid' = total_invalid
      /\ merged' = merged /\ all_records' = all_records
  BY DEF KeepLine
<1> QED
  BY <1>3, <1>4, <1>5, <1>6 DEF TypeOK, Record

LEMMA DropLineType ==
    ASSUME TypeOK, NEW t \in Threads, DropLine(t)
    PROVE  TypeOK'
<1>2. invalid_count' \in [Threads -> Nat]
  BY DEF DropLine, TypeOK
<1>3. /\ DOMAIN next_line' = Threads
      /\ \A u \in Threads : next_line'[u] \in (block'[u] + 1) .. (block'[u + 1] + 1)
  BY Advance DEF DropLine
<1>4. /\ lines' = lines /\ block' = block /\ phase' = phase
      /\ thread_records' = thread_records /\ valid_count' = valid_count
      /\ reduced' = reduced
      /\ total_valid' = total_valid /\ total_invalid' = total_invalid
      /\ merged' = merged /\ all_records' = all_records
  BY DEF DropLine
<1> QED
  BY <1>2, <1>3, <1>4 DEF TypeOK, Record

LEMMA ReduceType ==
    ASSUME TypeOK, NEW t \in Threads, Reduce(t)
    PROVE  TypeOK'
<1>1. total_valid' \in Nat /\ total_invalid' \in Nat
  <2>1. /\ total_valid \in Nat /\ total_invalid \in Nat
        /\ valid_count[t] \in Nat /\ invalid_count[t] \in Nat
    BY DEF TypeOK
  <2>2. /\ total_valid' = total_valid + valid_count[t]
        /\ total_invalid' = total_invalid + invalid_count[t]
    BY DEF Reduce
  <2> QED
    BY <2>1, <2>2
<1>2. reduced' \subseteq Threads
  BY DEF Reduce, TypeOK
<1>3. phase' \in {"parse", "reduce", "merge", "done"}
  BY DEF Reduce
<1>4. /\ lines' = lines /\ block' = block /\ next_line' = next_line
      /\ thread_records' = thread_records
      /\ valid_count' = valid_count /\ invalid_count' = invalid_count
      /\ merged' = merged /\ all_records' = all_records
  BY DEF Reduce
<1> QED
  BY <1>1, <1>2, <1>3, <1>4 DEF TypeOK, Record

LEMMA MergeType ==
    ASSUME TypeOK, MergeThread
    PROVE  TypeOK'
<1>1. merged \in Threads /\ merged' \in 0 .. NumThreads
  BY NumThreadsAssumption DEF MergeThread, TypeOK, Threads
<1>2. all_records' \in Seq(Record)
  BY <1>1, ConcatFacts DEF MergeThread, TypeOK
<1>3. /\ lines' = lines /\ block' = block /\ phase' = phase
      /\ next_line' = next_line /\ thread_records' = thread_records
      /\ valid_count' = valid_count /\ invalid_count' = invalid_count
      /\ reduced' = reduced
      /\ total_valid' = total_valid /\ total_invalid' = total_invalid
  BY DEF MergeThread
<1> QED
  BY <1>1, <1>2, <1>3 DEF TypeOK, Record

(* EndLoop and Return change the phase alone. *)
LEMMA PhaseType ==
    ASSUME TypeOK, EndLoop \/ Return
    PROVE  TypeOK'
<1>1. /\ phase' \in {"parse", "reduce", "merge", "done"}
      /\ lines' = lines /\ block' = block /\ next_line' = next_line
      /\ thread_records' = thread_records
      /\ valid_count' = valid_count /\ invalid_count' = invalid_count
      /\ reduced' = reduced
      /\ total_valid' = total_valid /\ total_invalid' = total_invalid
      /\ merged' = merged /\ all_records' = all_records
  BY DEF EndLoop, Return
<1> QED
  BY <1>1 DEF TypeOK, Record

LEMMA StutterType ==
    ASSUME TypeOK, UNCHANGED vars
    PROVE  TypeOK'
  BY DEF TypeOK, vars, Record

LEMMA NextType == TypeOK /\ [Next]_vars => TypeOK'
<1> SUFFICES ASSUME TypeOK, [Next]_vars
             PROVE  TypeOK'
  OBVIOUS
<1>1. ASSUME NEW t \in Threads, ThreadStep(t)
      PROVE  TypeOK'
  BY <1>1, KeepLineType, DropLineType, ReduceType DEF ThreadStep
<1>2. CASE EndLoop \/ Return
  BY <1>2, PhaseType
<1>3. CASE MergeThread
  BY <1>3, MergeType
<1>4. CASE Done \/ UNCHANGED vars
  BY <1>4, StutterType DEF Done
<1> QED
  BY <1>1, <1>2, <1>3, <1>4 DEF Next

(* Every variable of the parser keeps its type. *)
THEOREM TypeCorrect == Spec => []TypeOK
<1>1. Init => TypeOK
  BY InitType
<1>2. TypeOK /\ [Next]_vars => TypeOK'
  BY NextType
<1> QED
  BY <1>1, <1>2, PTL DEF Spec
-----------------------------------------------------------------------------
(* ParseInv', in terms of the lists after a step. *)
LEMMA Establish ==
    ASSUME lines' = lines,
           \A t \in Threads :
              /\ InOrderFrom(thread_records'[t], block'[t], next_line'[t] - 1)
              /\ valid_count'[t] = Len(thread_records'[t])
              /\ valid_count'[t] + invalid_count'[t] = next_line'[t] - 1 - block'[t],
           phase' # "parse" => \A t \in Threads : next_line'[t] = block'[t + 1] + 1,
           InOrderFrom(all_records', 0, block'[merged']),
           phase' \in {"parse", "reduce"} => merged' = 0,
           phase' = "done" => merged' = NumThreads
    PROVE  ParseInv'
<1>1. \A t \in Threads :
         InOrderFrom(thread_records'[t], block'[t], next_line'[t] - 1)
            <=> InOrderFrom(thread_records[t], block[t], next_line[t] - 1)'
  BY DEF InOrderFrom, RecordOf
<1>2. InOrderFrom(all_records', 0, block'[merged'])
         <=> InOrderFrom(all_records, 0, block[merged])'
  BY DEF InOrderFrom, RecordOf
<1> QED
  BY <1>1, <1>2 DEF ParseInv

LEMMA CalledParse == Called /\ lines \in Seq(Line) => ParseInv
<1> SUFFICES ASSUME Called, lines \in Seq(Line)
             PROVE  ParseInv
  OBVIOUS
<1>1. TypeOK
  BY CalledType
<1>2. \A a \in Nat : InOrderFrom(<< >>, a, a)
  BY DEF InOrderFrom
<1>3. \A t \in Threads : /\ block[t] \in Nat
                         /\ next_line[t] - 1 = block[t]
                         /\ thread_records[t] = << >>
                         /\ valid_count[t] = 0 /\ invalid_count[t] = 0
  BY <1>1, BlockFacts DEF Called
<1>4. \A t \in Threads :
         /\ InOrderFrom(thread_records[t], block[t], next_line[t] - 1)
         /\ valid_count[t] = Len(thread_records[t])
         /\ valid_count[t] + invalid_count[t] = next_line[t] - 1 - block[t]
  <2> SUFFICES ASSUME NEW t \in Threads
               PROVE  /\ InOrderFrom(thread_records[t], block[t], next_line[t] - 1)
                      /\ valid_count[t] = Len(thread_records[t])
                      /\ valid_count[t] + invalid_count[t] = next_line[t] - 1 - block[t]
    OBVIOUS
  <2>1. InOrderFrom(thread_records[t], block[t], next_line[t] - 1)
    BY <1>2, <1>3
  <2>2. valid_count[t] = Len(thread_records[t])
    BY <1>3
  <2>3. valid_count[t] + invalid_count[t] = next_line[t] - 1 - block[t]
    BY <1>3
  <2> QED
    BY <2>1, <2>2, <2>3
<1>5. all_records = << >> /\ merged = 0 /\ block[0] = 0 /\ phase = "parse"
  BY <1>1, BlockFacts DEF Called
<1> QED
  BY <1>2, <1>4, <1>5 DEF ParseInv

LEMMA InitParse == Init => ParseInv
BY CalledParse, FilesAssumption DEF Init

LEMMA KeepLineParse ==
    ASSUME TypeOK, ParseInv, NEW t \in Threads, KeepLine(t)
    PROVE  ParseInv'
<1>1. /\ lines' = lines /\ block' = block /\ phase' = phase /\ phase = "parse"
      /\ merged' = merged /\ all_records' = all_records
      /\ invalid_count' = invalid_count
  BY DEF KeepLine
<1> DEFINE n == next_line[t]
<1>2. /\ n \in 1 .. Len(lines)
      /\ n \in (block[t] + 1) .. block[t + 1]
      /\ block[t] \in Nat
      /\ RecordOf(n) \in Record
      /\ Valid(lines[n])
  BY OpenLine, BlockFacts DEF KeepLine
<1> DEFINE recs == thread_records[t]
<1>3. recs \in Seq(Record) /\ valid_count[t] \in Nat /\ invalid_count[t] \in Nat
  BY DEF TypeOK
<1>4. /\ InOrderFrom(recs, block[t], n - 1)
      /\ valid_count[t] = Len(recs)
      /\ valid_count[t] + invalid_count[t] = n - 1 - block[t]
  BY DEF ParseInv
<1>5. /\ thread_records'[t] = Append(recs, RecordOf(n))
      /\ valid_count'[t] = valid_count[t] + 1
      /\ next_line'[t] = n + 1
      /\ \A u \in Threads \ {t} : /\ thread_records'[u] = thread_records[u]
                                  /\ valid_count'[u] = valid_count[u]
                                  /\ next_line'[u] = next_line[u]
  BY DEF KeepLine, TypeOK
<1>6. InOrderFrom(Append(recs, RecordOf(n)), block[t], n)
  <2>1. n \in Nat /\ block[t] < n
    BY <1>2, BlockFacts
  <2> HIDE DEF n, recs
  <2> QED
    BY <1>2, <1>3, <1>4, <2>1, OrderAppend
<1>7. Len(Append(recs, RecordOf(n))) = Len(recs) + 1
  BY <1>2, <1>3, AppendFacts
<1>8. (n + 1) - 1 = n /\ (valid_count[t] + 1) + invalid_count[t] = n - block[t]
  <2> DEFINE b == block[t]
             v == valid_count[t]
             d == invalid_count[t]
  <2>1. n \in Int /\ b \in Int /\ v \in Int /\ d \in Int
    BY <1>2, <1>3
  <2>2. v + d = n - 1 - b
    BY <1>4
  <2> HIDE DEF n, b, v, d
  <2>3. (n + 1) - 1 = n /\ (v + 1) + d = n - b
    BY <2>1, <2>2
  <2> QED
    BY <2>3 DEF b, v, d
<1> HIDE DEF n, recs
<1>9. ASSUME NEW u \in Threads
      PROVE  /\ InOrderFrom(thread_records'[u], block'[u], next_line'[u] - 1)
             /\ valid_count'[u] = Len(thread_records'[u])
             /\ valid_count'[u] + invalid_count'[u] = next_line'[u] - 1 - block'[u]
  <2>1. CASE u = t
    BY <2>1, <1>1, <1>4, <1>5, <1>6, <1>7, <1>8
  <2>2. CASE u # t
    BY <2>2, <1>1, <1>5 DEF ParseInv
  <2> QED
    BY <2>1, <2>2
<1>10. InOrderFrom(all_records', 0, block'[merged']) /\ merged' = 0
  BY <1>1 DEF ParseInv
<1> QED
  BY <1>1, <1>9, <1>10, Establish

LEMMA DropLineParse ==
    ASSUME TypeOK, ParseInv, NEW t \in Threads, DropLine(t)
    PROVE  ParseInv'
<1>1. /\ lines' = lines /\ block' = block /\ phase' = phase /\ phase = "parse"
      /\ merged' = merged /\ all_records' = all_records
      /\ valid_count' = valid_count /\ thread_records' = thread_records
  BY DEF DropLine
<1> DEFINE n == next_line[t]
<1>2. /\ n \in 1 .. Len(lines)
      /\ n \in (block[t] + 1) .. block[t + 1]
      /\ block[t] \in Nat
      /\ ~ Valid(lines[n])
  BY OpenLine DEF DropLine
<1> DEFINE recs == thread_records[t]
<1>3. recs \in Seq(Record) /\ valid_count[t] \in Nat /\ invalid_count[t] \in Nat
  BY DEF TypeOK
<1>4. /\ InOrderFrom(recs, block[t], n - 1)
      /\ valid_count[t] = Len(recs)
      /\ valid_count[t] + invalid_count[t] = n - 1 - block[t]
  BY DEF ParseInv
<1>5. /\ invalid_count'[t] = invalid_count[t] + 1
      /\ next_line'[t] = n + 1
      /\ \A u \in Threads \ {t} : /\ invalid_count'[u] = invalid_count[u]
                                  /\ next_line'[u] = next_line[u]
  BY DEF DropLine, TypeOK
<1>6. InOrderFrom(recs, block[t], n)
  <2>1. n \in Nat
    BY <1>2, BlockFacts
  <2> HIDE DEF n, recs
  <2> QED
    BY <1>2, <1>3, <1>4, <2>1, OrderSkip
<1>7. (n + 1) - 1 = n /\ valid_count[t] + (invalid_count[t] + 1) = n - block[t]
  <2> DEFINE b == block[t]
             v == valid_count[t]
             d == invalid_count[t]
  <2>1. n \in Int /\ b \in Int /\ v \in Int /\ d \in Int
    BY <1>2, <1>3
  <2>2. v + d = n - 1 - b
    BY <1>4
  <2> HIDE DEF n, b, v, d
  <2>3. (n + 1) - 1 = n /\ v + (d + 1) = n - b
    BY <2>1, <2>2
  <2> QED
    BY <2>3 DEF b, v, d
<1>8. thread_records'[t] = recs
  BY <1>1
<1> HIDE DEF n, recs
<1>9. ASSUME NEW u \in Threads
      PROVE  /\ InOrderFrom(thread_records'[u], block'[u], next_line'[u] - 1)
             /\ valid_count'[u] = Len(thread_records'[u])
             /\ valid_count'[u] + invalid_count'[u] = next_line'[u] - 1 - block'[u]
  <2>1. CASE u = t
    BY <2>1, <1>1, <1>4, <1>5, <1>6, <1>7, <1>8
  <2>2. CASE u # t
    BY <2>2, <1>1, <1>5 DEF ParseInv
  <2> QED
    BY <2>1, <2>2
<1>10. InOrderFrom(all_records', 0, block'[merged']) /\ merged' = 0
  BY <1>1 DEF ParseInv
<1> QED
  BY <1>1, <1>9, <1>10, Establish

(* Steps after the loop leave the threads' lists and counts alone. *)
LEMMA ListsFrame ==
    ASSUME ParseInv, block' = block, next_line' = next_line,
           thread_records' = thread_records,
           valid_count' = valid_count, invalid_count' = invalid_count
    PROVE  \A t \in Threads :
              /\ InOrderFrom(thread_records'[t], block'[t], next_line'[t] - 1)
              /\ valid_count'[t] = Len(thread_records'[t])
              /\ valid_count'[t] + invalid_count'[t] = next_line'[t] - 1 - block'[t]
  BY DEF ParseInv

LEMMA EndLoopParse ==
    ASSUME TypeOK, ParseInv, EndLoop
    PROVE  ParseInv'
<1>1. /\ lines' = lines /\ block' = block /\ next_line' = next_line
      /\ thread_records' = thread_records
      /\ valid_count' = valid_count /\ invalid_count' = invalid_count
      /\ merged' = merged /\ all_records' = all_records
      /\ phase = "parse" /\ phase' = "reduce"
  BY DEF EndLoop
<1>2. ASSUME NEW t \in Threads
      PROVE  next_line[t] = block[t + 1] + 1
  <2>1. next_line[t] \in (block[t] + 1) .. (block[t + 1] + 1) /\ next_line[t] > block[t + 1]
    BY DEF EndLoop, TypeOK
  <2>2. block[t] \in Nat /\ block[t + 1] \in Nat
    BY BlockFacts
  <2> QED
    BY <2>1, <2>2
<1>3. InOrderFrom(all_records', 0, block'[merged']) /\ merged' = 0
  BY <1>1 DEF ParseInv
<1> QED
  BY <1>1, <1>2, <1>3, ListsFrame, Establish

LEMMA ReduceParse ==
    ASSUME TypeOK, ParseInv, NEW t \in Threads, Reduce(t)
    PROVE  ParseInv'
<1>1. /\ lines' = lines /\ block' = block /\ next_line' = next_line
      /\ thread_records' = thread_records
      /\ valid_count' = valid_count /\ invalid_count' = invalid_count
      /\ merged' = merged /\ all_records' = all_records
      /\ phase = "reduce" /\ phase' \in {"reduce", "merge"}
  BY DEF Reduce
<1>2. /\ InOrderFrom(all_records', 0, block'[merged']) /\ merged' = 0
      /\ \A u \in Threads : next_line'[u] = block'[u + 1] + 1
  BY <1>1 DEF ParseInv
<1> QED
  BY <1>1, <1>2, ListsFrame, Establish

LEMMA MergeParse ==
    ASSUME TypeOK, ParseInv, MergeThread
    PROVE  ParseInv'
<1>1. /\ lines' = lines /\ block' = block /\ next_line' = next_line
      /\ thread_records' = thread_records
      /\ valid_count' = valid_count /\ invalid_count' = invalid_count
      /\ merged' = merged + 1 /\ all_records' = all_records \o thread_records[merged]
      /\ phase = "merge" /\ phase' = phase
  BY DEF MergeThread
<1>2. merged \in Threads
  BY NumThreadsAssumption DEF MergeThread, TypeOK, Threads
<1>3. /\ block[merged] \in Nat /\ block[merged + 1] \in Nat
      /\ block[merged] <= block[merged + 1]
  BY <1>2, BlockFacts
<1>4. /\ \A u \in Threads : next_line[u] = block[u + 1] + 1
      /\ InOrderFrom(all_records, 0, block[merged])
      /\ InOrderFrom(thread_records[merged], block[merged], next_line[merged] - 1)
  BY <1>1, <1>2 DEF ParseInv
<1>5. next_line[merged] - 1 = block[merged + 1]
  BY <1>2, <1>3, <1>4
<1>6. all_records \in Seq(Record) /\ thread_records[merged] \in Seq(Record)
  BY <1>2 DEF TypeOK
<1>7. InOrderFrom(all_records \o thread_records[merged], 0, block[merged + 1])
  BY <1>3, <1>4, <1>5, <1>6, OrderConcat
<1>8. InOrderFrom(all_records', 0, block'[merged'])
  BY <1>1, <1>7
<1>9. \A u \in Threads : next_line'[u] = block'[u + 1] + 1
  BY <1>1, <1>4
<1> QED
  BY <1>1, <1>8, <1>9, ListsFrame, Establish

LEMMA ReturnParse ==
    ASSUME TypeOK, ParseInv, Return
    PROVE  ParseInv'
<1>1. /\ lines' = lines /\ block' = block /\ next_line' = next_line
      /\ thread_records' = thread_records
      /\ valid_count' = valid_count /\ invalid_count' = invalid_count
      /\ merged' = merged /\ all_records' = all_records
      /\ phase = "merge" /\ phase' = "done" /\ merged = NumThreads
  BY DEF Return
<1>2. /\ InOrderFrom(all_records', 0, block'[merged'])
      /\ \A u \in Threads : next_line'[u] = block'[u + 1] + 1
  BY <1>1 DEF ParseInv
<1> QED
  BY <1>1, <1>2, ListsFrame, Establish

LEMMA StutterParse ==
    ASSUME TypeOK, ParseInv, UNCHANGED vars
    PROVE  ParseInv'
<1>1. /\ lines' = lines /\ block' = block /\ next_line' = next_line
      /\ thread_records' = thread_records
      /\ valid_count' = valid_count /\ invalid_count' = invalid_count
      /\ merged' = merged /\ all_records' = all_records
      /\ phase' = phase
  BY DEF vars
<1>2. /\ InOrderFrom(all_records', 0, block'[merged'])
      /\ phase' # "parse" => \A u \in Threads : next_line'[u] = block'[u + 1] + 1
      /\ phase' \in {"parse", "reduce"} => merged' = 0
      /\ phase' = "done" => merged' = NumThreads
  BY <1>1 DEF ParseInv
<1> QED
  BY <1>1, <1>2, ListsFrame, Establish

LEMMA NextParse == TypeOK /\ ParseInv /\ [Next]_vars => ParseInv'
<1> SUFFICES ASSUME TypeOK, ParseInv, [Next]_vars
             PROVE  ParseInv'
  OBVIOUS
<1>1. ASSUME NEW t \in Threads, ThreadStep(t)
      PROVE  ParseInv'
  BY <1>1, KeepLineParse, DropLineParse, ReduceParse DEF ThreadStep
<1>2. CASE EndLoop
  BY <1>2, EndLoopParse
<1>3. CASE MergeThread
  BY <1>3, MergeParse
<1>4. CASE Return
  BY <1>4, ReturnParse
<1>5. CASE Done \/ UNCHANGED vars
  BY <1>5, StutterParse DEF Done
<1> QED
  BY <1>1, <1>2, <1>3, <1>4, <1>5 DEF Next

(***************************************************************************)
(* A thread's list is the parse of the part of its block it has been       *)
(* through, and the merged list that of the blocks merged so far.          *)
(***************************************************************************)
THEOREM InductiveInvariant == Spec => []ParseInv
<1>1. Init => ParseInv
  BY InitParse
<1>2. TypeOK /\ TypeOK' /\ ParseInv /\ [Next]_vars => ParseInv'
  BY NextParse
<1> QED
  BY <1>1, <1>2, TypeCorrect, PTL DEF Spec

(* When all blocks are merged, the merged list is the parse of all lines. *)
LEMMA ParsedInOrder == TypeOK /\ ParseInv => FileOrder
<1> SUFFICES ASSUME TypeOK, ParseInv, phase = "done"
             PROVE  InOrderFrom(all_records, 0, Len(lines))
  BY DEF FileOrder
<1>1. InOrderFrom(all_records, 0, block[merged]) /\ merged = NumThreads
  BY DEF ParseInv
<1>2. block[NumThreads] = Len(lines)
  BY BlockFacts
<1> QED
  BY <1>1, <1>2

(***************************************************************************)
(* What parse_csv_parallel returns are the valid lines of the file, all of *)
(* them, in file order.                                                    *)
(***************************************************************************)
THEOREM OrderOfFile == Spec => []FileOrder
BY ParsedInOrder, TypeCorrect, InductiveInvariant, PTL

-----------------------------------------------------------------------------
(***************************************************************************)
(* The counts: whatever the order of the reduction, the totals are those   *)
(* of the lines in the blocks of the threads reduced so far.               *)
(***************************************************************************)
(* An increasing sequence has as many elements as places, up to any place. *)
LEMMA PrefixCount ==
    ASSUME NEW s \in Seq(Int), Increasing(s), NEW m \in 0 .. Len(s)
    PROVE  Cardinality({s[k] : k \in 1 .. m}) = m
<1> DEFINE image == {s[k] : k \in 1 .. m}
           f == [k \in 1 .. m |-> s[k]]
<1>1. \A k \in 1 .. m : k \in 1 .. Len(s) /\ s[k] \in Int
  OBVIOUS
<1>2. f \in [1 .. m -> image]
  OBVIOUS
<1>3. ASSUME NEW k \in 1 .. m, NEW l \in 1 .. m, f[k] = f[l]
      PROVE  k = l
  <2>1. k < l => s[k] < s[l]
    BY <1>1 DEF Increasing
  <2>2. l < k => s[l] < s[k]
    BY <1>1 DEF Increasing
  <2> QED
    BY <1>1, <1>3, <2>1, <2>2
<1>4. \A x \in image : \E k \in 1 .. m : f[k] = x
  OBVIOUS
<1>5. f \in Bijection(1 .. m, image)
  BY <1>2, <1>3, <1>4 DEF Bijection, Injection, Surjection, IsInjective
<1>6. ExistsBijection(1 .. m, image)
  BY <1>5 DEF ExistsBijection
<1>7. m \in Nat
  OBVIOUS
<1> QED
  BY <1>6, <1>7, FS_CountingElements

LEMMA InOrderCount ==
    ASSUME TypeOK, NEW recs \in Seq(Record), NEW from \in Nat, NEW to \in Nat,
           InOrderFrom(recs, from, to)
    PROVE  Len(recs) = Cardinality(ValidOf((from + 1) .. to))
<1> DEFINE s == [k \in 1 .. Len(recs) |-> recs[k].line]
<1>1. Len(recs) \in Nat
  OBVIOUS
<1>2. \A k \in 1 .. Len(recs) : /\ recs[k].line \in (from + 1) .. to
                               /\ Valid(lines[recs[k].line])
  BY DEF InOrderFrom
<1>3. /\ s \in Seq(Int) /\ Len(s) = Len(recs)
      /\ \A k \in 1 .. Len(recs) : s[k] = recs[k].line
  BY <1>1, <1>2
<1>4. \A k, m \in 1 .. Len(recs) : k < m => recs[k].line < recs[m].line
  BY DEF InOrderFrom
<1>5. \A n \in (from + 1) .. to : Valid(lines[n]) => \E k \in 1 .. Len(recs) : recs[k].line = n
  BY DEF InOrderFrom
<1> HIDE DEF s
<1>6. Increasing(s)
  <2> SUFFICES ASSUME NEW n \in 1 .. Len(s), NEW k \in 1 .. (n - 1) PROVE s[k] < s[n]
    BY DEF Increasing
  <2>1. k \in 1 .. Len(recs) /\ n \in 1 .. Len(recs) /\ k < n
    BY <1>1, <1>3
  <2> QED
    BY <1>3, <1>4, <2>1
<1>7. {s[k] : k \in 1 .. Len(recs)} = ValidOf((from + 1) .. to)
  <2>1. \A k \in 1 .. Len(recs) : s[k] \in ValidOf((from + 1) .. to)
    BY <1>2, <1>3 DEF ValidOf
  <2>2. ASSUME NEW n \in ValidOf((from + 1) .. to)
        PROVE  \E k \in 1 .. Len(recs) : s[k] = n
    <3>1. n \in (from + 1) .. to /\ Valid(lines[n])
      BY DEF ValidOf
    <3>2. PICK k \in 1 .. Len(recs) : recs[k].line = n
      BY <1>5, <3>1
    <3> QED
      BY <1>3, <3>2
  <2> QED
    BY <2>1, <2>2, Zenon
<1>8. Len(recs) \in 0 .. Len(s)
  BY <1>1, <1>3
<1> QED
  BY <1>3, <1>6, <1>7, <1>8, PrefixCount

(* The blocks are apart and cover the lines.                               *)
LEMMA BlocksApart ==
    ASSUME TypeOK, NEW t \in Threads, NEW u \in Threads, t < u
    PROVE  block[t + 1] <= block[u]
<1> DEFINE P == {m \in Nat : (t + 1) + m <= NumThreads => block[t + 1] <= block[(t + 1) + m]}
<1>1. t \in Nat /\ u \in Nat /\ t + 1 \in 0 .. NumThreads /\ NumThreads \in Nat
  BY NumThreadsAssumption DEF Threads
<1>2. /\ \A k \in 0 .. NumThreads : block[k] \in Int
      /\ \A k \in Threads : block[k] <= block[k + 1]
  BY BlockFacts
<1>3. 0 \in P
  BY <1>1, <1>2
<1>4. ASSUME NEW m \in Nat, m \in P PROVE m + 1 \in P
  <2> SUFFICES ASSUME (t + 1) + (m + 1) <= NumThreads
               PROVE  block[t + 1] <= block[(t + 1) + (m + 1)]
    BY <1>4
  <2> DEFINE k == (t + 1) + m
  <2>1. /\ k \in Threads /\ k + 1 = (t + 1) + (m + 1)
        /\ k \in 0 .. NumThreads /\ k + 1 \in 0 .. NumThreads /\ k <= NumThreads
    BY <1>1 DEF Threads
  <2>2. block[t + 1] <= block[k]
    BY <1>4, <2>1
  <2> HIDE DEF k
  <2>3. block[k] <= block[k + 1] /\ block[k] \in Int /\ block[k + 1] \in Int /\ block[t + 1] \in Int
    BY <1>1, <1>2, <2>1
  <2> QED
    BY <2>1, <2>2, <2>3
<1> HIDE DEF P
<1>5. u - (t + 1) \in P
  <2>1. u - (t + 1) \in Nat
    BY <1>1
  <2> QED
    BY <1>3, <1>4, <2>1, Induction
<1>6. (t + 1) + (u - (t + 1)) = u /\ u <= NumThreads
  BY <1>1 DEF Threads
<1> QED
  BY <1>5, <1>6 DEF P

LEMMA BlocksCover ==
    ASSUME TypeOK
    PROVE  UNION {BlockOf(t) : t \in Threads} = 1 .. Len(lines)
<1>1. /\ Len(lines) \in Nat /\ block[0] = 0 /\ block[NumThreads] = Len(lines)
      /\ \A t \in 0 .. NumThreads : block[t] \in 0 .. Len(lines)
  BY BlockFacts
<1>2. \A t \in Threads : t \in 0 .. NumThreads /\ t + 1 \in 0 .. NumThreads
  BY NumThreadsAssumption DEF Threads
<1>3. \A t \in Threads : BlockOf(t) \subseteq 1 .. Len(lines)
  BY <1>1, <1>2 DEF BlockOf
<1>4. ASSUME NEW n \in 1 .. Len(lines)
      PROVE  \E t \in Threads : n \in BlockOf(t)
  <2> DEFINE U == {t \in 0 .. NumThreads : n <= block[t]}
  <2>1. U \subseteq Nat /\ NumThreads \in U
    BY <1>1, NumThreadsAssumption
  <2>2. PICK t \in U : \A u \in U : t <= u
    BY <2>1, LeastNatural
  <2>3. t \in 0 .. NumThreads /\ n <= block[t]
    BY <2>2
  <2>4. t # 0
    BY <1>1, <2>3
  <2>5. t - 1 \in Threads /\ t - 1 \in 0 .. NumThreads /\ (t - 1) + 1 = t /\ ~ (t <= t - 1)
    BY <2>3, <2>4, NumThreadsAssumption DEF Threads
  <2>6. ~ (n <= block[t - 1])
    BY <2>2, <2>5
  <2>7. block[t - 1] \in Int /\ block[t] \in Int
    BY <1>1, <2>3, <2>5
  <2>8. n \in BlockOf(t - 1)
    BY <2>3, <2>5, <2>6, <2>7 DEF BlockOf
  <2> QED
    BY <2>5, <2>8
<1> QED
  BY <1>3, <1>4

LEMMA ReducedFacts ==
    ASSUME TypeOK
    PROVE  /\ Reduced \subseteq 1 .. Len(lines)
           /\ IsFiniteSet(1 .. Len(lines)) /\ Cardinality(1 .. Len(lines)) = Len(lines)
           /\ \A t \in Threads \ reduced : Reduced \cap BlockOf(t) = {}
<1>1. Reduced \subseteq 1 .. Len(lines)
  <2>1. reduced \subseteq Threads
    BY DEF TypeOK
  <2> QED
    BY <2>1, BlocksCover DEF Reduced
<1>2. IsFiniteSet(1 .. Len(lines)) /\ Cardinality(1 .. Len(lines)) = Len(lines)
  <2>1. Len(lines) \in Nat
    BY BlockFacts
  <2>2. \A m \in Nat : IsFiniteSet(1 .. m) /\ Cardinality(1 .. m) = m
    BY FS_Interval
  <2> QED
    BY <2>1, <2>2
<1>3. ASSUME NEW t \in Threads, NEW u \in Threads, t # u
      PROVE  BlockOf(t) \cap BlockOf(u) = {}
  <2>1. t \in Int /\ u \in Int /\ t + 1 \in 0 .. NumThreads /\ u + 1 \in 0 .. NumThreads
        /\ t \in 0 .. NumThreads /\ u \in 0 .. NumThreads
    BY NumThreadsAssumption DEF Threads
  <2>2. /\ block[t] \in Int /\ block[u] \in Int
        /\ block[t + 1] \in Int /\ block[u + 1] \in Int
    BY <2>1, BlockFacts
  <2>3. block[t + 1] <= block[u] \/ block[u + 1] <= block[t]
    BY <1>3, <2>1, BlocksApart
  <2> DEFINE a == block[t]
             b == block[t + 1]
             c == block[u]
             d == block[u + 1]
  <2> HIDE DEF a, b, c, d
  <2>4. ((a + 1) .. b) \cap ((c + 1) .. d) = {}
    BY <2>2, <2>3 DEF a, b, c, d
  <2> QED
    BY <2>4 DEF BlockOf, a, b, c, d
<1>4. ASSUME NEW t \in Threads \ reduced PROVE Reduced \cap BlockOf(t) = {}
  <2>1. reduced \subseteq Threads
    BY DEF TypeOK
  <2>2. \A u \in reduced : BlockOf(u) \cap BlockOf(t) = {}
    BY <1>3, <2>1
  <2> QED
    BY <2>2 DEF Reduced
<1> QED
  BY <1>1, <1>2, <1>4

LEMMA CalledTotals == Called => TotalsInv
<1> SUFFICES ASSUME Called PROVE TotalsInv
  OBVIOUS
<1>1. reduced = {} /\ total_valid = 0 /\ total_invalid = 0 /\ phase = "parse"
  BY DEF Called
<1>2. Reduced = {} /\ ValidOf(Reduced) = {}
  BY <1>1 DEF Reduced, ValidOf
<1> QED
  BY <1>1, <1>2, FS_EmptySet DEF TotalsInv

LEMMA TotalsFrame ==
    ASSUME TotalsInv, lines' = lines, block' = block, reduced' = reduced,
           total_valid' = total_valid, total_invalid' = total_invalid,
           phase' = "parse" => phase = "parse",
           phase' \in {"merge", "done"} => phase \in {"merge", "done"}
    PROVE  TotalsInv'
<1>1. Reduced' = Reduced
  BY DEF Reduced, BlockOf
<1>2. ValidOf(Reduced)' = ValidOf(Reduced)
  BY <1>1 DEF ValidOf, Valid, tokenize_csv_line, validate_schema, parse_value
<1> QED
  BY <1>1, <1>2 DEF TotalsInv

LEMMA ReduceTotals ==
    ASSUME TypeOK, ParseInv, TotalsInv, NEW t \in Threads, Reduce(t)
    PROVE  TotalsInv'
<1> DEFINE R == Reduced
           B == BlockOf(t)
           recs == thread_records[t]
<1>1. /\ lines' = lines /\ block' = block /\ reduced' = reduced \cup {t}
      /\ total_valid' = total_valid + valid_count[t]
      /\ total_invalid' = total_invalid + invalid_count[t]
      /\ phase = "reduce" /\ t \notin reduced
      /\ phase' = IF reduced' = Threads THEN "merge" ELSE "reduce"
  BY DEF Reduce
<1>2. /\ block[t] \in Nat /\ block[t + 1] \in Nat /\ block[t] <= block[t + 1]
      /\ block[t + 1] <= Len(lines)
  <2>1. t \in 0 .. NumThreads /\ t + 1 \in 0 .. NumThreads
    BY NumThreadsAssumption DEF Threads
  <2> QED
    BY <2>1, BlockFacts
<1>3. /\ InOrderFrom(recs, block[t], block[t + 1])
      /\ valid_count[t] = Len(recs)
      /\ valid_count[t] + invalid_count[t] = block[t + 1] - block[t]
  <2>1. next_line[t] - 1 = block[t + 1]
    BY <1>1, <1>2 DEF ParseInv
  <2>2. /\ InOrderFrom(recs, block[t], next_line[t] - 1)
        /\ valid_count[t] = Len(recs)
        /\ valid_count[t] + invalid_count[t] = next_line[t] - 1 - block[t]
    BY DEF ParseInv
  <2> QED
    BY <2>1, <2>2
<1>4. /\ total_valid \in Nat /\ total_invalid \in Nat
      /\ valid_count[t] \in Nat /\ invalid_count[t] \in Nat /\ recs \in Seq(Record)
  BY DEF TypeOK
<1>5. valid_count[t] = Cardinality(ValidOf(B))
  BY <1>2, <1>3, <1>4, InOrderCount DEF BlockOf
<1>6. valid_count[t] + invalid_count[t] = Cardinality(B)
  <2> DEFINE a == block[t]
             b == block[t + 1]
  <2>1. \A x, y \in Int : Cardinality(x .. y) = IF x > y THEN 0 ELSE y - x + 1
    BY FS_Interval
  <2>2. a \in Nat /\ b \in Nat /\ a <= b /\ a + 1 \in Int
    BY <1>2
  <2> HIDE DEF a, b
  <2>3. Cardinality((a + 1) .. b) = IF a + 1 > b THEN 0 ELSE b - (a + 1) + 1
    BY <2>1, <2>2
  <2>4. Cardinality((a + 1) .. b) = b - a
    BY <2>2, <2>3
  <2> QED
    BY <1>3, <2>4 DEF BlockOf, a, b
<1>7. /\ R \subseteq 1 .. Len(lines) /\ R \cap B = {} /\ B \subseteq 1 .. Len(lines)
      /\ IsFiniteSet(1 .. Len(lines))
  BY <1>1, ReducedFacts, BlocksCover
<1>8. Reduced' = R \cup B
  BY <1>1 DEF Reduced, BlockOf
<1>9. ValidOf(Reduced)' = ValidOf(R) \cup ValidOf(B)
  BY <1>1, <1>8 DEF ValidOf, Valid, tokenize_csv_line, validate_schema, parse_value
<1> HIDE DEF R, B, recs
<1>10. ASSUME NEW S \in SUBSET (1 .. Len(lines)), NEW T \in SUBSET (1 .. Len(lines)),
              S \cap T = {}
       PROVE  Cardinality(S \cup T) = Cardinality(S) + Cardinality(T)
  <2>1. IsFiniteSet(S) /\ IsFiniteSet(T)
    BY <1>7, FS_Subset
  <2>2. Cardinality(S) \in Nat /\ Cardinality(T) \in Nat /\ Cardinality(S \cap T) = 0
    BY <1>10, <2>1, FS_CardinalityType, FS_EmptySet
  <2>3. Cardinality(S \cup T) = Cardinality(S) + Cardinality(T) - Cardinality(S \cap T)
    BY <2>1, FS_Union
  <2>4. \A a, b \in Nat : a + b - 0 = a + b
    OBVIOUS
  <2> QED
    BY <2>2, <2>3, <2>4, Zenon
<1>11. Cardinality(Reduced') = Cardinality(R) + Cardinality(B)
  BY <1>7, <1>8, <1>10
<1>12. Cardinality(ValidOf(Reduced)') = Cardinality(ValidOf(R)) + Cardinality(ValidOf(B))
  <2>1. /\ ValidOf(R) \in SUBSET (1 .. Len(lines)) /\ ValidOf(B) \in SUBSET (1 .. Len(lines))
        /\ ValidOf(R) \cap ValidOf(B) = {}
    BY <1>7 DEF ValidOf
  <2> QED
    BY <1>9, <1>10, <2>1
<1>13. /\ total_valid = Cardinality(ValidOf(R))
       /\ total_valid + total_invalid = Cardinality(R)
  BY DEF TotalsInv, R
<1>14. total_valid' = Cardinality(ValidOf(Reduced)')
  BY <1>1, <1>5, <1>12, <1>13
<1>15. total_valid' + total_invalid' = Cardinality(Reduced')
  <2> DEFINE a == total_valid
             b == total_invalid
             c == valid_count[t]
             d == invalid_count[t]
  <2>1. /\ a \in Nat /\ b \in Nat /\ c \in Nat /\ d \in Nat
        /\ total_valid' = a + c /\ total_invalid' = b + d
        /\ a + b = Cardinality(R) /\ c + d = Cardinality(B)
    BY <1>1, <1>4, <1>6, <1>13
  <2> HIDE DEF a, b, c, d
  <2>2. (a + c) + (b + d) = (a + b) + (c + d)
    BY <2>1
  <2> QED
    BY <1>11, <2>1, <2>2
<1> QED
  BY <1>1, <1>14, <1>15 DEF TotalsInv

LEMMA NextTotals == TypeOK /\ ParseInv /\ TotalsInv /\ [Next]_vars => TotalsInv'
<1> SUFFICES ASSUME TypeOK, ParseInv, TotalsInv, [Next]_vars
             PROVE  TotalsInv'
  OBVIOUS
<1>1. ASSUME NEW t \in Threads, KeepLine(t) \/ DropLine(t)
      PROVE  TotalsInv'
  BY <1>1, TotalsFrame DEF KeepLine, DropLine
<1>2. ASSUME NEW t \in Threads, Reduce(t)
      PROVE  TotalsInv'
  BY <1>2, ReduceTotals
<1>3. CASE EndLoop
  BY <1>3, TotalsFrame DEF EndLoop
<1>4. CASE MergeThread \/ Return
  BY <1>4, TotalsFrame DEF MergeThread, Return
<1>5. CASE Done \/ UNCHANGED vars
  BY <1>5, TotalsFrame DEF Done, vars
<1> QED
  BY <1>1, <1>2, <1>3, <1>4, <1>5 DEF Next, ThreadStep

(* When the call has returned, the totals are the counts of all the lines. *)
LEMMA TotalsOfTheFile ==
    ASSUME TypeOK, ParseInv, TotalsInv, phase = "done"
    PROVE  /\ total_valid = Len(all_records)
           /\ total_valid + total_invalid = Len(lines)
<1>1. Reduced = 1 .. Len(lines)
  BY BlocksCover DEF TotalsInv, Reduced
<1>2. InOrderFrom(all_records, 0, Len(lines))
  BY ParsedInOrder DEF FileOrder
<1>3. all_records \in Seq(Record) /\ Len(lines) \in Nat
  BY BlockFacts DEF TypeOK
<1>4. Len(all_records) = Cardinality(ValidOf(1 .. Len(lines)))
  <2>1. Len(all_records) = Cardinality(ValidOf((0 + 1) .. Len(lines)))
    BY <1>2, <1>3, InOrderCount
  <2> QED
    BY <2>1
<1> QED
  BY <1>1, <1>4, ReducedFacts DEF TotalsInv

-----------------------------------------------------------------------------
(***************************************************************************)
(* The parser on the index: what was proved of each alone holds of the two *)
(* together, and the lines that are parsed are those of the file.          *)
(***************************************************************************)
(***************************************************************************)
(* The composition implements the scan: once the index is there, nothing   *)
(* changes it.                                                             *)
(***************************************************************************)
THEOREM ImplementsIndex == InputSpec => IndexSpec
<1>1. InputInit => IndexInit
  BY DEF InputInit
<1>2. [InputNext]_inputVars => [IndexNext]_indexVars
  BY DEF InputNext, ScanStep, StartParsing, InputThreadStep, InputMainStep, InputDone,
     inputVars, IndexNext
<1> QED
  BY <1>1, <1>2, PTL DEF InputSpec, IndexSpec

(* Of a file of any length, every data line is in the index the parser gets. *)
THEOREM IndexOfTheFile == InputSpec => []IndexComplete
BY ImplementsIndex, IndexIsComplete, PTL
-----------------------------------------------------------------------------
(* What the tests see of a line is a line of the parser. *)
LEMMA SeenIsLine == \A text : Seen(text) \in Line
<1> SUFFICES ASSUME NEW text PROVE Seen(text) \in Line
  OBVIOUS
<1>1. ASSUME NEW field PROVE TokenOf(field) \in Int
  <2> DEFINE place == CHOOSE n \in 1 .. Len(Sensors) : Sensors[n] = field
  <2>1. CASE \E n \in 1 .. Len(Sensors) : Sensors[n] = field
    <3>1. place \in 1 .. Len(Sensors)
      BY <2>1
    <3>2. place - 1 \in Int
      <4> HIDE DEF place
      <4> QED
        BY <3>1
    <3> QED
      BY <2>1, <3>2 DEF TokenOf
  <2>2. CASE ~ \E n \in 1 .. Len(Sensors) : Sensors[n] = field
    BY <2>2 DEF TokenOf
  <2> QED
    BY <2>1, <2>2
<1>2. TokenOf(Fields(text)[2]) \in Int
  BY <1>1
<1> QED
  BY <1>2 DEF Seen, Line

(* The lines are those the index leads to. *)
FromIndex == lines = [n \in 1 .. Len(offsets) |-> Seen(get_line(offsets[n]))]

LEMMA GetLineStays ==
    ASSUME UNCHANGED indexVars
    PROVE  [n \in 1 .. Len(offsets) |-> Seen(get_line(offsets[n]))]'
              = [n \in 1 .. Len(offsets) |-> Seen(get_line(offsets[n]))]
<1>1. UNCHANGED <<data, offsets>>
  BY DEF indexVars
<1>2. ASSUME NEW offset PROVE LineEnd(offset)' = LineEnd(offset)
  BY <1>1 DEF LineEnd, At, size
<1>3. ASSUME NEW offset PROVE get_line(offset)' = get_line(offset)
  BY <1>1, <1>2 DEF get_line
<1>4. ASSUME NEW n PROVE get_line(offsets[n])' = get_line(offsets[n])
  BY <1>1, <1>2 DEF get_line
<1> QED
  BY <1>1, <1>4

(* Before the call the parser is where it begins; after it, its lines are  *)
(* those of the index, which is complete.                                  *)
CallInv ==
    /\ ~ started => Called /\ lines = << >>
    /\ started => pc = "done" /\ FromIndex
    /\ TypeOK
    /\ ParseInv

(* Only the parser's own steps change its state. *)
LEMMA ParserFrame ==
    ASSUME CallInv, UNCHANGED vars
    PROVE  TypeOK' /\ ParseInv' /\ (Called => Called') /\ lines' = lines
BY StutterType, StutterParse DEF CallInv, vars, Called

LEMMA CallStep ==
    ASSUME CallInv, IndexTypeOK, [InputNext]_inputVars
    PROVE  CallInv'
<1>1. CASE UNCHANGED inputVars \/ InputDone
  <2>1. UNCHANGED <<indexVars, vars, started>>
    BY <1>1 DEF inputVars, InputDone
  <2>2. pc' = pc /\ (FromIndex => FromIndex')
    BY <2>1, ParserFrame, GetLineStays DEF FromIndex, indexVars
  <2> QED
    BY <2>1, <2>2, ParserFrame DEF CallInv
<1>2. CASE ScanStep
  <2>1. pc # "done"
    BY <1>2 DEF ScanStep, SkipByte, EndLine, StartLine, Finish
  <2>2. ~ started /\ started' = started /\ UNCHANGED vars
    BY <1>2, <2>1 DEF ScanStep, CallInv
  <2> QED
    BY <2>2, ParserFrame DEF CallInv
<1>3. CASE StartParsing
  <2>1. /\ pc = "done" /\ ~ started /\ started' = TRUE
        /\ UNCHANGED indexVars
        /\ lines' = [n \in 1 .. Len(offsets) |-> Seen(get_line(offsets[n]))]
    BY <1>3 DEF StartParsing
  <2>2. lines' \in Seq(Line)
    BY <2>1, SeenIsLine DEF IndexTypeOK
  <2>3. Called'
    BY <1>3, <2>1 DEF StartParsing, CallInv, Called
  <2>4. TypeOK' /\ ParseInv'
    <3>1. (Called /\ lines \in Seq(Line))'
      BY <2>2, <2>3
    <3> QED
      BY <3>1, CalledType, CalledParse, PTL
  <2>5. pc' = "done"
    BY <2>1 DEF indexVars
  <2>6. FromIndex'
    BY <2>1, GetLineStays DEF FromIndex
  <2> QED
    BY <2>1, <2>4, <2>5, <2>6 DEF CallInv
<1>4. CASE InputMainStep \/ \E t \in Threads : InputThreadStep(t)
  <2>1. started /\ started' = started /\ UNCHANGED indexVars /\ Next
    BY <1>4 DEF InputMainStep, InputThreadStep, Next
  <2>2. TypeOK' /\ ParseInv'
    BY <2>1, NextType, NextParse DEF CallInv
  <2>3. lines' = lines
    BY <2>1 DEF Next, ThreadStep, KeepLine, DropLine, Reduce, EndLoop, MergeThread,
       Return, Done, vars
  <2>4. FromIndex => FromIndex'
    BY <2>1, <2>3, GetLineStays DEF FromIndex
  <2>5. pc' = pc
    BY <2>1 DEF indexVars
  <2> QED
    BY <2>1, <2>2, <2>4, <2>5 DEF CallInv
<1> QED
  BY <1>1, <1>2, <1>3, <1>4 DEF InputNext

LEMMA CallInvariant == InputSpec => []CallInv
<1>1. InputInit => CallInv
  <2>1. InputInit => lines \in Seq(Line)
    BY DEF InputInit
  <2> QED
    BY <2>1, CalledType, CalledParse DEF InputInit, CallInv
<1>2. CallInv /\ IndexTypeOK /\ [InputNext]_inputVars => CallInv'
  BY CallStep
<1>3. InputSpec => []IndexTypeOK
  BY ImplementsIndex, IndexTypeCorrect, PTL
<1> QED
  BY <1>1, <1>2, <1>3, PTL DEF InputSpec

(* The parser's own invariant holds when it is called with the index.      *)
THEOREM ParserInvariant == InputSpec => []ParseInv
<1>1. CallInv => ParseInv
  BY DEF CallInv
<1> QED
  BY <1>1, CallInvariant, PTL

(* What main() gets are the valid ones of the lines the index led to, all  *)
(* of them, in file order.                                                 *)
THEOREM RecordsInFileOrder == InputSpec => []FileOrder
<1>1. CallInv => FileOrder
  BY ParsedInOrder DEF CallInv
<1> QED
  BY <1>1, CallInvariant, PTL
-----------------------------------------------------------------------------
(* Of a complete index, the n-th offset is the n-th start.                 *)
LEMMA NthOffset ==
    ASSUME IndexTypeOK, IndexComplete, pc = "done"
    PROVE  /\ Cardinality(LineStarts(size)) = Len(offsets)
           /\ \A n \in 1 .. Len(offsets) : NthStart(n) = offsets[n]
<1>1. /\ {offsets[n] : n \in 1 .. Len(offsets)} = LineStarts(size)
      /\ Increasing(offsets)
      /\ offsets \in Seq(Int)
  <2>1. size \in Nat
    BY DEF IndexTypeOK, size
  <2> QED
    BY <2>1 DEF IndexComplete, IndexTypeOK
<1>2. Cardinality(LineStarts(size)) = Len(offsets)
  BY <1>1, PrefixCount
<1>3. ASSUME NEW n \in 1 .. Len(offsets)
      PROVE  Cardinality({q \in LineStarts(size) : q < offsets[n]}) = n - 1
  <2>1. \A k \in 1 .. Len(offsets) : offsets[k] < offsets[n] <=> k \in 1 .. (n - 1)
    <3> SUFFICES ASSUME NEW k \in 1 .. Len(offsets)
                 PROVE  offsets[k] < offsets[n] <=> k \in 1 .. (n - 1)
      OBVIOUS
    <3>1. offsets[k] \in Int /\ offsets[n] \in Int
      BY <1>1
    <3>2. k \in 1 .. (n - 1) => offsets[k] < offsets[n]
      BY <1>1 DEF Increasing
    <3>3. n \in 1 .. (k - 1) => offsets[n] < offsets[k]
      BY <1>1 DEF Increasing
    <3>4. k \in 1 .. (n - 1) \/ k = n \/ n \in 1 .. (k - 1)
      OBVIOUS
    <3> QED
      BY <3>1, <3>2, <3>3, <3>4
  <2>2. {q \in LineStarts(size) : q < offsets[n]} = {offsets[k] : k \in 1 .. (n - 1)}
    BY <1>1, <2>1
  <2>3. n - 1 \in 0 .. Len(offsets)
    OBVIOUS
  <2> QED
    BY <1>1, <2>2, <2>3, PrefixCount
<1>4. ASSUME NEW n \in 1 .. Len(offsets)
      PROVE  NthStart(n) = offsets[n]
  <2> DEFINE Before(p) == Cardinality({q \in LineStarts(size) : q < p})
  <2>1. offsets[n] \in LineStarts(size) /\ Before(offsets[n]) = n - 1
    BY <1>1, <1>3
  <2>2. ASSUME NEW p \in LineStarts(size), Before(p) = n - 1
        PROVE  p = offsets[n]
    <3>1. PICK m \in 1 .. Len(offsets) : p = offsets[m]
      BY <1>1
    <3>2. Before(p) = m - 1
      BY <1>3, <3>1
    <3> QED
      BY <2>2, <3>1, <3>2
  <2> HIDE DEF Before
  <2>3. (CHOOSE p \in LineStarts(size) : Before(p) = n - 1) = offsets[n]
    BY <2>1, <2>2
  <2> QED
    BY <2>3 DEF NthStart, Before
<1> QED
  BY <1>2, <1>4

(***************************************************************************)
(* The totals of the call on the index, inductive beside CallInv.          *)
(***************************************************************************)
LEMMA TotalsStep ==
    ASSUME CallInv, TotalsInv, [InputNext]_inputVars
    PROVE  TotalsInv'
<1>1. CASE UNCHANGED inputVars \/ InputDone \/ ScanStep
  <2>1. UNCHANGED vars
    BY <1>1 DEF inputVars, InputDone, ScanStep
  <2> QED
    BY <2>1, TotalsFrame DEF vars
<1>2. CASE StartParsing
  <2>1. Called'
    BY <1>2 DEF StartParsing, CallInv, Called
  <2>2. (Called => TotalsInv)'
    BY CalledTotals, PTL
  <2> QED
    BY <2>1, <2>2
<1>3. CASE InputMainStep \/ \E t \in Threads : InputThreadStep(t)
  <2>1. Next
    BY <1>3 DEF InputMainStep, InputThreadStep, Next
  <2> QED
    BY <2>1, NextTotals DEF CallInv
<1> QED
  BY <1>1, <1>2, <1>3 DEF InputNext

LEMMA TotalsInvariant == InputSpec => []TotalsInv
<1>1. InputInit => TotalsInv
  BY CalledTotals DEF InputInit
<1>2. CallInv /\ TotalsInv /\ [InputNext]_inputVars => TotalsInv'
  BY TotalsStep
<1> QED
  BY <1>1, <1>2, CallInvariant, PTL DEF InputSpec

(***************************************************************************)
(* From bytes to records, for any file: the n-th line that is parsed is    *)
(* the n-th data line, counted without the index; the records are those of *)
(* the lines that pass the tests, in the order of the file; and, in        *)
(* whatever order the threads' counts were reduced, the totals are the     *)
(* records and the data lines there are.                                   *)
(***************************************************************************)
THEOREM RecordsOfTheFile == InputSpec => []RecordsAreTheFile
<1>1. IndexTypeOK /\ IndexComplete /\ CallInv /\ TotalsInv /\ FileOrder => RecordsAreTheFile
  <2> SUFFICES ASSUME IndexTypeOK, IndexComplete, CallInv, TotalsInv, FileOrder,
                      started, phase = "done"
               PROVE  /\ LinesOfTheFile
                      /\ InOrderFrom(all_records, 0, Len(lines))
                      /\ total_valid = Len(all_records)
                      /\ total_valid + total_invalid = Cardinality(LineStarts(size))
    BY DEF RecordsAreTheFile
  <2>1. pc = "done" /\ lines = [n \in 1 .. Len(offsets) |-> Seen(get_line(offsets[n]))]
    BY DEF CallInv, FromIndex
  <2>2. Len(offsets) \in Nat
    BY DEF IndexTypeOK
  <2>3. Len(lines) = Len(offsets)
    BY <2>1, <2>2
  <2>4. \A n \in 1 .. Len(lines) : lines[n] = Seen(get_line(NthStart(n)))
    BY <2>1, <2>3, NthOffset
  <2>5. /\ Len(lines) = Cardinality(LineStarts(size))
        /\ LinesOfTheFile
    BY <2>1, <2>3, <2>4, NthOffset DEF LinesOfTheFile
  <2>6. /\ total_valid = Len(all_records)
        /\ total_valid + total_invalid = Len(lines)
    BY TotalsOfTheFile DEF CallInv
  <2> QED
    BY <2>5, <2>6 DEF FileOrder
<1>2. InputSpec => []IndexTypeOK
  BY ImplementsIndex, IndexTypeCorrect, PTL
<1> QED
  BY <1>1, <1>2, IndexOfTheFile, CallInvariant, TotalsInvariant, RecordsInFileOrder, PTL
-----------------------------------------------------------------------------
(***************************************************************************)
(* The lines that are read through the index.                              *)
(***************************************************************************)
LEMMA GreatestPlace ==
    ASSUME NEW n \in Nat, NEW K \in SUBSET (0 .. n), K # {}
    PROVE  \E x \in K : \A y \in K : y <= x
<1> DEFINE U == {n - y : y \in K}
<1>1. U \subseteq Nat /\ U # {}
  <2>1. \A y \in K : n - y \in Nat
    OBVIOUS
  <2>2. PICK y \in K : TRUE
    OBVIOUS
  <2>3. n - y \in U
    BY <2>2
  <2> QED
    BY <2>1, <2>3
<1>2. PICK u \in U : \A v \in U : u <= v
  BY <1>1, LeastNatural
<1>3. PICK x \in K : u = n - x
  BY <1>2
<1>4. ASSUME NEW y \in K PROVE y <= x
  <2>1. n - x <= n - y
    BY <1>2, <1>3
  <2>2. x \in 0 .. n /\ y \in 0 .. n
    OBVIOUS
  <2> QED
    BY <2>1, <2>2
<1> QED
  BY <1>4

(* The loop that looks for the newline ends at the first. *)
LEMMA LineEndFacts ==
    ASSUME IndexTypeOK, NEW offset \in 0 .. size
    PROVE  /\ LineEnd(offset) \in offset .. size
           /\ LineEnd(offset) < size => At(LineEnd(offset)) = NL
           /\ \A p \in offset .. (LineEnd(offset) - 1) : At(p) # NL
<1> DEFINE ends == {p \in offset .. (size - 1) : At(p) = NL} \cup {size}
<1>1. size \in Nat /\ offset \in Nat /\ offset <= size
  BY InputsAssumption DEF IndexTypeOK, size
<1>2. ends \subseteq Nat /\ size \in ends
  BY <1>1
<1>3. \E end \in ends : \A p \in ends : end <= p
  BY <1>2, LeastNatural
<1>4. LineEnd(offset) = CHOOSE end \in ends : \A p \in ends : end <= p
  BY DEF LineEnd
<1>5. LineEnd(offset) \in ends /\ \A p \in ends : LineEnd(offset) <= p
  <2> HIDE DEF ends
  <2> QED
    BY <1>3, <1>4
<1> DEFINE end == LineEnd(offset)
<1> HIDE DEF end
<1>6. end \in ends /\ \A p \in ends : end <= p
  BY <1>5 DEF end
<1>7. end \in offset .. size
  BY <1>1, <1>6
<1>8. end < size => At(end) = NL
  BY <1>1, <1>6
<1>9. ASSUME NEW p \in offset .. (end - 1) PROVE At(p) # NL
  <2>1. p \in offset .. (size - 1) /\ ~ (end <= p)
    BY <1>1, <1>7
  <2> QED
    BY <1>6, <2>1
<1> QED
  BY <1>7, <1>8, <1>9 DEF end

(* A byte is in the line that begins after the newline before it. *)
LEMMA ReadInOneLine ==
    ASSUME IndexTypeOK, IndexComplete, pc = "done", NEW p \in 0 .. (size - 1), At(p) # NL,
           NEW h \in 0 .. (p - 1), At(h) = NL, \A q \in (h + 1) .. p : At(q) # NL
    PROVE  TimesRead(p) = 1
<1> DEFINE R == {n \in 1 .. Len(offsets) : offsets[n] <= p /\ p < LineEnd(offsets[n])}
<1>1. /\ {offsets[n] : n \in 1 .. Len(offsets)} = LineStarts(size)
      /\ Increasing(offsets)
      /\ offsets \in Seq(0 .. (size - 1)) /\ size \in Nat /\ Len(offsets) \in Nat
  BY InputsAssumption DEF IndexComplete, IndexTypeOK, size
<1>2. h + 1 \in LineStarts(size) /\ h + 1 \in 0 .. size
  <2>1. h + 1 \in 1 .. (size - 1) /\ h + 1 < size /\ (h + 1) - 1 = h /\ h + 1 \in 0 .. size
    BY <1>1
  <2> QED
    BY <2>1 DEF LineStarts
<1>3. PICK n \in 1 .. Len(offsets) : offsets[n] = h + 1
  BY <1>1, <1>2
<1>4. n \in R
  <2> DEFINE end == LineEnd(h + 1)
  <2>1. /\ end \in (h + 1) .. size
        /\ end < size => At(end) = NL
    BY <1>2, LineEndFacts
  <2> HIDE DEF end
  <2>2. p < end
    <3> SUFFICES ASSUME ~ (p < end) PROVE FALSE
      OBVIOUS
    <3>1. end \in (h + 1) .. p /\ end < size
      BY <1>1, <2>1
    <3> QED
      BY <2>1, <3>1
  <2> QED
    BY <1>3, <2>2 DEF end
<1>5. ASSUME NEW m \in R PROVE m = n
  <2> DEFINE o == offsets[m]
  <2>1. m \in 1 .. Len(offsets) /\ o <= p /\ p < LineEnd(o) /\ o \in 0 .. (size - 1)
    BY <1>1
  <2>2. o \in LineStarts(size)
    BY <1>1, <2>1
  <2> HIDE DEF o
  <2>3. o \in 1 .. (size - 1) /\ At(o - 1) = NL
    BY <2>2 DEF LineStarts
  <2>4. \A q \in o .. p : At(q) # NL
    <3>1. o \in 0 .. size
      BY <1>1, <2>1
    <3>2. LineEnd(o) \in o .. size /\ \A q \in o .. (LineEnd(o) - 1) : At(q) # NL
      BY <3>1, LineEndFacts
    <3> DEFINE end == LineEnd(o)
    <3>3. end \in o .. size /\ p < end /\ \A q \in o .. (end - 1) : At(q) # NL
      BY <2>1, <3>2
    <3> HIDE DEF end
    <3>4. \A q \in o .. p : q \in o .. (end - 1)
      BY <1>1, <2>3, <3>3
    <3> QED
      BY <3>3, <3>4
  <2>5. ~ (o <= h)
    <3>1. o <= h => h \in o .. p
      BY <2>3
    <3> QED
      BY <2>4, <3>1
  <2>6. ~ (h + 1 <= o - 1)
    <3>1. h + 1 <= o - 1 => o - 1 \in (h + 1) .. p
      BY <2>1, <2>3
    <3> QED
      BY <2>3, <3>1
  <2>7. o = h + 1
    BY <2>3, <2>5, <2>6
  <2>8. offsets[m] = offsets[n]
    BY <1>3, <2>7 DEF o
  <2>9. ~ (m < n) /\ ~ (n < m)
    <3>1. offsets[n] \in Int
      BY <1>3
    <3>2. m < n => m \in 1 .. (n - 1)
      BY <1>1, <2>1
    <3>3. n < m => n \in 1 .. (m - 1)
      <4>1. m \in Int /\ n \in Int /\ 1 <= n
        BY <1>1, <2>1
      <4> QED
        BY <4>1
    <3>4. m \in 1 .. (n - 1) => offsets[m] < offsets[n]
      BY <1>1 DEF Increasing
    <3>5. n \in 1 .. (m - 1) => offsets[n] < offsets[m]
      BY <1>1, <2>1 DEF Increasing
    <3> QED
      BY <2>8, <3>1, <3>2, <3>3, <3>4, <3>5
  <2> QED
    BY <2>1, <2>9
<1>6. R = {n}
  BY <1>4, <1>5
<1> HIDE DEF R
<1>7. Cardinality(R) = 1
  BY <1>6, FS_Singleton
<1> QED
  BY <1>7 DEF TimesRead, R

LEMMA ReadOnce ==
    ASSUME IndexTypeOK, IndexComplete, pc = "done"
    PROVE  BytesReadOnce
<1> SUFFICES ASSUME NEW p \in 0 .. (size - 1)
             PROVE  TimesRead(p) = IF At(p) # NL /\ \E h \in 0 .. (p - 1) : At(h) = NL
                                   THEN 1 ELSE 0
  BY DEF BytesReadOnce
<1>1. /\ {offsets[n] : n \in 1 .. Len(offsets)} = LineStarts(size)
      /\ offsets \in Seq(0 .. (size - 1)) /\ size \in Nat
  BY InputsAssumption DEF IndexComplete, IndexTypeOK, size
<1>2. CASE At(p) # NL /\ \E h \in 0 .. (p - 1) : At(h) = NL
  <2> DEFINE K == {h \in 0 .. (p - 1) : At(h) = NL}
  <2>1. p \in Nat /\ K \in SUBSET (0 .. p) /\ K # {}
    BY <1>1, <1>2
  <2>2. PICK h \in K : \A y \in K : y <= h
    BY <2>1, GreatestPlace
  <2>3. h \in 0 .. (p - 1) /\ At(h) = NL
    BY <2>2
  <2>4. ASSUME NEW q \in (h + 1) .. p PROVE At(q) # NL
    <3>1. q \in 0 .. (p - 1) \/ q = p
      BY <2>1, <2>3
    <3>2. ~ (q <= h)
      BY <2>3
    <3> QED
      BY <1>2, <2>2, <3>1, <3>2
  <2>5. TimesRead(p) = 1
    BY <1>2, <2>3, <2>4, ReadInOneLine
  <2> QED
    BY <1>2, <2>5
<1>3. CASE ~ (At(p) # NL /\ \E h \in 0 .. (p - 1) : At(h) = NL)
  <2> DEFINE R == {n \in 1 .. Len(offsets) : offsets[n] <= p /\ p < LineEnd(offsets[n])}
  <2>1. ASSUME NEW n \in R PROVE FALSE
    <3> DEFINE o == offsets[n]
               end == LineEnd(offsets[n])
    <3>1. o <= p /\ p < end /\ o \in LineStarts(size) /\ o \in 0 .. (size - 1)
      BY <1>1
    <3>2. o \in 0 .. size
      BY <1>1, <3>1
    <3>3. end \in o .. size /\ \A q \in o .. (end - 1) : At(q) # NL
      BY <3>2, LineEndFacts
    <3> HIDE DEF o, end
    <3>4. p \in o .. (end - 1)
      BY <1>1, <3>1, <3>3
    <3>5. At(p) # NL
      BY <3>3, <3>4
    <3>6. o - 1 \in 0 .. (p - 1) /\ At(o - 1) = NL
      <4>1. o \in 1 .. (size - 1) /\ At(o - 1) = NL
        BY <3>1 DEF LineStarts
      <4> QED
        BY <3>1, <4>1
    <3> QED
      BY <1>3, <3>5, <3>6
  <2>2. R = {}
    BY <2>1
  <2>3. TimesRead(p) = 0
    BY <2>2, FS_EmptySet DEF TimesRead
  <2> QED
    BY <1>3, <2>3
<1> QED
  BY <1>2, <1>3

(* What is left of a line is a prefix of it, up to its last byte that is   *)
(* part of no line end.                                                    *)
LEMMA StripFacts ==
    ASSUME NEW line \in Seq(Byte)
    PROVE  \E m \in 0 .. Len(line) :
              /\ Strip(line) = SubSeq(line, 1, m)
              /\ m > 0 => line[m] \notin {CR, NL}
              /\ \A k \in (m + 1) .. Len(line) : line[k] \in {CR, NL}
<1> DEFINE kept == {n \in 1 .. Len(line) : line[n] \notin {CR, NL}}
<1>1. Len(line) \in Nat
  OBVIOUS
<1>2. CASE kept = {}
  <2>1. Strip(line) = << >>
    BY <1>2 DEF Strip
  <2>2. SubSeq(line, 1, 0) = << >>
    BY SubSeqEmpty
  <2>3. \A k \in (0 + 1) .. Len(line) : line[k] \in {CR, NL}
    BY <1>2
  <2>4. 0 \in 0 .. Len(line) /\ ~ (0 > 0)
    BY <1>1
  <2> QED
    BY <2>1, <2>2, <2>3, <2>4
<1>3. CASE kept # {}
  <2>1. kept \in SUBSET (0 .. Len(line))
    BY <1>1
  <2> DEFINE m == CHOOSE n \in kept : \A k \in kept : k <= n
  <2>2. m \in kept /\ \A k \in kept : k <= m
    <3>1. \E n \in kept : \A k \in kept : k <= n
      BY <1>1, <1>3, <2>1, GreatestPlace
    <3> HIDE DEF kept
    <3> QED
      BY <3>1
  <2>3. Strip(line) = SubSeq(line, 1, m)
    BY <1>3, Zenon DEF Strip
  <2> HIDE DEF m
  <2>4. m \in 1 .. Len(line) /\ line[m] \notin {CR, NL}
    BY <2>2
  <2>5. ASSUME NEW k \in (m + 1) .. Len(line) PROVE line[k] \in {CR, NL}
    <3>1. k \in 1 .. Len(line) /\ ~ (k <= m)
      BY <1>1, <2>4
    <3> QED
      BY <2>2, <3>1
  <2>6. m \in 0 .. Len(line)
    BY <2>4
  <2> QED
    BY <2>3, <2>4, <2>5, <2>6
<1> QED
  BY <1>2, <1>3

LEMMA FindCommaFacts ==
    ASSUME NEW line \in Seq(Byte), NEW from \in Nat \ {0}
    PROVE  \/ /\ FindComma(line, from) = 0
              /\ \A n \in from .. Len(line) : line[n] # Comma
           \/ /\ FindComma(line, from) \in from .. Len(line)
              /\ line[FindComma(line, from)] = Comma
              /\ \A n \in from .. (FindComma(line, from) - 1) : line[n] # Comma
<1> DEFINE found == {n \in from .. Len(line) : line[n] = Comma}
           c == FindComma(line, from)
<1>1. Len(line) \in Nat /\ found \subseteq Nat
  OBVIOUS
<1>2. CASE found = {}
  <2>1. c = 0
    BY <1>2 DEF FindComma, npos
  <2> QED
    BY <1>2, <2>1
<1>3. CASE found # {}
  <2>1. c = CHOOSE n \in found : \A k \in found : n <= k
    BY <1>3 DEF FindComma
  <2>2. \E n \in found : \A k \in found : n <= k
    BY <1>1, <1>3, LeastNatural
  <2> HIDE DEF c
  <2>3. c \in found /\ \A k \in found : c <= k
    <3> HIDE DEF found
    <3> QED
      BY <2>1, <2>2
  <2>4. c \in from .. Len(line) /\ line[c] = Comma
    BY <2>3
  <2>5. ASSUME NEW n \in from .. (c - 1) PROVE line[n] # Comma
    <3>1. n \in from .. Len(line) /\ ~ (c <= n)
      BY <1>1, <2>4
    <3> QED
      BY <2>3, <3>1
  <2> QED
    BY <2>4, <2>5 DEF c
<1> QED
  BY <1>2, <1>3

(* One field more: what was read up to k, the field, and its comma. *)
LEMMA OneFieldMore ==
    ASSUME NEW line \in Seq(Byte), NEW k \in 0 .. Len(line), NEW c \in (k + 1) .. Len(line),
           line[c] = Comma
    PROVE  (SubSeq(line, 1, k) \o SubSeq(line, k + 1, c - 1)) \o <<Comma>> = SubSeq(line, 1, c)
<1>1. /\ 1 \in 1 .. (Len(line) + 1) /\ k \in (1 - 1) .. Len(line)
      /\ c - 1 \in k .. Len(line) /\ 1 \in 1 .. Len(line) /\ c \in 1 .. Len(line)
  OBVIOUS
<1>2. SubSeq(line, 1, k) \o SubSeq(line, k + 1, c - 1) = SubSeq(line, 1, c - 1)
  BY <1>1, ConcatAdjacentSubSeq
<1>3. SubSeq(line, 1, c) = SubSeq(line, 1, c - 1) \o <<line[c]>>
  BY <1>1, SubSeqRecursiveSecond
<1> QED
  BY <1>2, <1>3

ThreeCommas(line, c1, c2, c3) ==
    /\ c1 \in 1 .. Len(line) /\ c2 \in (c1 + 1) .. Len(line) /\ c3 \in (c2 + 1) .. Len(line)
    /\ line[c1] = Comma /\ line[c2] = Comma /\ line[c3] = Comma

Joined(f1, f2, f3, f4) ==
    f1 \o <<Comma>> \o f2 \o <<Comma>> \o f3 \o <<Comma>> \o f4

(* A line that is cut at three commas. *)
LEMMA FourFields ==
    ASSUME NEW line \in Seq(Byte), NEW c1, NEW c2, NEW c3, ThreeCommas(line, c1, c2, c3)
    PROVE  Joined(SubSeq(line, 1, c1 - 1), SubSeq(line, c1 + 1, c2 - 1),
                  SubSeq(line, c2 + 1, c3 - 1), SubSeq(line, c3 + 1, Len(line))) = line
<1>0. /\ c1 \in 1 .. Len(line) /\ c2 \in (c1 + 1) .. Len(line) /\ c3 \in (c2 + 1) .. Len(line)
      /\ line[c1] = Comma /\ line[c2] = Comma /\ line[c3] = Comma
  BY DEF ThreeCommas
<1>1. /\ Len(line) \in Nat
      /\ c1 \in 0 .. Len(line) /\ c2 \in 0 .. Len(line) /\ c3 \in 0 .. Len(line)
      /\ 1 \in 1 .. Len(line) /\ c1 \in 1 .. Len(line)
      /\ 1 \in 1 .. (Len(line) + 1) /\ c3 \in (1 - 1) .. Len(line) /\ Len(line) \in c3 .. Len(line)
  BY <1>0
<1>2. SubSeq(line, 1, c1 - 1) \o <<Comma>> = SubSeq(line, 1, c1)
  BY <1>0, <1>1, SubSeqRecursiveSecond
<1>3. (SubSeq(line, 1, c1) \o SubSeq(line, c1 + 1, c2 - 1)) \o <<Comma>> = SubSeq(line, 1, c2)
  BY <1>0, <1>1, OneFieldMore
<1>4. (SubSeq(line, 1, c2) \o SubSeq(line, c2 + 1, c3 - 1)) \o <<Comma>> = SubSeq(line, 1, c3)
  BY <1>0, <1>1, OneFieldMore
<1>5. SubSeq(line, 1, c3) \o SubSeq(line, c3 + 1, Len(line)) = SubSeq(line, 1, Len(line))
  BY <1>1, ConcatAdjacentSubSeq
<1>6. SubSeq(line, 1, Len(line)) = line
  BY SubSeqFull
<1> QED
  BY <1>2, <1>3, <1>4, <1>5, <1>6 DEF Joined

LEMMA FourParts ==
    ASSUME NEW f1, NEW f2, NEW f3, NEW f4, NEW fields, fields = <<f1, f2, f3, f4>>
    PROVE  /\ Len(fields) = 4
           /\ fields[1] = f1 /\ fields[2] = f2 /\ fields[3] = f3 /\ fields[4] = f4
  OBVIOUS

Four(a, b, c, d) ==
    a \in Int /\ b \in Int /\ c \in Int /\ d \in Int /\ a < b /\ b < c /\ c < d

Duo(a, b) == {a, b}

Trio(a, b, c) == {a, b, c}

Quartet(a, b, c, d) == {a, b, c, d}

LEMMA CountUpToFour ==
    ASSUME NEW a, NEW b, NEW c, NEW d, Four(a, b, c, d)
    PROVE  /\ Cardinality(Duo(a, b)) = 2
           /\ Cardinality(Trio(a, b, c)) = 3
           /\ Cardinality(Quartet(a, b, c, d)) = 4
<1>1. a # b /\ a # c /\ a # d /\ b # c /\ b # d /\ c # d
  BY DEF Four
<1>2. IsFiniteSet({a}) /\ Cardinality({a}) = 1
  BY FS_Singleton
<1>3. IsFiniteSet({a} \cup {b}) /\ Cardinality({a} \cup {b}) = 2
  <2>1. b \notin {a}
    BY <1>1
  <2>2. Cardinality({a} \cup {b}) = Cardinality({a}) + 1 /\ IsFiniteSet({a} \cup {b})
    BY <1>2, <2>1, FS_AddElement
  <2> QED
    BY <1>2, <2>2
<1>4. {a, b} = {a} \cup {b} /\ {a, b, c} = {a, b} \cup {c} /\ {a, b, c, d} = {a, b, c} \cup {d}
  OBVIOUS
<1>5. IsFiniteSet({a, b}) /\ Cardinality({a, b}) = 2
  BY <1>3, <1>4
<1>6. IsFiniteSet({a, b, c}) /\ Cardinality({a, b, c}) = 3
  <2>1. c \notin {a, b}
    BY <1>1
  <2>2. Cardinality({a, b} \cup {c}) = Cardinality({a, b}) + 1 /\ IsFiniteSet({a, b} \cup {c})
    BY <1>5, <2>1, FS_AddElement
  <2>3. Cardinality({a, b} \cup {c}) = 3
    BY <1>5, <2>2
  <2> QED
    BY <1>4, <2>2, <2>3
<1>7. IsFiniteSet({a, b, c, d}) /\ Cardinality({a, b, c, d}) = 4
  <2>1. d \notin {a, b, c}
    BY <1>1
  <2>2. /\ Cardinality({a, b, c} \cup {d}) = Cardinality({a, b, c}) + 1
        /\ IsFiniteSet({a, b, c} \cup {d})
    BY <1>6, <2>1, FS_AddElement
  <2>3. Cardinality({a, b, c} \cup {d}) = 4
    BY <1>6, <2>2
  <2> QED
    BY <1>4, <2>2, <2>3
<1> QED
  BY <1>5, <1>6, <1>7 DEF Duo, Trio, Quartet

(* The search for the commas finds three of them if there are three. *)
CommaPlaces(line) == {n \in 1 .. Len(line) : line[n] = Comma}

Searched(line, c1, c2, c3) ==
    /\ c1 = FindComma(line, 1)
    /\ c2 = FindComma(line, c1 + 1)
    /\ c3 = FindComma(line, c2 + 1)

LEMMA CommasFound ==
    ASSUME NEW line \in Seq(Byte), NEW c1, NEW c2, NEW c3, Searched(line, c1, c2, c3)
    PROVE  IF npos \in {c1, c2, c3} \/ FindComma(line, c3 + 1) # npos
           THEN Cardinality(CommaPlaces(line)) # 3
           ELSE ThreeCommas(line, c1, c2, c3) /\ Cardinality(CommaPlaces(line)) = 3
<1> DEFINE C == CommaPlaces(line)
           l == Len(line)
<1>1. l \in Nat /\ 1 \in Nat \ {0} /\ npos = 0
  BY DEF npos
<1>2. C = {n \in 1 .. l : line[n] = Comma}
  BY DEF CommaPlaces
<1> HIDE DEF C, l
<1>3. \/ c1 = 0 /\ \A n \in 1 .. l : line[n] # Comma
      \/ c1 \in 1 .. l /\ line[c1] = Comma /\ \A n \in 1 .. (c1 - 1) : line[n] # Comma
  BY <1>1, FindCommaFacts DEF l, Searched
<1>4. CASE c1 = 0
  <2>1. C = {}
    BY <1>1, <1>2, <1>3, <1>4
  <2> QED
    BY <1>1, <1>4, <2>1, FS_EmptySet DEF C
<1>5. CASE c1 # 0
  <2>1. /\ c1 \in 1 .. l /\ line[c1] = Comma /\ \A n \in 1 .. (c1 - 1) : line[n] # Comma
        /\ c1 + 1 \in Nat \ {0} /\ c1 \in Int
    BY <1>1, <1>3, <1>5
  <2>2. \/ c2 = 0 /\ \A n \in (c1 + 1) .. l : line[n] # Comma
        \/ /\ c2 \in (c1 + 1) .. l /\ line[c2] = Comma
           /\ \A n \in (c1 + 1) .. (c2 - 1) : line[n] # Comma
    BY <2>1, FindCommaFacts DEF l, Searched
  <2>3. CASE c2 = 0
    <3>1. \A n \in 1 .. l : n \in 1 .. (c1 - 1) \/ n = c1 \/ n \in (c1 + 1) .. l
      BY <1>1, <2>1
    <3>2. C = {c1}
      BY <1>2, <2>1, <2>2, <2>3, <3>1
    <3>3. Cardinality(C) = 1
      BY <3>2, FS_Singleton
    <3> QED
      BY <1>1, <2>3, <3>3 DEF C
  <2>4. CASE c2 # 0
    <3>1. /\ c2 \in (c1 + 1) .. l /\ line[c2] = Comma
          /\ \A n \in (c1 + 1) .. (c2 - 1) : line[n] # Comma
          /\ c2 + 1 \in Nat \ {0} /\ c2 \in Int
      <4>1. /\ c2 \in (c1 + 1) .. l /\ line[c2] = Comma
            /\ \A n \in (c1 + 1) .. (c2 - 1) : line[n] # Comma
        BY <2>2, <2>4
      <4>2. c2 + 1 \in Nat \ {0} /\ c2 \in Int
        BY <1>1, <2>1, <4>1
      <4> QED
        BY <4>1, <4>2
    <3>2. \/ c3 = 0 /\ \A n \in (c2 + 1) .. l : line[n] # Comma
          \/ /\ c3 \in (c2 + 1) .. l /\ line[c3] = Comma
             /\ \A n \in (c2 + 1) .. (c3 - 1) : line[n] # Comma
      BY <3>1, FindCommaFacts DEF l, Searched
    <3>3. CASE c3 = 0
      <4>1. \A n \in 1 .. l : \/ n \in 1 .. (c1 - 1) \/ n = c1 \/ n \in (c1 + 1) .. (c2 - 1)
                              \/ n = c2 \/ n \in (c2 + 1) .. l
        BY <1>1, <2>1, <3>1
      <4>2. c1 \in 1 .. l /\ c2 \in 1 .. l
        BY <1>1, <2>1, <3>1
      <4>3. C = {c1, c2}
        BY <1>2, <2>1, <3>1, <3>2, <3>3, <4>1, <4>2
      <4>4. Four(c1, c2, c2 + 1, c2 + 2)
        BY <2>1, <3>1 DEF Four
      <4>5. Cardinality({c1, c2}) = 2
        <5>1. Cardinality(Duo(c1, c2)) = 2
          BY <4>4, CountUpToFour
        <5> QED
          BY <5>1 DEF Duo
      <4> QED
        BY <1>1, <3>3, <4>3, <4>5 DEF C
    <3>4. CASE c3 # 0
      <4>1. /\ c3 \in (c2 + 1) .. l /\ line[c3] = Comma
            /\ \A n \in (c2 + 1) .. (c3 - 1) : line[n] # Comma
            /\ c3 + 1 \in Nat \ {0} /\ c3 \in Int
        <5>1. /\ c3 \in (c2 + 1) .. l /\ line[c3] = Comma
              /\ \A n \in (c2 + 1) .. (c3 - 1) : line[n] # Comma
          BY <3>2, <3>4
        <5>2. c3 + 1 \in Nat \ {0} /\ c3 \in Int
          BY <1>1, <3>1, <5>1
        <5> QED
          BY <5>1, <5>2
      <4> DEFINE c4 == FindComma(line, c3 + 1)
      <4>2. \/ c4 = 0 /\ \A n \in (c3 + 1) .. l : line[n] # Comma
            \/ c4 \in (c3 + 1) .. l /\ line[c4] = Comma
        BY <4>1, FindCommaFacts DEF l
      <4> HIDE DEF c4
      <4>3. c1 \in 1 .. l /\ c2 \in 1 .. l /\ c3 \in 1 .. l /\ c1 < c2 /\ c2 < c3
        BY <1>1, <2>1, <3>1, <4>1
      <4>4. npos \notin {c1, c2, c3}
        BY <1>1, <1>5, <2>4, <3>4
      <4>5. ThreeCommas(line, c1, c2, c3)
        BY <2>1, <3>1, <4>1 DEF ThreeCommas, l
      <4>9. c1 \in Int /\ c2 \in Int /\ c3 \in Int /\ c1 < c2 /\ c2 < c3
        BY <2>1, <3>1, <4>1, <4>3
      <4>8. c1 \in C /\ c2 \in C /\ c3 \in C
        <5>1. line[c1] = Comma /\ line[c2] = Comma /\ line[c3] = Comma
          BY <2>1, <3>1, <4>1
        <5> QED
          BY <1>2, <4>3, <5>1
      <4>6. CASE c4 = 0
        <5>1. \A n \in 1 .. l : \/ n \in 1 .. (c1 - 1) \/ n = c1 \/ n \in (c1 + 1) .. (c2 - 1)
                                \/ n = c2 \/ n \in (c2 + 1) .. (c3 - 1) \/ n = c3
                                \/ n \in (c3 + 1) .. l
          BY <1>1, <4>9
        <5>2. ASSUME NEW n \in C PROVE n \in {c1, c2, c3}
          <6>1. n \in 1 .. l /\ line[n] = Comma
            BY <1>2
          <6>2. ~ (n \in 1 .. (c1 - 1)) /\ ~ (n \in (c1 + 1) .. (c2 - 1))
            BY <2>1, <3>1, <6>1
          <6>3. ~ (n \in (c2 + 1) .. (c3 - 1))
            BY <4>1, <6>1
          <6>4. ~ (n \in (c3 + 1) .. l)
            <7>1. c4 = 0 => \A k \in (c3 + 1) .. l : line[k] # Comma
              BY <1>1, <4>1, <4>2
            <7> QED
              BY <4>6, <6>1, <7>1
          <6> QED
            BY <5>1, <6>1, <6>2, <6>3, <6>4
        <5>3. \A n \in {c1, c2, c3} : n \in C
          BY <4>8
        <5>4. C = {c1, c2, c3}
          BY <5>2, <5>3
        <5>5. Four(c1, c2, c3, c3 + 1)
          BY <4>9 DEF Four
        <5>6. Cardinality({c1, c2, c3}) = 3
          <6>1. Cardinality(Trio(c1, c2, c3)) = 3
            BY <5>5, CountUpToFour
          <6> QED
            BY <6>1 DEF Trio
        <5> QED
          BY <1>1, <4>4, <4>5, <4>6, <5>4, <5>6 DEF C, c4
      <4>7. CASE c4 # 0
        <5>1. c4 \in (c3 + 1) .. l /\ line[c4] = Comma
          BY <4>2, <4>7
        <5>2. c4 \in 1 .. l /\ c3 < c4 /\ c4 \in Int
          BY <1>1, <4>1, <5>1
        <5>3. {c1, c2, c3, c4} \subseteq C
          <6>1. c4 \in C
            BY <1>2, <5>1, <5>2
          <6> QED
            BY <4>8, <6>1
        <5>4. Cardinality({c1, c2, c3, c4}) = 4
          <6>1. Four(c1, c2, c3, c4)
            BY <4>9, <5>2 DEF Four
          <6>2. Cardinality(Quartet(c1, c2, c3, c4)) = 4
            BY <6>1, CountUpToFour
          <6> QED
            BY <6>2 DEF Quartet
        <5>5. IsFiniteSet(C)
          <6>1. IsFiniteSet(1 .. l)
            BY <1>1, FS_Interval
          <6>2. C \subseteq 1 .. l
            BY <1>2
          <6> QED
            BY <6>1, <6>2, FS_Subset
        <5>6. /\ Cardinality({c1, c2, c3, c4}) <= Cardinality(C)
              /\ Cardinality(C) \in Nat
          BY <5>3, <5>5, FS_Subset, FS_CardinalityType
        <5>7. Cardinality(C) # 3
          BY <5>4, <5>6
        <5> QED
          BY <1>1, <4>7, <5>7 DEF C, c4
      <4> QED
        BY <4>6, <4>7
    <3> QED
      BY <3>3, <3>4
  <2> QED
    BY <2>3, <2>4
<1> QED
  BY <1>4, <1>5

LEMMA StrippedFacts ==
    ASSUME NEW line \in Seq(Byte)
    PROVE  /\ Strip(line) \in Seq(Byte)
           /\ Len(Strip(line)) \in 0 .. Len(line)
           /\ Strip(line) = SubSeq(line, 1, Len(Strip(line)))
           /\ \A k \in 1 .. Len(Strip(line)) : Strip(line)[k] = line[k]
           /\ Len(Strip(line)) > 0 => line[Len(Strip(line))] \notin {CR, NL}
           /\ \A k \in (Len(Strip(line)) + 1) .. Len(line) : line[k] \in {CR, NL}
<1> DEFINE text == Strip(line)
<1>1. PICK m \in 0 .. Len(line) :
          /\ text = SubSeq(line, 1, m)
          /\ m > 0 => line[m] \notin {CR, NL}
          /\ \A k \in (m + 1) .. Len(line) : line[k] \in {CR, NL}
  BY StripFacts
<1> HIDE DEF text
<1>2. Len(line) \in Nat /\ m \in Nat /\ m <= Len(line)
  BY <1>1
<1>3. text \in Seq(Byte) /\ Len(text) = m /\ \A k \in 1 .. m : text[k] = line[k]
  <2>1. 1 \in 1 .. (Len(line) + 1) /\ m \in (1 - 1) .. Len(line)
    BY <1>2
  <2>2. SubSeq(line, 1, m) \in Seq(Byte)
    BY <2>1, <1>2, SubSeqProperties
  <2>3. Len(SubSeq(line, 1, m)) = m
    BY <1>2
  <2>4. \A k \in 1 .. m : SubSeq(line, 1, m)[k] = line[k]
    BY <1>2
  <2> QED
    BY <1>1, <2>2, <2>3, <2>4
<1>4. /\ text \in Seq(Byte)
      /\ Len(text) \in 0 .. Len(line)
      /\ text = SubSeq(line, 1, Len(text))
      /\ \A k \in 1 .. Len(text) : text[k] = line[k]
      /\ Len(text) > 0 => line[Len(text)] \notin {CR, NL}
      /\ \A k \in (Len(text) + 1) .. Len(line) : line[k] \in {CR, NL}
  BY <1>1, <1>3
<1> QED
  BY <1>4 DEF text

(* A line is cut into its fields exactly if it has three commas. *)
LEMMA FieldsReadBack ==
    ASSUME NEW line \in Seq(Byte), \A n \in 1 .. Len(line) : line[n] # NL
    PROVE  FieldsAreTheLine(line)
<1> DEFINE text == Strip(line)
           m    == Len(text)
<1>1. /\ text \in Seq(Byte) /\ m \in 0 .. Len(line) /\ text = SubSeq(line, 1, m)
      /\ \A k \in 1 .. m : text[k] = line[k]
      /\ m > 0 => line[m] \notin {CR, NL}
      /\ \A k \in (m + 1) .. Len(line) : line[k] \in {CR, NL}
  BY StrippedFacts
<1> DEFINE c1 == FindComma(text, 1)
           c2 == FindComma(text, c1 + 1)
           c3 == FindComma(text, c2 + 1)
           c4 == FindComma(text, c3 + 1)
           f1 == SubSeq(text, 1, c1 - 1)
           f2 == SubSeq(text, c1 + 1, c2 - 1)
           f3 == SubSeq(text, c2 + 1, c3 - 1)
           f4 == SubSeq(text, c3 + 1, Len(text))
           cut == <<f1, f2, f3, f4>>
<1>2. Fields(line) = IF npos \in {c1, c2, c3} \/ c4 # npos THEN << >> ELSE cut
  BY DEF Fields
<1>3. Searched(text, c1, c2, c3)
  BY DEF Searched
<1> HIDE DEF text
<1>4. IF npos \in {c1, c2, c3} \/ c4 # npos
      THEN Cardinality(CommaPlaces(text)) # 3
      ELSE ThreeCommas(text, c1, c2, c3) /\ Cardinality(CommaPlaces(text)) = 3
  BY <1>1, <1>3, CommasFound
<1> HIDE DEF c1, c2, c3, c4, m
<1>5. CommaPlaces(text) = {n \in 1 .. Len(line) : line[n] = Comma}
  <2>1. Len(line) \in Nat /\ m \in Nat /\ m <= Len(line)
    BY <1>1
  <2>2. ASSUME NEW n \in 1 .. Len(line), line[n] = Comma PROVE n \in 1 .. m
    <3>1. n \in 1 .. m \/ n \in (m + 1) .. Len(line)
      BY <2>1
    <3>2. line[n] \notin {CR, NL}
      BY <2>2, BytesAssumption
    <3> QED
      BY <1>1, <3>1, <3>2
  <2>3. 1 .. m \subseteq 1 .. Len(line)
    BY <2>1
  <2>4. CommaPlaces(text) = {n \in 1 .. m : text[n] = Comma}
    BY DEF CommaPlaces, m
  <2> QED
    BY <1>1, <2>2, <2>3, <2>4
<1>6. Count(line, Comma) = Cardinality(CommaPlaces(text))
  BY <1>5 DEF Count
<1>7. CASE npos \in {c1, c2, c3} \/ c4 # npos
  <2>1. Fields(line) = << >> /\ Count(line, Comma) # 3
    BY <1>2, <1>4, <1>6, <1>7
  <2> QED
    BY <2>1 DEF FieldsAreTheLine
<1>8. CASE ~ (npos \in {c1, c2, c3} \/ c4 # npos)
  <2>1. Fields(line) = cut /\ Count(line, Comma) = 3 /\ ThreeCommas(text, c1, c2, c3)
    BY <1>2, <1>4, <1>6, <1>8
  <2>2. c1 \in 1 .. Len(text) /\ c2 \in (c1 + 1) .. Len(text) /\ c3 \in (c2 + 1) .. Len(text)
    BY <2>1 DEF ThreeCommas
  <2> DEFINE fields == Fields(line)
             joined == fields[1] \o <<Comma>> \o fields[2] \o <<Comma>>
                          \o fields[3] \o <<Comma>> \o fields[4]
  <2>3. Joined(f1, f2, f3, f4) = text
    <3>1. text \in Seq(Byte) /\ ThreeCommas(text, c1, c2, c3)
      BY <1>1, <2>1
    <3> QED
      BY <3>1, FourFields
  <2> HIDE DEF f1, f2, f3, f4
  <2>4. Len(fields) = 4 /\ fields[1] = f1 /\ fields[2] = f2 /\ fields[3] = f3 /\ fields[4] = f4
    <3>1. fields = <<f1, f2, f3, f4>>
      BY <2>1
    <3> HIDE DEF fields
    <3> QED
      BY <3>1, FourParts
  <2> HIDE DEF fields
  <2>9. joined = text
    BY <2>3, <2>4, Zenon DEF Joined
  <2> HIDE DEF joined
  <2>5. Len(joined) = m /\ m > 0 /\ m \in Nat /\ Len(line) \in Nat /\ m <= Len(line)
    BY <1>1, <2>2, <2>9 DEF m
  <2>6. joined[Len(joined)] # CR
    <3>1. m \in 1 .. m /\ line[m] # CR
      BY <1>1, <2>5
    <3>2. text[m] = line[m]
      BY <1>1, <3>1
    <3> QED
      BY <2>5, <2>9, <3>1, <3>2
  <2>7. joined = SubSeq(line, 1, Len(joined))
    BY <1>1, <2>5, <2>9
  <2> DEFINE rest == SubSeq(line, Len(joined) + 1, Len(line))
  <2>8. ASSUME NEW k \in 1 .. Len(rest) PROVE rest[k] = CR
    <3>1. rest = SubSeq(line, m + 1, Len(line))
      BY <2>5
    <3>2. Len(SubSeq(line, m + 1, Len(line))) = Len(line) - m
      BY <2>5
    <3>3. k \in 1 .. (Len(line) - m)
      BY <3>1, <3>2
    <3>4. rest[k] = line[m + k]
      BY <2>5, <3>1, <3>3
    <3>5. m + k \in (m + 1) .. Len(line) /\ m + k \in 1 .. Len(line)
      BY <2>5, <3>3
    <3>6. line[m + k] \in {CR, NL} /\ line[m + k] # NL
      BY <1>1, <3>5
    <3> QED
      BY <3>4, <3>6
  <2> QED
    BY <2>1, <2>4, <2>6, <2>7, <2>8, Zenon DEF FieldsAreTheLine, fields, joined
<1> QED
  BY <1>7, <1>8

LEMMA LineRead ==
    ASSUME IndexTypeOK, NEW offset \in 0 .. (size - 1)
    PROVE  /\ get_line(offset) \in Seq(Byte)
           /\ \A n \in 1 .. Len(get_line(offset)) : get_line(offset)[n] # NL
<1> DEFINE end == LineEnd(offset)
<1>1. data \in Seq(Byte) /\ size \in Nat /\ size = Len(data)
  BY InputsAssumption DEF IndexTypeOK, size
<1>2. offset \in 0 .. size
  BY <1>1
<1>3. end \in offset .. size /\ \A p \in offset .. (end - 1) : At(p) # NL
  BY <1>2, LineEndFacts
<1> HIDE DEF end
<1>4. /\ offset + 1 \in 1 .. (size + 1) /\ end \in ((offset + 1) - 1) .. size
      /\ offset \in Nat /\ end \in Nat /\ offset <= end /\ end <= size
  BY <1>1, <1>2, <1>3
<1> DEFINE line == SubSeq(data, offset + 1, end)
<1>5. line \in Seq(Byte)
  BY <1>1, <1>4, SubSeqProperties
<1>6. Len(line) = end - offset
  BY <1>1, <1>4
<1>7. ASSUME NEW n \in 1 .. Len(line) PROVE line[n] # NL
  <2>1. n \in 1 .. (end - offset)
    BY <1>6
  <2>2. line[n] = data[offset + n]
    BY <1>1, <1>4, <2>1
  <2>3. (offset + n) - 1 \in offset .. (end - 1) /\ ((offset + n) - 1) + 1 = offset + n
    BY <1>4, <2>1
  <2>4. At((offset + n) - 1) # NL /\ At((offset + n) - 1) = data[offset + n]
    BY <1>3, <2>3 DEF At
  <2> QED
    BY <2>2, <2>4
<1>8. get_line(offset) = line
  BY DEF get_line, end
<1> QED
  BY <1>5, <1>7, <1>8

(***************************************************************************)
(* Through the index every byte after the header but the newlines is read  *)
(* exactly once, and a line is cut into its fields exactly if it has three *)
(* commas: build_line_offsets, get_line and tokenize_csv_line together.    *)
(***************************************************************************)
THEOREM LinesAreReadBack == InputSpec => []LinesReadBack
<1>1. ASSUME IndexTypeOK, IndexComplete PROVE LinesReadBack
  <2> SUFFICES ASSUME pc = "done"
               PROVE  /\ BytesReadOnce
                      /\ \A n \in 1 .. Len(offsets) : FieldsAreTheLine(get_line(offsets[n]))
    BY DEF LinesReadBack
  <2>1. BytesReadOnce
    BY <1>1, ReadOnce
  <2>2. ASSUME NEW n \in 1 .. Len(offsets) PROVE FieldsAreTheLine(get_line(offsets[n]))
    <3> DEFINE places == 0 .. (size - 1)
    <3>4. offsets \in Seq(places)
      BY <1>1 DEF IndexTypeOK
    <3> HIDE DEF places
    <3>5. offsets[n] \in places
      BY <3>4
    <3>1. offsets[n] \in 0 .. (size - 1)
      BY <3>5 DEF places
    <3> DEFINE line == get_line(offsets[n])
    <3>2. line \in Seq(Byte) /\ \A k \in 1 .. Len(line) : line[k] # NL
      BY <1>1, <3>1, LineRead
    <3> HIDE DEF line
    <3>3. FieldsAreTheLine(line)
      BY <3>2, FieldsReadBack
    <3> QED
      BY <3>3 DEF line
  <2> QED
    BY <2>1, <2>2
<1>2. InputSpec => [](IndexTypeOK /\ IndexComplete)
  BY ImplementsIndex, IndexTypeCorrect, IndexIsComplete, PTL
<1> QED
  BY <1>1, <1>2, PTL
=============================================================================
