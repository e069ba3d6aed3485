---------------------- MODULE BatchAccumulator_proofs ----------------------
(***************************************************************************)
(* Proofs about BatchAccumulator, for any input, any configuration and any *)
(* behaviour of the clock.                                                 *)
(***************************************************************************)
EXTENDS BatchAccumulator, TLAPS

(***************************************************************************)
(* Sequences.                                                              *)
(***************************************************************************)
LEMMA EmptyOrNot ==
    ASSUME NEW S, NEW s \in Seq(S)
    PROVE  Len(s) \in Nat /\ (s # << >> => Len(s) > 0)
  OBVIOUS

LEMMA AppendFacts ==
    ASSUME NEW S, NEW s \in Seq(S), NEW e \in S
    PROVE  /\ Append(s, e) \in Seq(S)
           /\ Len(Append(s, e)) = Len(s) + 1
           /\ Append(s, e)[Len(s) + 1] = e
           /\ \A k \in 1 .. Len(s) : Append(s, e)[k] = s[k]
  OBVIOUS

LEMMA ConcatFacts ==
    ASSUME NEW S, NEW s \in Seq(S), NEW t \in Seq(S)
    PROVE  /\ s \o t \in Seq(S)
           /\ Len(s \o t) = Len(s) + Len(t)
           /\ \A k \in 1 .. Len(s) : (s \o t)[k] = s[k]
           /\ \A k \in 1 .. Len(t) : (s \o t)[Len(s) + k] = t[k]
  OBVIOUS

LEMMA CountsAppend ==
    ASSUME NEW S, NEW s \in Seq(S), NEW e \in S, NEW start \in Nat,
           Counts(s, start), e = start + Len(s) + 1
    PROVE  Counts(Append(s, e), start)
<1> SUFFICES ASSUME NEW k \in 1 .. (Len(s) + 1) PROVE Append(s, e)[k] = start + k
  BY AppendFacts DEF Counts
<1>1. CASE k = Len(s) + 1
  BY <1>1, AppendFacts, EmptyOrNot
<1>2. CASE k # Len(s) + 1
  <2>1. k \in 1 .. Len(s)
    BY <1>2, EmptyOrNot
  <2> QED
    BY <2>1, AppendFacts DEF Counts
<1> QED
  BY <1>1, <1>2

LEMMA CountsConcat ==
    ASSUME NEW S, NEW s \in Seq(S), NEW t \in Seq(S),
           Counts(s, 0), Counts(t, Len(s))
    PROVE  Counts(s \o t, 0)
<1>0. Len(s) \in Nat /\ Len(t) \in Nat
  BY EmptyOrNot
<1> SUFFICES ASSUME NEW k \in 1 .. (Len(s) + Len(t)) PROVE (s \o t)[k] = 0 + k
  BY ConcatFacts DEF Counts
<1>1. CASE k <= Len(s)
  <2>1. k \in 1 .. Len(s)
    BY <1>0, <1>1
  <2> QED
    BY <2>1, ConcatFacts DEF Counts
<1>2. CASE k > Len(s)
  <2>1. k - Len(s) \in 1 .. Len(t) /\ Len(s) + (k - Len(s)) = k
    BY <1>0, <1>2
  <2>2. (s \o t)[Len(s) + (k - Len(s))] = t[k - Len(s)]
    BY <2>1, ConcatFacts
  <2>3. t[k - Len(s)] = Len(s) + (k - Len(s))
    BY <2>1 DEF Counts
  <2> QED
    BY <2>1, <2>2, <2>3
<1> QED
  BY <1>0, <1>1, <1>2

-----------------------------------------------------------------------------
(***************************************************************************)
(* Type correctness.                                                       *)
(***************************************************************************)
LEMMA RecordsLen ==
    ASSUME TypeOK
    PROVE  Len(records) \in Nat /\ i \in Nat \ {0}
<1>1. records \in Seq(Record)
  BY InputsAssumption DEF TypeOK
<1> QED
  BY <1>1 DEF TypeOK

LEMMA InitType == Init => TypeOK
<1> SUFFICES ASSUME Init PROVE TypeOK
  OBVIOUS
<1>1. records \in Seq(Record) /\ config \in Config
  BY InputsAssumption, ConfigsAssumption DEF Init
<1>2. i \in 1 .. (Len(records) + 1)
  BY <1>1 DEF Init
<1>3. /\ << >> \in Seq(Places)
      /\ DOMAIN << >> = {}
  OBVIOUS
<1>4. now \in 0 .. MaxTime
  BY MaxTimeAssumption DEF Init
<1> QED
  BY <1>1, <1>2, <1>3, <1>4 DEF Init, TypeOK

LEMMA TickType ==
    ASSUME TypeOK, Tick
    PROVE  TypeOK'
<1>1. /\ now \in Int /\ now' = now + 1 /\ now < MaxTime
      /\ batch_start_time' = batch_start_time /\ opened_at' = opened_at
  BY MaxTimeAssumption DEF Tick, TypeOK
<1>2. now' \in 0 .. MaxTime /\ batch_start_time' \in 0 .. now' /\ opened_at' \in 0 .. now'
  BY <1>1, MaxTimeAssumption DEF TypeOK
<1>3. /\ records' = records /\ config' = config /\ pc' = pc /\ i' = i
      /\ buffer' = buffer /\ batch' = batch /\ batch_number' = batch_number
      /\ audit_files' = audit_files /\ processed' = processed /\ cuts' = cuts
  BY DEF Tick
<1> QED
  BY <1>2, <1>3 DEF TypeOK, Places

LEMMA AddRecordType ==
    ASSUME TypeOK, AddRecord
    PROVE  TypeOK'
<1>1. /\ records' = records /\ config' = config /\ now' = now
      /\ batch_start_time' = batch_start_time
      /\ batch' = batch /\ batch_number' = batch_number
      /\ audit_files' = audit_files /\ processed' = processed /\ cuts' = cuts
  BY DEF AddRecord
<1>2. i \in Places /\ i' \in 1 .. (Len(records) + 1)
  BY RecordsLen DEF AddRecord, Places, TypeOK
<1>3. buffer' \in Seq(Places)
  BY <1>2, AppendFacts DEF AddRecord, TypeOK
<1>4. opened_at' \in 0 .. now
  <2>1. now \in 0 .. now
    BY MaxTimeAssumption DEF TypeOK
  <2> QED
    BY <2>1 DEF AddRecord, TypeOK
<1>5. pc' \in {"add", "check"}
  BY DEF AddRecord
<1> QED
  BY <1>1, <1>2, <1>3, <1>4, <1>5 DEF TypeOK, Places

LEMMA ControlStepType ==
    ASSUME TypeOK, CheckFlush \/ FlushRemaining
    PROVE  TypeOK'
<1>1. /\ records' = records /\ config' = config /\ now' = now /\ i' = i
      /\ batch_start_time' = batch_start_time /\ opened_at' = opened_at
      /\ buffer' = buffer /\ batch' = batch /\ batch_number' = batch_number
      /\ audit_files' = audit_files /\ processed' = processed /\ cuts' = cuts
  BY DEF CheckFlush, FlushRemaining
<1>2. pc' \in {"add", "flush", "done"}
  BY DEF CheckFlush, FlushRemaining
<1> QED
  BY <1>1, <1>2 DEF TypeOK, Places

LEMMA FlushType ==
    ASSUME TypeOK, Flush
    PROVE  TypeOK'
<1>1. /\ records' = records /\ config' = config /\ now' = now /\ i' = i
      /\ batch_start_time' = batch_start_time /\ opened_at' = opened_at
      /\ audit_files' = audit_files /\ processed' = processed /\ cuts' = cuts
      /\ batch' = buffer /\ buffer' = << >> /\ pc' = "audit"
  BY DEF Flush
<1>2. batch_number' \in Nat /\ 1 .. batch_number \subseteq 1 .. batch_number'
  BY DEF Flush, TypeOK
<1>3. << >> \in Seq(Places)
  OBVIOUS
<1> QED
  BY <1>1, <1>2, <1>3 DEF TypeOK, Places

LEMMA AuditType ==
    ASSUME TypeOK, CutsInv, ControlInv, NEW written \in BOOLEAN,
           AuditAndRestartTimer(written)
    PROVE  TypeOK'
<1>1. /\ records' = records /\ config' = config /\ now' = now /\ i' = i
      /\ opened_at' = opened_at /\ buffer' = buffer /\ batch' = batch
      /\ batch_number' = batch_number /\ processed' = processed /\ cuts' = cuts
      /\ batch_start_time' = now /\ pc' = "process"
  BY DEF AuditAndRestartTimer
<1>2. now \in 0 .. now
  BY MaxTimeAssumption DEF TypeOK
<1>3. batch_number \in 1 .. batch_number
  <2>1. batch_number = Len(cuts) + 1
    BY DEF AuditAndRestartTimer, CutsInv, BatchInHand
  <2> QED
    BY <2>1, EmptyOrNot DEF TypeOK
<1>4. /\ DOMAIN audit_files' \subseteq 1 .. batch_number
      /\ \A n \in DOMAIN audit_files' : audit_files'[n] \in Seq(Places)
  <2>1. CASE written
    <3>1. audit_files' = [k \in DOMAIN audit_files \cup {batch_number} |->
                             IF k = batch_number THEN batch ELSE audit_files[k]]
      BY <2>1 DEF AuditAndRestartTimer, write_batch_file
    <3> QED
      BY <1>3, <3>1 DEF TypeOK
  <2>2. CASE ~ written
    BY <2>2 DEF AuditAndRestartTimer, write_batch_file, TypeOK
  <2> QED
    BY <2>1, <2>2
<1> QED
  BY <1>1, <1>2, <1>4 DEF TypeOK, Places

LEMMA ProcessType ==
    ASSUME TypeOK, InOrderExactlyOnce, CutsInv, ControlInv, ProcessBatch
    PROVE  TypeOK'
<1>1. /\ records' = records /\ config' = config /\ now' = now /\ i' = i
      /\ opened_at' = opened_at /\ buffer' = buffer /\ batch' = << >>
      /\ batch_number' = batch_number /\ audit_files' = audit_files
      /\ batch_start_time' = batch_start_time /\ pc' = "add"
  BY DEF ProcessBatch
<1>2. processed' \in Seq(Places)
  BY ConcatFacts DEF ProcessBatch, TypeOK
<1>3. Len(processed) + Len(batch) \in Places
  <2>1. /\ Len(batch) > 0 /\ buffer = << >>
        /\ Len(processed) + Len(batch) + Len(buffer) = i - 1
    BY DEF ProcessBatch, ControlInv, BatchInHand, InOrderExactlyOnce
  <2>2. Len(processed) \in Nat /\ Len(batch) \in Nat /\ Len(buffer) \in Nat
    BY EmptyOrNot DEF TypeOK
  <2>3. Len(buffer) = 0
    BY <2>1
  <2>4. i - 1 <= Len(records)
    BY RecordsLen DEF TypeOK
  <2> QED
    BY <2>1, <2>2, <2>3, <2>4, RecordsLen DEF Places
<1>4. cuts' \in Seq(Places)
  BY <1>3, AppendFacts DEF ProcessBatch, TypeOK
<1>5. << >> \in Seq(Places)
  OBVIOUS
<1> QED
  BY <1>1, <1>2, <1>4, <1>5 DEF TypeOK, Places

-----------------------------------------------------------------------------
(***************************************************************************)
(* The inductive invariant.                                                *)
(***************************************************************************)
LEMMA InitIInv == Init => IInv
<1> SUFFICES ASSUME Init PROVE IInv
  OBVIOUS
<1>1. /\ pc = "add" /\ i = 1 /\ batch_number = 0
      /\ buffer = << >> /\ batch = << >> /\ processed = << >> /\ cuts = << >>
      /\ DOMAIN audit_files = {}
  BY DEF Init
<1>2. Len(<< >>) = 0
  OBVIOUS
<1>3. ControlInv
  BY <1>1 DEF ControlInv, BatchInHand
<1>4. InOrderExactlyOnce
  BY <1>1, <1>2 DEF InOrderExactlyOnce, Counts
<1>5. CutsInv
  BY <1>1, <1>2 DEF CutsInv, BatchInHand, Start
<1>6. RunsIntact /\ CountMinimal
  BY <1>1, <1>2 DEF RunsIntact, CountMinimal
<1>7. OpenBatchInv
  BY <1>1, <1>2 DEF OpenBatchInv
<1>8. AuditMatches
  BY <1>1 DEF AuditMatches
<1> QED
  BY InitType, <1>3, <1>4, <1>5, <1>6, <1>7, <1>8 DEF IInv

LEMMA HistoryFrame ==
    ASSUME IInv, records' = records, config' = config, cuts' = cuts
    PROVE  /\ RunsIntact' /\ CountMinimal'
           /\ \A n : Start(n)' = Start(n)
           /\ \A n : EndOfRun(n)' <=> EndOfRun(n)
BY DEF IInv, RunsIntact, CountMinimal, Start, EndOfRun

(* The steps that move neither a record nor a cut: the clock, the question *)
(* whether to flush, and stuttering.                                       *)
LEMMA StillIInv ==
    ASSUME IInv,
           records' = records, config' = config, i' = i, buffer' = buffer,
           batch' = batch, batch_number' = batch_number,
           audit_files' = audit_files, processed' = processed, cuts' = cuts,
           BatchInHand' <=> BatchInHand, pc' = "process" <=> pc = "process"
    PROVE  /\ RunsIntact' /\ CountMinimal' /\ CutsInv' /\ AuditMatches'
           /\ Len(processed') + Len(batch') + Len(buffer') = i' - 1
           /\ Counts(processed', 0) /\ Counts(batch', Len(processed'))
           /\ Counts(buffer', Len(processed') + Len(batch'))
<1>1. InOrderExactlyOnce /\ CutsInv /\ AuditMatches
  BY DEF IInv
<1>2. \A n : Start(n)' = Start(n)
  BY HistoryFrame
<1>3. CutsInv'
  BY <1>1, <1>2 DEF CutsInv
<1>4. AuditMatches'
  BY <1>1, <1>2 DEF AuditMatches, Counts
<1> QED
  BY <1>1, <1>3, <1>4, HistoryFrame DEF InOrderExactlyOnce, Counts

LEMMA SamePlaceIInv ==
    ASSUME IInv,
           records' = records, config' = config, i' = i, buffer' = buffer,
           batch' = batch, batch_number' = batch_number,
           audit_files' = audit_files, processed' = processed, cuts' = cuts,
           pc' = pc, TypeOK'
    PROVE  IInv'
<1>1. InOrderExactlyOnce /\ ControlInv /\ OpenBatchInv
  BY DEF IInv
<1>2. BatchInHand' <=> BatchInHand
  BY DEF BatchInHand
<1>3. \A n : EndOfRun(n)' <=> EndOfRun(n)
  BY DEF EndOfRun
<1>4. ControlInv'
  BY <1>1, <1>2, <1>3 DEF ControlInv
<1>5. OpenBatchInv'
  BY <1>1, <1>3 DEF OpenBatchInv
<1>6. RunsIntact' /\ CountMinimal' /\ CutsInv' /\ AuditMatches' /\ InOrderExactlyOnce'
  BY <1>1, <1>2, StillIInv DEF InOrderExactlyOnce
<1> QED
  BY <1>4, <1>5, <1>6 DEF IInv

LEMMA TickIInv ==
    ASSUME IInv, Tick
    PROVE  IInv'
<1>1. TypeOK'
  BY TickType DEF IInv
<1>2. /\ records' = records /\ config' = config /\ pc' = pc /\ i' = i
      /\ buffer' = buffer /\ batch' = batch /\ batch_number' = batch_number
      /\ audit_files' = audit_files /\ processed' = processed /\ cuts' = cuts
  BY DEF Tick
<1> QED
  BY <1>1, <1>2, SamePlaceIInv

LEMMA StutterIInv ==
    ASSUME IInv, UNCHANGED feed_vars
    PROVE  IInv'
<1>1. /\ records' = records /\ config' = config /\ pc' = pc /\ i' = i
      /\ buffer' = buffer /\ batch' = batch /\ batch_number' = batch_number
      /\ audit_files' = audit_files /\ processed' = processed /\ cuts' = cuts
      /\ now' = now /\ batch_start_time' = batch_start_time /\ opened_at' = opened_at
  BY DEF feed_vars
<1>2. TypeOK'
  BY <1>1 DEF IInv, TypeOK, Places
<1> QED
  BY <1>1, <1>2, SamePlaceIInv

LEMMA Lengths ==
    ASSUME IInv
    PROVE  /\ Len(records) \in Nat /\ i \in Nat \ {0} /\ i <= Len(records) + 1
           /\ Len(processed) \in Nat /\ Len(batch) \in Nat /\ Len(buffer) \in Nat
           /\ Len(cuts) \in Nat
           /\ Len(processed) + Len(batch) + Len(buffer) = i - 1
           /\ BatchInHand => Len(buffer) = 0 /\ Len(batch) > 0
           /\ ~ BatchInHand => Len(batch) = 0
<1>1. TypeOK /\ InOrderExactlyOnce /\ ControlInv
  BY DEF IInv
<1>2. Len(records) \in Nat /\ i \in Nat \ {0} /\ i <= Len(records) + 1
  BY <1>1, RecordsLen DEF TypeOK
<1>3. Len(processed) \in Nat /\ Len(batch) \in Nat /\ Len(buffer) \in Nat /\ Len(cuts) \in Nat
  BY <1>1, EmptyOrNot DEF TypeOK
<1>4. Len(<< >>) = 0
  OBVIOUS
<1> QED
  BY <1>1, <1>2, <1>3, <1>4 DEF InOrderExactlyOnce, ControlInv

LEMMA AddRecordIInv ==
    ASSUME IInv, AddRecord
    PROVE  IInv'
<1>0. TypeOK /\ InOrderExactlyOnce /\ ControlInv /\ CutsInv /\ OpenBatchInv
  BY DEF IInv
<1>1. /\ records' = records /\ config' = config /\ batch' = batch
      /\ batch_number' = batch_number /\ audit_files' = audit_files
      /\ processed' = processed /\ cuts' = cuts
      /\ pc = "add" /\ i' = i + 1 /\ buffer' = Append(buffer, i)
      /\ pc' = IF EndOfRun(i) THEN "check" ELSE "add"
      /\ i <= Len(records)
  BY DEF AddRecord
<1>2. ~ BatchInHand /\ ~ BatchInHand' /\ pc' # "process" /\ pc' # "done" /\ batch = << >>
  BY <1>0, <1>1 DEF BatchInHand, ControlInv
<1>3. i \in Places
  BY <1>1, Lengths DEF Places
<1>4. Len(buffer') = Len(buffer) + 1 /\ (i + 1) - 1 = i
  BY <1>0, <1>1, <1>3, AppendFacts, Lengths DEF TypeOK
<1>5. Counts(buffer', Len(processed) + Len(batch))
  BY <1>0, <1>1, <1>3, CountsAppend, Lengths DEF TypeOK, InOrderExactlyOnce
<1>6. InOrderExactlyOnce'
  <2>1. Len(processed) + Len(batch) + Len(buffer') = i' - 1
    BY <1>1, <1>4, Lengths
  <2> QED
    BY <1>0, <1>1, <1>2, <1>5, <2>1 DEF InOrderExactlyOnce, Counts
<1>7. \A n : EndOfRun(n)' <=> EndOfRun(n)
  BY <1>1, HistoryFrame
<1>8. ControlInv'
  <2>1. Len(buffer') > 0
    BY <1>4, Lengths
  <2>2. pc' = "check" => EndOfRun(i - 1)'
    <3>1. i' - 1 = i
      BY <1>1, <1>4
    <3> QED
      BY <1>1, <3>1 DEF EndOfRun
  <2>3. pc' # "flush"
    BY <1>1
  <2> QED
    BY <1>1, <1>2, <2>1, <2>2, <2>3 DEF ControlInv
<1>9. CutsInv'
  BY <1>0, <1>1, <1>2, HistoryFrame DEF CutsInv
<1>10. OpenBatchInv'
  <2> SUFFICES ASSUME config.strategy = "COUNT",
                      NEW c \in (Len(processed) + 1) .. i, EndOfRun(c),
                      c - Len(processed) >= config.count_threshold
               PROVE  c = i /\ pc' = "check"
    BY <1>1, <1>4, <1>7 DEF OpenBatchInv
  <2>1. c = i
    <3> SUFFICES ASSUME c # i PROVE FALSE
      OBVIOUS
    <3>1. c \in (Len(processed) + 1) .. (i - 1)
      BY Lengths
    <3> QED
      BY <1>0, <1>1, <3>1 DEF OpenBatchInv
  <2> QED
    BY <1>1, <2>1
<1>11. AuditMatches'
  BY <1>1, <1>2, HistoryFrame DEF IInv, AuditMatches, Counts
<1> QED
  BY <1>0, <1>1, <1>6, <1>8, <1>9, <1>10, <1>11, AddRecordType, HistoryFrame DEF IInv

LEMMA CheckFlushIInv ==
    ASSUME IInv, CheckFlush
    PROVE  IInv'
<1>0. TypeOK /\ InOrderExactlyOnce /\ ControlInv /\ OpenBatchInv
  BY DEF IInv
<1>1. /\ records' = records /\ config' = config /\ i' = i /\ buffer' = buffer
      /\ batch' = batch /\ batch_number' = batch_number
      /\ audit_files' = audit_files /\ processed' = processed /\ cuts' = cuts
      /\ pc = "check" /\ pc' = IF should_flush THEN "flush" ELSE "add"
  BY DEF CheckFlush
<1>2. ~ BatchInHand /\ ~ BatchInHand' /\ pc' # "process" /\ pc' # "done" /\ pc # "process"
  BY <1>1 DEF BatchInHand
<1>3. \A n : EndOfRun(n)' <=> EndOfRun(n)
  BY <1>1, HistoryFrame
<1>4. Len(buffer) > 0 /\ EndOfRun(i - 1) /\ batch = << >>
  BY <1>0, <1>1, <1>2 DEF ControlInv
<1>5. ControlInv'
  BY <1>1, <1>2, <1>3, <1>4 DEF ControlInv
<1>6. OpenBatchInv'
  <2> SUFFICES ASSUME config.strategy = "COUNT" PROVE OpenBatchInv'
    BY <1>1 DEF OpenBatchInv
  <2>1. Len(buffer) = i - 1 - Len(processed)
    BY <1>2, Lengths
  <2>2. should_flush <=> Len(buffer) >= config.count_threshold
    <3>1. buffer # << >>
      BY <1>4
    <3> QED
      BY <3>1 DEF should_flush
  <2>3. ASSUME NEW c \in (Len(processed) + 1) .. (i - 1), EndOfRun(c),
               c - Len(processed) >= config.count_threshold
        PROVE  c = i - 1 /\ pc' = "flush"
    <3>1. c = i - 1
      BY <1>0, <2>3 DEF OpenBatchInv
    <3> QED
      BY <1>1, <2>1, <2>2, <2>3, <3>1
  <2>4. pc' = "flush" => i - 1 - Len(processed) >= config.count_threshold
    BY <1>1, <2>1, <2>2
  <2> QED
    BY <1>1, <1>2, <1>3, <2>3, <2>4 DEF OpenBatchInv, BatchInHand
<1>7. InOrderExactlyOnce'
  BY <1>1, <1>2, StillIInv DEF InOrderExactlyOnce
<1>8. RunsIntact' /\ CountMinimal' /\ CutsInv' /\ AuditMatches'
  BY <1>1, <1>2, StillIInv
<1> QED
  BY <1>0, <1>5, <1>6, <1>7, <1>8, ControlStepType DEF IInv

LEMMA FlushRemainingIInv ==
    ASSUME IInv, FlushRemaining
    PROVE  IInv'
<1>0. TypeOK /\ InOrderExactlyOnce /\ ControlInv /\ OpenBatchInv
  BY DEF IInv
<1>1. /\ records' = records /\ config' = config /\ i' = i /\ buffer' = buffer
      /\ batch' = batch /\ batch_number' = batch_number
      /\ audit_files' = audit_files /\ processed' = processed /\ cuts' = cuts
      /\ pc = "add" /\ i > Len(records)
      /\ pc' = IF buffer = << >> THEN "done" ELSE "flush"
  BY DEF FlushRemaining
<1>2. ~ BatchInHand /\ ~ BatchInHand' /\ pc' # "process" /\ pc # "process" /\ batch = << >>
  BY <1>0, <1>1 DEF BatchInHand, ControlInv
<1>3. \A n : EndOfRun(n)' <=> EndOfRun(n)
  BY <1>1, HistoryFrame
<1>4. i = Len(records) + 1 /\ i - 1 = Len(records)
  BY <1>1, Lengths
<1>5. EndOfRun(i - 1)
  BY <1>4 DEF EndOfRun
<1>6. buffer # << >> => Len(buffer) > 0
  BY <1>0, EmptyOrNot DEF TypeOK
<1>7. ControlInv'
  BY <1>1, <1>2, <1>3, <1>4, <1>5, <1>6 DEF ControlInv
<1>8. OpenBatchInv'
  <2>1. ASSUME config.strategy = "COUNT",
               NEW c \in (Len(processed) + 1) .. (i - 1), EndOfRun(c),
               c - Len(processed) >= config.count_threshold
        PROVE  FALSE
    BY <1>0, <1>1, <2>1 DEF OpenBatchInv
  <2> QED
    BY <1>1, <1>3, <1>4, <2>1 DEF OpenBatchInv
<1>9. pc' = "done" => Len(processed) = Len(records)
  <2>1. Len(<< >>) = 0
    OBVIOUS
  <2> QED
    BY <1>1, <1>2, <1>4, <2>1, Lengths
<1>10. InOrderExactlyOnce'
  BY <1>1, <1>2, <1>9, StillIInv DEF InOrderExactlyOnce
<1>11. RunsIntact' /\ CountMinimal' /\ CutsInv' /\ AuditMatches'
  BY <1>1, <1>2, StillIInv
<1> QED
  BY <1>0, <1>7, <1>8, <1>10, <1>11, ControlStepType DEF IInv


LEMMA FlushIInv ==
    ASSUME IInv, Flush
    PROVE  IInv'
<1>0. TypeOK /\ InOrderExactlyOnce /\ ControlInv /\ CutsInv /\ OpenBatchInv
  BY DEF IInv
<1>1. /\ records' = records /\ config' = config /\ i' = i
      /\ batch_number' = batch_number + 1 /\ audit_files' = audit_files
      /\ processed' = processed /\ cuts' = cuts
      /\ pc = "flush" /\ pc' = "audit" /\ batch' = buffer /\ buffer' = << >>
  BY DEF Flush
<1>2. ~ BatchInHand /\ BatchInHand' /\ batch = << >> /\ Len(batch) = 0
  BY <1>0, <1>1, Lengths DEF BatchInHand, ControlInv
<1>3. \A n : EndOfRun(n)' <=> EndOfRun(n)
  BY <1>1, HistoryFrame
<1>4. Len(<< >>) = 0
  OBVIOUS
<1>5. ControlInv'
  BY <1>0, <1>1, <1>2, <1>3 DEF ControlInv
<1>6. InOrderExactlyOnce'
  <2>1. Len(processed) + Len(buffer) + 0 = i - 1
    BY <1>2, Lengths
  <2>2. Counts(buffer, Len(processed))
    <3>1. Len(processed) + Len(batch) = Len(processed)
      BY <1>2, Lengths
    <3> QED
      BY <1>0, <3>1 DEF InOrderExactlyOnce
  <2>3. Counts(buffer', Len(processed') + Len(batch'))
    BY <1>1, <1>4 DEF Counts
  <2> QED
    BY <1>0, <1>1, <1>4, <2>1, <2>2, <2>3 DEF InOrderExactlyOnce, Counts
<1>7. CutsInv'
  BY <1>0, <1>1, <1>2, HistoryFrame DEF CutsInv
<1>8. OpenBatchInv'
  BY <1>0, <1>1, <1>3 DEF OpenBatchInv
<1>9. AuditMatches'
  <2>1. \A n \in DOMAIN audit_files : n <= Len(cuts)
    BY <1>1 DEF IInv, AuditMatches
  <2> QED
    BY <1>1, <2>1, HistoryFrame DEF IInv, AuditMatches, Counts
<1> QED
  BY <1>0, <1>1, <1>5, <1>6, <1>7, <1>8, <1>9, FlushType, HistoryFrame DEF IInv

LEMMA AuditIInv ==
    ASSUME IInv, NEW written \in BOOLEAN, AuditAndRestartTimer(written)
    PROVE  IInv'
<1>0. TypeOK /\ InOrderExactlyOnce /\ ControlInv /\ CutsInv /\ OpenBatchInv /\ AuditMatches
  BY DEF IInv
<1>1. /\ records' = records /\ config' = config /\ i' = i /\ buffer' = buffer
      /\ batch' = batch /\ batch_number' = batch_number
      /\ processed' = processed /\ cuts' = cuts
      /\ pc = "audit" /\ pc' = "process"
      /\ audit_files' = write_batch_file(batch_number, batch, written)
  BY DEF AuditAndRestartTimer
<1>2. BatchInHand /\ BatchInHand'
  BY <1>1 DEF BatchInHand
<1>3. \A n : EndOfRun(n)' <=> EndOfRun(n)
  BY <1>1, HistoryFrame
<1>4. ControlInv'
  BY <1>0, <1>1, <1>2, <1>3 DEF ControlInv
<1>5. InOrderExactlyOnce'
  BY <1>0, <1>1 DEF InOrderExactlyOnce, Counts
<1>6. CutsInv'
  BY <1>0, <1>1, <1>2, HistoryFrame DEF CutsInv
<1>7. OpenBatchInv'
  BY <1>0, <1>1, <1>3 DEF OpenBatchInv
<1>8. AuditMatches'
  <2>1. batch_number = Len(cuts) + 1 /\ ~ (batch_number <= Len(cuts))
    BY <1>0, <1>2, Lengths DEF CutsInv
  <2>2. ASSUME NEW n \in DOMAIN audit_files', n # batch_number \/ ~ written
        PROVE  n \in DOMAIN audit_files /\ audit_files'[n] = audit_files[n]
    BY <1>1, <2>2 DEF write_batch_file
  <2>3. \A n \in DOMAIN audit_files : n <= Len(cuts)
    BY <1>0, <1>1 DEF AuditMatches
  <2>4. written => audit_files'[batch_number] = batch
    BY <1>1 DEF write_batch_file
  <2>5. ASSUME NEW n \in DOMAIN audit_files'
        PROVE  IF n <= Len(cuts)
               THEN /\ Len(audit_files'[n]) = cuts[n] - Start(n)
                    /\ Counts(audit_files'[n], Start(n))
               ELSE /\ pc' = "process"
                    /\ n = Len(cuts) + 1
                    /\ audit_files'[n] = batch
    <3>1. CASE n = batch_number /\ written
      BY <1>1, <2>1, <2>4, <3>1
    <3>2. CASE n # batch_number \/ ~ written
      <4>1. n \in DOMAIN audit_files /\ audit_files'[n] = audit_files[n] /\ n <= Len(cuts)
        BY <2>2, <2>3, <3>2
      <4> QED
        BY <1>0, <4>1 DEF AuditMatches
    <3> QED
      BY <3>1, <3>2
  <2> QED
    BY <1>1, <2>5, HistoryFrame DEF AuditMatches, Counts
<1> QED
  BY <1>0, <1>1, <1>4, <1>5, <1>6, <1>7, <1>8, AuditType, HistoryFrame DEF IInv

LEMMA ProcessBatchIInv ==
    ASSUME IInv, ProcessBatch
    PROVE  IInv'
<1>0. /\ TypeOK /\ InOrderExactlyOnce /\ ControlInv /\ CutsInv
      /\ RunsIntact /\ OpenBatchInv /\ CountMinimal /\ AuditMatches
  BY DEF IInv
<1>1. /\ records' = records /\ config' = config /\ i' = i /\ buffer' = buffer
      /\ batch_number' = batch_number /\ audit_files' = audit_files
      /\ pc = "process" /\ pc' = "add" /\ batch' = << >>
      /\ processed' = processed \o batch
      /\ cuts' = Append(cuts, Len(processed) + Len(batch))
  BY DEF ProcessBatch
<1>2. BatchInHand /\ ~ BatchInHand' /\ buffer = << >> /\ EndOfRun(i - 1)
  BY <1>0, <1>1 DEF BatchInHand, ControlInv
<1>3. /\ Len(buffer) = 0 /\ Len(batch) > 0
      /\ Len(processed) + Len(batch) = i - 1
  BY <1>2, Lengths
<1>4. /\ processed' \in Seq(Places)
      /\ Len(processed') = i - 1
      /\ Counts(processed', 0)
  BY <1>0, <1>1, <1>3, ConcatFacts, CountsConcat DEF TypeOK, InOrderExactlyOnce
<1>5. Len(<< >>) = 0 /\ Counts(<< >>, Len(processed'))
  BY DEF Counts
<1>n. PICK m \in Nat : m = Len(cuts)
  BY Lengths
<1>l. PICK last \in Places : last = i - 1
  BY <1>3, Lengths DEF Places
<1>6. /\ Len(cuts') = m + 1
      /\ cuts'[m + 1] = last
      /\ \A n \in 1 .. m : cuts'[n] = cuts[n]
  BY <1>0, <1>1, <1>3, <1>n, <1>l, AppendFacts DEF TypeOK
<1>7. /\ \A n \in 1 .. (m + 1) : Start(n)' = Start(n)
      /\ Start(m + 2)' = last
      /\ Start(m + 1) = Len(processed)
  <2>1. ASSUME NEW n \in 1 .. (m + 1), n # 1
        PROVE  cuts'[n - 1] = cuts[n - 1]
    <3>1. n - 1 \in 1 .. m
      BY <2>1
    <3> QED
      BY <1>6, <3>1
  <2>2. m + 2 # 1 /\ (m + 2) - 1 = m + 1
    OBVIOUS
  <2>3. Start(m + 2)' = cuts'[m + 1]
    BY <2>2 DEF Start
  <2>4. \A n \in 1 .. (m + 1) : Start(n)' = Start(n)
    BY <2>1 DEF Start
  <2> QED
    BY <1>0, <1>6, <1>n, <2>3, <2>4 DEF CutsInv
<1>8. \A n : EndOfRun(n)' <=> EndOfRun(n)
  BY <1>1 DEF EndOfRun
<1>9. ControlInv'
  BY <1>1, <1>2 DEF ControlInv
<1>10. InOrderExactlyOnce'
  <2>1. Len(processed') + 0 + 0 = i - 1
    BY <1>4, Lengths
  <2>2. Counts(<< >>, Len(processed') + 0)
    BY DEF Counts
  <2> QED
    BY <1>1, <1>2, <1>4, <1>5, <2>1, <2>2 DEF InOrderExactlyOnce
<1>11. CutsInv'
  <2>1. ASSUME NEW n \in 1 .. (m + 1) PROVE Start(n) < cuts'[n]
    <3>1. CASE n = m + 1
      BY <1>3, <1>6, <1>7, <1>l, <3>1, Lengths
    <3>2. CASE n # m + 1
      <4>1. n \in 1 .. m
        BY <3>2
      <4> QED
        BY <1>0, <1>6, <1>n, <4>1 DEF CutsInv
    <3> QED
      BY <3>1, <3>2
  <2>2. Len(cuts') + 1 = m + 2
    BY <1>6
  <2>3. Start(Len(cuts) + 1)' = Len(processed')
    <3>1. Start(Len(cuts) + 1)' = Start(m + 2)'
      BY <2>2 DEF Start
    <3> QED
      BY <1>4, <1>7, <1>l, <3>1
  <2>4. batch_number' = Len(cuts')
    BY <1>0, <1>1, <1>2, <1>6, <1>n DEF CutsInv
  <2> QED
    BY <1>2, <1>6, <1>7, <2>1, <2>3, <2>4 DEF CutsInv
<1>12. RunsIntact'
  <2>1. ASSUME NEW n \in 1 .. (m + 1) PROVE EndOfRun(cuts'[n])
    <3>1. CASE n = m + 1
      BY <1>2, <1>6, <1>l, <3>1
    <3>2. CASE n # m + 1
      <4>1. n \in 1 .. m
        BY <3>2
      <4> QED
        BY <1>0, <1>6, <1>n, <4>1 DEF RunsIntact
    <3> QED
      BY <3>1, <3>2
  <2> QED
    BY <1>6, <1>8, <2>1 DEF RunsIntact
<1>13. OpenBatchInv'
  <2>1. (Len(processed') + 1) .. (i' - 1) = {}
    BY <1>1, <1>4, Lengths
  <2> QED
    BY <1>1, <2>1 DEF OpenBatchInv
<1>14. CountMinimal'
  <2> SUFFICES ASSUME config.strategy = "COUNT", NEW n \in 1 .. (m + 1)
               PROVE  /\ \/ cuts'[n] = Len(records)
                         \/ cuts'[n] - Start(n) >= config.count_threshold
                      /\ \A c \in (Start(n) + 1) .. (cuts'[n] - 1) :
                            EndOfRun(c) => c - Start(n) < config.count_threshold
    BY <1>1, <1>6, <1>7, <1>8 DEF CountMinimal
  <2>1. CASE n = m + 1
    <3>1. Start(n) = Len(processed) /\ cuts'[n] = i - 1
      BY <1>6, <1>7, <1>l, <2>1
    <3>2. \/ i - 1 = Len(records)
          \/ i - 1 - Len(processed) >= config.count_threshold
      BY <1>0, <1>1 DEF OpenBatchInv
    <3>3. ASSUME NEW c \in (Len(processed) + 1) .. (i - 1 - 1), EndOfRun(c)
          PROVE  c - Len(processed) < config.count_threshold
      <4>1. c \in (Len(processed) + 1) .. (i - 1) /\ c # i - 1 /\ c - Len(processed) \in Int
        BY Lengths
      <4>2. ~ (c - Len(processed) >= config.count_threshold)
        BY <1>0, <3>3, <4>1 DEF OpenBatchInv
      <4>3. config.count_threshold \in Nat
        BY <1>0 DEF TypeOK, Config
      <4> QED
        BY <4>1, <4>2, <4>3
    <3> QED
      BY <3>1, <3>2, <3>3
  <2>2. CASE n # m + 1
    <3>1. n \in 1 .. m
      BY <2>2
    <3> QED
      BY <1>0, <1>6, <1>n, <3>1 DEF CountMinimal
  <2> QED
    BY <2>1, <2>2
<1>15. AuditMatches'
  <2> SUFFICES ASSUME NEW n \in DOMAIN audit_files
               PROVE  /\ n <= m + 1
                      /\ Len(audit_files[n]) = cuts'[n] - Start(n)'
                      /\ Counts(audit_files[n], Start(n)')
    BY <1>1, <1>6 DEF AuditMatches, Counts
  <2>1. n \in Nat \ {0}
    BY <1>0 DEF TypeOK
  <2>2. CASE n <= m
    <3>1. n \in 1 .. m /\ n \in 1 .. (m + 1)
      BY <2>1, <2>2
    <3>2. Len(audit_files[n]) = cuts[n] - Start(n) /\ Counts(audit_files[n], Start(n))
      BY <1>0, <1>n, <2>2 DEF AuditMatches
    <3> QED
      BY <1>6, <1>7, <2>2, <3>1, <3>2
  <2>3. CASE ~ (n <= m)
    <3>1. n = m + 1 /\ audit_files[n] = batch
      BY <1>0, <1>n, <2>3 DEF AuditMatches
    <3>2. Start(n)' = Len(processed) /\ cuts'[n] = i - 1
      BY <1>6, <1>7, <1>l, <3>1
    <3>3. Len(batch) = i - 1 - Len(processed)
      BY <1>3, Lengths
    <3>4. Counts(batch, Len(processed))
      BY <1>0 DEF InOrderExactlyOnce
    <3> QED
      BY <3>1, <3>2, <3>3, <3>4
  <2> QED
    BY <2>2, <2>3
<1> QED
  BY <1>0, <1>9, <1>10, <1>11, <1>12, <1>13, <1>14, <1>15, ProcessType DEF IInv

LEMMA NextIInv == IInv /\ [Next]_feed_vars => IInv'
<1> SUFFICES ASSUME IInv, [Next]_feed_vars PROVE IInv'
  OBVIOUS
<1>1. CASE Tick
  BY <1>1, TickIInv
<1>2. CASE AddRecord
  BY <1>2, AddRecordIInv
<1>3. CASE CheckFlush
  BY <1>3, CheckFlushIInv
<1>4. CASE FlushRemaining
  BY <1>4, FlushRemainingIInv
<1>5. CASE Flush
  BY <1>5, FlushIInv
<1>6. ASSUME NEW written \in BOOLEAN, AuditAndRestartTimer(written) PROVE IInv'
  BY <1>6, AuditIInv
<1>7. CASE ProcessBatch
  BY <1>7, ProcessBatchIInv
<1>8. CASE Done \/ UNCHANGED feed_vars
  BY <1>8, StutterIInv DEF Done
<1> QED
  BY <1>1, <1>2, <1>3, <1>4, <1>5, <1>6, <1>7, <1>8 DEF Next, Step

-----------------------------------------------------------------------------
(* The invariant of the feeding loop.                                      *)
THEOREM InductiveInvariant == Spec => []IInv
<1>1. Init => IInv
  BY InitIInv
<1>2. IInv /\ [Next]_feed_vars => IInv'
  BY NextIInv
<1> QED
  BY <1>1, <1>2, PTL DEF Spec

(* Every variable of the accumulator and of the loop keeps its type.       *)
THEOREM TypeCorrect == Spec => []TypeOK
<1>1. IInv => TypeOK
  BY DEF IInv
<1> QED
  BY <1>1, InductiveInvariant, PTL

(* No record is lost, duplicated or reordered between the parser and the   *)
(* pipeline, whatever flushes it.                                          *)
THEOREM ExactlyOnce == Spec => []InOrderExactlyOnce
<1>1. IInv => InOrderExactlyOnce
  BY DEF IInv
<1> QED
  BY <1>1, InductiveInvariant, PTL

(* No batch ends inside a run of equal timestamps.                         *)
THEOREM NoRunIsSplit == Spec => []RunsIntact
<1>1. IInv => RunsIntact
  BY DEF IInv
<1> QED
  BY <1>1, InductiveInvariant, PTL

(* COUNT closes a batch at the first end of a run that has the count.      *)
THEOREM CountBatches == Spec => []CountMinimal
<1>1. IInv => CountMinimal
  BY DEF IInv
<1> QED
  BY <1>1, InductiveInvariant, PTL

(* An audit file tells what was processed under its number.                *)
THEOREM AuditTrail == Spec => []AuditMatches
<1>1. IInv => AuditMatches
  BY DEF IInv
<1> QED
  BY <1>1, InductiveInvariant, PTL

(***************************************************************************)
(* Spacing of the timer.  Between should_flush and the restart the clock   *)
(* only advances, so the time that had elapsed when the flush was decided  *)
(* has elapsed at the restart.                                             *)
(***************************************************************************)
TimerInv ==
    config.strategy = "TIME" /\ pc \in {"flush", "audit"} =>
        \/ i > Len(records)
        \/ now - batch_start_time >= config.time_threshold_ms

LEMMA NextTimerInv == TypeOK /\ TypeOK' /\ TimerInv /\ [Next]_feed_vars => TimerInv'
<1> SUFFICES ASSUME TypeOK, TypeOK', TimerInv, [Next]_feed_vars,
                    config'.strategy = "TIME", pc' \in {"flush", "audit"},
                    ~ (i' > Len(records'))
             PROVE  now' - batch_start_time' >= config'.time_threshold_ms
  BY DEF TimerInv
<1>0. /\ now \in Int /\ batch_start_time \in Int
      /\ config.time_threshold_ms \in Int
  BY MaxTimeAssumption DEF TypeOK, Config
<1>1. CASE Tick
  <2>1. /\ now' = now + 1 /\ batch_start_time' = batch_start_time /\ config' = config
        /\ pc' = pc /\ i' = i /\ records' = records
    BY <1>1 DEF Tick
  <2> QED
    BY <1>0, <2>1 DEF TimerInv
<1>2. CASE CheckFlush
  <2>1. /\ now' = now /\ batch_start_time' = batch_start_time /\ config' = config
        /\ should_flush
    BY <1>2 DEF CheckFlush
  <2> QED
    BY <2>1 DEF should_flush
<1>3. CASE FlushRemaining
  BY <1>3 DEF FlushRemaining
<1>4. CASE Flush
  BY <1>4 DEF Flush, TimerInv
<1>5. CASE Done \/ UNCHANGED feed_vars
  BY <1>5 DEF Done, feed_vars, TimerInv
<1>6. ASSUME AddRecord \/ ProcessBatch \/ \E written \in BOOLEAN : AuditAndRestartTimer(written)
      PROVE  FALSE
  BY <1>6 DEF AddRecord, ProcessBatch, AuditAndRestartTimer
<1> QED
  BY <1>1, <1>2, <1>3, <1>4, <1>5, <1>6 DEF Next, Step

(* Under TIME the timer is never restarted early, except at the very end.  *)
THEOREM TimerRestarts == Spec => TimerSpacing
<1>1. Init => TimerInv
  BY DEF Init, TimerInv
<1>2. TypeOK /\ TimerInv /\ [Next]_feed_vars =>
         [config.strategy = "TIME" /\ batch_start_time' # batch_start_time
            => \/ i > Len(records)
               \/ batch_start_time' - batch_start_time >= config.time_threshold_ms]_feed_vars
  <2> SUFFICES ASSUME TypeOK, TimerInv, Next, config.strategy = "TIME",
                      batch_start_time' # batch_start_time, ~ (i > Len(records))
               PROVE  batch_start_time' - batch_start_time >= config.time_threshold_ms
    OBVIOUS
  <2>1. PICK written \in BOOLEAN : AuditAndRestartTimer(written)
    BY DEF Next, Step, Tick, AddRecord, CheckFlush, FlushRemaining, Flush, ProcessBatch,
           Done, feed_vars
  <2>2. pc = "audit" /\ batch_start_time' = now
    BY <2>1 DEF AuditAndRestartTimer
  <2> QED
    BY <2>2 DEF TimerInv
<1> QED
  BY <1>1, <1>2, NextTimerInv, TypeCorrect, PTL DEF Spec, TimerSpacing

(***************************************************************************)
(* The accumulator implements the abstract stream: for any thresholds and  *)
(* any clock, processing a batch is delivering whole runs of records, and  *)
(* nothing else is visible.                                                *)
(***************************************************************************)
THEOREM Refinement == Spec => ImplementsStream
<1>1. Init => Stream!Init
  <2>1. Len(<< >>) = 0
    OBVIOUS
  <2> QED
    BY <2>1 DEF Init, Stream!Init
<1>2. IInv /\ IInv' /\ [Next]_feed_vars => [Stream!Next]_(Stream!vars)
  <2> SUFFICES ASSUME IInv, IInv', [Next]_feed_vars
               PROVE  Stream!Next \/ UNCHANGED Stream!vars
    OBVIOUS
  <2>1. CASE ProcessBatch
    <3>1. /\ records' = records /\ i' = i /\ batch' = << >> /\ buffer' = buffer
          /\ pc = "process"
      BY <2>1 DEF ProcessBatch
    <3>2. BatchInHand /\ EndOfRun(i - 1)
      BY <3>1 DEF BatchInHand, IInv, ControlInv
    <3>3. Len(processed) + Len(batch) = i - 1 /\ Len(batch) > 0
      BY <3>2, Lengths
    <3>4. Len(processed') = i - 1
      BY <2>1, <3>3, ConcatFacts DEF ProcessBatch, IInv, TypeOK
    <3>5. i - 1 \in (Len(processed) + 1) .. Len(records) /\ i - 1 \in 1 .. Len(records)
      BY <3>3, Lengths
    <3>6. Stream!Deliver(i - 1)
      BY <3>1, <3>2, <3>4, <3>5 DEF Stream!Deliver, Stream!EndOfRun, EndOfRun
    <3> QED
      BY <3>5, <3>6 DEF Stream!Next
  <2>2. CASE ~ ProcessBatch
    <3>1. records' = records /\ processed' = processed
      BY <2>2 DEF Next, Step, Tick, AddRecord, CheckFlush, FlushRemaining, Flush,
                  AuditAndRestartTimer, Done, feed_vars
    <3> QED
      BY <3>1 DEF Stream!vars
  <2> QED
    BY <2>1, <2>2
<1> QED
  BY <1>1, <1>2, InductiveInvariant, PTL DEF Spec, ImplementsStream, Stream!Spec
=============================================================================
