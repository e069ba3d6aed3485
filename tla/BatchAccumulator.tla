-------------------------- MODULE BatchAccumulator --------------------------
(***************************************************************************)
(* The BatchAccumulator of batch_accumulator.hpp and the loop of main()    *)
(* that feeds it: records go into the buffer one by one, the end of a run  *)
(* of equal timestamps is the only place where the loop asks should_flush, *)
(* a flushed batch is written to an audit file and handed to the rule      *)
(* pipeline, and what is left at the end is flushed as a last batch.       *)
(*                                                                         *)
(* The wall clock may advance between any two steps; should_flush and      *)
(* flush each read it.  A record is known by its place in the input.       *)
(***************************************************************************)
EXTENDS Integers, Sequences

CONSTANTS
    Record,         \* what the CSV parser returns: [timestamp, ...]
    Inputs,         \* the sequences of records a run may be given
    Configs,        \* the batch configurations a run may be given
    MaxTime         \* bound: the clock stops here

Config == [strategy : {"COUNT", "TIME"},
           count_threshold : Nat,
           time_threshold_ms : Int,
           write_audit_files : BOOLEAN]

ASSUME InputsAssumption == \A r \in Inputs : r \in Seq(Record)

ASSUME ConfigsAssumption == \A c \in Configs : c \in Config

ASSUME MaxTimeAssumption == MaxTime \in Nat

VARIABLES
    records,            \* the records of the run
    config,             \* BatchAccumulator::config_
    pc,                 \* where the feeding loop is
    i,                  \* the next record to feed
    buffer,             \* BatchAccumulator::buffer_
    batch,              \* the batch flush() returned, until it is processed
    batch_number,       \* BatchAccumulator::batch_number_
    batch_start_time,   \* BatchAccumulator::batch_start_time_
    now,                \* std::chrono::steady_clock
    audit_files,        \* batch number -> the records in its audit file
    processed,          \* history: the records the pipeline has processed
    cuts,               \* history: Len(processed) after each batch
    opened_at           \* history: when the buffer got its first record

feed_vars == <<records, config, pc, i, buffer, batch, batch_number,
               batch_start_time, now, audit_files, processed, cuts, opened_at>>

(* timestamp_boundary: no record with the same timestamp follows. *)
EndOfRun(n) ==
    n = Len(records) \/ records[n].timestamp # records[n + 1].timestamp
-----------------------------------------------------------------------------
Init ==
    /\ records \in Inputs
    /\ config \in Configs
    /\ pc = "add"
    /\ i = 1
    /\ buffer = << >>
    /\ batch = << >>
    /\ batch_number = 0
    /\ batch_start_time = 0
    /\ now = 0
    /\ audit_files = << >>
    /\ processed = << >>
    /\ cuts = << >>
    /\ opened_at = 0

Tick ==
    /\ now < MaxTime
    /\ pc # "done"
    /\ now' = now + 1
    /\ UNCHANGED <<records, config, pc, i, buffer, batch, batch_number,
                   batch_start_time, audit_files, processed, cuts, opened_at>>

(* Mutant of AddRecord: should_flush is asked after every record. *)
AddRecordAndAlwaysCheck ==
    /\ pc = "add"
    /\ i <= Len(records)
    /\ buffer' = Append(buffer, i)
    /\ opened_at' = IF buffer = << >> THEN now ELSE opened_at
    /\ i' = i + 1
    /\ pc' = "check"
    /\ UNCHANGED <<records, config, batch, batch_number, batch_start_time, now,
                   audit_files, processed, cuts>>

(* add_record; should_flush is asked only at the end of a run. *)
AddRecord ==
    /\ pc = "add"
    /\ i <= Len(records)
    /\ buffer' = Append(buffer, i)
    /\ opened_at' = IF buffer = << >> THEN now ELSE opened_at
    /\ i' = i + 1
    /\ pc' = IF EndOfRun(i) THEN "check" ELSE "add"
    /\ UNCHANGED <<records, config, batch, batch_number, batch_start_time, now,
                   audit_files, processed, cuts>>

(* Mutant of should_flush: the count must be exceeded. *)
should_flush_late ==
    /\ buffer # << >>
    /\ \/ /\ config.strategy = "COUNT"
          /\ Len(buffer) > config.count_threshold
       \/ /\ config.strategy = "TIME"
          /\ now - batch_start_time >= config.time_threshold_ms

(* Mutant of should_flush: the elapsed time is rounded up. *)
should_flush_early ==
    /\ buffer # << >>
    /\ \/ /\ config.strategy = "COUNT"
          /\ Len(buffer) >= config.count_threshold
       \/ /\ config.strategy = "TIME"
          /\ now - batch_start_time + 1 >= config.time_threshold_ms

should_flush ==
    /\ buffer # << >>
    /\ \/ /\ config.strategy = "COUNT"
          /\ Len(buffer) >= config.count_threshold
       \/ /\ config.strategy = "TIME"
          /\ now - batch_start_time >= config.time_threshold_ms

CheckFlush ==
    /\ pc = "check"
    /\ pc' = IF should_flush THEN "flush" ELSE "add"
    /\ UNCHANGED <<records, config, i, buffer, batch, batch_number,
                   batch_start_time, now, audit_files, processed, cuts, opened_at>>

(* Mutant of FlushRemaining: the last partial batch is forgotten. *)
ForgetRemaining ==
    /\ pc = "add"
    /\ i > Len(records)
    /\ pc' = "done"
    /\ UNCHANGED <<records, config, i, buffer, batch, batch_number,
                   batch_start_time, now, audit_files, processed, cuts, opened_at>>

(* flush_remaining, when the loop is over. *)
FlushRemaining ==
    /\ pc = "add"
    /\ i > Len(records)
    /\ pc' = IF buffer = << >> THEN "done" ELSE "flush"
    /\ UNCHANGED <<records, config, i, buffer, batch, batch_number,
                   batch_start_time, now, audit_files, processed, cuts, opened_at>>

(* Mutant of Flush: the buffer is copied and not emptied. *)
FlushCopy ==
    /\ pc = "flush"
    /\ batch_number' = batch_number + 1
    /\ batch' = buffer
    /\ pc' = "audit"
    /\ UNCHANGED <<records, config, i, buffer, batch_start_time, now, audit_files,
                   processed, cuts, opened_at>>

(* flush() takes the buffer ... *)
Flush ==
    /\ pc = "flush"
    /\ batch_number' = batch_number + 1
    /\ batch' = buffer
    /\ buffer' = << >>
    /\ pc' = "audit"
    /\ UNCHANGED <<records, config, i, batch_start_time, now, audit_files,
                   processed, cuts, opened_at>>

(***************************************************************************)
(* ... writes the audit file, where a failure is only a warning, and       *)
(* restarts the timer.                                                     *)
(***************************************************************************)
write_batch_file(n, content, written) ==
    IF written
    THEN [k \in DOMAIN audit_files \cup {n} |->
             IF k = n THEN content ELSE audit_files[k]]
    ELSE audit_files

(* Mutant of AuditAndRestartTimer: the file gets the buffer, emptied by now. *)
AuditBuffer(written) ==
    /\ pc = "audit"
    /\ written => config.write_audit_files
    /\ audit_files' = write_batch_file(batch_number, buffer, written)
    /\ batch_start_time' = now
    /\ pc' = "process"
    /\ UNCHANGED <<records, config, i, buffer, batch, batch_number, now,
                   processed, cuts, opened_at>>

AuditAndRestartTimer(written) ==
    /\ pc = "audit"
    /\ written => config.write_audit_files
    /\ audit_files' = write_batch_file(batch_number, batch, written)
    /\ batch_start_time' = now
    /\ pc' = "process"
    /\ UNCHANGED <<records, config, i, buffer, batch, batch_number, now,
                   processed, cuts, opened_at>>

(* process_batch returns, and the batch is destroyed. *)
ProcessBatch ==
    /\ pc = "process"
    /\ processed' = processed \o batch
    /\ cuts' = Append(cuts, Len(processed) + Len(batch))
    /\ batch' = << >>
    /\ pc' = "add"
    /\ UNCHANGED <<records, config, i, buffer, batch_number, batch_start_time,
                   now, audit_files, opened_at>>

Done ==
    /\ pc = "done"
    /\ UNCHANGED feed_vars

Step ==
    \/ AddRecord
    \/ CheckFlush
    \/ FlushRemaining
    \/ Flush
    \/ \E written \in BOOLEAN : AuditAndRestartTimer(written)
    \/ ProcessBatch

Next == Tick \/ Step \/ Done

Spec == Init /\ [][Next]_feed_vars

(* The loop never waits: main() is scheduled and keeps running. *)
FairSpec == Spec /\ WF_feed_vars(Step)
-----------------------------------------------------------------------------
Places == 1 .. Len(records)

(* Every variable keeps its type. *)
TypeOK ==
    /\ records \in Inputs
    /\ config \in Config
    /\ pc \in {"add", "check", "flush", "audit", "process", "done"}
    /\ i \in 1 .. (Len(records) + 1)
    /\ buffer \in Seq(Places)
    /\ batch \in Seq(Places)
    /\ batch_number \in Nat
    /\ now \in 0 .. MaxTime
    /\ batch_start_time \in 0 .. now
    /\ opened_at \in 0 .. now
    /\ DOMAIN audit_files \subseteq 1 .. batch_number
    /\ \A n \in DOMAIN audit_files : audit_files[n] \in Seq(Places)
    /\ processed \in Seq(Places)
    /\ cuts \in Seq(Places)

Counts(seq, start) == \A k \in 1 .. Len(seq) : seq[k] = start + k

(***************************************************************************)
(* The records fed so far are, in input order and each exactly once, those *)
(* the pipeline has processed, those of the batch in hand and those in the *)
(* buffer; when the program is done the pipeline has them all.             *)
(***************************************************************************)
InOrderExactlyOnce ==
    /\ Len(processed) + Len(batch) + Len(buffer) = i - 1
    /\ Counts(processed, 0)
    /\ Counts(batch, Len(processed))
    /\ Counts(buffer, Len(processed) + Len(batch))
    /\ pc = "done" => Len(processed) = Len(records)

(***************************************************************************)
(* main.cpp: a run of records with one timestamp is never split across     *)
(* batches, by the count, by the timer or at the end of the input.         *)
(***************************************************************************)
RunsIntact == \A n \in 1 .. Len(cuts) : EndOfRun(cuts[n])

Start(n) == IF n = 1 THEN 0 ELSE cuts[n - 1]

(***************************************************************************)
(* Under COUNT every batch but the last has at least count_threshold       *)
(* records, and none could have been closed at an earlier end of a run.    *)
(***************************************************************************)
CountMinimal ==
    config.strategy = "COUNT" =>
        \A n \in 1 .. Len(cuts) :
            /\ \/ cuts[n] = Len(records)
               \/ cuts[n] - Start(n) >= config.count_threshold
            /\ \A c \in (Start(n) + 1) .. (cuts[n] - 1) :
                  EndOfRun(c) => c - Start(n) < config.count_threshold

(***************************************************************************)
(* The audit file of a batch, when it could be written, holds the records  *)
(* the pipeline was given under that batch number, and is there before     *)
(* they are processed.                                                     *)
(***************************************************************************)
AuditMatches ==
    \A n \in DOMAIN audit_files :
        IF n <= Len(cuts)
        THEN /\ Len(audit_files[n]) = cuts[n] - Start(n)
             /\ Counts(audit_files[n], Start(n))
        ELSE /\ pc = "process"
             /\ n = Len(cuts) + 1
             /\ audit_files[n] = batch

(***************************************************************************)
(* The inductive invariant.  Between two statements of the loop the batch  *)
(* in hand and the buffer are where the control state says they are, ...   *)
(***************************************************************************)
BatchInHand == pc \in {"audit", "process"}

ControlInv ==
    /\ pc \in {"check", "flush"} => Len(buffer) > 0 /\ EndOfRun(i - 1)
    /\ BatchInHand => Len(batch) > 0 /\ buffer = << >> /\ EndOfRun(i - 1)
    /\ ~ BatchInHand => batch = << >>
    /\ pc = "done" => i = Len(records) + 1 /\ buffer = << >>

(* ... the cuts are those of nonempty batches, one per batch number, ...   *)
CutsInv ==
    /\ \A n \in 1 .. Len(cuts) : Start(n) < cuts[n]
    /\ Start(Len(cuts) + 1) = Len(processed)
    /\ batch_number = IF BatchInHand THEN Len(cuts) + 1 ELSE Len(cuts)

(* ... and under COUNT the open batch is closed at the first end of a run  *)
(* at which it has count_threshold records.                                *)
OpenBatchInv ==
    config.strategy = "COUNT" =>
        /\ \A c \in (Len(processed) + 1) .. (i - 1) :
              EndOfRun(c) /\ c - Len(processed) >= config.count_threshold
                  => c = i - 1 /\ pc \in {"check", "flush", "audit", "process"}
        /\ pc \in {"flush", "audit", "process"}
              => \/ i - 1 = Len(records)
                 \/ i - 1 - Len(processed) >= config.count_threshold

IInv ==
    /\ TypeOK
    /\ InOrderExactlyOnce
    /\ ControlInv
    /\ CutsInv
    /\ RunsIntact
    /\ OpenBatchInv
    /\ CountMinimal
    /\ AuditMatches
-----------------------------------------------------------------------------
(***************************************************************************)
(* Under TIME two restarts of the timer are at least time_threshold_ms     *)
(* apart, unless the input has ended in between: however long the pipeline *)
(* takes, the clock cannot close batches faster than it was configured to. *)
(***************************************************************************)
TimerSpacing ==
    [][ config.strategy = "TIME" /\ batch_start_time' # batch_start_time
          => \/ i > Len(records)
             \/ batch_start_time' - batch_start_time >= config.time_threshold_ms
      ]_feed_vars

(***************************************************************************)
(* batch_accumulator.hpp says of TIME: "elapsed time from the moment the   *)
(* current batch started accumulating".                                    *)
(***************************************************************************)
TimeMeasuresBatchAge ==
    [][ config.strategy = "TIME" /\ pc = "check" /\ pc' = "flush"
          => now - opened_at >= config.time_threshold_ms ]_feed_vars

(* The loop ends, with every record processed. *)
AllProcessed == <>(pc = "done" /\ Len(processed) = Len(records))

(***************************************************************************)
(* The accumulator implements BatchStream.                                 *)
(***************************************************************************)
Stream == INSTANCE BatchStream WITH delivered <- Len(processed)

ImplementsStream == Stream!Spec
=============================================================================
