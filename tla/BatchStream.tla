---------------------------- MODULE BatchStream ----------------------------
(***************************************************************************)
(* What the batch accumulator promises the rule pipeline, whatever the     *)
(* strategy, the thresholds and the clock: the records arrive in input     *)
(* order, each exactly once, and the stream is only ever cut where the     *)
(* timestamp changes.                                                      *)
(***************************************************************************)
EXTENDS Naturals, Sequences

CONSTANT Inputs     \* the sequences of records a run may be given

VARIABLES
    records,        \* the records the run feeds
    delivered       \* how many of them the pipeline has processed

vars == <<records, delivered>>

EndOfRun(n) ==
    n = Len(records) \/ records[n].timestamp # records[n + 1].timestamp

Init ==
    /\ records \in Inputs
    /\ delivered = 0

Deliver(n) ==
    /\ n \in (delivered + 1) .. Len(records)
    /\ EndOfRun(n)
    /\ delivered' = n
    /\ UNCHANGED records

Next == \E n \in 1 .. Len(records) : Deliver(n)

Spec == Init /\ [][Next]_vars
=============================================================================
