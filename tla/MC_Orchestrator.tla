-------------------------- MODULE MC_Orchestrator --------------------------
(***************************************************************************)
(* Every order of the options of four command lines, and command lines     *)
(* that omit, repeat or swallow an option; inputs without data, with an    *)
(* empty report and with reports of up to three groups.                    *)
(***************************************************************************)
EXTENDS Orchestrator, SequencesExt, TLC

AllOrders(options) == {FlattenSeq(order) : order \in SetToSeqs(options)}

Csv == <<"--csv", "a.csv">>

Orderings ==
    AllOrders({Csv, <<"--batch-size", "2">>, <<"--benchmark">>, <<"--threads", "-2">>})
      \cup AllOrders({Csv, <<"--batch-size", "-1">>, <<"--batch-strategy", "time">>})
      \cup AllOrders({Csv, <<"--batch-size", "huge">>, <<"--output-dir", "out">>})
      \cup AllOrders({Csv, <<"--batch-size", "99999999999">>, <<"--threads", "8x">>})

Oddities ==
    { << >>, <<"--help">>, <<"--csv">>, <<"--csv", "--help">>, <<"--csv", "--benchmark">>,
      <<"--rules", "--csv", "a.csv">>, <<"--csv", "a.csv", "--csv", "b.csv">>,
      <<"--csv", "a.csv", "--threads">>, <<"--csv", "a.csv", "--batch-strategy", "TIMES">> }

MCArgvs == Orderings \cup Oddities

(* "99999999999" is no int and "a.csv" no number: std::stoi throws. *)
MCStoi == "2" :> 2 @@ "-1" :> -1 @@ "-2" :> -2 @@ "8x" :> 8 @@ "huge" :> 2000000000

MCStod == "2" :> 2

N == "NOMINAL"
A == "ANOMALOUS"
U == "UNPRINTABLE"

MCInputs ==
    { [size |-> 0, groups |-> << >>], [size |-> 9, groups |-> << >>],
      [size |-> 90, groups |-> <<N, A, N>>], [size |-> 90, groups |-> <<A, A>>],
      [size |-> 90, groups |-> <<N, U>>] }
=============================================================================
