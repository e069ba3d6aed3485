------------------------ MODULE MC_OutputGeneration ------------------------
(***************************************************************************)
(* Two violations of up to MaxAdds pairs, moved about; up to two groups,   *)
(* of which some are nominal; two threads.  Values with no, some and all   *)
(* decimals, up to the longest that fits the buffer, and the one whose     *)
(* formatting throws; HugeReadings has those that lose decimals.           *)
(***************************************************************************)
EXTENDS OutputGeneration

Zeros == <<"0", "0", "0", "0", "0", "0">>
Mixed == <<"0", "5", "0", "0", "0", "0">>
Full  == <<"0", "0", "5", "0", "0", "5">>

Zero    == Finite(FALSE, 1, Zeros)
Small   == Finite(TRUE, 2, Mixed)
Longest == Finite(TRUE, 55, Full)
AtPoint == Finite(TRUE, 61, Zeros)      \* the buffer ends in the point

MCValues == {Zero, Small}

MCReadings == { << <<0, Zero>> >>, << <<1, AtPoint>> >>,
                << <<1, Longest>>, <<-1, NotFinite("nan")>>, <<0, Small>> >> }

MCInverse == [t \in 0 .. 0 |-> "TEMP-01"]

(* Where the buffer cuts: in the decimals, at the point, before it.        *)
HugeReadings ==
    { << <<0, Finite(FALSE, digits, Full)>> >> : digits \in {56, 57, 61, 62, 63} }

(* What is proved of FilesShowTheBatch is proved of such values. *)
ASSUME FitAssumption == Readings # HugeReadings => ValuesFitOrThrow
=============================================================================
