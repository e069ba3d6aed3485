------------------------- MODULE Orchestrator_proofs -------------------------
(***************************************************************************)
(* Proofs about main(): for any command line, any input and any step that  *)
(* may fail, what the two files hold and what is given back when it ends.  *)
(***************************************************************************)
EXTENDS Orchestrator, TLAPS

(* The steps at which no output file has been touched. *)
BeforeOpen == {"arguments", "sensors", "rules", "map", "map_failed",
               "create_directories", "open_valid"}

(* The steps at which both streams are open. *)
AfterOpen == {"accumulator", "feed", "append", "close_alarms", "summary"}

(* The steps at which no line has been put into a stream. *)
Untouched == BeforeOpen \cup {"open_alarms", "check_open", "accumulator"}

(* MappedFile's members agree with the system, as long as main() runs. *)
Consistent ==
    pc # "ended" =>
        \A r \in {"data", "fd"} :
            IF csv_file[r] THEN kernel[r] = "held" ELSE kernel[r] \in {"never", "released"}

StatusInv == status = "running" <=> pc # "ended"

OpenInv ==
    /\ pc \in BeforeOpen => bad = {} /\ \A f \in Files : on_disk[f] = Earlier
    /\ pc = "open_alarms" => on_disk["valid_file"] # Earlier \/ "valid_file" \in bad
    /\ pc = "check_open" => \A f \in Files : on_disk[f] # Earlier \/ f \in bad
    /\ pc \in AfterOpen => \A f \in Files : on_disk[f] # Earlier
    /\ pc \in Untouched => next_group = 1 /\ \A f \in Files : pending[f] = << >>

(* What a good stream has written and what it still holds are the lines of *)
(* all the groups so far.                                                  *)
Whole ==
    \A f \in Files \ bad :
        on_disk[f] # Earlier =>
            Lists(on_disk[f] \o pending[f], GroupsFor(f, next_group - 1))

ClosedInv ==
    /\ pc \in {"close_alarms", "summary"} =>
           /\ next_group = NumGroups + 1
           /\ "valid_file" \notin bad => pending["valid_file"] = << >>
    /\ pc = "summary" /\ "alarms_file" \notin bad => pending["alarms_file"] = << >>

IInv ==
    /\ TypeOK
    /\ StatusInv
    /\ Consistent
    /\ ReleasedOnce
    /\ OpenInv
    /\ ErrorKeepsOutputs
    /\ Whole
    /\ NoHoles
    /\ ClosedInv
    /\ SuccessIsComplete
-----------------------------------------------------------------------------
USE DEF Files, BeforeOpen, AfterOpen, Untouched, Steps

LEMMA EarlierIsNoLines ==
    ASSUME NEW n \in Nat, NEW lines \in Seq(1 .. n)
    PROVE  lines # Earlier
BY EarlierAssumption

LEMMA EarlierIsNotEmpty == << >> # Earlier
<1>1. << >> \in Seq(Nat)
  OBVIOUS
<1> QED
  BY <1>1, EarlierAssumption

LEMMA NumGroupsType ==
    ASSUME input \in Inputs
    PROVE  NumGroups \in Nat
BY InputsAssumption DEF NumGroups

(* What get_int_arg returns is an int. *)
LEMMA IntArg ==
    ASSUME NEW args, NEW name, NEW default_val \in Int
    PROVE  get_int_arg(args, name, default_val) \in Int
BY StoiAssumption DEF get_int_arg

LEMMA SettingsType ==
    ASSUME NEW args
    PROVE  /\ Settings(args).num_threads \in Nat \ {0}
           /\ Settings(args).batch_size \in Int
<1>1. get_int_arg(args, "--threads", 0) \in Int
  BY IntArg
<1>2. ThreadCount(get_int_arg(args, "--threads", 0)) \in Nat \ {0}
  BY <1>1, SizesAssumption DEF ThreadCount
<1>3. get_int_arg(args, "--batch-size", 1000) \in Int
  BY IntArg
<1> QED
  BY <1>2, <1>3 DEF Settings
-----------------------------------------------------------------------------
(* A record of two fields is a function. *)
LEMMA HandlesType ==
    ASSUME NEW S, NEW a \in S, NEW b \in S
    PROVE  [data |-> a, fd |-> b] \in [{"data", "fd"} -> S]
<1> DEFINE f == [data |-> a, fd |-> b]
<1>1. DOMAIN f = {"data", "fd"}
  BY SMT
<1>2. f = [r \in DOMAIN f |-> f[r]]
  BY Zenon
<1>3. \A r \in DOMAIN f : f[r] \in S
  BY <1>1
<1> HIDE DEF f
<1>4. f \in [DOMAIN f -> S]
  BY <1>2, <1>3
<1> QED
  BY <1>1, <1>4 DEF f

(* How the helpers of the actions change the state. *)
LEMMA InitType == Init => TypeOK
<1> SUFFICES ASSUME Init PROVE TypeOK
  OBVIOUS
<1>1. NumGroups \in Nat
  BY NumGroupsType DEF Init
<1>2. /\ on_disk \in [Files -> Seq(1 .. NumGroups) \cup {Earlier}]
      /\ pending \in [Files -> Seq(1 .. NumGroups)]
  BY DEF Init
<1>3. /\ next_group \in 1 .. (NumGroups + 1)
      /\ batch_end \in 0 .. NumGroups
  BY <1>1 DEF Init
<1>4. /\ settings.num_threads \in Nat \ {0}
      /\ settings.batch_size \in Int
  BY SettingsType DEF Init
<1>5. csv_file \in [{"data", "fd"} -> BOOLEAN]
  BY HandlesType DEF Init
<1>6. kernel \in [{"data", "fd"} -> {"never", "held", "released", "misused"}]
  BY HandlesType DEF Init
<1>7. /\ argv \in Argvs /\ input \in Inputs
      /\ pc \in Steps
      /\ settings = Settings(argv)
      /\ status \in {"running", "success", "failure", "abort", "killed"}
      /\ bad \subseteq Files
  BY DEF Init
<1> QED
  BY <1>2, <1>3, <1>4, <1>5, <1>6, <1>7 DEF TypeOK

LEMMA ReleaseType ==
    ASSUME NEW life
    PROVE  Release(life) \in {"released", "misused"}
BY DEF Release

(* A return gives everything back that is held. *)
LEMMA ReturnReleases ==
    ASSUME Consistent, ReleasedOnce, pc # "ended", NEW code, Return(code)
    PROVE  \A r \in {"data", "fd"} : kernel'[r] \in {"never", "released"}
<1> SUFFICES ASSUME NEW r \in {"data", "fd"}
             PROVE  kernel'[r] \in {"never", "released"}
  OBVIOUS
<1>1. kernel'[r] = IF csv_file[r] THEN Release(kernel[r]) ELSE kernel[r]
  BY DEF Return
<1>2. IF csv_file[r] THEN kernel[r] = "held" ELSE kernel[r] \in {"never", "released"}
  BY DEF Consistent
<1> QED
  BY <1>1, <1>2 DEF Release
-----------------------------------------------------------------------------
(* The parts of TypeOK, by the groups of variables that actions leave alone. *)
GivenOK ==
    /\ argv \in Argvs
    /\ input \in Inputs
    /\ settings = Settings(argv)
    /\ settings.num_threads \in Nat \ {0}
    /\ settings.batch_size \in Int

ControlOK ==
    /\ pc \in Steps
    /\ status \in {"running", "success", "failure", "abort", "killed"}

ResourcesOK ==
    /\ csv_file \in [{"data", "fd"} -> BOOLEAN]
    /\ kernel \in [{"data", "fd"} -> {"never", "held", "released", "misused"}]

OutputsOK ==
    /\ on_disk \in [Files -> Seq(1 .. NumGroups) \cup {Earlier}]
    /\ pending \in [Files -> Seq(1 .. NumGroups)]
    /\ bad \subseteq Files

ProgressOK ==
    /\ next_group \in 1 .. (NumGroups + 1)
    /\ batch_end \in 0 .. NumGroups

LEMMA TypeParts ==
    TypeOK <=> GivenOK /\ ControlOK /\ ResourcesOK /\ OutputsOK /\ ProgressOK
BY DEF TypeOK, GivenOK, ControlOK, ResourcesOK, OutputsOK, ProgressOK

(* No action changes what the run was given. *)
LEMMA GivenStays ==
    Next => UNCHANGED <<given, settings>>
BY DEF Next, Step, Kill, Ended, ParseArguments, Fallible, LoadSensors, LoadRules,
       MapFile, MapFailed, CreateOutputDir, OpenOutput, OpenValid, OpenAlarms,
       CheckOpen, ConstructAccumulator, ProcessPipeline, AppendGroup, EndBatch,
       Overflow, CloseOutput, CloseValid, CloseAlarms, Summary, vars, given

LEMMA GivenType ==
    ASSUME GivenOK, UNCHANGED <<given, settings>>
    PROVE  /\ GivenOK'
           /\ NumGroups \in Nat
           /\ NumGroups' = NumGroups
BY NumGroupsType DEF GivenOK, given, NumGroups

LEMMA ReturnKeepsType ==
    ASSUME ControlOK, ResourcesOK, NEW code \in {"success", "failure"}, Return(code)
    PROVE  ControlOK' /\ ResourcesOK'
<1>1. kernel' \in [{"data", "fd"} -> {"never", "held", "released", "misused"}]
  BY ReleaseType DEF Return, ResourcesOK
<1> QED
  BY <1>1 DEF Return, ControlOK, ResourcesOK

LEMMA UnchangedTypes ==
    ASSUME GivenOK, UNCHANGED <<given, settings>>
    PROVE  /\ ResourcesOK /\ UNCHANGED resources => ResourcesOK'
           /\ OutputsOK /\ UNCHANGED outputs => OutputsOK'
           /\ ProgressOK /\ UNCHANGED progress => ProgressOK'
<1>1. NumGroups' = NumGroups
  BY GivenType
<1>2. ResourcesOK /\ UNCHANGED resources => ResourcesOK'
  BY DEF ResourcesOK, resources
<1>3. OutputsOK /\ UNCHANGED outputs => OutputsOK'
  BY <1>1 DEF OutputsOK, outputs
<1>4. ProgressOK /\ UNCHANGED progress => ProgressOK'
  BY <1>1 DEF ProgressOK, progress
<1> QED
  BY <1>2, <1>3, <1>4

(* Writing a buffer out keeps the types, and what a good stream holds. *)
LEMMA WriteOutType ==
    ASSUME OutputsOK, NumGroups \in Nat, NEW f \in Files, on_disk[f] # Earlier, WriteOut(f)
    PROVE  /\ on_disk' \in [Files -> Seq(1 .. NumGroups) \cup {Earlier}]
           /\ pending' \in [Files -> Seq(1 .. NumGroups)]
           /\ bad' \subseteq Files
           /\ \A g \in Files \ {f} : on_disk'[g] = on_disk[g] /\ pending'[g] = pending[g]
           /\ \/ /\ on_disk'[f] = on_disk[f] \o pending[f]
                 /\ pending'[f] = << >>
                 /\ bad' = bad
              \/ bad' = bad \cup {f}
           /\ on_disk'[f] \in Seq(1 .. NumGroups)
<1> DEFINE lines == Seq(1 .. NumGroups)
<1>1. PICK n \in 0 .. Len(pending[f]) :
          /\ on_disk' = [on_disk EXCEPT ![f] = @ \o SubSeq(pending[f], 1, n)]
          /\ \/ /\ n = Len(pending[f])
                /\ pending' = [pending EXCEPT ![f] = << >>]
                /\ bad' = bad
             \/ /\ n < Len(pending[f])
                /\ bad' = bad \cup {f}
                /\ pending' = pending
  BY DEF WriteOut
<1>2. on_disk[f] \in lines /\ pending[f] \in lines
  BY DEF OutputsOK
<1>3. SubSeq(pending[f], 1, n) \in lines
  BY <1>2
<1>4. on_disk[f] \o SubSeq(pending[f], 1, n) \in lines
  BY <1>2, <1>3
<1>5. n = Len(pending[f]) => SubSeq(pending[f], 1, n) = pending[f]
  BY <1>2
<1>6. on_disk'[f] = on_disk[f] \o SubSeq(pending[f], 1, n)
  BY <1>1 DEF OutputsOK
<1>7. on_disk' \in [Files -> lines \cup {Earlier}]
  BY <1>1, <1>4 DEF OutputsOK
<1>8. << >> \in lines
  OBVIOUS
<1>9. pending' \in [Files -> lines]
  BY <1>1, <1>8 DEF OutputsOK
<1>10. bad' \subseteq Files
  BY <1>1 DEF OutputsOK
<1>11. \A g \in Files \ {f} : on_disk'[g] = on_disk[g] /\ pending'[g] = pending[g]
  BY <1>1 DEF OutputsOK
<1>12. \/ /\ on_disk'[f] = on_disk[f] \o pending[f]
          /\ pending'[f] = << >>
          /\ bad' = bad
       \/ bad' = bad \cup {f}
  BY <1>1, <1>5, <1>6 DEF OutputsOK
<1> QED
  BY <1>4, <1>6, <1>7, <1>9, <1>10, <1>11, <1>12

LEMMA FallibleType ==
    ASSUME TypeOK, NEW here, NEW next \in Steps, Fallible(here, next)
    PROVE  ControlOK' /\ ResourcesOK' /\ OutputsOK' /\ ProgressOK'
<1>1. GivenOK /\ ControlOK /\ ResourcesOK /\ OutputsOK /\ ProgressOK
  BY TypeParts
<1>2. UNCHANGED <<given, settings, outputs, progress>>
  BY DEF Fallible
<1>3. OutputsOK' /\ ProgressOK'
  BY <1>1, <1>2, UnchangedTypes
<1>4. CASE pc' = next /\ UNCHANGED <<status, resources>>
  BY <1>1, <1>2, <1>3, <1>4, UnchangedTypes DEF ControlOK
<1>5. CASE Return("failure")
  BY <1>1, <1>3, <1>5, ReturnKeepsType
<1> QED
  BY <1>4, <1>5 DEF Fallible

LEMMA OpenOutputType ==
    ASSUME TypeOK, NEW here, NEW f \in Files, NEW next \in Steps, OpenOutput(here, f, next)
    PROVE  ControlOK' /\ ResourcesOK' /\ OutputsOK' /\ ProgressOK'
<1>1. GivenOK /\ ControlOK /\ ResourcesOK /\ OutputsOK /\ ProgressOK
  BY TypeParts
<1>2. UNCHANGED <<given, settings, status, resources, pending, progress>>
  BY DEF OpenOutput
<1>3. ResourcesOK' /\ ProgressOK'
  BY <1>1, <1>2, UnchangedTypes
<1>4. ControlOK'
  BY <1>1, <1>2 DEF OpenOutput, ControlOK
<1>5. NumGroups' = NumGroups
  BY <1>1, <1>2, GivenType
<1>6. << >> \in Seq(1 .. NumGroups)
  OBVIOUS
<1>7. OutputsOK'
  BY <1>1, <1>2, <1>5, <1>6 DEF OpenOutput, OutputsOK
<1> QED
  BY <1>3, <1>4, <1>7

LEMMA CloseOutputType ==
    ASSUME TypeOK, NEW here, NEW f \in Files, NEW next \in Steps, on_disk[f] # Earlier,
           CloseOutput(here, f, next)
    PROVE  ControlOK' /\ ResourcesOK' /\ OutputsOK' /\ ProgressOK'
<1>1. GivenOK /\ ControlOK /\ ResourcesOK /\ OutputsOK /\ ProgressOK
  BY TypeParts
<1>2. UNCHANGED <<given, settings, status, resources, progress>>
  BY DEF CloseOutput
<1>3. ResourcesOK' /\ ProgressOK'
  BY <1>1, <1>2, UnchangedTypes
<1>4. ControlOK'
  BY <1>1, <1>2 DEF CloseOutput, ControlOK
<1>5. NumGroups' = NumGroups /\ NumGroups \in Nat
  BY <1>1, <1>2, GivenType
<1>6. OutputsOK'
  BY <1>1, <1>5, WriteOutType DEF CloseOutput, OutputsOK
<1> QED
  BY <1>3, <1>4, <1>6

(* Every step keeps the types; a stream is written out only when it is open. *)
LEMMA TypeStep ==
    ASSUME TypeOK, OpenInv, [Next]_vars
    PROVE  TypeOK'
<1>1. GivenOK /\ ControlOK /\ ResourcesOK /\ OutputsOK /\ ProgressOK
  BY TypeParts
<1>2. CASE UNCHANGED vars
  BY <1>2 DEF vars, TypeOK, NumGroups
<1>3. CASE Next
  <2>1. UNCHANGED <<given, settings>>
    BY <1>3, GivenStays
  <2>2. GivenOK' /\ NumGroups \in Nat /\ NumGroups' = NumGroups
    BY <1>1, <2>1, GivenType
  <2> SUFFICES ControlOK' /\ ResourcesOK' /\ OutputsOK' /\ ProgressOK'
    BY <2>2, TypeParts, PTL
  <2>3. CASE ParseArguments
    <3>1. OutputsOK' /\ ProgressOK'
      BY <1>1, <2>1, <2>3, UnchangedTypes DEF ParseArguments
    <3>2. ControlOK' /\ ResourcesOK'
      <4>1. CASE Return("success")
        BY <1>1, <4>1, ReturnKeepsType
      <4>2. CASE Return("failure")
        BY <1>1, <4>2, ReturnKeepsType
      <4>3. CASE pc' = "sensors" /\ UNCHANGED <<status, resources>>
        BY <1>1, <2>1, <4>3, UnchangedTypes DEF ControlOK
      <4> QED
        BY <2>3, <4>1, <4>2, <4>3 DEF ParseArguments
    <3> QED
      BY <3>1, <3>2
  <2>4. CASE LoadSensors \/ LoadRules \/ CreateOutputDir
    BY <2>4, FallibleType DEF LoadSensors, LoadRules, CreateOutputDir
  <2>5. CASE MapFile
    <3>1. OutputsOK' /\ ProgressOK'
      BY <1>1, <2>1, <2>5, UnchangedTypes DEF MapFile
    <3>2. ControlOK'
      BY <1>1, <2>5 DEF MapFile, ControlOK
    <3>3. CASE UNCHANGED resources
      BY <1>1, <2>1, <3>1, <3>2, <3>3, UnchangedTypes
    <3>4. CASE FailMapping
      BY <3>1, <3>2, <3>4, HandlesType DEF FailMapping, ResourcesOK
    <3>5. CASE /\ csv_file' = [data |-> TRUE, fd |-> TRUE]
               /\ kernel' = [data |-> "held", fd |-> "held"]
      BY <3>1, <3>2, <3>5, HandlesType DEF ResourcesOK
    <3> QED
      BY <2>5, <3>3, <3>4, <3>5 DEF MapFile
  <2>6. CASE MapFailed
    <3>1. OutputsOK' /\ ProgressOK'
      BY <1>1, <2>1, <2>6, UnchangedTypes DEF MapFailed
    <3> QED
      BY <1>1, <2>6, <3>1, ReturnKeepsType DEF MapFailed
  <2>7. CASE OpenValid \/ OpenAlarms
    BY <2>7, OpenOutputType DEF OpenValid, OpenAlarms
  <2>8. CASE CheckOpen
    <3>1. OutputsOK' /\ ProgressOK'
      BY <1>1, <2>1, <2>8, UnchangedTypes DEF CheckOpen
    <3>2. CASE Return("failure")
      BY <1>1, <3>1, <3>2, ReturnKeepsType
    <3>3. CASE pc' = "accumulator" /\ UNCHANGED <<status, resources>>
      BY <1>1, <2>1, <3>1, <3>3, UnchangedTypes DEF ControlOK
    <3> QED
      BY <2>8, <3>2, <3>3 DEF CheckOpen
  <2>9. CASE ConstructAccumulator
    <3>1. OutputsOK' /\ ProgressOK' /\ ResourcesOK'
      BY <1>1, <2>1, <2>9, UnchangedTypes DEF ConstructAccumulator, Terminate
    <3> QED
      BY <1>1, <2>9, <3>1 DEF ConstructAccumulator, Terminate, ControlOK
  <2>10. CASE ProcessPipeline
    <3>1. OutputsOK' /\ ResourcesOK'
      BY <1>1, <2>1, <2>10, UnchangedTypes DEF ProcessPipeline, Terminate
    <3>2. ControlOK'
      BY <1>1, <2>10 DEF ProcessPipeline, Terminate, ControlOK
    <3>3. ProgressOK'
      BY <1>1, <2>2, <2>10 DEF ProcessPipeline, ProgressOK
    <3> QED
      BY <3>1, <3>2, <3>3
  <2>11. CASE AppendGroup
    <3>1. ResourcesOK' /\ ControlOK'
      BY <1>1, <2>1, <2>11, UnchangedTypes DEF AppendGroup, ControlOK
    <3>2. next_group \in 1 .. NumGroups
      BY <1>1, <2>2, <2>11 DEF AppendGroup, ProgressOK
    <3>3. ProgressOK'
      BY <1>1, <2>2, <2>11, <3>2 DEF AppendGroup, ProgressOK
    <3>4. Put(FileOf(next_group), next_group) \in [Files -> Seq(1 .. NumGroups)]
      BY <1>1, <3>2 DEF Put, FileOf, OutputsOK
    <3>5. OutputsOK'
      BY <1>1, <2>2, <2>11, <3>4 DEF AppendGroup, OutputsOK
    <3> QED
      BY <3>1, <3>3, <3>5
  <2>12. CASE EndBatch
    BY <1>1, <2>1, <2>12, UnchangedTypes DEF EndBatch, ControlOK
  <2>13. CASE Overflow
    <3>1. ResourcesOK' /\ ControlOK' /\ ProgressOK'
      BY <1>1, <2>1, <2>13, UnchangedTypes DEF Overflow, ControlOK
    <3>2. PICK f \in Files : WriteOut(f) /\ on_disk[f] # Earlier
      BY <2>13 DEF Overflow, OpenInv
    <3>3. OutputsOK'
      BY <1>1, <2>2, <3>2, WriteOutType DEF OutputsOK
    <3> QED
      BY <3>1, <3>3
  <2>14. CASE CloseValid \/ CloseAlarms
    BY <2>14, CloseOutputType DEF CloseValid, CloseAlarms, CloseOutput, OpenInv
  <2>15. CASE Summary
    <3>1. OutputsOK' /\ ProgressOK'
      BY <1>1, <2>1, <2>15, UnchangedTypes DEF Summary
    <3> QED
      BY <1>1, <2>15, <3>1, ReturnKeepsType DEF Summary
  <2>16. CASE Kill
    BY <1>1, <2>1, <2>16, UnchangedTypes DEF Kill, ControlOK
  <2>17. CASE Ended
    BY <1>1, <2>2, <2>17 DEF Ended, vars, ControlOK, ResourcesOK, OutputsOK, ProgressOK
  <2> QED
    BY <1>3, <2>3, <2>4, <2>5, <2>6, <2>7, <2>8, <2>9, <2>10, <2>11, <2>12, <2>13,
       <2>14, <2>15, <2>16, <2>17 DEF Next, Step
<1> QED
  BY <1>2, <1>3
-----------------------------------------------------------------------------
USE DEF given, resources, outputs, progress

LEMMA StatusStep ==
    ASSUME TypeOK, StatusInv, [Next]_vars
    PROVE  StatusInv'
<1>1. CASE UNCHANGED vars
  BY <1>1 DEF vars, StatusInv
<1>2. CASE Step
  BY <1>2 DEF Step, StatusInv, ParseArguments, Fallible, LoadSensors, LoadRules, MapFile,
     MapFailed, CreateOutputDir, OpenOutput, OpenValid, OpenAlarms, CheckOpen,
     ConstructAccumulator, Terminate, ProcessPipeline, AppendGroup, EndBatch, Overflow,
     CloseOutput, CloseValid, CloseAlarms, Summary, Return
<1>3. CASE Kill
  BY <1>3 DEF Kill, StatusInv
<1>4. CASE Ended
  BY <1>4 DEF Ended, vars, StatusInv
<1> QED
  BY <1>1, <1>2, <1>3, <1>4 DEF Next

(* A return ends the run with everything given back. *)
LEMMA ReturnStep ==
    ASSUME StatusInv, Consistent, ReleasedOnce, pc # "ended", NEW code, Return(code)
    PROVE  Consistent' /\ ReleasedOnce'
<1>1. \A r \in {"data", "fd"} : kernel'[r] \in {"never", "released"}
  BY ReturnReleases
<1> QED
  BY <1>1 DEF Return, Consistent, ReleasedOnce

LEMMA ResourcesStep ==
    ASSUME TypeOK, StatusInv, Consistent, ReleasedOnce, [Next]_vars
    PROVE  Consistent' /\ ReleasedOnce'
<1>1. CASE UNCHANGED <<pc, status, resources>>
  BY <1>1 DEF Consistent, ReleasedOnce
<1>2. CASE pc # "ended" /\ \E code : Return(code)
  BY <1>2, ReturnStep
<1>3. CASE pc' # "ended" /\ pc # "ended" /\ UNCHANGED <<status, resources>>
  BY <1>3 DEF Consistent, ReleasedOnce
<1>4. CASE pc' = "ended" /\ status' \in {"abort", "killed"} /\ UNCHANGED resources
  BY <1>4 DEF Consistent, ReleasedOnce
<1>5. CASE MapFile
  BY <1>5 DEF MapFile, FailMapping, Consistent, ReleasedOnce, StatusInv
<1>6. CASE Next /\ ~ MapFile
  BY <1>1, <1>2, <1>3, <1>4, <1>6 DEF Next, Step, Kill, Ended, vars, ParseArguments, Fallible,
     LoadSensors, LoadRules, MapFailed, CreateOutputDir, OpenOutput, OpenValid,
     OpenAlarms, CheckOpen, ConstructAccumulator, Terminate, ProcessPipeline,
     AppendGroup, EndBatch, Overflow, CloseOutput, CloseValid, CloseAlarms, Summary
<1> QED
  BY <1>1, <1>5, <1>6 DEF vars

(* The output files are as they were until the first of them is opened. *)
LEMMA OpenStep ==
    ASSUME TypeOK, OpenInv, [Next]_vars
    PROVE  OpenInv'
<1>1. CASE UNCHANGED <<pc, outputs, progress>> \/ pc' = "ended"
  BY <1>1 DEF OpenInv
<1>2. CASE /\ pc \in BeforeOpen /\ pc' \in BeforeOpen
           /\ UNCHANGED <<outputs, progress>>
  BY <1>2 DEF OpenInv
<1>3. CASE pc' # "ended" /\ (ParseArguments \/ LoadSensors \/ LoadRules \/ MapFile \/ CreateOutputDir)
  BY <1>2, <1>3 DEF ParseArguments, Fallible, LoadSensors, LoadRules, MapFile,
     CreateOutputDir, Return
<1>4. CASE OpenValid
  BY <1>4, EarlierIsNotEmpty DEF OpenValid, OpenOutput, OpenInv, TypeOK
<1>5. CASE OpenAlarms
  BY <1>5, EarlierIsNotEmpty DEF OpenAlarms, OpenOutput, OpenInv, TypeOK
<1>6. CASE CheckOpen /\ pc' # "ended"
  BY <1>6 DEF CheckOpen, OpenInv, Return
<1>7. CASE pc \in AfterOpen /\ pc' \in AfterOpen \ Untouched /\ UNCHANGED on_disk
  BY <1>7 DEF OpenInv
<1>8. CASE Overflow \/ CloseValid \/ CloseAlarms
  <2>1. PICK f \in Files : WriteOut(f)
    BY <1>8 DEF Overflow, CloseValid, CloseAlarms, CloseOutput
  <2>2. pc \in AfterOpen /\ pc' \in AfterOpen \ Untouched
    BY <1>8 DEF Overflow, CloseValid, CloseAlarms, CloseOutput
  <2>3. OutputsOK /\ NumGroups \in Nat
    BY NumGroupsType, TypeParts DEF TypeOK
  <2>4. on_disk[f] # Earlier
    BY <2>2 DEF OpenInv
  <2>5. /\ on_disk'[f] \in Seq(1 .. NumGroups)
        /\ \A g \in Files \ {f} : on_disk'[g] = on_disk[g]
    BY <2>1, <2>3, <2>4, WriteOutType
  <2>6. on_disk'[f] # Earlier
    BY <2>3, <2>5, EarlierIsNoLines
  <2> QED
    BY <2>2, <2>5, <2>6 DEF OpenInv
<1>9. CASE ~ (UNCHANGED <<pc, outputs, progress>> \/ pc' = "ended") /\ [Next]_vars
  BY <1>3, <1>4, <1>5, <1>6, <1>7, <1>8, <1>9 DEF Next, Step, Kill, Ended, vars, MapFailed,
     ConstructAccumulator, Terminate, ProcessPipeline, AppendGroup, EndBatch, Summary, Return
<1> QED
  BY <1>1, <1>9

(* main() returns 1 only before the first file is opened, or when one      *)
(* could not be.                                                           *)
LEMMA ErrorStep ==
    ASSUME TypeOK, StatusInv, OpenInv, ErrorKeepsOutputs, [Next]_vars
    PROVE  ErrorKeepsOutputs'
<1>1. CASE UNCHANGED <<status, outputs>> \/ status' # "failure"
  BY <1>1 DEF ErrorKeepsOutputs
<1>2. CASE pc \in BeforeOpen /\ UNCHANGED outputs
  BY <1>2 DEF OpenInv, ErrorKeepsOutputs
<1>3. CASE CheckOpen
  BY <1>3 DEF CheckOpen, OpenInv, ErrorKeepsOutputs, Return, StatusInv
<1>4. CASE Next /\ status' = "failure"
  BY <1>1, <1>2, <1>3, <1>4 DEF Next, Step, Kill, Ended, vars, ParseArguments, Fallible,
     LoadSensors, LoadRules, MapFile, MapFailed, CreateOutputDir, OpenOutput, OpenValid,
     OpenAlarms, ConstructAccumulator, Terminate, ProcessPipeline, AppendGroup,
     EndBatch, Overflow, CloseOutput, CloseValid, CloseAlarms, Summary, Return, StatusInv
<1> QED
  BY <1>1, <1>4 DEF vars
-----------------------------------------------------------------------------
(* A line of a later group extends a list. *)
LEMMA ListsAppend ==
    ASSUME NEW lines \in Seq(Nat), NEW S, NEW g \in Nat, Lists(lines, S),
           \A k \in S : k < g
    PROVE  Lists(Append(lines, g), S \cup {g})
<1> DEFINE more == Append(lines, g)
<1>1. /\ Len(more) = Len(lines) + 1
      /\ Len(lines) \in Nat
      /\ more[Len(more)] = g
      /\ \A n \in 1 .. Len(lines) : more[n] = lines[n]
  OBVIOUS
<1>2. /\ {lines[n] : n \in 1 .. Len(lines)} = S
      /\ \A n \in 1 .. Len(lines) : \A k \in 1 .. (n - 1) : lines[k] < lines[n]
  BY DEF Lists
<1> HIDE DEF more
<1>3. {more[n] : n \in 1 .. Len(more)} = S \cup {g}
  <2>1. \A n \in 1 .. Len(more) : more[n] \in S \cup {g}
    <3> SUFFICES ASSUME NEW n \in 1 .. Len(more) PROVE more[n] \in S \cup {g}
      OBVIOUS
    <3>1. n \in 1 .. Len(lines) \/ n = Len(more)
      BY <1>1
    <3> QED
      BY <1>1, <1>2, <3>1
  <2>2. \A x \in S : \E n \in 1 .. Len(more) : more[n] = x
    BY <1>1, <1>2
  <2>3. Len(more) \in 1 .. Len(more)
    BY <1>1
  <2> QED
    BY <1>1, <2>1, <2>2, <2>3
<1>4. ASSUME NEW n \in 1 .. Len(more), NEW k \in 1 .. (n - 1)
      PROVE  more[k] < more[n]
  <2>1. k \in 1 .. Len(lines)
    BY <1>1
  <2>2. lines[k] \in S
    BY <1>2, <2>1
  <2>3. n \in 1 .. Len(lines) \/ n = Len(more)
    BY <1>1
  <2> QED
    BY <1>1, <1>2, <1>4, <2>1, <2>2, <2>3
<1> QED
  BY <1>3, <1>4 DEF Lists, more

LEMMA ConcatAppend ==
    ASSUME NEW s \in Seq(Nat), NEW t \in Seq(Nat), NEW g \in Nat
    PROVE  s \o Append(t, g) = Append(s \o t, g)
OBVIOUS

LEMMA ConcatType ==
    ASSUME NEW n \in Nat, NEW s \in Seq(1 .. n), NEW t \in Seq(1 .. n)
    PROVE  s \in Seq(Nat) /\ t \in Seq(Nat) /\ s \o t \in Seq(Nat)
<1>1. s \in Seq(Nat) /\ t \in Seq(Nat)
  OBVIOUS
<1> QED
  BY <1>1

LEMMA ConcatEmpty ==
    ASSUME NEW s \in Seq(Nat)
    PROVE  s \o << >> = s
OBVIOUS

LEMMA NothingToList == \A f \in Files : Lists(<< >> \o << >>, GroupsFor(f, 0))
BY DEF Lists, GroupsFor

LEMMA NextGroupsFor ==
    ASSUME NEW f \in Files, NEW g \in Nat \ {0}
    PROVE  /\ FileOf(g) = f => GroupsFor(f, g) = GroupsFor(f, g - 1) \cup {g}
           /\ FileOf(g) # f => GroupsFor(f, g) = GroupsFor(f, g - 1)
BY DEF GroupsFor

(* The lists of a good stream are lists of groups. *)
LEMMA LinesType ==
    ASSUME TypeOK, NEW f \in Files, on_disk[f] # Earlier
    PROVE  /\ NumGroups \in Nat
           /\ on_disk[f] \in Seq(Nat) /\ pending[f] \in Seq(Nat)
           /\ on_disk[f] \o pending[f] \in Seq(Nat)
<1>1. NumGroups \in Nat
  BY NumGroupsType DEF TypeOK
<1>2. on_disk[f] \in Seq(1 .. NumGroups) /\ pending[f] \in Seq(1 .. NumGroups)
  BY DEF TypeOK
<1> QED
  BY <1>1, <1>2, ConcatType

(* Whole after a step, in terms of the groups before it: they are the same. *)
LEMMA WholeAfter ==
    ASSUME UNCHANGED input,
           \A f \in Files \ bad' :
               on_disk'[f] # Earlier =>
                   Lists(on_disk'[f] \o pending'[f], GroupsFor(f, next_group' - 1))
    PROVE  Whole'
<1>1. ASSUME NEW f \in Files
      PROVE  GroupsFor(f, next_group - 1)' = GroupsFor(f, next_group' - 1)
  BY DEF GroupsFor, FileOf
<1> QED
  BY <1>1 DEF Whole

LEMMA NoHolesAfter ==
    ASSUME UNCHANGED input,
           \A f \in Files \ bad' :
               on_disk'[f] # Earlier =>
                   \E n \in 0 .. NumGroups : Lists(on_disk'[f], GroupsFor(f, n))
    PROVE  NoHoles'
<1>1. ASSUME NEW f \in Files, NEW n
      PROVE  GroupsFor(f, n)' = GroupsFor(f, n)
  BY DEF GroupsFor, FileOf
<1>2. NumGroups' = NumGroups
  BY DEF NumGroups
<1> QED
  BY <1>1, <1>2 DEF NoHoles

(* An append puts the lines of the next group behind those of all before. *)
LEMMA AppendKeepsWhole ==
    ASSUME TypeOK, OpenInv, Whole, AppendGroup
    PROVE  Whole'
<1> SUFFICES ASSUME NEW f \in Files \ bad, on_disk[f] # Earlier
             PROVE  Lists(on_disk[f] \o pending'[f], GroupsFor(f, next_group))
  <2>1. /\ bad' = bad /\ on_disk' = on_disk /\ input' = input
        /\ next_group' = next_group + 1
    BY DEF AppendGroup
  <2>2. next_group' - 1 = next_group
    BY <2>1 DEF TypeOK
  <2> QED
    BY <2>1, <2>2, WholeAfter
<1>1. Lists(on_disk[f] \o pending[f], GroupsFor(f, next_group - 1))
  BY DEF Whole
<1>2. /\ on_disk[f] \in Seq(Nat) /\ pending[f] \in Seq(Nat)
      /\ on_disk[f] \o pending[f] \in Seq(Nat)
      /\ NumGroups \in Nat
  BY LinesType
<1>3. next_group \in Nat \ {0}
  BY <1>2 DEF TypeOK
<1>4. CASE FileOf(next_group) = f
  <2>1. pending'[f] = Append(pending[f], next_group)
    BY <1>4 DEF AppendGroup, Put, TypeOK
  <2>2. on_disk[f] \o pending'[f] = Append(on_disk[f] \o pending[f], next_group)
    <3>1. next_group \in Nat
      BY <1>3
    <3>2. on_disk[f] \o Append(pending[f], next_group)
              = Append(on_disk[f] \o pending[f], next_group)
      BY <1>2, <3>1, ConcatAppend, Zenon
    <3> QED
      BY <2>1, <3>2
  <2>3. \A k \in GroupsFor(f, next_group - 1) : k < next_group
    BY <1>3 DEF GroupsFor
  <2> QED
    <3>1. next_group \in Nat
      BY <1>3
    <3>2. GroupsFor(f, next_group) = GroupsFor(f, next_group - 1) \cup {next_group}
      BY <1>3, <1>4, NextGroupsFor
    <3>3. Lists(Append(on_disk[f] \o pending[f], next_group),
                GroupsFor(f, next_group - 1) \cup {next_group})
      BY <1>1, <1>2, <2>3, <3>1, ListsAppend, Zenon
    <3> QED
      BY <2>2, <3>2, <3>3
<1>5. CASE FileOf(next_group) # f
  <2>1. pending'[f] = pending[f]
    BY <1>5 DEF AppendGroup, Put, TypeOK, FileOf
  <2> QED
    BY <1>1, <1>3, <1>5, <2>1, NextGroupsFor
<1> QED
  BY <1>4, <1>5

(* A stream that is written out holds a part of what it was given, and a   *)
(* good one all of it on disk.                                             *)
LEMMA WriteKeepsLines ==
    ASSUME TypeOK, OpenInv, Whole, NoHoles, NEW f \in Files, on_disk[f] # Earlier,
           WriteOut(f), UNCHANGED <<given, progress>>
    PROVE  Whole' /\ NoHoles'
<1>1. NumGroups \in Nat /\ OutputsOK
  BY TypeParts, NumGroupsType DEF TypeOK
<1>2. /\ \A g \in Files \ {f} : on_disk'[g] = on_disk[g] /\ pending'[g] = pending[g]
      /\ \/ /\ on_disk'[f] = on_disk[f] \o pending[f]
            /\ pending'[f] = << >>
            /\ bad' = bad
         \/ bad' = bad \cup {f}
      /\ on_disk'[f] \in Seq(1 .. NumGroups)
  BY <1>1, WriteOutType
<1>3. UNCHANGED <<input, next_group>>
  OBVIOUS
<1>4. next_group - 1 \in 0 .. NumGroups
  BY <1>1 DEF TypeOK
<1>5. on_disk'[f] \in Seq(Nat)
  BY <1>1, <1>2, ConcatType
<1>6. Whole'
  <2> SUFFICES ASSUME NEW g \in Files \ bad', on_disk'[g] # Earlier
               PROVE  Lists(on_disk'[g] \o pending'[g], GroupsFor(g, next_group - 1))
    BY <1>3, WholeAfter
  <2>1. g \in Files \ bad
    BY <1>2
  <2>2. CASE g = f
    <3>1. on_disk'[f] = on_disk[f] \o pending[f] /\ pending'[f] = << >>
      BY <1>2, <2>2
    <3>2. on_disk'[f] \o pending'[f] = on_disk'[f]
      BY <1>5, <3>1, ConcatEmpty
    <3> QED
      BY <2>1, <2>2, <3>1, <3>2 DEF Whole
  <2>3. CASE g # f
    BY <1>2, <2>1, <2>3 DEF Whole
  <2> QED
    BY <2>2, <2>3
<1>7. NoHoles'
  <2> SUFFICES ASSUME NEW g \in Files \ bad', on_disk'[g] # Earlier
               PROVE  \E n \in 0 .. NumGroups : Lists(on_disk'[g], GroupsFor(g, n))
    BY <1>3, NoHolesAfter
  <2>1. g \in Files \ bad
    BY <1>2
  <2>2. CASE g = f
    <3>1. on_disk'[f] = on_disk[f] \o pending[f]
      BY <1>2, <2>2
    <3>2. Lists(on_disk'[f], GroupsFor(f, next_group - 1))
      BY <2>1, <2>2, <3>1 DEF Whole
    <3> QED
      BY <1>4, <2>2, <3>2
  <2>3. CASE g # f
    BY <1>2, <2>1, <2>3 DEF NoHoles
  <2> QED
    BY <2>2, <2>3
<1> QED
  BY <1>6, <1>7

(* Opening truncates: no line, and no group so far. *)
LEMMA OpenKeepsLines ==
    ASSUME TypeOK, OpenInv, Whole, NoHoles, NEW here \in {"open_valid", "open_alarms"},
           NEW f \in Files, NEW next, OpenOutput(here, f, next)
    PROVE  Whole' /\ NoHoles'
<1>1. NumGroups \in Nat
  BY NumGroupsType DEF TypeOK
<1>2. next_group = 1 /\ \A g \in Files : pending[g] = << >>
  BY DEF OpenOutput, OpenInv
<1>3. \A g \in Files : Lists(<< >>, GroupsFor(g, 0))
  <2>1. << >> \o << >> = << >>
    OBVIOUS
  <2> QED
    BY <2>1, NothingToList
<1>4. \A g \in Files : on_disk'[g] = on_disk[g] \/ on_disk'[g] = << >>
  BY DEF OpenOutput, TypeOK
<1>5. bad \subseteq bad' /\ UNCHANGED <<input, pending, next_group>>
  BY DEF OpenOutput
<1>6. Whole'
  <2> SUFFICES ASSUME NEW g \in Files \ bad', on_disk'[g] # Earlier
               PROVE  Lists(on_disk'[g] \o pending[g], GroupsFor(g, next_group - 1))
    BY <1>5, WholeAfter
  <2>1. CASE on_disk'[g] = on_disk[g]
    BY <1>5, <2>1 DEF Whole
  <2>2. CASE on_disk'[g] = << >>
    BY <1>2, <2>2, NothingToList
  <2> QED
    BY <1>4, <2>1, <2>2
<1>7. NoHoles'
  <2> SUFFICES ASSUME NEW g \in Files \ bad', on_disk'[g] # Earlier
               PROVE  \E n \in 0 .. NumGroups : Lists(on_disk'[g], GroupsFor(g, n))
    BY <1>5, NoHolesAfter
  <2>1. CASE on_disk'[g] = on_disk[g]
    BY <1>5, <2>1 DEF NoHoles
  <2>2. CASE on_disk'[g] = << >>
    BY <1>1, <1>3, <2>2
  <2> QED
    BY <1>4, <2>1, <2>2
<1> QED
  BY <1>6, <1>7

LEMMA LinesStep ==
    ASSUME TypeOK, OpenInv, Whole, NoHoles, [Next]_vars
    PROVE  Whole' /\ NoHoles'
<1>1. CASE UNCHANGED <<input, outputs, next_group>>
  <2>1. Whole'
    BY <1>1, WholeAfter DEF Whole
  <2>2. NoHoles'
    BY <1>1, NoHolesAfter DEF NoHoles
  <2> QED
    BY <2>1, <2>2
<1>2. CASE OpenValid \/ OpenAlarms
  BY <1>2, OpenKeepsLines DEF OpenValid, OpenAlarms
<1>3. CASE AppendGroup
  <2>1. Whole'
    BY <1>3, AppendKeepsWhole
  <2>2. UNCHANGED <<input, on_disk, bad>>
    BY <1>3 DEF AppendGroup
  <2>3. NoHoles'
    BY <2>2, NoHolesAfter DEF NoHoles
  <2> QED
    BY <2>1, <2>3
<1>4. CASE Overflow \/ CloseValid \/ CloseAlarms
  <2>1. PICK f \in Files : WriteOut(f)
    BY <1>4 DEF Overflow, CloseValid, CloseAlarms, CloseOutput
  <2>2. pc \in AfterOpen /\ UNCHANGED <<given, progress>>
    BY <1>4 DEF Overflow, CloseValid, CloseAlarms, CloseOutput
  <2>3. on_disk[f] # Earlier
    BY <2>2 DEF OpenInv
  <2> QED
    BY <2>1, <2>2, <2>3, WriteKeepsLines
<1>5. CASE Next /\ ~ (OpenValid \/ OpenAlarms \/ AppendGroup \/ Overflow \/ CloseValid \/ CloseAlarms)
  BY <1>1, <1>5 DEF Next, Step, Kill, Ended, vars, ParseArguments, Fallible, LoadSensors,
     LoadRules, MapFile, MapFailed, CreateOutputDir, CheckOpen, ConstructAccumulator,
     ProcessPipeline, EndBatch, Summary
<1> QED
  BY <1>1, <1>2, <1>3, <1>4, <1>5 DEF vars

(* From the first close on, everything has been appended, and a good       *)
(* stream that has been closed holds nothing back.                         *)
LEMMA ClosedStep ==
    ASSUME TypeOK, OpenInv, ClosedInv, [Next]_vars
    PROVE  ClosedInv'
<1>1. CASE UNCHANGED <<input, pc, outputs, next_group>>
  BY <1>1 DEF ClosedInv, NumGroups
<1>2. CASE pc' \notin {"close_alarms", "summary"}
  BY <1>2 DEF ClosedInv
<1>3. OutputsOK /\ NumGroups \in Nat
  BY NumGroupsType, TypeParts DEF TypeOK
<1>4. CASE CloseValid
  <2>1. on_disk["valid_file"] # Earlier
    BY <1>4 DEF CloseValid, CloseOutput, OpenInv
  <2>2. "valid_file" \notin bad' => pending'["valid_file"] = << >>
    BY <1>3, <1>4, <2>1, WriteOutType DEF CloseValid, CloseOutput
  <2>3. next_group = NumGroups + 1
    BY <1>3, <1>4 DEF CloseValid, TypeOK
  <2> QED
    BY <1>4, <2>2, <2>3 DEF CloseValid, CloseOutput, ClosedInv, NumGroups
<1>5. CASE CloseAlarms
  <2>1. on_disk["alarms_file"] # Earlier
    BY <1>5 DEF CloseAlarms, CloseOutput, OpenInv
  <2>2. /\ "alarms_file" \notin bad' => pending'["alarms_file"] = << >>
        /\ pending'["valid_file"] = pending["valid_file"]
        /\ bad \subseteq bad'
    BY <1>3, <1>5, <2>1, WriteOutType DEF CloseAlarms, CloseOutput
  <2> QED
    BY <1>5, <2>2 DEF CloseAlarms, CloseOutput, ClosedInv, NumGroups
<1>6. CASE Next /\ ~ CloseValid /\ ~ CloseAlarms
  BY <1>1, <1>2, <1>6 DEF Next, Step, Kill, Ended, vars, ParseArguments, Fallible, LoadSensors,
     LoadRules, MapFile, MapFailed, CreateOutputDir, OpenOutput, OpenValid, OpenAlarms,
     CheckOpen, ConstructAccumulator, Terminate, ProcessPipeline, AppendGroup, EndBatch,
     Overflow, Summary, Return
<1> QED
  BY <1>1, <1>4, <1>5, <1>6 DEF vars

(* A good stream that holds nothing back has the lines of all groups on disk. *)
LEMMA SuccessStep ==
    ASSUME TypeOK, StatusInv, OpenInv, Whole, ClosedInv, SuccessIsComplete, [Next]_vars
    PROVE  SuccessIsComplete'
<1>1. CASE UNCHANGED <<given, status, outputs>>
  <2>1. \A f \in Files : \A n : GroupsFor(f, n)' = GroupsFor(f, n)
    BY <1>1 DEF GroupsFor, FileOf
  <2>2. NumGroups' = NumGroups
    BY <1>1 DEF NumGroups
  <2> QED
    BY <1>1, <2>1, <2>2 DEF SuccessIsComplete
<1>2. CASE status' # "success"
  BY <1>2 DEF SuccessIsComplete
<1>3. CASE ParseArguments
  BY <1>2, <1>3 DEF ParseArguments, SuccessIsComplete, Return, StatusInv
<1>4. CASE Summary
  <2> SUFFICES ASSUME bad = {}
               PROVE  \A f \in Files : on_disk[f] # Earlier
                                         /\ Lists(on_disk[f], GroupsFor(f, NumGroups))
    <3>1. UNCHANGED <<given, outputs>>
      BY <1>4 DEF Summary
    <3>2. \A f \in Files : \A n : GroupsFor(f, n)' = GroupsFor(f, n)
      BY <3>1 DEF GroupsFor, FileOf
    <3>3. NumGroups' = NumGroups
      BY <3>1 DEF NumGroups
    <3> QED
      BY <3>1, <3>2, <3>3 DEF SuccessIsComplete
  <2>1. pc = "summary"
    BY <1>4 DEF Summary
  <2>2. \A f \in Files : on_disk[f] # Earlier
    BY <2>1 DEF OpenInv
  <2>3. \A f \in Files : pending[f] = << >>
    BY <2>1 DEF ClosedInv
  <2> SUFFICES ASSUME NEW f \in Files PROVE Lists(on_disk[f], GroupsFor(f, NumGroups))
    BY <2>2
  <2>4. Lists(on_disk[f] \o pending[f], GroupsFor(f, next_group - 1))
    BY <2>2 DEF Whole
  <2>5. on_disk[f] \in Seq(Nat) /\ NumGroups \in Nat
    BY <2>2, LinesType
  <2>6. on_disk[f] \o pending[f] = on_disk[f]
    BY <2>3, <2>5, ConcatEmpty
  <2>7. next_group - 1 = NumGroups
    BY <2>1, <2>5 DEF ClosedInv
  <2> QED
    BY <2>4, <2>6, <2>7
<1>5. CASE Next /\ ~ ParseArguments /\ ~ Summary
  BY <1>1, <1>2, <1>5 DEF Next, Step, Kill, Ended, vars, Fallible, LoadSensors, LoadRules,
     MapFile, MapFailed, CreateOutputDir, OpenOutput, OpenValid, OpenAlarms, CheckOpen,
     ConstructAccumulator, Terminate, ProcessPipeline, AppendGroup, EndBatch, Overflow,
     CloseOutput, CloseValid, CloseAlarms, Return, StatusInv
<1> QED
  BY <1>1, <1>3, <1>4, <1>5 DEF vars
-----------------------------------------------------------------------------
(* The inductive invariant of main().                                      *)
THEOREM InductiveInvariant == Spec => []IInv
<1>1. Init => IInv
  <2> SUFFICES ASSUME Init PROVE IInv
    OBVIOUS
  <2>1. TypeOK
    BY InitType
  <2>2. csv_file["data"] = FALSE /\ csv_file["fd"] = FALSE
    BY DEF Init
  <2>3. kernel["data"] = "never" /\ kernel["fd"] = "never"
    BY DEF Init
  <2>4. StatusInv /\ Consistent /\ ReleasedOnce /\ OpenInv
    BY <2>2, <2>3 DEF Init, StatusInv, Consistent, ReleasedOnce, OpenInv
  <2>5. ErrorKeepsOutputs /\ Whole /\ NoHoles /\ ClosedInv /\ SuccessIsComplete
    BY DEF Init, ErrorKeepsOutputs, Whole, NoHoles, ClosedInv, SuccessIsComplete
  <2> QED
    BY <2>1, <2>4, <2>5 DEF IInv
<1>2. IInv /\ [Next]_vars => IInv'
  <2> SUFFICES ASSUME IInv, [Next]_vars PROVE IInv'
    OBVIOUS
  <2>1. /\ TypeOK /\ StatusInv /\ Consistent /\ ReleasedOnce /\ OpenInv
        /\ ErrorKeepsOutputs /\ Whole /\ NoHoles /\ ClosedInv /\ SuccessIsComplete
    BY DEF IInv
  <2>2. TypeOK'
    BY <2>1, TypeStep
  <2>3. StatusInv' /\ Consistent' /\ ReleasedOnce'
    BY <2>1, StatusStep, ResourcesStep
  <2>4. OpenInv' /\ ErrorKeepsOutputs'
    BY <2>1, OpenStep, ErrorStep
  <2>5. Whole' /\ NoHoles' /\ ClosedInv'
    BY <2>1, LinesStep, ClosedStep
  <2>6. SuccessIsComplete'
    BY <2>1, SuccessStep
  <2> QED
    BY <2>2, <2>3, <2>4, <2>5, <2>6 DEF IInv
<1> QED
  BY <1>1, <1>2, PTL DEF Spec

(* An error of main()'s own leaves the outputs of the run before as they   *)
(* were, whatever the command line and whichever step fails.               *)
THEOREM ErrorsKeepOutputs == Spec => []ErrorKeepsOutputs
<1>1. IInv => ErrorKeepsOutputs
  BY DEF IInv
<1> QED
  BY <1>1, InductiveInvariant, PTL

(* Killed or aborted at any step, a file written without an error holds    *)
(* the lines of the first groups and no other, for an input of any length. *)
THEOREM FilesHaveNoHoles == Spec => []NoHoles
<1>1. IInv => NoHoles
  BY DEF IInv
<1> QED
  BY <1>1, InductiveInvariant, PTL

(* Exit status 0 means complete files if no write failed.                  *)
THEOREM SuccessMeansComplete == Spec => []SuccessIsComplete
<1>1. IInv => SuccessIsComplete
  BY DEF IInv
<1> QED
  BY <1>1, InductiveInvariant, PTL

(* The mapping and the descriptor are given back exactly once.             *)
THEOREM HandlesReleased == Spec => []ReleasedOnce
<1>1. IInv => ReleasedOnce
  BY DEF IInv
<1> QED
  BY <1>1, InductiveInvariant, PTL
-----------------------------------------------------------------------------
(***************************************************************************)
(* The arguments: the settings are a function of the options that are      *)
(* given, if each is given once.                                           *)
(***************************************************************************)
(* The option is there, with this value after it. *)
HasValue(args, name, val) ==
    \E n \in 1 .. (Len(args) - 1) : args[n] = name /\ args[n + 1] = val

LEMMA PairIsNoFlag == \A a, b, c : <<a, b>> # <<c>>
<1> SUFFICES ASSUME NEW a, NEW b, NEW c PROVE <<a, b>> # <<c>>
  OBVIOUS
<1>1. Len(<<a, b>>) = 2 /\ Len(<<c>>) = 1
  OBVIOUS
<1> QED
  BY <1>1

LEMMA OptionGiven ==
    ASSUME NEW args \in Seq(STRING), NEW n \in 1 .. Len(args), args[n] \in Options
    PROVE  (IF args[n] \in ValueOptions THEN <<args[n], args[n + 1]>> ELSE <<args[n]>>)
              \in GivenOptions(args)
BY DEF GivenOptions

LEMMA GivenIsOption ==
    ASSUME NEW args \in Seq(STRING), NEW option \in GivenOptions(args)
    PROVE  \E n \in 1 .. Len(args) :
              /\ args[n] \in Options
              /\ option = IF args[n] \in ValueOptions THEN <<args[n], args[n + 1]>>
                          ELSE <<args[n]>>
BY DEF GivenOptions

LEMMA GivenValue ==
    ASSUME NEW args \in Seq(STRING), Usual(args), NEW name \in ValueOptions, NEW val
    PROVE  <<name, val>> \in GivenOptions(args) <=> HasValue(args, name, val)
<1>1. Len(args) \in Nat
  OBVIOUS
<1>2. ASSUME <<name, val>> \in GivenOptions(args) PROVE HasValue(args, name, val)
  <2>1. PICK n \in 1 .. Len(args) :
              /\ args[n] \in Options
              /\ <<name, val>> = IF args[n] \in ValueOptions THEN <<args[n], args[n + 1]>>
                                 ELSE <<args[n]>>
    BY <1>2, GivenIsOption
  <2>2. args[n] \in ValueOptions
    BY <2>1, PairIsNoFlag
  <2>3. args[n] = name /\ args[n + 1] = val
    BY <2>1, <2>2
  <2>4. n < Len(args)
    BY <2>2 DEF Usual
  <2>5. n \in 1 .. (Len(args) - 1)
    BY <1>1, <2>4
  <2> QED
    BY <2>3, <2>5 DEF HasValue
<1>3. ASSUME HasValue(args, name, val) PROVE <<name, val>> \in GivenOptions(args)
  <2>1. PICK n \in 1 .. (Len(args) - 1) : args[n] = name /\ args[n + 1] = val
    BY <1>3 DEF HasValue
  <2>2. n \in 1 .. Len(args)
    BY <1>1
  <2>3. args[n] \in Options
    BY <2>1 DEF Options
  <2> QED
    BY <2>1, <2>2, <2>3, OptionGiven
<1> QED
  BY <1>2, <1>3

LEMMA ArgIsTheValue ==
    ASSUME NEW args \in Seq(STRING), Usual(args), NEW name \in ValueOptions, NEW default_val
    PROVE  /\ \A val : HasValue(args, name, val) => get_arg(args, name, default_val) = val
           /\ (~ \E val : HasValue(args, name, val))
                 => get_arg(args, name, default_val) = default_val
<1> DEFINE P == NamePositions(args, name)
<1>1. /\ Len(args) \in Nat
      /\ P = {n \in 1 .. (Len(args) - 1) : args[n] = name}
  BY DEF NamePositions
<1>2. ASSUME NEW val, HasValue(args, name, val)
      PROVE  get_arg(args, name, default_val) = val
  <2>1. PICK n \in 1 .. (Len(args) - 1) : args[n] = name /\ args[n + 1] = val
    BY <1>2 DEF HasValue
  <2>2. \A k \in P : k = n
    <3> SUFFICES ASSUME NEW k \in P PROVE k = n
      OBVIOUS
    <3>1. k \in 1 .. Len(args) /\ n \in 1 .. Len(args) /\ args[k] = name
      BY <1>1
    <3>2. args[n] \in Options
      BY <2>1 DEF Options
    <3> QED
      BY <2>1, <3>1, <3>2 DEF Usual
  <2>3. n \in P /\ n <= n
    BY <1>1, <2>1
  <2> HIDE DEF P
  <2>4. (CHOOSE m \in P : \A k \in P : m <= k) = n
    BY <2>2, <2>3
  <2>5. P # {}
    BY <2>3
  <2>6. 1 + n = n + 1
    BY <2>1
  <2> QED
    BY <2>1, <2>4, <2>5, <2>6 DEF get_arg, P
<1>3. ASSUME ~ \E val : HasValue(args, name, val)
      PROVE  get_arg(args, name, default_val) = default_val
  <2>1. P = {}
    <3> SUFFICES ASSUME NEW n \in P PROVE FALSE
      OBVIOUS
    <3>1. n \in 1 .. (Len(args) - 1) /\ args[n] = name
      BY <1>1
    <3>2. HasValue(args, name, args[n + 1])
      BY <3>1 DEF HasValue
    <3> QED
      BY <1>3, <3>2
  <2> QED
    BY <2>1 DEF get_arg
<1> QED
  BY <1>2, <1>3

LEMMA FlagGiven ==
    ASSUME NEW args \in Seq(STRING)
    PROVE  <<"--benchmark">> \in GivenOptions(args) <=> has_flag(args, "--benchmark")
<1>1. "--benchmark" \in Options /\ "--benchmark" \notin ValueOptions
  BY DEF Options, ValueOptions
<1>2. ASSUME <<"--benchmark">> \in GivenOptions(args) PROVE has_flag(args, "--benchmark")
  <2>1. PICK n \in 1 .. Len(args) :
              /\ args[n] \in Options
              /\ <<"--benchmark">> = IF args[n] \in ValueOptions THEN <<args[n], args[n + 1]>>
                                     ELSE <<args[n]>>
    BY <1>2, GivenIsOption
  <2>2. <<"--benchmark">> = <<args[n]>>
    BY <2>1, PairIsNoFlag
  <2>3. args[n] = "--benchmark"
    BY <2>2
  <2> QED
    BY <2>3 DEF has_flag
<1>3. ASSUME has_flag(args, "--benchmark") PROVE <<"--benchmark">> \in GivenOptions(args)
  <2>1. PICK n \in 1 .. Len(args) : args[n] = "--benchmark"
    BY <1>3 DEF has_flag
  <2> QED
    BY <1>1, <2>1, OptionGiven
<1> QED
  BY <1>2, <1>3

LEMMA SameArg ==
    ASSUME NEW args \in Seq(STRING), Usual(args), NEW other \in Seq(STRING), Usual(other),
           GivenOptions(other) = GivenOptions(args), NEW name \in ValueOptions, NEW default_val
    PROVE  get_arg(other, name, default_val) = get_arg(args, name, default_val)
<1>1. \A val : HasValue(args, name, val) <=> HasValue(other, name, val)
  BY GivenValue
<1>2. CASE \E val : HasValue(args, name, val)
  <2>1. PICK val : HasValue(args, name, val)
    BY <1>2
  <2>2. get_arg(args, name, default_val) = val
    BY <2>1, ArgIsTheValue
  <2>3. get_arg(other, name, default_val) = val
    BY <1>1, <2>1, ArgIsTheValue
  <2> QED
    BY <2>2, <2>3
<1>3. CASE ~ \E val : HasValue(args, name, val)
  <2>1. get_arg(args, name, default_val) = default_val
    BY <1>3, ArgIsTheValue
  <2>2. get_arg(other, name, default_val) = default_val
    BY <1>1, <1>3, ArgIsTheValue
  <2> QED
    BY <2>1, <2>2
<1> QED
  BY <1>2, <1>3

LEMMA SameSettings ==
    ASSUME NEW args \in Seq(STRING), Usual(args), NEW other \in Seq(STRING), Usual(other),
           GivenOptions(other) = GivenOptions(args)
    PROVE  Settings(other) = Settings(args)
<1>1. \A name \in ValueOptions : \A default_val :
         get_arg(other, name, default_val) = get_arg(args, name, default_val)
  BY SameArg
<1>2. \A name \in ValueOptions : \A default_val :
         /\ get_int_arg(other, name, default_val) = get_int_arg(args, name, default_val)
         /\ get_double_arg(other, name, default_val) = get_double_arg(args, name, default_val)
  <2> SUFFICES ASSUME NEW name \in ValueOptions, NEW default_val
               PROVE  /\ get_int_arg(other, name, default_val)
                            = get_int_arg(args, name, default_val)
                      /\ get_double_arg(other, name, default_val)
                            = get_double_arg(args, name, default_val)
    OBVIOUS
  <2>1. get_arg(other, name, "") = get_arg(args, name, "")
    BY <1>1, Zenon
  <2> QED
    BY <2>1, Zenon DEF get_int_arg, get_double_arg
<1>3. has_flag(other, "--benchmark") = has_flag(args, "--benchmark")
  <2>1. has_flag(other, "--benchmark") \in BOOLEAN /\ has_flag(args, "--benchmark") \in BOOLEAN
    BY DEF has_flag
  <2> QED
    BY <2>1, FlagGiven
<1>4. /\ "--csv" \in ValueOptions /\ "--rules" \in ValueOptions
      /\ "--sensors" \in ValueOptions /\ "--output-dir" \in ValueOptions
      /\ "--threads" \in ValueOptions /\ "--batch-strategy" \in ValueOptions
      /\ "--batch-size" \in ValueOptions /\ "--batch-interval" \in ValueOptions
  BY DEF ValueOptions
<1>5. /\ get_arg(other, "--csv", "") = get_arg(args, "--csv", "")
      /\ get_arg(other, "--rules", "input/rules_SAT_ALPHA.json")
            = get_arg(args, "--rules", "input/rules_SAT_ALPHA.json")
      /\ get_arg(other, "--sensors", "input/sensors_SAT_ALPHA.yaml")
            = get_arg(args, "--sensors", "input/sensors_SAT_ALPHA.yaml")
      /\ get_arg(other, "--output-dir", "output/") = get_arg(args, "--output-dir", "output/")
      /\ get_arg(other, "--batch-strategy", "count") = get_arg(args, "--batch-strategy", "count")
  BY <1>1, <1>4, Zenon
<1>6. /\ get_int_arg(other, "--threads", 0) = get_int_arg(args, "--threads", 0)
      /\ get_int_arg(other, "--batch-size", 1000) = get_int_arg(args, "--batch-size", 1000)
      /\ get_double_arg(other, "--batch-interval", 5000)
            = get_double_arg(args, "--batch-interval", 5000)
  <2>1. get_int_arg(other, "--threads", 0) = get_int_arg(args, "--threads", 0)
    BY <1>2, <1>4
  <2>2. get_int_arg(other, "--batch-size", 1000) = get_int_arg(args, "--batch-size", 1000)
    BY <1>2, <1>4
  <2>3. get_double_arg(other, "--batch-interval", 5000)
            = get_double_arg(args, "--batch-interval", 5000)
    BY <1>2, <1>4
  <2> QED
    BY <2>1, <2>2, <2>3
<1> DEFINE csv(a)      == get_arg(a, "--csv", "")
           rules(a)    == get_arg(a, "--rules", "input/rules_SAT_ALPHA.json")
           sensors(a)  == get_arg(a, "--sensors", "input/sensors_SAT_ALPHA.yaml")
           output(a)   == get_arg(a, "--output-dir", "output/")
           threads(a)  == get_int_arg(a, "--threads", 0)
           bench(a)    == has_flag(a, "--benchmark")
           strategy(a) == get_arg(a, "--batch-strategy", "count")
           batch(a)    == get_int_arg(a, "--batch-size", 1000)
           interval(a) == get_double_arg(a, "--batch-interval", 5000)
           read(a)     == [csv_path |-> csv(a), rules_path |-> rules(a),
                           sensors_path |-> sensors(a), output_dir |-> output(a),
                           num_threads |-> ThreadCount(threads(a)),
                           benchmark_mode |-> bench(a),
                           strategy |-> string_to_strategy(strategy(a)),
                           batch_size |-> batch(a), batch_interval |-> interval(a)]
<1>7. Settings(args) = read(args) /\ Settings(other) = read(other)
  BY Zenon DEF Settings
<1>8. /\ csv(other) = csv(args) /\ rules(other) = rules(args)
      /\ sensors(other) = sensors(args) /\ output(other) = output(args)
      /\ threads(other) = threads(args) /\ bench(other) = bench(args)
      /\ strategy(other) = strategy(args) /\ batch(other) = batch(args)
      /\ interval(other) = interval(args)
  <2>1. csv(other) = csv(args)
    BY <1>5
  <2>2. rules(other) = rules(args)
    BY <1>5
  <2>3. sensors(other) = sensors(args)
    BY <1>5
  <2>4. output(other) = output(args)
    BY <1>5
  <2>5. threads(other) = threads(args)
    BY <1>6
  <2>6. bench(other) = bench(args)
    BY <1>3
  <2>7. strategy(other) = strategy(args)
    BY <1>5
  <2>8. batch(other) = batch(args)
    BY <1>6
  <2>9. interval(other) = interval(args)
    BY <1>6
  <2> HIDE DEF csv, rules, sensors, output, threads, bench, strategy, batch, interval
  <2> QED
    BY <2>1, <2>2, <2>3, <2>4, <2>5, <2>6, <2>7, <2>8, <2>9
<1> HIDE DEF csv, rules, sensors, output, threads, bench, strategy, batch, interval
<1>9. read(other) = read(args)
  BY <1>8
<1> QED
  BY <1>7, <1>9, Zenon

(***************************************************************************)
(* For a command line of any length on which every option appears once and *)
(* has a value of its own, main() makes the same of any other order.       *)
(***************************************************************************)
THEOREM ArgumentsInAnyOrder == Spec => []ArgumentOrderIrrelevant
<1>1. IInv => ArgumentOrderIrrelevant
  <2> SUFFICES ASSUME IInv, Usual(argv), NEW other \in Argvs, Usual(other),
                      GivenOptions(other) = GivenOptions(argv)
               PROVE  Settings(other) = settings
    BY DEF ArgumentOrderIrrelevant
  <2>1. argv \in Seq(STRING) /\ other \in Seq(STRING) /\ settings = Settings(argv)
    BY ArgvsAssumption DEF IInv, TypeOK
  <2> QED
    BY <2>1, SameSettings
<1> QED
  BY <1>1, InductiveInvariant, PTL
=============================================================================
