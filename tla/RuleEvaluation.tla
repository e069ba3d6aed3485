--------------------------- MODULE RuleEvaluation ---------------------------
(***************************************************************************)
(* Phase 3 of the pipeline: evaluate_rules_parallel of                     *)
(* timestamp_processor.hpp, called once per batch on the PipelineState     *)
(* that carries every sensor's state from one batch to the next.           *)
(*                                                                         *)
(* A team of OpenMP threads shares the sensors out with                    *)
(* schedule(dynamic): a thread takes the next sensor, replays that         *)
(* sensor's readings of the batch in order against the sensor's rules, and *)
(* appends what fires to a list of its own for the reading's timestamp     *)
(* group.  After the barrier one thread concatenates the lists, thread by  *)
(* thread.  One action is one rule applied to one reading by one thread.   *)
(*                                                                         *)
(* The rules of a sensor are one sequence, in the order the three loops of *)
(* the code apply them, and the counter of a STATEFUL rule is indexed by   *)
(* the rule's place in that sequence.  Groups, readings and rules are      *)
(* numbered from 1, sensors and threads from 0 as in the code.             *)
(***************************************************************************)
EXTENDS RulesEngine, SequencesExt

CONSTANTS
    NumSensors,     \* sensors that have a token: 0 .. NumSensors - 1
    NumThreads,     \* omp_get_max_threads()
    SensorRules,    \* sensor token -> its rules, in evaluation order
    Calls,          \* the batches a call may be given, after phases 1 and 2
    MaxCalls        \* bound: calls in one behaviour

Tokens   == 0 .. (NumSensors - 1)
Threads  == 0 .. (NumThreads - 1)
NoSensor == -1
NoThread == -1

StatefulSlots(s) ==
    {j \in 1 .. Len(SensorRules[s]) : SensorRules[s][j].type = "STATEFUL"}

Reading == [sensor_token : Tokens \cup {NoSensor}, value : Value]

(***************************************************************************)
(* The arguments of a call: the readings of each timestamp group, and for  *)
(* each sensor the places <<group, reading>> of its readings, in order.    *)
(***************************************************************************)
Call == [groups : Seq(Seq(Reading)), sensor_sequences : [Tokens -> Seq(Nat \X Nat)]]

Precedes(a, b) == a[1] < b[1] \/ (a[1] = b[1] /\ a[2] < b[2])

IsReadingOf(c, s, place) ==
    /\ place[1] \in 1 .. Len(c.groups)
    /\ place[2] \in 1 .. Len(c.groups[place[1]])
    /\ c.groups[place[1]][place[2]].sensor_token = s

WellFormedCall(c) ==
    \A s \in Tokens :
        LET seq == c.sensor_sequences[s] IN
        /\ \A p \in 1 .. Len(seq) : IsReadingOf(c, s, seq[p])
        /\ \A p, q \in 1 .. Len(seq) : p < q => Precedes(seq[p], seq[q])
        /\ \A g \in 1 .. Len(c.groups) : \A r \in 1 .. Len(c.groups[g]) :
              c.groups[g][r].sensor_token = s
                  => \E p \in 1 .. Len(seq) : seq[p] = <<g, r>>

ASSUME SizeAssumption ==
    /\ NumSensors \in Nat
    /\ NumThreads \in Nat \ {0}
    /\ MaxCalls \in Nat

ASSUME RulesAssumption == SensorRules \in [Tokens -> Seq(Rule)]

ASSUME CallsAssumption ==
    \A c \in Calls : c \in Call /\ WellFormedCall(c)

VARIABLES
    phase,              \* "idle" | "parallel" | "merge"
    calls,              \* calls started so far
    call,               \* the arguments of the current or the last call
    initialized,        \* PipelineState::initialized
    sensor_states,      \* PipelineState::sensor_states
    next_sensor,        \* the first sensor no thread has taken
    owner,              \* history: the thread that took each sensor
    worker,             \* each thread's sensor, place in its loops and state
    thread_violations,  \* thread -> group -> what the thread found
    merged,             \* threads whose lists are in result
    result,             \* group -> the violations the call returns
    timeline            \* history: all values of each sensor, this call's too

vars == <<phase, calls, call, initialized, sensor_states, next_sensor, owner,
          worker, thread_violations, merged, result, timeline>>

SensorState(s) ==
    [has_previous : BOOLEAN,
     previous_value : Value,
     consecutive_violations : [StatefulSlots(s) -> Nat]]

FreshState(s) ==
    [has_previous |-> FALSE,
     previous_value |-> 0,
     consecutive_violations |-> [j \in StatefulSlots(s) |-> 0]]

IdleWorker == [sensor |-> NoSensor]

Groups         == 1 .. Len(call.groups)
Sequence(s)    == call.sensor_sequences[s]
GroupOf(s, p)  == Sequence(s)[p][1]
ValueIn(c, s, p) ==
    LET place == c.sensor_sequences[s][p] IN c.groups[place[1]][place[2]].value
ValueOf(s, p)  == ValueIn(call, s, p)

(* How many values a sensor had reported before this call. *)
Base(s) == Len(timeline[s]) - Len(Sequence(s))

(***************************************************************************)
(* A RuleViolation: the rule (by its place among the sensor's rules), the  *)
(* sensor and the value, and, as history, the place of the reading in its  *)
(* group.                                                                  *)
(***************************************************************************)
Violation(s, p, j) ==
    [sensor_token |-> s,
     rule |-> j,
     value |-> ValueOf(s, p),
     reading |-> Sequence(s)[p][2]]
-----------------------------------------------------------------------------
Init ==
    /\ phase = "idle"
    /\ calls = 0
    /\ call = [groups |-> << >>, sensor_sequences |-> [s \in Tokens |-> << >>]]
    /\ initialized = FALSE
    /\ sensor_states = << >>
    /\ next_sensor = 0
    /\ owner = [s \in Tokens |-> NoThread]
    /\ worker = [t \in Threads |-> IdleWorker]
    /\ thread_violations = [t \in Threads |-> << >>]
    /\ merged = NumThreads
    /\ result = << >>
    /\ timeline = [s \in Tokens |-> << >>]

(* PipelineState::initialize: only the first batch starts from nothing. *)
Initialized(states) ==
    IF initialized THEN states ELSE [s \in Tokens |-> FreshState(s)]

(* process_pipeline calls evaluate_rules_parallel on a batch. *)
StartCall(c) ==
    /\ phase = "idle"
    /\ calls < MaxCalls
    /\ phase' = "parallel"
    /\ calls' = calls + 1
    /\ call' = c
    /\ initialized' = TRUE
    /\ sensor_states' = Initialized(sensor_states)
    /\ next_sensor' = 0
    /\ owner' = [s \in Tokens |-> NoThread]
    /\ worker' = [t \in Threads |-> IdleWorker]
    /\ thread_violations' = [t \in Threads |-> [g \in 1 .. Len(c.groups) |-> << >>]]
    /\ merged' = 0
    /\ result' = [g \in 1 .. Len(c.groups) |-> << >>]
    /\ timeline' = [s \in Tokens |->
                       timeline[s] \o [p \in 1 .. Len(c.sensor_sequences[s]) |->
                                          ValueIn(c, s, p)]]

(***************************************************************************)
(* The parallel region.                                                    *)
(***************************************************************************)
(* Mutant of LoadState: the state of earlier batches is ignored. *)
LoadFreshState(s) == FreshState(s)

LoadState(s) == IF initialized THEN sensor_states[s] ELSE FreshState(s)

(* Mutant of TakeSensor: the shared counter may lose an update. *)
TakeSensorRacy(t) ==
    /\ phase = "parallel"
    /\ worker[t].sensor = NoSensor
    /\ next_sensor < NumSensors
    /\ next_sensor' \in {next_sensor, next_sensor + 1}
    /\ owner' = [owner EXCEPT ![next_sensor] = t]
    /\ worker' = IF Sequence(next_sensor) = << >>
                 THEN worker
                 ELSE [worker EXCEPT ![t] =
                          [sensor |-> next_sensor, reading |-> 1, rule |-> 1,
                           state |-> LoadState(next_sensor)]]
    /\ UNCHANGED <<phase, calls, call, initialized, sensor_states,
                   thread_violations, merged, result, timeline>>

(* Mutant of TakeSensor: a sensor without readings is never left behind. *)
TakeSensorStuck(t) ==
    /\ phase = "parallel"
    /\ worker[t].sensor = NoSensor
    /\ next_sensor < NumSensors
    /\ owner' = [owner EXCEPT ![next_sensor] = t]
    /\ IF Sequence(next_sensor) = << >>
       THEN UNCHANGED <<next_sensor, worker>>
       ELSE /\ next_sensor' = next_sensor + 1
            /\ worker' = [worker EXCEPT ![t] =
                             [sensor |-> next_sensor, reading |-> 1, rule |-> 1,
                              state |-> LoadState(next_sensor)]]
    /\ UNCHANGED <<phase, calls, call, initialized, sensor_states,
                   thread_violations, merged, result, timeline>>

(* An idle thread takes the next sensor; one without readings is skipped. *)
TakeSensor(t) ==
    /\ phase = "parallel"
    /\ worker[t].sensor = NoSensor
    /\ next_sensor < NumSensors
    /\ next_sensor' = next_sensor + 1
    /\ owner' = [owner EXCEPT ![next_sensor] = t]
    /\ worker' = IF Sequence(next_sensor) = << >>
                 THEN worker
                 ELSE [worker EXCEPT ![t] =
                          [sensor |-> next_sensor, reading |-> 1, rule |-> 1,
                           state |-> LoadState(next_sensor)]]
    /\ UNCHANGED <<phase, calls, call, initialized, sensor_states,
                   thread_violations, merged, result, timeline>>

RuleFires(value, state, rule, slot) ==
    \/ rule.type = "THRESHOLD" /\ evaluate_threshold(value, rule)
    \/ rule.type = "STEP_DIFF" /\ evaluate_step_diff(value, state, rule)
    \/ rule.type = "STATEFUL"  /\ evaluate_stateful(value, state, rule, slot)

StateAfterRule(value, state, rule, slot) ==
    IF rule.type = "STATEFUL"
    THEN [state EXCEPT !.consecutive_violations[slot] =
             NextCount(value, state, rule, slot)]
    ELSE state

(* A thread applies the next rule of its sensor to the current reading. *)
EvaluateRule(t) ==
    /\ phase = "parallel"
    /\ worker[t].sensor # NoSensor
    /\ LET s     == worker[t].sensor
           p     == worker[t].reading
           j     == worker[t].rule
           rule  == SensorRules[s][j]
           state == worker[t].state
           value == ValueOf(s, p)
       IN  /\ p <= Len(Sequence(s))
           /\ j <= Len(SensorRules[s])
           /\ thread_violations' =
                IF RuleFires(value, state, rule, j)
                THEN [thread_violations EXCEPT ![t][GroupOf(s, p)] =
                         Append(@, Violation(s, p, j))]
                ELSE thread_violations
           /\ worker' = [worker EXCEPT ![t] =
                            [sensor |-> s, reading |-> p, rule |-> j + 1,
                             state |-> StateAfterRule(value, state, rule, j)]]
    /\ UNCHANGED <<phase, calls, call, initialized, sensor_states, next_sensor,
                   owner, merged, result, timeline>>

(* Mutant of Remember: has_previous is never set. *)
RememberValueOnly(value, state) == [state EXCEPT !.previous_value = value]

Remember(value, state) ==
    [state EXCEPT !.previous_value = value, !.has_previous = TRUE]

(* All rules applied: the reading becomes the sensor's previous reading. *)
NextReading(t) ==
    /\ phase = "parallel"
    /\ worker[t].sensor # NoSensor
    /\ LET s == worker[t].sensor
           p == worker[t].reading
       IN  /\ p <= Len(Sequence(s))
           /\ worker[t].rule > Len(SensorRules[s])
           /\ worker' = [worker EXCEPT ![t] =
                            [sensor |-> s, reading |-> p + 1, rule |-> 1,
                             state |-> Remember(ValueOf(s, p), worker[t].state)]]
    /\ UNCHANGED <<phase, calls, call, initialized, sensor_states, next_sensor,
                   owner, thread_violations, merged, result, timeline>>

(* Mutant of WriteBack: the thread's copy of the state is dropped. *)
DropState(t) ==
    /\ phase = "parallel"
    /\ worker[t].sensor # NoSensor
    /\ worker[t].reading > Len(Sequence(worker[t].sensor))
    /\ worker' = [worker EXCEPT ![t] = IdleWorker]
    /\ UNCHANGED <<phase, calls, call, initialized, sensor_states, next_sensor,
                   owner, thread_violations, merged, result, timeline>>

(* All readings replayed: the state goes back to the PipelineState. *)
WriteBack(t) ==
    /\ phase = "parallel"
    /\ worker[t].sensor # NoSensor
    /\ worker[t].reading > Len(Sequence(worker[t].sensor))
    /\ sensor_states' =
          [sensor_states EXCEPT ![worker[t].sensor] = worker[t].state]
    /\ worker' = [worker EXCEPT ![t] = IdleWorker]
    /\ UNCHANGED <<phase, calls, call, initialized, next_sensor, owner,
                   thread_violations, merged, result, timeline>>

(* The barrier at the end of the parallel region. *)
EndParallel ==
    /\ phase = "parallel"
    /\ next_sensor = NumSensors
    /\ \A t \in Threads : worker[t].sensor = NoSensor
    /\ phase' = "merge"
    /\ UNCHANGED <<calls, call, initialized, sensor_states, next_sensor, owner,
                   worker, thread_violations, merged, result, timeline>>

(***************************************************************************)
(* The sequential merge of the threads' lists, and the return.             *)
(***************************************************************************)
MergeThread ==
    /\ phase = "merge"
    /\ merged < NumThreads
    /\ merged' = merged + 1
    /\ result' = [g \in Groups |-> result[g] \o thread_violations[merged][g]]
    /\ UNCHANGED <<phase, calls, call, initialized, sensor_states, next_sensor,
                   owner, worker, thread_violations, timeline>>

Return ==
    /\ phase = "merge"
    /\ merged = NumThreads
    /\ phase' = "idle"
    /\ UNCHANGED <<calls, call, initialized, sensor_states, next_sensor, owner,
                   worker, thread_violations, merged, result, timeline>>

(* The input is exhausted: the program makes no further call. *)
NoMoreCalls ==
    /\ phase = "idle"
    /\ calls = MaxCalls
    /\ UNCHANGED vars

ThreadStep(t) ==
    \/ TakeSensor(t)
    \/ EvaluateRule(t)
    \/ NextReading(t)
    \/ WriteBack(t)

Next ==
    \/ \E c \in Calls : StartCall(c)
    \/ \E t \in Threads : ThreadStep(t)
    \/ EndParallel
    \/ MergeThread
    \/ Return
    \/ NoMoreCalls

Spec == Init /\ [][Next]_vars

(***************************************************************************)
(* The operating system runs every thread of the team, and the main thread *)
(* after the barrier.  Nothing obliges the program to start a call.        *)
(***************************************************************************)
Fairness ==
    /\ \A t \in Threads : WF_vars(ThreadStep(t))
    /\ WF_vars(EndParallel \/ MergeThread \/ Return)

FairSpec == Spec /\ Fairness
-----------------------------------------------------------------------------
(***************************************************************************)
(* Type invariant.                                                         *)
(***************************************************************************)
ActiveWorker(s) ==
    [sensor : {s},
     reading : 1 .. (Len(Sequence(s)) + 1),
     rule : 1 .. (Len(SensorRules[s]) + 1),
     state : SensorState(s)]

ViolationType ==
    [sensor_token : Tokens, rule : Nat, value : Value, reading : Nat]

(* Every variable keeps its type, the threads' states and lists included. *)
TypeOK ==
    /\ phase \in {"idle", "parallel", "merge"}
    /\ calls \in 0 .. MaxCalls
    /\ call \in Call /\ WellFormedCall(call)
    /\ initialized \in BOOLEAN
    /\ calls = 0 \/ initialized
    /\ initialized => /\ DOMAIN sensor_states = Tokens
                      /\ \A s \in Tokens : sensor_states[s] \in SensorState(s)
    /\ next_sensor \in 0 .. NumSensors
    /\ owner \in [Tokens -> Threads \cup {NoThread}]
    /\ DOMAIN worker = Threads
    /\ \A t \in Threads :
          \/ worker[t] = IdleWorker
          \/ \E s \in Tokens : worker[t] \in ActiveWorker(s)
    /\ thread_violations \in [Threads -> [Groups -> Seq(ViolationType)]]
    /\ merged \in 0 .. NumThreads
    /\ result \in [Groups -> Seq(ViolationType)]
    /\ timeline \in [Tokens -> Seq(Value)]
    /\ phase = "idle" \/ initialized

(***************************************************************************)
(* The place <<p, j>> of sensor s holds a violation: its j-th rule fires   *)
(* at the p-th reading of this call, judged on the sensor's whole history. *)
(***************************************************************************)
Expected(s, p, j) ==
    /\ p \in 1 .. Len(Sequence(s))
    /\ j \in 1 .. Len(SensorRules[s])
    /\ Fires(SensorRules[s][j], timeline[s], Base(s) + p)

Returned == phase = "idle"

(***************************************************************************)
(* What a call returns under a timestamp is a violation of that timestamp: *)
(* a rule of the sensor fires there, given everything the sensor reported  *)
(* since the program started, in earlier batches too.  No schedule of the  *)
(* threads and no cut into batches raises a false alarm.                   *)
(***************************************************************************)
IsExpected(v, g) ==
    \E s \in Tokens : \E p \in 1 .. Len(Sequence(s)) : \E j \in 1 .. Len(SensorRules[s]) :
        Expected(s, p, j) /\ GroupOf(s, p) = g /\ v = Violation(s, p, j)

NoFalseAlarm ==
    Returned => \A g \in Groups : \A v \in ToSet(result[g]) : IsExpected(v, g)

(* ... and no violation is lost, whichever thread found it. *)
NoMissedAlarm ==
    Returned =>
        \A s \in Tokens : \A p \in 1 .. Len(Sequence(s)) : \A j \in 1 .. Len(SensorRules[s]) :
            Expected(s, p, j) => Violation(s, p, j) \in ToSet(result[GroupOf(s, p)])

(***************************************************************************)
(* The violations of one sensor are returned in the order of its readings  *)
(* and, at one reading, of its rules, each once: where the threads append  *)
(* them and how the lists are merged never shows within a sensor.          *)
(***************************************************************************)
Follows(v, w) == v.reading < w.reading \/ (v.reading = w.reading /\ v.rule < w.rule)

SensorOrder(violations) ==
    \A i, k \in 1 .. Len(violations) :
        i < k /\ violations[i].sensor_token = violations[k].sensor_token
            => Follows(violations[i], violations[k])

AlarmsInReadingOrder == Returned => \A g \in Groups : SensorOrder(result[g])

(***************************************************************************)
(* Between calls every sensor's state is a summary of its whole history:   *)
(* its last value, and for each STATEFUL rule the length of the run of     *)
(* violations the history ends with.                                       *)
(***************************************************************************)
Summarises(state, s, k) ==
    /\ state.has_previous <=> k > 0
    /\ k > 0 => state.previous_value = timeline[s][k]
    /\ \A j \in StatefulSlots(s) :
          MaximalRun(SensorRules[s][j], timeline[s], k,
                     state.consecutive_violations[j])

StateCarriesOver ==
    Returned /\ initialized =>
        \A s \in Tokens : Summarises(sensor_states[s], s, Len(timeline[s]))

-----------------------------------------------------------------------------
(***************************************************************************)
(* The inductive invariant.  Done(s, p, j): rule j has been applied to the *)
(* p-th reading of sensor s, by the thread that took s.                    *)
(***************************************************************************)
Done(s, p, j) ==
    /\ owner[s] # NoThread
    /\ worker[owner[s]].sensor = s
          => Precedes(<<p, j>>, <<worker[owner[s]].reading, worker[owner[s]].rule>>)

(* Sensors are taken in order; a thread that is on a sensor took it; when  *)
(* the region is over nobody works and every sensor with readings is done. *)
DispatchInv ==
    /\ \A s \in Tokens : owner[s] = NoThread <=> s >= next_sensor
    /\ \A t \in Threads : worker[t].sensor # NoSensor
          => /\ phase = "parallel"
             /\ owner[worker[t].sensor] = t
    /\ phase # "parallel"
          => \A s \in Tokens : Sequence(s) # << >> => owner[s] # NoThread
    /\ phase = "parallel" => merged = 0
    /\ phase = "idle" => merged = NumThreads

(* The history ends with the readings of this call. *)
TimelineInv ==
    /\ \A s \in Tokens :
          /\ Len(Sequence(s)) <= Len(timeline[s])
          /\ \A p \in 1 .. Len(Sequence(s)) :
                timeline[s][Base(s) + p] = ValueOf(s, p)
    /\ ~ initialized => \A s \in Tokens : timeline[s] = << >>

(* A thread's private state, and the states in PipelineState. *)
WorkerState(t, s) ==
    LET state == worker[t].state
        k     == Base(s) + worker[t].reading - 1
    IN  /\ worker[t].reading = Len(Sequence(s)) + 1 => worker[t].rule = 1
        /\ state.has_previous <=> k > 0
        /\ k > 0 => state.previous_value = timeline[s][k]
        /\ \A j \in StatefulSlots(s) :
              MaximalRun(SensorRules[s][j], timeline[s],
                         IF j < worker[t].rule THEN k + 1 ELSE k,
                         state.consecutive_violations[j])

StateInv ==
    \A s \in Tokens :
        /\ \A t \in Threads : worker[t].sensor = s => WorkerState(t, s)
        /\ initialized /\ (\A t \in Threads : worker[t].sensor # s)
              => Summarises(sensor_states[s], s,
                            IF owner[s] = NoThread THEN Base(s) ELSE Len(timeline[s]))

(* The threads' lists: a violation is in the list of the thread that took  *)
(* its sensor, exactly when the rule has been applied and fires.           *)
IsFound(v, t, g) ==
    \E s \in Tokens : \E p \in 1 .. Len(Sequence(s)) : \E j \in 1 .. Len(SensorRules[s]) :
        /\ Expected(s, p, j)
        /\ Done(s, p, j)
        /\ GroupOf(s, p) = g
        /\ owner[s] = t
        /\ v = Violation(s, p, j)

FoundIsExpected ==
    \A t \in Threads : \A g \in Groups : \A v \in ToSet(thread_violations[t][g]) :
        IsFound(v, t, g)

ExpectedIsFound ==
    \A s \in Tokens : \A p \in 1 .. Len(Sequence(s)) : \A j \in 1 .. Len(SensorRules[s]) :
        Expected(s, p, j) /\ Done(s, p, j)
            => Violation(s, p, j) \in ToSet(thread_violations[owner[s]][GroupOf(s, p)])

ListsInOrder ==
    \A t \in Threads : \A g \in Groups : SensorOrder(thread_violations[t][g])

(* The result: the lists of the threads merged so far. *)
MergeInv ==
    \A g \in Groups :
        /\ ToSet(result[g]) =
              UNION {ToSet(thread_violations[t][g]) : t \in 0 .. (merged - 1)}
        /\ SensorOrder(result[g])

IInv ==
    /\ TypeOK
    /\ DispatchInv
    /\ TimelineInv
    /\ StateInv
    /\ FoundIsExpected
    /\ ExpectedIsFound
    /\ ListsInOrder
    /\ MergeInv
-----------------------------------------------------------------------------
(***************************************************************************)
(* A call returns: no thread waits for another except at the barrier.      *)
(***************************************************************************)
CallReturns == (phase = "parallel") ~> (phase = "idle")
=============================================================================
