----------------------- MODULE RuleEvaluation_proofs -----------------------
(***************************************************************************)
(* Proofs about RuleEvaluation, for any number of sensors and threads, any *)
(* rules and any batches.                                                  *)
(***************************************************************************)
EXTENDS RuleEvaluation, TLAPS

(***************************************************************************)
(* Lists of violations: what appending and concatenating do to the set of  *)
(* their elements and to their order.                                      *)
(***************************************************************************)
LEMMA ToSetAppend ==
    ASSUME NEW S, NEW L \in Seq(S), NEW v \in S
    PROVE  ToSet(Append(L, v)) = ToSet(L) \cup {v}
<1>1. /\ Len(Append(L, v)) = Len(L) + 1 /\ Len(L) \in Nat
      /\ Append(L, v)[Len(L) + 1] = v
      /\ \A i \in 1 .. Len(L) : Append(L, v)[i] = L[i]
      /\ DOMAIN Append(L, v) = 1 .. (Len(L) + 1)
      /\ DOMAIN L = 1 .. Len(L)
  OBVIOUS
<1>2. \A x \in ToSet(Append(L, v)) : x \in ToSet(L) \/ x = v
  BY <1>1 DEF ToSet
<1>3. \A x \in ToSet(L) : x \in ToSet(Append(L, v))
  BY <1>1 DEF ToSet
<1>4. v \in ToSet(Append(L, v))
  BY <1>1 DEF ToSet
<1> QED
  BY <1>2, <1>3, <1>4

LEMMA ToSetConcat ==
    ASSUME NEW S, NEW L \in Seq(S), NEW M \in Seq(S)
    PROVE  ToSet(L \o M) = ToSet(L) \cup ToSet(M)
<1>1. /\ Len(L \o M) = Len(L) + Len(M) /\ Len(L) \in Nat /\ Len(M) \in Nat
      /\ \A i \in 1 .. Len(L) : (L \o M)[i] = L[i]
      /\ \A i \in 1 .. Len(M) : (L \o M)[Len(L) + i] = M[i]
      /\ DOMAIN (L \o M) = 1 .. (Len(L) + Len(M))
      /\ DOMAIN L = 1 .. Len(L) /\ DOMAIN M = 1 .. Len(M)
  OBVIOUS
<1>2. ASSUME NEW i \in 1 .. (Len(L) + Len(M))
      PROVE  (L \o M)[i] \in ToSet(L) \cup ToSet(M)
  <2>1. CASE i <= Len(L)
    BY <1>1, <2>1 DEF ToSet
  <2>2. CASE i > Len(L)
    <3>1. i - Len(L) \in 1 .. Len(M) /\ i = Len(L) + (i - Len(L))
      BY <1>1, <2>2
    <3>2. (L \o M)[i] = M[i - Len(L)]
      BY <1>1, <3>1
    <3> QED
      BY <1>1, <3>1, <3>2 DEF ToSet
  <2> QED
    BY <1>1, <2>1, <2>2
<1>3. \A x \in ToSet(L) : x \in ToSet(L \o M)
  BY <1>1 DEF ToSet
<1>4. ASSUME NEW i \in 1 .. Len(M) PROVE M[i] \in ToSet(L \o M)
  <2>1. Len(L) + i \in 1 .. (Len(L) + Len(M))
    BY <1>1
  <2> QED
    BY <1>1, <2>1 DEF ToSet
<1> QED
  BY <1>1, <1>2, <1>3, <1>4 DEF ToSet

LEMMA ConcatFacts ==
    ASSUME NEW S, NEW a \in Seq(S), NEW b \in Seq(S)
    PROVE  /\ Len(a \o b) = Len(a) + Len(b)
           /\ \A i \in 1 .. Len(a) : (a \o b)[i] = a[i]
           /\ \A i \in 1 .. Len(b) : (a \o b)[Len(a) + i] = b[i]
  OBVIOUS

LEMMA AppendInOrder ==
    ASSUME NEW S, NEW L \in Seq(S), NEW v \in S, SensorOrder(L),
           \A x \in ToSet(L) : x.sensor_token = v.sensor_token => Follows(x, v)
    PROVE  SensorOrder(Append(L, v))
<1>1. /\ Len(Append(L, v)) = Len(L) + 1 /\ Len(L) \in Nat
      /\ Append(L, v)[Len(L) + 1] = v
      /\ \A i \in 1 .. Len(L) : Append(L, v)[i] = L[i] /\ L[i] \in ToSet(L)
  BY DEF ToSet
<1> SUFFICES ASSUME NEW i \in 1 .. (Len(L) + 1), NEW k \in 1 .. (Len(L) + 1), i < k,
                    Append(L, v)[i].sensor_token = Append(L, v)[k].sensor_token
             PROVE  Follows(Append(L, v)[i], Append(L, v)[k])
  BY <1>1 DEF SensorOrder
<1>2. i \in 1 .. Len(L) /\ Append(L, v)[i] = L[i]
  BY <1>1
<1>3. CASE k = Len(L) + 1
  BY <1>1, <1>2, <1>3
<1>4. CASE k # Len(L) + 1
  <2>1. k \in 1 .. Len(L) /\ Append(L, v)[k] = L[k]
    BY <1>1, <1>4
  <2> QED
    BY <1>2, <2>1 DEF SensorOrder
<1> QED
  BY <1>3, <1>4

LEMMA ConcatInOrder ==
    ASSUME NEW S, NEW L \in Seq(S), NEW M \in Seq(S), SensorOrder(L), SensorOrder(M),
           \A x \in ToSet(L), y \in ToSet(M) : x.sensor_token # y.sensor_token
    PROVE  SensorOrder(L \o M)
<1>1. /\ Len(L \o M) = Len(L) + Len(M) /\ Len(L) \in Nat /\ Len(M) \in Nat
      /\ \A i \in 1 .. Len(L) : (L \o M)[i] = L[i] /\ L[i] \in ToSet(L)
      /\ \A i \in 1 .. Len(M) : (L \o M)[Len(L) + i] = M[i] /\ M[i] \in ToSet(M)
  BY DEF ToSet
<1> SUFFICES ASSUME NEW i \in 1 .. (Len(L) + Len(M)), NEW k \in 1 .. (Len(L) + Len(M)),
                    i < k, (L \o M)[i].sensor_token = (L \o M)[k].sensor_token
             PROVE  Follows((L \o M)[i], (L \o M)[k])
  BY <1>1 DEF SensorOrder
<1>2. CASE k <= Len(L)
  <2>1. /\ i \in 1 .. Len(L) /\ (L \o M)[i] = L[i]
        /\ k \in 1 .. Len(L) /\ (L \o M)[k] = L[k]
    BY <1>1, <1>2
  <2> QED
    BY <2>1 DEF SensorOrder
<1>3. CASE i > Len(L)
  <2>1. PICK a \in 1 .. Len(M) : i = Len(L) + a /\ (L \o M)[i] = M[a]
    <3>1. i - Len(L) \in 1 .. Len(M) /\ i = Len(L) + (i - Len(L))
      BY <1>1, <1>3
    <3> QED
      BY <1>1, <3>1
  <2>2. PICK b \in 1 .. Len(M) : k = Len(L) + b /\ (L \o M)[k] = M[b]
    <3>1. k - Len(L) \in 1 .. Len(M) /\ k = Len(L) + (k - Len(L))
      BY <1>1, <1>3
    <3> QED
      BY <1>1, <3>1
  <2>3. a < b
    BY <1>1, <2>1, <2>2
  <2> QED
    BY <2>1, <2>2, <2>3 DEF SensorOrder
<1>4. CASE i <= Len(L) /\ k > Len(L)
  <2>1. (L \o M)[i] \in ToSet(L)
    BY <1>1, <1>4
  <2>2. k - Len(L) \in 1 .. Len(M) /\ k = Len(L) + (k - Len(L))
    BY <1>1, <1>4
  <2>3. (L \o M)[k] \in ToSet(M)
    BY <1>1, <2>2
  <2> QED
    BY <2>1, <2>3
<1> QED
  BY <1>1, <1>2, <1>3, <1>4

(* The counter of a STATEFUL rule stays a natural number. *)
LEMMA StateAfterRuleType ==
    ASSUME NEW s \in Tokens, NEW j \in 1 .. Len(SensorRules[s]),
           NEW state \in SensorState(s), NEW value \in Value
    PROVE  StateAfterRule(value, state, SensorRules[s][j], j) \in SensorState(s)
<1>1. CASE SensorRules[s][j].type = "STATEFUL"
  <2>1. j \in StatefulSlots(s)
    BY <1>1 DEF StatefulSlots
  <2>2. NextCount(value, state, SensorRules[s][j], j) \in Nat
    BY <2>1 DEF NextCount, SensorState
  <2> QED
    BY <1>1, <2>1, <2>2 DEF StateAfterRule, SensorState
<1>2. CASE SensorRules[s][j].type # "STATEFUL"
  BY <1>2 DEF StateAfterRule
<1> QED
  BY <1>1, <1>2

(* The value of a place of a call's sensor_sequences. *)
LEMMA ValueInType ==
    ASSUME NEW c \in Call, WellFormedCall(c), NEW s \in Tokens,
           NEW p \in 1 .. Len(c.sensor_sequences[s])
    PROVE  /\ ValueIn(c, s, p) \in Value
           /\ c.sensor_sequences[s][p][1] \in 1 .. Len(c.groups)
           /\ c.sensor_sequences[s][p][2] \in Nat
<1> DEFINE place == c.sensor_sequences[s][p]
<1>1. IsReadingOf(c, s, place)
  BY DEF WellFormedCall
<1>2. place \in Nat \X Nat
  BY DEF Call
<1>3. /\ place[1] \in 1 .. Len(c.groups)
      /\ place[2] \in 1 .. Len(c.groups[place[1]])
  BY <1>1 DEF IsReadingOf
<1>4. c.groups \in Seq(Seq(Reading))
  BY DEF Call
<1>5. c.groups[place[1]] \in Seq(Reading)
  BY <1>3, <1>4
<1>6. c.groups[place[1]][place[2]] \in Reading
  <2> DEFINE g == c.groups[place[1]]
  <2>1. g \in Seq(Reading) /\ place[2] \in 1 .. Len(g)
    BY <1>3, <1>5
  <2> HIDE DEF g, place
  <2>2. g[place[2]] \in Reading
    BY <2>1
  <2> QED
    BY <2>2 DEF g
<1>7. ValueIn(c, s, p) \in Value
  BY <1>6 DEF ValueIn, Reading
<1> QED
  BY <1>2, <1>3, <1>7

LEMMA InitType == Init => TypeOK
<1> SUFFICES ASSUME Init PROVE TypeOK
  OBVIOUS
<1>1. call \in Call /\ Len(call.groups) = 0 /\ WellFormedCall(call)
  BY DEF Init, Call, WellFormedCall
<1>2. Groups = {}
  BY <1>1 DEF Groups
<1>3. thread_violations \in [Threads -> [Groups -> Seq(ViolationType)]]
  BY <1>2 DEF Init
<1>4. result \in [Groups -> Seq(ViolationType)]
  BY <1>2 DEF Init
<1>5. timeline \in [Tokens -> Seq(Value)]
  BY DEF Init
<1>6. owner \in [Tokens -> Threads \cup {NoThread}]
  BY DEF Init
<1>7. /\ DOMAIN worker = Threads
      /\ \A t \in Threads : worker[t] = IdleWorker
  BY DEF Init
<1>8. /\ calls \in 0 .. MaxCalls
      /\ next_sensor \in 0 .. NumSensors
      /\ merged \in 0 .. NumThreads
      /\ phase = "idle"
      /\ calls = 0
  BY SizeAssumption DEF Init
<1>9. initialized \in BOOLEAN /\ ~ initialized
  BY DEF Init
<1> QED
  BY <1>1, <1>3, <1>4, <1>5, <1>6, <1>7, <1>8, <1>9 DEF TypeOK

(* A thread that is on a sensor, and what TypeOK says of it. *)
LEMMA BusyWorker ==
    ASSUME TypeOK, NEW t \in Threads, worker[t].sensor # NoSensor
    PROVE  /\ worker[t].sensor \in Tokens
           /\ worker[t] \in ActiveWorker(worker[t].sensor)
           /\ worker[t].reading \in Nat \ {0}
           /\ worker[t].rule \in Nat \ {0}
           /\ worker[t].state \in SensorState(worker[t].sensor)
<1>1. worker[t] # IdleWorker
  BY DEF IdleWorker
<1>2. PICK s \in Tokens : worker[t] \in ActiveWorker(s)
  BY <1>1 DEF TypeOK
<1>3. worker[t].sensor = s
  BY <1>2 DEF ActiveWorker
<1>4. worker[t].reading \in Nat \ {0} /\ worker[t].rule \in Nat \ {0}
  BY <1>2 DEF ActiveWorker
<1>5. worker[t].state \in SensorState(s)
  BY <1>2 DEF ActiveWorker
<1> QED
  BY <1>2, <1>3, <1>4, <1>5

LEMMA StartCallType ==
    ASSUME TypeOK, NEW c \in Call, WellFormedCall(c), StartCall(c)
    PROVE  TypeOK'
<1>1. call' = c /\ c \in Call /\ WellFormedCall(c)
  BY DEF StartCall
<1>2. (call \in Call /\ WellFormedCall(call))'
  BY <1>1 DEF WellFormedCall, IsReadingOf
<1>3. \A s \in Tokens : FreshState(s) \in SensorState(s)
  BY DEF FreshState, SensorState, Value
<1>4. DOMAIN sensor_states' = Tokens /\ \A s \in Tokens : sensor_states'[s] \in SensorState(s)
  <2>1. CASE initialized
    BY <2>1 DEF StartCall, Initialized, TypeOK
  <2>2. CASE ~ initialized
    BY <2>2, <1>3 DEF StartCall, Initialized
  <2> QED
    BY <2>1, <2>2
<1>5. /\ thread_violations' \in [Threads -> [Groups' -> Seq(ViolationType)]]
      /\ result' \in [Groups' -> Seq(ViolationType)]
  BY <1>1 DEF StartCall, Groups
<1>6. timeline' \in [Tokens -> Seq(Value)]
  <2> SUFFICES ASSUME NEW s \in Tokens
               PROVE  timeline[s] \o [p \in 1 .. Len(c.sensor_sequences[s]) |->
                                          ValueIn(c, s, p)] \in Seq(Value)
    BY DEF StartCall
  <2>1. \A p \in 1 .. Len(c.sensor_sequences[s]) : ValueIn(c, s, p) \in Value
    BY <1>1, ValueInType
  <2>2. Len(c.sensor_sequences[s]) \in Nat
    BY <1>1 DEF Call
  <2>3. [p \in 1 .. Len(c.sensor_sequences[s]) |-> ValueIn(c, s, p)] \in Seq(Value)
    BY <2>1, <2>2
  <2>4. timeline[s] \in Seq(Value)
    BY DEF TypeOK
  <2> QED
    BY <2>3, <2>4
<1>7. /\ DOMAIN worker' = Threads
      /\ \A t \in Threads : worker'[t] = IdleWorker
      /\ owner' \in [Tokens -> Threads \cup {NoThread}]
  BY DEF StartCall, IdleWorker
<1>8. /\ calls' \in 0 .. MaxCalls
      /\ next_sensor' \in 0 .. NumSensors
      /\ merged' \in 0 .. NumThreads
      /\ phase' = "parallel"
  BY SizeAssumption DEF StartCall, TypeOK
<1>9. initialized' \in BOOLEAN /\ initialized'
  BY DEF StartCall
<1> QED
  BY <1>2, <1>4, <1>5, <1>6, <1>7, <1>8, <1>9 DEF TypeOK

(* What depends on the call alone keeps its type while the call lasts. *)
LEMMA CallFrame ==
    ASSUME TypeOK, UNCHANGED call
    PROVE  /\ (call \in Call /\ WellFormedCall(call))'
           /\ Groups' = Groups
           /\ \A s \in Tokens : ActiveWorker(s)' = ActiveWorker(s)
<1>1. call \in Call /\ WellFormedCall(call)
  BY DEF TypeOK
<1>2. (call \in Call)' /\ WellFormedCall(call)'
  BY <1>1 DEF WellFormedCall, IsReadingOf
<1>3. \A s \in Tokens : ActiveWorker(s)' = ActiveWorker(s)
  BY DEF ActiveWorker, Sequence
<1> QED
  BY <1>2, <1>3 DEF Groups

LEMMA TakeSensorType ==
    ASSUME TypeOK, NEW t \in Threads, TakeSensor(t)
    PROVE  TypeOK'
<1> DEFINE s == next_sensor
           w == [sensor |-> s, reading |-> 1, rule |-> 1, state |-> LoadState(s)]
<1>1. s \in Tokens /\ next_sensor' \in 0 .. NumSensors
  BY SizeAssumption DEF TakeSensor, TypeOK, Tokens
<1>2. LoadState(s) \in SensorState(s)
  BY <1>1 DEF TakeSensor, TypeOK, LoadState
<1>3. Len(Sequence(s)) \in Nat /\ Len(SensorRules[s]) \in Nat
  BY <1>1, RulesAssumption DEF TypeOK, Call, Sequence
<1>4. w \in ActiveWorker(s)
  BY <1>2, <1>3 DEF ActiveWorker
<1>5. /\ DOMAIN worker' = Threads
      /\ \A u \in Threads : \/ worker'[u] = IdleWorker
                            \/ \E z \in Tokens : worker'[u] \in ActiveWorker(z)
  BY <1>1, <1>4 DEF TakeSensor, TypeOK
<1>6. owner' \in [Tokens -> Threads \cup {NoThread}]
  BY DEF TakeSensor, TypeOK
<1>7. UNCHANGED <<phase, calls, call, initialized, sensor_states,
                  thread_violations, merged, result, timeline>>
  BY DEF TakeSensor
<1>8. /\ (call \in Call /\ WellFormedCall(call))'
      /\ Groups' = Groups
      /\ \A z \in Tokens : ActiveWorker(z)' = ActiveWorker(z)
  BY <1>7, CallFrame
<1> QED
  BY <1>1, <1>5, <1>6, <1>7, <1>8 DEF TypeOK

(* The violation a busy thread may append is well typed. *)
LEMMA ViolationOk ==
    ASSUME TypeOK, NEW s \in Tokens, NEW p \in 1 .. Len(Sequence(s)), NEW j \in Nat
    PROVE  /\ Violation(s, p, j) \in ViolationType
           /\ ValueOf(s, p) \in Value
           /\ GroupOf(s, p) \in Groups
<1>1. /\ ValueIn(call, s, p) \in Value
      /\ call.sensor_sequences[s][p][1] \in 1 .. Len(call.groups)
      /\ call.sensor_sequences[s][p][2] \in Nat
  BY ValueInType DEF TypeOK, Sequence
<1> QED
  BY <1>1 DEF Violation, ViolationType, ValueOf, GroupOf, Groups, Sequence

LEMMA EvaluateRuleType ==
    ASSUME TypeOK, NEW t \in Threads, EvaluateRule(t)
    PROVE  TypeOK'
<1> DEFINE s == worker[t].sensor
           p == worker[t].reading
           j == worker[t].rule
           v == Violation(s, p, j)
           g == GroupOf(s, p)
           w == [sensor |-> s, reading |-> p, rule |-> j + 1,
                 state |-> StateAfterRule(ValueOf(s, p), worker[t].state,
                                          SensorRules[s][j], j)]
<1>1. /\ s \in Tokens
      /\ worker[t] \in ActiveWorker(s)
      /\ worker[t].state \in SensorState(s)
      /\ p \in Nat \ {0} /\ j \in Nat \ {0}
  BY BusyWorker DEF EvaluateRule
<1>2. Len(Sequence(s)) \in Nat /\ Len(SensorRules[s]) \in Nat
  BY <1>1, RulesAssumption DEF TypeOK, Call, Sequence
<1>3. p \in 1 .. Len(Sequence(s)) /\ j \in 1 .. Len(SensorRules[s])
  BY <1>1, <1>2 DEF EvaluateRule
<1>4. v \in ViolationType /\ ValueOf(s, p) \in Value /\ g \in Groups
  BY <1>1, <1>3, ViolationOk
<1>5. w.state \in SensorState(s)
  BY <1>1, <1>3, <1>4, StateAfterRuleType
<1>6. w \in ActiveWorker(s)
  BY <1>1, <1>2, <1>3, <1>5 DEF ActiveWorker
<1>7. worker' = [worker EXCEPT ![t] = w]
  BY DEF EvaluateRule
<1>8. /\ DOMAIN worker' = Threads
      /\ \A u \in Threads : \/ worker'[u] = IdleWorker
                            \/ \E z \in Tokens : worker'[u] \in ActiveWorker(z)
  BY <1>1, <1>6, <1>7 DEF TypeOK
<1>9. thread_violations' \in [Threads -> [Groups -> Seq(ViolationType)]]
  <2>1. \/ thread_violations' = thread_violations
        \/ thread_violations' = [thread_violations EXCEPT ![t][g] = Append(@, v)]
    BY DEF EvaluateRule
  <2>2. thread_violations \in [Threads -> [Groups -> Seq(ViolationType)]]
    BY DEF TypeOK
  <2>3. Append(thread_violations[t][g], v) \in Seq(ViolationType)
    BY <1>4, <2>2
  <2> QED
    <3>1. CASE thread_violations' = thread_violations
      BY <2>2, <3>1
    <3>2. CASE thread_violations' = [thread_violations EXCEPT ![t][g] = Append(@, v)]
      <4>1. thread_violations[t] \in [Groups -> Seq(ViolationType)]
        BY <2>2
      <4>2. [thread_violations[t] EXCEPT ![g] = Append(@, v)] \in [Groups -> Seq(ViolationType)]
        BY <2>3, <4>1
      <4>3. thread_violations' = [thread_violations EXCEPT ![t] =
                                     [thread_violations[t] EXCEPT ![g] = Append(@, v)]]
        BY <3>2, <2>2, <4>1
      <4> HIDE DEF v, g
      <4> QED
        BY <2>2, <4>2, <4>3
    <3> QED
      BY <2>1, <3>1, <3>2
<1>10. UNCHANGED <<phase, calls, call, initialized, sensor_states, next_sensor,
                   owner, merged, result, timeline>>
  BY DEF EvaluateRule
<1>11. /\ (call \in Call /\ WellFormedCall(call))'
      /\ Groups' = Groups
      /\ \A z \in Tokens : ActiveWorker(z)' = ActiveWorker(z)
  BY <1>10, CallFrame
<1> QED
  BY <1>8, <1>9, <1>10, <1>11 DEF TypeOK

LEMMA NextReadingType ==
    ASSUME TypeOK, NEW t \in Threads, NextReading(t)
    PROVE  TypeOK'
<1> DEFINE s == worker[t].sensor
           p == worker[t].reading
           w == [sensor |-> s, reading |-> p + 1, rule |-> 1,
                 state |-> Remember(ValueOf(s, p), worker[t].state)]
<1>1. /\ s \in Tokens
      /\ worker[t].state \in SensorState(s)
      /\ p \in Nat \ {0}
  BY BusyWorker DEF NextReading
<1>2. Len(Sequence(s)) \in Nat /\ Len(SensorRules[s]) \in Nat
  BY <1>1, RulesAssumption DEF TypeOK, Call, Sequence
<1>3. p \in 1 .. Len(Sequence(s))
  BY <1>1, <1>2 DEF NextReading
<1>4. ValueOf(s, p) \in Value
  BY <1>1, <1>3, ViolationOk
<1>5. w.state \in SensorState(s)
  BY <1>1, <1>4 DEF Remember, SensorState
<1>6. w \in ActiveWorker(s)
  BY <1>1, <1>2, <1>3, <1>5 DEF ActiveWorker
<1>7. worker' = [worker EXCEPT ![t] = w]
  BY DEF NextReading
<1>8. /\ DOMAIN worker' = Threads
      /\ \A u \in Threads : \/ worker'[u] = IdleWorker
                            \/ \E z \in Tokens : worker'[u] \in ActiveWorker(z)
  BY <1>1, <1>6, <1>7 DEF TypeOK
<1>9. UNCHANGED <<phase, calls, call, initialized, sensor_states, next_sensor,
                  owner, thread_violations, merged, result, timeline>>
  BY DEF NextReading
<1>10. /\ (call \in Call /\ WellFormedCall(call))'
      /\ Groups' = Groups
      /\ \A z \in Tokens : ActiveWorker(z)' = ActiveWorker(z)
  BY <1>9, CallFrame
<1> QED
  BY <1>8, <1>9, <1>10 DEF TypeOK

LEMMA WriteBackType ==
    ASSUME TypeOK, NEW t \in Threads, WriteBack(t)
    PROVE  TypeOK'
<1> DEFINE s == worker[t].sensor
<1>1. s \in Tokens /\ worker[t].state \in SensorState(s)
  BY BusyWorker DEF WriteBack
<1>2. /\ sensor_states' = [sensor_states EXCEPT ![s] = worker[t].state]
      /\ worker' = [worker EXCEPT ![t] = IdleWorker]
      /\ phase = "parallel"
      /\ UNCHANGED <<phase, calls, call, initialized, next_sensor, owner,
                     thread_violations, merged, result, timeline>>
  BY DEF WriteBack
<1>3. /\ DOMAIN sensor_states' = Tokens
      /\ \A z \in Tokens : sensor_states'[z] \in SensorState(z)
  <2>1. DOMAIN sensor_states = Tokens /\ \A z \in Tokens : sensor_states[z] \in SensorState(z)
    BY <1>2 DEF TypeOK
  <2>2. DOMAIN sensor_states' = Tokens
    BY <1>2, <2>1
  <2>3. ASSUME NEW z \in Tokens PROVE sensor_states'[z] \in SensorState(z)
    <3>1. CASE z = s
      BY <1>1, <1>2, <2>1, <3>1
    <3>2. CASE z # s
      BY <1>2, <2>1, <3>2
    <3> QED
      BY <3>1, <3>2
  <2> QED
    BY <2>2, <2>3
<1>4. /\ (call \in Call /\ WellFormedCall(call))'
      /\ Groups' = Groups
      /\ \A z \in Tokens : ActiveWorker(z)' = ActiveWorker(z)
  BY <1>2, CallFrame
<1>5. /\ DOMAIN worker' = Threads
      /\ \A u \in Threads : \/ worker'[u] = IdleWorker
                            \/ \E z \in Tokens : worker'[u] \in ActiveWorker(z)
  BY <1>2 DEF TypeOK
<1> QED
  BY <1>2, <1>3, <1>4, <1>5 DEF TypeOK

LEMMA MergeThreadType ==
    ASSUME TypeOK, MergeThread
    PROVE  TypeOK'
<1>1. /\ result' = [g \in Groups |-> result[g] \o thread_violations[merged][g]]
      /\ merged' = merged + 1
      /\ merged < NumThreads
      /\ UNCHANGED <<phase, calls, call, initialized, sensor_states, next_sensor,
                     owner, worker, thread_violations, timeline>>
  BY DEF MergeThread
<1>2. merged \in Threads /\ merged' \in 0 .. NumThreads
  BY <1>1, SizeAssumption DEF TypeOK, Threads
<1>3. result' \in [Groups -> Seq(ViolationType)]
  <2> SUFFICES ASSUME NEW g \in Groups
               PROVE  result[g] \o thread_violations[merged][g] \in Seq(ViolationType)
    BY <1>1
  <2>1. result[g] \in Seq(ViolationType) /\ thread_violations[merged][g] \in Seq(ViolationType)
    BY <1>2 DEF TypeOK
  <2> QED
    BY <2>1
<1>4. /\ (call \in Call /\ WellFormedCall(call))'
      /\ Groups' = Groups
      /\ \A z \in Tokens : ActiveWorker(z)' = ActiveWorker(z)
  BY <1>1, CallFrame
<1> QED
  BY <1>1, <1>2, <1>3, <1>4 DEF TypeOK

LEMMA StutterType ==
    ASSUME TypeOK, UNCHANGED vars
    PROVE  TypeOK'
<1>1. /\ (call \in Call /\ WellFormedCall(call))'
      /\ Groups' = Groups
      /\ \A z \in Tokens : ActiveWorker(z)' = ActiveWorker(z)
  BY CallFrame DEF vars
<1> QED
  BY <1>1 DEF TypeOK, vars

LEMMA PhaseChangeType ==
    ASSUME TypeOK, EndParallel \/ Return
    PROVE  TypeOK'
<1>1. /\ phase' \in {"idle", "parallel", "merge"}
      /\ phase # "idle"
      /\ UNCHANGED <<calls, call, initialized, sensor_states, next_sensor, owner,
                     worker, thread_violations, merged, result, timeline>>
  BY DEF EndParallel, Return
<1>2. /\ (call \in Call /\ WellFormedCall(call))'
      /\ Groups' = Groups
      /\ \A z \in Tokens : ActiveWorker(z)' = ActiveWorker(z)
  BY <1>1, CallFrame
<1> QED
  BY <1>1, <1>2 DEF TypeOK

LEMMA NextType == TypeOK /\ [Next]_vars => TypeOK'
<1> SUFFICES ASSUME TypeOK, [Next]_vars PROVE TypeOK'
  OBVIOUS
<1>1. ASSUME NEW c \in Calls, StartCall(c) PROVE TypeOK'
  BY <1>1, StartCallType, CallsAssumption
<1>2. ASSUME NEW t \in Threads, ThreadStep(t) PROVE TypeOK'
  BY <1>2, TakeSensorType, EvaluateRuleType, NextReadingType, WriteBackType DEF ThreadStep
<1>3. CASE EndParallel \/ Return
  BY <1>3, PhaseChangeType
<1>4. CASE MergeThread
  BY <1>4, MergeThreadType
<1>5. CASE NoMoreCalls \/ UNCHANGED vars
  BY <1>5, StutterType DEF NoMoreCalls
<1> QED
  BY <1>1, <1>2, <1>3, <1>4, <1>5 DEF Next

(* The variables, the threads' private states and lists included, keep     *)
(* their types in every behaviour.                                         *)
THEOREM TypeCorrect == Spec => []TypeOK
BY InitType, NextType, PTL DEF Spec
-----------------------------------------------------------------------------
(***************************************************************************)
(* Runs of violations.                                                     *)
(***************************************************************************)
LEMMA RunGrows ==
    ASSUME NEW rule, NEW h, NEW k \in Nat, NEW n,
           MaximalRun(rule, h, k, n), Violates(rule, h[k + 1])
    PROVE  MaximalRun(rule, h, k + 1, n + 1)
<1>1. n \in 0 .. k /\ n + 1 \in 0 .. (k + 1)
  BY DEF MaximalRun
<1>2. RunEndsAt(rule, h, k + 1, n + 1)
  BY <1>1 DEF MaximalRun, RunEndsAt
<1>3. n + 1 < k + 1 => ~ Violates(rule, h[(k + 1) - (n + 1)])
  <2>1. (k + 1) - (n + 1) = k - n
    BY <1>1
  <2> QED
    BY <1>1, <2>1 DEF MaximalRun
<1> QED
  BY <1>1, <1>2, <1>3 DEF MaximalRun

LEMMA RunEnds ==
    ASSUME NEW rule, NEW h, NEW k \in Nat, ~ Violates(rule, h[k + 1])
    PROVE  MaximalRun(rule, h, k + 1, 0)
BY DEF MaximalRun, RunEndsAt

(* A maximal run decides whether there is a violating run of c readings.   *)
LEMMA LongRun ==
    ASSUME NEW rule, NEW h, NEW k \in Nat \ {0}, NEW n, NEW c \in Int,
           MaximalRun(rule, h, k, n)
    PROVE  (\E m \in 1 .. k : m >= c /\ RunEndsAt(rule, h, k, m))
             <=> Violates(rule, h[k]) /\ n >= c
<1>1. n \in 0 .. k
  BY DEF MaximalRun
<1>2. ASSUME NEW m \in 1 .. k, m >= c, RunEndsAt(rule, h, k, m)
      PROVE  Violates(rule, h[k]) /\ n >= c
  <2>1. Violates(rule, h[k])
    BY <1>2 DEF RunEndsAt
  <2>2. ~ (n < m)
    <3>1. SUFFICES ASSUME n < m PROVE FALSE
      OBVIOUS
    <3>2. k - n \in (k - m + 1) .. k
      BY <1>1, <1>2, <3>1
    <3>3. Violates(rule, h[k - n])
      BY <1>2, <3>2 DEF RunEndsAt
    <3> QED
      BY <1>1, <1>2, <3>1, <3>3 DEF MaximalRun
  <2> QED
    BY <1>1, <1>2, <2>1, <2>2
<1>3. ASSUME Violates(rule, h[k]), n >= c
      PROVE  \E m \in 1 .. k : m >= c /\ RunEndsAt(rule, h, k, m)
  <2>1. n # 0
    BY <1>1, <1>3 DEF MaximalRun
  <2>2. n \in 1 .. k
    BY <1>1, <2>1
  <2> QED
    BY <1>3, <2>2 DEF MaximalRun
<1> QED
  BY <1>2, <1>3

(* Runs depend on the values up to k only. *)
LEMMA RunOfPrefix ==
    ASSUME NEW rule, NEW h1, NEW h2, NEW k \in Nat, NEW n,
           \A i \in 1 .. k : h1[i] = h2[i],
           MaximalRun(rule, h1, k, n)
    PROVE  MaximalRun(rule, h2, k, n)
<1>1. n \in 0 .. k
  BY DEF MaximalRun
<1>2. \A i \in (k - n + 1) .. k : i \in 1 .. k
  BY <1>1
<1>3. RunEndsAt(rule, h2, k, n)
  BY <1>1, <1>2 DEF MaximalRun, RunEndsAt
<1>4. n < k => k - n \in 1 .. k
  BY <1>1
<1> QED
  BY <1>1, <1>3, <1>4 DEF MaximalRun

(* The evaluators decide what the rule means, from the previous value and  *)
(* the counter alone.                                                      *)
LEMMA EvaluatorsAreExact ==
    ASSUME NEW rule \in Rule, NEW h, NEW k \in Nat, NEW state, NEW slot,
           state.has_previous <=> k > 0,
           k > 0 => state.previous_value = h[k],
           rule.type = "STATEFUL"
             => MaximalRun(rule, h, k, state.consecutive_violations[slot])
    PROVE  /\ RuleFires(h[k + 1], state, rule, slot) <=> Fires(rule, h, k + 1)
           /\ rule.type = "STATEFUL"
                => MaximalRun(rule, h, k + 1, NextCount(h[k + 1], state, rule, slot))
<1> DEFINE n == NextCount(h[k + 1], state, rule, slot)
<1>1. rule.type = "STATEFUL" => MaximalRun(rule, h, k + 1, n)
  <2> SUFFICES ASSUME rule.type = "STATEFUL" PROVE MaximalRun(rule, h, k + 1, n)
    OBVIOUS
  <2>1. CASE Violates(rule, h[k + 1])
    BY <2>1, RunGrows DEF NextCount, Violates
  <2>2. CASE ~ Violates(rule, h[k + 1])
    BY <2>2, RunEnds DEF NextCount, Violates
  <2> QED
    BY <2>1, <2>2
<1>2. CASE rule.type = "THRESHOLD"
  BY <1>2, <1>1 DEF RuleFires, Fires, evaluate_threshold, Violates
<1>3. CASE rule.type = "STEP_DIFF"
  <2>1. k + 1 > 1 <=> k > 0
    OBVIOUS
  <2>2. (k + 1) - 1 = k
    OBVIOUS
  <2>3. RuleFires(h[k + 1], state, rule, slot) <=> evaluate_step_diff(h[k + 1], state, rule)
    BY <1>3 DEF RuleFires
  <2>4. Fires(rule, h, k + 1)
          <=> k > 0 /\ evaluate_comparison(Delta(h[k + 1], h[k]), rule.op, rule.threshold)
    BY <1>3, <2>1, <2>2 DEF Fires
  <2> QED
    BY <1>1, <2>3, <2>4 DEF evaluate_step_diff
<1>4. CASE rule.type = "STATEFUL"
  <2>1. rule.consecutive_measurements \in Int
    BY DEF Rule
  <2>2. (\E m \in 1 .. (k + 1) : m >= rule.consecutive_measurements
                                 /\ RunEndsAt(rule, h, k + 1, m))
          <=> Violates(rule, h[k + 1]) /\ n >= rule.consecutive_measurements
    BY <1>1, <1>4, <2>1, LongRun
  <2>3. RuleFires(h[k + 1], state, rule, slot)
          <=> Violates(rule, h[k + 1]) /\ n >= rule.consecutive_measurements
    BY <1>4 DEF RuleFires, evaluate_stateful, Violates
  <2> QED
    BY <1>1, <1>4, <2>2, <2>3 DEF Fires
<1> QED
  BY <1>2, <1>3, <1>4 DEF Rule
-----------------------------------------------------------------------------
(***************************************************************************)
(* The inductive invariant holds initially.                                *)
(***************************************************************************)
LEMMA InitIInv == Init => IInv
<1> SUFFICES ASSUME Init PROVE IInv
  OBVIOUS
<1>1. TypeOK
  BY InitType
<1>2. /\ Groups = {}
      /\ \A s \in Tokens : Sequence(s) = << >> /\ timeline[s] = << >>
  BY DEF Init, Groups, Sequence
<1>3. DispatchInv
  <2>1. \A s \in Tokens : owner[s] = NoThread /\ s >= next_sensor
    BY SizeAssumption DEF Init, Tokens
  <2>2. \A t \in Threads : worker[t].sensor = NoSensor
    BY DEF Init, IdleWorker
  <2>3. phase = "idle" /\ merged = NumThreads
    BY DEF Init
  <2> QED
    BY <1>2, <2>1, <2>2, <2>3 DEF DispatchInv
<1>4. TimelineInv
  BY <1>2 DEF TimelineInv
<1>5. StateInv
  <2>1. \A t \in Threads, s \in Tokens : worker[t].sensor # s
    BY SizeAssumption DEF Init, IdleWorker, NoSensor, Tokens
  <2>2. ~ initialized
    BY DEF Init
  <2> QED
    BY <2>1, <2>2 DEF StateInv
<1>6. FoundIsExpected /\ ListsInOrder /\ MergeInv
  BY <1>2 DEF FoundIsExpected, ListsInOrder, MergeInv
<1>7. ExpectedIsFound
  BY <1>2 DEF ExpectedIsFound
<1> QED
  BY <1>1, <1>3, <1>4, <1>5, <1>6, <1>7 DEF IInv

(***************************************************************************)
(* Frames: what a step that leaves some variables alone preserves.         *)
(***************************************************************************)
LEMMA TimelineFrame ==
    ASSUME TimelineInv, UNCHANGED <<call, timeline, initialized>>
    PROVE  TimelineInv'
<1>1. \A s \in Tokens : /\ Sequence(s)' = Sequence(s) /\ Base(s)' = Base(s)
                        /\ \A p \in 1 .. Len(Sequence(s)) : ValueOf(s, p)' = ValueOf(s, p)
  BY DEF Sequence, Base, ValueOf, ValueIn
<1> QED
  BY <1>1 DEF TimelineInv

LEMMA ListsFrame ==
    ASSUME TypeOK, FoundIsExpected, ExpectedIsFound, ListsInOrder,
           UNCHANGED <<call, timeline, thread_violations>>,
           \A s \in Tokens : owner[s] # NoThread => owner'[s] = owner[s],
           \A s \in Tokens : \A p \in 1 .. Len(Sequence(s)) :
               \A j \in 1 .. Len(SensorRules[s]) : Done(s, p, j)' <=> Done(s, p, j)
    PROVE  FoundIsExpected' /\ ExpectedIsFound' /\ ListsInOrder'
<1>1. Groups' = Groups /\ \A s \in Tokens : Sequence(s)' = Sequence(s)
  BY DEF Groups, Sequence
<1>2. \A s, p, j : /\ Expected(s, p, j)' <=> Expected(s, p, j)
                  /\ Violation(s, p, j)' = Violation(s, p, j)
                  /\ GroupOf(s, p)' = GroupOf(s, p)
  BY DEF Expected, Violation, GroupOf, Sequence, Base, ValueOf, ValueIn
<1>3. FoundIsExpected'
  <2> SUFFICES ASSUME NEW t \in Threads, NEW g \in Groups,
                      NEW v \in ToSet(thread_violations[t][g])
               PROVE  IsFound(v, t, g)'
    BY <1>1 DEF FoundIsExpected
  <2>1. PICK s \in Tokens : \E p \in 1 .. Len(Sequence(s)) :
          \E j \in 1 .. Len(SensorRules[s]) :
          /\ Expected(s, p, j)
          /\ Done(s, p, j)
          /\ GroupOf(s, p) = g
          /\ owner[s] = t
          /\ v = Violation(s, p, j)
    BY DEF FoundIsExpected, IsFound
  <2>2. owner'[s] = t
    BY <2>1 DEF Done
  <2> QED
    BY <1>1, <1>2, <2>1, <2>2 DEF IsFound
<1>4. ExpectedIsFound'
  <2> SUFFICES ASSUME NEW s \in Tokens, NEW p \in 1 .. Len(Sequence(s)'),
                      NEW j \in 1 .. Len(SensorRules[s]),
                      Expected(s, p, j)', Done(s, p, j)'
               PROVE  (Violation(s, p, j) \in ToSet(thread_violations[owner[s]][GroupOf(s, p)]))'
    BY DEF ExpectedIsFound
  <2>1. p \in 1 .. Len(Sequence(s)) /\ Expected(s, p, j) /\ Done(s, p, j)
    BY <1>1, <1>2
  <2>2. owner'[s] = owner[s]
    BY <2>1 DEF Done
  <2>3. Violation(s, p, j) \in ToSet(thread_violations[owner[s]][GroupOf(s, p)])
    BY <2>1 DEF ExpectedIsFound
  <2> QED
    BY <1>2, <2>2, <2>3
<1>5. ListsInOrder'
  BY <1>1 DEF ListsInOrder, SensorOrder, Follows
<1> QED
  BY <1>3, <1>4, <1>5

LEMMA MergeFrame ==
    ASSUME MergeInv, UNCHANGED <<call, thread_violations, merged, result>>
    PROVE  MergeInv'
<1>1. Groups' = Groups
  BY DEF Groups
<1>2. merged' = merged /\ result' = result /\ thread_violations' = thread_violations
  OBVIOUS
<1> QED
  BY <1>1, <1>2 DEF MergeInv

LEMMA StateFrame ==
    ASSUME StateInv,
           UNCHANGED <<call, timeline, initialized, sensor_states, worker, owner>>
    PROVE  StateInv'
<1>1. \A s \in Tokens : Base(s)' = Base(s) /\ Sequence(s)' = Sequence(s)
  BY DEF Base, Sequence
<1>2. \A s \in Tokens, t \in Threads : WorkerState(t, s)' <=> WorkerState(t, s)
  BY <1>1 DEF WorkerState, MaximalRun, RunEndsAt
<1>3. \A s, state, k : Summarises(state, s, k)' <=> Summarises(state, s, k)
  BY DEF Summarises, MaximalRun, RunEndsAt
<1> QED
  BY <1>1, <1>2, <1>3 DEF StateInv

(***************************************************************************)
(* Facts used by several actions.                                          *)
(***************************************************************************)
LEMMA SequenceFacts ==
    ASSUME TypeOK, TimelineInv, NEW s \in Tokens
    PROVE  /\ Len(Sequence(s)) \in Nat
           /\ Len(timeline[s]) \in Nat
           /\ Base(s) \in Nat
           /\ Base(s) + Len(Sequence(s)) = Len(timeline[s])
           /\ Len(SensorRules[s]) \in Nat
<1>1. Len(Sequence(s)) \in Nat
  BY DEF TypeOK, Call, Sequence
<1>2. Len(timeline[s]) \in Nat
  BY DEF TypeOK
<1>3. Len(Sequence(s)) <= Len(timeline[s])
  BY DEF TimelineInv
<1>4. Len(SensorRules[s]) \in Nat
  BY RulesAssumption
<1> QED
  BY <1>1, <1>2, <1>3, <1>4 DEF Base

(* A sensor no thread has taken is on no thread. *)
LEMMA OwnerOfHeld ==
    ASSUME DispatchInv, NEW t \in Threads, NEW s \in Tokens, worker[t].sensor = s
    PROVE  owner[s] = t /\ owner[s] # NoThread
BY SizeAssumption DEF DispatchInv, Tokens, NoSensor, Threads, NoThread

LEMMA TakeSensorIInv ==
    ASSUME IInv, NEW t \in Threads, TakeSensor(t)
    PROVE  IInv'
<1>0. /\ TypeOK /\ DispatchInv /\ TimelineInv /\ StateInv
      /\ FoundIsExpected /\ ExpectedIsFound /\ ListsInOrder /\ MergeInv
  BY DEF IInv
<1>s. PICK s \in Tokens : s = next_sensor
  BY <1>0, SizeAssumption DEF TakeSensor, TypeOK, Tokens
<1>1. /\ phase = "parallel"
      /\ worker[t].sensor = NoSensor
      /\ s < NumSensors
      /\ next_sensor' = s + 1
      /\ owner' = [owner EXCEPT ![s] = t]
      /\ phase' = phase /\ call' = call /\ initialized' = initialized
      /\ sensor_states' = sensor_states /\ thread_violations' = thread_violations
      /\ merged' = merged /\ result' = result /\ timeline' = timeline
  BY <1>s DEF TakeSensor
<1>2. /\ s \in Tokens
      /\ owner \in [Tokens -> Threads \cup {NoThread}]
      /\ DOMAIN worker = Threads
      /\ initialized
  BY <1>0, <1>1, SizeAssumption DEF TypeOK, Tokens
<1>3. owner[s] = NoThread
  BY <1>0, <1>s DEF DispatchInv, Tokens
<1>4. /\ t # NoThread
      /\ \A z \in Tokens : owner'[z] = IF z = s THEN t ELSE owner[z]
  BY <1>1, <1>2, SizeAssumption DEF Threads, NoThread
<1>5. \A u \in Threads : worker[u].sensor # s
  BY <1>0, <1>2, <1>3, OwnerOfHeld
<1>6. CASE Sequence(s) = << >>
  <2>1. worker' = worker
    BY <1>s, <1>6 DEF TakeSensor
  <2>2. TypeOK'
    BY <1>0, TakeSensorType
  <2>3. DispatchInv'
    <3>1. \A z \in Tokens : owner'[z] = NoThread <=> z >= next_sensor'
      BY <1>0, <1>s, <1>1, <1>4 DEF DispatchInv, Tokens
    <3>2. ASSUME NEW u \in Threads, worker'[u].sensor # NoSensor
          PROVE  phase' = "parallel" /\ owner'[worker'[u].sensor] = u
      <4>1. worker[u].sensor \in Tokens /\ worker[u].sensor # s
        BY <1>0, <1>5, <2>1, <3>2, BusyWorker
      <4> QED
        BY <1>0, <1>1, <1>4, <2>1, <3>2, <4>1 DEF DispatchInv
    <3> QED
      BY <1>0, <1>1, <3>1, <3>2 DEF DispatchInv
  <2>4. StateInv'
    <3>1. Base(s) = Len(timeline[s])
      BY <1>0, <1>2, <1>6, SequenceFacts
    <3>2. \A z \in Tokens : Base(z)' = Base(z) /\ Sequence(z)' = Sequence(z)
      BY <1>1 DEF Base, Sequence
    <3>3. \A z \in Tokens, u \in Threads : WorkerState(u, z)' <=> WorkerState(u, z)
      BY <1>1, <2>1, <3>2 DEF WorkerState, MaximalRun, RunEndsAt
    <3>4. \A z, state, k : Summarises(state, z, k)' <=> Summarises(state, z, k)
      BY <1>1 DEF Summarises, MaximalRun, RunEndsAt
    <3>5. ASSUME NEW z \in Tokens, initialized', \A u \in Threads : worker'[u].sensor # z
          PROVE  Summarises(sensor_states[z], z,
                            IF owner'[z] = NoThread THEN Base(z) ELSE Len(timeline[z]))
      BY <1>0, <1>1, <1>3, <1>4, <2>1, <3>1, <3>5 DEF StateInv
    <3> QED
      BY <1>0, <1>1, <2>1, <3>2, <3>3, <3>4, <3>5 DEF StateInv
  <2>5. ASSUME NEW z \in Tokens, NEW p \in 1 .. Len(Sequence(z)),
               NEW j \in 1 .. Len(SensorRules[z])
        PROVE  Done(z, p, j)' <=> Done(z, p, j)
    <3>1. z # s
      BY <1>6
    <3> QED
      BY <1>4, <2>1, <3>1 DEF Done
  <2>6. FoundIsExpected' /\ ExpectedIsFound' /\ ListsInOrder'
    BY <1>0, <1>1, <1>3, <1>4, <2>5, ListsFrame
  <2> QED
    BY <1>0, <1>1, <2>2, <2>3, <2>4, <2>6, TimelineFrame, MergeFrame DEF IInv
<1>7. CASE Sequence(s) # << >>
  <2> DEFINE w == [sensor |-> s, reading |-> 1, rule |-> 1, state |-> LoadState(s)]
  <2>1. worker' = [worker EXCEPT ![t] = w]
    BY <1>s, <1>7 DEF TakeSensor
  <2>a. \A u \in Threads : worker'[u] = IF u = t THEN w ELSE worker[u]
    BY <1>2, <2>1
  <2>b. \A u \in Threads : worker'[u].sensor = IF u = t THEN s ELSE worker[u].sensor
    BY <2>a
  <2>2. TypeOK'
    BY <1>0, TakeSensorType
  <2>3. DispatchInv'
    <3>1. \A z \in Tokens : owner'[z] = NoThread <=> z >= next_sensor'
      BY <1>0, <1>s, <1>1, <1>4 DEF DispatchInv, Tokens
    <3>2. ASSUME NEW u \in Threads, worker'[u].sensor # NoSensor
          PROVE  phase' = "parallel" /\ owner'[worker'[u].sensor] = u
      <4>1. CASE u = t
        BY <1>1, <1>2, <1>4, <2>b, <4>1
      <4>2. CASE u # t
        <5>1. worker'[u].sensor = worker[u].sensor
          BY <2>b, <4>2
        <5>2. worker[u].sensor \in Tokens /\ worker[u].sensor # s
          BY <1>0, <1>5, <3>2, <5>1, BusyWorker
        <5> QED
          BY <1>0, <1>1, <1>4, <3>2, <5>1, <5>2 DEF DispatchInv
      <4> QED
        BY <4>1, <4>2
    <3> QED
      BY <1>0, <1>1, <3>1, <3>2 DEF DispatchInv
  <2>4. StateInv'
    <3>1. \A z \in Tokens : Base(z)' = Base(z) /\ Sequence(z)' = Sequence(z)
      BY <1>1 DEF Base, Sequence
    <3>2. \A z, state, k : Summarises(state, z, k)' <=> Summarises(state, z, k)
      BY <1>1 DEF Summarises, MaximalRun, RunEndsAt
    <3>3. LoadState(s) = sensor_states[s]
      BY <1>2 DEF LoadState
    <3>4. Summarises(sensor_states[s], s, Base(s))
      BY <1>0, <1>2, <1>3, <1>5 DEF StateInv
    <3>5. WorkerState(t, s)'
      <4>1. worker'[t] = w
        BY <2>a
      <4>2. Base(s) + 1 - 1 = Base(s)
        BY <1>0, <1>2, SequenceFacts
      <4>3. \A j \in StatefulSlots(s) : ~ (j < 1)
        BY DEF StatefulSlots
      <4>4. /\ worker'[t].state = sensor_states[s]
            /\ worker'[t].reading = 1 /\ worker'[t].rule = 1
        BY <3>3, <4>1
      <4>5. (Base(s) + worker[t].reading - 1)' = Base(s)
        BY <1>2, <3>1, <4>2, <4>4
      <4>6. /\ sensor_states[s].has_previous <=> Base(s) > 0
            /\ Base(s) > 0 => sensor_states[s].previous_value = timeline'[s][Base(s)]
            /\ \A j \in StatefulSlots(s) :
                  MaximalRun(SensorRules[s][j], timeline'[s], Base(s),
                             sensor_states[s].consecutive_violations[j])
        BY <1>1, <3>4 DEF Summarises
      <4> QED
        BY <4>3, <4>4, <4>5, <4>6 DEF WorkerState
    <3>6. ASSUME NEW z \in Tokens, NEW u \in Threads, worker'[u].sensor = z
          PROVE  WorkerState(u, z)'
      <4>1. CASE u = t
        <5>1. z = s
          BY <2>b, <3>6, <4>1
        <5> QED
          BY <3>5, <4>1, <5>1 DEF WorkerState
      <4>2. CASE u # t
        <5>1. worker'[u] = worker[u] /\ worker[u].sensor = z
          BY <2>a, <3>6, <4>2
        <5>2. WorkerState(u, z)
          BY <1>0, <5>1 DEF StateInv
        <5> QED
          BY <1>1, <3>1, <5>1, <5>2 DEF WorkerState, MaximalRun, RunEndsAt
      <4> QED
        BY <4>1, <4>2
    <3>7. ASSUME NEW z \in Tokens, \A u \in Threads : worker'[u].sensor # z
          PROVE  Summarises(sensor_states[z], z,
                            IF owner'[z] = NoThread THEN Base(z) ELSE Len(timeline[z]))
      <4>1. z # s
        BY <2>b, <3>7
      <4>2. \A u \in Threads : worker[u].sensor # z
        BY <1>1, <2>b, <3>7, SizeAssumption DEF Tokens, NoSensor
      <4> QED
        BY <1>0, <1>2, <1>4, <4>1, <4>2 DEF StateInv
    <3> QED
      BY <1>1, <3>1, <3>2, <3>6, <3>7 DEF StateInv
  <2>5. ASSUME NEW z \in Tokens, NEW p \in 1 .. Len(Sequence(z)),
               NEW j \in 1 .. Len(SensorRules[z])
        PROVE  Done(z, p, j)' <=> Done(z, p, j)
    <3>1. CASE z = s
      <4>1. worker'[owner'[z]] = w
        BY <1>2, <1>4, <2>a, <3>1
      <4>2. ~ Precedes(<<p, j>>, <<1, 1>>)
        BY DEF Precedes
      <4> QED
        BY <1>3, <3>1, <4>1, <4>2 DEF Done
    <3>2. CASE z # s
      <4>1. owner'[z] = owner[z]
        BY <1>4, <3>2
      <4>2. owner[z] # NoThread => owner[z] \in Threads
        BY <1>2
      <4>3. CASE owner[z] = NoThread
        BY <4>1, <4>3 DEF Done
      <4>4. CASE owner[z] = t
        BY <1>1, <1>2, <2>b, <3>2, <4>1, <4>4, SizeAssumption DEF Done, NoSensor, Tokens
      <4>5. CASE owner[z] # NoThread /\ owner[z] # t
        BY <2>a, <4>1, <4>2, <4>5 DEF Done
      <4> QED
        BY <4>3, <4>4, <4>5
    <3> QED
      BY <3>1, <3>2
  <2>6. FoundIsExpected' /\ ExpectedIsFound' /\ ListsInOrder'
    BY <1>0, <1>1, <1>3, <1>4, <2>5, ListsFrame
  <2> QED
    BY <1>0, <1>1, <2>2, <2>3, <2>4, <2>6, TimelineFrame, MergeFrame DEF IInv
<1> QED
  BY <1>6, <1>7


LEMMA EvaluateRuleIInv ==
    ASSUME IInv, NEW t \in Threads, EvaluateRule(t)
    PROVE  IInv'
<1>0. /\ TypeOK /\ DispatchInv /\ TimelineInv /\ StateInv
      /\ FoundIsExpected /\ ExpectedIsFound /\ ListsInOrder /\ MergeInv
  BY DEF IInv
<1>s. PICK s \in Tokens : s = worker[t].sensor
  BY <1>0, BusyWorker DEF EvaluateRule
<1>p. PICK p \in 1 .. Len(Sequence(s)) : p = worker[t].reading
  BY <1>0, <1>s, BusyWorker, SequenceFacts DEF EvaluateRule
<1>j. PICK j \in 1 .. Len(SensorRules[s]) : j = worker[t].rule
  BY <1>0, <1>s, BusyWorker, SequenceFacts DEF EvaluateRule
<1>st. PICK state \in SensorState(s) : state = worker[t].state
  BY <1>0, <1>s, BusyWorker DEF EvaluateRule
<1>k. PICK k \in Nat : k = Base(s) + p - 1
  BY <1>0, SequenceFacts
<1>v. PICK value \in Value : value = ValueOf(s, p) /\ value = timeline[s][k + 1]
  BY <1>0, <1>k, ViolationOk, SequenceFacts DEF TimelineInv
<1>g. PICK g \in Groups : g = GroupOf(s, p)
  BY <1>0, ViolationOk
<1> DEFINE rule == SensorRules[s][j]
           fired == RuleFires(value, state, rule, j)
           w == [sensor |-> s, reading |-> p, rule |-> j + 1,
                 state |-> StateAfterRule(value, state, rule, j)]
<1>1. /\ phase = "parallel"
      /\ thread_violations' =
            IF fired
            THEN [thread_violations EXCEPT ![t][g] = Append(@, Violation(s, p, j))]
            ELSE thread_violations
      /\ worker' = [worker EXCEPT ![t] = w]
      /\ phase' = phase /\ call' = call /\ initialized' = initialized
      /\ next_sensor' = next_sensor /\ owner' = owner
      /\ sensor_states' = sensor_states
      /\ merged' = merged /\ result' = result /\ timeline' = timeline
  BY <1>s, <1>p, <1>j, <1>st, <1>v, <1>g DEF EvaluateRule
<1>2. /\ DOMAIN worker = Threads
      /\ owner \in [Tokens -> Threads \cup {NoThread}]
      /\ thread_violations \in [Threads -> [Groups -> Seq(ViolationType)]]
  BY <1>0 DEF TypeOK
<1>3. /\ \A u \in Threads : worker'[u] = IF u = t THEN w ELSE worker[u]
      /\ \A u \in Threads : worker'[u].sensor = worker[u].sensor
  BY <1>s, <1>1, <1>2
<1>4. owner[s] = t /\ t # NoThread
  BY <1>0, <1>s, OwnerOfHeld
<1>5. WorkerState(t, s)
  BY <1>0, <1>s DEF StateInv
<1>6. rule \in Rule
  BY RulesAssumption
<1>7. /\ state.has_previous <=> k > 0
      /\ k > 0 => state.previous_value = timeline[s][k]
      /\ \A i \in StatefulSlots(s) :
            MaximalRun(SensorRules[s][i], timeline[s], IF i < j THEN k + 1 ELSE k,
                       state.consecutive_violations[i])
  BY <1>5, <1>p, <1>j, <1>st, <1>k DEF WorkerState
<1>8. rule.type = "STATEFUL"
        => /\ j \in StatefulSlots(s)
           /\ MaximalRun(rule, timeline[s], k, state.consecutive_violations[j])
  <2>1. rule.type = "STATEFUL" => j \in StatefulSlots(s)
    BY DEF StatefulSlots
  <2> QED
    BY <1>7, <2>1
<1>9. /\ fired <=> Fires(rule, timeline[s], k + 1)
      /\ rule.type = "STATEFUL"
           => MaximalRun(rule, timeline[s], k + 1, NextCount(value, state, rule, j))
  BY <1>v, <1>6, <1>7, <1>8, EvaluatorsAreExact
<1>10. k + 1 = Base(s) + p
  BY <1>0, <1>k, SequenceFacts
<1>11. fired <=> Expected(s, p, j)
  BY <1>9, <1>10 DEF Expected
<1>12. TypeOK'
  BY <1>0, EvaluateRuleType
<1>13. DispatchInv'
  BY <1>0, <1>1, <1>3 DEF DispatchInv, Sequence
<1>14. TimelineInv'
  BY <1>0, <1>1, TimelineFrame
<1>15. StateInv'
  <2>1. \A z \in Tokens : Base(z)' = Base(z) /\ Sequence(z)' = Sequence(z)
    BY <1>1 DEF Base, Sequence
  <2>2. \A z, st, n : Summarises(st, z, n)' <=> Summarises(st, z, n)
    BY <1>1 DEF Summarises, MaximalRun, RunEndsAt
  <2>3. WorkerState(t, s)'
    <3> DEFINE after == StateAfterRule(value, state, rule, j)
    <3>1. /\ after.has_previous = state.has_previous
          /\ after.previous_value = state.previous_value
          /\ \A i \in StatefulSlots(s) :
                after.consecutive_violations[i] =
                  IF rule.type = "STATEFUL" /\ i = j
                  THEN NextCount(value, state, rule, j)
                  ELSE state.consecutive_violations[i]
      BY DEF StateAfterRule, SensorState
    <3>2. ASSUME NEW i \in StatefulSlots(s)
          PROVE  MaximalRun(SensorRules[s][i], timeline[s],
                            IF i < j + 1 THEN k + 1 ELSE k,
                            after.consecutive_violations[i])
      <4>1. i \in Nat
        BY DEF StatefulSlots
      <4>2. CASE i = j
        <5>1. rule.type = "STATEFUL"
          BY <4>2 DEF StatefulSlots
        <5>2. i < j + 1
          BY <4>1, <4>2
        <5> QED
          BY <1>9, <3>1, <4>2, <5>1, <5>2
      <4>3. CASE i # j
        <5>1. i < j + 1 <=> i < j
          BY <4>1, <4>3
        <5> QED
          BY <1>7, <3>1, <4>3, <5>1
      <4> QED
        BY <4>2, <4>3
    <3>3. /\ worker'[t].state = after
          /\ worker'[t].reading = p /\ worker'[t].rule = j + 1
      BY <1>3
    <3>4. (Base(s) + worker[t].reading - 1)' = k
      BY <1>k, <2>1, <3>3
    <3>5. p # Len(Sequence(s)) + 1
      BY <1>0, SequenceFacts
    <3>6. /\ after.has_previous <=> k > 0
          /\ k > 0 => after.previous_value = timeline[s][k]
      BY <1>7, <3>1
    <3> HIDE DEF after
    <3> QED
      BY <1>1, <2>1, <3>2, <3>3, <3>4, <3>5, <3>6 DEF WorkerState
  <2>4. ASSUME NEW z \in Tokens, NEW u \in Threads, worker'[u].sensor = z
        PROVE  WorkerState(u, z)'
    <3>1. CASE u = t
      <4>1. z = s
        BY <1>s, <1>3, <2>4, <3>1
      <4> QED
        BY <2>3, <3>1, <4>1
    <3>2. CASE u # t
      <4>1. worker'[u] = worker[u] /\ worker[u].sensor = z
        BY <1>3, <2>4, <3>2
      <4>2. WorkerState(u, z)
        BY <1>0, <4>1 DEF StateInv
      <4> QED
        BY SMTT(30), <1>1, <2>1, <4>1, <4>2 DEF WorkerState, MaximalRun, RunEndsAt
    <3> QED
      BY <3>1, <3>2
  <2>5. ASSUME NEW z \in Tokens, initialized, \A u \in Threads : worker'[u].sensor # z
        PROVE  Summarises(sensor_states[z], z,
                          IF owner[z] = NoThread THEN Base(z) ELSE Len(timeline[z]))
    BY <1>0, <1>3, <2>5 DEF StateInv
  <2> QED
    BY <1>1, <2>1, <2>2, <2>4, <2>5 DEF StateInv
<1>16. ASSUME NEW z \in Tokens, NEW q \in 1 .. Len(Sequence(z)),
              NEW i \in 1 .. Len(SensorRules[z])
       PROVE  Done(z, q, i)' <=> Done(z, q, i) \/ (z = s /\ q = p /\ i = j)
  <2>1. CASE z = s
    <3>1. Done(z, q, i) <=> Precedes(<<q, i>>, <<p, j>>)
      BY <1>s, <1>p, <1>j, <1>4, <2>1 DEF Done
    <3>2. Done(z, q, i)' <=> Precedes(<<q, i>>, <<p, j + 1>>)
      BY <1>1, <1>3, <1>4, <2>1 DEF Done
    <3>3. Precedes(<<q, i>>, <<p, j + 1>>)
            <=> Precedes(<<q, i>>, <<p, j>>) \/ (q = p /\ i = j)
      BY DEF Precedes
    <3> QED
      BY <2>1, <3>1, <3>2, <3>3
  <2>2. CASE z # s
    <3>1. CASE owner[z] = NoThread
      BY <1>1, <2>2, <3>1 DEF Done
    <3>2. CASE owner[z] = t
      BY <1>s, <1>1, <1>3, <2>2, <3>2 DEF Done
    <3>3. CASE owner[z] # NoThread /\ owner[z] # t
      BY <1>1, <1>2, <1>3, <2>2, <3>3 DEF Done
    <3> QED
      BY <3>1, <3>2, <3>3
  <2> QED
    BY <2>1, <2>2
<1>17. /\ ~ Done(s, p, j)
       /\ Done(s, p, j)'
  <2>1. ~ Done(s, p, j)
    BY <1>s, <1>p, <1>j, <1>4 DEF Done, Precedes
  <2> QED
    BY <1>16, <2>1
<1>18. /\ Groups' = Groups
       /\ \A z \in Tokens : Sequence(z)' = Sequence(z)
       /\ \A z, q, i : /\ Expected(z, q, i)' <=> Expected(z, q, i)
                       /\ Violation(z, q, i)' = Violation(z, q, i)
                       /\ GroupOf(z, q)' = GroupOf(z, q)
  <2>1. Groups' = Groups /\ \A z \in Tokens : Sequence(z)' = Sequence(z)
    BY <1>1 DEF Groups, Sequence
  <2> SUFFICES ASSUME NEW z, NEW q, NEW i
               PROVE  /\ Expected(z, q, i)' <=> Expected(z, q, i)
                      /\ Violation(z, q, i)' = Violation(z, q, i)
                      /\ GroupOf(z, q)' = GroupOf(z, q)
    BY <2>1
  <2>2. Expected(z, q, i)' <=> Expected(z, q, i)
    BY <1>1 DEF Expected, Sequence, Base
  <2>3. ValueOf(z, q)' = ValueOf(z, q)
    BY <1>1 DEF ValueOf, ValueIn
  <2>4. Violation(z, q, i)' = Violation(z, q, i)
    BY <1>1, <2>3 DEF Violation, Sequence
  <2>5. GroupOf(z, q)' = GroupOf(z, q)
    BY <1>1 DEF GroupOf, Sequence
  <2> QED
    BY <2>2, <2>4, <2>5
<1>19. ASSUME NEW u \in Threads, NEW h \in Groups, NEW x, IsFound(x, u, h)
       PROVE  IsFound(x, u, h)'
  <2>1. PICK z \in Tokens : \E q \in 1 .. Len(Sequence(z)) : \E i \in 1 .. Len(SensorRules[z]) :
            /\ Expected(z, q, i) /\ Done(z, q, i) /\ GroupOf(z, q) = h
            /\ owner[z] = u /\ x = Violation(z, q, i)
    BY <1>19 DEF IsFound
  <2> QED
    BY <1>1, <1>16, <1>18, <2>1 DEF IsFound
<1>21. PICK v \in ViolationType : v = Violation(s, p, j)
  BY <1>0, ViolationOk
<1>20. fired => IsFound(v, t, g)'
  BY <1>g, <1>1, <1>4, <1>11, <1>17, <1>18, <1>21 DEF IsFound
<1> DEFINE tv == thread_violations
<1>22. \A u \in Threads, h \in Groups :
          /\ tv[u][h] \in Seq(ViolationType)
          /\ tv'[u][h] = IF fired /\ u = t /\ h = g THEN Append(tv[u][h], v) ELSE tv[u][h]
  BY <1>1, <1>2, <1>21
<1>23. \A u \in Threads, h \in Groups :
          ToSet(tv'[u][h]) = IF fired /\ u = t /\ h = g
                             THEN ToSet(tv[u][h]) \cup {v} ELSE ToSet(tv[u][h])
  <2> SUFFICES ASSUME NEW u \in Threads, NEW h \in Groups
               PROVE  ToSet(tv'[u][h]) = IF fired /\ u = t /\ h = g
                                         THEN ToSet(tv[u][h]) \cup {v} ELSE ToSet(tv[u][h])
    OBVIOUS
  <2> HIDE DEF tv, fired
  <2>1. ToSet(Append(tv[u][h], v)) = ToSet(tv[u][h]) \cup {v}
    BY <1>22, ToSetAppend
  <2> QED
    BY <1>22, <2>1
<1> HIDE DEF fired
<1>24. FoundIsExpected'
  <2> SUFFICES ASSUME NEW u \in Threads, NEW h \in Groups, NEW x \in ToSet(tv'[u][h])
               PROVE  IsFound(x, u, h)'
    BY <1>18 DEF FoundIsExpected
  <2>1. CASE x \in ToSet(tv[u][h])
    BY <1>0, <1>19, <2>1 DEF FoundIsExpected
  <2>2. CASE x \notin ToSet(tv[u][h])
    <3>1. fired /\ u = t /\ h = g /\ x = v
      BY <1>23, <2>2
    <3> QED
      BY <1>20, <3>1
  <2> QED
    BY <2>1, <2>2
<1>25. ExpectedIsFound'
  <2> SUFFICES ASSUME NEW z \in Tokens, NEW q \in 1 .. Len(Sequence(z)'),
                      NEW i \in 1 .. Len(SensorRules[z]),
                      Expected(z, q, i)', Done(z, q, i)'
               PROVE  (Violation(z, q, i) \in ToSet(thread_violations[owner[z]][GroupOf(z, q)]))'
    BY DEF ExpectedIsFound
  <2>1. q \in 1 .. Len(Sequence(z)) /\ Expected(z, q, i)
    BY <1>18
  <2>2. owner[z] \in Threads
    BY <1>1, <1>2 DEF Done
  <2>3. GroupOf(z, q) \in Groups
    BY <1>0, <2>1, ViolationOk
  <2>4. CASE z = s /\ q = p /\ i = j
    <3>1. fired /\ owner[z] = t /\ GroupOf(z, q) = g /\ Violation(z, q, i) = v
      BY <1>g, <1>4, <1>11, <1>21, <2>1, <2>4
    <3>2. v \in ToSet(tv'[t][g])
      BY <1>23, <3>1
    <3> QED
      BY <1>1, <1>18, <3>1, <3>2
  <2>5. CASE ~ (z = s /\ q = p /\ i = j)
    <3>1. Done(z, q, i)
      BY <1>16, <2>1, <2>5
    <3>2. Violation(z, q, i) \in ToSet(tv[owner[z]][GroupOf(z, q)])
      BY <1>0, <2>1, <3>1 DEF ExpectedIsFound
    <3>3. Violation(z, q, i) \in ToSet(tv'[owner[z]][GroupOf(z, q)])
      BY <1>23, <2>2, <2>3, <3>2
    <3> QED
      BY <1>1, <1>18, <3>3
  <2> QED
    BY <2>4, <2>5
<1>26. ListsInOrder'
  <2> SUFFICES ASSUME NEW u \in Threads, NEW h \in Groups PROVE SensorOrder(tv'[u][h])
    BY <1>18 DEF ListsInOrder
  <2>1. CASE fired /\ u = t /\ h = g
    <3>1. ASSUME NEW x \in ToSet(tv[t][g]), x.sensor_token = v.sensor_token
          PROVE  Follows(x, v)
      <4>0. IsFound(x, t, g)
        BY <1>0, <1>g, <3>1 DEF FoundIsExpected
      <4>1. PICK z \in Tokens : \E q \in 1 .. Len(Sequence(z)) : \E i \in 1 .. Len(SensorRules[z]) :
              Done(z, q, i) /\ GroupOf(z, q) = g /\ x = Violation(z, q, i)
        BY <4>0 DEF IsFound
      <4>2. PICK q \in 1 .. Len(Sequence(z)) : \E i \in 1 .. Len(SensorRules[z]) :
              Done(z, q, i) /\ GroupOf(z, q) = g /\ x = Violation(z, q, i)
        BY <4>1
      <4>3. PICK i \in 1 .. Len(SensorRules[z]) :
              Done(z, q, i) /\ GroupOf(z, q) = g /\ x = Violation(z, q, i)
        BY <4>2
      <4>4. z = s
        BY <1>21, <3>1, <4>3 DEF Violation
      <4>5. Precedes(<<q, i>>, <<p, j>>)
        BY <1>s, <1>p, <1>j, <1>4, <4>3, <4>4 DEF Done
      <4>6. /\ Sequence(s)[q][1] = Sequence(s)[p][1]
            /\ q < p => Precedes(Sequence(s)[q], Sequence(s)[p])
        BY <1>0, <1>g, <4>3, <4>4 DEF GroupOf, TypeOK, WellFormedCall, Sequence
      <4>7. Sequence(s)[q][1] \in Nat /\ Sequence(s)[p][1] \in Nat
        BY <1>0, <1>g, <4>3, <4>4 DEF GroupOf, Groups
      <4>8. Sequence(s)[q][2] < Sequence(s)[p][2] \/ (q = p /\ i < j)
        BY <4>4, <4>5, <4>6, <4>7 DEF Precedes
      <4>9. /\ x.reading = Sequence(s)[q][2] /\ x.rule = i
            /\ v.reading = Sequence(s)[p][2] /\ v.rule = j
        BY <1>21, <4>3, <4>4 DEF Violation
      <4> QED
        BY <4>8, <4>9 DEF Follows
    <3>2. SensorOrder(tv[t][g])
      BY <1>0 DEF ListsInOrder
    <3> QED
      BY <1>21, <1>22, <2>1, <3>1, <3>2, AppendInOrder
  <2>2. CASE ~ (fired /\ u = t /\ h = g)
    BY <1>0, <1>22, <2>2 DEF ListsInOrder
  <2> QED
    BY <2>1, <2>2
<1>27. MergeInv'
  <2>1. merged = 0
    BY <1>0, <1>1 DEF DispatchInv
  <2>2. 0 .. (merged - 1) = {} /\ 0 .. (merged' - 1) = {}
    BY <1>1, <2>1
  <2>3. \A h \in Groups : SensorOrder(result[h]) /\ ToSet(result[h]) = {}
    BY <1>0, <2>2 DEF MergeInv
  <2>4. \A h \in Groups : SensorOrder(result'[h]) /\ ToSet(result'[h]) = {}
    BY <1>1, <2>3
  <2> QED
    BY <1>18, <2>2, <2>4 DEF MergeInv
<1> QED
  BY <1>12, <1>13, <1>14, <1>15, <1>24, <1>25, <1>26, <1>27 DEF IInv

LEMMA NextReadingIInv ==
    ASSUME IInv, NEW t \in Threads, NextReading(t)
    PROVE  IInv'
<1>0. /\ TypeOK /\ DispatchInv /\ TimelineInv /\ StateInv
      /\ FoundIsExpected /\ ExpectedIsFound /\ ListsInOrder /\ MergeInv
  BY DEF IInv
<1>s. PICK s \in Tokens : s = worker[t].sensor
  BY <1>0, BusyWorker DEF NextReading
<1>p. PICK p \in 1 .. Len(Sequence(s)) : p = worker[t].reading
  BY <1>0, <1>s, BusyWorker, SequenceFacts DEF NextReading
<1>r. /\ worker[t].rule \in Nat
      /\ worker[t].rule > Len(SensorRules[s])
  BY <1>0, <1>s, BusyWorker DEF NextReading
<1>st. PICK state \in SensorState(s) : state = worker[t].state
  BY <1>0, <1>s, BusyWorker DEF NextReading
<1>b. PICK b \in Nat : b = Base(s)
  BY <1>0, SequenceFacts
<1>k. PICK k \in Nat : k = Base(s) + p - 1 /\ k + 1 = Base(s) + p
  <2>1. p \in Nat \ {0}
    BY <1>0, SequenceFacts
  <2>2. b + p - 1 \in Nat /\ (b + p - 1) + 1 = b + p
    BY <2>1
  <2> QED
    BY <1>b, <2>2
<1>v. PICK value \in Value : value = ValueOf(s, p) /\ value = timeline[s][k + 1]
  BY <1>0, <1>k, ViolationOk, SequenceFacts DEF TimelineInv
<1> DEFINE w == [sensor |-> s, reading |-> p + 1, rule |-> 1,
                 state |-> Remember(value, state)]
<1>1. /\ phase = "parallel"
      /\ worker' = [worker EXCEPT ![t] = w]
      /\ phase' = phase /\ call' = call /\ initialized' = initialized
      /\ next_sensor' = next_sensor /\ owner' = owner
      /\ sensor_states' = sensor_states /\ thread_violations' = thread_violations
      /\ merged' = merged /\ result' = result /\ timeline' = timeline
  BY <1>s, <1>p, <1>st, <1>v DEF NextReading
<1>2. /\ DOMAIN worker = Threads
      /\ owner \in [Tokens -> Threads \cup {NoThread}]
  BY <1>0 DEF TypeOK
<1>3. /\ \A u \in Threads : worker'[u] = IF u = t THEN w ELSE worker[u]
      /\ \A u \in Threads : worker'[u].sensor = worker[u].sensor
  BY <1>s, <1>1, <1>2
<1>4. owner[s] = t /\ t # NoThread
  BY <1>0, <1>s, OwnerOfHeld
<1>5. TypeOK'
  BY <1>0, NextReadingType
<1>6. DispatchInv'
  BY <1>0, <1>1, <1>3 DEF DispatchInv, Sequence
<1>7. StateInv'
  <2>1. \A z \in Tokens : Base(z)' = Base(z) /\ Sequence(z)' = Sequence(z)
    BY <1>1 DEF Base, Sequence
  <2>2. \A z, st, n : Summarises(st, z, n)' <=> Summarises(st, z, n)
    BY <1>1 DEF Summarises, MaximalRun, RunEndsAt
  <2>3. WorkerState(t, s)'
    <3>1. \A i \in StatefulSlots(s) :
             MaximalRun(SensorRules[s][i], timeline[s], k + 1, state.consecutive_violations[i])
      <4>1. WorkerState(t, s)
        BY <1>0, <1>s DEF StateInv
      <4>2. \A i \in StatefulSlots(s) : i < worker[t].rule
        BY <1>0, <1>r, SequenceFacts DEF StatefulSlots
      <4> QED
        BY <1>k, <1>p, <1>st, <4>1, <4>2 DEF WorkerState
    <3>2. /\ worker'[t].reading = p + 1 /\ worker'[t].rule = 1
          /\ worker'[t].state = Remember(value, state)
      BY <1>3
    <3>3. /\ Remember(value, state).has_previous
          /\ Remember(value, state).previous_value = value
          /\ Remember(value, state).consecutive_violations = state.consecutive_violations
      BY DEF Remember, SensorState
    <3>4. (Base(s) + worker[t].reading - 1)' = k + 1
      BY <1>0, <1>k, <2>1, <3>2, SequenceFacts
    <3>5. k + 1 > 0
      OBVIOUS
    <3>6. \A i \in StatefulSlots(s) : ~ (i < 1)
      BY DEF StatefulSlots
    <3>7. timeline'[s][k + 1] = value
      BY <1>1, <1>v
    <3> QED
      BY <1>1, <3>1, <3>2, <3>3, <3>4, <3>5, <3>6, <3>7 DEF WorkerState
  <2>4. ASSUME NEW z \in Tokens, NEW u \in Threads, worker'[u].sensor = z
        PROVE  WorkerState(u, z)'
    <3>1. CASE u = t
      <4>1. z = s
        BY <1>s, <1>3, <2>4, <3>1
      <4> QED
        BY <2>3, <3>1, <4>1
    <3>2. CASE u # t
      <4>1. worker'[u] = worker[u] /\ worker[u].sensor = z
        BY <1>3, <2>4, <3>2
      <4>2. WorkerState(u, z)
        BY <1>0, <4>1 DEF StateInv
      <4> QED
        BY SMTT(30), <1>1, <2>1, <4>1, <4>2 DEF WorkerState, MaximalRun, RunEndsAt
    <3> QED
      BY <3>1, <3>2
  <2>5. ASSUME NEW z \in Tokens, initialized, \A u \in Threads : worker'[u].sensor # z
        PROVE  Summarises(sensor_states[z], z,
                          IF owner[z] = NoThread THEN Base(z) ELSE Len(timeline[z]))
    BY <1>0, <1>3, <2>5 DEF StateInv
  <2> QED
    BY <1>1, <2>1, <2>2, <2>4, <2>5 DEF StateInv
<1>8. ASSUME NEW z \in Tokens, NEW q \in 1 .. Len(Sequence(z)),
             NEW i \in 1 .. Len(SensorRules[z])
      PROVE  Done(z, q, i)' <=> Done(z, q, i)
  <2>1. CASE z = s
    <3>1. Done(z, q, i) <=> Precedes(<<q, i>>, <<p, worker[t].rule>>)
      BY <1>s, <1>p, <1>4, <2>1 DEF Done
    <3>2. Done(z, q, i)' <=> Precedes(<<q, i>>, <<p + 1, 1>>)
      BY <1>1, <1>3, <1>4, <2>1 DEF Done
    <3>3. i < worker[t].rule
      BY <1>0, <1>r, <2>1, SequenceFacts
    <3>4. q \in Nat /\ p \in Nat /\ i \in Nat \ {0}
      OBVIOUS
    <3>5. Precedes(<<q, i>>, <<p + 1, 1>>) <=> Precedes(<<q, i>>, <<p, worker[t].rule>>)
      BY <3>3, <3>4 DEF Precedes
    <3> QED
      BY <3>1, <3>2, <3>5
  <2>2. CASE z # s
    <3>1. CASE owner[z] = NoThread
      BY <1>1, <2>2, <3>1 DEF Done
    <3>2. CASE owner[z] = t
      BY <1>s, <1>1, <1>3, <2>2, <3>2 DEF Done
    <3>3. CASE owner[z] # NoThread /\ owner[z] # t
      BY <1>1, <1>2, <1>3, <2>2, <3>3 DEF Done
    <3> QED
      BY <3>1, <3>2, <3>3
  <2> QED
    BY <2>1, <2>2
<1>9. FoundIsExpected' /\ ExpectedIsFound' /\ ListsInOrder'
  BY <1>0, <1>1, <1>8, ListsFrame
<1> QED
  BY <1>0, <1>1, <1>5, <1>6, <1>7, <1>9, TimelineFrame, MergeFrame DEF IInv

LEMMA WriteBackIInv ==
    ASSUME IInv, NEW t \in Threads, WriteBack(t)
    PROVE  IInv'
<1>0. /\ TypeOK /\ DispatchInv /\ TimelineInv /\ StateInv
      /\ FoundIsExpected /\ ExpectedIsFound /\ ListsInOrder /\ MergeInv
  BY DEF IInv
<1>s. PICK s \in Tokens : s = worker[t].sensor
  BY <1>0, BusyWorker DEF WriteBack
<1>1. /\ phase = "parallel"
      /\ worker[t].reading > Len(Sequence(s))
      /\ sensor_states' = [sensor_states EXCEPT ![s] = worker[t].state]
      /\ worker' = [worker EXCEPT ![t] = IdleWorker]
      /\ phase' = phase /\ call' = call /\ initialized' = initialized
      /\ next_sensor' = next_sensor /\ owner' = owner
      /\ thread_violations' = thread_violations
      /\ merged' = merged /\ result' = result /\ timeline' = timeline
  BY <1>s DEF WriteBack
<1>2. /\ DOMAIN worker = Threads
      /\ owner \in [Tokens -> Threads \cup {NoThread}]
      /\ initialized /\ DOMAIN sensor_states = Tokens
  BY <1>0, <1>1 DEF TypeOK
<1>3. /\ \A u \in Threads : worker'[u] = IF u = t THEN IdleWorker ELSE worker[u]
      /\ worker'[t].sensor = NoSensor
  BY <1>1, <1>2 DEF IdleWorker
<1>4. owner[s] = t /\ t # NoThread /\ s # NoSensor
  BY <1>0, <1>s, OwnerOfHeld, SizeAssumption DEF Tokens, NoSensor
<1>5. worker[t].reading = Len(Sequence(s)) + 1
  <2>1. worker[t] \in ActiveWorker(s)
    BY <1>0, <1>s, <1>4, BusyWorker
  <2>2. worker[t].reading \in 1 .. (Len(Sequence(s)) + 1)
    BY <2>1 DEF ActiveWorker
  <2> QED
    BY <1>0, <1>1, <2>2, SequenceFacts
<1>6. WorkerState(t, s)
  BY <1>0, <1>s DEF StateInv
<1>7. worker[t].rule = 1 /\ Base(s) + worker[t].reading - 1 = Len(timeline[s])
  BY <1>0, <1>5, <1>6, SequenceFacts DEF WorkerState
<1>8. Summarises(worker[t].state, s, Len(timeline[s]))
  <2>1. \A j \in StatefulSlots(s) : ~ (j < 1)
    BY DEF StatefulSlots
  <2> QED
    BY <1>6, <1>7, <2>1 DEF WorkerState, Summarises
<1>9. TypeOK'
  BY <1>0, WriteBackType
<1>10. DispatchInv'
  <2>1. ASSUME NEW u \in Threads, worker'[u].sensor # NoSensor
        PROVE  phase' = "parallel" /\ owner'[worker'[u].sensor] = u
    BY <1>0, <1>1, <1>3, <2>1 DEF DispatchInv
  <2>2. \A z \in Tokens : Sequence(z)' = Sequence(z)
    BY <1>1 DEF Sequence
  <2> QED
    BY <1>0, <1>1, <2>1, <2>2 DEF DispatchInv
<1>11. StateInv'
  <2>1. \A z \in Tokens : Base(z)' = Base(z) /\ Sequence(z)' = Sequence(z)
    BY <1>1 DEF Base, Sequence
  <2>2. \A z, st, n : Summarises(st, z, n)' <=> Summarises(st, z, n)
    BY <1>1 DEF Summarises, MaximalRun, RunEndsAt
  <2>3. ASSUME NEW z \in Tokens, NEW u \in Threads, worker'[u].sensor = z
        PROVE  WorkerState(u, z)'
    <3>1. u # t
      BY <1>3, <2>3, SizeAssumption DEF Tokens, NoSensor
    <3>2. worker'[u] = worker[u] /\ worker[u].sensor = z
      BY <1>3, <2>3, <3>1
    <3>3. WorkerState(u, z)
      BY <1>0, <3>2 DEF StateInv
    <3> QED
      BY <1>1, <2>1, <3>2, <3>3 DEF WorkerState, MaximalRun, RunEndsAt
  <2>4. ASSUME NEW z \in Tokens, \A u \in Threads : worker'[u].sensor # z
        PROVE  Summarises(sensor_states'[z], z,
                          IF owner[z] = NoThread THEN Base(z) ELSE Len(timeline[z]))
    <3>1. CASE z = s
      <4>1. sensor_states'[z] = worker[t].state
        BY <1>1, <1>2, <3>1
      <4> QED
        BY <1>4, <1>8, <3>1, <4>1
    <3>2. CASE z # s
      <4>1. sensor_states'[z] = sensor_states[z]
        BY <1>1, <1>2, <3>2
      <4>2. \A u \in Threads : worker[u].sensor # z
        BY <1>s, <1>3, <2>4, <3>2
      <4> QED
        BY <1>0, <1>2, <4>1, <4>2 DEF StateInv
    <3> QED
      BY <3>1, <3>2
  <2> QED
    BY <1>1, <2>1, <2>2, <2>3, <2>4 DEF StateInv
<1>12. ASSUME NEW z \in Tokens, NEW q \in 1 .. Len(Sequence(z)),
              NEW i \in 1 .. Len(SensorRules[z])
       PROVE  Done(z, q, i)' <=> Done(z, q, i)
  <2>1. CASE z = s
    <3>1. Done(z, q, i)'
      BY <1>1, <1>3, <1>4, <2>1 DEF Done
    <3>2. Precedes(<<q, i>>, <<worker[t].reading, worker[t].rule>>)
      BY <1>0, <1>5, <2>1, SequenceFacts DEF Precedes
    <3>3. Done(z, q, i)
      BY <1>s, <1>4, <2>1, <3>2 DEF Done
    <3> QED
      BY <3>1, <3>3
  <2>2. CASE z # s
    <3>1. CASE owner[z] = NoThread
      BY <1>1, <2>2, <3>1 DEF Done
    <3>2. CASE owner[z] = t
      <4>1. worker[t].sensor # z /\ worker'[t].sensor # z
        BY <1>s, <1>3, <2>2, SizeAssumption DEF Tokens, NoSensor
      <4> QED
        BY <1>1, <3>2, <4>1 DEF Done
    <3>3. CASE owner[z] # NoThread /\ owner[z] # t
      BY <1>1, <1>2, <1>3, <2>2, <3>3 DEF Done
    <3> QED
      BY <3>1, <3>2, <3>3
  <2> QED
    BY <2>1, <2>2
<1>13. FoundIsExpected' /\ ExpectedIsFound' /\ ListsInOrder'
  BY <1>0, <1>1, <1>12, ListsFrame
<1> QED
  BY <1>0, <1>1, <1>9, <1>10, <1>11, <1>13, TimelineFrame, MergeFrame DEF IInv

LEMMA StartCallIInv ==
    ASSUME IInv, NEW c \in Call, WellFormedCall(c), StartCall(c)
    PROVE  IInv'
<1>0. TypeOK /\ DispatchInv /\ TimelineInv /\ StateInv
  BY DEF IInv
<1>1. /\ phase = "idle" /\ phase' = "parallel"
      /\ call' = c /\ c \in Call /\ WellFormedCall(c)
      /\ initialized'
      /\ sensor_states' = Initialized(sensor_states)
      /\ next_sensor' = 0
      /\ merged' = 0
      /\ owner' = [s \in Tokens |-> NoThread]
      /\ worker' = [t \in Threads |-> IdleWorker]
      /\ thread_violations' = [t \in Threads |-> [g \in 1 .. Len(c.groups) |-> << >>]]
      /\ result' = [g \in 1 .. Len(c.groups) |-> << >>]
  BY DEF StartCall
<1>2. /\ \A s \in Tokens : Sequence(s)' = c.sensor_sequences[s]
      /\ \A s \in Tokens : \A p : ValueOf(s, p)' = ValueIn(c, s, p)
      /\ Groups' = 1 .. Len(c.groups)
  BY <1>1 DEF Sequence, ValueOf, ValueIn, Groups
<1>3. ASSUME NEW s \in Tokens
      PROVE  /\ Len(timeline[s]) \in Nat /\ Len(Sequence(s)') \in Nat
             /\ Len(timeline'[s]) = Len(timeline[s]) + Len(Sequence(s)')
             /\ Base(s)' = Len(timeline[s])
             /\ \A i \in 1 .. Len(timeline[s]) : timeline'[s][i] = timeline[s][i]
             /\ \A p \in 1 .. Len(Sequence(s)') :
                   timeline'[s][Len(timeline[s]) + p] = ValueOf(s, p)'
  <2> DEFINE new == [p \in 1 .. Len(c.sensor_sequences[s]) |-> ValueIn(c, s, p)]
  <2>1. timeline'[s] = timeline[s] \o new
    BY DEF StartCall
  <2>2. Len(c.sensor_sequences[s]) \in Nat
    BY <1>1 DEF Call
  <2>3. \A p \in 1 .. Len(c.sensor_sequences[s]) : ValueIn(c, s, p) \in Value
    BY <1>1, ValueInType
  <2>4. /\ new \in Seq(Value)
        /\ Len(new) = Len(c.sensor_sequences[s])
        /\ \A p \in 1 .. Len(c.sensor_sequences[s]) : new[p] = ValueIn(c, s, p)
    BY <2>2, <2>3
  <2>5. timeline[s] \in Seq(Value) /\ Len(timeline[s]) \in Nat
    BY <1>0 DEF TypeOK
  <2> HIDE DEF new
  <2>6. Len(timeline'[s]) = Len(timeline[s]) + Len(c.sensor_sequences[s])
    <3>1. Len(timeline[s] \o new) = Len(timeline[s]) + Len(new)
      BY <2>4, <2>5, ConcatFacts
    <3> QED
      BY <2>1, <2>4, <3>1
  <2>7. /\ \A i \in 1 .. Len(timeline[s]) : timeline'[s][i] = timeline[s][i]
        /\ \A p \in 1 .. Len(new) : timeline'[s][Len(timeline[s]) + p] = new[p]
    BY <2>1, <2>4, <2>5, ConcatFacts
  <2>8. Base(s)' = Len(timeline[s])
    <3>1. Base(s)' = Len(timeline'[s]) - Len(c.sensor_sequences[s])
      BY <1>2 DEF Base
    <3>2. PICK a \in Nat : \E b \in Nat :
             a = Len(timeline[s]) /\ b = Len(c.sensor_sequences[s])
      BY <2>2, <2>5
    <3> QED
      BY <2>6, <3>1, <3>2
  <2> QED
    BY <1>2, <2>2, <2>4, <2>5, <2>6, <2>7, <2>8
<1>4. TypeOK'
  BY <1>0, <1>1, StartCallType
<1>5. /\ \A t \in Threads : worker'[t].sensor = NoSensor
      /\ \A s \in Tokens : owner'[s] = NoThread
  BY <1>1 DEF IdleWorker
<1>6. DispatchInv'
  <2>1. \A s \in Tokens : s >= next_sensor'
    BY <1>1, SizeAssumption DEF Tokens
  <2> QED
    BY <1>1, <1>5, <2>1 DEF DispatchInv
<1>7. TimelineInv'
  <2>1. \A s \in Tokens : Len(Sequence(s)') <= Len(timeline'[s])
    BY <1>3
  <2>2. ASSUME NEW s \in Tokens, NEW p \in 1 .. Len(Sequence(s)')
        PROVE  timeline'[s][Base(s)' + p] = ValueOf(s, p)'
    BY <1>3
  <2> QED
    BY <1>1, <2>1, <2>2 DEF TimelineInv
<1>8. StateInv'
  <2>1. \A t \in Threads, s \in Tokens : worker'[t].sensor # s
    BY <1>5, SizeAssumption DEF NoSensor, Tokens
  <2>2. ASSUME NEW s \in Tokens
        PROVE  Summarises(sensor_states'[s], s, Len(timeline[s]))
    <3>1. CASE initialized
      <4>1. sensor_states'[s] = sensor_states[s]
        BY <1>1, <3>1 DEF Initialized
      <4>2. \A t \in Threads : worker[t].sensor # s
        BY <1>0, <1>1, SizeAssumption DEF DispatchInv, NoSensor, Tokens
      <4>3. owner[s] = NoThread => Base(s) = Len(timeline[s])
        <5>1. owner[s] = NoThread => Sequence(s) = << >>
          BY <1>0, <1>1 DEF DispatchInv
        <5> QED
          BY <1>0, <5>1, SequenceFacts
      <4> QED
        BY <1>0, <3>1, <4>1, <4>2, <4>3 DEF StateInv
    <3>2. CASE ~ initialized
      <4>1. sensor_states'[s] = FreshState(s)
        BY <1>1, <3>2 DEF Initialized
      <4>2. timeline[s] = << >> /\ Len(timeline[s]) = 0
        BY <1>0, <3>2 DEF TimelineInv
      <4>3. /\ ~ FreshState(s).has_previous
            /\ \A j \in StatefulSlots(s) : FreshState(s).consecutive_violations[j] = 0
        BY DEF FreshState
      <4>4. \A j \in StatefulSlots(s) : MaximalRun(SensorRules[s][j], timeline[s], 0, 0)
        BY DEF MaximalRun, RunEndsAt
      <4>5. ~ (0 > 0)
        OBVIOUS
      <4> QED
        BY <4>1, <4>2, <4>3, <4>4, <4>5 DEF Summarises
    <3> QED
      BY <3>1, <3>2
  <2>3. ASSUME NEW s \in Tokens
        PROVE  Summarises(sensor_states[s], s, Base(s))'
    <3>1. Base(s)' = Len(timeline[s]) /\ Len(timeline[s]) \in Nat
      BY <1>3
    <3>2. \A i \in 1 .. Len(timeline[s]) : timeline[s][i] = timeline'[s][i]
      BY <1>3
    <3>3. Len(timeline[s]) > 0 => Len(timeline[s]) \in 1 .. Len(timeline[s])
      BY <3>1
    <3>4. \A j \in StatefulSlots(s) :
             MaximalRun(SensorRules[s][j], timeline'[s], Len(timeline[s]),
                        sensor_states'[s].consecutive_violations[j])
      BY <2>2, <3>1, <3>2, RunOfPrefix DEF Summarises
    <3>5. /\ sensor_states'[s].has_previous <=> Len(timeline[s]) > 0
          /\ Len(timeline[s]) > 0
               => sensor_states'[s].previous_value = timeline'[s][Len(timeline[s])]
      BY <2>2, <3>2, <3>3 DEF Summarises
    <3> QED
      BY <3>1, <3>4, <3>5 DEF Summarises
  <2> QED
    BY <1>5, <2>1, <2>3 DEF StateInv
<1>9. /\ \A t \in Threads, g \in Groups' : thread_violations'[t][g] = << >>
      /\ \A g \in Groups' : result'[g] = << >>
  BY <1>1, <1>2
<1>10. ToSet(<< >>) = {} /\ SensorOrder(<< >>)
  BY DEF ToSet, SensorOrder
<1>11. FoundIsExpected' /\ ListsInOrder'
  BY <1>9, <1>10 DEF FoundIsExpected, ListsInOrder
<1>12. ExpectedIsFound'
  BY <1>5 DEF ExpectedIsFound, Done
<1>13. MergeInv'
  <2>1. 0 .. (merged' - 1) = {}
    BY <1>1
  <2> QED
    BY <1>9, <1>10, <2>1 DEF MergeInv
<1> QED
  BY <1>4, <1>6, <1>7, <1>8, <1>11, <1>12, <1>13 DEF IInv

LEMMA PhaseChangeIInv ==
    ASSUME IInv, EndParallel \/ Return
    PROVE  IInv'
<1>0. /\ TypeOK /\ DispatchInv /\ TimelineInv /\ StateInv
      /\ FoundIsExpected /\ ExpectedIsFound /\ ListsInOrder /\ MergeInv
  BY DEF IInv
<1>1. /\ call' = call /\ initialized' = initialized
      /\ sensor_states' = sensor_states /\ next_sensor' = next_sensor
      /\ owner' = owner /\ worker' = worker
      /\ thread_violations' = thread_violations
      /\ merged' = merged /\ result' = result /\ timeline' = timeline
  BY DEF EndParallel, Return
<1>2. DispatchInv'
  <2>1. \A t \in Threads : worker[t].sensor = NoSensor
    BY <1>0 DEF EndParallel, Return, DispatchInv
  <2>2. \A s \in Tokens : Sequence(s) # << >> => owner[s] # NoThread
    <3>1. CASE EndParallel
      BY <1>0, <3>1, SizeAssumption DEF EndParallel, DispatchInv, Tokens
    <3>2. CASE Return
      BY <1>0, <3>2 DEF Return, DispatchInv
    <3> QED
      BY <3>1, <3>2
  <2>3. phase' # "parallel" /\ (phase' = "idle" => merged = NumThreads)
    BY DEF EndParallel, Return
  <2>4. \A s \in Tokens : Sequence(s)' = Sequence(s)
    BY <1>1 DEF Sequence
  <2> QED
    BY <1>0, <1>1, <2>1, <2>2, <2>3, <2>4 DEF DispatchInv
<1>3. \A s \in Tokens : \A p, j : Done(s, p, j)' <=> Done(s, p, j)
  BY <1>1 DEF Done
<1>4. FoundIsExpected' /\ ExpectedIsFound' /\ ListsInOrder'
  BY <1>0, <1>1, <1>3, ListsFrame
<1> QED
  BY <1>0, <1>1, <1>2, <1>4, PhaseChangeType, TimelineFrame, StateFrame, MergeFrame DEF IInv

LEMMA MergeThreadIInv ==
    ASSUME IInv, MergeThread
    PROVE  IInv'
<1>0. /\ TypeOK /\ DispatchInv /\ TimelineInv /\ StateInv
      /\ FoundIsExpected /\ ExpectedIsFound /\ ListsInOrder /\ MergeInv
  BY DEF IInv
<1>1. /\ phase = "merge" /\ phase' = phase
      /\ merged < NumThreads /\ merged' = merged + 1
      /\ call' = call /\ initialized' = initialized
      /\ sensor_states' = sensor_states /\ next_sensor' = next_sensor
      /\ owner' = owner /\ worker' = worker
      /\ thread_violations' = thread_violations /\ timeline' = timeline
  BY DEF MergeThread
<1>m. PICK m \in Threads : m = merged
  BY <1>0, <1>1, SizeAssumption DEF TypeOK, Threads
<1>2. DispatchInv'
  BY <1>0, <1>1 DEF DispatchInv, Sequence
<1>3. \A s \in Tokens : \A p, j : Done(s, p, j)' <=> Done(s, p, j)
  BY <1>1 DEF Done
<1>4. FoundIsExpected' /\ ExpectedIsFound' /\ ListsInOrder'
  BY <1>0, <1>1, <1>3, ListsFrame
<1>5. MergeInv'
  <2>1. Groups' = Groups
    BY <1>1 DEF Groups
  <2>2. 0 .. (merged' - 1) = (0 .. (merged - 1)) \cup {m}
    BY <1>1, <1>m DEF Threads
  <2> SUFFICES ASSUME NEW g \in Groups
               PROVE  /\ ToSet(result'[g]) = UNION {ToSet(thread_violations[t][g]) :
                                                       t \in 0 .. (merged' - 1)}
                      /\ SensorOrder(result'[g])
    BY <1>1, <2>1 DEF MergeInv
  <2> DEFINE L == result[g]
             M == thread_violations[m][g]
  <2>3. result'[g] = L \o M
    BY <1>m DEF MergeThread
  <2>4. L \in Seq(ViolationType) /\ M \in Seq(ViolationType)
    BY <1>0 DEF TypeOK
  <2>5. /\ ToSet(L) = UNION {ToSet(thread_violations[t][g]) : t \in 0 .. (merged - 1)}
        /\ SensorOrder(L) /\ SensorOrder(M)
    BY <1>0 DEF MergeInv, ListsInOrder
  <2>6. ASSUME NEW x \in ToSet(L), NEW y \in ToSet(M)
        PROVE  x.sensor_token # y.sensor_token
    <3>1. PICK t \in 0 .. (merged - 1) : x \in ToSet(thread_violations[t][g])
      BY <2>5
    <3>2. t \in Threads /\ t # m
      <4>1. t \in 0 .. (m - 1)
        BY <1>m
      <4> QED
        BY <4>1, SizeAssumption DEF Threads
    <3>3. IsFound(x, t, g) /\ IsFound(y, m, g)
      BY <1>0, <3>1, <3>2 DEF FoundIsExpected
    <3>4. owner[x.sensor_token] = t /\ owner[y.sensor_token] = m
      BY <3>3 DEF IsFound, Violation
    <3> QED
      BY <3>2, <3>4
  <2> HIDE DEF L, M
  <2>7. ToSet(L \o M) = ToSet(L) \cup ToSet(M)
    BY <2>4, ToSetConcat
  <2>8. SensorOrder(L \o M)
    BY <2>4, <2>5, <2>6, ConcatInOrder
  <2>9. UNION {ToSet(thread_violations[t][g]) : t \in 0 .. (merged' - 1)}
          = (UNION {ToSet(thread_violations[t][g]) : t \in 0 .. (merged - 1)})
              \cup ToSet(thread_violations[m][g])
    BY <2>2
  <2> QED
    BY <2>3, <2>5, <2>7, <2>8, <2>9 DEF M
<1> QED
  BY <1>0, <1>1, <1>2, <1>4, <1>5, MergeThreadType, TimelineFrame, StateFrame DEF IInv

LEMMA StutterIInv ==
    ASSUME IInv, UNCHANGED vars
    PROVE  IInv'
<1>0. /\ TypeOK /\ DispatchInv /\ TimelineInv /\ StateInv
      /\ FoundIsExpected /\ ExpectedIsFound /\ ListsInOrder /\ MergeInv
  BY DEF IInv
<1>1. /\ phase' = phase /\ calls' = calls
      /\ call' = call /\ initialized' = initialized
      /\ sensor_states' = sensor_states /\ next_sensor' = next_sensor
      /\ owner' = owner /\ worker' = worker
      /\ thread_violations' = thread_violations
      /\ merged' = merged /\ result' = result /\ timeline' = timeline
  BY DEF vars
<1>2. DispatchInv'
  BY <1>0, <1>1 DEF DispatchInv, Sequence
<1>3. \A s \in Tokens : \A p, j : Done(s, p, j)' <=> Done(s, p, j)
  BY <1>1 DEF Done
<1>4. FoundIsExpected' /\ ExpectedIsFound' /\ ListsInOrder'
  BY <1>0, <1>1, <1>3, ListsFrame
<1> QED
  BY <1>0, <1>1, <1>2, <1>4, StutterType, TimelineFrame, StateFrame, MergeFrame DEF IInv

LEMMA NextIInv == IInv /\ [Next]_vars => IInv'
<1> SUFFICES ASSUME IInv, [Next]_vars PROVE IInv'
  OBVIOUS
<1>1. ASSUME NEW c \in Calls, StartCall(c) PROVE IInv'
  BY <1>1, StartCallIInv, CallsAssumption
<1>2. ASSUME NEW t \in Threads, TakeSensor(t) PROVE IInv'
  BY <1>2, TakeSensorIInv
<1>3. ASSUME NEW t \in Threads, EvaluateRule(t) PROVE IInv'
  BY <1>3, EvaluateRuleIInv
<1>4. ASSUME NEW t \in Threads, NextReading(t) PROVE IInv'
  BY <1>4, NextReadingIInv
<1>5. ASSUME NEW t \in Threads, WriteBack(t) PROVE IInv'
  BY <1>5, WriteBackIInv
<1>6. CASE EndParallel \/ Return
  BY <1>6, PhaseChangeIInv
<1>7. CASE MergeThread
  BY <1>7, MergeThreadIInv
<1>8. CASE NoMoreCalls \/ UNCHANGED vars
  BY <1>8, StutterIInv DEF NoMoreCalls
<1> QED
  BY <1>1, <1>2, <1>3, <1>4, <1>5, <1>6, <1>7, <1>8 DEF Next, ThreadStep

-----------------------------------------------------------------------------
(* The state of RuleEvaluation is always described by the inductive       *)
(* invariant: whatever the threads do, what they have found so far is      *)
(* exactly what they have evaluated so far.                                *)
THEOREM InductiveInvariant == Spec => []IInv
<1>1. Init => IInv
  BY InitIInv
<1>2. IInv /\ [Next]_vars => IInv'
  BY NextIInv
<1> QED
  BY <1>1, <1>2, PTL DEF Spec

(* When the call has returned, every list is in the result. *)
LEMMA ReturnedMerged ==
    ASSUME IInv, Returned
    PROVE  /\ \A g \in Groups : ToSet(result[g]) =
                 UNION {ToSet(thread_violations[t][g]) : t \in Threads}
           /\ \A t \in Threads : worker[t].sensor = NoSensor
<1>1. merged = NumThreads
  BY DEF IInv, DispatchInv, Returned
<1>2. 0 .. (merged - 1) = Threads
  BY <1>1 DEF Threads
<1> QED
  BY <1>2 DEF IInv, MergeInv, DispatchInv, Returned

LEMMA NoneIsFalse == IInv => NoFalseAlarm
<1> SUFFICES ASSUME IInv, Returned, NEW g \in Groups, NEW v \in ToSet(result[g])
             PROVE  IsExpected(v, g)
  BY DEF NoFalseAlarm
<1>1. PICK t \in Threads : v \in ToSet(thread_violations[t][g])
  BY ReturnedMerged
<1>2. IsFound(v, t, g)
  BY <1>1 DEF IInv, FoundIsExpected
<1> QED
  BY <1>2 DEF IsFound, IsExpected

(* evaluate_rules_parallel returns no violation that is not one: for any   *)
(* rules, batches and number of threads, under any schedule.               *)
THEOREM FalseAlarms == Spec => []NoFalseAlarm
<1>1. IInv => NoFalseAlarm
  BY NoneIsFalse
<1> QED
  BY <1>1, InductiveInvariant, PTL

LEMMA NoneIsMissed == IInv => NoMissedAlarm
<1> SUFFICES ASSUME IInv, Returned, NEW s \in Tokens,
                    NEW p \in 1 .. Len(Sequence(s)),
                    NEW j \in 1 .. Len(SensorRules[s]), Expected(s, p, j)
             PROVE  Violation(s, p, j) \in ToSet(result[GroupOf(s, p)])
  BY DEF NoMissedAlarm
<1>1. TypeOK /\ TimelineInv /\ DispatchInv /\ ExpectedIsFound
  BY DEF IInv
<1>2. Sequence(s) # << >>
  <2>1. Sequence(s) = << >> => Len(Sequence(s)) = 0
    OBVIOUS
  <2>2. Len(Sequence(s)) # 0
    OBVIOUS
  <2> QED
    BY <2>1, <2>2
<1>3. owner[s] # NoThread /\ owner[s] \in Threads
  BY <1>1, <1>2 DEF Returned, DispatchInv, TypeOK
<1>4. Done(s, p, j)
  <2>1. worker[owner[s]].sensor # s
    BY <1>3, ReturnedMerged, SizeAssumption DEF Tokens, NoSensor
  <2> QED
    BY <1>3, <2>1 DEF Done
<1>5. Violation(s, p, j) \in ToSet(thread_violations[owner[s]][GroupOf(s, p)])
  BY <1>1, <1>4 DEF ExpectedIsFound
<1>6. GroupOf(s, p) \in Groups
  BY <1>1, ViolationOk
<1> QED
  BY <1>3, <1>5, <1>6, ReturnedMerged

(* evaluate_rules_parallel loses no violation.                             *)
THEOREM MissedAlarms == Spec => []NoMissedAlarm
<1>1. IInv => NoMissedAlarm
  BY NoneIsMissed
<1> QED
  BY <1>1, InductiveInvariant, PTL

(* Within one sensor the alarms of a timestamp are in the order of its     *)
(* readings and rules, however the threads' lists were put together.       *)
THEOREM AlarmOrder == Spec => []AlarmsInReadingOrder
<1>1. IInv => AlarmsInReadingOrder
  BY DEF IInv, MergeInv, AlarmsInReadingOrder
<1> QED
  BY <1>1, InductiveInvariant, PTL

LEMMA StatesSummarise == IInv => StateCarriesOver
<1> SUFFICES ASSUME IInv, Returned, initialized, NEW s \in Tokens
             PROVE  Summarises(sensor_states[s], s, Len(timeline[s]))
  BY DEF StateCarriesOver
<1>1. TypeOK /\ TimelineInv /\ DispatchInv /\ StateInv
  BY DEF IInv
<1>2. \A t \in Threads : worker[t].sensor # s
  BY ReturnedMerged, SizeAssumption DEF Tokens, NoSensor
<1>3. Summarises(sensor_states[s], s,
                 IF owner[s] = NoThread THEN Base(s) ELSE Len(timeline[s]))
  BY <1>1, <1>2 DEF StateInv
<1>4. owner[s] = NoThread => Base(s) = Len(timeline[s])
  <2>1. owner[s] = NoThread => Sequence(s) = << >>
    BY <1>1 DEF DispatchInv, Returned
  <2>2. Sequence(s) = << >> => Len(Sequence(s)) = 0
    OBVIOUS
  <2> QED
    BY <1>1, <2>1, <2>2, SequenceFacts
<1> QED
  BY <1>3, <1>4

(* The state a batch leaves behind is a function of the readings alone: no *)
(* cut into batches and no schedule shows in it.                           *)
THEOREM StateIsSummary == Spec => []StateCarriesOver
<1>1. IInv => StateCarriesOver
  BY StatesSummarise
<1> QED
  BY <1>1, InductiveInvariant, PTL
=============================================================================
