-------------------------- MODULE AstraLog_proofs --------------------------
(***************************************************************************)
(* The running program, for any rules, input, batch configuration, number  *)
(* of sensors and number of threads.                                       *)
(***************************************************************************)
EXTENDS AstraLog, Orders_proofs

FeedP == INSTANCE BatchAccumulator_proofs

EvalP == INSTANCE RuleEvaluation_proofs WITH Calls <- {}, MaxCalls <- MaxBatches

-----------------------------------------------------------------------------
(***************************************************************************)
(* Phase 1: the groups of a sequence of records.                           *)
(***************************************************************************)

LEMMA OpeningsFacts ==
    ASSUME NEW R, NEW recs \in Seq(R)
    PROVE  /\ Len(recs) \in Nat
           /\ Len(Openings(recs)) \in Nat
           /\ \A k \in 1 .. Len(Openings(recs)) :
                 /\ Openings(recs)[k] \in 1 .. Len(recs)
                 /\ OpensGroup(recs, Openings(recs)[k])
           /\ \A n \in 1 .. Len(recs) :
                 OpensGroup(recs, n) => \E k \in 1 .. Len(Openings(recs)) : Openings(recs)[k] = n
           /\ \A a, b \in 1 .. Len(Openings(recs)) :
                 a < b <=> Openings(recs)[a] < Openings(recs)[b]
<1> DEFINE S == {n \in 1 .. Len(recs) : OpensGroup(recs, n)}
<1>1. Len(recs) \in Nat /\ S \in SUBSET (1 .. Len(recs))
  OBVIOUS
<1>2. Openings(recs) = Ascending(S)
  BY DEF Openings
<1>3. \A n \in S : n \in 1 .. Len(recs) /\ OpensGroup(recs, n)
  OBVIOUS
<1>4. \A n \in 1 .. Len(recs) : OpensGroup(recs, n) => n \in S
  OBVIOUS
<1> HIDE DEF S
<1>5. /\ Len(Ascending(S)) \in Nat
      /\ Ascending(S) \in [1 .. Len(Ascending(S)) -> S]
      /\ \A x \in S : \E k \in 1 .. Len(Ascending(S)) : Ascending(S)[k] = x
      /\ \A a, b \in 1 .. Len(Ascending(S)) : a < b <=> Ascending(S)[a] < Ascending(S)[b]
  BY <1>1, PlacesInOrder
<1> QED
  BY <1>1, <1>2, <1>3, <1>4, <1>5

(* The groups cover the records one after the other.                       *)
LEMMA GroupEndFacts ==
    ASSUME NEW R, NEW recs \in Seq(R), NEW k \in 1 .. Len(Openings(recs))
    PROVE  /\ k \in Nat
           /\ Openings(recs)[k] \in Nat \ {0}
           /\ GroupEnd(recs, k) \in Openings(recs)[k] .. Len(recs)
           /\ k < Len(Openings(recs))
                 => /\ k + 1 \in 1 .. Len(Openings(recs))
                    /\ Openings(recs)[k + 1] = GroupEnd(recs, k) + 1
           /\ k = Len(Openings(recs)) => GroupEnd(recs, k) = Len(recs)
<1> DEFINE opens == Openings(recs)
<1>1. /\ Len(recs) \in Nat /\ Len(opens) \in Nat
      /\ \A j \in 1 .. Len(opens) : opens[j] \in 1 .. Len(recs)
      /\ \A a, b \in 1 .. Len(opens) : a < b <=> opens[a] < opens[b]
  BY OpeningsFacts
<1>2. GroupEnd(recs, k) = IF k = Len(opens) THEN Len(recs) ELSE opens[k + 1] - 1
  BY DEF GroupEnd
<1> HIDE DEF opens
<1> SUFFICES /\ k \in Nat
             /\ opens[k] \in Nat \ {0}
             /\ GroupEnd(recs, k) \in opens[k] .. Len(recs)
             /\ k < Len(opens) => k + 1 \in 1 .. Len(opens) /\ opens[k + 1] = GroupEnd(recs, k) + 1
             /\ k = Len(opens) => GroupEnd(recs, k) = Len(recs)
  BY DEF opens
<1>3. k \in 1 .. Len(opens)
  BY DEF opens
<1>4. CASE k = Len(opens)
  BY <1>1, <1>2, <1>3, <1>4
<1>5. CASE k # Len(opens)
  <2>1. k + 1 \in 1 .. Len(opens) /\ k < k + 1
    BY <1>1, <1>3, <1>5
  <2>2. opens[k] < opens[k + 1] /\ opens[k] \in 1 .. Len(recs) /\ opens[k + 1] \in 1 .. Len(recs)
    BY <1>1, <1>3, <2>1
  <2> QED
    BY <1>1, <1>2, <1>3, <1>5, <2>1, <2>2
<1> QED
  BY <1>4, <1>5

LEMMA GroupsFacts ==
    ASSUME NEW R, NEW recs \in Seq(R)
    PROVE  LET gs == build_timestamp_groups(recs)
               opens == Openings(recs)
           IN  /\ Len(gs) = Len(opens)
               /\ \A k \in 1 .. Len(opens) :
                     /\ gs[k].timestamp = recs[opens[k]].timestamp
                     /\ gs[k].readings \in Seq({Pair(recs[n]) : n \in 1 .. Len(recs)})
                     /\ Len(gs[k].readings) = GroupEnd(recs, k) - opens[k] + 1
                     /\ \A r \in 1 .. Len(gs[k].readings) :
                           /\ opens[k] + r - 1 \in 1 .. Len(recs)
                           /\ gs[k].readings[r] = Pair(recs[opens[k] + r - 1])
<1> DEFINE gs == build_timestamp_groups(recs)
           opens == Openings(recs)
           size(k) == GroupEnd(recs, k) - opens[k] + 1
           readings(k) == [r \in 1 .. size(k) |-> Pair(recs[opens[k] + r - 1])]
           P == {Pair(recs[n]) : n \in 1 .. Len(recs)}
<1>1. gs = [k \in 1 .. Len(opens) |-> [timestamp |-> recs[opens[k]].timestamp,
                                       readings  |-> readings(k)]]
  BY DEF build_timestamp_groups
<1>2. Len(recs) \in Nat /\ Len(opens) \in Nat
  BY OpeningsFacts
<1>3. \A n \in 1 .. Len(recs) : Pair(recs[n]) \in P
  OBVIOUS
<1>4. ASSUME NEW k \in 1 .. Len(opens)
      PROVE  /\ size(k) \in Nat
             /\ \A r \in 1 .. size(k) : opens[k] + r - 1 \in 1 .. Len(recs)
  <2>1. opens[k] \in Nat \ {0} /\ GroupEnd(recs, k) \in opens[k] .. Len(recs)
    BY GroupEndFacts
  <2> HIDE DEF opens
  <2> QED
    BY <1>2, <2>1
<1> HIDE DEF opens, gs, P
<1>5. ASSUME NEW k \in 1 .. Len(opens)
      PROVE  /\ readings(k) \in Seq(P)
             /\ Len(readings(k)) = size(k)
             /\ \A r \in 1 .. size(k) : readings(k)[r] = Pair(recs[opens[k] + r - 1])
  <2> DEFINE m == size(k)
  <2>1. /\ m \in Nat
        /\ \A r \in 1 .. m : Pair(recs[opens[k] + r - 1]) \in P
    BY <1>3, <1>4
  <2> HIDE DEF m
  <2>2. /\ [r \in 1 .. m |-> Pair(recs[opens[k] + r - 1])] \in Seq(P)
        /\ Len([r \in 1 .. m |-> Pair(recs[opens[k] + r - 1])]) = m
    BY <2>1
  <2> QED
    BY <2>2 DEF m
<1>6. Len(gs) = Len(opens)
  BY <1>1, <1>2
<1>7. \A k \in 1 .. Len(opens) : /\ gs[k].timestamp = recs[opens[k]].timestamp
                                 /\ gs[k].readings = readings(k)
  BY <1>1
<1> HIDE DEF readings, size
<1>8. ASSUME NEW k \in 1 .. Len(opens)
      PROVE  /\ gs[k].readings \in Seq(P)
             /\ Len(gs[k].readings) = GroupEnd(recs, k) - opens[k] + 1
             /\ \A r \in 1 .. Len(gs[k].readings) :
                   /\ opens[k] + r - 1 \in 1 .. Len(recs)
                   /\ gs[k].readings[r] = Pair(recs[opens[k] + r - 1])
  <2>1. size(k) = GroupEnd(recs, k) - opens[k] + 1
    BY DEF size
  <2> QED
    BY <1>4, <1>5, <1>7, <2>1
<1> QED
  BY <1>6, <1>7, <1>8 DEF gs, opens, P

LEMMA OneGroup ==
    ASSUME NEW R, NEW recs \in Seq(R), NEW k \in 1 .. Len(Openings(recs))
    PROVE  LET gs == build_timestamp_groups(recs)
           IN  /\ gs[k].timestamp = recs[Openings(recs)[k]].timestamp
               /\ Len(gs[k].readings) = GroupEnd(recs, k) - Openings(recs)[k] + 1
               /\ \A r \in 1 .. Len(gs[k].readings) :
                     /\ Openings(recs)[k] + r - 1 \in 1 .. Len(recs)
                     /\ gs[k].readings[r] = Pair(recs[Openings(recs)[k] + r - 1])
BY GroupsFacts

(* A group is a run of one timestamp that cannot be made longer.           *)
LEMMA GroupIsRun ==
    ASSUME NEW R, NEW recs \in Seq(R), NEW k \in 1 .. Len(Openings(recs))
    PROVE  /\ \A n \in Openings(recs)[k] .. GroupEnd(recs, k) :
                 recs[n].timestamp = recs[Openings(recs)[k]].timestamp
           /\ GroupEnd(recs, k) < Len(recs)
                 => recs[GroupEnd(recs, k) + 1].timestamp # recs[GroupEnd(recs, k)].timestamp
<1> DEFINE opens == Openings(recs)
           first == opens[k]
           last  == GroupEnd(recs, k)
<1>1. /\ Len(recs) \in Nat /\ Len(opens) \in Nat
      /\ \A j \in 1 .. Len(opens) : opens[j] \in 1 .. Len(recs) /\ OpensGroup(recs, opens[j])
      /\ \A n \in 1 .. Len(recs) :
            OpensGroup(recs, n) => \E j \in 1 .. Len(opens) : opens[j] = n
      /\ \A a, b \in 1 .. Len(opens) : a < b <=> opens[a] < opens[b]
  BY OpeningsFacts
<1>2. /\ k \in Nat /\ first \in Nat \ {0} /\ last \in first .. Len(recs)
      /\ k < Len(opens) => k + 1 \in 1 .. Len(opens) /\ opens[k + 1] = last + 1
      /\ k = Len(opens) => last = Len(recs)
  BY GroupEndFacts
<1>3. k \in 1 .. Len(opens)
  OBVIOUS
<1> SUFFICES /\ \A n \in first .. last : recs[n].timestamp = recs[first].timestamp
             /\ last < Len(recs) => recs[last + 1].timestamp # recs[last].timestamp
  OBVIOUS
<1>4. ASSUME NEW n \in (first + 1) .. last
      PROVE  recs[n].timestamp = recs[n - 1].timestamp
  <2> SUFFICES ASSUME OpensGroup(recs, n) PROVE FALSE
    BY DEF OpensGroup
  <2>1. PICK j \in 1 .. Len(opens) : opens[j] = n
    <3> HIDE DEF opens, first, last
    <3> QED
      BY <1>1, <1>2
  <2> HIDE DEF opens, last
  <2>2. first < n
    BY <1>2
  <2>3. k < j
    BY <1>1, <1>3, <2>1, <2>2
  <2>4. k < Len(opens) /\ k + 1 <= j
    BY <1>1, <1>2, <2>3
  <2>5. ~ (opens[j] < opens[k + 1])
    BY <1>1, <1>2, <2>4
  <2> HIDE DEF first
  <2> QED
    BY <1>2, <2>1, <2>4, <2>5
<1>5. last < Len(recs) => recs[last + 1].timestamp # recs[last].timestamp
  <2> SUFFICES ASSUME last < Len(recs) PROVE recs[last + 1].timestamp # recs[last].timestamp
    OBVIOUS
  <2> HIDE DEF opens, last, first
  <2>1. k < Len(opens)
    BY <1>1, <1>2, <1>3
  <2>2. OpensGroup(recs, last + 1)
    BY <1>1, <1>2, <2>1
  <2>3. last + 1 # 1 /\ (last + 1) - 1 = last
    BY <1>2
  <2> QED
    BY <2>2, <2>3 DEF OpensGroup
<1> HIDE DEF opens, last, first
<1> DEFINE P == {m \in Nat : first + m <= last => recs[first + m].timestamp = recs[first].timestamp}
<1>6. 0 \in P
  BY <1>2
<1>7. \A m \in Nat : m \in P => m + 1 \in P
  <2> SUFFICES ASSUME NEW m \in Nat, m \in P, first + (m + 1) <= last
               PROVE  recs[first + (m + 1)].timestamp = recs[first].timestamp
    OBVIOUS
  <2>1. /\ first + (m + 1) \in (first + 1) .. last
        /\ (first + (m + 1)) - 1 = first + m
        /\ first + m <= last
    BY <1>2
  <2>2. recs[first + (m + 1)].timestamp = recs[first + m].timestamp
    BY <1>4, <2>1
  <2> QED
    BY <2>1, <2>2
<1> HIDE DEF P
<1>8. \A m \in Nat : m \in P
  BY <1>6, <1>7, Induction
<1>9. ASSUME NEW n \in first .. last PROVE recs[n].timestamp = recs[first].timestamp
  <2>1. n - first \in Nat /\ first + (n - first) = n /\ n <= last
    BY <1>2
  <2>2. n - first \in P
    BY <1>8, <2>1
  <2> QED
    BY <2>1, <2>2 DEF P
<1> QED
  BY <1>5, <1>9

LEMMA FirstGroup ==
    ASSUME NEW R, NEW recs \in Seq(R), Len(recs) > 0
    PROVE  1 \in 1 .. Len(Openings(recs)) /\ Openings(recs)[1] = 1
<1> DEFINE opens == Openings(recs)
<1>1. /\ Len(recs) \in Nat /\ Len(opens) \in Nat
      /\ \A j \in 1 .. Len(opens) : opens[j] \in 1 .. Len(recs)
      /\ \A n \in 1 .. Len(recs) :
            OpensGroup(recs, n) => \E j \in 1 .. Len(opens) : opens[j] = n
      /\ \A a, b \in 1 .. Len(opens) : a < b <=> opens[a] < opens[b]
  BY OpeningsFacts
<1> HIDE DEF opens
<1>2. OpensGroup(recs, 1)
  BY DEF OpensGroup
<1>3. PICK j \in 1 .. Len(opens) : opens[j] = 1
  BY <1>1, <1>2
<1>4. 1 \in 1 .. Len(opens)
  BY <1>1, <1>3
<1>5. ~ (1 < j)
  BY <1>1, <1>3, <1>4
<1> QED
  BY <1>1, <1>3, <1>4, <1>5 DEF opens

LEMMA NoRecordsNoGroups ==
    ASSUME NEW R, NEW recs \in Seq(R), Len(recs) = 0
    PROVE  Len(Openings(recs)) = 0
<1>1. /\ Len(Openings(recs)) \in Nat
      /\ \A j \in 1 .. Len(Openings(recs)) : Openings(recs)[j] \in 1 .. Len(recs)
  BY OpeningsFacts
<1>2. 1 \notin 1 .. Len(Openings(recs))
  BY <1>1
<1> QED
  BY <1>1, <1>2

LEMMA EveryRecordHasAGroup ==
    ASSUME NEW R, NEW recs \in Seq(R), NEW n \in 1 .. Len(recs)
    PROVE  \E k \in 1 .. Len(Openings(recs)) : n \in Openings(recs)[k] .. GroupEnd(recs, k)
<1> DEFINE opens == Openings(recs)
           last(k) == GroupEnd(recs, k)
           Holds(m) == \E k \in 1 .. Len(opens) : m \in opens[k] .. last(k)
           P == {m \in Nat : m + 1 <= Len(recs) => Holds(m + 1)}
<1>1. /\ Len(recs) \in Nat /\ Len(opens) \in Nat
      /\ \A j \in 1 .. Len(recs) :
            OpensGroup(recs, j) => \E k \in 1 .. Len(opens) : opens[k] = j
  BY OpeningsFacts
<1>2. ASSUME NEW k \in 1 .. Len(opens)
      PROVE  /\ k \in Nat
             /\ opens[k] \in Nat \ {0}
             /\ last(k) \in opens[k] .. Len(recs)
             /\ k < Len(opens) => k + 1 \in 1 .. Len(opens) /\ opens[k + 1] = last(k) + 1
             /\ k = Len(opens) => last(k) = Len(recs)
  BY GroupEndFacts
<1>3. Len(recs) > 0 => 1 \in 1 .. Len(opens) /\ opens[1] = 1
  BY FirstGroup
<1> HIDE DEF opens, last
<1>4. 0 \in P
  <2> SUFFICES ASSUME 1 <= Len(recs) PROVE Holds(1)
    OBVIOUS
  <2>1. 1 \in 1 .. Len(opens) /\ opens[1] = 1
    BY <1>1, <1>3
  <2>2. 1 \in opens[1] .. last(1)
    BY <1>1, <1>2, <2>1
  <2> QED
    BY <2>1, <2>2
<1>5. \A m \in Nat : m \in P => m + 1 \in P
  <2> SUFFICES ASSUME NEW m \in Nat, m \in P, (m + 1) + 1 <= Len(recs)
               PROVE  Holds((m + 1) + 1)
    OBVIOUS
  <2>1. PICK k \in 1 .. Len(opens) : m + 1 \in opens[k] .. last(k)
    BY <1>1
  <2>2. CASE m + 1 < last(k)
    <3>1. (m + 1) + 1 \in opens[k] .. last(k)
      BY <1>1, <1>2, <2>1, <2>2
    <3> QED
      BY <3>1
  <2>3. CASE m + 1 = last(k)
    <3>1. k < Len(opens)
      BY <1>1, <1>2, <2>3
    <3>2. k + 1 \in 1 .. Len(opens) /\ opens[k + 1] = (m + 1) + 1
      BY <1>2, <2>3, <3>1
    <3>3. (m + 1) + 1 \in opens[k + 1] .. last(k + 1)
      BY <1>1, <1>2, <3>2
    <3> QED
      BY <3>2, <3>3
  <2> QED
    BY <1>1, <1>2, <2>1, <2>2, <2>3
<1> HIDE DEF P
<1>6. \A m \in Nat : m \in P
  BY <1>4, <1>5, Induction
<1>7. n - 1 \in Nat /\ (n - 1) + 1 = n /\ n <= Len(recs)
  BY <1>1
<1>8. Holds(n)
  BY <1>6, <1>7 DEF P
<1> QED
  BY <1>8 DEF opens, last
-----------------------------------------------------------------------------
(***************************************************************************)
(* Phase 2: the sequences of the sensors, for any groups of readings.      *)
(***************************************************************************)
LEMMA FiniteRange ==
    ASSUME NEW S, IsFiniteSet(S), NEW f
    PROVE  IsFiniteSet({f[x] : x \in S})
<1> DEFINE T == {f[x] : x \in S}
           g == [x \in S |-> f[x]]
<1>1. g \in Surjection(S, T)
  BY DEF Surjection
<1> HIDE DEF T, g
<1>2. IsFiniteSet(T)
  BY <1>1, FS_Surjection
<1> QED
  BY <1>2 DEF T

LEMMA PlacesOfFacts ==
    ASSUME NEW Q, NEW gs \in Seq(Seq(Q)), NEW s
    PROVE  /\ IsFiniteSet(PlacesOf(gs, s))
           /\ PlacesOf(gs, s) \subseteq (Nat \ {0}) \X (Nat \ {0})
           /\ \A g, r : <<g, r>> \in PlacesOf(gs, s) <=>
                 /\ g \in 1 .. Len(gs)
                 /\ r \in 1 .. Len(gs[g])
                 /\ gs[g][r].sensor_token = s
<1> DEFINE own(g) == {k \in 1 .. Len(gs[g]) : gs[g][k].sensor_token = s}
           In(g) == {<<g, r>> : r \in own(g)}
           parts == [g \in 1 .. Len(gs) |-> In(g)]
<1>1. /\ Len(gs) \in Nat
      /\ \A g \in 1 .. Len(gs) : Len(gs[g]) \in Nat
  <2>1. Len(gs) \in Nat /\ \A g \in 1 .. Len(gs) : gs[g] \in Seq(Q)
    OBVIOUS
  <2> QED
    BY <2>1
<1>2. PlacesOf(gs, s) = UNION {parts[g] : g \in 1 .. Len(gs)}
  BY DEF PlacesOf
<1>3. ASSUME NEW g \in 1 .. Len(gs) PROVE IsFiniteSet(parts[g])
  <2>0. IsFiniteSet({g})
    BY FS_Singleton
  <2>1. IsFiniteSet(1 .. Len(gs[g]))
    <3>1. Len(gs[g]) \in Int
      BY <1>1
    <3> QED
      BY <3>1, FS_Interval
  <2>2. IsFiniteSet({g} \X (1 .. Len(gs[g])))
    BY <2>0, <2>1, FS_Product
  <2>3. parts[g] \in SUBSET ({g} \X (1 .. Len(gs[g])))
    OBVIOUS
  <2> QED
    BY <2>2, <2>3, FS_Subset
<1>4. IsFiniteSet(1 .. Len(gs))
  BY <1>1, FS_Interval
<1> HIDE DEF parts
<1>5. IsFiniteSet({parts[g] : g \in 1 .. Len(gs)})
  BY <1>4, FiniteRange
<1>6. IsFiniteSet(UNION {parts[g] : g \in 1 .. Len(gs)})
  BY <1>3, <1>5, FS_UNION
<1>7. \A g, r : <<g, r>> \in PlacesOf(gs, s) <=>
         /\ g \in 1 .. Len(gs)
         /\ r \in 1 .. Len(gs[g])
         /\ gs[g][r].sensor_token = s
  BY DEF PlacesOf
<1>8. PlacesOf(gs, s) \subseteq (Nat \ {0}) \X (Nat \ {0})
  BY <1>1 DEF PlacesOf
<1> QED
  BY <1>2, <1>6, <1>7, <1>8

LEMMA SequencesFacts ==
    ASSUME NEW Q, NEW gs \in Seq(Seq(Q)), NEW s \in 0 .. (NumSensors - 1)
    PROVE  LET seq == build_per_sensor_sequences(gs, NumSensors)[s]
           IN  /\ seq = Ranking(PlacesOf(gs, s), LexicalOrder)
               /\ seq \in Seq(Nat \X Nat)
               /\ Len(seq) = Cardinality(PlacesOf(gs, s))
               /\ Len(seq) \in Nat
               /\ \A p \in 1 .. Len(seq) : seq[p] \in PlacesOf(gs, s)
               /\ \A x \in PlacesOf(gs, s) : \E p \in 1 .. Len(seq) : seq[p] = x
               /\ \A p, q \in 1 .. Len(seq) : p < q <=> PairBefore(seq[p], seq[q])
<1> DEFINE S == PlacesOf(gs, s)
           seq == Ranking(S, LexicalOrder)
<1>1. build_per_sensor_sequences(gs, NumSensors)[s] = seq
  BY DEF build_per_sensor_sequences
<1>2. IsFiniteSet(S) /\ S \subseteq Nat \X Nat /\ S \subseteq Int \X Int
  BY PlacesOfFacts
<1> HIDE DEF S
<1>3. /\ IsStrictTotalOrder(S, LexicalOrder)
      /\ \A x, y \in S : <<x, y>> \in LexicalOrder <=> PairBefore(x, y)
  BY <1>2, LexicalOrderIsTotal
<1>4. /\ Len(seq) = Cardinality(S)
      /\ Enumerates(seq, S, LexicalOrder)
  BY <1>2, <1>3, RankingFacts
<1> HIDE DEF seq
<1>5. /\ Len(seq) \in Nat
      /\ seq \in [1 .. Len(seq) -> S]
      /\ \A x \in S : \E n \in 1 .. Len(seq) : seq[n] = x
      /\ \A a, b \in 1 .. Len(seq) : a < b <=> <<seq[a], seq[b]>> \in LexicalOrder
  BY <1>3, <1>4, EnumerationFacts
<1>6. \A p \in 1 .. Len(seq) : seq[p] \in S
  BY <1>5
<1>7. \A p, q \in 1 .. Len(seq) : p < q <=> PairBefore(seq[p], seq[q])
  BY <1>3, <1>5, <1>6
<1>8. seq \in Seq(Nat \X Nat)
  <2>1. seq \in Seq(S)
    BY <1>4 DEF Enumerates
  <2> QED
    BY <1>2, <2>1, SeqMonotonic
<1> QED
  BY <1>1, <1>4, <1>5, <1>6, <1>7, <1>8 DEF S, seq

(* The arguments phases 1 and 2 make for phase 3 are well-formed.          *)
LEMMA CallIsWellFormed ==
    ASSUME NEW c, c.groups \in Seq(Seq(Eval!Reading)),
           c = [groups |-> c.groups,
                sensor_sequences |-> build_per_sensor_sequences(c.groups, NumSensors)]
    PROVE  c \in Eval!Call /\ Eval!WellFormedCall(c)
<1> DEFINE gs == c.groups
           seqs == build_per_sensor_sequences(gs, NumSensors)
<1>1. c.sensor_sequences = seqs
  OBVIOUS
<1>2. Eval!Tokens = 0 .. (NumSensors - 1)
  BY DEF Eval!Tokens
<1> HIDE DEF gs
<1>3. gs \in Seq(Seq(Eval!Reading))
  BY DEF gs
<1>4. ASSUME NEW s \in Eval!Tokens
      PROVE  /\ seqs[s] \in Seq(Nat \X Nat)
             /\ Len(seqs[s]) \in Nat
             /\ \A p \in 1 .. Len(seqs[s]) : seqs[s][p] \in PlacesOf(gs, s)
             /\ \A x \in PlacesOf(gs, s) : \E p \in 1 .. Len(seqs[s]) : seqs[s][p] = x
             /\ \A p, q \in 1 .. Len(seqs[s]) : p < q <=> PairBefore(seqs[s][p], seqs[s][q])
  BY <1>2, <1>3, SequencesFacts
<1>5. seqs \in [Eval!Tokens -> Seq(Nat \X Nat)]
  <2>1. seqs = [s \in Eval!Tokens |-> seqs[s]]
    BY <1>2 DEF build_per_sensor_sequences
  <2> HIDE DEF seqs
  <2> QED
    BY <1>4, <2>1
<1> HIDE DEF seqs
<1>6. c \in Eval!Call
  BY <1>1, <1>3, <1>5 DEF Eval!Call, gs
<1>7. ASSUME NEW s \in Eval!Tokens
      PROVE  /\ \A p \in 1 .. Len(seqs[s]) : Eval!IsReadingOf(c, s, seqs[s][p])
             /\ \A p, q \in 1 .. Len(seqs[s]) : p < q => Eval!Precedes(seqs[s][p], seqs[s][q])
             /\ \A g \in 1 .. Len(gs) : \A r \in 1 .. Len(gs[g]) :
                   gs[g][r].sensor_token = s
                       => \E p \in 1 .. Len(seqs[s]) : seqs[s][p] = <<g, r>>
  <2>1. /\ PlacesOf(gs, s) \subseteq (Nat \ {0}) \X (Nat \ {0})
        /\ \A g, r : <<g, r>> \in PlacesOf(gs, s) <=>
              /\ g \in 1 .. Len(gs)
              /\ r \in 1 .. Len(gs[g])
              /\ gs[g][r].sensor_token = s
    BY <1>3, PlacesOfFacts
  <2>2. ASSUME NEW p \in 1 .. Len(seqs[s])
        PROVE  Eval!IsReadingOf(c, s, seqs[s][p])
    <3>1. seqs[s][p] \in PlacesOf(gs, s)
      BY <1>4
    <3>2. seqs[s][p] = <<seqs[s][p][1], seqs[s][p][2]>>
      BY <2>1, <3>1
    <3> QED
      BY <2>1, <3>1, <3>2 DEF Eval!IsReadingOf, gs
  <2>3. \A p, q \in 1 .. Len(seqs[s]) : p < q => Eval!Precedes(seqs[s][p], seqs[s][q])
    BY <1>4 DEF Eval!Precedes, PairBefore
  <2>4. \A g \in 1 .. Len(gs) : \A r \in 1 .. Len(gs[g]) :
           gs[g][r].sensor_token = s
               => \E p \in 1 .. Len(seqs[s]) : seqs[s][p] = <<g, r>>
    BY <1>4, <2>1
  <2> QED
    BY <2>2, <2>3, <2>4
<1>8. Eval!WellFormedCall(c)
  BY <1>1, <1>7 DEF Eval!WellFormedCall, gs
<1> QED
  BY <1>6, <1>8
-----------------------------------------------------------------------------
(***************************************************************************)
(* What is proved of RuleEvaluation and of BatchAccumulator holds of the   *)
(* parts of the program.                                                   *)
(***************************************************************************)
LEMMA EvalContext ==
    /\ NaN \notin Int
    /\ NumSensors \in Nat
    /\ NumThreads \in Nat \ {0}
    /\ MaxBatches \in Nat
    /\ SensorRules \in [EvalP!Tokens -> Seq(EvalP!Rule)]
BY SizeAssumption, RulesAssumption DEF EvalP!Tokens, EvalP!Rule, Eval!Rule, EvalP!CompOp,
   Eval!CompOp

LEMMA EvalStart ==
    ASSUME EvalP!IInv, NEW c, c \in Eval!Call, Eval!WellFormedCall(c), Eval!StartCall(c)
    PROVE  EvalP!IInv'
<1>1. c \in EvalP!Call
  BY DEF Eval!Call, EvalP!Call, Eval!Reading, EvalP!Reading, Eval!Tokens, EvalP!Tokens,
         Eval!NoSensor, EvalP!NoSensor, Eval!Value, EvalP!Value
<1>2. EvalP!WellFormedCall(c)
  BY ZenonT(60) DEF Eval!WellFormedCall, EvalP!WellFormedCall, Eval!IsReadingOf, EvalP!IsReadingOf,
         Eval!Precedes, EvalP!Precedes, Eval!Tokens, EvalP!Tokens
<1>3. EvalP!StartCall(c)
  BY ZenonT(60) DEF Eval!StartCall, EvalP!StartCall, Eval!Tokens, EvalP!Tokens, Eval!Threads,
         EvalP!Threads, Eval!NoThread, EvalP!NoThread, Eval!IdleWorker, EvalP!IdleWorker,
         Eval!NoSensor, EvalP!NoSensor, Eval!Initialized, EvalP!Initialized,
         Eval!FreshState, EvalP!FreshState, Eval!StatefulSlots, EvalP!StatefulSlots,
         Eval!ValueIn, EvalP!ValueIn
<1> QED
  BY <1>1, <1>2, <1>3, EvalP!StartCallIInv, EvalContext

LEMMA EvalThreadStep ==
    ASSUME EvalP!IInv, NEW t \in Eval!Threads, Eval!ThreadStep(t)
    PROVE  EvalP!IInv'
<1>1. t \in EvalP!Threads
  BY DEF Eval!Threads, EvalP!Threads
<1>2. CASE Eval!TakeSensor(t)
  <2>1. EvalP!TakeSensor(t)
    BY <1>2, ZenonT(60) DEF Eval!TakeSensor, EvalP!TakeSensor, Eval!Sequence, EvalP!Sequence,
           Eval!NoSensor, EvalP!NoSensor, Eval!LoadState, EvalP!LoadState,
           Eval!FreshState, EvalP!FreshState, Eval!StatefulSlots, EvalP!StatefulSlots
  <2> QED
    BY <1>1, <2>1, EvalP!TakeSensorIInv, EvalContext
<1>3. CASE Eval!EvaluateRule(t)
  <2>1. EvalP!EvaluateRule(t)
    BY <1>3, ZenonT(60) DEF Eval!EvaluateRule, EvalP!EvaluateRule, Eval!NoSensor, EvalP!NoSensor,
           Eval!ValueOf, EvalP!ValueOf, Eval!ValueIn, EvalP!ValueIn,
           Eval!Sequence, EvalP!Sequence, Eval!GroupOf, EvalP!GroupOf,
           Eval!Violation, EvalP!Violation, Eval!RuleFires, EvalP!RuleFires,
           Eval!StateAfterRule, EvalP!StateAfterRule, Eval!NextCount, EvalP!NextCount,
           Eval!evaluate_threshold, EvalP!evaluate_threshold,
           Eval!evaluate_step_diff, EvalP!evaluate_step_diff,
           Eval!evaluate_stateful, EvalP!evaluate_stateful,
           Eval!evaluate_comparison, EvalP!evaluate_comparison,
           Eval!Delta, EvalP!Delta
  <2> QED
    BY <1>1, <2>1, EvalP!EvaluateRuleIInv, EvalContext
<1>4. CASE Eval!NextReading(t)
  <2>1. EvalP!NextReading(t)
    BY <1>4, ZenonT(60) DEF Eval!NextReading, EvalP!NextReading, Eval!NoSensor, EvalP!NoSensor,
           Eval!ValueOf, EvalP!ValueOf, Eval!ValueIn, EvalP!ValueIn,
           Eval!Sequence, EvalP!Sequence, Eval!Remember, EvalP!Remember
  <2> QED
    BY <1>1, <2>1, EvalP!NextReadingIInv, EvalContext
<1>5. CASE Eval!WriteBack(t)
  <2>1. EvalP!WriteBack(t)
    BY <1>5 DEF Eval!WriteBack, EvalP!WriteBack, Eval!NoSensor, EvalP!NoSensor,
           Eval!Sequence, EvalP!Sequence, Eval!IdleWorker, EvalP!IdleWorker
  <2> QED
    BY <1>1, <2>1, EvalP!WriteBackIInv, EvalContext
<1> QED
  BY <1>2, <1>3, <1>4, <1>5 DEF Eval!ThreadStep

LEMMA EvalInit == Eval!Init => EvalP!IInv
<1> SUFFICES ASSUME Eval!Init PROVE EvalP!IInv
  OBVIOUS
<1>1. EvalP!Init
  BY DEF Eval!Init, EvalP!Init, Eval!Tokens, EvalP!Tokens, Eval!Threads, EvalP!Threads,
         Eval!NoThread, EvalP!NoThread, Eval!IdleWorker, EvalP!IdleWorker,
         Eval!NoSensor, EvalP!NoSensor
<1> QED
  BY <1>1, EvalP!InitIInv, EvalContext

LEMMA EvalMainStep ==
    ASSUME EvalP!IInv, Eval!EndParallel \/ Eval!MergeThread \/ Eval!Return
    PROVE  EvalP!IInv'
<1>1. CASE Eval!EndParallel
  <2>1. EvalP!EndParallel
    BY <1>1 DEF Eval!EndParallel, EvalP!EndParallel, Eval!Threads, EvalP!Threads,
           Eval!NoSensor, EvalP!NoSensor
  <2> QED
    BY <2>1, EvalP!PhaseChangeIInv, EvalContext
<1>2. CASE Eval!MergeThread
  <2>1. EvalP!MergeThread
    BY <1>2 DEF Eval!MergeThread, EvalP!MergeThread, Eval!Groups, EvalP!Groups
  <2> QED
    BY <2>1, EvalP!MergeThreadIInv, EvalContext
<1>3. CASE Eval!Return
  <2>1. EvalP!Return
    BY <1>3 DEF Eval!Return, EvalP!Return
  <2> QED
    BY <2>1, EvalP!PhaseChangeIInv, EvalContext
<1> QED
  BY <1>1, <1>2, <1>3

LEMMA EvalStutter ==
    ASSUME EvalP!IInv, UNCHANGED eval_vars
    PROVE  EvalP!IInv'
<1>1. UNCHANGED EvalP!vars
  BY DEF eval_vars, EvalP!vars
<1> QED
  BY <1>1, EvalP!StutterIInv, EvalContext

LEMMA FeedContext ==
    /\ \A r \in Inputs : r \in Seq(Record)
    /\ \A c \in Configs : c \in FeedP!Config
    /\ MaxTime \in Nat
BY InputsAssumption, ConfigsAssumption, SizeAssumption DEF Feed!Config, FeedP!Config

LEMMA FeedInit == Feed!Init => FeedP!IInv
<1> SUFFICES ASSUME Feed!Init PROVE FeedP!IInv
  OBVIOUS
<1>1. FeedP!Init
  BY DEF Feed!Init, FeedP!Init
<1> QED
  BY <1>1, FeedP!InitIInv, FeedContext

LEMMA FeedStutter ==
    ASSUME FeedP!IInv, UNCHANGED feed_vars
    PROVE  FeedP!IInv'
<1>1. UNCHANGED FeedP!feed_vars
  BY DEF feed_vars, FeedP!feed_vars
<1> QED
  BY <1>1, FeedP!StutterIInv, FeedContext

LEMMA FeedSteps ==
    ASSUME FeedP!IInv, Tick \/ FeedStep \/ EndBatch
    PROVE  FeedP!IInv'
<1>1. CASE Tick
  <2>1. FeedP!Tick
    BY <1>1 DEF Tick, Feed!Tick, FeedP!Tick
  <2> QED
    BY <2>1, FeedP!TickIInv, FeedContext
<1>2. CASE Feed!AddRecord
  <2>1. FeedP!AddRecord
    BY <1>2 DEF Feed!AddRecord, FeedP!AddRecord, Feed!EndOfRun, FeedP!EndOfRun
  <2> QED
    BY <2>1, FeedP!AddRecordIInv, FeedContext
<1>3. CASE Feed!CheckFlush
  <2>1. FeedP!CheckFlush
    BY <1>3 DEF Feed!CheckFlush, FeedP!CheckFlush, Feed!should_flush, FeedP!should_flush
  <2> QED
    BY <2>1, FeedP!CheckFlushIInv, FeedContext
<1>4. CASE Feed!FlushRemaining
  <2>1. FeedP!FlushRemaining
    BY <1>4 DEF Feed!FlushRemaining, FeedP!FlushRemaining
  <2> QED
    BY <2>1, FeedP!FlushRemainingIInv, FeedContext
<1>5. CASE Feed!Flush
  <2>1. FeedP!Flush
    BY <1>5 DEF Feed!Flush, FeedP!Flush
  <2> QED
    BY <2>1, FeedP!FlushIInv, FeedContext
<1>6. ASSUME NEW written \in BOOLEAN, Feed!AuditAndRestartTimer(written) PROVE FeedP!IInv'
  <2>1. FeedP!AuditAndRestartTimer(written)
    BY <1>6 DEF Feed!AuditAndRestartTimer, FeedP!AuditAndRestartTimer,
           Feed!write_batch_file, FeedP!write_batch_file
  <2> QED
    BY <2>1, FeedP!AuditIInv, FeedContext
<1>7. CASE EndBatch
  <2>1. FeedP!ProcessBatch
    BY <1>7 DEF EndBatch, Feed!ProcessBatch, FeedP!ProcessBatch
  <2> QED
    BY <2>1, FeedP!ProcessBatchIInv, FeedContext
<1> QED
  BY <1>1, <1>2, <1>3, <1>4, <1>5, <1>6, <1>7 DEF FeedStep
-----------------------------------------------------------------------------
(***************************************************************************)
(* The batch in hand is a slice of the input that starts and ends where a  *)
(* run of one timestamp does.                                              *)
(***************************************************************************)
AtRunEnd(n) ==
    n = 0 \/ n = Len(records) \/ records[n].timestamp # records[n + 1].timestamp

LEMMA InputFacts ==
    ASSUME FeedP!IInv
    PROVE  /\ records \in Seq(Record)
           /\ Len(records) \in Nat /\ Len(processed) \in Nat /\ Len(batch) \in Nat
           /\ Len(processed) + Len(batch) <= Len(records)
           /\ AtRunEnd(Len(processed))
<1>1. FeedP!TypeOK /\ FeedP!InOrderExactlyOnce /\ FeedP!CutsInv /\ FeedP!RunsIntact
  BY DEF FeedP!IInv
<1>2. /\ Len(records) \in Nat /\ i \in Nat \ {0} /\ i <= Len(records) + 1
      /\ Len(processed) \in Nat /\ Len(batch) \in Nat /\ Len(buffer) \in Nat
      /\ Len(cuts) \in Nat
      /\ Len(processed) + Len(batch) + Len(buffer) = i - 1
  BY FeedP!Lengths, FeedContext
<1>3. records \in Seq(Record)
  BY <1>1, FeedContext DEF FeedP!TypeOK
<1>4. Len(processed) + Len(batch) <= Len(records)
  BY <1>2
<1>5. Len(processed) = FeedP!Start(Len(cuts) + 1)
  BY <1>1 DEF FeedP!CutsInv
<1>6. AtRunEnd(Len(processed))
  <2>1. CASE Len(cuts) = 0
    BY <1>2, <1>5, <2>1 DEF FeedP!Start, AtRunEnd
  <2>2. CASE Len(cuts) # 0
    <3>1. Len(cuts) \in 1 .. Len(cuts) /\ Len(processed) = cuts[Len(cuts)]
      BY <1>2, <1>5, <2>2 DEF FeedP!Start
    <3>2. FeedP!EndOfRun(cuts[Len(cuts)])
      BY <1>1, <3>1 DEF FeedP!RunsIntact
    <3> QED
      BY <3>1, <3>2 DEF FeedP!EndOfRun, AtRunEnd
  <2> QED
    BY <2>1, <2>2
<1> QED
  BY <1>2, <1>3, <1>4, <1>6

LEMMA BatchFacts ==
    ASSUME FeedP!IInv, pc = "process"
    PROVE  /\ Len(batch) > 0
           /\ BatchRecords \in Seq(Record)
           /\ Len(BatchRecords) = Len(batch)
           /\ \A k \in 1 .. Len(batch) :
                 /\ Len(processed) + k \in 1 .. Len(records)
                 /\ BatchRecords[k] = records[Len(processed) + k]
           /\ AtRunEnd(Len(processed) + Len(batch))
<1>1. FeedP!TypeOK /\ FeedP!InOrderExactlyOnce /\ FeedP!ControlInv
  BY DEF FeedP!IInv
<1>2. /\ Len(records) \in Nat /\ i \in Nat \ {0} /\ i <= Len(records) + 1
      /\ Len(processed) \in Nat /\ Len(batch) \in Nat /\ Len(buffer) \in Nat
      /\ Len(processed) + Len(batch) + Len(buffer) = i - 1
  BY FeedP!Lengths, FeedContext
<1>3. Len(batch) > 0 /\ Len(buffer) = 0 /\ FeedP!EndOfRun(i - 1)
  BY <1>1 DEF FeedP!ControlInv, FeedP!BatchInHand
<1>4. Len(processed) + Len(batch) = i - 1
  BY <1>2, <1>3
<1>5. AtRunEnd(Len(processed) + Len(batch))
  BY <1>3, <1>4 DEF AtRunEnd, FeedP!EndOfRun
<1>6. /\ records \in Seq(Record)
      /\ Len(processed) + Len(batch) <= Len(records)
  BY InputFacts
<1>7. \A k \in 1 .. Len(batch) : batch[k] = Len(processed) + k
  BY <1>1 DEF FeedP!InOrderExactlyOnce, FeedP!Counts
<1>8. \A k \in 1 .. Len(batch) : Len(processed) + k \in 1 .. Len(records)
  BY <1>2, <1>6
<1>9. \A k \in 1 .. Len(batch) : records[batch[k]] \in Record
  BY <1>6, <1>7, <1>8
<1>10. BatchRecords \in Seq(Record) /\ Len(BatchRecords) = Len(batch)
  BY <1>2, <1>9 DEF BatchRecords
<1> QED
  BY <1>3, <1>5, <1>7, <1>8, <1>10 DEF BatchRecords

NominalLine == [timestamp : Int, readings : Seq(Eval!Reading)]

LEMMA GroupsType ==
    ASSUME NEW recs \in Seq(Record)
    PROVE  /\ build_timestamp_groups(recs) \in Seq(NominalLine)
           /\ CallOf(build_timestamp_groups(recs)).groups \in Seq(Seq(Eval!Reading))
           /\ Len(build_timestamp_groups(recs)) = Len(Openings(recs))
           /\ Len(CallOf(build_timestamp_groups(recs)).groups) = Len(Openings(recs))
           /\ Len(Openings(recs)) \in Nat
           /\ Len(recs) > 0 => Len(Openings(recs)) > 0
<1> DEFINE gs == build_timestamp_groups(recs)
           opens == Openings(recs)
           P == {Pair(recs[n]) : n \in 1 .. Len(recs)}
<1>1. /\ Len(recs) \in Nat /\ Len(opens) \in Nat
      /\ \A k \in 1 .. Len(opens) : opens[k] \in 1 .. Len(recs)
  BY OpeningsFacts
<1>2. /\ Len(gs) = Len(opens)
      /\ \A k \in 1 .. Len(opens) :
            /\ gs[k].timestamp = recs[opens[k]].timestamp
            /\ gs[k].readings \in Seq(P)
  BY GroupsFacts
<1>3. \A n \in 1 .. Len(recs) : recs[n] \in Record
  OBVIOUS
<1>4. P \subseteq Eval!Reading
  BY <1>3, SizeAssumption DEF Record, Pair, Eval!Reading, Eval!Tokens, Eval!NoSensor, Eval!Value
<1>5. \A k \in 1 .. Len(opens) : gs[k] = [timestamp |-> gs[k].timestamp, readings |-> gs[k].readings]
  BY DEF build_timestamp_groups
<1>6. gs = [k \in 1 .. Len(opens) |-> gs[k]]
  BY DEF build_timestamp_groups
<1> HIDE DEF gs, opens, P
<1>7. ASSUME NEW k \in 1 .. Len(opens) PROVE gs[k] \in NominalLine
  <2>1. gs[k].timestamp \in Int
    BY <1>1, <1>2, <1>3 DEF Record
  <2>2. gs[k].readings \in Seq(Eval!Reading)
    BY <1>2, <1>4, SeqMonotonic
  <2>3. [timestamp |-> gs[k].timestamp, readings |-> gs[k].readings] \in NominalLine
    BY <2>1, <2>2 DEF NominalLine
  <2> QED
    BY <1>5, <2>3
<1>8. gs \in Seq(NominalLine)
  BY <1>1, <1>6, <1>7
<1>9. /\ CallOf(gs).groups = [g \in 1 .. Len(gs) |-> gs[g].readings]
  BY DEF CallOf
<1>10. \A k \in 1 .. Len(opens) : gs[k].readings \in Seq(Eval!Reading)
  BY <1>7 DEF NominalLine
<1>11. CallOf(gs).groups \in Seq(Seq(Eval!Reading)) /\ Len(CallOf(gs).groups) = Len(opens)
  BY <1>1, <1>2, <1>9, <1>10
<1>12. Len(recs) > 0 => 1 \in 1 .. Len(opens)
  BY FirstGroup DEF opens
<1>13. Len(recs) > 0 => Len(opens) > 0
  BY <1>1, <1>12
<1> QED
  BY <1>1, <1>2, <1>8, <1>11, <1>13 DEF gs, opens

(* The records before the g-th group of the batch, and those up to its end. *)
Before(g) == Len(processed) + Openings(BatchRecords)[g] - 1
UpTo(g)   == Len(processed) + GroupEnd(BatchRecords, g)

LEMMA GroupPlaces ==
    ASSUME FeedP!IInv, pc = "process", groups = build_timestamp_groups(BatchRecords),
           NEW g \in 1 .. Len(groups)
    PROVE  /\ Len(groups) \in Nat /\ g \in 1 .. Len(Openings(BatchRecords))
           /\ Before(g) \in Nat /\ UpTo(g) \in Nat
           /\ Len(processed) <= Before(g)
           /\ Before(g) < UpTo(g)
           /\ UpTo(g) <= Len(processed) + Len(batch)
           /\ Len(groups[g].readings) = UpTo(g) - Before(g)
           /\ groups[g].timestamp = records[Before(g) + 1].timestamp
           /\ \A r \in 1 .. Len(groups[g].readings) :
                 groups[g].readings[r] = Pair(records[Before(g) + r])
           /\ g = Len(groups) => UpTo(g) = Len(processed) + Len(batch)
           /\ g = 1 => Before(g) = Len(processed)
           /\ g > 1 => g - 1 \in 1 .. Len(groups) /\ Before(g) = UpTo(g - 1)
<1> DEFINE recs == BatchRecords
           opens == Openings(recs)
           first == opens[g]
           last == GroupEnd(recs, g)
           B == Len(processed)
<1>1. /\ recs \in Seq(Record) /\ Len(recs) = Len(batch) /\ Len(batch) \in Nat
      /\ Len(batch) > 0 /\ B \in Nat
      /\ \A k \in 1 .. Len(batch) : recs[k] = records[B + k]
  BY InputFacts, BatchFacts
<1>2. /\ Len(groups) = Len(opens) /\ Len(opens) \in Nat
  BY <1>1, GroupsType
<1>3. g \in 1 .. Len(opens)
  BY <1>2
<1>4. /\ groups[g].timestamp = recs[first].timestamp
      /\ Len(groups[g].readings) = last - first + 1
      /\ \A r \in 1 .. Len(groups[g].readings) :
            /\ first + r - 1 \in 1 .. Len(recs)
            /\ groups[g].readings[r] = Pair(recs[first + r - 1])
  <2> HIDE DEF recs
  <2>1. /\ recs \in Seq(Record) /\ groups = build_timestamp_groups(recs)
        /\ g \in 1 .. Len(Openings(recs))
    BY <1>1, <1>3 DEF recs
  <2>2. LET gs == build_timestamp_groups(recs)
        IN  /\ gs[g].timestamp = recs[Openings(recs)[g]].timestamp
            /\ Len(gs[g].readings) = GroupEnd(recs, g) - Openings(recs)[g] + 1
            /\ \A r \in 1 .. Len(gs[g].readings) :
                  /\ Openings(recs)[g] + r - 1 \in 1 .. Len(recs)
                  /\ gs[g].readings[r] = Pair(recs[Openings(recs)[g] + r - 1])
    BY <2>1, OneGroup, Zenon
  <2> QED
    BY <2>1, <2>2
<1>5. /\ g \in Nat
      /\ first \in Nat \ {0}
      /\ last \in first .. Len(recs)
      /\ g = Len(opens) => last = Len(recs)
  BY <1>1, <1>3, GroupEndFacts
<1>6. g > 1 => g - 1 \in 1 .. Len(opens) /\ first = GroupEnd(recs, g - 1) + 1
  <2> SUFFICES ASSUME g > 1 PROVE g - 1 \in 1 .. Len(opens) /\ first = GroupEnd(recs, g - 1) + 1
    OBVIOUS
  <2>1. g - 1 \in 1 .. Len(opens) /\ g - 1 < Len(opens) /\ (g - 1) + 1 = g
    BY <1>2, <1>3
  <2>2. opens[(g - 1) + 1] = GroupEnd(recs, g - 1) + 1
    BY <1>1, <2>1, GroupEndFacts
  <2> QED
    BY <2>1, <2>2
<1>7. g = 1 => first = 1
  BY <1>1, FirstGroup
<1>8. g > 1 => GroupEnd(recs, g - 1) \in Nat
  <2> SUFFICES ASSUME g > 1 PROVE GroupEnd(recs, g - 1) \in Nat
    OBVIOUS
  <2>1. GroupEnd(recs, g - 1) = IF g - 1 = Len(opens) THEN Len(recs) ELSE opens[(g - 1) + 1] - 1
    BY DEF GroupEnd
  <2>2. (g - 1) + 1 = g /\ g - 1 # Len(opens)
    BY <1>2, <1>3
  <2> QED
    BY <1>5, <2>1, <2>2
<1>9. Before(g) = B + first - 1 /\ UpTo(g) = B + last
  BY DEF Before, UpTo
<1>10. g > 1 => UpTo(g - 1) = B + GroupEnd(recs, g - 1)
  BY DEF UpTo
<1> HIDE DEF recs, opens, first, last, B
<1>11. Len(groups[g].readings) = UpTo(g) - Before(g)
  BY <1>1, <1>4, <1>5, <1>9
<1>12. groups[g].timestamp = records[Before(g) + 1].timestamp
  <2>1. first \in 1 .. Len(batch) /\ B + first = Before(g) + 1
    BY <1>1, <1>5, <1>9
  <2> QED
    BY <1>1, <1>4, <2>1
<1>13. \A r \in 1 .. Len(groups[g].readings) : groups[g].readings[r] = Pair(records[Before(g) + r])
  <2> SUFFICES ASSUME NEW r \in 1 .. Len(groups[g].readings)
               PROVE  groups[g].readings[r] = Pair(records[Before(g) + r])
    OBVIOUS
  <2>0. Len(groups[g].readings) \in Nat
    BY <1>4, <1>5, <1>1
  <2>1. /\ first + r - 1 \in 1 .. Len(batch) /\ groups[g].readings[r] = Pair(recs[first + r - 1])
        /\ B + (first + r - 1) = Before(g) + r
    BY <1>1, <1>4, <1>5, <1>9, <2>0
  <2> QED
    BY <1>1, <2>1
<1>14. g \in 1 .. Len(Openings(BatchRecords))
  BY <1>3 DEF opens, recs
<1>15. /\ Before(g) \in Nat /\ UpTo(g) \in Nat
       /\ B <= Before(g) /\ Before(g) < UpTo(g) /\ UpTo(g) <= B + Len(batch)
  BY <1>1, <1>5, <1>9
<1>16. g = Len(groups) => UpTo(g) = B + Len(batch)
  BY <1>1, <1>2, <1>5, <1>9
<1>17. g = 1 => Before(g) = B
  BY <1>1, <1>7, <1>9
<1>18. g > 1 => g - 1 \in 1 .. Len(groups) /\ Before(g) = UpTo(g - 1)
  BY <1>1, <1>2, <1>6, <1>8, <1>9, <1>10
<1> QED
  BY <1>2, <1>11, <1>12, <1>13, <1>14, <1>15, <1>16, <1>17, <1>18 DEF B

LEMMA GroupIsMonitorRun ==
    ASSUME FeedP!IInv, pc = "process", groups = build_timestamp_groups(BatchRecords),
           NEW g \in 1 .. Len(groups)
    PROVE  /\ Mon!IsRun(Before(g), UpTo(g))
           /\ AtRunEnd(Before(g)) /\ AtRunEnd(UpTo(g))
           /\ \A n \in (Before(g) + 1) .. UpTo(g) :
                 n \in 1 .. Len(records) /\ records[n].timestamp = groups[g].timestamp
<1> DEFINE B == Len(processed)
           L == Len(batch)
           recs == BatchRecords
           opens == Openings(recs)
           Ends(j) == UpTo(j) < Len(records)
                         => records[UpTo(j) + 1].timestamp # records[UpTo(j)].timestamp
<1>1. /\ recs \in Seq(Record) /\ Len(recs) = L /\ L \in Nat /\ B \in Nat
      /\ Len(records) \in Nat /\ B + L <= Len(records)
      /\ \A k \in 1 .. L : recs[k] = records[B + k]
      /\ AtRunEnd(B) /\ AtRunEnd(B + L)
  BY InputFacts, BatchFacts
<1>2. /\ Len(groups) \in Nat /\ g \in 1 .. Len(opens)
      /\ Before(g) \in Nat /\ UpTo(g) \in Nat
      /\ B <= Before(g) /\ Before(g) < UpTo(g) /\ UpTo(g) <= B + L
      /\ groups[g].timestamp = records[Before(g) + 1].timestamp
      /\ g = 1 => Before(g) = B
      /\ g > 1 => g - 1 \in 1 .. Len(groups) /\ Before(g) = UpTo(g - 1)
  BY GroupPlaces
<1>3. ASSUME NEW j \in 1 .. Len(groups)
      PROVE  /\ \A n \in (Before(j) + 1) .. UpTo(j) :
                   records[n].timestamp = records[Before(j) + 1].timestamp
             /\ Ends(j)
             /\ AtRunEnd(UpTo(j))
  <2> DEFINE first == opens[j]
             last == GroupEnd(recs, j)
  <2>1. /\ j \in 1 .. Len(opens)
        /\ Before(j) \in Nat /\ UpTo(j) \in Nat
        /\ B <= Before(j) /\ Before(j) < UpTo(j) /\ UpTo(j) <= B + L
    BY GroupPlaces
  <2>2. /\ \A n \in first .. last : recs[n].timestamp = recs[first].timestamp
        /\ last < Len(recs) => recs[last + 1].timestamp # recs[last].timestamp
    BY <1>1, <2>1, GroupIsRun
  <2>3. Before(j) = B + first - 1 /\ UpTo(j) = B + last
    BY DEF Before, UpTo
  <2>4. first \in Nat \ {0} /\ last \in first .. Len(recs)
    BY <1>1, <2>1, GroupEndFacts
  <2> HIDE DEF first, last, B, L, recs, opens
  <2>5. \A n \in (Before(j) + 1) .. UpTo(j) : records[n].timestamp = records[Before(j) + 1].timestamp
    <3> SUFFICES ASSUME NEW n \in (Before(j) + 1) .. UpTo(j)
                 PROVE  records[n].timestamp = records[Before(j) + 1].timestamp
      OBVIOUS
    <3>1. n - B \in first .. last /\ n - B \in 1 .. L /\ B + (n - B) = n
      BY <1>1, <2>1, <2>3, <2>4
    <3>2. first \in 1 .. L /\ B + first = Before(j) + 1
      BY <1>1, <2>3, <2>4
    <3>3. records[n] = recs[n - B] /\ records[Before(j) + 1] = recs[first]
      BY <1>1, <3>1, <3>2
    <3> QED
      BY <2>2, <3>1, <3>3
  <2>6. Ends(j) /\ AtRunEnd(UpTo(j))
    <3>1. CASE last = L
      BY <1>1, <2>1, <2>3, <3>1 DEF AtRunEnd
    <3>2. CASE last < L
      <4>1. /\ last \in 1 .. L /\ last + 1 \in 1 .. L
            /\ B + last = UpTo(j) /\ B + (last + 1) = UpTo(j) + 1
        BY <1>1, <2>3, <2>4, <3>2
      <4>2. records[UpTo(j) + 1] = recs[last + 1] /\ records[UpTo(j)] = recs[last]
        BY <1>1, <4>1
      <4>3. records[UpTo(j) + 1].timestamp # records[UpTo(j)].timestamp
        BY <1>1, <2>2, <3>2, <4>2
      <4> QED
        BY <4>3 DEF AtRunEnd
    <3> QED
      BY <1>1, <2>4, <3>1, <3>2
  <2> QED
    BY <2>5, <2>6
<1>4. AtRunEnd(Before(g))
  <2>1. CASE g = 1
    BY <1>1, <1>2, <2>1
  <2>2. CASE g # 1
    BY <1>2, <1>3, <2>2
  <2> QED
    BY <2>1, <2>2
<1>5. Mon!IsRun(Before(g), UpTo(g))
  <2>1. UpTo(g) \in (Before(g) + 1) .. Len(records)
    BY <1>1, <1>2
  <2> QED
    BY <1>3, <2>1 DEF Mon!IsRun
<1>6. \A n \in (Before(g) + 1) .. UpTo(g) :
         n \in 1 .. Len(records) /\ records[n].timestamp = groups[g].timestamp
  <2> HIDE DEF B, L
  <2>1. \A n \in (Before(g) + 1) .. UpTo(g) : n \in 1 .. Len(records)
    BY <1>1, <1>2
  <2> QED
    BY <1>2, <1>3, <2>1
<1> QED
  BY <1>3, <1>4, <1>5, <1>6

LEMMA ConsumedFacts ==
    ASSUME FeedP!IInv, StageInv
    PROVE  /\ Consumed \in Nat /\ Consumed <= Len(records) /\ AtRunEnd(Consumed)
           /\ next_group \in Nat \ {0} /\ Len(groups) \in Nat
           /\ stage # "append" => Consumed = Len(processed)
           /\ stage = "append" /\ next_group <= Len(groups)
                 => /\ next_group \in 1 .. Len(groups)
                    /\ Consumed = Before(next_group)
           /\ stage = "append" /\ next_group > Len(groups)
                 => Consumed = Len(processed) + Len(batch)
<1>1. /\ Len(records) \in Nat /\ Len(processed) \in Nat /\ Len(batch) \in Nat
      /\ Len(processed) + Len(batch) <= Len(records)
      /\ AtRunEnd(Len(processed))
  BY InputFacts
<1>2. next_group \in 1 .. (Len(groups) + 1)
  BY DEF StageInv
<1>3. CASE stage # "append"
  <2>1. Consumed = Len(processed)
    BY <1>3 DEF Consumed
  <2>2. Len(groups) \in Nat
    <3>1. CASE stage = "idle"
      BY <3>1 DEF StageInv
    <3>2. CASE stage # "idle"
      <4>1. BatchRecords \in Seq(Record) /\ groups = build_timestamp_groups(BatchRecords)
        BY <3>2, BatchFacts DEF StageInv
      <4> QED
        BY <4>1, GroupsType
    <3> QED
      BY <3>1, <3>2
  <2> QED
    BY <1>1, <1>2, <1>3, <2>1, <2>2
<1>4. CASE stage = "append"
  <2>1. pc = "process" /\ groups = build_timestamp_groups(BatchRecords)
    BY <1>4 DEF StageInv
  <2>2. Len(batch) > 0 /\ BatchRecords \in Seq(Record) /\ Len(BatchRecords) = Len(batch)
    BY <2>1, BatchFacts
  <2>3. Len(groups) \in Nat /\ Len(groups) > 0
    BY <2>1, <2>2, GroupsType
  <2>4. Consumed = IF next_group > 1 THEN UpTo(next_group - 1) ELSE Len(processed)
    BY <1>4 DEF Consumed, UpTo
  <2>5. ASSUME next_group <= Len(groups)
        PROVE  next_group \in 1 .. Len(groups) /\ Consumed = Before(next_group)
    <3>1. next_group \in 1 .. Len(groups)
      BY <1>2, <2>3, <2>5
    <3>2. /\ next_group = 1 => Before(next_group) = Len(processed)
          /\ next_group > 1 => Before(next_group) = UpTo(next_group - 1)
      BY <2>1, <3>1, GroupPlaces
    <3> QED
      BY <1>2, <2>4, <3>1, <3>2
  <2>6. ASSUME next_group > Len(groups)
        PROVE  /\ Consumed = Len(processed) + Len(batch)
               /\ Len(groups) \in 1 .. Len(groups) /\ Consumed = UpTo(Len(groups))
    <3>1. next_group - 1 = Len(groups) /\ next_group > 1 /\ Len(groups) \in 1 .. Len(groups)
      BY <1>2, <2>3, <2>6
    <3>2. UpTo(Len(groups)) = Len(processed) + Len(batch)
      BY <2>1, <3>1, GroupPlaces
    <3> QED
      BY <2>4, <3>1, <3>2
  <2>7. Consumed \in Nat /\ Consumed <= Len(records) /\ AtRunEnd(Consumed)
    <3>1. CASE next_group <= Len(groups)
      <4>1. next_group \in 1 .. Len(groups) /\ Consumed = Before(next_group)
        BY <2>5, <3>1
      <4>2. /\ Before(next_group) \in Nat /\ UpTo(next_group) \in Nat
            /\ Before(next_group) < UpTo(next_group)
            /\ UpTo(next_group) <= Len(processed) + Len(batch)
        BY <2>1, <4>1, GroupPlaces
      <4>3. AtRunEnd(Before(next_group))
        BY <2>1, <4>1, GroupIsMonitorRun
      <4> QED
        BY <1>1, <4>1, <4>2, <4>3
    <3>2. CASE next_group > Len(groups)
      <4>1. AtRunEnd(UpTo(Len(groups)))
        BY <2>1, <2>6, <3>2, GroupIsMonitorRun
      <4> QED
        BY <1>1, <2>6, <3>2, <4>1
    <3> QED
      BY <1>2, <2>3, <3>1, <3>2
  <2> QED
    BY <1>2, <1>4, <2>3, <2>5, <2>6, <2>7
<1> QED
  BY <1>3, <1>4
-----------------------------------------------------------------------------
(***************************************************************************)
(* The sensors' histories: what Monitor says of them, and what the batch   *)
(* in hand adds.                                                           *)
(***************************************************************************)
LEMMA ConcatPlaces ==
    ASSUME NEW S, NEW a \in Seq(S), NEW b \in Seq(S)
    PROVE  /\ a \o b \in Seq(S)
           /\ Len(a \o b) = Len(a) + Len(b)
           /\ \A k \in 1 .. Len(a) : (a \o b)[k] = a[k]
           /\ \A k \in 1 .. Len(b) : (a \o b)[Len(a) + k] = b[k]
  OBVIOUS

Own(s, n, m) == {k \in (n + 1) .. m : records[k].sensor_token = s}

ValuesOf(places) ==
    [k \in 1 .. Cardinality(places) |-> records[Ascending(places)[k]].value]

LEMMA OwnFacts ==
    ASSUME records \in Seq(Record), NEW s, NEW n \in Nat, NEW m \in Nat, m <= Len(records)
    PROVE  /\ Len(records) \in Nat
           /\ Own(s, n, m) \in SUBSET (1 .. Len(records))
           /\ Own(s, n, m) \in SUBSET Int
           /\ IsFiniteSet(Own(s, n, m))
           /\ Cardinality(Own(s, n, m)) \in Nat
           /\ Len(Ascending(Own(s, n, m))) = Cardinality(Own(s, n, m))
           /\ ValuesOf(Own(s, n, m)) \in Seq(Eval!Value)
           /\ Len(ValuesOf(Own(s, n, m))) = Cardinality(Own(s, n, m))
<1>1. Len(records) \in Nat /\ Own(s, n, m) \in SUBSET (1 .. Len(records))
  BY DEF Own
<1> DEFINE S == Own(s, n, m)
<1> HIDE DEF S
<1>2. S \in SUBSET (1 .. Len(records))
  BY <1>1 DEF S
<1>3. /\ IsFiniteSet(S) /\ S \in SUBSET Int
      /\ Cardinality(S) \in Nat /\ Len(Ascending(S)) = Cardinality(S)
  BY <1>1, <1>2, PlacesFacts
<1>4. Ascending(S) \in [1 .. Len(Ascending(S)) -> S]
  BY <1>1, <1>2, PlacesInOrder
<1>5. \A k \in 1 .. Cardinality(S) : records[Ascending(S)[k]].value \in Eval!Value
  <2> SUFFICES ASSUME NEW k \in 1 .. Cardinality(S)
               PROVE  records[Ascending(S)[k]].value \in Eval!Value
    OBVIOUS
  <2>1. Ascending(S)[k] \in 1 .. Len(records)
    BY <1>2, <1>3, <1>4
  <2>2. records[Ascending(S)[k]] \in Record
    BY <2>1
  <2> QED
    BY <2>2 DEF Record, Eval!Value
<1>6. ValuesOf(S) \in Seq(Eval!Value) /\ Len(ValuesOf(S)) = Cardinality(S)
  BY <1>3, <1>5 DEF ValuesOf
<1> QED
  BY <1>1, <1>3, <1>6 DEF S

(* Monitor has the operators of Orders under a name of its own.            *)
LEMMA SameOrders ==
    /\ \A S, order : Mon!Ranking(S, order) = Ranking(S, order)
    /\ \A seq, S : Mon!Picked(seq, S) = Picked(seq, S)
<1>1. \A S, order : Mon!Ranking(S, order) = Ranking(S, order)
  BY DEF Mon!Ranking, Ranking, Mon!Rank, Rank, Mon!Cardinality, Cardinality
<1>2. Mon!LessThan = LessThan
  BY DEF Mon!LessThan, LessThan
<1>3. \A seq, S : Mon!Picked(seq, S) = Picked(seq, S)
  <2> SUFFICES ASSUME NEW seq, NEW S PROVE Mon!Picked(seq, S) = Picked(seq, S)
    OBVIOUS
  <2>1. Mon!Ascending(S) = Ascending(S)
    BY <1>1, <1>2 DEF Mon!Ascending, Ascending
  <2>2. Mon!Cardinality(S) = Cardinality(S)
    BY DEF Mon!Cardinality, Cardinality
  <2> QED
    BY <2>1, <2>2 DEF Mon!Picked, Picked
<1> QED
  BY <1>1, <1>3

LEMMA HistoryIsValues ==
    ASSUME records \in Seq(Record), NEW s, NEW n \in Nat, n <= Len(records)
    PROVE  Mon!History(s, n) = ValuesOf(Own(s, 0, n))
<1> DEFINE S == {k \in 1 .. n : records[k].sensor_token = s}
           own == Picked(records, S)
<1>1. S = Own(s, 0, n)
  BY DEF Own
<1>2. Mon!History(s, n) = [k \in 1 .. Len(own) |-> own[k].value]
  BY SameOrders DEF Mon!History
<1>3. S \in SUBSET (1 .. Len(records))
  OBVIOUS
<1> HIDE DEF S
<1>4. /\ Len(own) = Cardinality(S)
      /\ \A k \in 1 .. Cardinality(S) : own[k] = records[Ascending(S)[k]]
  BY <1>3, PickedFacts
<1> HIDE DEF own
<1>5. [k \in 1 .. Len(own) |-> own[k].value]
         = [k \in 1 .. Cardinality(S) |-> records[Ascending(S)[k]].value]
  BY <1>4
<1> QED
  BY <1>1, <1>2, <1>5 DEF ValuesOf

LEMMA ValuesOfUnion ==
    ASSUME records \in Seq(Record), NEW s, NEW n \in Nat, NEW m \in Nat, NEW k \in Nat,
           n <= k, k <= m, m <= Len(records)
    PROVE  /\ ValuesOf(Own(s, n, m)) = ValuesOf(Own(s, n, k)) \o ValuesOf(Own(s, k, m))
           /\ Ascending(Own(s, n, m)) = Ascending(Own(s, n, k)) \o Ascending(Own(s, k, m))
           /\ Cardinality(Own(s, n, m)) = Cardinality(Own(s, n, k)) + Cardinality(Own(s, k, m))
<1> DEFINE U == Own(s, n, m)
           S == Own(s, n, k)
           T == Own(s, k, m)
<1>0. Len(records) \in Nat /\ k <= Len(records)
  OBVIOUS
<1>1. IsCut(U, S, T, LessThan)
  BY DEF IsCut, Own, LessThan
<1>2. /\ IsFiniteSet(U) /\ U \in SUBSET Int /\ U \in SUBSET (1 .. Len(records))
      /\ Len(ValuesOf(U)) = Cardinality(U)
  BY OwnFacts
<1>3. /\ Cardinality(S) \in Nat /\ Len(Ascending(S)) = Cardinality(S)
      /\ Len(ValuesOf(S)) = Cardinality(S) /\ ValuesOf(S) \in Seq(Eval!Value)
      /\ S \in SUBSET (1 .. Len(records))
  BY <1>0, OwnFacts
<1>4. /\ Cardinality(T) \in Nat /\ Len(Ascending(T)) = Cardinality(T)
      /\ Len(ValuesOf(T)) = Cardinality(T) /\ ValuesOf(T) \in Seq(Eval!Value)
      /\ T \in SUBSET (1 .. Len(records))
  BY OwnFacts
<1> HIDE DEF U, S, T
<1>5. /\ Cardinality(U) = Cardinality(S) + Cardinality(T)
      /\ Ascending(U) = Ascending(S) \o Ascending(T)
  BY <1>1, <1>2, AscendingOfUnion
<1>7. Ascending(S) \in Seq(S) /\ Ascending(T) \in Seq(T)
  BY <1>0, <1>3, <1>4, PlacesFacts DEF Enumerates
<1>8. Ascending(S) \in Seq(1 .. Len(records)) /\ Ascending(T) \in Seq(1 .. Len(records))
  BY <1>3, <1>4, <1>7, SeqMonotonic
<1>9. /\ \A j \in 1 .. Cardinality(S) : Ascending(U)[j] = Ascending(S)[j]
      /\ \A j \in 1 .. Cardinality(T) : Ascending(U)[Cardinality(S) + j] = Ascending(T)[j]
  <2> DEFINE a == Ascending(S)
             b == Ascending(T)
  <2>1. a \in Seq(1 .. Len(records)) /\ b \in Seq(1 .. Len(records))
    BY <1>8
  <2>2. Ascending(U) = a \o b /\ Len(a) = Cardinality(S) /\ Len(b) = Cardinality(T)
    BY <1>3, <1>4, <1>5
  <2> HIDE DEF a, b
  <2>3. /\ \A j \in 1 .. Len(a) : (a \o b)[j] = a[j]
        /\ \A j \in 1 .. Len(b) : (a \o b)[Len(a) + j] = b[j]
    BY <2>1, ConcatPlaces
  <2> QED
    BY <2>2, <2>3 DEF a, b
<1>10. ValuesOf(U) = ValuesOf(S) \o ValuesOf(T)
  <2> DEFINE a == Cardinality(S)
             b == Cardinality(T)
             C == ValuesOf(S) \o ValuesOf(T)
  <2>1. a \in Nat /\ b \in Nat /\ Cardinality(U) = a + b
    BY <1>3, <1>4, <1>5
  <2>2. /\ Len(C) = a + b /\ C \in Seq(Eval!Value)
        /\ \A j \in 1 .. a : C[j] = ValuesOf(S)[j]
        /\ \A j \in 1 .. b : C[a + j] = ValuesOf(T)[j]
    BY <1>3, <1>4
  <2>3. /\ \A j \in 1 .. a : ValuesOf(S)[j] = records[Ascending(U)[j]].value
        /\ \A j \in 1 .. b : ValuesOf(T)[j] = records[Ascending(U)[a + j]].value
    BY <1>9 DEF ValuesOf
  <2> HIDE DEF C, a, b
  <2>4. ASSUME NEW j \in 1 .. (a + b) PROVE C[j] = records[Ascending(U)[j]].value
    <3>1. CASE j <= a
      BY <2>1, <2>2, <2>3, <3>1
    <3>2. CASE j > a
      <4>1. j - a \in 1 .. b /\ a + (j - a) = j
        BY <2>1, <3>2
      <4> QED
        BY <2>2, <2>3, <4>1
    <3> QED
      BY <2>1, <3>1, <3>2
  <2>5. C = [j \in 1 .. (a + b) |-> C[j]]
    BY <2>2
  <2> QED
    BY <2>1, <2>4, <2>5 DEF ValuesOf, C
<1> QED
  BY <1>5, <1>10 DEF U, S, T

(* The record that stands at a place of the batch's groups.                *)
RecordAt(place) == Before(place[1]) + place[2]

LEMMA GroupsInOrder ==
    ASSUME FeedP!IInv, pc = "process", groups = build_timestamp_groups(BatchRecords),
           NEW g \in 1 .. Len(groups), NEW h \in 1 .. Len(groups), g < h
    PROVE  UpTo(g) <= Before(h)
<1> DEFINE opens == Openings(BatchRecords)
<1>1. /\ BatchRecords \in Seq(Record) /\ Len(processed) \in Nat
  BY InputFacts, BatchFacts
<1>2. /\ Len(groups) = Len(opens) /\ Len(opens) \in Nat
  BY <1>1, GroupsType
<1>3. /\ g \in 1 .. Len(opens) /\ h \in 1 .. Len(opens) /\ g < Len(opens)
      /\ g + 1 \in 1 .. Len(opens)
  BY <1>2
<1>4. /\ opens[g + 1] = GroupEnd(BatchRecords, g) + 1
      /\ GroupEnd(BatchRecords, g) \in Nat
  <2>1. /\ opens[g] \in Nat
        /\ GroupEnd(BatchRecords, g) \in opens[g] .. Len(BatchRecords)
        /\ g < Len(opens) => opens[g + 1] = GroupEnd(BatchRecords, g) + 1
    BY <1>1, <1>3, GroupEndFacts
  <2> HIDE DEF opens
  <2> QED
    BY <1>3, <2>1
<1>5. \A a, b \in 1 .. Len(opens) : a < b <=> opens[a] < opens[b]
  BY <1>1, OpeningsFacts
<1>6. opens[h] \in Nat
  BY <1>1, <1>3, GroupEndFacts
<1>7. UpTo(g) = Len(processed) + GroupEnd(BatchRecords, g) /\ Before(h) = Len(processed) + opens[h] - 1
  BY DEF UpTo, Before
<1> HIDE DEF opens
<1>8. ~ (opens[h] < opens[g + 1])
  BY <1>3, <1>5
<1> QED
  BY <1>1, <1>4, <1>6, <1>7, <1>8

LEMMA SequencePlaces ==
    ASSUME FeedP!IInv, pc = "process", groups = build_timestamp_groups(BatchRecords),
           NEW s \in 0 .. (NumSensors - 1)
    PROVE  LET seq   == CallOf(groups).sensor_sequences[s]
               batch_of_s == Own(s, Len(processed), Len(processed) + Len(batch))
           IN  /\ Len(seq) = Cardinality(batch_of_s)
               /\ Len(seq) \in Nat
               /\ \A p \in 1 .. Len(seq) :
                     /\ seq[p][1] \in 1 .. Len(groups)
                     /\ seq[p][2] \in 1 .. Len(groups[seq[p][1]].readings)
                     /\ seq[p] = <<seq[p][1], seq[p][2]>>
                     /\ Ascending(batch_of_s)[p] = RecordAt(seq[p])
               /\ \A g \in 1 .. Len(groups) : \A r \in 1 .. Len(groups[g].readings) :
                     groups[g].readings[r].sensor_token = s
                        => \E p \in 1 .. Len(seq) : seq[p] = <<g, r>>
<1> DEFINE gs == CallOf(groups).groups
           seq == CallOf(groups).sensor_sequences[s]
           B == Len(processed)
           L == Len(batch)
           S == PlacesOf(gs, s)
           T == Own(s, B, B + L)
           h == [x \in S |-> RecordAt(x)]
<1>1. /\ BatchRecords \in Seq(Record) /\ B \in Nat /\ L \in Nat /\ Len(BatchRecords) = L
      /\ records \in Seq(Record) /\ B + L <= Len(records) /\ Len(records) \in Nat
  BY InputFacts, BatchFacts
<1>2. /\ gs \in Seq(Seq(Eval!Reading)) /\ Len(gs) = Len(groups) /\ Len(groups) \in Nat
      /\ Len(groups) = Len(Openings(BatchRecords))
      /\ \A g \in 1 .. Len(groups) : gs[g] = groups[g].readings
  <2>1. /\ gs \in Seq(Seq(Eval!Reading)) /\ Len(gs) = Len(groups) /\ Len(groups) \in Nat
        /\ Len(groups) = Len(Openings(BatchRecords))
    BY <1>1, GroupsType
  <2>2. gs = [g \in 1 .. Len(groups) |-> groups[g].readings]
    BY DEF CallOf
  <2> QED
    BY <2>1, <2>2
<1>3. CallOf(groups).sensor_sequences = build_per_sensor_sequences(gs, NumSensors)
  BY DEF CallOf
<1>4. /\ seq = Ranking(S, LexicalOrder)
      /\ Len(seq) = Cardinality(S) /\ Len(seq) \in Nat
      /\ \A p \in 1 .. Len(seq) : seq[p] \in S
      /\ \A x \in S : \E p \in 1 .. Len(seq) : seq[p] = x
  <2> DEFINE q == build_per_sensor_sequences(gs, NumSensors)[s]
  <2>1. /\ q = Ranking(S, LexicalOrder)
        /\ Len(q) = Cardinality(S) /\ Len(q) \in Nat
        /\ \A p \in 1 .. Len(q) : q[p] \in S
        /\ \A x \in S : \E p \in 1 .. Len(q) : q[p] = x
    <3> HIDE DEF gs
    <3> QED
      BY <1>2, SequencesFacts
  <2>2. seq = q
    BY <1>3
  <2> HIDE DEF q, seq, S
  <2> QED
    BY <2>1, <2>2
<1>5. /\ IsFiniteSet(S)
      /\ S \subseteq (Nat \ {0}) \X (Nat \ {0})
      /\ \A g, r : <<g, r>> \in S <=>
            g \in 1 .. Len(gs) /\ r \in 1 .. Len(gs[g]) /\ gs[g][r].sensor_token = s
  BY <1>2, PlacesOfFacts
<1>6. /\ IsFiniteSet(T) /\ T \in SUBSET Int
  <2>1. B + L \in Nat
    BY <1>1
  <2> QED
    BY <1>1, <2>1, OwnFacts
<1> HIDE DEF gs, seq, S
<1>7. ASSUME NEW g \in 1 .. Len(groups)
      PROVE  /\ Before(g) \in Nat /\ UpTo(g) \in Nat
             /\ B <= Before(g) /\ Before(g) < UpTo(g) /\ UpTo(g) <= B + L
             /\ Len(groups[g].readings) = UpTo(g) - Before(g)
             /\ \A r \in 1 .. Len(groups[g].readings) :
                   groups[g].readings[r] = Pair(records[Before(g) + r])
  BY GroupPlaces
<1>8. ASSUME NEW x \in S
      PROVE  /\ x = <<x[1], x[2]>>
             /\ x[1] \in 1 .. Len(groups) /\ x[2] \in 1 .. Len(groups[x[1]].readings)
             /\ records[RecordAt(x)].sensor_token = s
             /\ RecordAt(x) \in (Before(x[1]) + 1) .. UpTo(x[1])
             /\ RecordAt(x) \in T
  <2>1. x = <<x[1], x[2]>>
    BY <1>5
  <2>2. /\ x[1] \in 1 .. Len(groups) /\ x[2] \in 1 .. Len(groups[x[1]].readings)
        /\ groups[x[1]].readings[x[2]].sensor_token = s
    BY <1>2, <1>5, <2>1
  <2>3. records[RecordAt(x)].sensor_token = s
    <3>1. groups[x[1]].readings[x[2]] = Pair(records[RecordAt(x)])
      BY <1>7, <2>2 DEF RecordAt
    <3> QED
      BY <2>2, <3>1 DEF Pair
  <2>4. RecordAt(x) \in (Before(x[1]) + 1) .. UpTo(x[1])
    <3>1. /\ Before(x[1]) \in Nat /\ UpTo(x[1]) \in Nat
          /\ x[2] \in 1 .. (UpTo(x[1]) - Before(x[1]))
      BY <1>7, <2>2
    <3> QED
      BY <3>1 DEF RecordAt
  <2>5. RecordAt(x) \in (B + 1) .. (B + L)
    <3>1. /\ Before(x[1]) \in Nat /\ UpTo(x[1]) \in Nat
          /\ B <= Before(x[1]) /\ UpTo(x[1]) <= B + L
      BY <1>7, <2>2
    <3> HIDE DEF B, L
    <3> QED
      BY <1>1, <2>4, <3>1
  <2> QED
    BY <2>1, <2>2, <2>3, <2>4, <2>5 DEF Own
<1>9. h \in [S -> T]
  BY <1>8
<1>10. \A y \in T : \E x \in S : h[x] = y
  <2> SUFFICES ASSUME NEW y \in T PROVE \E x \in S : h[x] = y
    OBVIOUS
  <2>1. y \in (B + 1) .. (B + L) /\ records[y].sensor_token = s
    BY DEF Own
  <2>2. y - B \in 1 .. L
    BY <1>1, <2>1
  <2>3. PICK g \in 1 .. Len(groups) : y - B \in Openings(BatchRecords)[g] .. GroupEnd(BatchRecords, g)
    BY <1>1, <1>2, <2>2, EveryRecordHasAGroup
  <2>4. /\ Openings(BatchRecords)[g] \in Nat /\ GroupEnd(BatchRecords, g) \in Int
    <3>1. /\ Openings(BatchRecords)[g] \in Nat \ {0}
          /\ GroupEnd(BatchRecords, g) \in Openings(BatchRecords)[g] .. Len(BatchRecords)
      BY <1>1, <1>2, GroupEndFacts
    <3> QED
      BY <3>1
  <2>5. y \in (Before(g) + 1) .. UpTo(g)
    <3> HIDE DEF B, L
    <3>1. Before(g) = B + Openings(BatchRecords)[g] - 1 /\ UpTo(g) = B + GroupEnd(BatchRecords, g)
      BY DEF Before, UpTo, B
    <3> QED
      BY <1>1, <2>1, <2>3, <2>4, <3>1
  <2>6. y - Before(g) \in 1 .. Len(groups[g].readings) /\ Before(g) + (y - Before(g)) = y
    BY <1>7, <2>5
  <2>7. groups[g].readings[y - Before(g)] = Pair(records[y])
    BY <1>7, <2>6
  <2>8. <<g, y - Before(g)>> \in S
    <3>1. groups[g].readings[y - Before(g)].sensor_token = s
      BY <2>1, <2>7 DEF Pair
    <3> HIDE DEF B, L
    <3>2. gs[g] = groups[g].readings /\ g \in 1 .. Len(gs)
      BY <1>2
    <3> QED
      BY <1>5, <2>6, <3>1, <3>2
  <2>9. h[<<g, y - Before(g)>>] = y
    BY <2>6, <2>8 DEF RecordAt
  <2> QED
    BY <2>8, <2>9
<1>11. ASSUME NEW x \in S, NEW y \in S, PairBefore(x, y)
       PROVE  RecordAt(x) < RecordAt(y)
  <2>1. /\ x[1] \in 1 .. Len(groups) /\ y[1] \in 1 .. Len(groups)
        /\ RecordAt(x) \in (Before(x[1]) + 1) .. UpTo(x[1])
        /\ RecordAt(y) \in (Before(y[1]) + 1) .. UpTo(y[1])
    BY <1>8
  <2>2. /\ Before(x[1]) \in Nat /\ UpTo(x[1]) \in Nat
        /\ Before(y[1]) \in Nat /\ UpTo(y[1]) \in Nat
    BY <1>7, <2>1
  <2>3. CASE x[1] < y[1]
    <3>1. UpTo(x[1]) <= Before(y[1])
      BY <2>1, <2>3, GroupsInOrder
    <3> QED
      BY <2>1, <2>2, <3>1
  <2>4. CASE x[1] = y[1] /\ x[2] < y[2]
    <3>1. x[2] \in Int /\ y[2] \in Int
      BY <1>5
    <3> QED
      BY <2>2, <2>4, <3>1 DEF RecordAt
  <2> QED
    BY <1>11, <2>3, <2>4 DEF PairBefore
<1>12. /\ IsStrictTotalOrder(S, LexicalOrder)
       /\ \A x, y \in S : <<x, y>> \in LexicalOrder <=> PairBefore(x, y)
  <2>1. S \subseteq Int \X Int
    BY <1>5
  <2> QED
    BY <2>1, LexicalOrderIsTotal
<1>13. /\ IsStrictTotalOrder(T, LessThan)
       /\ \A a, b \in T : <<a, b>> \in LessThan <=> a < b
  BY <1>6, LessThanIsTotal
<1> HIDE DEF T
<1>14. \A x, y \in S : <<x, y>> \in LexicalOrder => <<h[x], h[y]>> \in LessThan
  <2> SUFFICES ASSUME NEW x \in S, NEW y \in S, <<x, y>> \in LexicalOrder
               PROVE  <<h[x], h[y]>> \in LessThan
    OBVIOUS
  <2>1. RecordAt(x) < RecordAt(y) /\ RecordAt(x) \in T /\ RecordAt(y) \in T
    BY <1>8, <1>11, <1>12
  <2> QED
    BY <1>13, <2>1
<1> HIDE DEF h
<1>15. /\ Cardinality(T) = Cardinality(S)
       /\ Ranking(T, LessThan) = [n \in 1 .. Cardinality(S) |-> h[Ranking(S, LexicalOrder)[n]]]
  <2>1. /\ IsFiniteSet(S) /\ IsStrictTotalOrder(S, LexicalOrder)
        /\ IsFiniteSet(T) /\ IsStrictTotalOrder(T, LessThan)
    BY <1>5, <1>6, <1>12, <1>13
  <2> QED
    BY <1>9, <1>10, <1>14, <2>1, RankingOfImage
<1>16. \A p \in 1 .. Len(seq) : Ascending(T)[p] = RecordAt(seq[p])
  <2>1. \A p \in 1 .. Len(seq) : Ascending(T)[p] = h[seq[p]]
    BY <1>4, <1>15 DEF Ascending
  <2> QED
    BY <1>4, <2>1 DEF h
<1>17. \A g \in 1 .. Len(groups) : \A r \in 1 .. Len(groups[g].readings) :
          groups[g].readings[r].sensor_token = s => \E p \in 1 .. Len(seq) : seq[p] = <<g, r>>
  BY <1>2, <1>4, <1>5
<1>18. \A p \in 1 .. Len(seq) :
          /\ seq[p][1] \in 1 .. Len(groups)
          /\ seq[p][2] \in 1 .. Len(groups[seq[p][1]].readings)
          /\ seq[p] = <<seq[p][1], seq[p][2]>>
  BY <1>4, <1>8
<1> QED
  BY <1>4, <1>15, <1>16, <1>17, <1>18 DEF T, seq, B, L

LEMMA SequenceValues ==
    ASSUME FeedP!IInv, pc = "process", groups = build_timestamp_groups(BatchRecords),
           NEW s \in 0 .. (NumSensors - 1)
    PROVE  LET c   == CallOf(groups)
               seq == c.sensor_sequences[s]
           IN  [p \in 1 .. Len(seq) |-> Eval!ValueIn(c, s, p)]
                  = ValuesOf(Own(s, Len(processed), Len(processed) + Len(batch)))
<1> DEFINE c == CallOf(groups)
           seq == c.sensor_sequences[s]
           T == Own(s, Len(processed), Len(processed) + Len(batch))
<1>1. /\ Len(seq) = Cardinality(T)
      /\ \A p \in 1 .. Len(seq) :
            /\ seq[p][1] \in 1 .. Len(groups)
            /\ seq[p][2] \in 1 .. Len(groups[seq[p][1]].readings)
            /\ Ascending(T)[p] = RecordAt(seq[p])
  BY SequencePlaces
<1>2. \A g \in 1 .. Len(groups) : c.groups[g] = groups[g].readings
  BY DEF CallOf
<1>3. \A g \in 1 .. Len(groups) : \A r \in 1 .. Len(groups[g].readings) :
         groups[g].readings[r] = Pair(records[Before(g) + r])
  BY GroupPlaces
<1> HIDE DEF T
<1>4. ASSUME NEW p \in 1 .. Len(seq)
      PROVE  Eval!ValueIn(c, s, p) = records[Ascending(T)[p]].value
  <2>1. Eval!ValueIn(c, s, p) = c.groups[seq[p][1]][seq[p][2]].value
    BY DEF Eval!ValueIn
  <2> HIDE DEF c, seq
  <2>2. c.groups[seq[p][1]][seq[p][2]] = Pair(records[RecordAt(seq[p])])
    <3>1. /\ seq[p][1] \in 1 .. Len(groups)
          /\ seq[p][2] \in 1 .. Len(groups[seq[p][1]].readings)
      BY <1>1
    <3>2. c.groups[seq[p][1]] = groups[seq[p][1]].readings
      BY <1>2, <3>1
    <3>3. groups[seq[p][1]].readings[seq[p][2]] = Pair(records[Before(seq[p][1]) + seq[p][2]])
      BY <1>3, <3>1
    <3> QED
      BY <3>2, <3>3 DEF RecordAt
  <2> QED
    BY <1>1, <2>1, <2>2 DEF Pair
<1> HIDE DEF seq, c
<1>5. [p \in 1 .. Len(seq) |-> Eval!ValueIn(c, s, p)]
         = [p \in 1 .. Cardinality(T) |-> records[Ascending(T)[p]].value]
  BY <1>1, <1>4
<1> QED
  BY <1>5 DEF ValuesOf, T, seq, c

LEMMA HistoryAtPlace ==
    ASSUME FeedP!IInv, pc = "process", groups = build_timestamp_groups(BatchRecords),
           NEW s \in 0 .. (NumSensors - 1),
           NEW p \in 1 .. Len(CallOf(groups).sensor_sequences[s])
    PROVE  LET n == RecordAt(CallOf(groups).sensor_sequences[s][p])
               B == Len(processed)
           IN  /\ n \in 1 .. Len(records)
               /\ n \in (B + 1) .. (B + Len(batch))
               /\ records[n].sensor_token = s
               /\ Mon!History(s, n) \in Seq(Eval!Value)
               /\ Mon!History(s, B) \in Seq(Eval!Value)
               /\ Len(Mon!History(s, n)) = Len(Mon!History(s, B)) + p
               /\ \E rest \in Seq(Eval!Value) :
                     Mon!History(s, B + Len(batch)) = Mon!History(s, n) \o rest
<1> DEFINE seq == CallOf(groups).sensor_sequences[s]
           n == RecordAt(seq[p])
           B == Len(processed)
           E == B + Len(batch)
           T == Own(s, B, E)
           V == Own(s, 0, E)
<1>1. /\ records \in Seq(Record) /\ B \in Nat /\ E \in Nat /\ Len(batch) \in Nat
      /\ E <= Len(records) /\ Len(records) \in Nat /\ B <= E
  BY InputFacts
<1>2. Len(seq) = Cardinality(T) /\ Len(seq) \in Nat /\ Ascending(T)[p] = n
  BY SequencePlaces
<1>3. /\ Cardinality(T) \in Nat /\ Len(Ascending(T)) = Cardinality(T)
      /\ T \in SUBSET (1 .. Len(records))
  BY <1>1, OwnFacts
<1>4. /\ V \in SUBSET (1 .. Len(records)) /\ Cardinality(V) \in Nat
      /\ Len(Ascending(V)) = Cardinality(V)
  BY <1>1, OwnFacts
<1>5. /\ Cardinality(Own(s, 0, B)) \in Nat
      /\ Len(Ascending(Own(s, 0, B))) = Cardinality(Own(s, 0, B))
      /\ Own(s, 0, B) \in SUBSET (1 .. Len(records))
      /\ ValuesOf(Own(s, 0, B)) \in Seq(Eval!Value)
      /\ Len(ValuesOf(Own(s, 0, B))) = Cardinality(Own(s, 0, B))
  <2>1. B <= Len(records)
    BY <1>1
  <2> QED
    BY <1>1, <2>1, OwnFacts
<1>6. p \in 1 .. Cardinality(T)
  BY <1>2
<1>7. n \in T
  <2>1. Ascending(T) \in [1 .. Len(Ascending(T)) -> T]
    BY <1>1, <1>3, PlacesInOrder
  <2> HIDE DEF T, n
  <2> QED
    BY <1>2, <1>3, <1>6, <2>1
<1>8. n \in (B + 1) .. E /\ records[n].sensor_token = s
  BY <1>7 DEF Own
<1> HIDE DEF n, E, B
<1>9. n \in Nat /\ n <= Len(records) /\ n <= E /\ n \in 1 .. Len(records)
  BY <1>1, <1>8
<1>10. /\ Ascending(V) = Ascending(Own(s, 0, B)) \o Ascending(T)
       /\ Cardinality(V) = Cardinality(Own(s, 0, B)) + Cardinality(T)
  <2>1. /\ records \in Seq(Record) /\ 0 \in Nat /\ B \in Nat /\ E \in Nat
        /\ 0 <= B /\ B <= E /\ E <= Len(records)
    BY <1>1
  <2> HIDE DEF n, T, V
  <2> QED
    BY <2>1, ValuesOfUnion DEF T, V
<1> DEFINE b == Cardinality(Own(s, 0, B))
<1>11. Ascending(V)[b + p] = n /\ b + p \in 1 .. Cardinality(V)
  <2>1. /\ Ascending(Own(s, 0, B)) \in Seq(1 .. Len(records))
        /\ Ascending(T) \in Seq(1 .. Len(records))
    <3>2. Ascending(Own(s, 0, B)) \in Seq(Own(s, 0, B)) /\ Ascending(T) \in Seq(T)
      BY <1>1, <1>3, <1>5, PlacesFacts DEF Enumerates
    <3> QED
      BY <1>3, <1>5, <3>2, SeqMonotonic
  <2> HIDE DEF T, V, b
  <2>2. Ascending(V)[Len(Ascending(Own(s, 0, B))) + p] = Ascending(T)[p]
    BY <1>3, <1>6, <1>10, <2>1
  <2>3. b \in Nat /\ b = Len(Ascending(Own(s, 0, B)))
    BY <1>5 DEF b
  <2>4. Cardinality(V) = b + Cardinality(T)
    BY <1>10 DEF b
  <2> QED
    BY <1>2, <1>3, <1>6, <2>2, <2>3, <2>4
<1>12. {y \in V : y <= n} = Own(s, 0, n)
  BY <1>1, <1>9 DEF Own
<1>13. Cardinality({y \in V : y <= Ascending(V)[b + p]}) = b + p
  <2> HIDE DEF V, b
  <2> QED
    BY <1>1, <1>4, <1>11, PlaceCounts
<1>14. Cardinality(Own(s, 0, n)) = b + p
  BY <1>11, <1>12, <1>13
<1>15. /\ Mon!History(s, n) = ValuesOf(Own(s, 0, n))
       /\ Mon!History(s, B) = ValuesOf(Own(s, 0, B))
       /\ Mon!History(s, E) = ValuesOf(V)
  <2>1. B <= Len(records)
    BY <1>1
  <2> QED
    BY <1>1, <1>9, <2>1, HistoryIsValues
<1>16. /\ ValuesOf(Own(s, 0, n)) \in Seq(Eval!Value)
       /\ Len(ValuesOf(Own(s, 0, n))) = Cardinality(Own(s, 0, n))
  BY <1>1, <1>9, OwnFacts
<1>17. ValuesOf(Own(s, n, E)) \in Seq(Eval!Value)
  BY <1>1, <1>9, OwnFacts
<1>18. ValuesOf(V) = ValuesOf(Own(s, 0, n)) \o ValuesOf(Own(s, n, E))
  <2>1. /\ records \in Seq(Record) /\ 0 \in Nat /\ n \in Nat /\ E \in Nat
        /\ 0 <= n /\ n <= E /\ E <= Len(records)
    BY <1>1, <1>9
  <2> QED
    BY <2>1, ValuesOfUnion
<1>19. Len(Mon!History(s, n)) = Len(Mon!History(s, B)) + p
  BY <1>5, <1>14, <1>15, <1>16
<1>20. \E rest \in Seq(Eval!Value) : Mon!History(s, E) = Mon!History(s, n) \o rest
  BY <1>15, <1>17, <1>18
<1> QED
  BY <1>5, <1>8, <1>9, <1>15, <1>16, <1>19, <1>20 DEF n, E, B

(* A rule fires on the past alone.                                         *)
LEMMA FiresOnPrefix ==
    ASSUME NEW V, NEW h \in Seq(V), NEW rest \in Seq(V), NEW k \in 1 .. Len(h), NEW rule
    PROVE  EvalP!Fires(rule, h \o rest, k) <=> Mon!Fires(rule, h, k)
<1> DEFINE f == h \o rest
<1>1. Len(h) \in Nat /\ \A n \in 1 .. Len(h) : f[n] = h[n]
  OBVIOUS
<1> HIDE DEF f
<1>2. ASSUME NEW value PROVE EvalP!Violates(rule, value) <=> Mon!Violates(rule, value)
  BY DEF EvalP!Violates, Mon!Violates, EvalP!evaluate_comparison, Mon!evaluate_comparison
<1>3. ASSUME NEW a, NEW b
      PROVE  EvalP!evaluate_comparison(EvalP!Delta(a, b), rule.op, rule.threshold)
                <=> Mon!evaluate_comparison(Mon!Delta(a, b), rule.op, rule.threshold)
  BY DEF EvalP!evaluate_comparison, Mon!evaluate_comparison, EvalP!Delta, Mon!Delta
<1>4. f[k] = h[k]
  BY <1>1
<1>5. k > 1 => f[k - 1] = h[k - 1]
  BY <1>1
<1>6. ASSUME NEW n \in 1 .. k PROVE EvalP!RunEndsAt(rule, f, k, n) <=> Mon!RunEndsAt(rule, h, k, n)
  <2>1. \A j \in (k - n + 1) .. k : f[j] = h[j]
    BY <1>1
  <2> QED
    BY <1>2, <2>1 DEF EvalP!RunEndsAt, Mon!RunEndsAt
<1>7. EvalP!Fires(rule, f, k) <=>
         \/ rule.type = "THRESHOLD" /\ EvalP!Violates(rule, h[k])
         \/ /\ rule.type = "STEP_DIFF"
            /\ k > 1
            /\ EvalP!evaluate_comparison(EvalP!Delta(h[k], h[k - 1]), rule.op, rule.threshold)
         \/ /\ rule.type = "STATEFUL"
            /\ \E n \in 1 .. k : n >= rule.consecutive_measurements
                                    /\ EvalP!RunEndsAt(rule, f, k, n)
  BY <1>4, <1>5 DEF EvalP!Fires
<1>8. Mon!Fires(rule, h, k) <=>
         \/ rule.type = "THRESHOLD" /\ Mon!Violates(rule, h[k])
         \/ /\ rule.type = "STEP_DIFF"
            /\ k > 1
            /\ Mon!evaluate_comparison(Mon!Delta(h[k], h[k - 1]), rule.op, rule.threshold)
         \/ /\ rule.type = "STATEFUL"
            /\ \E n \in 1 .. k : n >= rule.consecutive_measurements
                                    /\ Mon!RunEndsAt(rule, h, k, n)
  BY DEF Mon!Fires
<1> QED
  BY <1>2, <1>3, <1>6, <1>7, <1>8 DEF f

(* What RuleEvaluation expects at a place is what Monitor says fires there. *)
LEMMA ExpectedIsFires ==
    ASSUME FeedP!IInv, HistoryInv, stage # "idle", pc = "process",
           groups = build_timestamp_groups(BatchRecords), call = CallOf(groups),
           NEW s \in 0 .. (NumSensors - 1), NEW p \in 1 .. Len(EvalP!Sequence(s)),
           NEW j \in 1 .. Len(SensorRules[s])
    PROVE  LET h == Mon!History(s, RecordAt(EvalP!Sequence(s)[p]))
           IN  EvalP!Expected(s, p, j) <=> Mon!Fires(SensorRules[s][j], h, Len(h))
<1> DEFINE seq == CallOf(groups).sensor_sequences[s]
           n == RecordAt(seq[p])
           h == Mon!History(s, n)
           B == Len(processed)
           E == B + Len(batch)
           rule == SensorRules[s][j]
<1>1. EvalP!Sequence(s) = seq
  BY DEF EvalP!Sequence
<1>2. p \in 1 .. Len(seq)
  BY <1>1
<1>3. /\ h \in Seq(Eval!Value) /\ Mon!History(s, B) \in Seq(Eval!Value)
      /\ Len(h) = Len(Mon!History(s, B)) + p
      /\ \E rest \in Seq(Eval!Value) : Mon!History(s, E) = h \o rest
  BY <1>2, HistoryAtPlace
<1>4. timeline[s] = Mon!History(s, E)
  BY DEF HistoryInv, Evaluated
<1>5. EvalP!Expected(s, p, j) <=> EvalP!Fires(rule, timeline[s], EvalP!Base(s) + p)
  BY DEF EvalP!Expected
<1>6. EvalP!Base(s) = Len(Mon!History(s, B))
  <2>1. Mon!History(s, E) = Mon!History(s, B) \o ValuesOf(Own(s, B, E))
    <3>1. /\ records \in Seq(Record) /\ B \in Nat /\ E \in Nat /\ B <= E /\ E <= Len(records)
          /\ Len(records) \in Nat
      BY InputFacts
    <3> HIDE DEF B, E
    <3>2. B <= Len(records)
      BY <3>1
    <3>3. Mon!History(s, B) = ValuesOf(Own(s, 0, B)) /\ Mon!History(s, E) = ValuesOf(Own(s, 0, E))
      BY <3>1, <3>2, HistoryIsValues
    <3>4. ValuesOf(Own(s, 0, E)) = ValuesOf(Own(s, 0, B)) \o ValuesOf(Own(s, B, E))
      <4>1. 0 \in Nat /\ 0 <= B
        BY <3>1
      <4> QED
        BY <3>1, <4>1, ValuesOfUnion, ZenonT(30)
    <3> QED
      BY <3>3, <3>4
  <2>2. /\ Len(ValuesOf(Own(s, B, E))) = Len(seq)
        /\ ValuesOf(Own(s, B, E)) \in Seq(Eval!Value) /\ Len(seq) \in Nat
    <3>1. Len(seq) = Cardinality(Own(s, B, E)) /\ Len(seq) \in Nat
      BY SequencePlaces
    <3>2. records \in Seq(Record) /\ B \in Nat /\ E \in Nat /\ E <= Len(records)
      BY InputFacts
    <3> HIDE DEF B, E, seq
    <3> QED
      BY <3>1, <3>2, OwnFacts
  <2>3. EvalP!Base(s) = Len(timeline[s]) - Len(seq)
    BY <1>1 DEF EvalP!Base
  <2> HIDE DEF seq, B, E
  <2>4. Len(timeline[s]) = Len(Mon!History(s, B)) + Len(ValuesOf(Own(s, B, E)))
    <3> DEFINE a == Mon!History(s, B)
               b == ValuesOf(Own(s, B, E))
    <3>1. a \in Seq(Eval!Value) /\ b \in Seq(Eval!Value) /\ timeline[s] = a \o b
      BY <1>3, <1>4, <2>1, <2>2
    <3> HIDE DEF a, b
    <3>2. Len(a \o b) = Len(a) + Len(b)
      BY <3>1, ConcatPlaces
    <3> QED
      BY <3>1, <3>2 DEF a, b
  <2>5. Len(Mon!History(s, B)) \in Nat
    BY <1>3
  <2> QED
    BY <2>2, <2>3, <2>4, <2>5
<1>7. PICK rest \in Seq(Eval!Value) : timeline[s] = h \o rest
  BY <1>3, <1>4
<1> HIDE DEF h
<1>8. /\ Len(h) \in Nat /\ Len(h) \in 1 .. Len(h)
      /\ EvalP!Base(s) + p = Len(h)
  <2>1. p \in Nat \ {0} /\ Len(Mon!History(s, B)) \in Nat
    <3>1. Len(seq) \in Nat
      BY SequencePlaces
    <3> HIDE DEF seq, B
    <3> QED
      BY <1>2, <1>3, <3>1
  <2> HIDE DEF B
  <2> QED
    BY <1>3, <1>6, <2>1
<1>9. EvalP!Fires(rule, h \o rest, Len(h)) <=> Mon!Fires(rule, h, Len(h))
  BY <1>3, <1>8, FiresOnPrefix
<1> QED
  BY <1>1, <1>5, <1>7, <1>8, <1>9 DEF h
-----------------------------------------------------------------------------
(***************************************************************************)
(* The steps of the program, and what they leave alone.                    *)
(***************************************************************************)
LEMMA FeedFrame ==
    ASSUME StageInv, Tick \/ FeedStep
    PROVE  /\ UNCHANGED <<eval_vars, batch_vars>>
           /\ records' = records /\ processed' = processed
           /\ stage # "idle" => pc' = pc /\ batch' = batch
<1>1. CASE Tick
  BY <1>1 DEF Tick, Feed!Tick
<1>2. CASE FeedStep
  BY <1>2 DEF FeedStep, Feed!AddRecord, Feed!CheckFlush, Feed!FlushRemaining, Feed!Flush,
         Feed!AuditAndRestartTimer, StageInv
<1> QED
  BY <1>1, <1>2

LEMMA EvaluatorFrame ==
    ASSUME StageInv, EvaluatorStep
    PROVE  /\ UNCHANGED <<feed_vars, batch_vars>>
           /\ stage = "evaluate"
           /\ call' = call /\ timeline' = timeline
<1>1. phase # "idle"
  BY DEF EvaluatorStep, Eval!ThreadStep, Eval!TakeSensor, Eval!EvaluateRule, Eval!NextReading,
         Eval!WriteBack, Eval!EndParallel, Eval!MergeThread, Eval!Return
<1>2. call' = call /\ timeline' = timeline
  BY DEF EvaluatorStep, Eval!ThreadStep, Eval!TakeSensor, Eval!EvaluateRule, Eval!NextReading,
         Eval!WriteBack, Eval!EndParallel, Eval!MergeThread, Eval!Return
<1> QED
  BY <1>1, <1>2, SMTT(30) DEF EvaluatorStep, StageInv

(* Every step of process_batch but the last leaves the batch in hand.      *)
LEMMA SameBatch ==
    ASSUME records' = records, batch' = batch
    PROVE  BatchRecords' = BatchRecords
BY DEF BatchRecords

LEMMA StageStep ==
    ASSUME FeedP!IInv, StageInv, [Next]_vars
    PROVE  StageInv'
<1>1. /\ next_group \in Nat \ {0} /\ Len(groups) \in Nat /\ next_group <= Len(groups) + 1
  BY ConsumedFacts DEF StageInv
<1>2. ASSUME records' = records, batch' = batch, UNCHANGED <<groups, call>>
      PROVE  groups = build_timestamp_groups(BatchRecords) /\ call = CallOf(groups)
                => /\ groups' = build_timestamp_groups(BatchRecords)'
                   /\ call' = CallOf(groups)'
  BY <1>2, SameBatch
<1>3. CASE Tick \/ FeedStep
  <2>1. /\ UNCHANGED <<eval_vars, batch_vars>> /\ records' = records
        /\ stage # "idle" => pc' = pc /\ batch' = batch
    BY <1>3, FeedFrame
  <2> QED
    BY <1>2, <2>1 DEF StageInv, eval_vars, batch_vars
<1>4. CASE StartPipeline
  <2>1. /\ pc' = "process" /\ stage' = "evaluate" /\ records' = records /\ batch' = batch
        /\ groups' = build_timestamp_groups(BatchRecords) /\ call' = CallOf(groups')
        /\ next_group' = next_group /\ next_group = 1
    BY <1>4 DEF StartPipeline, Eval!StartCall, feed_vars, StageInv
  <2>2. BatchRecords \in Seq(Record)
    BY <1>4, BatchFacts DEF StartPipeline
  <2>3. Len(groups') \in Nat
    BY <2>1, <2>2, GroupsType
  <2>4. groups' = build_timestamp_groups(BatchRecords)' /\ call' = CallOf(groups)'
    BY <2>1, SameBatch
  <2>5. next_group' \in 1 .. (Len(groups') + 1)
    BY <2>1, <2>3
  <2> QED
    BY <2>1, <2>4, <2>5 DEF StageInv
<1>5. CASE EvaluatorStep
  <2>1. UNCHANGED <<feed_vars, batch_vars>> /\ stage = "evaluate" /\ call' = call
    BY <1>5, EvaluatorFrame
  <2> QED
    BY <1>2, <2>1 DEF StageInv, feed_vars, batch_vars
<1>6. CASE EvaluateCorrelations \/ SortViolations \/ FormatOutput
  <2>1. /\ UNCHANGED <<feed_vars, eval_vars, groups>>
        /\ stage # "idle" /\ phase = "idle"
        /\ next_group' = 1 /\ stage' \in {"sort", "format", "append"}
    BY <1>6 DEF EvaluateCorrelations, SortViolations, FormatOutput, StageInv
  <2>2. next_group' \in 1 .. (Len(groups') + 1)
    BY <1>1, <2>1
  <2> QED
    BY <1>2, <2>1, <2>2 DEF StageInv, feed_vars, eval_vars
<1>7. CASE AppendOutput
  <2>1. /\ UNCHANGED <<feed_vars, eval_vars, groups, stage>> /\ stage = "append"
        /\ next_group' = next_group + 1 /\ next_group <= Len(groups)
    BY <1>7 DEF AppendOutput
  <2>2. next_group' \in 1 .. (Len(groups') + 1)
    BY <1>1, <2>1
  <2> QED
    BY <1>2, <2>1, <2>2 DEF StageInv, feed_vars, eval_vars
<1>8. CASE EndBatch
  BY <1>8 DEF EndBatch, StageInv, eval_vars
<1>9. CASE UNCHANGED vars
  BY <1>2, <1>9 DEF StageInv, vars, feed_vars, eval_vars, batch_vars
<1> QED
  BY <1>3, <1>4, <1>5, <1>6, <1>7, <1>8, <1>9 DEF Next, Step, Done

LEMMA PhaseStep ==
    ASSUME StageInv, PhaseInv, [Next]_vars
    PROVE  PhaseInv'
<1>1. ASSUME UNCHANGED <<result, groups, timestamp_violations, lines>>
      PROVE  /\ \A g : GroupAlarms(g)' = GroupAlarms(g)
             /\ \A g : LinesOf(g)' = LinesOf(g)
  BY <1>1 DEF GroupAlarms, LinesOf
<1>2. CASE UNCHANGED <<result, groups, timestamp_violations, lines, stage>>
  BY <1>1, <1>2 DEF PhaseInv
<1>3. CASE Tick \/ FeedStep
  BY <1>2, <1>3, FeedFrame DEF eval_vars, batch_vars
<1>4. CASE StartPipeline
  BY <1>4 DEF StartPipeline, PhaseInv
<1>5. CASE EvaluatorStep
  <2>1. UNCHANGED batch_vars /\ stage = "evaluate"
    BY <1>5, EvaluatorFrame
  <2> QED
    BY <2>1 DEF PhaseInv, batch_vars
<1>6. CASE EvaluateCorrelations
  <2>1. /\ stage' = "sort" /\ UNCHANGED <<result, groups>>
        /\ timestamp_violations' = [g \in 1 .. Len(groups) |-> GroupAlarms(g)]
    BY <1>6 DEF EvaluateCorrelations, GroupAlarms, eval_vars
  <2>2. \A g : GroupAlarms(g)' = GroupAlarms(g)
    BY <2>1 DEF GroupAlarms
  <2> QED
    BY <2>1, <2>2 DEF PhaseInv
<1>7. CASE SortViolations
  <2>1. /\ stage' = "format" /\ UNCHANGED <<result, groups>> /\ stage = "sort"
        /\ timestamp_violations' =
              [g \in 1 .. Len(groups) |-> sort_violations_for_output(timestamp_violations[g])]
    BY <1>7 DEF SortViolations, eval_vars
  <2>2. \A g : GroupAlarms(g)' = GroupAlarms(g)
    BY <2>1 DEF GroupAlarms
  <2>3. \A g \in 1 .. Len(groups) : timestamp_violations[g] = GroupAlarms(g)
    BY <2>1 DEF PhaseInv
  <2>4. timestamp_violations' =
           [g \in 1 .. Len(groups) |-> sort_violations_for_output(GroupAlarms(g))]
    BY <2>1, <2>3
  <2> QED
    BY <2>1, <2>2, <2>4 DEF PhaseInv
<1>8. CASE FormatOutput
  <2>1. /\ stage = "format" /\ stage' = "append"
        /\ UNCHANGED <<result, groups, timestamp_violations>>
        /\ lines' = [g \in 1 .. Len(groups) |-> LinesOf(g)]
    BY <1>8 DEF FormatOutput, eval_vars
  <2>2. /\ \A g : GroupAlarms(g)' = GroupAlarms(g)
        /\ \A g : LinesOf(g)' = LinesOf(g)
    BY <2>1 DEF GroupAlarms, LinesOf
  <2> QED
    BY <2>1, <2>2 DEF PhaseInv
<1>9. CASE AppendOutput
  BY <1>2, <1>9 DEF AppendOutput, eval_vars
<1>10. CASE EndBatch
  BY <1>10 DEF EndBatch, PhaseInv
<1>11. CASE UNCHANGED vars
  BY <1>2, <1>11 DEF vars, eval_vars, batch_vars
<1> QED
  BY <1>3, <1>4, <1>5, <1>6, <1>7, <1>8, <1>9, <1>10, <1>11 DEF Next, Step, Done

BatchInHand ==
    FeedP!IInv /\ pc = "process" /\ groups = build_timestamp_groups(BatchRecords)

LEMMA BatchSequences ==
    BatchInHand =>
        \A s \in 0 .. (NumSensors - 1) :
            LET c == CallOf(groups)
            IN  [p \in 1 .. Len(c.sensor_sequences[s]) |-> Eval!ValueIn(c, s, p)]
                   = ValuesOf(Own(s, Len(processed), Len(processed) + Len(batch)))
BY SequenceValues DEF BatchInHand

LEMMA NextBatchSequences ==
    (BatchInHand =>
        \A s \in 0 .. (NumSensors - 1) :
            LET c == CallOf(groups)
            IN  [p \in 1 .. Len(c.sensor_sequences[s]) |-> Eval!ValueIn(c, s, p)]
                   = ValuesOf(Own(s, Len(processed), Len(processed) + Len(batch))))'
BY BatchSequences, PTL

(* The histories grow when a batch's evaluation starts, by the batch.      *)
LEMMA HistoryStart ==
    ASSUME FeedP!IInv, HistoryInv, StartPipeline, NEW s \in 0 .. (NumSensors - 1)
    PROVE  timeline'[s] = Mon!History(s, Len(processed) + Len(batch))
<1> DEFINE B == Len(processed)
           E == B + Len(batch)
           c == CallOf(groups')
<1>1. /\ pc = "process" /\ stage = "idle" /\ groups' = build_timestamp_groups(BatchRecords)
      /\ Eval!StartCall(c) /\ UNCHANGED feed_vars
  BY DEF StartPipeline
<1>2. /\ records \in Seq(Record) /\ B \in Nat /\ E \in Nat /\ B <= E /\ E <= Len(records)
      /\ B <= Len(records)
  BY InputFacts
<1>3. timeline[s] = ValuesOf(Own(s, 0, B))
  BY <1>1, <1>2, HistoryIsValues DEF HistoryInv, Evaluated
<1>4. timeline'[s] = timeline[s] \o [p \in 1 .. Len(c.sensor_sequences[s]) |-> Eval!ValueIn(c, s, p)]
  BY <1>1 DEF Eval!StartCall, Eval!Tokens
<1>5. [p \in 1 .. Len(c.sensor_sequences[s]) |-> Eval!ValueIn(c, s, p)]
         = ValuesOf(Own(s, B, E))
  <2>1. records' = records /\ batch' = batch /\ processed' = processed /\ pc' = pc
    BY <1>1 DEF feed_vars
  <2>2. FeedP!IInv'
    BY <1>1, FeedStutter
  <2>3. BatchInHand'
    BY <1>1, <2>1, <2>2, SameBatch DEF BatchInHand
  <2>4. [p \in 1 .. Len(c.sensor_sequences[s]) |-> Eval!ValueIn(c, s, p)]
           = ValuesOf(Own(s, Len(processed), Len(processed) + Len(batch)))'
    BY <2>3, NextBatchSequences
  <2>5. \A n, m : Own(s, n, m)' = Own(s, n, m)
    BY <2>1 DEF Own
  <2>6. \A places : ValuesOf(places)' = ValuesOf(places)
    BY <2>1 DEF ValuesOf
  <2> QED
    BY <2>1, <2>4, <2>5, <2>6
<1>6. ValuesOf(Own(s, 0, E)) = ValuesOf(Own(s, 0, B)) \o ValuesOf(Own(s, B, E))
  <2> HIDE DEF B, E
  <2>1. 0 \in Nat /\ 0 <= B
    BY <1>2
  <2> QED
    BY <1>2, <2>1, ValuesOfUnion
<1>7. Mon!History(s, E) = ValuesOf(Own(s, 0, E))
  BY <1>2, HistoryIsValues
<1> QED
  BY <1>3, <1>4, <1>5, <1>6, <1>7

LEMMA HistoryStep ==
    ASSUME FeedP!IInv, StageInv, HistoryInv, [Next]_vars
    PROVE  HistoryInv'
<1>1. ASSUME records' = records
      PROVE  \A s, n : Mon!History(s, n)' = Mon!History(s, n)
  BY <1>1 DEF Mon!History
<1>2. CASE records' = records /\ timeline' = timeline /\ Evaluated' = Evaluated
  BY <1>1, <1>2 DEF HistoryInv
<1>3. CASE Tick \/ FeedStep
  <2>1. /\ UNCHANGED <<eval_vars, batch_vars>>
        /\ records' = records /\ processed' = processed
        /\ stage # "idle" => pc' = pc /\ batch' = batch
    BY <1>3, FeedFrame
  <2> QED
    BY <1>2, <2>1 DEF Evaluated, eval_vars, batch_vars
<1>4. CASE StartPipeline
  <2>1. records' = records /\ Evaluated' = Len(processed) + Len(batch)
    BY <1>4 DEF StartPipeline, feed_vars, Evaluated
  <2>2. \A s \in 0 .. (NumSensors - 1) :
           timeline'[s] = Mon!History(s, Len(processed) + Len(batch))
    BY <1>4, HistoryStart
  <2> QED
    BY <1>1, <2>1, <2>2 DEF HistoryInv
<1>5. CASE EvaluatorStep
  BY <1>2, <1>5, EvaluatorFrame DEF Evaluated, feed_vars, batch_vars
<1>6. CASE EvaluateCorrelations \/ SortViolations \/ FormatOutput \/ AppendOutput
  <2>1. UNCHANGED <<feed_vars, eval_vars>> /\ stage # "idle" /\ stage' # "idle"
    BY <1>6 DEF EvaluateCorrelations, SortViolations, FormatOutput, AppendOutput
  <2> QED
    BY <1>2, <2>1 DEF Evaluated, feed_vars, eval_vars
<1>7. CASE EndBatch
  <2>1. /\ records' = records /\ processed' = processed \o batch /\ stage = "append"
        /\ stage' = "idle" /\ timeline' = timeline
    BY <1>7 DEF EndBatch, Feed!ProcessBatch, eval_vars
  <2>2. processed \in Seq(FeedP!Places) /\ batch \in Seq(FeedP!Places)
    BY DEF FeedP!IInv, FeedP!TypeOK
  <2>3. Len(processed \o batch) = Len(processed) + Len(batch)
    BY <2>2, ConcatPlaces
  <2> QED
    BY <1>2, <2>1, <2>3 DEF Evaluated
<1>8. CASE UNCHANGED vars
  BY <1>2, <1>8 DEF Evaluated, vars, feed_vars, eval_vars, batch_vars
<1> QED
  BY <1>3, <1>4, <1>5, <1>6, <1>7, <1>8 DEF Next, Step, Done
-----------------------------------------------------------------------------
(***************************************************************************)
(* Phase 4: what find_fired, the correlations and the sort return.         *)
(***************************************************************************)
LEMMA FindFiredFacts ==
    ASSUME NEW S, NEW fired \in Seq(S), NEW id, HasFired(fired, id)
    PROVE  \E k \in 1 .. Len(fired) :
              /\ find_fired(fired, id) = fired[k]
              /\ fired[k].rule_id = id
              /\ \A j \in 1 .. (k - 1) : fired[j].rule_id # id
<1> DEFINE U == {k \in 1 .. Len(fired) : fired[k].rule_id = id}
           IsFirst(k) == /\ fired[k].rule_id = id
                         /\ \A j \in 1 .. (k - 1) : fired[j].rule_id # id
<1>1. U # {} /\ U \subseteq Nat /\ Len(fired) \in Nat
  BY DEF HasFired
<1>2. PICK k \in U : \A j \in U : k <= j
  BY <1>1, LeastNatural
<1>3. k \in 1 .. Len(fired) /\ IsFirst(k)
  BY <1>1, <1>2
<1> DEFINE c == CHOOSE n \in 1 .. Len(fired) : IsFirst(n)
<1>4. c \in 1 .. Len(fired) /\ IsFirst(c)
  BY <1>3
<1>5. find_fired(fired, id) = fired[c]
  BY DEF find_fired
<1> QED
  BY <1>4, <1>5

LEMMA CorrelationRuleFacts ==
    /\ Len(CorrelationRules) \in Nat
    /\ \A c \in 1 .. Len(CorrelationRules) :
          /\ CorrelationRules[c].rule_id \in Nat
          /\ CorrelationRules[c].priority \in {0, 1, 2}
          /\ CorrelationRules[c].sub_rules \in Seq(Nat)
<1> DEFINE R == [rule_id : Nat, priority : {0, 1, 2}, logic : STRING, sub_rules : Seq(Nat)]
<1>1. CorrelationRules \in Seq(R)
  BY RulesAssumption
<1>2. \A r \in R : r.rule_id \in Nat /\ r.priority \in {0, 1, 2} /\ r.sub_rules \in Seq(Nat)
  OBVIOUS
<1> HIDE DEF R
<1>3. Len(CorrelationRules) \in Nat /\ \A c \in 1 .. Len(CorrelationRules) : CorrelationRules[c] \in R
  BY <1>1
<1> QED
  BY <1>2, <1>3

(* The alarms phase 3 hands to phase 4: each has a reading.                *)
HasReadings(fired) == \A n \in 1 .. Len(fired) : Len(fired[n].readings) > 0

LEMMA CorrelationAlarmFacts ==
    ASSUME NEW fired \in Seq(AlarmType), HasReadings(fired),
           NEW c \in 1 .. Len(CorrelationRules)
    PROVE  CorrelationAlarm(fired, CorrelationRules[c]) \in AlarmType
<1> DEFINE rule == CorrelationRules[c]
           P == {n \in 1 .. Len(rule.sub_rules) : HasFired(fired, rule.sub_rules[n])}
           found == Picked(rule.sub_rules, P)
<1>1. /\ rule.rule_id \in Nat /\ rule.priority \in {0, 1, 2} /\ rule.sub_rules \in Seq(Nat)
  BY CorrelationRuleFacts
<1> HIDE DEF rule
<1>2. P \in SUBSET (1 .. Len(rule.sub_rules)) /\ \A n \in P : HasFired(fired, rule.sub_rules[n])
  OBVIOUS
<1>3. CorrelationReadings(fired, rule)
         = [n \in 1 .. Len(found) |-> find_fired(fired, found[n]).readings[1]]
  BY DEF CorrelationReadings
<1> HIDE DEF P
<1>4. /\ Cardinality(P) \in Nat /\ Len(found) = Cardinality(P)
      /\ \A n \in 1 .. Cardinality(P) : found[n] = rule.sub_rules[Ascending(P)[n]]
      /\ Ascending(P) \in [1 .. Cardinality(P) -> P]
  <2> DEFINE subs == rule.sub_rules
  <2>1. subs \in Seq(Nat) /\ P \in SUBSET (1 .. Len(subs))
    BY <1>1, <1>2
  <2> HIDE DEF subs
  <2>2. /\ Cardinality(P) \in Nat
        /\ Picked(subs, P) \in Seq(Nat)
        /\ Len(Picked(subs, P)) = Cardinality(P)
        /\ Ascending(P) \in [1 .. Cardinality(P) -> P]
        /\ \A n \in 1 .. Cardinality(P) : Picked(subs, P)[n] = subs[Ascending(P)[n]]
        /\ \A x \in P : \E n \in 1 .. Cardinality(P) : Ascending(P)[n] = x
        /\ \A a, b \in 1 .. Cardinality(P) :
              a < b <=> Ascending(P)[a] < Ascending(P)[b]
    BY <2>1, PickedFacts, Zenon
  <2> QED
    BY <2>2 DEF subs
<1> HIDE DEF found
<1>5. ASSUME NEW n \in 1 .. Len(found)
      PROVE  find_fired(fired, found[n]).readings[1] \in Eval!Reading
  <2>1. HasFired(fired, found[n])
    BY <1>2, <1>4
  <2>2. PICK k \in 1 .. Len(fired) : find_fired(fired, found[n]) = fired[k]
    BY <2>1, FindFiredFacts
  <2>3. fired[k] \in AlarmType /\ Len(fired[k].readings) > 0
    BY DEF HasReadings
  <2>4. fired[k].readings \in Seq(Eval!Reading)
    BY <2>3 DEF AlarmType
  <2>5. 1 \in 1 .. Len(fired[k].readings)
    BY <2>3, <2>4
  <2> QED
    BY <2>2, <2>4, <2>5
<1>6. CorrelationReadings(fired, rule) \in Seq(Eval!Reading)
  BY <1>3, <1>4, <1>5
<1>7. [rule_id |-> rule.rule_id, priority |-> rule.priority,
       readings |-> CorrelationReadings(fired, rule)] \in AlarmType
  BY <1>1, <1>6 DEF AlarmType
<1> QED
  BY <1>7 DEF CorrelationAlarm, rule

TriggeredPlaces(fired) ==
    {c \in 1 .. Len(CorrelationRules) : Triggered(fired, CorrelationRules[c])}

LEMMA EvaluateFacts ==
    ASSUME NEW fired \in Seq(AlarmType), HasReadings(fired)
    PROVE  LET all == evaluate_correlations(fired, CorrelationRules)
               T   == TriggeredPlaces(fired)
           IN  /\ all \in Seq(AlarmType)
               /\ all = << >> <=> fired = << >>
               /\ T \in SUBSET (1 .. Len(CorrelationRules))
               /\ Cardinality(T) \in Nat
               /\ Ascending(T) \in [1 .. Cardinality(T) -> T]
               /\ fired # << >> =>
                     /\ Len(all) = Len(fired) + Cardinality(T)
                     /\ \A n \in 1 .. Len(fired) : all[n] = fired[n]
                     /\ \A n \in 1 .. Cardinality(T) :
                           all[Len(fired) + n]
                              = CorrelationAlarm(fired, CorrelationRules[Ascending(T)[n]])
<1> DEFINE T == TriggeredPlaces(fired)
           b == [n \in 1 .. Len(Ascending(T)) |->
                    CorrelationAlarm(fired, CorrelationRules[Ascending(T)[n]])]
           all == evaluate_correlations(fired, CorrelationRules)
<1>1. T \in SUBSET (1 .. Len(CorrelationRules)) /\ Len(CorrelationRules) \in Nat
  BY CorrelationRuleFacts DEF TriggeredPlaces
<1>2. all = IF fired = << >> THEN fired ELSE fired \o b
  BY DEF evaluate_correlations, TriggeredPlaces
<1> HIDE DEF T
<1>3. /\ Cardinality(T) \in Nat /\ Len(Ascending(T)) = Cardinality(T)
      /\ Ascending(T) \in [1 .. Cardinality(T) -> T]
  BY <1>1, PlacesFacts, PlacesInOrder
<1>4. /\ b \in Seq(AlarmType) /\ Len(b) = Cardinality(T)
      /\ \A n \in 1 .. Cardinality(T) :
            b[n] = CorrelationAlarm(fired, CorrelationRules[Ascending(T)[n]])
  <2>1. \A n \in 1 .. Cardinality(T) :
           CorrelationAlarm(fired, CorrelationRules[Ascending(T)[n]]) \in AlarmType
    BY <1>1, <1>3, CorrelationAlarmFacts
  <2> QED
    BY <1>3, <2>1
<1> HIDE DEF b, all
<1>5. /\ fired \o b \in Seq(AlarmType)
      /\ Len(fired \o b) = Len(fired) + Len(b)
      /\ \A n \in 1 .. Len(fired) : (fired \o b)[n] = fired[n]
      /\ \A n \in 1 .. Len(b) : (fired \o b)[Len(fired) + n] = b[n]
  <2>1. fired \in Seq(AlarmType) /\ b \in Seq(AlarmType)
    BY <1>4
  <2> QED
    BY <2>1
<1>6. fired # << >> => Len(fired \o b) > 0
  BY <1>3, <1>4, <1>5
<1>7. all = << >> <=> fired = << >>
  BY <1>2, <1>6
<1>8. all \in Seq(AlarmType)
  BY <1>2, <1>5
<1>9. fired # << >> =>
         /\ Len(all) = Len(fired) + Cardinality(T)
         /\ \A n \in 1 .. Len(fired) : all[n] = fired[n]
         /\ \A n \in 1 .. Cardinality(T) :
               all[Len(fired) + n] = CorrelationAlarm(fired, CorrelationRules[Ascending(T)[n]])
  BY <1>2, <1>4, <1>5
<1> QED
  BY <1>1, <1>3, <1>7, <1>8, <1>9 DEF T, all

StableOrder(V) ==
    {p \in (1 .. Len(V)) \X (1 .. Len(V)) : StableBefore(V, p[1], p[2])}

ByKeys(V, x, y) ==
    \/ V[x].priority > V[y].priority
    \/ V[x].priority = V[y].priority /\ V[x].rule_id < V[y].rule_id
    \/ V[x].priority = V[y].priority /\ V[x].rule_id = V[y].rule_id /\ x < y

LEMMA StableOrderIsTotal ==
    ASSUME NEW V \in Seq(AlarmType)
    PROVE  /\ IsStrictTotalOrder(1 .. Len(V), StableOrder(V))
           /\ \A x, y \in 1 .. Len(V) : <<x, y>> \in StableOrder(V) <=> ByKeys(V, x, y)
<1> DEFINE P == 1 .. Len(V)
<1>1. Len(V) \in Nat
  OBVIOUS
<1>2. ASSUME NEW x \in P
      PROVE  V[x].priority \in Int /\ V[x].rule_id \in Int /\ x \in Int
  <2>1. V[x] \in AlarmType
    OBVIOUS
  <2> QED
    BY <2>1 DEF AlarmType
<1>3. ASSUME NEW x \in P, NEW y \in P
      PROVE  StableBefore(V, x, y) <=> ByKeys(V, x, y)
  BY <1>2 DEF StableBefore, OutputBefore, ByKeys
<1>4. \A x, y \in P : <<x, y>> \in StableOrder(V) <=> ByKeys(V, x, y)
  BY <1>3 DEF StableOrder
<1> HIDE DEF P
<1>5. \A x \in P : ~ ByKeys(V, x, x)
  BY <1>2 DEF ByKeys
<1>6. ASSUME NEW x \in P, NEW y \in P, NEW z \in P, ByKeys(V, x, y), ByKeys(V, y, z)
      PROVE  ByKeys(V, x, z)
  BY <1>2, <1>6 DEF ByKeys
<1>7. \A x, y \in P : x = y \/ ByKeys(V, x, y) \/ ByKeys(V, y, x)
  BY <1>2 DEF ByKeys
<1>8. IsStrictTotalOrder(P, StableOrder(V))
  BY <1>4, <1>5, <1>6, <1>7 DEF IsStrictTotalOrder
<1> QED
  BY <1>4, <1>8 DEF P

LEMMA CountUpTo ==
    ASSUME NEW m \in Nat
    PROVE  IsFiniteSet(1 .. m) /\ Cardinality(1 .. m) = m
  BY FS_Interval

LEMMA SortFacts ==
    ASSUME NEW V \in Seq(AlarmType)
    PROVE  /\ sort_violations_for_output(V)
                 = [n \in 1 .. Len(V) |-> V[Ranking(1 .. Len(V), StableOrder(V))[n]]]
           /\ Ranking(1 .. Len(V), StableOrder(V)) \in [1 .. Len(V) -> 1 .. Len(V)]
           /\ sort_violations_for_output(V) \in Seq(AlarmType)
           /\ Len(sort_violations_for_output(V)) = Len(V)
           /\ sort_violations_for_output(V) = << >> <=> V = << >>
<1> DEFINE P == 1 .. Len(V)
           f == Ranking(P, StableOrder(V))
           s == sort_violations_for_output(V)
<1>1. Len(V) \in Nat /\ IsFiniteSet(P) /\ Cardinality(P) = Len(V)
  <2>1. Len(V) \in Nat
    OBVIOUS
  <2> QED
    BY <2>1, CountUpTo
<1>2. s = [n \in P |-> V[f[n]]]
  BY DEF sort_violations_for_output, OutputOrder, StableOrder
<1>3. IsStrictTotalOrder(P, StableOrder(V))
  BY StableOrderIsTotal
<1> HIDE DEF P
<1>4. Len(f) = Len(V) /\ Enumerates(f, P, StableOrder(V))
  BY <1>1, <1>3, RankingFacts
<1> HIDE DEF f
<1>5. f \in [1 .. Len(V) -> P]
  BY <1>3, <1>4, EnumerationFacts
<1>6. \A n \in P : V[f[n]] \in AlarmType
  BY <1>5 DEF P
<1>7. s \in Seq(AlarmType) /\ Len(s) = Len(V)
  BY <1>1, <1>2, <1>6 DEF P
<1> HIDE DEF s
<1>8. s = << >> <=> V = << >>
  <2>1. \A q \in Seq(AlarmType) : q = << >> <=> Len(q) = 0
    OBVIOUS
  <2> QED
    BY <1>7, <2>1
<1> QED
  BY <1>2, <1>5, <1>7, <1>8 DEF P, f, s
-----------------------------------------------------------------------------
(***************************************************************************)
(* What phase 3 returns under a timestamp, in terms of the records: a      *)
(* violation for each reading of the group and rule that fires there, and  *)
(* no other.                                                               *)
(***************************************************************************)
FiresAt(n, s, j) ==
    LET h == Mon!History(s, n) IN Mon!Fires(SensorRules[s][j], h, Len(h))

Found(s, j, value, r) == [sensor_token |-> s, rule |-> j, value |-> value, reading |-> r]

PipelineInv == FeedP!IInv /\ EvalP!IInv /\ StageInv /\ HistoryInv /\ stage # "idle"

LEMMA PipelineFacts ==
    ASSUME PipelineInv
    PROVE  /\ FeedP!IInv /\ EvalP!IInv /\ StageInv /\ HistoryInv /\ pc = "process"
           /\ groups = build_timestamp_groups(BatchRecords) /\ call = CallOf(groups)
           /\ EvalP!Groups = 1 .. Len(groups)
           /\ EvalP!Tokens = 0 .. (NumSensors - 1)
           /\ EvalP!TypeOK
           /\ \A s : EvalP!Sequence(s) = CallOf(groups).sensor_sequences[s]
<1>1. Len(CallOf(groups).groups) = Len(groups)
  <2>1. BatchRecords \in Seq(Record) /\ groups = build_timestamp_groups(BatchRecords)
    BY BatchFacts, SMTT(30) DEF PipelineInv, StageInv
  <2> QED
    BY <2>1, GroupsType
<1> QED
  BY <1>1 DEF PipelineInv, StageInv, EvalP!Groups, EvalP!Tokens, EvalP!Sequence, EvalP!IInv

ReadingAtPlace(s, p, j) ==
    LET g == EvalP!GroupOf(s, p)
        v == EvalP!Violation(s, p, j)
    IN  /\ g \in 1 .. Len(groups)
        /\ v.reading \in 1 .. Len(groups[g].readings)
        /\ v = Found(s, j, groups[g].readings[v.reading].value, v.reading)
        /\ groups[g].readings[v.reading].sensor_token = s
        /\ EvalP!Sequence(s)[p] = <<g, v.reading>>
        /\ EvalP!Expected(s, p, j) <=> FiresAt(Before(g) + v.reading, s, j)

LEMMA PlaceOfReading ==
    ASSUME PipelineInv, NEW s \in 0 .. (NumSensors - 1), NEW p \in 1 .. Len(EvalP!Sequence(s)),
           NEW j \in 1 .. Len(SensorRules[s])
    PROVE  ReadingAtPlace(s, p, j)
<1> DEFINE g == EvalP!GroupOf(s, p)
           v == EvalP!Violation(s, p, j)
           seq == CallOf(groups).sensor_sequences[s]
           r == seq[p][2]
<1>1. /\ FeedP!IInv /\ HistoryInv /\ pc = "process" /\ stage # "idle"
      /\ groups = build_timestamp_groups(BatchRecords) /\ call = CallOf(groups)
      /\ EvalP!Sequence(s) = seq /\ EvalP!TypeOK
      /\ EvalP!Tokens = 0 .. (NumSensors - 1)
  BY PipelineFacts DEF PipelineInv
<1>2. /\ seq[p][1] \in 1 .. Len(groups)
      /\ seq[p][2] \in 1 .. Len(groups[seq[p][1]].readings)
      /\ seq[p] = <<seq[p][1], seq[p][2]>>
  BY <1>1, SequencePlaces
<1>3. g = seq[p][1]
  BY <1>1 DEF EvalP!GroupOf
<1>4. \A k \in 1 .. Len(groups) : CallOf(groups).groups[k] = groups[k].readings
  BY DEF CallOf
<1>5. v = Found(s, j, groups[g].readings[r].value, r)
  <2>1. EvalP!ValueOf(s, p) = CallOf(groups).groups[seq[p][1]][seq[p][2]].value
    BY <1>1 DEF EvalP!ValueOf, EvalP!ValueIn
  <2> HIDE DEF g, seq
  <2>2. EvalP!ValueOf(s, p) = groups[g].readings[seq[p][2]].value
    BY <1>2, <1>3, <1>4, <2>1
  <2> QED
    BY <1>1, <2>2 DEF EvalP!Violation, Found
<1>6. groups[g].readings[r].sensor_token = s
  <2>1. EvalP!IsReadingOf(call, s, seq[p])
    BY <1>1 DEF EvalP!TypeOK, EvalP!WellFormedCall
  <2> HIDE DEF seq, g
  <2>2. call.groups[seq[p][1]][seq[p][2]].sensor_token = s
    BY <2>1 DEF EvalP!IsReadingOf
  <2> QED
    BY <1>1, <1>2, <1>3, <1>4, <2>2
<1>7. EvalP!Expected(s, p, j) <=> FiresAt(RecordAt(seq[p]), s, j)
  <2>1. LET h == Mon!History(s, RecordAt(EvalP!Sequence(s)[p]))
        IN  EvalP!Expected(s, p, j) <=> Mon!Fires(SensorRules[s][j], h, Len(h))
    BY <1>1, ExpectedIsFires
  <2> HIDE DEF seq
  <2> QED
    BY <1>1, <2>1 DEF FiresAt
<1>8. RecordAt(seq[p]) = Before(g) + r
  BY <1>3 DEF RecordAt
<1>9. v.reading = r
  BY <1>5 DEF Found
<1> HIDE DEF g, v, r, seq
<1> QED
  BY <1>1, <1>2, <1>3, <1>5, <1>6, <1>7, <1>8, <1>9 DEF ReadingAtPlace, g, v, r

(* v is what the rule of a sensor that fires at the r-th reading of the    *)
(* g-th group leaves.                                                      *)
IsRaised(v, g) ==
    /\ v.sensor_token \in 0 .. (NumSensors - 1)
    /\ v.rule \in 1 .. Len(SensorRules[v.sensor_token])
    /\ v.reading \in 1 .. Len(groups[g].readings)
    /\ groups[g].readings[v.reading].sensor_token = v.sensor_token
    /\ v = Found(v.sensor_token, v.rule, groups[g].readings[v.reading].value, v.reading)
    /\ FiresAt(Before(g) + v.reading, v.sensor_token, v.rule)

LEMMA RaisedOnly ==
    ASSUME PipelineInv, phase = "idle", NEW g \in 1 .. Len(groups)
    PROVE  /\ result[g] \in Seq(EvalP!ViolationType)
           /\ EvalP!SensorOrder(result[g])
           /\ \A k \in 1 .. Len(result[g]) : IsRaised(result[g][k], g)
<1>1. /\ EvalP!IInv /\ EvalP!Groups = 1 .. Len(groups)
      /\ EvalP!Tokens = 0 .. (NumSensors - 1) /\ EvalP!TypeOK
  BY PipelineFacts
<1>2. result[g] \in Seq(EvalP!ViolationType)
  BY <1>1 DEF EvalP!TypeOK
<1>3. EvalP!SensorOrder(result[g])
  BY <1>1 DEF EvalP!IInv, EvalP!MergeInv
<1>4. EvalP!NoFalseAlarm
  BY <1>1, EvalP!NoneIsFalse, EvalContext
<1>5. ASSUME NEW k \in 1 .. Len(result[g]) PROVE IsRaised(result[g][k], g)
  <2>1. result[g][k] \in EvalP!ToSet(result[g])
    BY <1>2 DEF EvalP!ToSet
  <2>2. EvalP!IsExpected(result[g][k], g)
    BY <1>1, <1>4, <2>1 DEF EvalP!NoFalseAlarm, EvalP!Returned
  <2>3. PICK s \in 0 .. (NumSensors - 1) : \E p \in 1 .. Len(EvalP!Sequence(s)) :
              \E j \in 1 .. Len(SensorRules[s]) :
                 EvalP!Expected(s, p, j) /\ EvalP!GroupOf(s, p) = g
                    /\ result[g][k] = EvalP!Violation(s, p, j)
    BY <1>1, <2>2 DEF EvalP!IsExpected
  <2>4. PICK p \in 1 .. Len(EvalP!Sequence(s)), j \in 1 .. Len(SensorRules[s]) :
              EvalP!Expected(s, p, j) /\ EvalP!GroupOf(s, p) = g
                 /\ result[g][k] = EvalP!Violation(s, p, j)
    BY <2>3
  <2> DEFINE v == EvalP!Violation(s, p, j)
  <2>5. /\ v.reading \in 1 .. Len(groups[g].readings)
        /\ v = Found(s, j, groups[g].readings[v.reading].value, v.reading)
        /\ groups[g].readings[v.reading].sensor_token = s
        /\ FiresAt(Before(g) + v.reading, s, j)
    <3>1. ReadingAtPlace(s, p, j)
      BY <2>4, PlaceOfReading
    <3> QED
      BY <2>4, <3>1 DEF ReadingAtPlace
  <2> HIDE DEF v
  <2>6. v.sensor_token = s /\ v.rule = j
    BY <2>5 DEF Found
  <2> QED
    BY <2>4, <2>5, <2>6 DEF IsRaised, v
<1> QED
  BY <1>2, <1>3, <1>5

LEMMA RaisedAll ==
    ASSUME PipelineInv, phase = "idle", NEW g \in 1 .. Len(groups),
           NEW r \in 1 .. Len(groups[g].readings), NEW s \in 0 .. (NumSensors - 1),
           groups[g].readings[r].sensor_token = s,
           NEW j \in 1 .. Len(SensorRules[s]), FiresAt(Before(g) + r, s, j)
    PROVE  \E k \in 1 .. Len(result[g]) :
              result[g][k] = Found(s, j, groups[g].readings[r].value, r)
<1> DEFINE v == Found(s, j, groups[g].readings[r].value, r)
<1>1. /\ FeedP!IInv /\ pc = "process" /\ groups = build_timestamp_groups(BatchRecords)
      /\ EvalP!IInv /\ EvalP!Tokens = 0 .. (NumSensors - 1)
      /\ EvalP!Sequence(s) = CallOf(groups).sensor_sequences[s]
  BY PipelineFacts
<1>2. PICK p \in 1 .. Len(EvalP!Sequence(s)) : EvalP!Sequence(s)[p] = <<g, r>>
  <2> DEFINE seq == CallOf(groups).sensor_sequences[s]
  <2>1. \A a \in 1 .. Len(groups) : \A b \in 1 .. Len(groups[a].readings) :
           groups[a].readings[b].sensor_token = s => \E p \in 1 .. Len(seq) : seq[p] = <<a, b>>
    BY <1>1, SequencePlaces
  <2> HIDE DEF seq
  <2>2. \E p \in 1 .. Len(seq) : seq[p] = <<g, r>>
    BY <2>1
  <2> QED
    BY <1>1, <2>2 DEF seq
<1>3. EvalP!GroupOf(s, p) = g
  BY <1>2 DEF EvalP!GroupOf
<1>4. EvalP!Violation(s, p, j) = v /\ EvalP!Expected(s, p, j)
  <2> DEFINE w == EvalP!Violation(s, p, j)
  <2>1. /\ w = Found(s, j, groups[g].readings[w.reading].value, w.reading)
        /\ EvalP!Sequence(s)[p] = <<g, w.reading>>
        /\ EvalP!Expected(s, p, j) <=> FiresAt(Before(g) + w.reading, s, j)
    <3>1. ReadingAtPlace(s, p, j)
      BY <1>2, PlaceOfReading
    <3> QED
      BY <1>3, <3>1 DEF ReadingAtPlace
  <2>2. w.reading = r
    BY <1>2, <2>1
  <2> QED
    BY <2>1, <2>2
<1>5. EvalP!NoMissedAlarm
  BY <1>1, EvalP!NoneIsMissed, EvalContext
<1>6. v \in EvalP!ToSet(result[g])
  BY <1>1, <1>3, <1>4, <1>5 DEF EvalP!NoMissedAlarm, EvalP!Returned
<1>7. result[g] \in Seq(EvalP!ViolationType)
  BY RaisedOnly
<1>8. \E k \in DOMAIN result[g] : result[g][k] = v
  BY <1>6 DEF EvalP!ToSet
<1>9. DOMAIN result[g] = 1 .. Len(result[g])
  BY <1>7
<1> QED
  BY <1>8, <1>9

LEMMA FiredType ==
    ASSUME PipelineInv, phase = "idle", NEW g \in 1 .. Len(groups)
    PROVE  /\ Alarms(result[g]) \in Seq(AlarmType)
           /\ Len(Alarms(result[g])) = Len(result[g])
           /\ \A k \in 1 .. Len(result[g]) : Alarms(result[g])[k] = Alarm(result[g][k])
           /\ HasReadings(Alarms(result[g]))
<1>1. /\ result[g] \in Seq(EvalP!ViolationType)
      /\ \A k \in 1 .. Len(result[g]) : IsRaised(result[g][k], g)
  BY RaisedOnly
<1>2. Len(result[g]) \in Nat
  BY <1>1
<1>3. ASSUME NEW k \in 1 .. Len(result[g])
      PROVE  Alarm(result[g][k]) \in AlarmType /\ Len(Alarm(result[g][k]).readings) > 0
  <2> DEFINE v == result[g][k]
  <2>1. v \in EvalP!ViolationType /\ IsRaised(v, g)
    BY <1>1
  <2> HIDE DEF v
  <2>2. /\ v.sensor_token \in 0 .. (NumSensors - 1)
        /\ v.rule \in 1 .. Len(SensorRules[v.sensor_token])
    BY <2>1 DEF IsRaised
  <2>3. SensorRules[v.sensor_token][v.rule] \in Eval!Rule
    <3>1. SensorRules \in [0 .. (NumSensors - 1) -> Seq(Eval!Rule)]
      BY RulesAssumption
    <3>2. SensorRules[v.sensor_token] \in Seq(Eval!Rule)
      BY <2>2, <3>1
    <3> QED
      BY <2>2, <3>2
  <2>4. [sensor_token |-> v.sensor_token, value |-> v.value] \in Eval!Reading
    BY <2>1 DEF EvalP!ViolationType, Eval!Reading, EvalP!Tokens, Eval!Tokens, EvalP!Value, Eval!Value
  <2>5. <<[sensor_token |-> v.sensor_token, value |-> v.value]>> \in Seq(Eval!Reading)
    BY <2>4
  <2>6. Alarm(v) \in AlarmType
    BY <2>3, <2>5 DEF Alarm, AlarmType, Eval!Rule
  <2>7. Len(Alarm(v).readings) > 0
    BY DEF Alarm
  <2> QED
    BY <2>6, <2>7 DEF v
<1>4. /\ Alarms(result[g]) \in Seq(AlarmType) /\ Len(Alarms(result[g])) = Len(result[g])
      /\ \A k \in 1 .. Len(result[g]) : Alarms(result[g])[k] = Alarm(result[g][k])
  BY <1>2, <1>3 DEF Alarms
<1> QED
  BY <1>3, <1>4 DEF HasReadings
-----------------------------------------------------------------------------
(***************************************************************************)
(* The files: appending a group's lines reports on the records up to the   *)
(* end of the group, and no other step shows in the files.                 *)
(***************************************************************************)
LEMMA QuietStep ==
    ASSUME FeedP!IInv, StageInv, [Next]_vars, ~ AppendOutput
    PROVE  /\ records' = records
           /\ UNCHANGED <<valid_file, alarms_file>>
           /\ Consumed' = Consumed
<1>1. CASE /\ records' = records /\ processed' = processed /\ next_group' = next_group
           /\ UNCHANGED <<valid_file, alarms_file>>
           /\ stage' # "append" \/ next_group' = 1
           /\ stage # "append" \/ next_group = 1
  BY <1>1 DEF Consumed
<1>2. CASE /\ records' = records /\ processed' = processed /\ next_group' = next_group
           /\ UNCHANGED <<valid_file, alarms_file>>
           /\ stage' = stage
           /\ stage # "idle" => batch' = batch
  <2>1. stage = "append" => BatchRecords' = BatchRecords
    BY <1>2, SameBatch
  <2> QED
    BY <1>2, <2>1 DEF Consumed
<1>3. CASE Tick \/ FeedStep
  <2>1. /\ UNCHANGED <<eval_vars, batch_vars>> /\ records' = records
        /\ processed' = processed
        /\ stage # "idle" => pc' = pc /\ batch' = batch
    BY <1>3, FeedFrame
  <2> QED
    BY <1>2, <2>1 DEF batch_vars
<1>4. CASE StartPipeline \/ EvaluateCorrelations \/ SortViolations \/ FormatOutput
  <2>1. /\ UNCHANGED <<feed_vars, valid_file, alarms_file>>
        /\ stage # "append" /\ next_group = 1 /\ next_group' = 1
    BY <1>4 DEF StartPipeline, EvaluateCorrelations, SortViolations, FormatOutput, StageInv
  <2> QED
    BY <1>1, <2>1 DEF feed_vars
<1>5. CASE EvaluatorStep
  <2>1. UNCHANGED <<feed_vars, batch_vars>>
    BY <1>5, EvaluatorFrame
  <2> QED
    BY <1>2, <2>1 DEF feed_vars, batch_vars
<1>6. CASE EndBatch
  <2>1. /\ records' = records /\ processed' = processed \o batch /\ stage' = "idle"
        /\ stage = "append" /\ next_group > Len(groups) /\ UNCHANGED <<valid_file, alarms_file>>
    BY <1>6 DEF EndBatch, Feed!ProcessBatch
  <2>2. processed \in Seq(FeedP!Places) /\ batch \in Seq(FeedP!Places)
    BY DEF FeedP!IInv, FeedP!TypeOK
  <2>3. Len(processed \o batch) = Len(processed) + Len(batch)
    BY <2>2, ConcatPlaces
  <2>4. Consumed = Len(processed) + Len(batch)
    BY <2>1, ConsumedFacts
  <2>5. Consumed' = Len(processed')
    BY <2>1 DEF Consumed
  <2> QED
    BY <2>1, <2>3, <2>4, <2>5
<1>7. CASE UNCHANGED vars
  BY <1>2, <1>7 DEF vars, feed_vars, batch_vars
<1> QED
  BY <1>3, <1>4, <1>5, <1>6, <1>7 DEF Next, Step, Done

LEMMA ViolationsType ==
    ASSUME PipelineInv, PhaseInv, stage \in {"format", "append"}, NEW g \in 1 .. Len(groups)
    PROVE  /\ phase = "idle"
           /\ timestamp_violations[g] = sort_violations_for_output(GroupAlarms(g))
           /\ GroupAlarms(g) \in Seq(AlarmType)
           /\ timestamp_violations[g] \in Seq(AlarmType)
           /\ timestamp_violations[g] = << >> <=> result[g] = << >>
<1>1. phase = "idle"
  BY PipelineFacts DEF StageInv
<1>2. /\ Alarms(result[g]) \in Seq(AlarmType) /\ HasReadings(Alarms(result[g]))
      /\ Len(Alarms(result[g])) = Len(result[g])
  BY <1>1, FiredType
<1>3. /\ GroupAlarms(g) \in Seq(AlarmType)
      /\ GroupAlarms(g) = << >> <=> Alarms(result[g]) = << >>
  BY <1>2, EvaluateFacts DEF GroupAlarms
<1>4. timestamp_violations[g] = sort_violations_for_output(GroupAlarms(g))
  BY DEF PhaseInv
<1>5. /\ timestamp_violations[g] \in Seq(AlarmType)
      /\ timestamp_violations[g] = << >> <=> GroupAlarms(g) = << >>
  BY <1>3, <1>4, SortFacts
<1>6. Alarms(result[g]) = << >> <=> result[g] = << >>
  <2>1. result[g] \in Seq(EvalP!ViolationType)
    BY <1>1, RaisedOnly
  <2>2. \A q \in Seq(AlarmType) : q = << >> <=> Len(q) = 0
    OBVIOUS
  <2>3. \A q \in Seq(EvalP!ViolationType) : q = << >> <=> Len(q) = 0
    OBVIOUS
  <2> QED
    BY <1>2, <2>1, <2>2, <2>3
<1> QED
  BY <1>1, <1>3, <1>4, <1>5, <1>6

AlarmBlock == [timestamp : Int, alarms : Seq(AlarmType)]

BlockOf(g) == [timestamp |-> groups[g].timestamp, alarms |-> timestamp_violations[g]]

LEMMA AppendStep ==
    ASSUME FeedP!IInv, EvalP!IInv, ProgramInv, AppendOutput
    PROVE  LET g == next_group
           IN  /\ g \in 1 .. Len(groups)
               /\ PipelineInv
               /\ groups[g] \in NominalLine /\ BlockOf(g) \in AlarmBlock
               /\ timestamp_violations[g] = << >>
                     => /\ valid_file' = Append(valid_file, groups[g])
                        /\ alarms_file' = alarms_file
               /\ timestamp_violations[g] # << >>
                     => /\ valid_file' = valid_file
                        /\ alarms_file' = Append(alarms_file, BlockOf(g))
               /\ Consumed = Before(g) /\ Consumed' = UpTo(g)
<1> DEFINE g == next_group
<1>1. /\ stage = "append" /\ g <= Len(groups) /\ next_group' = g + 1
      /\ valid_file' = valid_file \o lines[g].valid
      /\ alarms_file' = alarms_file \o lines[g].alarm
      /\ UNCHANGED <<feed_vars, stage>>
  BY DEF AppendOutput
<1>2. PipelineInv /\ PhaseInv
  BY <1>1 DEF PipelineInv, ProgramInv
<1>3. g \in 1 .. Len(groups) /\ Consumed = Before(g) /\ g \in Nat \ {0}
  BY <1>1, ConsumedFacts DEF ProgramInv
<1>4. lines[g] = LinesOf(g)
  BY <1>1, <1>2, <1>3 DEF PhaseInv
<1>5. timestamp_violations[g] \in Seq(AlarmType)
  BY <1>1, <1>2, <1>3, ViolationsType
<1>6. groups[g] \in NominalLine
  <2>1. BatchRecords \in Seq(Record) /\ groups = build_timestamp_groups(BatchRecords)
    BY <1>2, PipelineFacts, BatchFacts
  <2>2. groups \in Seq(NominalLine)
    BY <2>1, GroupsType
  <2> QED
    BY <1>3, <2>2
<1>7. BlockOf(g) \in AlarmBlock
  BY <1>5, <1>6 DEF BlockOf, AlarmBlock, NominalLine
<1>8. /\ valid_file \in Seq(NominalLine) /\ alarms_file \in Seq(AlarmBlock)
  BY DEF ProgramInv, FilesType, NominalLine, AlarmBlock
<1>9. Consumed' = UpTo(g)
  <2>1. /\ stage' = "append" /\ next_group' > 1 /\ next_group' - 1 = g
        /\ processed' = processed /\ BatchRecords' = BatchRecords
    BY <1>1, <1>3, SameBatch DEF feed_vars
  <2> QED
    BY <2>1 DEF Consumed, UpTo
<1>10. ASSUME timestamp_violations[g] = << >>
       PROVE  valid_file' = Append(valid_file, groups[g]) /\ alarms_file' = alarms_file
  <2>1. lines[g].valid = <<groups[g]>> /\ lines[g].alarm = << >>
    BY <1>4, <1>10 DEF LinesOf
  <2>2. \A q \in Seq(AlarmBlock) : q \o << >> = q
    OBVIOUS
  <2>3. \A q \in Seq(NominalLine), x \in NominalLine : q \o <<x>> = Append(q, x)
    OBVIOUS
  <2> QED
    BY <1>1, <1>6, <1>8, <2>1, <2>2, <2>3
<1>11. ASSUME timestamp_violations[g] # << >>
       PROVE  valid_file' = valid_file /\ alarms_file' = Append(alarms_file, BlockOf(g))
  <2>1. lines[g].valid = << >> /\ lines[g].alarm = <<BlockOf(g)>>
    BY <1>4, <1>11 DEF LinesOf, format_alarm_lines, BlockOf
  <2>2. \A q \in Seq(NominalLine) : q \o << >> = q
    OBVIOUS
  <2>3. \A q \in Seq(AlarmBlock), x \in AlarmBlock : q \o <<x>> = Append(q, x)
    OBVIOUS
  <2> QED
    BY <1>1, <1>7, <1>8, <2>1, <2>2, <2>3
<1> QED
  BY <1>2, <1>3, <1>6, <1>7, <1>9, <1>10, <1>11

LEMMA SomeOf ==
    ASSUME NEW m \in Nat, NEW S \in SUBSET (1 .. m)
    PROVE  IsFiniteSet(S) /\ Cardinality(S) \in Nat /\ Cardinality(S) <= m
<1>1. IsFiniteSet(1 .. m) /\ Cardinality(1 .. m) = m
  BY FS_Interval
<1>2. IsFiniteSet(S) /\ Cardinality(S) <= Cardinality(1 .. m)
  BY <1>1, FS_Subset
<1> QED
  BY <1>1, <1>2, FS_CardinalityType

LEMMA FilesStep ==
    ASSUME FeedP!IInv, EvalP!IInv, ProgramInv, [Next]_vars
    PROVE  FilesType'
<1>1. /\ valid_file \in Seq(NominalLine) /\ alarms_file \in Seq(AlarmBlock)
      /\ totals \in [timestamps : Nat, anomalies : Nat, nominal : Nat]
  BY DEF ProgramInv, FilesType, NominalLine, AlarmBlock
<1>2. valid_file' \in Seq(NominalLine) /\ alarms_file' \in Seq(AlarmBlock)
  <2>1. CASE AppendOutput
    <3>1. /\ groups[next_group] \in NominalLine /\ BlockOf(next_group) \in AlarmBlock
          /\ \/ valid_file' = Append(valid_file, groups[next_group]) /\ alarms_file' = alarms_file
             \/ valid_file' = valid_file /\ alarms_file' = Append(alarms_file, BlockOf(next_group))
      BY <2>1, AppendStep
    <3>2. \A T : \A q \in Seq(T), x \in T : Append(q, x) \in Seq(T)
      OBVIOUS
    <3>3. /\ Append(valid_file, groups[next_group]) \in Seq(NominalLine)
          /\ Append(alarms_file, BlockOf(next_group)) \in Seq(AlarmBlock)
      BY <1>1, <3>1, <3>2
    <3> QED
      BY <1>1, <3>1, <3>3
  <2>2. CASE ~ AppendOutput
    BY <1>1, <2>2, QuietStep DEF ProgramInv
  <2> QED
    BY <2>1, <2>2
<1>3. totals' \in [timestamps : Nat, anomalies : Nat, nominal : Nat]
  <2>1. CASE EndBatch
    <3>0. StageInv
      BY DEF ProgramInv
    <3>1. Len(groups) \in Nat
      BY <3>0, ConsumedFacts
    <3>3. Anomalous \in SUBSET (1 .. Len(groups))
      BY DEF Anomalous
    <3>4. Cardinality(Anomalous) \in Nat /\ Cardinality(Anomalous) <= Len(groups)
      BY <3>1, <3>3, SomeOf
    <3>5. totals' = [timestamps |-> totals.timestamps + Len(groups),
                     anomalies  |-> totals.anomalies + Cardinality(Anomalous),
                     nominal    |-> totals.nominal + (Len(groups) - Cardinality(Anomalous))]
      BY <2>1 DEF EndBatch
    <3> QED
      BY <1>1, <3>1, <3>4, <3>5
  <2>2. CASE ~ EndBatch
    <3>1. totals' = totals
      <4>1. CASE Tick \/ FeedStep
        BY <4>1, FeedFrame DEF ProgramInv, batch_vars
      <4>2. CASE EvaluatorStep
        BY <4>2, EvaluatorFrame DEF ProgramInv, batch_vars
      <4>3. CASE StartPipeline \/ EvaluateCorrelations \/ SortViolations \/ FormatOutput \/ AppendOutput
        BY <4>3 DEF StartPipeline, EvaluateCorrelations, SortViolations, FormatOutput, AppendOutput
      <4>4. CASE UNCHANGED vars
        BY <4>4 DEF vars, batch_vars
      <4> QED
        BY <2>2, <4>1, <4>2, <4>3, <4>4 DEF Next, Step, Done
    <3> QED
      BY <1>1, <3>1
  <2> QED
    BY <2>1, <2>2
<1> QED
  BY <1>2, <1>3 DEF FilesType, NominalLine, AlarmBlock

LEMMA TimestampsStep ==
    ASSUME FeedP!IInv, EvalP!IInv, ProgramInv, [Next]_vars
    PROVE  TimestampsInv'
<1>1. /\ Timestamps(valid_file) \subseteq ReportedTimestamps
      /\ Timestamps(alarms_file) \subseteq ReportedTimestamps
      /\ Sorted => NominalExcludesAlarm
  BY DEF ProgramInv, TimestampsInv
<1>2. CASE ~ AppendOutput
  <2>1. records' = records /\ UNCHANGED <<valid_file, alarms_file>> /\ Consumed' = Consumed
    BY <1>2, QuietStep DEF ProgramInv
  <2>2. (Sorted' <=> Sorted) /\ ReportedTimestamps' = ReportedTimestamps
    BY <2>1 DEF Sorted, ReportedTimestamps
  <2>3. /\ Timestamps(valid_file)' = Timestamps(valid_file)
        /\ Timestamps(alarms_file)' = Timestamps(alarms_file)
    BY <2>1
  <2> QED
    BY <1>1, <2>2, <2>3 DEF TimestampsInv, NominalExcludesAlarm
<1>3. CASE AppendOutput
  <2> DEFINE g == next_group
             ts == groups[g].timestamp
  <2>1. /\ g \in 1 .. Len(groups) /\ PipelineInv
        /\ groups[g] \in NominalLine /\ BlockOf(g) \in AlarmBlock
        /\ \/ valid_file' = Append(valid_file, groups[g]) /\ alarms_file' = alarms_file
           \/ valid_file' = valid_file /\ alarms_file' = Append(alarms_file, BlockOf(g))
        /\ Consumed = Before(g) /\ Consumed' = UpTo(g)
    BY <1>3, AppendStep
  <2>2. /\ Before(g) \in Nat /\ UpTo(g) \in Nat /\ Before(g) < UpTo(g)
        /\ ts = records[Before(g) + 1].timestamp
    BY <2>1, PipelineFacts, GroupPlaces
  <2>3. /\ AtRunEnd(Before(g))
        /\ \A n \in (Before(g) + 1) .. UpTo(g) : n \in 1 .. Len(records)
    BY <2>1, PipelineFacts, GroupIsMonitorRun
  <2>4. records' = records
    BY <1>3 DEF AppendOutput, feed_vars
  <2>5. records \in Seq(Record) /\ Len(records) \in Nat
    BY <2>1, PipelineFacts, InputFacts
  <2>6. Before(g) + 1 \in 1 .. Len(records)
    BY <2>2, <2>3
  <2>7. ReportedTimestamps \subseteq ReportedTimestamps' /\ ts \in ReportedTimestamps'
    BY <2>1, <2>2, <2>4 DEF ReportedTimestamps
  <2>8. /\ valid_file \in Seq(NominalLine) /\ alarms_file \in Seq(AlarmBlock)
    BY DEF ProgramInv, FilesType, NominalLine, AlarmBlock
  <2>9. ASSUME NEW T, NEW file \in Seq(T), NEW line \in T
        PROVE  Timestamps(Append(file, line)) = Timestamps(file) \cup {line.timestamp}
    <3>1. /\ Len(Append(file, line)) = Len(file) + 1 /\ Len(file) \in Nat
          /\ Append(file, line)[Len(file) + 1] = line
          /\ \A n \in 1 .. Len(file) : Append(file, line)[n] = file[n]
      OBVIOUS
    <3> QED
      BY <3>1 DEF Timestamps
  <2>10. /\ \/ Timestamps(valid_file') = Timestamps(valid_file) \cup {ts} /\ alarms_file' = alarms_file
            \/ valid_file' = valid_file /\ Timestamps(alarms_file') = Timestamps(alarms_file) \cup {ts}
    <3>1. BlockOf(g).timestamp = ts
      BY DEF BlockOf
    <3>2. Timestamps(Append(valid_file, groups[g])) = Timestamps(valid_file) \cup {ts}
      BY <2>1, <2>8, <2>9
    <3>3. Timestamps(Append(alarms_file, BlockOf(g))) = Timestamps(alarms_file) \cup {ts}
      BY <2>1, <2>8, <2>9, <3>1
    <3> QED
      BY <2>1, <3>2, <3>3
  <2>11. Sorted => ts \notin ReportedTimestamps
    <3> SUFFICES ASSUME Sorted, NEW n \in 1 .. Before(g) PROVE records[n].timestamp # ts
      BY <2>1 DEF ReportedTimestamps
    <3>1. /\ Before(g) \in 1 .. Len(records) /\ Before(g) # 0 /\ Before(g) # Len(records)
          /\ n \in 1 .. Len(records) /\ Before(g) < Before(g) + 1
      BY <2>2, <2>5, <2>6
    <3>2. records[Before(g)].timestamp # ts
      BY <2>2, <2>3, <3>1 DEF AtRunEnd
    <3>3. records[Before(g)].timestamp <= ts
      BY <2>2, <2>6, <3>1 DEF Sorted
    <3>4. n < Before(g) => records[n].timestamp <= records[Before(g)].timestamp
      BY <3>1 DEF Sorted
    <3>5. records[n].timestamp \in Int /\ records[Before(g)].timestamp \in Int /\ ts \in Int
      <4>1. \A k \in 1 .. Len(records) : records[k] \in Record
        BY <2>5
      <4>2. \A x \in Record : x.timestamp \in Int
        BY DEF Record
      <4> QED
        BY <2>2, <2>6, <3>1, <4>1, <4>2
    <3> QED
      BY <2>2, <3>2, <3>3, <3>4, <3>5
  <2>12. Sorted' <=> Sorted
    BY <2>4 DEF Sorted
  <2> HIDE DEF ts
  <2>13. /\ Timestamps(valid_file') \subseteq ReportedTimestamps'
         /\ Timestamps(alarms_file') \subseteq ReportedTimestamps'
    BY <1>1, <2>7, <2>10
  <2>14. Sorted => Timestamps(valid_file') \cap Timestamps(alarms_file') = {}
    BY <1>1, <2>10, <2>11 DEF NominalExcludesAlarm
  <2>15. Timestamps(valid_file)' = Timestamps(valid_file') /\ Timestamps(alarms_file)' = Timestamps(alarms_file')
    OBVIOUS
  <2> QED
    BY <2>12, <2>13, <2>14 DEF TimestampsInv, NominalExcludesAlarm
<1> QED
  BY <1>2, <1>3

LEMMA StatisticsStep ==
    ASSUME FeedP!IInv, EvalP!IInv, ProgramInv, [Next]_vars
    PROVE  StatisticsInv'
<1>1. /\ totals.timestamps = totals.nominal + totals.anomalies
      /\ Len(alarms_file) = totals.anomalies + Cardinality(AppendedAlarms)
      /\ Len(valid_file) + Cardinality(AppendedAlarms) = totals.nominal + (next_group - 1)
  BY DEF ProgramInv, StatisticsInv
<1>2. /\ totals.timestamps \in Nat /\ totals.nominal \in Nat /\ totals.anomalies \in Nat
      /\ valid_file \in Seq(NominalLine) /\ alarms_file \in Seq(AlarmBlock)
      /\ Len(valid_file) \in Nat /\ Len(alarms_file) \in Nat
  <2>1. /\ valid_file \in Seq(NominalLine) /\ alarms_file \in Seq(AlarmBlock)
        /\ totals \in [timestamps : Nat, anomalies : Nat, nominal : Nat]
    BY DEF ProgramInv, FilesType, NominalLine, AlarmBlock
  <2> QED
    BY <2>1
<1>3. FeedP!IInv /\ StageInv
  BY DEF ProgramInv
<1>4. next_group \in Nat \ {0} /\ Len(groups) \in Nat
  BY <1>3, ConsumedFacts
<1>5. next_group \in 1 .. (Len(groups) + 1)
  BY <1>3 DEF StageInv
<1>6. CASE /\ UNCHANGED <<totals, valid_file, alarms_file, next_group>>
           /\ AppendedAlarms' = AppendedAlarms
  BY <1>1, <1>6 DEF StatisticsInv
<1>7. CASE UNCHANGED <<totals, valid_file, alarms_file, next_group, timestamp_violations>>
  <2>1. AppendedAlarms' = AppendedAlarms
    BY <1>7 DEF AppendedAlarms
  <2> QED
    BY <1>6, <1>7, <2>1
<1>8. CASE Tick \/ FeedStep
  BY <1>3, <1>7, <1>8, FeedFrame DEF batch_vars
<1>9. CASE EvaluatorStep
  BY <1>3, <1>7, <1>9, EvaluatorFrame DEF batch_vars
<1>10. CASE StartPipeline \/ EvaluateCorrelations \/ SortViolations \/ FormatOutput
  <2>1. /\ UNCHANGED <<totals, valid_file, alarms_file>>
        /\ next_group = 1 /\ next_group' = 1
    BY <1>3, <1>10 DEF StartPipeline, EvaluateCorrelations, SortViolations, FormatOutput, StageInv
  <2>2. AppendedAlarms = {} /\ AppendedAlarms' = {}
    BY <2>1 DEF AppendedAlarms
  <2> QED
    BY <1>6, <2>1, <2>2
<1>11. CASE AppendOutput
  <2> DEFINE g == next_group
  <2>1. /\ g \in 1 .. Len(groups)
        /\ groups[g] \in NominalLine /\ BlockOf(g) \in AlarmBlock
        /\ timestamp_violations[g] = << >>
              => valid_file' = Append(valid_file, groups[g]) /\ alarms_file' = alarms_file
        /\ timestamp_violations[g] # << >>
              => valid_file' = valid_file /\ alarms_file' = Append(alarms_file, BlockOf(g))
    BY <1>11, AppendStep
  <2>2. /\ next_group' = g + 1 /\ totals' = totals /\ timestamp_violations' = timestamp_violations
        /\ next_group' - 1 = g
    BY <1>4, <1>11 DEF AppendOutput
  <2>3. \A T : \A q \in Seq(T), x \in T : Len(Append(q, x)) = Len(q) + 1
    OBVIOUS
  <2>4. /\ Len(Append(valid_file, groups[g])) = Len(valid_file) + 1
        /\ Len(Append(alarms_file, BlockOf(g))) = Len(alarms_file) + 1
    BY <1>2, <2>1, <2>3
  <2>5. /\ IsFiniteSet(AppendedAlarms) /\ Cardinality(AppendedAlarms) \in Nat
        /\ g \notin AppendedAlarms
    <3>1. g - 1 \in Nat /\ AppendedAlarms \in SUBSET (1 .. (g - 1))
      BY <1>4 DEF AppendedAlarms
    <3>2. g \notin 1 .. (g - 1)
      BY <1>4
    <3> QED
      BY <3>1, <3>2, SomeOf
  <2>6. AppendedAlarms' = {n \in 1 .. g : timestamp_violations[n] # << >>}
    BY <2>2 DEF AppendedAlarms
  <2>7. 1 .. g = (1 .. (g - 1)) \cup {g}
    BY <1>4
  <2>8. CASE timestamp_violations[g] = << >>
    <3>1. AppendedAlarms' = AppendedAlarms
      BY <2>6, <2>7, <2>8 DEF AppendedAlarms
    <3>2. Len(valid_file') = Len(valid_file) + 1 /\ alarms_file' = alarms_file
      BY <2>1, <2>4, <2>8
    <3>3. /\ totals'.timestamps = totals'.nominal + totals'.anomalies
          /\ Len(alarms_file') = totals'.anomalies + Cardinality(AppendedAlarms')
          /\ Len(valid_file') + Cardinality(AppendedAlarms') = totals'.nominal + (next_group' - 1)
      <4> DEFINE c == Cardinality(AppendedAlarms)
                 d == Cardinality(AppendedAlarms')
                 p == Len(valid_file)
                 q == Len(alarms_file)
                 t == totals
      <4>1. /\ d = c /\ c \in Nat /\ totals' = t /\ Len(valid_file') = p + 1 /\ Len(alarms_file') = q
            /\ next_group' - 1 = g /\ g \in Nat
            /\ p \in Nat /\ q \in Nat
        BY <1>2, <1>4, <2>2, <2>5, <3>1, <3>2
      <4>2. /\ t.timestamps = t.nominal + t.anomalies
            /\ q = t.anomalies + c /\ p + c = t.nominal + (g - 1)
            /\ t.nominal \in Nat
        BY <1>1, <1>2
      <4> HIDE DEF c, d, p, q, t, g
      <4>3. (p + 1) + d = t.nominal + g
        BY <4>1, <4>2
      <4> QED
        BY <4>1, <4>2, <4>3 DEF d
    <3> QED
      BY <3>3 DEF StatisticsInv
  <2>9. CASE timestamp_violations[g] # << >>
    <3>1. AppendedAlarms' = AppendedAlarms \cup {g}
      BY <2>6, <2>7, <2>9 DEF AppendedAlarms
    <3>2. Cardinality(AppendedAlarms') = Cardinality(AppendedAlarms) + 1
      BY <2>5, <3>1, FS_AddElement
    <3>3. valid_file' = valid_file /\ Len(alarms_file') = Len(alarms_file) + 1
      BY <2>1, <2>4, <2>9
    <3>4. /\ totals'.timestamps = totals'.nominal + totals'.anomalies
          /\ Len(alarms_file') = totals'.anomalies + Cardinality(AppendedAlarms')
          /\ Len(valid_file') + Cardinality(AppendedAlarms') = totals'.nominal + (next_group' - 1)
      <4> DEFINE c == Cardinality(AppendedAlarms)
                 d == Cardinality(AppendedAlarms')
                 p == Len(valid_file)
                 q == Len(alarms_file)
                 t == totals
                 n == t.nominal
                 a == t.anomalies
      <4>1. /\ d = c + 1 /\ c \in Nat /\ totals' = t /\ Len(valid_file') = p /\ Len(alarms_file') = q + 1
            /\ next_group' - 1 = g /\ g \in Nat
            /\ p \in Nat /\ q \in Nat
        BY <1>2, <1>4, <2>2, <2>5, <3>2, <3>3
      <4>2. /\ t.timestamps = n + a
            /\ q = a + c /\ p + c = n + (g - 1)
            /\ n \in Nat /\ a \in Nat
        BY <1>1, <1>2
      <4> HIDE DEF c, d, p, q, n, a, g
      <4>3. p + d = n + g /\ q + 1 = a + d
        BY <4>1, <4>2
      <4> HIDE DEF t
      <4>4. totals'.timestamps = totals'.nominal + totals'.anomalies
        BY <4>1, <4>2 DEF n, a
      <4> QED
        BY <4>1, <4>3, <4>4 DEF d, n, a
    <3> QED
      BY <3>4 DEF StatisticsInv
  <2> QED
    BY <2>8, <2>9
<1>12. CASE EndBatch
  <2>1. /\ UNCHANGED <<valid_file, alarms_file>> /\ next_group' = 1
        /\ next_group > Len(groups)
        /\ totals' = [timestamps |-> totals.timestamps + Len(groups),
                      anomalies  |-> totals.anomalies + Cardinality(Anomalous),
                      nominal    |-> totals.nominal + (Len(groups) - Cardinality(Anomalous))]
    BY <1>12 DEF EndBatch
  <2>2. next_group - 1 = Len(groups)
    BY <1>4, <1>5, <2>1
  <2>3. AppendedAlarms = Anomalous
    BY <2>2 DEF AppendedAlarms, Anomalous
  <2>4. Cardinality(Anomalous) \in Nat
    <3>1. Anomalous \in SUBSET (1 .. Len(groups))
      BY DEF Anomalous
    <3> QED
      BY <1>4, <3>1, SomeOf
  <2>5. AppendedAlarms' = {}
    BY <2>1 DEF AppendedAlarms
  <2>6. Cardinality(AppendedAlarms') = 0
    BY <2>5, FS_EmptySet
  <2>7. /\ Len(alarms_file) = totals.anomalies + Cardinality(Anomalous)
        /\ Len(valid_file) + Cardinality(Anomalous) = totals.nominal + Len(groups)
    BY <1>1, <2>2, <2>3
  <2>8. /\ totals'.timestamps = totals'.nominal + totals'.anomalies
        /\ Len(alarms_file) = totals'.anomalies
        /\ Len(valid_file) = totals'.nominal
    <3> DEFINE c == Cardinality(Anomalous)
               m == Len(groups)
               p == Len(valid_file)
               q == Len(alarms_file)
               t == totals
               n == t.nominal
               a == t.anomalies
    <3>1. /\ totals'.timestamps = t.timestamps + m /\ totals'.anomalies = a + c
          /\ totals'.nominal = n + (m - c)
      BY <2>1
    <3>2. /\ c \in Nat /\ m \in Nat /\ p \in Nat /\ q \in Nat /\ n \in Nat /\ a \in Nat
          /\ t.timestamps = n + a
      BY <1>1, <1>2, <1>4, <2>4
    <3>3. q = a + c /\ p + c = n + m
      BY <2>7
    <3> HIDE DEF c, m, p, q, n, a
    <3>4. t.timestamps + m = (n + (m - c)) + (a + c) /\ p = n + (m - c)
      BY <3>2, <3>3
    <3> QED
      BY <3>1, <3>3, <3>4 DEF p, q
  <2>9. totals'.nominal \in Nat /\ totals'.anomalies \in Nat
    BY <1>2, <2>8
  <2>10. /\ totals'.timestamps = totals'.nominal + totals'.anomalies
         /\ Len(alarms_file') = totals'.anomalies + Cardinality(AppendedAlarms')
         /\ Len(valid_file') + Cardinality(AppendedAlarms') = totals'.nominal + (next_group' - 1)
    <3> DEFINE d == Cardinality(AppendedAlarms')
               p == Len(valid_file)
               q == Len(alarms_file)
               n == totals'.nominal
               a == totals'.anomalies
    <3>1. /\ d = 0 /\ next_group' - 1 = 0 /\ Len(valid_file') = p /\ Len(alarms_file') = q
          /\ q = a /\ p = n /\ n \in Nat /\ a \in Nat /\ totals'.timestamps = n + a
      BY <2>1, <2>6, <2>8, <2>9
    <3> HIDE DEF d, p, q, n, a
    <3>2. Len(alarms_file') = a + d /\ Len(valid_file') + d = n + (next_group' - 1)
      BY <3>1
    <3> QED
      BY <3>1, <3>2 DEF d, n, a
  <2> QED
    BY <2>10 DEF StatisticsInv
<1>13. CASE UNCHANGED vars
  BY <1>7, <1>13 DEF vars, batch_vars
<1> QED
  BY <1>8, <1>9, <1>10, <1>11, <1>12, <1>13 DEF Next, Step, Done
-----------------------------------------------------------------------------
(***************************************************************************)
(* The inductive invariant of the program: those of its parts, and what    *)
(* process_batch keeps between them.                                       *)
(***************************************************************************)
IInv == FeedP!IInv /\ EvalP!IInv /\ ProgramInv

LEMMA InitInv == Init => IInv
<1> SUFFICES ASSUME Init PROVE IInv
  OBVIOUS
<1>1. FeedP!IInv
  BY FeedInit DEF Init
<1>2. EvalP!IInv
  BY EvalInit DEF Init
<1>3. /\ stage = "idle" /\ groups = << >> /\ next_group = 1 /\ phase = "idle"
      /\ valid_file = << >> /\ alarms_file = << >>
      /\ totals = [timestamps |-> 0, anomalies |-> 0, nominal |-> 0]
      /\ processed = << >> /\ timeline = [s \in 0 .. (NumSensors - 1) |-> << >>]
  BY DEF Init, Eval!Init, Feed!Init, Eval!Tokens
<1>4. StageInv
  <2>1. Len(groups) = 0
    BY <1>3
  <2>2. next_group \in 1 .. (Len(groups) + 1)
    BY <1>3, <2>1
  <2> QED
    BY <1>3, <2>2 DEF StageInv
<1>5. PhaseInv
  BY <1>3 DEF PhaseInv
<1>6. HistoryInv
  <2> SUFFICES ASSUME NEW s \in 0 .. (NumSensors - 1)
               PROVE  timeline[s] = Mon!History(s, Evaluated)
    BY DEF HistoryInv
  <2>1. Evaluated = 0
    BY <1>3 DEF Evaluated
  <2>2. records \in Seq(Record) /\ 0 <= Len(records)
    BY <1>1, InputFacts
  <2>3. Mon!History(s, 0) = ValuesOf(Own(s, 0, 0))
    BY <2>2, HistoryIsValues
  <2>4. Own(s, 0, 0) = {}
    BY DEF Own
  <2>5. Cardinality(Own(s, 0, 0)) = 0
    BY <2>4, FS_EmptySet
  <2>6. ValuesOf(Own(s, 0, 0)) = << >>
    BY <2>5 DEF ValuesOf
  <2> QED
    BY <1>3, <2>1, <2>3, <2>6
<1>7. FilesType
  BY <1>3 DEF FilesType
<1>8. StatisticsInv
  <2>1. AppendedAlarms = {}
    BY <1>3 DEF AppendedAlarms
  <2>2. Cardinality(AppendedAlarms) = 0
    BY <2>1, FS_EmptySet
  <2>3. Len(valid_file) = 0 /\ Len(alarms_file) = 0
    BY <1>3
  <2> QED
    BY <1>3, <2>2, <2>3 DEF StatisticsInv
<1>9. TimestampsInv
  <2>1. Timestamps(valid_file) = {} /\ Timestamps(alarms_file) = {}
    BY <1>3 DEF Timestamps
  <2> QED
    BY <2>1 DEF TimestampsInv, NominalExcludesAlarm
<1> QED
  BY <1>1, <1>2, <1>4, <1>5, <1>6, <1>7, <1>8, <1>9 DEF IInv, ProgramInv

LEMMA FeedInvStep ==
    ASSUME FeedP!IInv, StageInv, [Next]_vars
    PROVE  FeedP!IInv'
<1>1. CASE Tick \/ FeedStep \/ EndBatch
  BY <1>1, FeedSteps
<1>2. CASE \/ StartPipeline \/ EvaluatorStep \/ EvaluateCorrelations \/ SortViolations
           \/ FormatOutput \/ AppendOutput \/ UNCHANGED vars
  <2>1. UNCHANGED feed_vars
    BY <1>2 DEF StartPipeline, EvaluatorStep, EvaluateCorrelations, SortViolations,
           FormatOutput, AppendOutput, vars
  <2> QED
    BY <2>1, FeedStutter
<1> QED
  BY <1>1, <1>2 DEF Next, Step, Done

LEMMA EvalInvStep ==
    ASSUME FeedP!IInv, EvalP!IInv, StageInv, [Next]_vars
    PROVE  EvalP!IInv'
<1>1. CASE StartPipeline
  <2> DEFINE gs == build_timestamp_groups(BatchRecords)
             c == CallOf(gs)
  <2>1. Eval!StartCall(c) /\ pc = "process"
    BY <1>1 DEF StartPipeline
  <2>2. BatchRecords \in Seq(Record)
    BY <2>1, BatchFacts
  <2>3. c.groups \in Seq(Seq(Eval!Reading))
    BY <2>2, GroupsType
  <2>4. c = [groups |-> c.groups,
             sensor_sequences |-> build_per_sensor_sequences(c.groups, NumSensors)]
    BY DEF CallOf
  <2> HIDE DEF c
  <2>5. c \in Eval!Call /\ Eval!WellFormedCall(c)
    BY <2>3, <2>4, CallIsWellFormed
  <2> QED
    BY <2>1, <2>5, EvalStart
<1>2. CASE EvaluatorStep
  BY <1>2, EvalThreadStep, EvalMainStep DEF EvaluatorStep
<1>3. CASE \/ Tick \/ FeedStep \/ EvaluateCorrelations \/ SortViolations
           \/ FormatOutput \/ AppendOutput \/ EndBatch \/ UNCHANGED vars
  <2>1. UNCHANGED eval_vars
    BY <1>3, FeedFrame DEF EvaluateCorrelations, SortViolations, FormatOutput, AppendOutput,
           EndBatch, vars
  <2> QED
    BY <2>1, EvalStutter
<1> QED
  BY <1>1, <1>2, <1>3 DEF Next, Step, Done

LEMMA NextInv == IInv /\ [Next]_vars => IInv'
<1> SUFFICES ASSUME IInv, [Next]_vars PROVE IInv'
  OBVIOUS
<1>1. FeedP!IInv /\ EvalP!IInv /\ ProgramInv /\ StageInv /\ PhaseInv /\ HistoryInv
  BY DEF IInv, ProgramInv
<1>2. FeedP!IInv'
  BY <1>1, FeedInvStep
<1>3. EvalP!IInv'
  BY <1>1, EvalInvStep
<1>4. StageInv'
  BY <1>1, StageStep
<1>5. PhaseInv'
  BY <1>1, PhaseStep
<1>6. HistoryInv'
  BY <1>1, HistoryStep
<1>7. FilesType'
  BY <1>1, FilesStep
<1>8. StatisticsInv'
  BY <1>1, StatisticsStep
<1>9. TimestampsInv'
  BY <1>1, TimestampsStep
<1> QED
  BY <1>2, <1>3, <1>4, <1>5, <1>6, <1>7, <1>8, <1>9 DEF IInv, ProgramInv

(* The program keeps its invariant, whatever the input, the rules, the     *)
(* batch configuration and the number of threads.                          *)
THEOREM InductiveInvariant == Spec => []IInv
<1>1. Init => IInv
  BY InitInv
<1>2. IInv /\ [Next]_vars => IInv'
  BY NextInv
<1> QED
  BY <1>1, <1>2, PTL DEF Spec

(* Phases 1 and 2 hand phase 3 a batch whose readings are indexed by       *)
(* sensor completely and in order, for every batch the accumulator flushes:*)
(* what the proofs about RuleEvaluation assume of a call holds of the      *)
(* program's.                                                              *)
THEOREM CallsAreWellFormed == Spec => []CallsWellFormed
<1>1. IInv => CallsWellFormed
  BY DEF IInv, EvalP!IInv, EvalP!TypeOK, CallsWellFormed, Eval!Call, EvalP!Call,
         Eval!Reading, EvalP!Reading, Eval!Tokens, EvalP!Tokens, Eval!NoSensor, EvalP!NoSensor,
         Eval!Value, EvalP!Value, Eval!WellFormedCall, EvalP!WellFormedCall,
         Eval!IsReadingOf, EvalP!IsReadingOf, Eval!Precedes, EvalP!Precedes
<1> QED
  BY <1>1, InductiveInvariant, PTL

(* The statistics main.cpp prints between two batches and at the end count *)
(* the lines that are in the files.                                        *)
THEOREM StatisticsAreOfTheFiles == Spec => []StatisticsMatchFiles
<1>1. IInv => StatisticsMatchFiles
  <2> SUFFICES ASSUME IInv, stage = "idle"
               PROVE  /\ totals.nominal = Len(valid_file)
                      /\ totals.anomalies = Len(alarms_file)
                      /\ totals.timestamps = totals.nominal + totals.anomalies
    BY DEF StatisticsMatchFiles
  <2>1. StageInv /\ StatisticsInv /\ FilesType
    BY DEF IInv, ProgramInv
  <2>2. next_group = 1
    BY <2>1 DEF StageInv
  <2>3. AppendedAlarms = {}
    BY <2>2 DEF AppendedAlarms
  <2>4. Cardinality(AppendedAlarms) = 0
    BY <2>3, FS_EmptySet
  <2>5. /\ Len(valid_file) \in Nat /\ totals.anomalies \in Nat /\ totals.nominal \in Nat
    BY <2>1 DEF FilesType
  <2> QED
    BY <2>1, <2>2, <2>4, <2>5 DEF StatisticsInv
<1> QED
  BY <1>1, InductiveInvariant, PTL

(* Where the input is sorted by timestamp, no timestamp has both a NOMINAL *)
(* line and an alarm, however the batches are cut: a run of one timestamp  *)
(* is one group of one batch.                                              *)
THEOREM NominalOrAlarm == Spec => []NominalExcludesAlarmWhenSorted
<1>1. IInv => NominalExcludesAlarmWhenSorted
  BY DEF IInv, ProgramInv, TimestampsInv, NominalExcludesAlarmWhenSorted
<1> QED
  BY <1>1, InductiveInvariant, PTL
-----------------------------------------------------------------------------
(***************************************************************************)
(* The alarms of Monitor under a timestamp are those phase 3 returns: the  *)
(* k-th of a group's violations is the alarm of the record at its reading. *)
(***************************************************************************)
AlarmAt(n, s, j) ==
    [rule_id  |-> SensorRules[s][j].rule_id,
     priority |-> SensorRules[s][j].priority,
     readings |-> <<Mon!Pair(n)>>,
     place    |-> <<s, n, j>>]

LEMMA RaisedAtFacts ==
    ASSUME NEW n, NEW e
    PROVE  e \in Mon!RaisedAt(n) <=>
              /\ records[n].sensor_token \in 0 .. (NumSensors - 1)
              /\ \E j \in 1 .. Len(SensorRules[records[n].sensor_token]) :
                    /\ FiresAt(n, records[n].sensor_token, j)
                    /\ e = AlarmAt(n, records[n].sensor_token, j)
<1> DEFINE s == records[n].sensor_token
<1>1. \A j : FiresAt(n, s, j) <=> LET h == Mon!History(s, n)
                                  IN  Mon!Fires(SensorRules[s][j], h, Len(h))
  BY DEF FiresAt
<1>2. e \in Mon!RaisedBy(n, s) <=>
         \E j \in 1 .. Len(SensorRules[s]) : FiresAt(n, s, j) /\ e = AlarmAt(n, s, j)
  BY <1>1, ZenonT(60) DEF Mon!RaisedBy, AlarmAt
<1> HIDE DEF s
<1>3. Mon!RaisedAt(n) = IF s \in 0 .. (NumSensors - 1) THEN Mon!RaisedBy(n, s) ELSE {}
  BY Zenon DEF Mon!RaisedAt, s
<1> QED
  BY <1>2, <1>3 DEF s

Placed(v, g) == AlarmAt(Before(g) + v.reading, v.sensor_token, v.rule)

GroupRaised(g) == Mon!Raised(Before(g), UpTo(g))

LEMMA RaisedAreFired ==
    ASSUME PipelineInv, phase = "idle", NEW g \in 1 .. Len(groups)
    PROVE  /\ \A k \in 1 .. Len(result[g]) : Placed(result[g][k], g) \in GroupRaised(g)
           /\ \A e \in GroupRaised(g) :
                 \E k \in 1 .. Len(result[g]) : e = Placed(result[g][k], g)
<1> DEFINE a == Before(g)
           b == UpTo(g)
<1>1. /\ a \in Nat /\ b \in Nat /\ Len(groups[g].readings) = b - a
      /\ \A r \in 1 .. Len(groups[g].readings) :
            groups[g].readings[r] = Pair(records[a + r])
  BY PipelineFacts, GroupPlaces
<1> HIDE DEF a, b
<1>2. \A e : e \in GroupRaised(g) <=> \E n \in (a + 1) .. b : e \in Mon!RaisedAt(n)
  BY DEF GroupRaised, Mon!Raised, a, b
<1>3. \A r \in 1 .. Len(groups[g].readings) :
         groups[g].readings[r].sensor_token = records[a + r].sensor_token
  <2>1. \A x : Pair(x).sensor_token = x.sensor_token
    BY DEF Pair
  <2> QED
    BY <1>1, <2>1, Zenon
<1>4. ASSUME NEW k \in 1 .. Len(result[g])
      PROVE  Placed(result[g][k], g) \in GroupRaised(g)
  <2> DEFINE v == result[g][k]
  <2>1. IsRaised(v, g)
    BY RaisedOnly
  <2> HIDE DEF v
  <2>2. /\ v.reading \in 1 .. Len(groups[g].readings)
        /\ records[a + v.reading].sensor_token = v.sensor_token
        /\ v.sensor_token \in 0 .. (NumSensors - 1)
        /\ v.rule \in 1 .. Len(SensorRules[v.sensor_token])
        /\ FiresAt(a + v.reading, v.sensor_token, v.rule)
    BY <1>3, <2>1 DEF IsRaised, a
  <2>3. Placed(v, g) \in Mon!RaisedAt(a + v.reading)
    BY <2>2, RaisedAtFacts DEF Placed, a
  <2>4. a + v.reading \in (a + 1) .. b
    BY <1>1, <2>2
  <2> QED
    BY <1>2, <2>3, <2>4 DEF v
<1>5. ASSUME NEW e \in GroupRaised(g)
      PROVE  \E k \in 1 .. Len(result[g]) : e = Placed(result[g][k], g)
  <2>1. PICK n \in (a + 1) .. b : e \in Mon!RaisedAt(n)
    BY <1>2
  <2> DEFINE r == n - a
  <2>2. r \in 1 .. Len(groups[g].readings) /\ a + r = n
    BY <1>1, <2>1
  <2> HIDE DEF r
  <2> DEFINE s == records[n].sensor_token
  <2>3. /\ s \in 0 .. (NumSensors - 1)
        /\ \E j \in 1 .. Len(SensorRules[s]) : FiresAt(n, s, j) /\ e = AlarmAt(n, s, j)
    BY <2>1, RaisedAtFacts
  <2>4. groups[g].readings[r].sensor_token = s
    BY <1>3, <2>2
  <2> HIDE DEF s
  <2>5. PICK j \in 1 .. Len(SensorRules[s]) : FiresAt(n, s, j) /\ e = AlarmAt(n, s, j)
    BY <2>3
  <2>6. FiresAt(Before(g) + r, s, j)
    BY <2>2, <2>5 DEF a
  <2>7. PICK k \in 1 .. Len(result[g]) :
           result[g][k] = Found(s, j, groups[g].readings[r].value, r)
    BY <2>2, <2>3, <2>4, <2>6, RaisedAll
  <2>8. Placed(result[g][k], g) = AlarmAt(n, s, j)
    BY <2>2, <2>7 DEF Placed, Found, a
  <2> QED
    BY <2>5, <2>7, <2>8
<1> QED
  BY <1>4, <1>5

(* v's alarm says what phase 4 is given of v, and its place what tells it  *)
(* from the others.                                                        *)
LEMMA PlacedFacts ==
    ASSUME PipelineInv, phase = "idle", NEW g \in 1 .. Len(groups),
           NEW k \in 1 .. Len(result[g])
    PROVE  LET v == result[g][k]
               e == Placed(v, g)
               f == Alarms(result[g])[k]
           IN  /\ e.rule_id = f.rule_id /\ e.priority = f.priority /\ e.readings = f.readings
               /\ f \in AlarmType
               /\ e.place = <<v.sensor_token, Before(g) + v.reading, v.rule>>
               /\ v.sensor_token \in 0 .. (NumSensors - 1)
               /\ v.rule \in 1 .. Len(SensorRules[v.sensor_token])
               /\ v.rule \in Int /\ v.reading \in Nat /\ Before(g) \in Nat
               /\ f.rule_id = SensorRules[v.sensor_token][v.rule].rule_id
<1> DEFINE v == result[g][k]
           a == Before(g)
<1>1. /\ a \in Nat
      /\ \A r \in 1 .. Len(groups[g].readings) :
            groups[g].readings[r] = Pair(records[a + r])
  BY PipelineFacts, GroupPlaces
<1>2. IsRaised(v, g)
  BY RaisedOnly
<1>3. Alarms(result[g])[k] = Alarm(v) /\ Alarms(result[g]) \in Seq(AlarmType)
      /\ Len(Alarms(result[g])) = Len(result[g])
  BY FiredType
<1>4. Alarm(v) \in AlarmType
  BY <1>3
<1>5. v \in EvalP!ViolationType
  BY RaisedOnly
<1> HIDE DEF v, a
<1>6. /\ v.sensor_token \in 0 .. (NumSensors - 1)
      /\ v.rule \in 1 .. Len(SensorRules[v.sensor_token])
      /\ v.rule \in Int /\ v.reading \in Nat
  BY <1>2, <1>5 DEF IsRaised, EvalP!ViolationType
<1>7. [sensor_token |-> v.sensor_token, value |-> v.value] = Mon!Pair(a + v.reading)
  <2>1. /\ v.reading \in 1 .. Len(groups[g].readings)
        /\ groups[g].readings[v.reading].sensor_token = v.sensor_token
        /\ v = Found(v.sensor_token, v.rule, groups[g].readings[v.reading].value, v.reading)
    BY <1>2 DEF IsRaised
  <2>2. v.value = groups[g].readings[v.reading].value
    BY <2>1 DEF Found
  <2>3. groups[g].readings[v.reading] = Pair(records[a + v.reading])
    BY <1>1, <2>1
  <2> QED
    BY <2>1, <2>2, <2>3 DEF Pair, Mon!Pair
<1>8. Placed(v, g).readings = Alarm(v).readings
  BY <1>7 DEF Placed, AlarmAt, Alarm, a
<1>9. /\ Placed(v, g).rule_id = Alarm(v).rule_id /\ Placed(v, g).priority = Alarm(v).priority
      /\ Placed(v, g).place = <<v.sensor_token, a + v.reading, v.rule>>
      /\ Alarm(v).rule_id = SensorRules[v.sensor_token][v.rule].rule_id
  BY DEF Placed, AlarmAt, Alarm, a
<1> QED
  BY <1>1, <1>3, <1>4, <1>6, <1>8, <1>9 DEF v, a

(* Where rules of two sensors have different ids, alarms of one rule_id    *)
(* are of one sensor, so the threads leave them in the order of the places.*)
LEMMA SameRuleInOrder ==
    ASSUME RuleIdsOfOneSensor, PipelineInv, phase = "idle", NEW g \in 1 .. Len(groups),
           NEW k \in 1 .. Len(result[g]), NEW m \in 1 .. Len(result[g]), k < m,
           Alarms(result[g])[k].rule_id = Alarms(result[g])[m].rule_id
    PROVE  Mon!Earlier(Placed(result[g][k], g).place, Placed(result[g][m], g).place)
<1> DEFINE v == result[g][k]
           w == result[g][m]
           a == Before(g)
<1>1. /\ Placed(v, g).place = <<v.sensor_token, a + v.reading, v.rule>>
      /\ v.sensor_token \in 0 .. (NumSensors - 1)
      /\ v.rule \in 1 .. Len(SensorRules[v.sensor_token])
      /\ v.rule \in Int /\ v.reading \in Nat /\ a \in Nat
      /\ Alarms(result[g])[k].rule_id = SensorRules[v.sensor_token][v.rule].rule_id
  BY PlacedFacts
<1>2. /\ Placed(w, g).place = <<w.sensor_token, a + w.reading, w.rule>>
      /\ w.sensor_token \in 0 .. (NumSensors - 1)
      /\ w.rule \in 1 .. Len(SensorRules[w.sensor_token])
      /\ w.rule \in Int /\ w.reading \in Nat
      /\ Alarms(result[g])[m].rule_id = SensorRules[w.sensor_token][w.rule].rule_id
  BY PlacedFacts
<1>3. EvalP!SensorOrder(result[g])
  BY RaisedOnly
<1>4. v.sensor_token = w.sensor_token => EvalP!Follows(v, w)
  BY <1>3 DEF EvalP!SensorOrder
<1> HIDE DEF v, w, a
<1>5. v.sensor_token = w.sensor_token
  BY <1>1, <1>2, ZenonT(40) DEF RuleIdsOfOneSensor
<1>6. v.reading < w.reading \/ (v.reading = w.reading /\ v.rule < w.rule)
  BY <1>4, <1>5 DEF EvalP!Follows
<1>7. Mon!Earlier(<<v.sensor_token, a + v.reading, v.rule>>,
                  <<w.sensor_token, a + w.reading, w.rule>>)
  BY <1>1, <1>2, <1>5, <1>6 DEF Mon!Earlier
<1> QED
  BY <1>1, <1>2, <1>7 DEF v, w

LEMMA FiredIds ==
    ASSUME PipelineInv, phase = "idle", NEW g \in 1 .. Len(groups), NEW id
    PROVE  HasFired(Alarms(result[g]), id) <=> id \in {e.rule_id : e \in GroupRaised(g)}
<1>1. Len(Alarms(result[g])) = Len(result[g])
  BY FiredType
<1>2. \A k \in 1 .. Len(result[g]) :
         Placed(result[g][k], g).rule_id = Alarms(result[g])[k].rule_id
  BY PlacedFacts
<1>3. ASSUME HasFired(Alarms(result[g]), id)
      PROVE  id \in {e.rule_id : e \in GroupRaised(g)}
  <2>1. PICK k \in 1 .. Len(result[g]) : Alarms(result[g])[k].rule_id = id
    BY <1>1, <1>3 DEF HasFired
  <2>2. Placed(result[g][k], g) \in GroupRaised(g) /\ Placed(result[g][k], g).rule_id = id
    BY <1>2, <2>1, RaisedAreFired
  <2> QED
    BY <2>2
<1>4. ASSUME NEW e \in GroupRaised(g), e.rule_id = id
      PROVE  HasFired(Alarms(result[g]), id)
  <2>1. PICK k \in 1 .. Len(result[g]) : e = Placed(result[g][k], g)
    BY RaisedAreFired
  <2>2. Alarms(result[g])[k].rule_id = id
    BY <1>2, <1>4, <2>1
  <2> QED
    BY <1>1, <2>2 DEF HasFired
<1> QED
  BY <1>3, <1>4

(* The first violation of a rule_id that the threads left is, of those of  *)
(* that rule_id, the one of the earliest place.                            *)
LEMMA FirstIsFound ==
    ASSUME RuleIdsOfOneSensor, PipelineInv, phase = "idle", NEW g \in 1 .. Len(groups),
           NEW id, HasFired(Alarms(result[g]), id)
    PROVE  Mon!FirstOf(GroupRaised(g), id).readings
              = find_fired(Alarms(result[g]), id).readings
<1> DEFINE F == Alarms(result[g])
           R == GroupRaised(g)
           E(k) == Placed(result[g][k], g)
           IsFirst(v) == /\ v.rule_id = id
                         /\ \A w \in R : w.rule_id = id => w = v \/ Mon!Earlier(v.place, w.place)
<1>1. F \in Seq(AlarmType) /\ Len(F) = Len(result[g]) /\ Len(F) \in Nat
  BY FiredType
<1>2. \A k \in 1 .. Len(F) :
         E(k) \in R /\ E(k).rule_id = F[k].rule_id /\ E(k).readings = F[k].readings
  BY <1>1, PlacedFacts, RaisedAreFired
<1>3. \A e \in R : \E k \in 1 .. Len(F) : e = E(k)
  BY <1>1, RaisedAreFired
<1>4. \A k, m \in 1 .. Len(F) :
         k < m /\ F[k].rule_id = F[m].rule_id => Mon!Earlier(E(k).place, E(m).place)
  BY <1>1, SameRuleInOrder
<1>5. \A k, m \in 1 .. Len(F) :
         ~ (Mon!Earlier(E(k).place, E(m).place) /\ Mon!Earlier(E(m).place, E(k).place))
  <2> SUFFICES ASSUME NEW k \in 1 .. Len(F), NEW m \in 1 .. Len(F)
               PROVE  ~ (Mon!Earlier(E(k).place, E(m).place) /\ Mon!Earlier(E(m).place, E(k).place))
    OBVIOUS
  <2> DEFINE v == result[g][k]
             w == result[g][m]
             a == Before(g)
  <2>1. /\ E(k).place = <<v.sensor_token, a + v.reading, v.rule>>
        /\ v.sensor_token \in 0 .. (NumSensors - 1)
        /\ v.rule \in Int /\ v.reading \in Nat /\ a \in Nat
    BY <1>1, PlacedFacts
  <2>2. /\ E(m).place = <<w.sensor_token, a + w.reading, w.rule>>
        /\ w.sensor_token \in 0 .. (NumSensors - 1)
        /\ w.rule \in Int /\ w.reading \in Nat
    BY <1>1, PlacedFacts
  <2> HIDE DEF v, w, a, E
  <2>3. /\ E(k).place[1] \in Int /\ E(k).place[2] \in Int /\ E(k).place[3] \in Int
        /\ E(m).place[1] \in Int /\ E(m).place[2] \in Int /\ E(m).place[3] \in Int
    <3>1. v.sensor_token \in Int /\ w.sensor_token \in Int
      <4>1. \A x \in 0 .. (NumSensors - 1) : x \in Int
        BY SizeAssumption
      <4> QED
        BY <2>1, <2>2, <4>1, Zenon
    <3>2. a + v.reading \in Int /\ a + w.reading \in Int
      <4>1. \A x, y \in Nat : x + y \in Int
        OBVIOUS
      <4> QED
        BY <2>1, <2>2, <4>1, Zenon
    <3>3. \A x, y, z \in Int : /\ <<x, y, z>>[1] \in Int /\ <<x, y, z>>[2] \in Int
                               /\ <<x, y, z>>[3] \in Int
      OBVIOUS
    <3> QED
      BY <2>1, <2>2, <3>1, <3>2, <3>3
  <2> QED
    BY <2>3 DEF Mon!Earlier
<1> HIDE DEF E, R
<1>6. PICK k \in 1 .. Len(F) : /\ find_fired(F, id) = F[k]
                               /\ F[k].rule_id = id
                               /\ \A j \in 1 .. (k - 1) : F[j].rule_id # id
  BY <1>1, FindFiredFacts
<1> HIDE DEF F
<1>7. \A m \in 1 .. Len(F) : F[m].rule_id = id => m = k \/ k < m
  <2> SUFFICES ASSUME NEW m \in 1 .. Len(F), F[m].rule_id = id, m < k PROVE FALSE
    BY <1>1
  <2>1. m \in 1 .. (k - 1)
    BY <1>1
  <2> QED
    BY <1>6, <2>1
<1>8. IsFirst(E(k))
  <2>1. ASSUME NEW w \in R, w.rule_id = id
        PROVE  w = E(k) \/ Mon!Earlier(E(k).place, w.place)
    <3>1. PICK m \in 1 .. Len(F) : w = E(m)
      BY <1>3
    <3>2. F[m].rule_id = id
      BY <1>2, <2>1, <3>1
    <3> QED
      BY <1>4, <1>6, <1>7, <3>1, <3>2
  <2> QED
    BY <1>2, <1>6, <2>1
<1>9. ASSUME NEW v \in R, IsFirst(v) PROVE v = E(k)
  <2>1. PICK m \in 1 .. Len(F) : v = E(m)
    BY <1>3
  <2>2. F[m].rule_id = id
    BY <1>2, <1>9, <2>1
  <2>3. E(k) = v \/ Mon!Earlier(E(m).place, E(k).place)
    BY <1>2, <1>6, <1>9, <2>1
  <2>4. m = k \/ Mon!Earlier(E(k).place, E(m).place)
    BY <1>4, <1>6, <1>7, <2>2
  <2> QED
    BY <1>5, <2>1, <2>3, <2>4
<1>10. Mon!FirstOf(R, id) = CHOOSE v \in R : IsFirst(v)
  BY DEF Mon!FirstOf
<1>11. (CHOOSE v \in R : IsFirst(v)) = E(k)
  <2>1. E(k) \in R
    BY <1>2
  <2> HIDE DEF IsFirst
  <2> QED
    BY <1>8, <1>9, <2>1, Zenon
<1> QED
  BY <1>2, <1>6, <1>10, <1>11 DEF F, R

(* The correlation rules are triggered by the same rules and take the same *)
(* readings.                                                               *)
Sub(c) == CorrelationRules[c].sub_rules

MonitorFinds(c, fired, raised) ==
    LET found == Picked(Sub(c), {n \in 1 .. Len(Sub(c)) : Sub(c)[n] \in fired})
    IN  [n \in 1 .. Len(found) |-> Mon!FirstOf(raised, found[n]).readings[1]]

CorrelatedAt(c, fired, raised) ==
    [rule_id  |-> CorrelationRules[c].rule_id,
     priority |-> CorrelationRules[c].priority,
     readings |-> MonitorFinds(c, fired, raised),
     place    |-> <<NumSensors, c, 0>>]

MonitorHolds(c, fired) ==
    \/ CorrelationRules[c].logic = "AND" /\ Mon!ToSet(Sub(c)) \subseteq fired
    \/ CorrelationRules[c].logic = "OR"  /\ Mon!ToSet(Sub(c)) \cap fired # {}

LEMMA CorrelatedFacts ==
    ASSUME NEW R, NEW e
    PROVE  LET fired == {v.rule_id : v \in R}
           IN  e \in Mon!Correlated(R) <=>
                  \E c \in 1 .. Len(CorrelationRules) :
                     MonitorHolds(c, fired) /\ e = CorrelatedAt(c, fired, R)
<1> DEFINE fired == {v.rule_id : v \in R}
<1>1. Mon!Correlated(R) =
         {CorrelatedAt(c, fired, R) :
             c \in {k \in 1 .. Len(CorrelationRules) : MonitorHolds(k, fired)}}
  <2>1. \A c : LET found == Mon!Picked(Sub(c), {n \in 1 .. Len(Sub(c)) : Sub(c)[n] \in fired})
               IN  MonitorFinds(c, fired, R) =
                   [n \in 1 .. Len(found) |-> Mon!FirstOf(R, found[n]).readings[1]]
    BY SameOrders DEF MonitorFinds
  <2> QED
    BY <2>1 DEF Mon!Correlated, CorrelatedAt, MonitorHolds, Sub
<1> HIDE DEF fired
<1> QED
  BY <1>1, SMTT(20) DEF fired

LEMMA TriggeredIsHolds ==
    ASSUME PipelineInv, phase = "idle", NEW g \in 1 .. Len(groups),
           NEW c \in 1 .. Len(CorrelationRules)
    PROVE  LET fired == {e.rule_id : e \in GroupRaised(g)}
           IN  Triggered(Alarms(result[g]), CorrelationRules[c]) <=> MonitorHolds(c, fired)
<1> DEFINE fired == {e.rule_id : e \in GroupRaised(g)}
           F == Alarms(result[g])
<1>1. \A id : HasFired(F, id) <=> id \in fired
  BY FiredIds
<1> HIDE DEF fired, F
<1>2. Sub(c) \in Seq(Nat)
  BY CorrelationRuleFacts DEF Sub
<1>3. \A x : x \in Mon!ToSet(Sub(c)) <=> \E n \in 1 .. Len(Sub(c)) : x = Sub(c)[n]
  BY <1>2 DEF Mon!ToSet
<1>4. Mon!ToSet(Sub(c)) \subseteq fired
         <=> \A n \in 1 .. Len(Sub(c)) : HasFired(F, Sub(c)[n])
  BY <1>1, <1>3
<1>5. Mon!ToSet(Sub(c)) \cap fired # {}
         <=> \E n \in 1 .. Len(Sub(c)) : HasFired(F, Sub(c)[n])
  BY <1>1, <1>3
<1>6. Triggered(F, CorrelationRules[c]) <=> MonitorHolds(c, fired)
  BY <1>4, <1>5 DEF Triggered, MonitorHolds, Sub
<1> QED
  BY <1>6 DEF F, fired

LEMMA CorrelationIsMonitors ==
    ASSUME RuleIdsOfOneSensor, PipelineInv, phase = "idle", NEW g \in 1 .. Len(groups),
           NEW c \in 1 .. Len(CorrelationRules)
    PROVE  LET fired == {e.rule_id : e \in GroupRaised(g)}
               e     == CorrelatedAt(c, fired, GroupRaised(g))
               f     == CorrelationAlarm(Alarms(result[g]), CorrelationRules[c])
           IN  e.rule_id = f.rule_id /\ e.priority = f.priority /\ e.readings = f.readings
<1> DEFINE fired == {e.rule_id : e \in GroupRaised(g)}
           F == Alarms(result[g])
           R == GroupRaised(g)
           P == {n \in 1 .. Len(Sub(c)) : HasFired(F, Sub(c)[n])}
           found == Picked(Sub(c), P)
<1>1. \A id : HasFired(F, id) <=> id \in fired
  BY FiredIds
<1>2. \A id : HasFired(F, id) => Mon!FirstOf(R, id).readings = find_fired(F, id).readings
  BY FirstIsFound
<1>3. P = {n \in 1 .. Len(Sub(c)) : Sub(c)[n] \in fired}
  BY <1>1
<1> HIDE DEF fired, F, R
<1>4. Sub(c) \in Seq(Nat)
  BY CorrelationRuleFacts DEF Sub
<1>5. P \in SUBSET (1 .. Len(Sub(c))) /\ \A n \in P : HasFired(F, Sub(c)[n])
  OBVIOUS
<1> HIDE DEF P
<1>6. /\ Cardinality(P) \in Nat /\ Len(found) = Cardinality(P)
      /\ \A n \in 1 .. Cardinality(P) : found[n] = Sub(c)[Ascending(P)[n]]
      /\ Ascending(P) \in [1 .. Cardinality(P) -> P]
  BY <1>4, <1>5, PickedFacts
<1>7. MonitorFinds(c, fired, R) = [n \in 1 .. Len(found) |-> Mon!FirstOf(R, found[n]).readings[1]]
  BY <1>3 DEF MonitorFinds
<1>8. CorrelationReadings(F, CorrelationRules[c])
         = [n \in 1 .. Len(found) |-> find_fired(F, found[n]).readings[1]]
  BY DEF CorrelationReadings, Sub, P
<1> HIDE DEF found
<1>9. \A n \in 1 .. Len(found) : HasFired(F, found[n])
  BY <1>5, <1>6
<1>10. MonitorFinds(c, fired, R) = CorrelationReadings(F, CorrelationRules[c])
  BY <1>2, <1>7, <1>8, <1>9
<1>11. /\ CorrelatedAt(c, fired, R).rule_id = CorrelationAlarm(F, CorrelationRules[c]).rule_id
       /\ CorrelatedAt(c, fired, R).priority = CorrelationAlarm(F, CorrelationRules[c]).priority
       /\ CorrelatedAt(c, fired, R).readings = CorrelationAlarm(F, CorrelationRules[c]).readings
  BY <1>10 DEF CorrelatedAt, CorrelationAlarm
<1> QED
  BY <1>11 DEF fired, F, R

(* The alarms of Monitor under a timestamp, numbered as the program has    *)
(* them before they are sorted.                                            *)
GroupMonitored(g) == GroupRaised(g) \cup Mon!Correlated(GroupRaised(g))

SaysTheSame(e, f) == e.rule_id = f.rule_id /\ e.priority = f.priority /\ e.readings = f.readings

HasPlace(e) == e.place[1] \in Int /\ e.place[2] \in Int /\ e.place[3] \in Int

(* h numbers the alarms U of Monitor as V has them.                        *)
IsNumberingOf(h, U, V) ==
    /\ h \in [1 .. Len(V) -> U]
    /\ \A e \in U : \E n \in 1 .. Len(V) : e = h[n]
    /\ \A n \in 1 .. Len(V) : SaysTheSame(h[n], V[n]) /\ HasPlace(h[n])
    /\ \A n, m \in 1 .. Len(V) :
          n < m /\ V[n].rule_id = V[m].rule_id => Mon!Earlier(h[n].place, h[m].place)

MonitorOrder(U) == {p \in U \X U : Mon!Before(p[1], p[2])}

LEMMA NumberedOrder ==
    ASSUME NEW V \in Seq(AlarmType), NEW U, NEW h, IsNumberingOf(h, U, V)
    PROVE  /\ \A n, m \in 1 .. Len(V) : ByKeys(V, n, m) => <<h[n], h[m]>> \in MonitorOrder(U)
           /\ IsStrictTotalOrder(U, MonitorOrder(U))
<1> DEFINE P == 1 .. Len(V)
<1>1. /\ h \in [P -> U]
      /\ \A e \in U : \E n \in P : e = h[n]
      /\ \A n \in P : SaysTheSame(h[n], V[n]) /\ HasPlace(h[n])
      /\ \A n, m \in P :
            n < m /\ V[n].rule_id = V[m].rule_id => Mon!Earlier(h[n].place, h[m].place)
  BY DEF IsNumberingOf
<1>2. \A n \in P : V[n].priority \in Int /\ V[n].rule_id \in Int /\ n \in Int
  <2>1. \A x \in AlarmType : x.priority \in Int /\ x.rule_id \in Int
    BY DEF AlarmType
  <2> QED
    BY <2>1
<1>3. \A n, m \in P : n = m \/ ByKeys(V, n, m) \/ ByKeys(V, m, n)
  BY <1>2 DEF ByKeys
<1> HIDE DEF P
<1>4. \A e \in U : e.priority \in Int /\ e.rule_id \in Int /\ HasPlace(e)
  BY <1>1, <1>2 DEF SaysTheSame
<1>5. \A e, f \in U : <<e, f>> \in MonitorOrder(U) <=> Mon!Before(e, f)
  BY DEF MonitorOrder
<1>6. ASSUME NEW n \in P, NEW m \in P, ByKeys(V, n, m)
      PROVE  Mon!Before(h[n], h[m])
  <2>1. /\ h[n].priority = V[n].priority /\ h[n].rule_id = V[n].rule_id
        /\ h[m].priority = V[m].priority /\ h[m].rule_id = V[m].rule_id
    BY <1>1 DEF SaysTheSame
  <2> QED
    BY <1>1, <1>6, <2>1 DEF ByKeys, Mon!Before
<1>7. \A n, m \in P : ByKeys(V, n, m) => <<h[n], h[m]>> \in MonitorOrder(U)
  BY <1>1, <1>5, <1>6
<1>8. \A e \in U : ~ Mon!Before(e, e)
  BY <1>4 DEF Mon!Before, Mon!Earlier, HasPlace
<1>9. ASSUME NEW d \in U, NEW e \in U, NEW f \in U, Mon!Before(d, e), Mon!Before(e, f)
      PROVE  Mon!Before(d, f)
  <2>1. ASSUME NEW p, NEW q, NEW r,
               p[1] \in Int, p[2] \in Int, p[3] \in Int, q[1] \in Int, q[2] \in Int, q[3] \in Int,
               r[1] \in Int, r[2] \in Int, r[3] \in Int, Mon!Earlier(p, q), Mon!Earlier(q, r)
        PROVE  Mon!Earlier(p, r)
    <3> DEFINE a == p[1]
               b == p[2]
               c == p[3]
               x == q[1]
               y == q[2]
               z == q[3]
    <3>1. a < x \/ (a = x /\ b < y) \/ (a = x /\ b = y /\ c < z)
      BY <2>1 DEF Mon!Earlier
    <3>2. x < r[1] \/ (x = r[1] /\ y < r[2]) \/ (x = r[1] /\ y = r[2] /\ z < r[3])
      BY <2>1 DEF Mon!Earlier
    <3>3. a \in Int /\ b \in Int /\ c \in Int /\ x \in Int /\ y \in Int /\ z \in Int
      BY <2>1
    <3> HIDE DEF a, b, c, x, y, z
    <3>4. a < r[1] \/ (a = r[1] /\ b < r[2]) \/ (a = r[1] /\ b = r[2] /\ c < r[3])
      BY <2>1, <3>1, <3>2, <3>3
    <3> QED
      BY <3>4 DEF Mon!Earlier, a, b, c
  <2>2. Mon!Earlier(d.place, e.place) /\ Mon!Earlier(e.place, f.place)
           => Mon!Earlier(d.place, f.place)
    BY <1>4, <2>1 DEF HasPlace
  <2> QED
    BY <1>4, <1>9, <2>2 DEF Mon!Before
<1>10. \A e, f \in U : e = f \/ Mon!Before(e, f) \/ Mon!Before(f, e)
  <2> SUFFICES ASSUME NEW e \in U, NEW f \in U, e # f PROVE Mon!Before(e, f) \/ Mon!Before(f, e)
    OBVIOUS
  <2>1. PICK n \in P : e = h[n]
    BY <1>1
  <2>2. PICK m \in P : f = h[m]
    BY <1>1
  <2> QED
    BY <1>3, <1>6, <2>1, <2>2
<1>11. IsStrictTotalOrder(U, MonitorOrder(U))
  BY <1>5, <1>8, <1>9, <1>10 DEF IsStrictTotalOrder
<1> QED
  BY <1>7, <1>11 DEF P

LEMMA NumberedRanking ==
    ASSUME NEW V \in Seq(AlarmType), NEW U, NEW h, IsNumberingOf(h, U, V)
    PROVE  LET all == Ranking(U, MonitorOrder(U))
           IN  /\ Len(all) = Len(V)
               /\ \A n \in 1 .. Len(V) :
                     all[n] = h[Ranking(1 .. Len(V), StableOrder(V))[n]]
<1> DEFINE P == 1 .. Len(V)
<1>1. Len(V) \in Nat
  OBVIOUS
<1>2. IsFiniteSet(P) /\ Cardinality(P) = Len(V)
  BY <1>1, CountUpTo
<1>3. /\ IsStrictTotalOrder(P, StableOrder(V))
      /\ \A n, m \in P : <<n, m>> \in StableOrder(V) <=> ByKeys(V, n, m)
  BY StableOrderIsTotal
<1>4. /\ h \in [P -> U] /\ \A e \in U : \E n \in P : e = h[n]
  BY DEF IsNumberingOf
<1>5. /\ \A n, m \in P : ByKeys(V, n, m) => <<h[n], h[m]>> \in MonitorOrder(U)
      /\ IsStrictTotalOrder(U, MonitorOrder(U))
  BY NumberedOrder
<1> HIDE DEF P
<1>6. IsFiniteSet(U)
  <2>1. U = {h[n] : n \in P}
    BY <1>4
  <2> QED
    BY <1>2, <2>1, FiniteRange
<1>7. Ranking(U, MonitorOrder(U)) = [n \in 1 .. Cardinality(P) |-> h[Ranking(P, StableOrder(V))[n]]]
  BY <1>2, <1>3, <1>4, <1>5, <1>6, RankingOfImage
<1> QED
  BY <1>1, <1>2, <1>7 DEF P

(* The correlation rules triggered under a timestamp, the k-th of them.    *)
FiredRules(g) == {e.rule_id : e \in GroupRaised(g)}

TriggeredRule(g, k) == Ascending(TriggeredPlaces(Alarms(result[g])))[k]

TriggeredCount(g) == Cardinality(TriggeredPlaces(Alarms(result[g])))

LEMMA TriggeredRules ==
    ASSUME RuleIdsOfOneSensor, PipelineInv, phase = "idle", NEW g \in 1 .. Len(groups)
    PROVE  /\ TriggeredCount(g) \in Nat
           /\ \A k \in 1 .. TriggeredCount(g) :
                 /\ TriggeredRule(g, k) \in 1 .. Len(CorrelationRules)
                 /\ CorrelatedAt(TriggeredRule(g, k), FiredRules(g), GroupRaised(g))
                       \in Mon!Correlated(GroupRaised(g))
                 /\ SaysTheSame(CorrelatedAt(TriggeredRule(g, k), FiredRules(g), GroupRaised(g)),
                                CorrelationAlarm(Alarms(result[g]),
                                                 CorrelationRules[TriggeredRule(g, k)]))
           /\ \A k, m \in 1 .. TriggeredCount(g) : k < m => TriggeredRule(g, k) < TriggeredRule(g, m)
           /\ \A e \in Mon!Correlated(GroupRaised(g)) :
                 \E k \in 1 .. TriggeredCount(g) :
                    e = CorrelatedAt(TriggeredRule(g, k), FiredRules(g), GroupRaised(g))
<1> DEFINE F == Alarms(result[g])
           R == GroupRaised(g)
           fired == FiredRules(g)
           T == TriggeredPlaces(F)
           L == Len(CorrelationRules)
<1>1. \A c \in 1 .. L : c \in T <=> MonitorHolds(c, fired)
  <2>1. \A c \in 1 .. L : Triggered(F, CorrelationRules[c]) <=> MonitorHolds(c, fired)
    BY TriggeredIsHolds DEF FiredRules
  <2> QED
    BY <2>1 DEF TriggeredPlaces
<1>2. \A c \in 1 .. L : SaysTheSame(CorrelatedAt(c, fired, R), CorrelationAlarm(F, CorrelationRules[c]))
  BY CorrelationIsMonitors DEF FiredRules, SaysTheSame
<1>3. \A e : e \in Mon!Correlated(R) <=>
                \E c \in 1 .. L : MonitorHolds(c, fired) /\ e = CorrelatedAt(c, fired, R)
  BY CorrelatedFacts DEF FiredRules
<1>4. T \in SUBSET (1 .. L) /\ L \in Nat
  BY CorrelationRuleFacts DEF TriggeredPlaces
<1> HIDE DEF F, R, fired, T, L
<1>5. /\ Cardinality(T) \in Nat /\ Len(Ascending(T)) = Cardinality(T)
      /\ Ascending(T) \in [1 .. Cardinality(T) -> T]
      /\ \A x \in T : \E k \in 1 .. Cardinality(T) : Ascending(T)[k] = x
      /\ \A k, m \in 1 .. Cardinality(T) : k < m <=> Ascending(T)[k] < Ascending(T)[m]
  BY <1>4, PlacesFacts, PlacesInOrder
<1>6. \A k \in 1 .. Cardinality(T) :
         /\ Ascending(T)[k] \in 1 .. L
         /\ CorrelatedAt(Ascending(T)[k], fired, R) \in Mon!Correlated(R)
         /\ SaysTheSame(CorrelatedAt(Ascending(T)[k], fired, R),
                        CorrelationAlarm(F, CorrelationRules[Ascending(T)[k]]))
  BY <1>1, <1>2, <1>3, <1>4, <1>5
<1>7. ASSUME NEW e \in Mon!Correlated(R)
      PROVE  \E k \in 1 .. Cardinality(T) : e = CorrelatedAt(Ascending(T)[k], fired, R)
  <2>1. PICK c \in 1 .. L : MonitorHolds(c, fired) /\ e = CorrelatedAt(c, fired, R)
    BY <1>3
  <2>2. PICK k \in 1 .. Cardinality(T) : Ascending(T)[k] = c
    BY <1>1, <1>5, <2>1
  <2> QED
    BY <2>1, <2>2
<1> QED
  BY <1>5, <1>6, <1>7 DEF TriggeredCount, TriggeredRule, F, R, fired, T, L

LEMMA GroupAlarmsFacts ==
    ASSUME PipelineInv, phase = "idle", NEW g \in 1 .. Len(groups), result[g] # << >>
    PROVE  /\ GroupAlarms(g) \in Seq(AlarmType)
           /\ Len(result[g]) \in Nat
           /\ TriggeredCount(g) \in Nat
           /\ Len(GroupAlarms(g)) = Len(result[g]) + TriggeredCount(g)
           /\ \A n \in 1 .. Len(result[g]) : GroupAlarms(g)[n] = Alarms(result[g])[n]
           /\ \A n \in 1 .. TriggeredCount(g) :
                 GroupAlarms(g)[Len(result[g]) + n]
                    = CorrelationAlarm(Alarms(result[g]), CorrelationRules[TriggeredRule(g, n)])
<1> DEFINE F == Alarms(result[g])
<1>1. F \in Seq(AlarmType) /\ HasReadings(F) /\ Len(F) = Len(result[g])
  BY FiredType
<1>2. result[g] \in Seq(EvalP!ViolationType)
  BY RaisedOnly
<1>3. Len(result[g]) \in Nat /\ Len(result[g]) # 0
  BY <1>2
<1>4. F # << >>
  BY <1>1, <1>3
<1> HIDE DEF F
<1>5. LET all == evaluate_correlations(F, CorrelationRules)
          T   == TriggeredPlaces(F)
      IN  /\ all \in Seq(AlarmType)
          /\ Cardinality(T) \in Nat
          /\ Len(all) = Len(F) + Cardinality(T)
          /\ \A n \in 1 .. Len(F) : all[n] = F[n]
          /\ \A n \in 1 .. Cardinality(T) :
                all[Len(F) + n] = CorrelationAlarm(F, CorrelationRules[Ascending(T)[n]])
  BY <1>1, <1>4, EvaluateFacts
<1> QED
  BY <1>1, <1>3, <1>5 DEF GroupAlarms, TriggeredCount, TriggeredRule, F

MonitorAlarm(g, n) ==
    IF n <= Len(result[g])
    THEN Placed(result[g][n], g)
    ELSE CorrelatedAt(TriggeredRule(g, n - Len(result[g])), FiredRules(g), GroupRaised(g))

Numbering(g) == [n \in 1 .. Len(GroupAlarms(g)) |-> MonitorAlarm(g, n)]

LEMMA AlarmsAreNumbered ==
    ASSUME RuleIdsOfOneSensor, PipelineInv, phase = "idle", NEW g \in 1 .. Len(groups),
           result[g] # << >>
    PROVE  IsNumberingOf(Numbering(g), GroupMonitored(g), GroupAlarms(g))
<1> DEFINE V == GroupAlarms(g)
           F == Alarms(result[g])
           L == Len(result[g])
           C == TriggeredCount(g)
           R == GroupRaised(g)
           U == GroupMonitored(g)
           h == Numbering(g)
           E(k) == Placed(result[g][k], g)
           D(k) == CorrelatedAt(TriggeredRule(g, k), FiredRules(g), R)
<1>1. /\ L \in Nat /\ C \in Nat /\ Len(V) = L + C
      /\ \A n \in 1 .. L : V[n] = F[n]
      /\ \A n \in 1 .. C : V[L + n] = CorrelationAlarm(F, CorrelationRules[TriggeredRule(g, n)])
  BY GroupAlarmsFacts
<1>2. /\ \A k \in 1 .. L : E(k) \in R
      /\ \A e \in R : \E k \in 1 .. L : e = E(k)
  BY RaisedAreFired
<1>3. \A k \in 1 .. L : SaysTheSame(E(k), F[k])
  BY PlacedFacts DEF SaysTheSame
<1>4. ASSUME NEW k \in 1 .. L PROVE HasPlace(E(k)) /\ E(k).place[1] < NumSensors
  <2> DEFINE v == result[g][k]
             a == Before(g)
  <2>1. /\ E(k).place = <<v.sensor_token, a + v.reading, v.rule>>
        /\ v.sensor_token \in 0 .. (NumSensors - 1)
        /\ v.rule \in Int /\ v.reading \in Nat /\ a \in Nat
    BY PlacedFacts
  <2> HIDE DEF v, a, E
  <2>2. v.sensor_token \in Int /\ v.sensor_token < NumSensors
    BY <2>1, SizeAssumption
  <2>3. a + v.reading \in Int
    <3>1. \A x, y \in Nat : x + y \in Int
      OBVIOUS
    <3> QED
      BY <2>1, <3>1, Zenon
  <2>4. /\ E(k).place[1] = v.sensor_token /\ E(k).place[2] = a + v.reading
        /\ E(k).place[3] = v.rule
    BY <2>1
  <2> QED
    BY <2>1, <2>2, <2>3, <2>4 DEF HasPlace
<1>5. \A k, m \in 1 .. L :
         k < m /\ F[k].rule_id = F[m].rule_id => Mon!Earlier(E(k).place, E(m).place)
  BY SameRuleInOrder
<1>6. /\ \A k \in 1 .. C :
            /\ TriggeredRule(g, k) \in 1 .. Len(CorrelationRules)
            /\ D(k) \in Mon!Correlated(R)
            /\ SaysTheSame(D(k), CorrelationAlarm(F, CorrelationRules[TriggeredRule(g, k)]))
      /\ \A k, m \in 1 .. C : k < m => TriggeredRule(g, k) < TriggeredRule(g, m)
      /\ \A e \in Mon!Correlated(R) : \E k \in 1 .. C : e = D(k)
  BY TriggeredRules
<1>7. \A k : D(k).place = <<NumSensors, TriggeredRule(g, k), 0>>
  BY DEF CorrelatedAt
<1>8. h = [n \in 1 .. (L + C) |-> IF n <= L THEN E(n) ELSE D(n - L)]
  BY <1>1 DEF Numbering, MonitorAlarm
<1>9. U = R \cup Mon!Correlated(R)
  BY DEF GroupMonitored
<1> HIDE DEF V, F, L, C, R, U, h, E, D
<1>10. \A n \in 1 .. (L + C) : n \in 1 .. L \/ (n - L \in 1 .. C /\ n = L + (n - L) /\ ~ (n <= L))
  BY <1>1
<1>11. \A n \in 1 .. L : n \in 1 .. (L + C) /\ h[n] = E(n) /\ n <= L
  BY <1>1, <1>8
<1>12. \A k \in 1 .. C : L + k \in 1 .. (L + C) /\ h[L + k] = D(k) /\ ~ (L + k <= L)
  <2> SUFFICES ASSUME NEW k \in 1 .. C
               PROVE  L + k \in 1 .. (L + C) /\ h[L + k] = D(k) /\ ~ (L + k <= L)
    OBVIOUS
  <2>1. L + k \in 1 .. (L + C) /\ ~ (L + k <= L) /\ (L + k) - L = k
    BY <1>1
  <2> QED
    BY <1>8, <2>1
<1>13. h \in [1 .. (L + C) -> U]
  <2>1. \A n \in 1 .. (L + C) : h[n] \in U
    BY <1>2, <1>6, <1>9, <1>10, <1>11, <1>12
  <2>2. h = [n \in 1 .. (L + C) |-> h[n]]
    BY <1>8
  <2> QED
    BY <2>1, <2>2
<1>14. \A e \in U : \E n \in 1 .. (L + C) : e = h[n]
  <2>1. ASSUME NEW e \in R PROVE \E n \in 1 .. (L + C) : e = h[n]
    <3>1. PICK k \in 1 .. L : e = E(k)
      BY <1>2
    <3> QED
      BY <1>11, <3>1
  <2>2. ASSUME NEW e \in Mon!Correlated(R) PROVE \E n \in 1 .. (L + C) : e = h[n]
    <3>1. PICK k \in 1 .. C : e = D(k)
      BY <1>6
    <3> QED
      BY <1>12, <3>1
  <2> QED
    BY <1>9, <2>1, <2>2
<1>15. \A k \in 1 .. C : HasPlace(D(k)) /\ D(k).place[1] = NumSensors
  <2>1. Len(CorrelationRules) \in Nat
    BY CorrelationRuleFacts
  <2>2. \A k \in 1 .. C : TriggeredRule(g, k) \in Int
    BY <1>6, <2>1
  <2> QED
    BY <1>7, <2>2, SizeAssumption DEF HasPlace
<1>16. \A n \in 1 .. (L + C) : SaysTheSame(h[n], V[n]) /\ HasPlace(h[n])
  <2>1. \A n \in 1 .. L : SaysTheSame(h[n], V[n]) /\ HasPlace(h[n])
    BY <1>1, <1>3, <1>4, <1>11, Zenon
  <2>2. \A k \in 1 .. C : SaysTheSame(h[L + k], V[L + k]) /\ HasPlace(h[L + k])
    BY <1>1, <1>6, <1>12, <1>15, Zenon
  <2> SUFFICES ASSUME NEW n \in 1 .. (L + C) PROVE SaysTheSame(h[n], V[n]) /\ HasPlace(h[n])
    OBVIOUS
  <2>3. CASE n \in 1 .. L
    BY <2>1, <2>3
  <2>4. CASE n - L \in 1 .. C /\ n = L + (n - L)
    BY <2>2, <2>4, Zenon
  <2> QED
    BY <1>10, <2>3, <2>4
<1>17. ASSUME NEW n \in 1 .. (L + C), NEW m \in 1 .. (L + C), n < m, V[n].rule_id = V[m].rule_id
       PROVE  Mon!Earlier(h[n].place, h[m].place)
  <2>1. CASE n \in 1 .. L /\ m \in 1 .. L
    BY <1>1, <1>5, <1>11, <1>17, <2>1
  <2>2. CASE n \in 1 .. L /\ m - L \in 1 .. C /\ m = L + (m - L)
    <3>1. h[n] = E(n) /\ h[m] = D(m - L)
      BY <1>11, <1>12, <2>2
    <3>2. h[n].place[1] < h[m].place[1]
      BY <1>4, <1>15, <2>2, <3>1
    <3> QED
      BY <3>2 DEF Mon!Earlier
  <2>3. CASE n - L \in 1 .. C /\ n = L + (n - L) /\ m - L \in 1 .. C /\ m = L + (m - L)
    <3> DEFINE x == n - L
               y == m - L
    <3>1. x < y
      BY <1>1, <1>17
    <3>2. h[n] = D(x) /\ h[m] = D(y)
      BY <1>12, <2>3
    <3> HIDE DEF x, y
    <3>3. TriggeredRule(g, x) < TriggeredRule(g, y)
      BY <1>6, <2>3, <3>1 DEF x, y
    <3> QED
      BY <1>7, <3>2, <3>3 DEF Mon!Earlier
  <2>4. ~ (n - L \in 1 .. C /\ n = L + (n - L) /\ ~ (n <= L) /\ m \in 1 .. L)
    BY <1>1, <1>17
  <2> QED
    BY <1>10, <2>1, <2>2, <2>3, <2>4
<1>18. IsNumberingOf(h, U, V)
  BY <1>1, <1>13, <1>14, <1>16, <1>17 DEF IsNumberingOf
<1> QED
  BY <1>18 DEF h, U, V

LEMMA AlarmsAreMonitors ==
    ASSUME RuleIdsOfOneSensor, PipelineInv, phase = "idle", NEW g \in 1 .. Len(groups),
           result[g] # << >>
    PROVE  Mon!Alarms(Before(g), UpTo(g)) = sort_violations_for_output(GroupAlarms(g))
<1> DEFINE V == GroupAlarms(g)
           U == GroupMonitored(g)
           h == Numbering(g)
           all == Ranking(U, MonitorOrder(U))
           order == Ranking(1 .. Len(V), StableOrder(V))
<1>1. IsNumberingOf(h, U, V)
  BY AlarmsAreNumbered
<1>2. V \in Seq(AlarmType)
  BY GroupAlarmsFacts
<1>3. Mon!Alarms(Before(g), UpTo(g)) =
         [n \in 1 .. Len(all) |-> [rule_id |-> all[n].rule_id, priority |-> all[n].priority,
                                   readings |-> all[n].readings]]
  BY SameOrders DEF Mon!Alarms, GroupMonitored, GroupRaised, MonitorOrder
<1> HIDE DEF V, U, h
<1>4. Len(all) = Len(V) /\ \A n \in 1 .. Len(V) : all[n] = h[order[n]]
  BY <1>1, <1>2, NumberedRanking
<1>5. /\ sort_violations_for_output(V) = [n \in 1 .. Len(V) |-> V[order[n]]]
      /\ order \in [1 .. Len(V) -> 1 .. Len(V)]
  BY <1>2, SortFacts
<1> HIDE DEF all, order
<1>6. ASSUME NEW n \in 1 .. Len(V)
      PROVE  [rule_id |-> all[n].rule_id, priority |-> all[n].priority,
              readings |-> all[n].readings] = V[order[n]]
  <2>1. order[n] \in 1 .. Len(V) /\ all[n] = h[order[n]]
    BY <1>4, <1>5
  <2>2. V[order[n]] \in AlarmType /\ SaysTheSame(all[n], V[order[n]])
    BY <1>1, <1>2, <2>1 DEF IsNumberingOf
  <2>3. \A f \in AlarmType :
           f = [rule_id |-> f.rule_id, priority |-> f.priority, readings |-> f.readings]
    BY DEF AlarmType
  <2> QED
    BY <2>2, <2>3 DEF SaysTheSame
<1>7. [n \in 1 .. Len(all) |-> [rule_id |-> all[n].rule_id, priority |-> all[n].priority,
                                readings |-> all[n].readings]]
         = [n \in 1 .. Len(V) |-> V[order[n]]]
  BY <1>4, <1>6
<1> QED
  BY <1>3, <1>5, <1>7 DEF V

(* The NOMINAL line of a group is Monitor's.                               *)
LEMMA NominalIsMonitors ==
    ASSUME PipelineInv, NEW g \in 1 .. Len(groups)
    PROVE  groups[g] = [timestamp |-> records[UpTo(g)].timestamp,
                        readings  |-> [n \in 1 .. (UpTo(g) - Before(g)) |->
                                          Mon!Pair(Before(g) + n)]]
<1> DEFINE a == Before(g)
           b == UpTo(g)
           line == groups[g]
<1>1. FeedP!IInv /\ pc = "process" /\ groups = build_timestamp_groups(BatchRecords)
  BY PipelineFacts DEF PipelineInv
<1>2. /\ a \in Nat /\ b \in Nat /\ a < b
      /\ Len(line.readings) = b - a
      /\ \A r \in 1 .. Len(line.readings) : line.readings[r] = Pair(records[a + r])
  BY <1>1, GroupPlaces
<1>3. \A n \in (a + 1) .. b : records[n].timestamp = line.timestamp
  BY <1>1, GroupIsMonitorRun
<1>4. line \in NominalLine
  <2>1. BatchRecords \in Seq(Record)
    BY <1>1, BatchFacts
  <2>2. groups \in Seq(NominalLine)
    BY <1>1, <2>1, GroupsType
  <2> QED
    BY <2>2
<1> HIDE DEF a, b, line
<1>5. b \in (a + 1) .. b
  BY <1>2
<1>6. line = [timestamp |-> line.timestamp, readings |-> line.readings]
      /\ line.readings \in Seq(Eval!Reading)
  BY <1>4 DEF NominalLine
<1>7. line.readings = [n \in 1 .. (b - a) |-> Mon!Pair(a + n)]
  <2>1. \A n : Mon!Pair(a + n) = Pair(records[a + n])
    BY DEF Mon!Pair, Pair
  <2>2. line.readings = [n \in 1 .. Len(line.readings) |-> line.readings[n]]
    BY <1>6
  <2>3. \A n \in 1 .. (b - a) : line.readings[n] = Mon!Pair(a + n)
    BY <1>2, <2>1
  <2> QED
    BY <1>2, <2>2, <2>3
<1> QED
  BY <1>3, <1>5, <1>6, <1>7 DEF a, b, line

(* Appending a group's lines is Monitor's report of its timestamp.         *)
LEMMA AppendIsReport ==
    ASSUME RuleIdsOfOneSensor, IInv, AppendOutput
    PROVE  Mon!Report(UpTo(next_group)) /\ UpTo(next_group) \in 1 .. Len(records)
<1> DEFINE g == next_group
           a == Before(g)
           b == UpTo(g)
<1>1. /\ FeedP!IInv /\ EvalP!IInv /\ ProgramInv /\ PhaseInv
      /\ stage = "append" /\ records' = records
  BY DEF IInv, ProgramInv, AppendOutput, feed_vars
<1>2. /\ g \in 1 .. Len(groups)
      /\ PipelineInv
      /\ timestamp_violations[g] = << >>
            => valid_file' = Append(valid_file, groups[g]) /\ alarms_file' = alarms_file
      /\ timestamp_violations[g] # << >>
            => valid_file' = valid_file /\ alarms_file' = Append(alarms_file, BlockOf(g))
      /\ Consumed = a /\ Consumed' = b
  BY <1>1, AppendStep
<1> HIDE DEF g
<1>3. /\ phase = "idle"
      /\ timestamp_violations[g] = sort_violations_for_output(GroupAlarms(g))
      /\ timestamp_violations[g] = << >> <=> result[g] = << >>
  BY <1>1, <1>2, ViolationsType
<1>4. pc = "process" /\ groups = build_timestamp_groups(BatchRecords)
  BY <1>2, PipelineFacts
<1>5. /\ Mon!IsRun(a, b)
      /\ a \in Nat /\ b \in Nat /\ a < b
      /\ \A n \in (a + 1) .. b :
            n \in 1 .. Len(records) /\ records[n].timestamp = groups[g].timestamp
  BY <1>1, <1>2, <1>4, GroupIsMonitorRun, GroupPlaces
<1>6. Mon!Raised(a, b) = {} <=> result[g] = << >>
  <2>1. /\ \A k \in 1 .. Len(result[g]) : Placed(result[g][k], g) \in Mon!Raised(a, b)
        /\ \A e \in Mon!Raised(a, b) : \E k \in 1 .. Len(result[g]) : e = Placed(result[g][k], g)
    BY <1>2, <1>3, RaisedAreFired DEF GroupRaised
  <2>2. result[g] \in Seq(EvalP!ViolationType)
    BY <1>2, <1>3, RaisedOnly
  <2>3. /\ result[g] = << >> => Len(result[g]) = 0
        /\ result[g] # << >> => 1 \in 1 .. Len(result[g])
    BY <2>2
  <2> HIDE DEF a, b
  <2> QED
    BY <2>1, <2>3
<1>7. groups[g] = [timestamp |-> records[b].timestamp,
                   readings  |-> [n \in 1 .. (b - a) |-> Mon!Pair(a + n)]]
  BY <1>2, NominalIsMonitors
<1>8. ASSUME result[g] # << >>
      PROVE  BlockOf(g) = [timestamp |-> records[b].timestamp, alarms |-> Mon!Alarms(a, b)]
  <2>1. Mon!Alarms(a, b) = timestamp_violations[g]
    BY <1>2, <1>3, <1>8, AlarmsAreMonitors
  <2>2. groups[g].timestamp = records[b].timestamp
    BY <1>7
  <2> QED
    BY <2>1, <2>2 DEF BlockOf
<1> HIDE DEF a, b
<1>9. b \in (a + 1) .. b
  BY <1>5
<1>10. b \in 1 .. Len(records)
  BY <1>5, <1>9
<1>11. Mon!Report(b)
  <2>1. CASE result[g] = << >>
    BY <1>1, <1>2, <1>3, <1>5, <1>6, <1>7, <2>1 DEF Mon!Report
  <2>2. CASE result[g] # << >>
    BY <1>1, <1>2, <1>3, <1>5, <1>6, <1>8, <2>2 DEF Mon!Report
  <2> QED
    BY <2>1, <2>2
<1> QED
  BY <1>10, <1>11 DEF b, g

LEMMA MonitorInit == Init => Mon!Init
<1> SUFFICES ASSUME Init PROVE Mon!Init
  OBVIOUS
<1>1. /\ records \in Inputs /\ processed = << >> /\ stage = "idle"
      /\ valid_file = << >> /\ alarms_file = << >>
  BY DEF Init, Feed!Init
<1>2. Consumed = 0
  BY <1>1 DEF Consumed
<1> QED
  BY <1>1, <1>2 DEF Mon!Init

LEMMA MonitorStep ==
    RuleIdsOfOneSensor /\ IInv /\ [Next]_vars => [Mon!Next]_(Mon!monitor_vars)
<1> SUFFICES ASSUME RuleIdsOfOneSensor, IInv, [Next]_vars
             PROVE  [Mon!Next]_(Mon!monitor_vars)
  OBVIOUS
<1>1. CASE AppendOutput
  BY <1>1, AppendIsReport DEF Mon!Next
<1>2. CASE ~ AppendOutput
  <2>1. FeedP!IInv /\ StageInv
    BY DEF IInv, ProgramInv
  <2>2. records' = records /\ UNCHANGED <<valid_file, alarms_file>> /\ Consumed' = Consumed
    BY <1>2, <2>1, QuietStep
  <2> QED
    BY <2>2 DEF Mon!monitor_vars
<1> QED
  BY <1>1, <1>2

(* The program implements Monitor: what it has written is a function of    *)
(* the records it has reported on.  No number of threads, schedule of      *)
(* theirs, batch configuration or reading of the clock shows in the files. *)
(* Where two sensors have a rule of one rule_id this fails, and            *)
(* AstraLog_duplicates shows how.                                          *)
THEOREM ProgramImplementsMonitor ==
    ASSUME RuleIdsOfOneSensor
    PROVE  Spec => ImplementsMonitor
<1>1. Init => Mon!Init
  BY MonitorInit
<1>2. IInv /\ [Next]_vars => [Mon!Next]_(Mon!monitor_vars)
  BY MonitorStep
<1> QED
  BY <1>1, <1>2, InductiveInvariant, PTL DEF Spec, ImplementsMonitor, Mon!Spec
=============================================================================
