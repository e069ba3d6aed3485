------------------------ MODULE Configuration_proofs ------------------------
(***************************************************************************)
(* The tokens and the sensors' lists of rules, for a file of sensors of    *)
(* any length that may list a sensor any number of times, and a list of    *)
(* rules of any length, whatever loads the two; and that what loads them   *)
(* is no more than that leaves open.  Then the parser of the rules' file,  *)
(* which returns exactly if the text begins with a JSON value, and returns *)
(* it; and last that both files are read as they are written, or refused.  *)
(***************************************************************************)
EXTENDS Configuration, Orders_proofs

(* Tokens are given out from 0, to each sensor one of its own. *)
TokensInv ==
    /\ IsFiniteSet(Known)
    /\ token_map \in [Known -> Tokens]
    /\ \A a, b \in Known : token_map[a] = token_map[b] => a = b
    /\ \A t \in Tokens : \E id \in Known : token_map[id] = t

(* The sensors that have a token are those that have been gone through. *)
InternInv ==
    /\ IsSequence(sensor_ids)
    /\ next_id \in 1 .. (Len(sensor_ids) + 1)
    /\ Known = {sensor_ids[k] : k \in 1 .. (next_id - 1)}
    /\ phase = "yaml" => next_id = 1

(* Once the inverse map is there, it is the inverse. *)
InverseInv ==
    phase \notin {"yaml", "sensors"} =>
        /\ Known = ToSet(sensor_ids)
        /\ DOMAIN inverse_token_map = Tokens
        /\ \A t \in Tokens : /\ inverse_token_map[t] \in Known
                             /\ token_map[inverse_token_map[t]] = t

TokenInv == TokensInv /\ InternInv /\ InverseInv

LEMMA TokensFacts ==
    ASSUME IsFiniteSet(Known)
    PROVE  /\ NumSensors \in Nat
           /\ NumSensors \notin Tokens
           /\ 0 .. ((NumSensors + 1) - 1) = Tokens \cup {NumSensors}
BY FS_CardinalityType DEF NumSensors, Tokens

(* A sensor that is seen for the first time gets the next token. *)
LEMMA NewSensor ==
    ASSUME TokensInv, NEW id, id \notin Known, token_map' = With(token_map, id, NumSensors)
    PROVE  TokensInv' /\ Known' = Known \cup {id}
<1>1. /\ Known' = Known \cup {id}
      /\ \A a \in Known : token_map'[a] = token_map[a]
      /\ token_map'[id] = NumSensors
      /\ token_map' = [a \in Known \cup {id} |-> token_map'[a]]
  BY DEF With, Known
<1>2. IsFiniteSet(Known') /\ Cardinality(Known') = Cardinality(Known) + 1
  BY <1>1, FS_AddElement DEF TokensInv
<1>3. Tokens' = Tokens \cup {NumSensors} /\ NumSensors \in Nat /\ NumSensors \notin Tokens
  BY <1>2, TokensFacts DEF TokensInv, Tokens, NumSensors
<1>4. \A a \in Known : token_map[a] \in Tokens
  BY DEF TokensInv
<1>5. token_map' \in [Known' -> Tokens']
  BY <1>1, <1>3, <1>4
<1>6. ASSUME NEW a \in Known', NEW b \in Known', token_map'[a] = token_map'[b]
      PROVE  a = b
  BY <1>1, <1>3, <1>4, <1>6 DEF TokensInv
<1>7. \A t \in Tokens' : \E a \in Known' : token_map'[a] = t
  BY <1>1, <1>3 DEF TokensInv
<1> QED
  BY <1>1, <1>2, <1>5, <1>6, <1>7 DEF TokensInv

(* A step that leaves the maps and the sensors alone. *)
LEMMA TokenFrame ==
    ASSUME TokenInv, UNCHANGED <<sensor_ids, next_id, token_map, inverse_token_map>>,
           phase' = "yaml" => phase = "yaml",
           phase \in {"yaml", "sensors"} => phase' \in {"yaml", "sensors"}
    PROVE  TokenInv'
<1>1. Known' = Known /\ Tokens' = Tokens /\ ToSet(sensor_ids)' = ToSet(sensor_ids)
  BY DEF Known, Tokens, NumSensors
<1>2. TokensInv'
  BY <1>1 DEF TokenInv, TokensInv
<1>3. InternInv'
  BY <1>1 DEF TokenInv, InternInv
<1>4. InverseInv'
  BY <1>1 DEF TokenInv, InverseInv
<1> QED
  BY <1>2, <1>3, <1>4 DEF TokenInv

LEMMA TokenStep ==
    ASSUME TokenInv, [Loading \/ Prepare]_startUpVars
    PROVE  TokenInv'
<1> USE DEF TokenInv, preparationVars
<1>1. CASE UNCHANGED startUpVars
  BY <1>1, TokenFrame DEF startUpVars
<1>2. CASE Loading
  <2>1. UNCHANGED preparationVars
    BY <1>2 DEF Loading
  <2>2. TokensInv'
    BY <2>1 DEF TokensInv, Known, Tokens, NumSensors
  <2>3. CASE phase = "yaml"
    <3>1. next_id = 1 /\ Known = {sensor_ids[k] : k \in 1 .. (next_id - 1)}
      BY <2>3 DEF InternInv
    <3>2. Known = {}
      BY <3>1
    <3>3. next_id' = 1 /\ Known' = {}
      BY <2>1, <3>1, <3>2 DEF Known
    <3>4. IsSequence(sensor_ids)' /\ phase' \in {"yaml", "sensors"}
      BY <1>2, <2>3 DEF Loading
    <3> QED
      BY <2>2, <3>3, <3>4 DEF InternInv, InverseInv
  <2>4. CASE phase \in {"json", "rules"}
    <3>1. /\ UNCHANGED sensor_ids
          /\ phase' \notin {"yaml", "sensors"}
      BY <1>2, <2>4 DEF Loading
    <3> QED
      BY <2>1, <2>4, <3>1, TokenFrame
  <2> QED
    BY <1>2, <2>3, <2>4 DEF Loading
<1>3. CASE InternSensor
  <2>1. /\ phase = "sensors" /\ phase' = "sensors" /\ UNCHANGED sensor_ids
        /\ next_id <= Len(sensor_ids) /\ next_id' = next_id + 1
        /\ token_map' = TokenFor(sensor_ids[next_id])
    BY <1>3 DEF InternSensor
  <2>2. /\ IsSequence(sensor_ids) /\ next_id \in 1 .. Len(sensor_ids)
        /\ Len(sensor_ids) \in Nat
    BY <2>1 DEF InternInv
  <2> DEFINE id == sensor_ids[next_id]
  <2>3. TokensInv' /\ Known' = Known \cup {id}
    <3>1. CASE id \in Known
      <4>1. token_map' = token_map
        BY <2>1, <3>1 DEF TokenFor
      <4> QED
        BY <3>1, <4>1 DEF TokensInv, Known, Tokens, NumSensors
    <3>2. CASE id \notin Known
      BY <2>1, <3>2, NewSensor DEF TokenFor
    <3> QED
      BY <3>1, <3>2
  <2>4. {sensor_ids[k] : k \in 1 .. next_id} = {sensor_ids[k] : k \in 1 .. (next_id - 1)} \cup {id}
    BY <2>2
  <2>5. InternInv'
    <3>1. next_id' \in 1 .. (Len(sensor_ids) + 1) /\ next_id' - 1 = next_id
      BY <2>1, <2>2
    <3> QED
      BY <2>1, <2>2, <2>3, <2>4, <3>1 DEF InternInv
  <2> QED
    BY <2>1, <2>3, <2>5 DEF InverseInv
<1>4. CASE EndSensors
  <2>1. /\ phase' = "json" /\ next_id > Len(sensor_ids)
        /\ inverse_token_map' = build_inverse_token_map
        /\ UNCHANGED <<sensor_ids, next_id, token_map>>
    BY <1>4 DEF EndSensors
  <2>2. TokensInv' /\ InternInv'
    BY <2>1 DEF TokensInv, InternInv, Known, Tokens, NumSensors
  <2>3. Known = ToSet(sensor_ids)
    <3>1. next_id - 1 = Len(sensor_ids) /\ DOMAIN sensor_ids = 1 .. Len(sensor_ids)
      BY <2>1 DEF InternInv
    <3> QED
      BY <3>1 DEF InternInv, ToSet
  <2>4. ASSUME NEW t \in Tokens
        PROVE  /\ inverse_token_map'[t] \in Known
               /\ token_map[inverse_token_map'[t]] = t
    <3>1. \E id \in Known : token_map[id] = t
      BY DEF TokensInv
    <3>2. inverse_token_map'[t] = CHOOSE id \in Known : token_map[id] = t
      BY <2>1, <3>1 DEF build_inverse_token_map
    <3> QED
      BY <3>1, <3>2
  <2>5. DOMAIN inverse_token_map' = Tokens
    BY <2>1 DEF build_inverse_token_map
  <2>6. InverseInv'
    BY <2>1, <2>3, <2>4, <2>5 DEF InverseInv, Known, Tokens, NumSensors, ToSet
  <2> QED
    BY <2>2, <2>6
<1>5. CASE assign_sensor_tokens \/ SortRules \/ DealRules
  <2>1. /\ phase \notin {"yaml", "sensors"} /\ phase' \notin {"yaml", "sensors"}
        /\ UNCHANGED <<sensor_ids, next_id, token_map, inverse_token_map>>
    BY <1>5 DEF assign_sensor_tokens, SortRules, DealRules
  <2> QED
    BY <2>1, TokenFrame
<1> QED
  BY <1>1, <1>2, <1>3, <1>4, <1>5 DEF Prepare

(* The first tokens: none. *)
LEMMA EmptySequence == IsSequence(<< >>) /\ IsRuleList(<< >>)
<1>1. << >> = [n \in 1 .. Len(<< >>) |-> << >>[n]] /\ Len(<< >>) = 0
  OBVIOUS
<1>2. 1 .. 0 = {}
  OBVIOUS
<1> QED
  BY <1>1, <1>2 DEF IsSequence, IsRuleList

LEMMA NoTokens == StartUpInit => TokenInv
<1> SUFFICES ASSUME phase = "yaml", sensor_ids = << >>, PreparationInit
             PROVE  TokenInv
  BY DEF StartUpInit
<1>1. Known = {} /\ token_map = << >> /\ next_id = 1
  BY DEF PreparationInit, Known
<1>2. NumSensors = 0 /\ IsFiniteSet(Known)
  BY <1>1, FS_EmptySet DEF NumSensors
<1>3. Tokens = {}
  BY <1>2 DEF Tokens
<1>4. TokensInv
  BY <1>1, <1>2, <1>3 DEF TokensInv
<1>5. InternInv
  <2>1. IsSequence(sensor_ids) /\ Len(sensor_ids) = 0
    BY EmptySequence
  <2>2. {sensor_ids[k] : k \in 1 .. (next_id - 1)} = {}
    BY <1>1
  <2> QED
    BY <1>1, <2>1, <2>2 DEF InternInv
<1> QED
  BY <1>4, <1>5 DEF TokenInv, InverseInv

LEMMA TokenInvariant == PreparationSpec => []TokenInv
<1>1. TokenInv /\ [Loading \/ Prepare]_startUpVars => TokenInv'
  BY TokenStep
<1> QED
  BY <1>1, NoTokens, PTL DEF PreparationSpec

(***************************************************************************)
(* A sensor of the file is found by the parser under the token its rules   *)
(* are bound to, and printed under its own name; no other name is found.   *)
(***************************************************************************)
THEOREM TokensOfTheFile == PreparationSpec => []TokensAgree
<1>1. TokenInv => TokensAgree
  <2> SUFFICES ASSUME TokenInv, phase \notin {"yaml", "sensors"}
               PROVE  /\ \A id \in ToSet(sensor_ids) :
                            /\ lookup_sensor_token(id) = token_map[id]
                            /\ inverse_token_map[token_map[id]] = id
                      /\ \A id \in SensorId \ ToSet(sensor_ids) :
                            lookup_sensor_token(id) = -1
    BY DEF TokensAgree
  <2>1. /\ Known = ToSet(sensor_ids)
        /\ \A t \in Tokens : /\ inverse_token_map[t] \in Known
                             /\ token_map[inverse_token_map[t]] = t
        /\ token_map \in [Known -> Tokens]
        /\ \A a, b \in Known : token_map[a] = token_map[b] => a = b
    BY DEF TokenInv, InverseInv, TokensInv
  <2>2. ASSUME NEW id \in Known
        PROVE  /\ inverse_token_map[token_map[id]] = id
               /\ \A t \in Tokens : inverse_token_map[t] = id => t = token_map[id]
    BY <2>1
  <2>3. ASSUME NEW id \in Known
        PROVE  lookup_sensor_token(id) = token_map[id]
    <3> DEFINE First(t) == /\ inverse_token_map[t] = id
                           /\ \A u \in 0 .. (t - 1) : inverse_token_map[u] # id
    <3>1. token_map[id] \in Tokens /\ NumSensors \in Nat
      BY <2>1, TokensFacts DEF TokenInv, TokensInv
    <3>2. \A u \in 0 .. (token_map[id] - 1) : u \in Tokens /\ u # token_map[id]
      BY <3>1 DEF Tokens
    <3>3. First(token_map[id])
      BY <2>2, <3>2
    <3>4. \A t \in Tokens : First(t) => t = token_map[id]
      BY <2>2
    <3> HIDE DEF First
    <3>5. (CHOOSE t \in Tokens : First(t)) = token_map[id]
      BY <3>1, <3>3, <3>4
    <3>6. \E t \in Tokens : inverse_token_map[t] = id
      BY <2>2, <3>1
    <3> QED
      BY <3>5, <3>6 DEF lookup_sensor_token, First
  <2>4. ASSUME NEW id, id \notin Known
        PROVE  lookup_sensor_token(id) = -1
    BY <2>1, <2>4 DEF lookup_sensor_token
  <2> QED
    BY <2>1, <2>2, <2>3, <2>4
<1> QED
  BY <1>1, TokenInvariant, PTL
-----------------------------------------------------------------------------
(***************************************************************************)
(* The lists of rules.                                                     *)
(***************************************************************************)
(* The sequence has every element of S, once.                              *)
EachOnce(seq, S) ==
    /\ seq \in Seq(S)
    /\ \A x \in S : \E n \in 1 .. Len(seq) : seq[n] = x
    /\ \A m, n \in 1 .. Len(seq) : seq[m] = seq[n] => m = n

(* Each type's list has the rules of the type. *)
TypeLists ==
    \A type \in RuleType :
        /\ EachOnce(rules_of[type], RulesOf(type))
        /\ Len(rules_of[type]) <= Len(all_rules)

SortedLists == \A type \in RuleType : Descending(rules_of[type])

(* What holds of the rules at each point of the start-up.                  *)
ListsInv ==
    /\ IsRuleList(all_rules)
    /\ phase \in {"sort", "deal", "done"} =>
          /\ sensor_token_idx = [r \in Rules |-> TokenOf(all_rules[r])]
          /\ TypeLists
    /\ phase \in {"deal", "done"} => SortedLists
    /\ phase = "done" => sensor_rules = [t \in Tokens |-> SensorRuleSet(t)]

LEMMA RulesFacts ==
    ASSUME IsRuleList(all_rules), NEW type
    PROVE  /\ Len(all_rules) \in Nat
           /\ RulesOf(type) \in SUBSET (1 .. Len(all_rules))
           /\ IsFiniteSet(RulesOf(type))
           /\ Cardinality(RulesOf(type)) \in Nat
           /\ Cardinality(RulesOf(type)) <= Len(all_rules)
<1>1. Len(all_rules) \in Nat /\ RulesOf(type) \in SUBSET (1 .. Len(all_rules))
  BY DEF IsRuleList, RulesOf, Rules
<1>2. \A n \in Nat : IsFiniteSet(1 .. n) /\ Cardinality(1 .. n) = n
  BY FS_Interval
<1>3. IsFiniteSet(1 .. Len(all_rules)) /\ Cardinality(1 .. Len(all_rules)) = Len(all_rules)
  BY <1>1, <1>2
<1>4. /\ IsFiniteSet(RulesOf(type))
      /\ Cardinality(RulesOf(type)) <= Cardinality(1 .. Len(all_rules))
  BY <1>1, <1>3, FS_Subset
<1>5. Cardinality(RulesOf(type)) \in Nat
  BY <1>4, FS_CardinalityType
<1> QED
  BY <1>1, <1>3, <1>4, <1>5

(* The loop over the rules puts each into the list of its type. *)
LEMMA EnumeratedRules ==
    ASSUME IsRuleList(all_rules), NEW type
    PROVE  /\ EachOnce(Ascending(RulesOf(type)), RulesOf(type))
           /\ Len(Ascending(RulesOf(type))) <= Len(all_rules)
<1> DEFINE S == RulesOf(type)
           f == Ascending(S)
<1>1. /\ Len(all_rules) \in Nat /\ S \in SUBSET (1 .. Len(all_rules))
      /\ Cardinality(S) <= Len(all_rules)
  BY RulesFacts
<1> HIDE DEF S
<1>2. Len(f) = Cardinality(S)
  BY <1>1, PlacesFacts
<1>3. /\ Len(f) \in Nat /\ f \in [1 .. Len(f) -> S]
      /\ \A x \in S : \E k \in 1 .. Len(f) : f[k] = x
      /\ \A a, b \in 1 .. Len(f) : a < b <=> f[a] < f[b]
  BY <1>1, PlacesInOrder
<1> HIDE DEF f
<1>4. \A m, n \in 1 .. Len(f) : f[m] = f[n] => m = n
  <2> SUFFICES ASSUME NEW m \in 1 .. Len(f), NEW n \in 1 .. Len(f), f[m] = f[n]
               PROVE  m = n
    OBVIOUS
  <2>0. S \subseteq Int
    BY <1>1
  <2>1. f[m] \in Int /\ f[n] \in Int
    BY <1>3, <2>0
  <2>2. ~ (m < n) /\ ~ (n < m)
    BY <1>3, <2>1
  <2> QED
    BY <1>3, <2>2
<1>5. f \in Seq(S)
  BY <1>3
<1> QED
  BY <1>1, <1>2, <1>3, <1>4, <1>5 DEF EachOnce, S, f

(* What std::sort may leave has the rules it was given, once each. *)
LEMMA SortedRules ==
    ASSUME IsRuleList(all_rules), NEW type, NEW seq, EachOnce(seq, RulesOf(type)),
           NEW order \in sort_by_priority(seq)
    PROVE  /\ EachOnce(order, RulesOf(type))
           /\ Len(order) <= Len(all_rules)
           /\ Descending(order)
<1> DEFINE S == RulesOf(type)
           c == Cardinality(S)
<1>1. IsFiniteSet(S) /\ c \in Nat /\ c <= Len(all_rules)
  BY RulesFacts
<1>2. ToSet(seq) = S
  <2>1. \A k \in DOMAIN seq : k \in 1 .. Len(seq) /\ seq[k] \in S
    BY DEF EachOnce
  <2>2. \A x \in S : \E k \in DOMAIN seq : seq[k] = x
    BY DEF EachOnce
  <2> QED
    BY <2>1, <2>2 DEF ToSet
<1>3. order \in SetToSeqs(ToSet(seq)) /\ Descending(order)
  BY DEF sort_by_priority, Descending
<1>4. /\ order \in [1 .. c -> S]
      /\ \A i, j \in 1 .. c : i # j => order[i] # order[j]
  BY <1>2, <1>3 DEF SetToSeqs
<1> HIDE DEF S, c
<1>5. order \in Seq(S) /\ Len(order) = c
  BY <1>1, <1>4
<1>6. \A x \in S : \E n \in 1 .. c : order[n] = x
  <2>1. order \in Injection(1 .. c, S)
    BY <1>4 DEF Injection, IsInjective
  <2>2. IsFiniteSet(1 .. c) /\ Cardinality(1 .. c) = Cardinality(S)
    <3>1. \A n \in Nat : IsFiniteSet(1 .. n) /\ Cardinality(1 .. n) = n
      BY FS_Interval
    <3> QED
      BY <1>1, <3>1 DEF c
  <2>3. order \in Surjection(1 .. c, S)
    BY <1>1, <2>1, <2>2, FS_Surjection, FS_Injection
  <2> QED
    BY <2>3 DEF Surjection
<1>7. \A m, n \in 1 .. c : order[m] = order[n] => m = n
  BY <1>4
<1> QED
  BY <1>1, <1>3, <1>5, <1>6, <1>7 DEF EachOnce, S

(* The rules of a type that are bound to a token, in the order of the list. *)
LEMMA BoundFacts ==
    ASSUME IsRuleList(all_rules), TypeLists, NEW t, NEW type \in RuleType
    PROVE  /\ Len(BoundTo(t, type)) \in 0 .. Len(all_rules)
           /\ BoundTo(t, type) \in Seq({r \in RulesOf(type) : sensor_token_idx[r] = t})
           /\ EachOnce(BoundTo(t, type), {r \in RulesOf(type) : sensor_token_idx[r] = t})
           /\ Descending(rules_of[type]) => Descending(BoundTo(t, type))
<1> DEFINE seq == rules_of[type]
           S == {k \in 1 .. Len(seq) : sensor_token_idx[seq[k]] = t}
           R == RulesOf(type)
           B == {r \in R : sensor_token_idx[r] = t}
           f == Ascending(S)
           c == Cardinality(S)
           own == BoundTo(t, type)
<1>1. /\ seq \in Seq(R) /\ Len(seq) <= Len(all_rules) /\ Len(seq) \in Nat
      /\ Len(all_rules) \in Nat
      /\ \A x \in R : \E n \in 1 .. Len(seq) : seq[n] = x
      /\ \A m, n \in 1 .. Len(seq) : seq[m] = seq[n] => m = n
  BY DEF TypeLists, EachOnce, IsRuleList, IsSequence
<1>2. own = Picked(seq, S)
  BY DEF BoundTo
<1>3. S \in SUBSET (1 .. Len(seq))
  OBVIOUS
<1>4. \A k \in S : k \in 1 .. Len(seq) /\ seq[k] \in B
  BY <1>1
<1>5. \A k \in 1 .. Len(seq) : seq[k] \in B => k \in S
  OBVIOUS
<1> HIDE DEF S, seq, R
<1>6. /\ c \in Nat /\ own \in Seq(R) /\ Len(own) = c
      /\ f \in [1 .. c -> S]
      /\ \A n \in 1 .. c : own[n] = seq[f[n]]
      /\ \A x \in S : \E n \in 1 .. c : f[n] = x
      /\ \A a, b \in 1 .. c : a < b <=> f[a] < f[b]
  <2>1. seq \in Seq(R)
    BY <1>1
  <2> HIDE DEF own
  <2>2. /\ c \in Nat /\ Picked(seq, S) \in Seq(R) /\ Len(Picked(seq, S)) = c
        /\ f \in [1 .. c -> S]
        /\ \A n \in 1 .. c : Picked(seq, S)[n] = seq[f[n]]
        /\ \A x \in S : \E n \in 1 .. c : f[n] = x
        /\ \A a, b \in 1 .. c : a < b <=> f[a] < f[b]
    BY <1>3, <2>1, PickedFacts
  <2> QED
    BY <1>2, <2>2
<1>7. c <= Len(seq)
  <2>1. \A n \in Nat : IsFiniteSet(1 .. n) /\ Cardinality(1 .. n) = n
    BY FS_Interval
  <2>2. IsFiniteSet(1 .. Len(seq)) /\ Cardinality(1 .. Len(seq)) = Len(seq)
    BY <1>1, <2>1
  <2> QED
    BY <1>3, <2>2, FS_Subset
<1> HIDE DEF f, c, own, B
<1>8. \A n \in 1 .. c : own[n] \in B
  BY <1>4, <1>6
<1>9. own \in Seq(B)
  BY <1>6, <1>8
<1>10. ASSUME NEW x \in B PROVE \E n \in 1 .. Len(own) : own[n] = x
  <2>1. PICK k \in 1 .. Len(seq) : seq[k] = x
    BY <1>1 DEF B
  <2>2. k \in S
    BY <1>5, <2>1
  <2>3. PICK n \in 1 .. c : f[n] = k
    BY <1>6, <2>2
  <2> QED
    BY <1>6, <2>1, <2>3
<1>11. ASSUME NEW m \in 1 .. Len(own), NEW n \in 1 .. Len(own), own[m] = own[n]
       PROVE  m = n
  <2>1. m \in 1 .. c /\ n \in 1 .. c /\ f[m] \in S /\ f[n] \in S
    BY <1>6
  <2>2. seq[f[m]] = seq[f[n]] /\ f[m] \in 1 .. Len(seq) /\ f[n] \in 1 .. Len(seq)
    BY <1>4, <1>6, <1>11, <2>1
  <2>3. f[m] = f[n] /\ f[m] \in Int
    <3>1. \A k, l \in 1 .. Len(seq) : seq[k] = seq[l] => k = l
      BY <1>1
    <3>2. f[m] = f[n]
      BY <2>2, <3>1, Zenon
    <3>3. \A k \in 1 .. Len(seq) : k \in Int
      BY <1>1
    <3> QED
      BY <2>2, <3>2, <3>3
  <2>4. ~ (f[m] < f[n]) /\ ~ (f[n] < f[m])
    BY <2>3
  <2> QED
    BY <1>6, <2>1, <2>4
<1>12. ASSUME Descending(seq) PROVE Descending(own)
  <2> SUFFICES ASSUME NEW a \in 1 .. Len(own), NEW b \in 1 .. Len(own), a < b
               PROVE  all_rules[own[a]].priority >= all_rules[own[b]].priority
    BY DEF Descending
  <2>1. a \in 1 .. c /\ b \in 1 .. c /\ f[a] \in 1 .. Len(seq) /\ f[b] \in 1 .. Len(seq)
    BY <1>4, <1>6
  <2>2. f[a] < f[b] /\ own[a] = seq[f[a]] /\ own[b] = seq[f[b]]
    BY <1>6, <2>1
  <2>3. all_rules[seq[f[a]]].priority >= all_rules[seq[f[b]]].priority
    BY <1>12, <2>1, <2>2 DEF Descending
  <2> QED
    BY <2>2, <2>3
<1>13. Len(own) \in 0 .. Len(all_rules)
  BY <1>1, <1>6, <1>7
<1> QED
  BY <1>9, <1>10, <1>11, <1>12, <1>13 DEF EachOnce, own, B, R, seq

LEMMA ListsFrame ==
    ASSUME ListsInv,
           UNCHANGED <<phase, all_rules, token_map, sensor_token_idx, rules_of, sensor_rules>>
    PROVE  ListsInv'
<1>1. Rules' = Rules /\ Known' = Known /\ Tokens' = Tokens
  BY DEF Rules, Known, Tokens, NumSensors
<1>2. \A r : TokenOf(r)' = TokenOf(r)
  BY <1>1 DEF TokenOf
<1>3. \A type : RulesOf(type)' = RulesOf(type)
  BY <1>1 DEF RulesOf
<1>4. (TypeLists => TypeLists') /\ (SortedLists => SortedLists')
  BY <1>3 DEF TypeLists, SortedLists, Descending
<1>5. \A t, type : BoundTo(t, type)' = BoundTo(t, type)
  BY DEF BoundTo
<1>6. \A t : SensorRuleSet(t)' = SensorRuleSet(t)
  BY <1>5 DEF SensorRuleSet, StatefulEntries
<1> QED
  BY <1>1, <1>2, <1>4, <1>6 DEF ListsInv, IsRuleList

LEMMA ListsStep ==
    ASSUME ListsInv, [Loading \/ Prepare]_startUpVars
    PROVE  ListsInv'
<1>1. CASE UNCHANGED startUpVars
  BY <1>1, ListsFrame DEF startUpVars, preparationVars
<1>2. CASE Loading
  <2>1. IsRuleList(all_rules')
    BY <1>2 DEF Loading, ListsInv, IsRuleList
  <2>2. phase' \notin {"sort", "deal", "done"}
    BY <1>2 DEF Loading
  <2> QED
    BY <2>1, <2>2 DEF ListsInv
<1>3. CASE InternSensor \/ EndSensors
  <2>1. phase' \notin {"sort", "deal", "done"} /\ all_rules' = all_rules
    BY <1>3 DEF InternSensor, EndSensors
  <2> QED
    BY <2>1 DEF ListsInv, IsRuleList
<1>4. CASE assign_sensor_tokens
  <2>1. /\ phase' = "sort" /\ UNCHANGED <<all_rules, token_map>>
        /\ sensor_token_idx' = [r \in Rules |-> TokenOf(all_rules[r])]
        /\ rules_of' = [type \in RuleType |-> Ascending(RulesOf(type))]
    BY <1>4 DEF assign_sensor_tokens
  <2>2. Rules' = Rules /\ \A r : TokenOf(r)' = TokenOf(r)
    BY <2>1 DEF Rules, TokenOf, Known
  <2>3. \A type \in RuleType : RulesOf(type)' = RulesOf(type)
    BY <2>1, <2>2 DEF RulesOf
  <2>4. TypeLists'
    <3> SUFFICES ASSUME NEW type \in RuleType
                 PROVE  /\ EachOnce(rules_of'[type], RulesOf(type)')
                        /\ Len(rules_of'[type]) <= Len(all_rules')
      BY DEF TypeLists
    <3>1. rules_of'[type] = Ascending(RulesOf(type))
      BY <2>1
    <3> QED
      BY <2>1, <2>3, <3>1, EnumeratedRules DEF ListsInv
  <2>5. sensor_token_idx' = [r \in Rules' |-> TokenOf(all_rules[r])']
    BY <2>1, <2>2
  <2> QED
    BY <2>1, <2>4, <2>5 DEF ListsInv, IsRuleList
<1>5. CASE SortRules
  <2>1. /\ phase = "sort" /\ phase' = "deal"
        /\ UNCHANGED <<all_rules, token_map, sensor_token_idx>>
    BY <1>5 DEF SortRules
  <2>2. \A type \in RuleType : rules_of'[type] \in sort_by_priority(rules_of[type])
    BY <1>5 DEF SortRules, RuleType
  <2>3. Rules' = Rules /\ \A r : TokenOf(r)' = TokenOf(r)
    BY <2>1 DEF Rules, TokenOf, Known
  <2>4. \A type \in RuleType : RulesOf(type)' = RulesOf(type)
    BY <2>1, <2>3 DEF RulesOf
  <2>5. ASSUME NEW type \in RuleType
        PROVE  /\ EachOnce(rules_of'[type], RulesOf(type)')
               /\ Len(rules_of'[type]) <= Len(all_rules')
               /\ Descending(rules_of'[type])
    <3>1. IsRuleList(all_rules) /\ EachOnce(rules_of[type], RulesOf(type))
      BY <2>1 DEF ListsInv, TypeLists
    <3> QED
      BY <2>1, <2>2, <2>4, <3>1, SortedRules
  <2>6. TypeLists' /\ SortedLists'
    BY <2>1, <2>5 DEF TypeLists, SortedLists, Descending
  <2>7. sensor_token_idx' = [r \in Rules' |-> TokenOf(all_rules[r])']
    BY <2>1, <2>3 DEF ListsInv
  <2> QED
    BY <2>1, <2>6, <2>7 DEF ListsInv, IsRuleList
<1>6. CASE DealRules
  <2>1. /\ phase = "deal" /\ phase' = "done"
        /\ UNCHANGED <<all_rules, token_map, sensor_token_idx, rules_of>>
        /\ sensor_rules' = [t \in Tokens |-> SensorRuleSet(t)]
    BY <1>6 DEF DealRules
  <2>2. Rules' = Rules /\ Known' = Known /\ Tokens' = Tokens
    BY <2>1 DEF Rules, Known, Tokens, NumSensors
  <2>3. /\ \A r : TokenOf(r)' = TokenOf(r)
        /\ \A type : RulesOf(type)' = RulesOf(type)
    BY <2>1, <2>2 DEF TokenOf, RulesOf
  <2>4. TypeLists' /\ SortedLists'
    BY <2>1, <2>3 DEF ListsInv, TypeLists, SortedLists, Descending
  <2>5. \A t, type : BoundTo(t, type)' = BoundTo(t, type)
    BY <2>1 DEF BoundTo
  <2>6. \A t : SensorRuleSet(t)' = SensorRuleSet(t)
    BY <2>5 DEF SensorRuleSet, StatefulEntries
  <2>7. sensor_rules' = [t \in Tokens' |-> SensorRuleSet(t)']
    BY <2>1, <2>2, <2>6
  <2>8. sensor_token_idx' = [r \in Rules' |-> TokenOf(all_rules[r])']
    BY <2>1, <2>2, <2>3 DEF ListsInv
  <2> QED
    BY <2>1, <2>4, <2>7, <2>8 DEF ListsInv, IsRuleList
<1> QED
  BY <1>1, <1>2, <1>3, <1>4, <1>5, <1>6 DEF Prepare

LEMMA ListsInvariant == PreparationSpec => []ListsInv
<1>1. StartUpInit => ListsInv
  BY EmptySequence DEF StartUpInit, ListsInv
<1>2. ListsInv /\ [Loading \/ Prepare]_startUpVars => ListsInv'
  BY ListsStep
<1> QED
  BY <1>1, <1>2, PTL DEF PreparationSpec

(* What prepare_rules returns for a sensor. *)
LEMMA PreparedFacts ==
    ASSUME ListsInv, phase = "done", NEW t \in Tokens
    PROVE  /\ sensor_rules[t].threshold = BoundTo(t, "THRESHOLD")
           /\ sensor_rules[t].step_diff = BoundTo(t, "STEP_DIFF")
           /\ Len(BoundTo(t, "STATEFUL")) \in Nat
           /\ Len(sensor_rules[t].stateful) = Len(BoundTo(t, "STATEFUL"))
           /\ \A k \in 1 .. Len(BoundTo(t, "STATEFUL")) :
                 /\ sensor_rules[t].stateful[k].rule = BoundTo(t, "STATEFUL")[k]
                 /\ sensor_rules[t].stateful[k].slot = k - 1
<1> DEFINE own == BoundTo(t, "STATEFUL")
           entries == sensor_rules[t].stateful
<1>1. sensor_rules[t] = SensorRuleSet(t)
  BY DEF ListsInv
<1>2. Len(own) \in Nat
  BY BoundFacts DEF ListsInv, RuleType, IsRuleList
<1>3. StatefulEntries(t) = [k \in 1 .. Len(own) |-> [rule |-> own[k], slot |-> k - 1]]
  BY DEF StatefulEntries
<1>4. entries = StatefulEntries(t)
  BY <1>1 DEF SensorRuleSet
<1> HIDE DEF own, entries
<1>5. /\ Len(entries) = Len(own)
      /\ \A k \in 1 .. Len(own) : entries[k] = [rule |-> own[k], slot |-> k - 1]
  BY <1>2, <1>3, <1>4
<1>6. ASSUME NEW k \in 1 .. Len(own)
      PROVE  entries[k].rule = own[k] /\ entries[k].slot = k - 1
  <2>1. entries[k] = [rule |-> own[k], slot |-> k - 1]
    BY <1>5
  <2> QED
    BY <2>1
<1>7. /\ sensor_rules[t].threshold = BoundTo(t, "THRESHOLD")
      /\ sensor_rules[t].step_diff = BoundTo(t, "STEP_DIFF")
  BY <1>1 DEF SensorRuleSet
<1> QED
  BY <1>2, <1>5, <1>6, <1>7 DEF own, entries

(***************************************************************************)
(* The STATEFUL rules of a sensor count in the counters 0, 1 and so on, as *)
(* many as PipelineState::initialize makes, each in one of its own.        *)
(***************************************************************************)
THEOREM CountersOfTheSensor == PreparationSpec => []CounterPerRule
<1>1. ListsInv => CounterPerRule
  <2> SUFFICES ASSUME ListsInv, phase = "done", NEW t \in Tokens
               PROVE  {sensor_rules[t].stateful[k].slot : k \in 1 .. Len(sensor_rules[t].stateful)}
                         = 0 .. (Len(sensor_rules[t].stateful) - 1)
    BY DEF CounterPerRule
  <2> DEFINE entries == sensor_rules[t].stateful
             n == Len(entries)
  <2>1. n \in Nat
    BY PreparedFacts
  <2>2. \A k \in 1 .. n : entries[k].slot = k - 1
    BY PreparedFacts
  <2> HIDE DEF entries, n
  <2>3. {entries[k].slot : k \in 1 .. n} = {k - 1 : k \in 1 .. n}
    BY <2>2
  <2>4. \A j \in 0 .. (n - 1) : j + 1 \in 1 .. n /\ (j + 1) - 1 = j
    BY <2>1
  <2>5. \A k \in 1 .. n : k - 1 \in 0 .. (n - 1)
    BY <2>1
  <2>6. {k - 1 : k \in 1 .. n} = 0 .. (n - 1)
    BY <2>4, <2>5
  <2> QED
    BY <2>3, <2>6 DEF entries, n
<1> QED
  BY <1>1, ListsInvariant, PTL

(***************************************************************************)
(* At every sensor the rules of a type are evaluated by falling priority,  *)
(* in whatever order the sort leaves rules of one priority.                *)
(***************************************************************************)
THEOREM PriorityAtTheSensor == PreparationSpec => []HigherFirst
<1>1. ListsInv => HigherFirst
  <2> SUFFICES ASSUME ListsInv, phase = "done", NEW t \in Tokens
               PROVE  /\ Descending(sensor_rules[t].threshold)
                      /\ Descending(sensor_rules[t].step_diff)
                      /\ Descending([k \in 1 .. Len(sensor_rules[t].stateful) |->
                                        sensor_rules[t].stateful[k].rule])
    BY DEF HigherFirst
  <2>1. ASSUME NEW type \in RuleType
        PROVE  Descending(BoundTo(t, type))
    <3>1. IsRuleList(all_rules) /\ TypeLists /\ Descending(rules_of[type])
      BY DEF ListsInv, SortedLists
    <3> QED
      BY <3>1, BoundFacts
  <2> DEFINE own == BoundTo(t, "STATEFUL")
             entries == sensor_rules[t].stateful
             shown == [k \in 1 .. Len(entries) |-> entries[k].rule]
  <2>2. /\ "THRESHOLD" \in RuleType /\ "STEP_DIFF" \in RuleType /\ "STATEFUL" \in RuleType
    BY DEF RuleType
  <2>3. Len(entries) = Len(own) /\ \A k \in 1 .. Len(own) : entries[k].rule = own[k]
    BY PreparedFacts
  <2>4. Descending(own) /\ Len(own) \in Nat
    BY <2>1, <2>2, PreparedFacts
  <2> HIDE DEF own, entries
  <2>5. Len(shown) = Len(own) /\ \A k \in 1 .. Len(own) : shown[k] = own[k]
    BY <2>3, <2>4
  <2>6. Descending(shown)
    BY <2>4, <2>5 DEF Descending
  <2>7. /\ Descending(sensor_rules[t].threshold)
        /\ Descending(sensor_rules[t].step_diff)
    BY <2>1, <2>2, PreparedFacts
  <2> QED
    BY <2>6, <2>7 DEF entries
<1> QED
  BY <1>1, ListsInvariant, PTL

(* The types that are evaluated at the sensors. *)
SensorTypes == {"THRESHOLD", "STEP_DIFF", "STATEFUL"}

(* The rule is the k-th of the type at the sensor with the token. *)
IsAt(r, t, type, k) ==
    k \in 1 .. Len(BoundTo(t, type)) /\ BoundTo(t, type)[k] = r

LEMMA PlacesAreBound ==
    ASSUME ListsInv, phase = "done", NEW r
    PROVE  /\ \A p \in Places(r) :
                 \E t \in Tokens, type \in SensorTypes : \E k \in 1 .. Len(BoundTo(t, type)) :
                    IsAt(r, t, type, k) /\ p = <<t, type, k>>
           /\ \A t \in Tokens, type \in SensorTypes : \A k \in 1 .. Len(BoundTo(t, type)) :
                 IsAt(r, t, type, k) => <<t, type, k>> \in Places(r)
<1> DEFINE First(t)  == {<<t, "THRESHOLD", k>> : k \in {n \in 1 .. Len(sensor_rules[t].threshold) :
                                              sensor_rules[t].threshold[n] = r}}
           Second(t) == {<<t, "STEP_DIFF", k>> : k \in {n \in 1 .. Len(sensor_rules[t].step_diff) :
                                              sensor_rules[t].step_diff[n] = r}}
           Third(t)  == {<<t, "STATEFUL", k>> : k \in {n \in 1 .. Len(sensor_rules[t].stateful) :
                                              sensor_rules[t].stateful[n].rule = r}}
<1>1. ASSUME NEW t \in Tokens
      PROVE  /\ First(t) = {<<t, "THRESHOLD", k>> : k \in {n \in 1 .. Len(BoundTo(t, "THRESHOLD")) :
                                                             IsAt(r, t, "THRESHOLD", n)}}
             /\ Second(t) = {<<t, "STEP_DIFF", k>> : k \in {n \in 1 .. Len(BoundTo(t, "STEP_DIFF")) :
                                                              IsAt(r, t, "STEP_DIFF", n)}}
             /\ Third(t) = {<<t, "STATEFUL", k>> : k \in {n \in 1 .. Len(BoundTo(t, "STATEFUL")) :
                                                             IsAt(r, t, "STATEFUL", n)}}
  <2>1. /\ sensor_rules[t].threshold = BoundTo(t, "THRESHOLD")
        /\ sensor_rules[t].step_diff = BoundTo(t, "STEP_DIFF")
        /\ Len(sensor_rules[t].stateful) = Len(BoundTo(t, "STATEFUL"))
        /\ \A k \in 1 .. Len(BoundTo(t, "STATEFUL")) :
              sensor_rules[t].stateful[k].rule = BoundTo(t, "STATEFUL")[k]
    BY PreparedFacts
  <2> QED
    BY <2>1 DEF IsAt
<1>2. Places(r) = UNION {First(t) \cup Second(t) \cup Third(t) : t \in Tokens}
  BY DEF Places
<1> HIDE DEF First, Second, Third
<1>3. ASSUME NEW p \in Places(r)
      PROVE  \E t \in Tokens, type \in SensorTypes : \E k \in 1 .. Len(BoundTo(t, type)) :
                    IsAt(r, t, type, k) /\ p = <<t, type, k>>
  <2>1. PICK t \in Tokens : p \in First(t) \cup Second(t) \cup Third(t)
    BY <1>2
  <2>2. CASE p \in First(t)
    BY <1>1, <2>2 DEF SensorTypes
  <2>3. CASE p \in Second(t)
    BY <1>1, <2>3 DEF SensorTypes
  <2>4. CASE p \in Third(t)
    BY <1>1, <2>4 DEF SensorTypes
  <2> QED
    BY <2>1, <2>2, <2>3, <2>4
<1>4. ASSUME NEW t \in Tokens, NEW type \in SensorTypes,
             NEW k \in 1 .. Len(BoundTo(t, type)), IsAt(r, t, type, k)
      PROVE  <<t, type, k>> \in Places(r)
  <2>1. <<t, type, k>> \in First(t) \cup Second(t) \cup Third(t)
    BY <1>1, <1>4 DEF SensorTypes
  <2> QED
    BY <1>2, <2>1
<1> QED
  BY <1>3, <1>4

(***************************************************************************)
(* A rule that names a sensor of the file is in the list of its type at    *)
(* that sensor, at one place, and in no other list; a CORRELATION rule, or *)
(* one for a sensor that is in no file, is in none.                        *)
(***************************************************************************)
THEOREM RulesArePlacedOnce == PreparationSpec => []PlacedOnce
<1>1. TokenInv /\ ListsInv => PlacedOnce
  <2> SUFFICES ASSUME TokenInv, ListsInv, phase = "done", NEW r \in Rules
               PROVE  IF /\ all_rules[r].type # "CORRELATION"
                         /\ all_rules[r].sensor_id \in ToSet(sensor_ids)
                      THEN \E k \in Rules :
                              Places(r) = {<<token_map[all_rules[r].sensor_id],
                                             all_rules[r].type, k>>}
                      ELSE Places(r) = {}
    BY DEF PlacedOnce
  <2> DEFINE ty == all_rules[r].type
             tk == sensor_token_idx[r]
  <2>1. ty \in RuleType /\ tk = TokenOf(all_rules[r]) /\ Known = ToSet(sensor_ids)
    BY DEF ListsInv, IsRuleList, Rules, TokenInv, InverseInv
  <2>2. ASSUME NEW t \in Tokens, NEW type \in SensorTypes,
               NEW k \in 1 .. Len(BoundTo(t, type)), IsAt(r, t, type, k)
        PROVE  type = ty /\ t = tk
    <3>1. IsRuleList(all_rules) /\ TypeLists /\ type \in RuleType
      BY DEF ListsInv, SensorTypes, RuleType
    <3>2. EachOnce(BoundTo(t, type), {x \in RulesOf(type) : sensor_token_idx[x] = t})
      BY <3>1, BoundFacts
    <3>3. r \in {x \in RulesOf(type) : sensor_token_idx[x] = t}
      BY <2>2, <3>2 DEF EachOnce, IsAt
    <3> QED
      BY <3>3 DEF RulesOf
  <2>3. CASE ty # "CORRELATION" /\ all_rules[r].sensor_id \in ToSet(sensor_ids)
    <3>1. tk = token_map[all_rules[r].sensor_id] /\ tk \in Tokens
      BY <2>1, <2>3 DEF TokenOf, TokenInv, TokensInv
    <3>2. ty \in SensorTypes
      BY <2>1, <2>3 DEF RuleType, SensorTypes
    <3>3. IsRuleList(all_rules) /\ TypeLists
      BY DEF ListsInv
    <3>4. /\ EachOnce(BoundTo(tk, ty), {x \in RulesOf(ty) : sensor_token_idx[x] = tk})
          /\ Len(BoundTo(tk, ty)) \in 0 .. Len(all_rules)
      BY <2>1, <3>3, BoundFacts
    <3>5. r \in {x \in RulesOf(ty) : sensor_token_idx[x] = tk}
      BY DEF RulesOf
    <3>6. PICK k \in 1 .. Len(BoundTo(tk, ty)) : BoundTo(tk, ty)[k] = r
      BY <3>4, <3>5 DEF EachOnce
    <3>7. <<tk, ty, k>> \in Places(r)
      BY <3>1, <3>2, <3>6, PlacesAreBound DEF IsAt
    <3>8. ASSUME NEW p \in Places(r) PROVE p = <<tk, ty, k>>
      <4>1. PICK t \in Tokens, type \in SensorTypes :
               \E m \in 1 .. Len(BoundTo(t, type)) : IsAt(r, t, type, m) /\ p = <<t, type, m>>
        BY PlacesAreBound
      <4>2. PICK m \in 1 .. Len(BoundTo(t, type)) : IsAt(r, t, type, m) /\ p = <<t, type, m>>
        BY <4>1
      <4>3. type = ty /\ t = tk
        BY <2>2, <4>2
      <4>4. m \in 1 .. Len(BoundTo(tk, ty)) /\ BoundTo(tk, ty)[m] = r
        BY <4>2, <4>3 DEF IsAt
      <4>5. m = k
        BY <3>4, <3>6, <4>4 DEF EachOnce
      <4> QED
        BY <4>2, <4>3, <4>5
    <3>9. k \in Rules
      <4>1. Len(all_rules) \in Nat
        BY <3>3 DEF IsRuleList
      <4> DEFINE n == Len(BoundTo(tk, ty))
                 m == Len(all_rules)
      <4>2. n \in 0 .. m /\ k \in 1 .. n /\ m \in Nat
        BY <3>4, <3>6, <4>1
      <4> HIDE DEF n, m
      <4>3. k \in 1 .. m
        BY <4>2
      <4> QED
        BY <4>3 DEF Rules, m
    <3>10. Places(r) = {<<tk, ty, k>>}
      BY <3>7, <3>8
    <3> QED
      BY <2>3, <3>1, <3>9, <3>10
  <2>4. CASE ~ (ty # "CORRELATION" /\ all_rules[r].sensor_id \in ToSet(sensor_ids))
    <3>1. tk = -1
      BY <2>1, <2>4 DEF TokenOf
    <3>2. tk \notin Tokens
      BY <3>1 DEF Tokens
    <3>3. Places(r) = {}
      BY <2>2, <3>2, PlacesAreBound
    <3> QED
      BY <2>4, <3>3
  <2> QED
    BY <2>3, <2>4
<1> QED
  BY <1>1, TokenInvariant, ListsInvariant, PTL
-----------------------------------------------------------------------------
(* The loaders: Configuration. *)

(* The sensors and the rules read so far; no rules are handed on before    *)
(* all of them are read.                                                   *)
LoadInv ==
    /\ IsSequence(sensor_ids)
    /\ IsRuleList(rules)
    /\ phase \in {"yaml", "sensors", "json", "rules"} => all_rules = << >>

LEMMA AppendedSequence ==
    ASSUME NEW seq, IsSequence(seq), NEW x
    PROVE  /\ IsSequence(Append(seq, x)) /\ IsSequence(seq \o <<x>>)
           /\ Len(Append(seq, x)) = Len(seq) + 1
           /\ \A n \in 1 .. Len(seq) : Append(seq, x)[n] = seq[n]
           /\ Append(seq, x)[Len(seq) + 1] = x
<1> DEFINE S == {seq[n] : n \in 1 .. Len(seq)} \cup {x}
<1>1. seq \in Seq(S) /\ <<x>> \in Seq(S) /\ Len(<<x>>) = 1 /\ x \in S
  BY DEF IsSequence
<1> HIDE DEF S
<1>2. Append(seq, x) \in Seq(S) /\ seq \o <<x>> \in Seq(S)
  BY <1>1
<1>3. \A s \in Seq(S) : IsSequence(s)
  BY DEF IsSequence
<1>4. /\ Len(Append(seq, x)) = Len(seq) + 1 /\ Append(seq, x)[Len(seq) + 1] = x
      /\ \A n \in 1 .. Len(seq) : Append(seq, x)[n] = seq[n]
  BY <1>1
<1>5. IsSequence(Append(seq, x)) /\ IsSequence(seq \o <<x>>)
  BY <1>2, <1>3
<1> QED
  BY <1>4, <1>5

(* A line lists a sensor or none. *)
LEMMA SensorsRead ==
    ASSUME NEW line, IsSequence(sensor_ids)
    PROVE  IsSequence(sensor_ids \o SensorOn(line))
<1>1. SensorOn(line) = << >> \/ \E id : SensorOn(line) = <<id>>
  BY DEF SensorOn
<1>2. sensor_ids \o << >> = sensor_ids
  BY DEF IsSequence
<1> QED
  BY <1>1, <1>2, AppendedSequence

(* rules_engine.hpp, load_rules: what is not one of the types throws.      *)
LEMMA RuleRead ==
    ASSUME IsRuleList(rules), NEW elem, Acceptable(elem), NEW consecutive
    PROVE  IsRuleList(Append(rules, RuleOf(elem, consecutive)))
<1>1. RuleOf(elem, consecutive).type \in RuleType
  BY DEF Acceptable, RuleOf, string_to_ruletype, RuleType
<1> DEFINE r == RuleOf(elem, consecutive)
<1> HIDE DEF r
<1>2. IsSequence(rules) /\ Len(rules) \in Nat /\ \A n \in 1 .. Len(rules) : rules[n].type \in RuleType
  BY DEF IsRuleList, IsSequence
<1> DEFINE s == Append(rules, r)
<1>3. /\ IsSequence(s) /\ Len(s) = Len(rules) + 1 /\ s[Len(rules) + 1] = r
      /\ \A n \in 1 .. Len(rules) : s[n] = rules[n]
  BY <1>2, AppendedSequence
<1>4. r.type \in RuleType
  BY <1>1 DEF r
<1> HIDE DEF s
<1>5. \A n \in 1 .. Len(s) : s[n].type \in RuleType
  BY <1>2, <1>3, <1>4
<1>6. IsRuleList(s)
  BY <1>3, <1>5 DEF IsRuleList
<1> QED
  BY <1>6 DEF s, r

(* Every step of a loader is a Loading of PreparationSpec.                 *)
LEMMA LoadStep ==
    ASSUME LoadInv, Load
    PROVE  Loading /\ LoadInv'
<1>1. UNCHANGED preparationVars
  BY DEF Load, ReadLine, EndYaml, ParseStep, EndJson, LoadRule, ReturnRules, FailRules
<1>2. CASE ReadLine
  <2>1. /\ phase = "yaml" /\ phase' = "yaml" /\ UNCHANGED <<all_rules, rules>>
        /\ sensor_ids' = sensor_ids \o SensorOn(yaml[next_line])
    BY <1>2 DEF ReadLine
  <2>2. IsSequence(sensor_ids')
    BY <2>1, SensorsRead DEF LoadInv
  <2> QED
    BY <1>1, <2>1, <2>2 DEF Loading, LoadInv
<1>3. CASE EndYaml
  <2>1. /\ phase = "yaml" /\ phase' = "sensors"
        /\ UNCHANGED <<sensor_ids, all_rules, rules>>
    BY <1>3 DEF EndYaml
  <2> QED
    BY <1>1, <2>1 DEF Loading, LoadInv
<1>4. CASE ParseStep \/ EndJson \/ FailRules
  <2>1. /\ phase \in {"json", "rules"} /\ phase' \in {"json", "rules", "failed"}
        /\ UNCHANGED <<sensor_ids, all_rules, rules>>
    BY <1>4 DEF ParseStep, EndJson, FailRules, MoreRules
  <2>2. IsRuleList(all_rules')
    BY <2>1, EmptySequence DEF LoadInv
  <2> QED
    BY <1>1, <2>1, <2>2 DEF Loading, LoadInv
<1>5. CASE LoadRule
  <2>1. /\ phase = "rules" /\ phase' = "rules" /\ UNCHANGED <<sensor_ids, all_rules>>
        /\ Acceptable(Element)
        /\ \E consecutive : rules' = Append(rules, RuleOf(Element, consecutive))
    BY <1>5 DEF LoadRule, MoreRules
  <2>2. IsRuleList(rules')
    BY <2>1, RuleRead DEF LoadInv
  <2>3. IsRuleList(all_rules')
    BY <2>1, EmptySequence DEF LoadInv
  <2> QED
    BY <1>1, <2>1, <2>2, <2>3 DEF Loading, LoadInv
<1>6. CASE ReturnRules
  <2>1. /\ phase = "rules" /\ phase' = "bind" /\ UNCHANGED <<sensor_ids, rules>>
        /\ all_rules' = rules
    BY <1>6 DEF ReturnRules
  <2> QED
    BY <1>1, <2>1 DEF Loading, LoadInv
<1> QED
  BY <1>2, <1>3, <1>4, <1>5, <1>6 DEF Load

LEMMA PrepareKeepsLoaded == LoadInv /\ PrepareStep => LoadInv'
<1> SUFFICES ASSUME LoadInv, PrepareStep
             PROVE  LoadInv'
  OBVIOUS
<1>1. /\ UNCHANGED <<sensor_ids, all_rules, rules>>
      /\ phase' \in {"yaml", "sensors", "json", "rules"}
            => phase \in {"yaml", "sensors", "json", "rules"}
  BY DEF PrepareStep, Prepare, InternSensor, EndSensors, assign_sensor_tokens,
         SortRules, DealRules
<1> QED
  BY <1>1 DEF LoadInv

(***************************************************************************)
(* main.cpp, from the two files to prepare_rules: whatever the files hold, *)
(* the loaders do to the start-up what PreparationSpec leaves open to      *)
(* them, and nothing else: no sensor is added once tokens are given out,   *)
(* no rule is bound before the last is read, none has another type, and    *)
(* after an exception nothing is prepared.                                 *)
(***************************************************************************)
THEOREM LoadersImplementPreparation == Spec => ImplementsPreparation
<1>1. Init => LoadInv /\ StartUpInit
  BY EmptySequence DEF Init, LoadInv, StartUpInit
<1>2. LoadInv /\ [Next]_vars => LoadInv' /\ [Loading \/ Prepare]_startUpVars
  <2> SUFFICES ASSUME LoadInv, [Next]_vars
               PROVE  LoadInv' /\ [Loading \/ Prepare]_startUpVars
    OBVIOUS
  <2>1. CASE Load
    BY <2>1, LoadStep
  <2>2. CASE PrepareStep
    BY <2>2, PrepareKeepsLoaded DEF PrepareStep
  <2>3. CASE Done \/ UNCHANGED vars
    <3>1. UNCHANGED startUpVars /\ UNCHANGED rules
      BY <2>3 DEF Done, vars, startUpVars
    <3> QED
      BY <3>1 DEF LoadInv, startUpVars
  <2> QED
    BY <2>1, <2>2, <2>3 DEF Next
<1> QED
  BY <1>1, <1>2, PTL DEF Spec, ImplementsPreparation, PreparationSpec

(***************************************************************************)
(* So, for any two files: the tokens agree, each rule of the file is       *)
(* placed once, where it belongs, has a counter of its own, and comes      *)
(* before those of lower priority.                                         *)
(***************************************************************************)
THEOREM FilesArePrepared ==
    Spec => [](TokensAgree /\ PlacedOnce /\ CounterPerRule /\ HigherFirst)
BY LoadersImplementPreparation, TokensOfTheFile, RulesArePlacedOnce,
   CountersOfTheSensor, PriorityAtTheSensor, PTL DEF ImplementsPreparation

-----------------------------------------------------------------------------
(* JsonLanguage: the meanings exist, and what they are. *)

Size(p) == IF p[2] > p[3] THEN 0 ELSE p[3] - p[2] + 1

LEMMA ElementsAreLocal ==
    ASSUME NEW text, NEW M, NEW N, NEW kind \in Kinds, NEW a \in Nat, NEW c \in Nat,
           \A q \in Parts : Size(q) <= Size(<<"value", a, c>>) => M[q] = N[q]
    PROVE  ElementMeanings(text, M, kind, a, c) = ElementMeanings(text, N, kind, a, c)
<1>1. CASE kind = "array"
  <2>1. <<"value", a, c>> \in Parts /\ Size(<<"value", a, c>>) \in Nat
    BY DEF Parts, Size
  <2>2. M[<<"value", a, c>>] = N[<<"value", a, c>>]
    BY <2>1
  <2> QED
    BY <1>1, <2>2 DEF ElementMeanings
<1>2. CASE kind # "array" /\ a + 1 < c
  <2>1. <<"value", a + 2, c>> \in Parts
    BY DEF Parts
  <2>2. Size(<<"value", a + 2, c>>) <= Size(<<"value", a, c>>)
    BY DEF Size
  <2>3. M[<<"value", a + 2, c>>] = N[<<"value", a + 2, c>>]
    BY <2>1, <2>2
  <2> QED
    BY <1>2, <2>3, Zenon DEF ElementMeanings
<1>3. CASE kind # "array" /\ ~ (a + 1 < c)
  BY <1>3, Zenon DEF ElementMeanings
<1> QED
  BY <1>1, <1>2, <1>3

LEMMA ListsAreLocal ==
    ASSUME NEW text, NEW M, NEW N, NEW kind \in Kinds, NEW a \in Nat, NEW c \in Nat,
           a <= c,
           \A q \in Parts : Size(q) <= c - a => M[q] = N[q]
    PROVE  ListMeanings(text, M, kind, a, c) = ListMeanings(text, N, kind, a, c)
<1> DEFINE E(F, n) == ElementMeanings(text, F, kind, n + 1, c)
           I(F, n) == UNION {{Append(list, element) : list \in F[<<kind, a, n>>]} :
                                element \in E(F, n)}
<1>1. ASSUME NEW n \in a .. (c - 1)
      PROVE  I(M, n) = I(N, n)
  <2>1. <<kind, a, n>> \in Parts /\ Size(<<kind, a, n>>) <= c - a
    BY DEF Parts, Size
  <2>2. n + 1 \in Nat /\ Size(<<"value", n + 1, c>>) <= c - a
        /\ \A q \in Parts : Size(q) \in Nat
    BY DEF Size, Parts
  <2>3. E(M, n) = E(N, n)
    <3>1. \A q \in Parts : Size(q) <= Size(<<"value", n + 1, c>>) => M[q] = N[q]
      BY <2>2 DEF Size
    <3> QED
      BY <2>2, <3>1, ElementsAreLocal
  <2>4. M[<<kind, a, n>>] = N[<<kind, a, n>>]
    BY <2>1
  <2> QED
    BY <2>3, <2>4, Zenon
<1> HIDE DEF I
<1>2. UNION {I(M, n) : n \in a .. (c - 1)} = UNION {I(N, n) : n \in a .. (c - 1)}
  BY <1>1
<1> QED
  BY <1>2, Zenon DEF ListMeanings, I

LEMMA MeaningsAreLocal ==
    ASSUME NEW text, NEW M, NEW N, NEW p \in Parts,
           \A q \in Parts : Size(q) < Size(p) => M[q] = N[q]
    PROVE  MeaningsOf(text, M, p[1], p[2], p[3]) = MeaningsOf(text, N, p[1], p[2], p[3])
<1> DEFINE a == p[2]
           c == p[3]
<1>1. p[1] \in {"value"} \cup Kinds /\ a \in Nat /\ c \in Nat
  BY DEF Parts
<1>2. CASE a > c
  BY <1>2 DEF MeaningsOf
<1>3. CASE a = c
  <2>1. ValueMeanings(text, M, a, c) = ValueMeanings(text, N, a, c)
    BY <1>3, Zenon DEF ValueMeanings
  <2>2. OpenMeanings(text, M, p[1], a, c) = OpenMeanings(text, N, p[1], a, c)
    BY <1>3, Zenon DEF OpenMeanings
  <2> QED
    BY <2>1, <2>2, Zenon DEF MeaningsOf
<1>4. CASE a < c
  <2>1. a # c /\ c - 1 \in Nat /\ a <= c - 1
    BY <1>1, <1>4
  <2>2. \A q \in Parts : Size(q) <= (c - 1) - a => Size(q) < Size(p)
    BY <1>1, <1>4 DEF Size, Parts
  <2>3. \A q \in Parts : Size(q) <= (c - 1) - a => M[q] = N[q]
    BY <2>2
  <2>4. ASSUME NEW kind \in Kinds
        PROVE  ListMeanings(text, M, kind, a, c - 1) = ListMeanings(text, N, kind, a, c - 1)
    <3> HIDE DEF a, c
    <3> QED
      BY <1>1, <2>1, <2>3, ListsAreLocal
  <2>5. CASE p[1] = "value"
    <3> DEFINE K == {k \in Kinds : text[a] = Mark(Opening(k)) /\ text[c] = Mark(Closing(k))}
               I(F, kind) == {<<kind, list>> : list \in IF c = a + 1 THEN {<< >>}
                                     ELSE ListMeanings(text, F, kind, a, c - 1)}
    <3>1. \A kind \in K : I(M, kind) = I(N, kind)
      BY <2>4, Zenon
    <3>2. K \subseteq Kinds
      OBVIOUS
    <3>3. UNION {I(M, kind) : kind \in K} = UNION {I(N, kind) : kind \in K}
      <4> HIDE DEF I, K
      <4> QED
        BY <3>1
    <3>4. ValueMeanings(text, M, a, c) = ValueMeanings(text, N, a, c)
      BY <2>1, <3>3, Zenon DEF ValueMeanings
    <3> QED
      BY <2>5, <3>4, Zenon DEF MeaningsOf
  <2>6. CASE p[1] \in Kinds
    <3>1. OpenMeanings(text, M, p[1], a, c) = OpenMeanings(text, N, p[1], a, c)
      BY <2>1, <2>4, <2>6, Zenon DEF OpenMeanings
    <3>2. p[1] # "value"
      BY <2>6 DEF Kinds
    <3> QED
      BY <3>1, <3>2, Zenon DEF MeaningsOf
  <2> QED
    BY <1>1, <2>5, <2>6
<1> QED
  BY <1>1, <1>2, <1>3, <1>4

(* What gives every part shorter than n its meanings, and all that do agree. *)
GivesMeanings(text, M, n) ==
    \A p \in Parts : Size(p) < n => M[p] = MeaningsOf(text, M, p[1], p[2], p[3])

LEMMA SizeIsNatural == \A p \in Parts : Size(p) \in Nat
BY DEF Parts, Size

LEMMA MeaningsAgree ==
    ASSUME NEW text
    PROVE  \A n \in Nat : \A M, N : GivesMeanings(text, M, n) /\ GivesMeanings(text, N, n) =>
               \A p \in Parts : Size(p) < n => M[p] = N[p]
<1> DEFINE Agree(n) ==
        \A M, N : GivesMeanings(text, M, n) /\ GivesMeanings(text, N, n) =>
            \A p \in Parts : Size(p) < n => M[p] = N[p]
           P == {n \in Nat : Agree(n)}
<1>1. Agree(0)
  BY SizeIsNatural
<1>2. ASSUME NEW n \in Nat, Agree(n)
      PROVE  Agree(n + 1)
  <2> SUFFICES ASSUME NEW M, NEW N, GivesMeanings(text, M, n + 1),
                      GivesMeanings(text, N, n + 1), NEW p \in Parts, Size(p) < n + 1
               PROVE  M[p] = N[p]
    OBVIOUS
  <2>1. GivesMeanings(text, M, n) /\ GivesMeanings(text, N, n)
    BY SizeIsNatural DEF GivesMeanings
  <2>2. \A q \in Parts : Size(q) < n => M[q] = N[q]
    BY <1>2, <2>1
  <2>3. \A q \in Parts : Size(q) < Size(p) => M[q] = N[q]
    BY <2>2, SizeIsNatural
  <2>4. MeaningsOf(text, M, p[1], p[2], p[3]) = MeaningsOf(text, N, p[1], p[2], p[3])
    BY <2>3, MeaningsAreLocal, Zenon
  <2>5. /\ M[p] = MeaningsOf(text, M, p[1], p[2], p[3])
        /\ N[p] = MeaningsOf(text, N, p[1], p[2], p[3])
    BY Zenon DEF GivesMeanings
  <2> QED
    BY <2>4, <2>5, Zenon
<1> HIDE DEF Agree
<1>3. 0 \in P /\ \A n \in Nat : n \in P => n + 1 \in P
  BY <1>1, <1>2
<1> HIDE DEF P
<1>4. \A n \in Nat : n \in P
  BY <1>3, Induction
<1> QED
  BY <1>4 DEF P, Agree

LEMMA MeaningsExist ==
    ASSUME NEW text
    PROVE  \A n \in Nat : \E M : GivesMeanings(text, M, n)
<1> DEFINE Exist(n) == \E M : GivesMeanings(text, M, n)
           P == {n \in Nat : Exist(n)}
<1>1. Exist(0)
  BY SizeIsNatural DEF GivesMeanings
<1>2. ASSUME NEW n \in Nat, Exist(n)
      PROVE  Exist(n + 1)
  <2>1. PICK M : GivesMeanings(text, M, n)
    BY <1>2
  <2> DEFINE N == [p \in Parts |-> IF Size(p) < n THEN M[p]
                                   ELSE MeaningsOf(text, M, p[1], p[2], p[3])]
  <2>2. ASSUME NEW p \in Parts
        PROVE  \/ N[p] = MeaningsOf(text, M, p[1], p[2], p[3])
               \/ Size(p) < n /\ N[p] = M[p]
    <3>1. N[p] = IF Size(p) < n THEN M[p] ELSE MeaningsOf(text, M, p[1], p[2], p[3])
      BY Zenon
    <3> HIDE DEF N
    <3> QED
      BY <3>1, Zenon
  <2>3. ASSUME NEW p \in Parts, Size(p) < n
        PROVE  N[p] = M[p]
    BY <2>3
  <2> HIDE DEF N
  <2>4. ASSUME NEW p \in Parts
        PROVE  N[p] = MeaningsOf(text, M, p[1], p[2], p[3])
    BY <2>1, <2>2, Zenon DEF GivesMeanings
  <2>5. ASSUME NEW p \in Parts, Size(p) < n + 1
        PROVE  N[p] = MeaningsOf(text, N, p[1], p[2], p[3])
    <3>1. \A q \in Parts : Size(q) < Size(p) => M[q] = N[q]
      BY <2>3, <2>5, SizeIsNatural
    <3>2. MeaningsOf(text, M, p[1], p[2], p[3]) = MeaningsOf(text, N, p[1], p[2], p[3])
      BY <3>1, MeaningsAreLocal, Zenon
    <3> QED
      BY <2>4, <3>2, Zenon
  <2> QED
    BY <2>5, Zenon DEF GivesMeanings
<1> HIDE DEF Exist
<1>3. 0 \in P /\ \A n \in Nat : n \in P => n + 1 \in P
  BY <1>1, <1>2
<1> HIDE DEF P
<1>4. \A n \in Nat : n \in P
  BY <1>3, Induction
<1> QED
  BY <1>4 DEF P, Exist

(***************************************************************************)
(* The recursive function is defined: its equation holds.                  *)
(***************************************************************************)
LEMMA MeaningsEquation ==
    ASSUME NEW text, NEW p \in Parts
    PROVE  Meanings(text)[p] = MeaningsOf(text, Meanings(text), p[1], p[2], p[3])
<1> DEFINE Until(n) == CHOOSE M : GivesMeanings(text, M, n)
           N == [q \in Parts |-> Until(Size(q) + 1)[q]]
           IsFixed(M) == M = [q \in Parts |-> MeaningsOf(text, M, q[1], q[2], q[3])]
<1>1. \A n \in Nat : GivesMeanings(text, Until(n), n)
  BY MeaningsExist
<1> HIDE DEF Until
<1>2. ASSUME NEW q \in Parts
      PROVE  N[q] = MeaningsOf(text, N, q[1], q[2], q[3])
  <2> DEFINE n == Size(q) + 1
             M == Until(n)
  <2>1. n \in Nat /\ Size(q) < n
    BY SizeIsNatural
  <2>2. GivesMeanings(text, M, n)
    BY <1>1, <2>1
  <2>3. ASSUME NEW r \in Parts, Size(r) < Size(q)
        PROVE  M[r] = N[r]
    <3> DEFINE m == Size(r) + 1
    <3>1. m \in Nat /\ Size(r) < m /\ \A t \in Parts : Size(t) < m => Size(t) < n
      BY <2>3, SizeIsNatural
    <3>2. GivesMeanings(text, Until(m), m)
      BY <1>1, <3>1
    <3>3. N[r] = Until(m)[r]
      OBVIOUS
    <3> HIDE DEF n, m, M, N
    <3>4. GivesMeanings(text, M, m)
      BY <2>2, <3>1, Zenon DEF GivesMeanings
    <3> QED
      BY <3>1, <3>2, <3>3, <3>4, MeaningsAgree
  <2>4. MeaningsOf(text, M, q[1], q[2], q[3]) = MeaningsOf(text, N, q[1], q[2], q[3])
    <3> HIDE DEF M, N
    <3> QED
      BY <2>3, MeaningsAreLocal, Zenon
  <2>5. N[q] = M[q]
    OBVIOUS
  <2>6. M[q] = MeaningsOf(text, M, q[1], q[2], q[3])
    <3> HIDE DEF n, M
    <3> QED
      BY <2>1, <2>2, Zenon DEF GivesMeanings
  <2> HIDE DEF M, N
  <2> QED
    BY <2>4, <2>5, <2>6, Zenon
<1>3. IsFixed(N)
  <2>1. N = [q \in Parts |-> N[q]]
    OBVIOUS
  <2> HIDE DEF N
  <2> QED
    BY <1>2, <2>1
<1>4. Meanings(text) = CHOOSE M : IsFixed(M)
  BY Zenon DEF Meanings
<1> HIDE DEF IsFixed
<1>5. IsFixed(Meanings(text))
  BY <1>3, <1>4, Zenon
<1> QED
  BY <1>5 DEF IsFixed

(* What the tokens of s from a to c mean, by the name of each part. *)
ValuesAt(s, a, c) == Meanings(s)[<<"value", a, c>>]

OpenAt(s, kind, a, c) == Meanings(s)[<<kind, a, c>>]

ListsAt(s, kind, a, c) == ListMeanings(s, Meanings(s), kind, a, c)

Comma == Mark(",")

Colon == Mark(":")

Opens(kind) == Mark(Opening(kind))

Closes(kind) == Mark(Closing(kind))

(* An element of an array or object, from its value and its key. *)
Item(kind, key, v) == IF kind = "object" THEN [key |-> key, value |-> v] ELSE v

(* The value of an element that begins at b begins at c. *)
KeyAt(s, kind, key, b, c) ==
    IF kind = "object"
    THEN c = b + 2 /\ b + 1 <= Len(s) /\ s[b][1] = "string" /\ s[b][2] = key /\ s[b + 1] = Colon
    ELSE c = b

LEMMA ValueAt ==
    ASSUME NEW s, Len(s) \in Nat, NEW a \in 1 .. Len(s), NEW c \in a .. Len(s)
    PROVE  ValuesAt(s, a, c) = ValueMeanings(s, Meanings(s), a, c)
<1> DEFINE p == <<"value", a, c>>
<1>1. p \in Parts /\ p[1] = "value" /\ p[2] = a /\ p[3] = c
  BY DEF Parts
<1>2. ~ (a = 0 \/ a > c \/ c > Len(s))
  OBVIOUS
<1>3. Meanings(s)[p] = MeaningsOf(s, Meanings(s), p[1], p[2], p[3])
  BY <1>1, MeaningsEquation, Zenon
<1> QED
  BY <1>1, <1>2, <1>3, Zenon DEF MeaningsOf, ValuesAt

LEMMA OpenedAt ==
    ASSUME NEW s, Len(s) \in Nat, NEW kind \in Kinds, NEW a \in 1 .. Len(s),
           NEW c \in a .. Len(s)
    PROVE  OpenAt(s, kind, a, c) = OpenMeanings(s, Meanings(s), kind, a, c)
<1> DEFINE p == <<kind, a, c>>
<1>1. p \in Parts /\ p[1] = kind /\ p[2] = a /\ p[3] = c /\ kind # "value"
  BY DEF Parts, Kinds
<1>2. ~ (a = 0 \/ a > c \/ c > Len(s))
  OBVIOUS
<1>3. Meanings(s)[p] = MeaningsOf(s, Meanings(s), p[1], p[2], p[3])
  BY <1>1, MeaningsEquation, Zenon
<1> QED
  BY <1>1, <1>2, <1>3, Zenon DEF MeaningsOf, OpenAt

(* A scalar. *)
LEMMA ScalarAt ==
    ASSUME NEW s, Len(s) \in Nat, NEW a \in 1 .. Len(s), NEW v
    PROVE  v \in ValuesAt(s, a, a) <=> s[a] \in Scalars /\ v = Scalar(s[a])
<1>1. ValuesAt(s, a, a) = ValueMeanings(s, Meanings(s), a, a)
  BY ValueAt
<1> QED
  BY <1>1, Zenon DEF ValueMeanings

(* An array or object. *)
LEMMA BracketsAt ==
    ASSUME NEW s, Len(s) \in Nat, NEW a \in 1 .. Len(s), NEW c \in a .. Len(s), a # c, NEW v
    PROVE  v \in ValuesAt(s, a, c) <=>
               \E kind, list :
                  /\ kind \in Kinds /\ v = <<kind, list>>
                  /\ s[a] = Opens(kind) /\ s[c] = Closes(kind)
                  /\ IF c = a + 1 THEN list = << >> ELSE list \in ListsAt(s, kind, a, c - 1)
<1> DEFINE L(kind) == IF c = a + 1 THEN {<< >>} ELSE ListsAt(s, kind, a, c - 1)
<1>1. ValuesAt(s, a, c) =
        UNION {{<<kind, list>> : list \in L(kind)} :
                  kind \in {k \in Kinds : s[a] = Opens(k) /\ s[c] = Closes(k)}}
  <2>1. ValuesAt(s, a, c) = ValueMeanings(s, Meanings(s), a, c)
    BY ValueAt
  <2> QED
    BY <2>1, Zenon DEF ValueMeanings, ListsAt, Opens, Closes
<1>2. ASSUME NEW kind, NEW list
      PROVE  list \in L(kind) <=>
                IF c = a + 1 THEN list = << >> ELSE list \in ListsAt(s, kind, a, c - 1)
  BY Zenon
<1> HIDE DEF L
<1>3. v \in ValuesAt(s, a, c) <=>
        \E kind, list : /\ kind \in Kinds /\ v = <<kind, list>>
                        /\ s[a] = Opens(kind) /\ s[c] = Closes(kind)
                        /\ list \in L(kind)
  BY <1>1
<1> QED
  BY <1>2, <1>3

(* An array or object before its first element, and before another. *)
LEMMA BareAt ==
    ASSUME NEW s, Len(s) \in Nat, NEW kind \in Kinds, NEW a \in 1 .. Len(s), NEW list
    PROVE  list \in OpenAt(s, kind, a, a) <=> s[a] = Opens(kind) /\ list = << >>
<1>1. OpenAt(s, kind, a, a) = OpenMeanings(s, Meanings(s), kind, a, a)
  BY OpenedAt
<1> QED
  BY <1>1, Zenon DEF OpenMeanings, Opens

LEMMA CommaAt ==
    ASSUME NEW s, Len(s) \in Nat, NEW kind \in Kinds, NEW a \in 1 .. Len(s),
           NEW c \in a .. Len(s), a # c, NEW list
    PROVE  list \in OpenAt(s, kind, a, c) <=> s[c] = Comma /\ list \in ListsAt(s, kind, a, c - 1)
<1>1. OpenAt(s, kind, a, c) = OpenMeanings(s, Meanings(s), kind, a, c)
  BY OpenedAt
<1> QED
  BY <1>1, Zenon DEF OpenMeanings, ListsAt, Comma

(* An element. *)
LEMMA ElementAt ==
    ASSUME NEW s, Len(s) \in Nat, NEW kind \in Kinds, NEW a \in 1 .. Len(s),
           NEW c \in a .. Len(s), NEW e
    PROVE  e \in ElementMeanings(s, Meanings(s), kind, a, c) <=>
               \E key, b, v : /\ KeyAt(s, kind, key, a, b) /\ b \in a .. c
                              /\ v \in ValuesAt(s, b, c)
                              /\ e = Item(kind, key, v)
<1>1. CASE kind = "array"
  <2>1. kind # "object" /\ a \in a .. c
    BY <1>1
  <2>2. ElementMeanings(s, Meanings(s), kind, a, c) = ValuesAt(s, a, c)
    BY <1>1, Zenon DEF ElementMeanings, ValuesAt
  <2> QED
    BY <2>1, <2>2, Zenon DEF KeyAt, Item
<1>2. CASE kind = "object"
  <2> DEFINE ok == a + 1 < c /\ s[a][1] = "string" /\ s[a + 1] = Colon
  <2>1. kind # "array"
    BY <1>2
  <2>2. ElementMeanings(s, Meanings(s), kind, a, c) =
          IF ok THEN {[key |-> s[a][2], value |-> v] : v \in ValuesAt(s, a + 2, c)} ELSE {}
    BY <2>1, Zenon DEF ElementMeanings, ValuesAt, Colon
  <2>3. ASSUME NEW key, NEW b
        PROVE  KeyAt(s, kind, key, a, b) /\ b \in a .. c <=>
                  ok /\ key = s[a][2] /\ b = a + 2
    <3>1. a + 2 \in a .. c <=> a + 1 < c
      OBVIOUS
    <3>2. a + 1 < c => a + 1 <= Len(s)
      OBVIOUS
    <3> QED
      BY <1>2, <3>1, <3>2, Zenon DEF KeyAt
  <2> HIDE DEF ok
  <2>4. ASSUME NEW key, NEW v
        PROVE  Item(kind, key, v) = [key |-> key, value |-> v]
    BY <1>2 DEF Item
  <2>5. e \in ElementMeanings(s, Meanings(s), kind, a, c) <=>
          ok /\ \E v \in ValuesAt(s, a + 2, c) : e = [key |-> s[a][2], value |-> v]
    BY <2>2, Zenon
  <2>6. ASSUME e \in ElementMeanings(s, Meanings(s), kind, a, c)
        PROVE  \E key, b, v : /\ KeyAt(s, kind, key, a, b) /\ b \in a .. c
                              /\ v \in ValuesAt(s, b, c)
                              /\ e = Item(kind, key, v)
    <3>1. PICK v \in ValuesAt(s, a + 2, c) : e = [key |-> s[a][2], value |-> v]
      BY <2>5, <2>6, Zenon
    <3>2. KeyAt(s, kind, s[a][2], a, a + 2) /\ a + 2 \in a .. c
      BY <2>3, <2>5, <2>6, Zenon
    <3> QED
      BY <2>4, <3>1, <3>2, Zenon
  <2>7. ASSUME NEW key, NEW b, NEW v, KeyAt(s, kind, key, a, b), b \in a .. c,
               v \in ValuesAt(s, b, c), e = Item(kind, key, v)
        PROVE  e \in ElementMeanings(s, Meanings(s), kind, a, c)
    <3>1. ok /\ key = s[a][2] /\ b = a + 2
      BY <2>3, <2>7, Zenon
    <3>2. v \in ValuesAt(s, a + 2, c)
      BY <2>7, <3>1, Zenon
    <3>3. e = [key |-> s[a][2], value |-> v]
      BY <2>4, <2>7, <3>1, Zenon
    <3> QED
      BY <2>5, <3>1, <3>2, <3>3, Zenon
  <2> QED
    BY <2>6, <2>7
<1> QED
  BY <1>1, <1>2 DEF Kinds

(* Elements up to n, and one more until c. *)
AnotherAt(s, kind, a, n, before, key, b, v, c) ==
    /\ n \in a .. (c - 1) /\ before \in OpenAt(s, kind, a, n)
    /\ KeyAt(s, kind, key, n + 1, b) /\ b \in (n + 1) .. c
    /\ v \in ValuesAt(s, b, c)

LEMMA ListAt ==
    ASSUME NEW s, Len(s) \in Nat, NEW kind \in Kinds, NEW a \in 1 .. Len(s),
           NEW c \in a .. Len(s), NEW list
    PROVE  list \in ListsAt(s, kind, a, c) <=>
               \E n, before, key, b, v :
                  /\ AnotherAt(s, kind, a, n, before, key, b, v, c)
                  /\ list = Append(before, Item(kind, key, v))
<1> DEFINE E(n) == ElementMeanings(s, Meanings(s), kind, n + 1, c)
<1>1. ListsAt(s, kind, a, c) =
        UNION {UNION {{Append(before, e) : before \in OpenAt(s, kind, a, n)} : e \in E(n)} :
                  n \in a .. (c - 1)}
  BY Zenon DEF ListsAt, ListMeanings, OpenAt
<1>2. ASSUME NEW n \in a .. (c - 1), NEW e
      PROVE  e \in E(n) <=>
               \E key, b, v : /\ KeyAt(s, kind, key, n + 1, b) /\ b \in (n + 1) .. c
                              /\ v \in ValuesAt(s, b, c)
                              /\ e = Item(kind, key, v)
  <2> DEFINE m == n + 1
  <2>1. m \in 1 .. Len(s) /\ c \in m .. Len(s)
    OBVIOUS
  <2> HIDE DEF m
  <2>2. e \in ElementMeanings(s, Meanings(s), kind, m, c) <=>
               \E key, b, v : /\ KeyAt(s, kind, key, m, b) /\ b \in m .. c
                              /\ v \in ValuesAt(s, b, c)
                              /\ e = Item(kind, key, v)
    BY <2>1, ElementAt
  <2> QED
    BY <2>2, Zenon DEF m
<1> HIDE DEF E
<1>3. list \in ListsAt(s, kind, a, c) <=>
        \E n \in a .. (c - 1) : \E e \in E(n) : \E before \in OpenAt(s, kind, a, n) :
            list = Append(before, e)
  BY <1>1
<1>4. ASSUME list \in ListsAt(s, kind, a, c)
      PROVE  \E n, before, key, b, v :
                  /\ AnotherAt(s, kind, a, n, before, key, b, v, c)
                  /\ list = Append(before, Item(kind, key, v))
  <2>1. PICK n \in a .. (c - 1) : \E e \in E(n) : \E before \in OpenAt(s, kind, a, n) :
            list = Append(before, e)
    BY <1>3, <1>4, Zenon
  <2>2. PICK e \in E(n) : \E before \in OpenAt(s, kind, a, n) : list = Append(before, e)
    BY <2>1
  <2>3. PICK before \in OpenAt(s, kind, a, n) : list = Append(before, e)
    BY <2>2
  <2>4. PICK key, b, v : /\ KeyAt(s, kind, key, n + 1, b) /\ b \in (n + 1) .. c
                        /\ v \in ValuesAt(s, b, c)
                        /\ e = Item(kind, key, v)
    BY <1>2
  <2>5. AnotherAt(s, kind, a, n, before, key, b, v, c)
    BY <2>4, Zenon DEF AnotherAt
  <2>6. list = Append(before, Item(kind, key, v))
    BY <2>3, <2>4, Zenon
  <2> QED
    BY <2>5, <2>6
<1>5. ASSUME NEW n, NEW before, NEW key, NEW b, NEW v,
             AnotherAt(s, kind, a, n, before, key, b, v, c),
             list = Append(before, Item(kind, key, v))
      PROVE  list \in ListsAt(s, kind, a, c)
  <2>1. n \in a .. (c - 1) /\ before \in OpenAt(s, kind, a, n)
    BY <1>5, Zenon DEF AnotherAt
  <2>2. Item(kind, key, v) \in E(n)
    BY <1>2, <1>5, <2>1, Zenon DEF AnotherAt
  <2> QED
    BY <1>3, <1>5, <2>1, <2>2, Zenon
<1> QED
  BY <1>4, <1>5

-----------------------------------------------------------------------------
(* How the parser goes on from where it is: from its pos, pc, stack and value. *)

After(st) == IF st = << >> THEN "returned" ELSE "next"

Frame(kind, parsed, key) == [kind |-> kind, parsed |-> parsed, key |-> key]

Grown(f, v) == [f EXCEPT !.parsed = Append(@, Item(f.kind, f.key, v))]

OverScalar(s, p, c, st, v, y) ==
    /\ c = "value" /\ p \in 1 .. Len(s) /\ s[p] \in Scalars
    /\ y = <<p + 1, After(st), st, Scalar(s[p])>>

OverOpening(s, p, c, st, v, y, kind) ==
    /\ c = "value" /\ p \in 1 .. (Len(s) - 1) /\ s[p] = Opens(kind)
    /\ y = IF s[p + 1] = Closes(kind)
           THEN <<p + 2, After(st), st, <<kind, << >>>>>>
           ELSE <<p + 1, ElementStart(kind), Append(st, Frame(kind, << >>, "")), v>>

OverKey(s, p, c, st, v, y) ==
    /\ c = "key" /\ p \in 1 .. (Len(s) - 1) /\ s[p][1] = "string" /\ s[p + 1] = Colon
    /\ y = <<p + 2, "value", [st EXCEPT ![Len(st)].key = s[p][2]], v>>

OverComma(s, p, c, st, v, y) ==
    /\ c = "next" /\ p \in 1 .. Len(s) /\ s[p] = Comma
    /\ y = <<p + 1, ElementStart(Last(st).kind),
             [st EXCEPT ![Len(st)] = Grown(Last(st), v)], v>>

OverClosing(s, p, c, st, v, y) ==
    /\ c = "next" /\ p \in 1 .. Len(s) /\ s[p] = Closes(Last(st).kind)
    /\ y = <<p + 1, After(Front(st)), Front(st), <<Last(st).kind, Grown(Last(st), v).parsed>>>>

GoesOn(s, p, c, st, v, y) ==
    \/ OverScalar(s, p, c, st, v, y)
    \/ OverOpening(s, p, c, st, v, y, "array") \/ OverOpening(s, p, c, st, v, y, "object")
    \/ OverKey(s, p, c, st, v, y)
    \/ OverComma(s, p, c, st, v, y) \/ OverClosing(s, p, c, st, v, y)

Moves(s, x, y) == GoesOn(s, x[1], x[2], x[3], x[4], y)

(* The tokens by which it decides are told apart. *)
LEMMA TokensDiffer ==
    /\ \A kind : /\ Opens(kind) \notin Scalars /\ Closes(kind) \notin Scalars
                 /\ Closes(kind)[1] # "string"
                 /\ Comma # Closes(kind)
                 /\ \A k : Opens(kind) # Closes(k)
    /\ Opens("array") # Opens("object")
<1>1. ASSUME NEW c
      PROVE  Mark(c) \notin Scalars /\ Mark(c)[1] # "string"
  BY DEF Mark, Scalars, Literals
<1>2. ASSUME NEW c, NEW d, Mark(c) = Mark(d)
      PROVE  c = d
  <2>1. Mark(c)[2] = c /\ Mark(d)[2] = d
    BY DEF Mark
  <2> QED
    BY <1>2, <2>1
<1>3. ASSUME NEW kind
      PROVE  "," # Closing(kind)
  BY Zenon DEF Closing
<1>4. ASSUME NEW kind
      PROVE  Comma # Closes(kind)
  BY <1>2, <1>3, Zenon DEF Comma, Closes
<1>5. ASSUME NEW kind, NEW k
      PROVE  Opening(kind) # Closing(k)
  BY DEF Opening, Closing
<1>6. Opening("array") # Opening("object")
  BY DEF Opening
<1>7. Opens("array") # Opens("object")
  BY <1>2, <1>6, Zenon DEF Opens
<1>8. \A kind, k : Opens(kind) # Closes(k)
  BY <1>2, <1>5, Zenon DEF Opens, Closes
<1>9. \A kind : /\ Opens(kind) \notin Scalars /\ Closes(kind) \notin Scalars
                /\ Closes(kind)[1] # "string"
  BY <1>1, Zenon DEF Opens, Closes
<1> QED
  BY <1>4, <1>7, <1>8, <1>9, Zenon

(* There is one way on at most. *)
LEMMA OneMove ==
    ASSUME NEW s, NEW x, NEW y, NEW z, Moves(s, x, y), Moves(s, x, z)
    PROVE  y = z
<1> DEFINE p == x[1]
           c == x[2]
           st == x[3]
           v == x[4]
           Waits(u) == c = "key" /\ OverKey(s, p, c, st, v, u)
           Reads(u) == \/ c = "value" /\ s[p] \in Scalars /\ OverScalar(s, p, c, st, v, u)
                       \/ c = "value" /\ s[p] = Opens("array") /\ OverOpening(s, p, c, st, v, u, "array")
                       \/ c = "value" /\ s[p] = Opens("object") /\ OverOpening(s, p, c, st, v, u, "object")
           Ends(u) == \/ c = "next" /\ s[p] = Comma /\ OverComma(s, p, c, st, v, u)
                      \/ c = "next" /\ s[p] = Closes(Last(st).kind) /\ OverClosing(s, p, c, st, v, u)
<1>1. GoesOn(s, p, c, st, v, y) /\ GoesOn(s, p, c, st, v, z)
  BY Zenon DEF Moves
<1> HIDE DEF p, c, st, v
<1>2. ASSUME NEW u, GoesOn(s, p, c, st, v, u)
      PROVE  Waits(u) \/ Reads(u) \/ Ends(u)
  BY <1>2, Zenon DEF GoesOn, OverScalar, OverOpening, OverKey, OverComma, OverClosing
<1>3. ASSUME Waits(y), Waits(z)
      PROVE  y = z
  BY <1>3, Zenon DEF OverKey
<1>4. ASSUME Reads(y), Reads(z)
      PROVE  y = z
  <2>1. /\ s[p] \in Scalars => s[p] # Opens("array") /\ s[p] # Opens("object")
        /\ s[p] = Opens("array") => s[p] # Opens("object")
    BY TokensDiffer, Zenon
  <2>2. CASE s[p] \in Scalars
    <3>1. OverScalar(s, p, c, st, v, y) /\ OverScalar(s, p, c, st, v, z)
      BY <1>4, <2>1, <2>2, Zenon
    <3> QED
      BY <3>1, Zenon DEF OverScalar
  <2>3. CASE s[p] = Opens("array")
    <3>1. OverOpening(s, p, c, st, v, y, "array") /\ OverOpening(s, p, c, st, v, z, "array")
      BY <1>4, <2>1, <2>3, Zenon
    <3> QED
      BY <3>1, Zenon DEF OverOpening
  <2>4. CASE s[p] = Opens("object")
    <3>1. OverOpening(s, p, c, st, v, y, "object") /\ OverOpening(s, p, c, st, v, z, "object")
      BY <1>4, <2>1, <2>4, Zenon
    <3> QED
      BY <3>1, Zenon DEF OverOpening
  <2> QED
    BY <1>4, <2>2, <2>3, <2>4, Zenon
<1>5. ASSUME Ends(y), Ends(z)
      PROVE  y = z
  <2>1. s[p] = Comma => s[p] # Closes(Last(st).kind)
    BY TokensDiffer, Zenon
  <2>2. CASE s[p] = Comma
    <3>1. OverComma(s, p, c, st, v, y) /\ OverComma(s, p, c, st, v, z)
      BY <1>5, <2>1, <2>2, Zenon
    <3> QED
      BY <3>1, Zenon DEF OverComma
  <2>3. CASE s[p] # Comma
    <3>1. OverClosing(s, p, c, st, v, y) /\ OverClosing(s, p, c, st, v, z)
      BY <1>5, <2>3, Zenon
    <3> QED
      BY <3>1, Zenon DEF OverClosing
  <2> QED
    BY <2>2, <2>3
<1>6. /\ ~ (Waits(y) /\ Reads(z)) /\ ~ (Waits(y) /\ Ends(z))
      /\ ~ (Reads(y) /\ Waits(z)) /\ ~ (Reads(y) /\ Ends(z))
      /\ ~ (Ends(y) /\ Waits(z)) /\ ~ (Ends(y) /\ Reads(z))
  <2>1. \A u : /\ Waits(u) => c = "key"
               /\ Reads(u) => c = "value"
               /\ Ends(u) => c = "next"
    BY Zenon
  <2> HIDE DEF Waits, Reads, Ends
  <2> QED
    BY <2>1
<1> HIDE DEF Waits, Reads, Ends
<1> QED
  BY <1>1, <1>2, <1>3, <1>4, <1>5, <1>6, Zenon

(* It comes from x to y. *)
Leads(s, x, y) ==
    \A R : x \in R /\ (\A u \in R : \A w : Moves(s, u, w) => w \in R) => y \in R

LEMMA OneMoveLeads ==
    ASSUME NEW s, NEW x, NEW y, Moves(s, x, y)
    PROVE  Leads(s, x, y)
BY DEF Leads

LEMMA LeadsFurther ==
    ASSUME NEW s, NEW x, NEW y, NEW z, Leads(s, x, y), Leads(s, y, z)
    PROVE  Leads(s, x, z)
BY DEF Leads

LEMMA MoveOnTheWay ==
    ASSUME NEW s, NEW x, NEW y, NEW z, Leads(s, x, y), x # y, Moves(s, x, z)
    PROVE  Leads(s, z, y)
<1> SUFFICES ASSUME NEW R, z \in R, \A u \in R : \A w : Moves(s, u, w) => w \in R
             PROVE  y \in R
  BY DEF Leads
<1> DEFINE U == R \cup {x}
<1>1. \A u \in U : \A w : Moves(s, u, w) => w \in U
  BY OneMove
<1>2. y \in U
  <2> HIDE DEF U
  <2>1. x \in U
    BY DEF U
  <2> QED
    BY <1>1, <2>1 DEF Leads
<1> QED
  BY <1>2

LEMMA NoMoveNoWay ==
    ASSUME NEW s, NEW x, NEW y, Leads(s, x, y), \A z : ~ Moves(s, x, z)
    PROVE  x = y
<1>1. \A u \in {x} : \A w : Moves(s, u, w) => w \in {x}
  OBVIOUS
<1>2. y \in {x}
  BY <1>1 DEF Leads
<1> QED
  BY <1>2

(* The innermost array or object. *)
LEMMA InnermostFacts ==
    ASSUME NEW st, IsSequence(st), NEW f, NEW g
    PROVE  /\ IsSequence(Append(st, f)) /\ Append(st, f) # << >>
           /\ After(Append(st, f)) = "next"
           /\ Last(Append(st, f)) = f /\ Front(Append(st, f)) = st
           /\ [Append(st, f) EXCEPT ![Len(Append(st, f))] = g] = Append(st, g)
<1> DEFINE S == {st[n] : n \in 1 .. Len(st)} \cup {f, g}
           t == Append(st, f)
           u == Append(st, g)
           w == [t EXCEPT ![Len(t)] = g]
           r == Front(t)
<1>1. st \in Seq(S) /\ f \in S /\ g \in S
  BY DEF IsSequence
<1> HIDE DEF S
<1>2. /\ t \in Seq(S) /\ Len(t) = Len(st) + 1 /\ t[Len(st) + 1] = f /\ Len(st) \in Nat
      /\ \A n \in 1 .. Len(st) : t[n] = st[n]
  BY <1>1
<1>3. /\ u \in Seq(S) /\ Len(u) = Len(st) + 1 /\ u[Len(st) + 1] = g
      /\ \A n \in 1 .. Len(st) : u[n] = st[n]
  BY <1>1
<1> HIDE DEF t, u
<1>4. /\ w \in Seq(S) /\ Len(w) = Len(t) /\ w[Len(t)] = g
      /\ \A n \in 1 .. (Len(t) - 1) : w[n] = t[n]
  <2>1. Len(t) \in 1 .. Len(t)
    BY <1>2
  <2>2. w \in Seq(S)
    BY <1>1, <1>2, <2>1
  <2>3. Len(w) = Len(t) /\ w[Len(t)] = g
    BY <1>1, <1>2, <2>1
  <2>4. \A n \in 1 .. (Len(t) - 1) : w[n] = t[n]
    BY <1>1, <1>2, <2>1
  <2> QED
    BY <2>2, <2>3, <2>4
<1> HIDE DEF w
<1>5. w = u
  <2>1. Len(w) = Len(u)
    BY <1>2, <1>3, <1>4
  <2>2. \A n \in 1 .. Len(u) : n \in 1 .. Len(st) \/ n = Len(st) + 1
    BY <1>2, <1>3
  <2>3. \A n \in 1 .. Len(u) : w[n] = u[n]
    BY <1>2, <1>3, <1>4, <2>2
  <2> QED
    BY <1>3, <1>4, <2>1, <2>3
<1>6. r \in Seq(S) /\ Len(r) = Len(st) /\ \A n \in 1 .. Len(st) : r[n] = t[n]
  BY <1>2 DEF Front
<1> HIDE DEF r
<1>7. r = st
  BY <1>1, <1>2, <1>6
<1>8. Last(t) = f /\ t # << >> /\ IsSequence(t)
  BY <1>2 DEF Last, IsSequence
<1> QED
  BY <1>5, <1>7, <1>8 DEF t, u, w, r, After

(* A frame with one more element. *)
LEMMA GrownFrame ==
    ASSUME NEW kind, NEW parsed, NEW key, NEW v
    PROVE  /\ Grown(Frame(kind, parsed, key), v) = Frame(kind, Append(parsed, Item(kind, key, v)), key)
           /\ Frame(kind, parsed, key).kind = kind
           /\ Frame(kind, parsed, key).parsed = parsed
<1> DEFINE f == Frame(kind, parsed, key)
           list == Append(parsed, Item(kind, key, v))
<1>1. f.kind = kind /\ f.parsed = parsed /\ f.key = key
  BY DEF Frame
<1>2. Grown(f, v) = [f EXCEPT !.parsed = list]
  BY <1>1, Zenon DEF Grown
<1> HIDE DEF list
<1>3. [f EXCEPT !.parsed = list] = Frame(kind, list, key)
  BY DEF Frame
<1> QED
  BY <1>1, <1>2, <1>3, Zenon DEF list

LEMMA ScalarMoves ==
    ASSUME NEW s, NEW p \in 1 .. Len(s), NEW st, NEW v, s[p] \in Scalars
    PROVE  Moves(s, <<p, "value", st, v>>, <<p + 1, After(st), st, Scalar(s[p])>>)
BY Zenon DEF Moves, GoesOn, OverScalar

LEMMA OpeningMoves ==
    ASSUME NEW s, NEW p \in 1 .. (Len(s) - 1), NEW st, NEW v, NEW kind \in Kinds,
           s[p] = Opens(kind)
    PROVE  LET x == <<p, "value", st, v>>
           IN  /\ s[p + 1] = Closes(kind) =>
                    Moves(s, x, <<p + 2, After(st), st, <<kind, << >>>>>>)
               /\ s[p + 1] # Closes(kind) =>
                    Moves(s, x, <<p + 1, ElementStart(kind),
                                  Append(st, Frame(kind, << >>, "")), v>>)
<1> DEFINE x == <<p, "value", st, v>>
<1>1. \A y : OverOpening(s, p, "value", st, v, y, kind) => Moves(s, x, y)
  <2>1. kind = "array" \/ kind = "object"
    BY DEF Kinds
  <2> QED
    BY <2>1, Zenon DEF Moves, GoesOn
<1>2. ASSUME s[p + 1] = Closes(kind)
      PROVE  OverOpening(s, p, "value", st, v, <<p + 2, After(st), st, <<kind, << >>>>>>, kind)
  BY <1>2, Zenon DEF OverOpening
<1>3. ASSUME s[p + 1] # Closes(kind)
      PROVE  OverOpening(s, p, "value", st, v,
                         <<p + 1, ElementStart(kind), Append(st, Frame(kind, << >>, "")), v>>, kind)
  BY <1>3, Zenon DEF OverOpening
<1> QED
  BY <1>1, <1>2, <1>3, Zenon

(* Replacing the innermost array or object. *)
LEMMA InnermostReplaced ==
    ASSUME NEW st, IsSequence(st), NEW f, NEW g
    PROVE  /\ Last(Append(st, f)) = f
           /\ [Append(st, f) EXCEPT ![Len(Append(st, f))] = g] = Append(st, g)
BY InnermostFacts, ZenonT(60)

LEMMA KeyMoves ==
    ASSUME NEW s, NEW p \in 1 .. (Len(s) - 1), s[p][1] = "string", s[p + 1] = Colon,
           NEW st, IsSequence(st), NEW kind, NEW list, NEW key, NEW v
    PROVE  Moves(s, <<p, "key", Append(st, Frame(kind, list, key)), v>>,
                 <<p + 2, "value", Append(st, Frame(kind, list, s[p][2])), v>>)
<1> DEFINE f == Frame(kind, list, key)
           k == s[p][2]
           g == Frame(kind, list, k)
           t == Append(st, f)
<1>1. t[Len(t)] = f
  BY InnermostReplaced, Zenon DEF Last
<1>2. [t EXCEPT ![Len(t)].key = k] = [t EXCEPT ![Len(t)] = g]
  <2>1. [f EXCEPT !.key = k] = g
    BY DEF Frame
  <2> HIDE DEF t, f, g, k
  <2>2. [t EXCEPT ![Len(t)].key = k] = [t EXCEPT ![Len(t)] = [t[Len(t)] EXCEPT !.key = k]]
    OBVIOUS
  <2> QED
    BY <1>1, <2>1, <2>2
<1>3. [t EXCEPT ![Len(t)] = g] = Append(st, g)
  <2> HIDE DEF f, g
  <2> QED
    BY InnermostReplaced, Zenon
<1>4. OverKey(s, p, "key", t, v, <<p + 2, "value", Append(st, g), v>>)
  BY <1>2, <1>3, Zenon DEF OverKey
<1> QED
  BY <1>4, Zenon DEF Moves, GoesOn

LEMMA CommaMoves ==
    ASSUME NEW s, NEW p \in 1 .. Len(s), s[p] = Comma,
           NEW st, IsSequence(st), NEW kind, NEW list, NEW key, NEW v
    PROVE  Moves(s, <<p, "next", Append(st, Frame(kind, list, key)), v>>,
                 <<p + 1, ElementStart(kind),
                   Append(st, Frame(kind, Append(list, Item(kind, key, v)), key)), v>>)
<1> DEFINE f == Frame(kind, list, key)
           g == Frame(kind, Append(list, Item(kind, key, v)), key)
           t == Append(st, f)
<1>1. Last(t) = f /\ [t EXCEPT ![Len(t)] = g] = Append(st, g)
  BY InnermostReplaced, Zenon
<1>2. Grown(f, v) = g /\ f.kind = kind
  BY GrownFrame
<1> HIDE DEF f, g, t
<1>3. OverComma(s, p, "next", t, v, <<p + 1, ElementStart(kind), Append(st, g), v>>)
  BY <1>1, <1>2, Zenon DEF OverComma
<1>4. Moves(s, <<p, "next", t, v>>, <<p + 1, ElementStart(kind), Append(st, g), v>>)
  BY <1>3, Zenon DEF Moves, GoesOn
<1> QED
  BY <1>4, Zenon DEF t, f, g

LEMMA ClosingMoves ==
    ASSUME NEW s, NEW p \in 1 .. Len(s), NEW kind, s[p] = Closes(kind),
           NEW st, IsSequence(st), NEW list, NEW key, NEW v
    PROVE  Moves(s, <<p, "next", Append(st, Frame(kind, list, key)), v>>,
                 <<p + 1, After(st), st, <<kind, Append(list, Item(kind, key, v))>>>>)
<1> DEFINE f == Frame(kind, list, key)
           t == Append(st, f)
           w == <<kind, Append(list, Item(kind, key, v))>>
<1>1. Last(t) = f /\ Front(t) = st
  BY InnermostFacts, Zenon
<1>2. Grown(f, v).parsed = Append(list, Item(kind, key, v)) /\ f.kind = kind
  <2> DEFINE more == Append(list, Item(kind, key, v))
  <2>1. Grown(f, v) = Frame(kind, more, key)
    BY GrownFrame
  <2>2. f.kind = kind
    BY DEF Frame
  <2> HIDE DEF f, more
  <2>3. Frame(kind, more, key).parsed = more
    BY DEF Frame
  <2> QED
    BY <2>1, <2>2, <2>3, Zenon DEF more
<1> HIDE DEF f, t
<1>3. OverClosing(s, p, "next", t, v, <<p + 1, After(st), st, w>>)
  BY <1>1, <1>2, Zenon DEF OverClosing
<1>4. Moves(s, <<p, "next", t, v>>, <<p + 1, After(st), st, w>>)
  BY <1>3, Zenon DEF Moves, GoesOn
<1> QED
  BY <1>4, Zenon DEF t, f

(* A value begins with no closing bracket. *)
LEMMA FirstToken ==
    ASSUME NEW s, Len(s) \in Nat, NEW a \in 1 .. Len(s), NEW c \in a .. Len(s), NEW v,
           v \in ValuesAt(s, a, c), NEW kind
    PROVE  s[a] # Closes(kind)
<1>1. CASE a = c
  <2>1. s[a] \in Scalars
    BY <1>1, ScalarAt
  <2> QED
    BY <2>1, TokensDiffer
<1>2. CASE a # c
  <2>1. \E k \in Kinds : s[a] = Opens(k)
    BY <1>2, BracketsAt
  <2> QED
    BY <2>1, TokensDiffer
<1> QED
  BY <1>1, <1>2

(* The parser reads what the tokens from a to c mean, and stops behind c. *)
ReadsValues(s, a, c) ==
    \A v \in ValuesAt(s, a, c) : \A st, old : IsSequence(st) =>
        Leads(s, <<a, "value", st, old>>, <<c + 1, After(st), st, v>>)

ComesToElement(s, a, st, old, p, kind, list) ==
    \E key, w : Leads(s, <<a, "value", st, old>>,
                      <<p, ElementStart(kind), Append(st, Frame(kind, list, key)), w>>)

ReadsOpen(s, a, c) ==
    \A kind \in Kinds : \A list \in OpenAt(s, kind, a, c) : \A st, old :
        IsSequence(st) /\ c + 1 <= Len(s) /\ s[c + 1] # Closes(kind) =>
            ComesToElement(s, a, st, old, c + 1, kind, list)

ComesBehindElement(s, a, st, old, p, kind, list) ==
    \E before, key, v :
        /\ list = Append(before, Item(kind, key, v))
        /\ Leads(s, <<a, "value", st, old>>,
                 <<p, "next", Append(st, Frame(kind, before, key)), v>>)

ReadsLists(s, a, c) ==
    \A kind \in Kinds : \A list \in ListsAt(s, kind, a, c) : \A st, old :
        IsSequence(st) => ComesBehindElement(s, a, st, old, c + 1, kind, list)

LEMMA ListsRead ==
    ASSUME NEW s, Len(s) \in Nat, NEW a \in 1 .. Len(s), NEW c \in a .. Len(s),
           \A n \in a .. (c - 1) : ReadsOpen(s, a, n),
           \A b \in (a + 1) .. c : ReadsValues(s, b, c)
    PROVE  ReadsLists(s, a, c)
<1> SUFFICES ASSUME NEW kind \in Kinds, NEW list \in ListsAt(s, kind, a, c), NEW st, NEW old,
                    IsSequence(st)
             PROVE  ComesBehindElement(s, a, st, old, c + 1, kind, list)
  BY Zenon DEF ReadsLists
<1>1. PICK n, before, key, b, v :
          /\ AnotherAt(s, kind, a, n, before, key, b, v, c)
          /\ list = Append(before, Item(kind, key, v))
  BY ListAt
<1>2. /\ n \in a .. (c - 1) /\ before \in OpenAt(s, kind, a, n)
      /\ KeyAt(s, kind, key, n + 1, b) /\ b \in (n + 1) .. c
      /\ v \in ValuesAt(s, b, c)
  BY <1>1, Zenon DEF AnotherAt
<1>3. /\ b \in (a + 1) .. c /\ b \in 1 .. Len(s) /\ c \in b .. Len(s)
      /\ n \in Nat /\ n + 1 <= Len(s) /\ n + 1 \in 1 .. Len(s)
  BY <1>2
<1>4. s[n + 1] # Closes(kind)
  <2>1. CASE kind = "object"
    <3>1. s[n + 1][1] = "string"
      BY <1>2, <2>1 DEF KeyAt
    <3> QED
      BY <3>1, TokensDiffer, Zenon
  <2>2. CASE kind # "object"
    <3>1. b = n + 1
      BY <1>2, <2>2 DEF KeyAt
    <3> QED
      BY <1>2, <1>3, <3>1, FirstToken
  <2> QED
    BY <2>1, <2>2
<1>5. ComesToElement(s, a, st, old, n + 1, kind, before)
  BY <1>2, <1>3, <1>4, Zenon DEF ReadsOpen
<1>6. PICK key0, w : Leads(s, <<a, "value", st, old>>,
          <<n + 1, ElementStart(kind), Append(st, Frame(kind, before, key0)), w>>)
  BY <1>5 DEF ComesToElement
<1>7. \E k : /\ Item(kind, k, v) = Item(kind, key, v)
             /\ Leads(s, <<a, "value", st, old>>,
                      <<b, "value", Append(st, Frame(kind, before, k)), w>>)
  <2>1. CASE kind = "object"
    <3> DEFINE m == n + 1
    <3>1. /\ ElementStart(kind) = "key" /\ b = m + 2 /\ m + 1 <= Len(s)
          /\ s[m][1] = "string" /\ s[m][2] = key /\ s[m + 1] = Colon
      BY <1>2, <2>1 DEF KeyAt, ElementStart
    <3>2. m \in 1 .. (Len(s) - 1)
      BY <1>3, <3>1
    <3> HIDE DEF m
    <3>3. Moves(s, <<m, "key", Append(st, Frame(kind, before, key0)), w>>,
                <<b, "value", Append(st, Frame(kind, before, key)), w>>)
      BY <3>1, <3>2, KeyMoves, Zenon
    <3>4. Leads(s, <<a, "value", st, old>>,
                <<b, "value", Append(st, Frame(kind, before, key)), w>>)
      BY <1>6, <3>1, <3>3, OneMoveLeads, LeadsFurther DEF m
    <3> QED
      BY <3>4
  <2>2. CASE kind # "object"
    <3>1. ElementStart(kind) = "value" /\ b = n + 1
      BY <1>2, <2>2 DEF KeyAt, ElementStart
    <3>2. Item(kind, key0, v) = Item(kind, key, v)
      BY <2>2 DEF Item
    <3> QED
      BY <1>6, <3>1, <3>2, Zenon
  <2> QED
    BY <2>1, <2>2
<1>8. PICK k : /\ Item(kind, k, v) = Item(kind, key, v)
               /\ Leads(s, <<a, "value", st, old>>,
                        <<b, "value", Append(st, Frame(kind, before, k)), w>>)
  BY <1>7
<1> DEFINE t == Append(st, Frame(kind, before, k))
<1>9. IsSequence(t) /\ After(t) = "next"
  BY InnermostFacts, Zenon
<1>10. Leads(s, <<b, "value", t, w>>, <<c + 1, "next", t, v>>)
  <2> HIDE DEF t
  <2> QED
    BY <1>2, <1>3, <1>9, Zenon DEF ReadsValues
<1>11. Leads(s, <<a, "value", st, old>>, <<c + 1, "next", t, v>>)
  BY <1>8, <1>10, LeadsFurther, Zenon
<1> QED
  BY <1>1, <1>8, <1>11, Zenon DEF ComesBehindElement

LEMMA OpenRead ==
    ASSUME NEW s, Len(s) \in Nat, NEW a \in 1 .. Len(s), NEW c \in a .. Len(s),
           a < c => ReadsLists(s, a, c - 1)
    PROVE  ReadsOpen(s, a, c)
<1> SUFFICES ASSUME NEW kind \in Kinds, NEW list \in OpenAt(s, kind, a, c), NEW st, NEW old,
                    IsSequence(st), c + 1 <= Len(s), s[c + 1] # Closes(kind)
             PROVE  ComesToElement(s, a, st, old, c + 1, kind, list)
  BY Zenon DEF ReadsOpen
<1>1. CASE a = c
  <2>1. s[a] = Opens(kind) /\ list = << >>
    BY <1>1, BareAt
  <2>2. a \in 1 .. (Len(s) - 1) /\ s[a + 1] # Closes(kind)
    BY <1>1
  <2>3. Moves(s, <<a, "value", st, old>>,
              <<a + 1, ElementStart(kind), Append(st, Frame(kind, << >>, "")), old>>)
    BY <2>1, <2>2, OpeningMoves, Zenon
  <2>4. Leads(s, <<a, "value", st, old>>,
              <<c + 1, ElementStart(kind), Append(st, Frame(kind, list, "")), old>>)
    BY <1>1, <2>1, <2>3, OneMoveLeads, Zenon
  <2> QED
    BY <2>4, Zenon DEF ComesToElement
<1>2. CASE a # c
  <2>1. s[c] = Comma /\ list \in ListsAt(s, kind, a, c - 1)
    BY <1>2, CommaAt
  <2>2. ReadsLists(s, a, c - 1) /\ c - 1 + 1 = c /\ c \in 1 .. Len(s)
    BY <1>2
  <2>3. ComesBehindElement(s, a, st, old, c, kind, list)
    BY <2>1, <2>2, Zenon DEF ReadsLists
  <2>4. PICK before, key, v :
            /\ list = Append(before, Item(kind, key, v))
            /\ Leads(s, <<a, "value", st, old>>,
                     <<c, "next", Append(st, Frame(kind, before, key)), v>>)
    BY <2>3 DEF ComesBehindElement
  <2>5. Moves(s, <<c, "next", Append(st, Frame(kind, before, key)), v>>,
              <<c + 1, ElementStart(kind), Append(st, Frame(kind, list, key)), v>>)
    BY <2>1, <2>2, <2>4, CommaMoves, Zenon
  <2>6. Leads(s, <<a, "value", st, old>>,
              <<c + 1, ElementStart(kind), Append(st, Frame(kind, list, key)), v>>)
    <3>1. Leads(s, <<c, "next", Append(st, Frame(kind, before, key)), v>>,
                <<c + 1, ElementStart(kind), Append(st, Frame(kind, list, key)), v>>)
      BY <2>5, OneMoveLeads, Zenon
    <3>2. Leads(s, <<a, "value", st, old>>,
                <<c, "next", Append(st, Frame(kind, before, key)), v>>)
      BY <2>4, Zenon
    <3> QED
      BY <3>1, <3>2, LeadsFurther, Zenon
  <2> QED
    BY <2>6, Zenon DEF ComesToElement
<1> QED
  BY <1>1, <1>2

LEMMA ValuesRead ==
    ASSUME NEW s, Len(s) \in Nat, NEW a \in 1 .. Len(s), NEW c \in a .. Len(s),
           a < c => ReadsLists(s, a, c - 1)
    PROVE  ReadsValues(s, a, c)
<1> SUFFICES ASSUME NEW v \in ValuesAt(s, a, c), NEW st, NEW old, IsSequence(st)
             PROVE  Leads(s, <<a, "value", st, old>>, <<c + 1, After(st), st, v>>)
  BY Zenon DEF ReadsValues
<1>1. CASE a = c
  <2>1. s[a] \in Scalars /\ v = Scalar(s[a])
    BY <1>1, ScalarAt
  <2> QED
    BY <1>1, <2>1, ScalarMoves, OneMoveLeads, Zenon
<1>2. CASE a # c
  <2>1. PICK kind, list :
            /\ kind \in Kinds /\ v = <<kind, list>>
            /\ s[a] = Opens(kind) /\ s[c] = Closes(kind)
            /\ IF c = a + 1 THEN list = << >> ELSE list \in ListsAt(s, kind, a, c - 1)
    BY <1>2, BracketsAt
  <2>2. CASE c = a + 1
    <3>1. a \in 1 .. (Len(s) - 1) /\ c + 1 = a + 2
      BY <2>2
    <3>2. Moves(s, <<a, "value", st, old>>, <<a + 2, After(st), st, <<kind, << >>>>>>)
      BY <2>1, <2>2, <3>1, OpeningMoves, Zenon
    <3> QED
      BY <2>1, <2>2, <3>1, <3>2, OneMoveLeads, Zenon
  <2>3. CASE c # a + 1
    <3>1. ReadsLists(s, a, c - 1) /\ c - 1 + 1 = c /\ c \in 1 .. Len(s)
      BY <1>2
    <3>2. ComesBehindElement(s, a, st, old, c, kind, list)
      BY <2>1, <2>3, <3>1, Zenon DEF ReadsLists
    <3>3. PICK before, key, w :
              /\ list = Append(before, Item(kind, key, w))
              /\ Leads(s, <<a, "value", st, old>>,
                       <<c, "next", Append(st, Frame(kind, before, key)), w>>)
      BY <3>2 DEF ComesBehindElement
    <3>4. Moves(s, <<c, "next", Append(st, Frame(kind, before, key)), w>>,
                <<c + 1, After(st), st, <<kind, list>>>>)
      BY <2>1, <3>1, <3>3, ClosingMoves, Zenon
    <3>5. Leads(s, <<c, "next", Append(st, Frame(kind, before, key)), w>>,
                <<c + 1, After(st), st, <<kind, list>>>>)
      BY <3>4, OneMoveLeads, Zenon
    <3>6. Leads(s, <<a, "value", st, old>>,
                <<c, "next", Append(st, Frame(kind, before, key)), w>>)
      BY <3>3, Zenon
    <3>7. Leads(s, <<a, "value", st, old>>, <<c + 1, After(st), st, <<kind, list>>>>)
      BY <3>5, <3>6, LeadsFurther, Zenon
    <3> QED
      BY <2>1, <3>7, Zenon
  <2> QED
    BY <2>2, <2>3
<1> QED
  BY <1>1, <1>2

(* So it is for parts of every length. *)
LEMMA EveryValueRead ==
    ASSUME NEW s, Len(s) \in Nat, NEW a \in 1 .. Len(s), NEW c \in a .. Len(s)
    PROVE  ReadsValues(s, a, c)
<1> DEFINE Reads(n) == \A b \in 1 .. Len(s) : \A d \in b .. Len(s) :
                           d - b < n => ReadsValues(s, b, d) /\ ReadsOpen(s, b, d)
           P == {n \in Nat : Reads(n)}
<1>1. Reads(0)
  OBVIOUS
<1>2. ASSUME NEW n \in Nat, Reads(n)
      PROVE  Reads(n + 1)
  <2> SUFFICES ASSUME NEW b \in 1 .. Len(s), NEW d \in b .. Len(s), d - b < n + 1
               PROVE  ReadsValues(s, b, d) /\ ReadsOpen(s, b, d)
    OBVIOUS
  <2>1. ASSUME b < d
        PROVE  ReadsLists(s, b, d - 1)
    <3> DEFINE e == d - 1
    <3>1. e \in b .. Len(s)
      BY <2>1
    <3>2. ASSUME NEW m \in b .. (e - 1)
          PROVE  ReadsOpen(s, b, m)
      <4>1. m \in b .. Len(s) /\ m - b < n
        OBVIOUS
      <4> QED
        BY <1>2, <4>1
    <3>3. ASSUME NEW m \in (b + 1) .. e
          PROVE  ReadsValues(s, m, e)
      <4>1. m \in 1 .. Len(s) /\ e \in m .. Len(s) /\ e - m < n
        OBVIOUS
      <4> QED
        BY <1>2, <4>1
    <3> HIDE DEF e
    <3>4. ReadsLists(s, b, e)
      BY <3>1, <3>2, <3>3, ListsRead
    <3> QED
      BY <3>4 DEF e
  <2> QED
    BY <2>1, OpenRead, ValuesRead
<1> HIDE DEF Reads
<1>3. 0 \in P /\ \A n \in Nat : n \in P => n + 1 \in P
  BY <1>1, <1>2
<1> HIDE DEF P
<1>4. \A n \in Nat : n \in P
  BY <1>3, Induction
<1>5. c - a + 1 \in Nat /\ c - a < c - a + 1
  OBVIOUS
<1>6. Reads(c - a + 1)
  BY <1>4, <1>5 DEF P
<1> QED
  BY <1>5, <1>6 DEF Reads

-----------------------------------------------------------------------------
(* What the parser has read where it is. *)

IsFrame(f) == f.kind \in Kinds /\ f = Frame(f.kind, f.parsed, f.key)

(* An array or object that was opened at a, with an element beginning at b. *)
Opened(s, f, a, b) ==
    /\ IsFrame(f)
    /\ a \in 1 .. Len(s) /\ b \in (a + 1) .. (Len(s) + 1)
    /\ s[a] = Opens(f.kind)
    /\ f.parsed \in OpenAt(s, f.kind, a, b - 1)

(* The value of that element begins at c. *)
KeyRead(s, f, b, c) ==
    c \in b .. (Len(s) + 1) /\ KeyAt(s, f.kind, f.key, b, c)

(* The arrays and objects that are open, from the outermost: each was      *)
(* opened where a value of the one around it begins, and the first m of    *)
(* them have such a value begun.                                           *)
Levels(s, st, from, at, m) ==
    /\ IsSequence(st)
    /\ from[1] = 1
    /\ \A n \in 1 .. Len(st) : Opened(s, st[n], from[n], at[n])
    /\ \A n \in 1 .. m : KeyRead(s, st[n], at[n], from[n + 1])

At(s, p, c, st, v, from, at) ==
    LET k == Len(st)
    IN  /\ Levels(s, st, from, at, IF c = "key" THEN k - 1 ELSE k)
        /\ c = "value" => p = from[k + 1]
        /\ c = "key" => k > 0 /\ st[k].kind = "object" /\ p = at[k]
        /\ c \in {"next", "returned"} =>
              /\ from[k + 1] \in 1 .. (p - 1)
              /\ v \in ValuesAt(s, from[k + 1], p - 1)
              /\ c = After(st)

HasRead(s, p, c, st, v) ==
    /\ Len(s) \in Nat
    /\ p \in 1 .. (Len(s) + 1)
    /\ c \in {"value", "key", "next", "returned"}
    /\ \E from, at : At(s, p, c, st, v, from, at)

(* The innermost is f, at an element that begins at b, of which the value  *)
(* begins at c if the key before it has been read.                         *)
InnermostIs(s, st, f, b, c) ==
    LET k == Len(st)
    IN  /\ k > 0 /\ st[k] = f
        /\ \E from, at :
              /\ Levels(s, st, from, at, k - 1)
              /\ KeyRead(s, f, b, c) => Levels(s, st, from, at, k)
              /\ at[k] = b
              /\ from[k + 1] = c

LEMMA LevelPushed ==
    ASSUME NEW s, NEW st, NEW from, NEW at, Levels(s, st, from, at, Len(st)),
           NEW f, NEW b, NEW c, Opened(s, f, from[Len(st) + 1], b)
    PROVE  InnermostIs(s, Append(st, f), f, b, c)
<1> DEFINE k     == Len(st)
           st2   == Append(st, f)
           from2 == [n \in 1 .. (k + 2) |-> IF n <= k + 1 THEN from[n] ELSE c]
           at2   == [n \in 1 .. (k + 1) |-> IF n <= k THEN at[n] ELSE b]
<1>1. /\ k \in Nat /\ IsSequence(st2) /\ Len(st2) = k + 1 /\ st2[k + 1] = f
      /\ \A n \in 1 .. k : st2[n] = st[n]
  <2>1. IsSequence(st) /\ k \in Nat
    BY DEF Levels, IsSequence
  <2> QED
    BY <2>1, AppendedSequence
<1>2. /\ from2[1] = from[1] /\ from2[k + 1] = from[k + 1] /\ from2[k + 2] = c
      /\ at2[k + 1] = b
      /\ \A n \in 1 .. k : from2[n] = from[n] /\ at2[n] = at[n] /\ from2[n + 1] = from[n + 1]
  BY <1>1
<1> HIDE DEF st2, from2, at2
<1>3. ASSUME NEW n \in 1 .. (k + 1)
      PROVE  Opened(s, st2[n], from2[n], at2[n])
  <2>1. CASE n = k + 1
    BY <1>1, <1>2, <2>1
  <2>2. CASE n \in 1 .. k
    BY <1>1, <1>2, <2>2 DEF Levels
  <2> QED
    BY <1>1, <2>1, <2>2
<1>4. ASSUME NEW n \in 1 .. k
      PROVE  KeyRead(s, st2[n], at2[n], from2[n + 1])
  BY <1>1, <1>2, <1>4 DEF Levels
<1>5. from2[1] = 1
  BY <1>2 DEF Levels
<1>6. Levels(s, st2, from2, at2, k)
  BY <1>1, <1>3, <1>4, <1>5, Zenon DEF Levels
<1>7. ASSUME KeyRead(s, f, b, c)
      PROVE  Levels(s, st2, from2, at2, k + 1)
  <2>1. k + 1 + 1 = k + 2 /\ \A n \in 1 .. (k + 1) : n \in 1 .. k \/ n = k + 1
    BY <1>1
  <2>2. \A n \in 1 .. (k + 1) : KeyRead(s, st2[n], at2[n], from2[n + 1])
    BY <1>1, <1>2, <1>4, <1>7, <2>1
  <2> QED
    BY <1>1, <1>3, <1>5, <2>2, Zenon DEF Levels
<1>8. k + 1 = Len(st2) /\ k + 1 > 0 /\ k + 1 - 1 = k /\ k + 1 + 1 = k + 2
  BY <1>1
<1>9. InnermostIs(s, st2, f, b, c)
  BY <1>1, <1>2, <1>6, <1>7, <1>8 DEF InnermostIs
<1> QED
  BY <1>9 DEF st2

(* The innermost has read one more value, or its key.                      *)
LEMMA LevelChanged ==
    ASSUME NEW s, NEW st, NEW from, NEW at, Len(st) > 0,
           Levels(s, st, from, at, Len(st) - 1),
           NEW f, NEW b, NEW c, Opened(s, f, from[Len(st)], b)
    PROVE  InnermostIs(s, [st EXCEPT ![Len(st)] = f], f, b, c)
<1> DEFINE k     == Len(st)
           st2   == [st EXCEPT ![k] = f]
           from2 == [n \in 1 .. (k + 1) |-> IF n <= k THEN from[n] ELSE c]
           at2   == [n \in 1 .. k |-> IF n < k THEN at[n] ELSE b]
<1>1. /\ k \in Nat \ {0} /\ IsSequence(st2) /\ Len(st2) = k /\ st2[k] = f
      /\ \A n \in 1 .. (k - 1) : st2[n] = st[n]
  <2>1. Len(st) \in Nat /\ st = [n \in 1 .. Len(st) |-> st[n]]
    BY DEF Levels, IsSequence
  <2> DEFINE S == {st[n] : n \in 1 .. Len(st)} \cup {f}
  <2>2. st \in Seq(S) /\ f \in S
    BY <2>1
  <2> HIDE DEF S
  <2>3. st2 \in Seq(S) /\ Len(st2) = k /\ st2[k] = f /\ \A n \in 1 .. (k - 1) : st2[n] = st[n]
    <3>1. k \in 1 .. Len(st)
      BY <2>1
    <3>2. st2 \in Seq(S)
      BY <2>2, <3>1
    <3>3. Len(st2) = k
      BY <2>2, <3>1
    <3>4. st2[k] = f /\ \A n \in 1 .. (k - 1) : st2[n] = st[n]
      BY <2>2, <3>1
    <3> QED
      BY <3>2, <3>3, <3>4
  <2>4. \A q \in Seq(S) : IsSequence(q)
    BY DEF IsSequence
  <2>5. k \in Nat \ {0}
    BY <2>1
  <2> HIDE DEF st2
  <2> QED
    BY <2>3, <2>4, <2>5
<1>2. /\ from2[1] = from[1] /\ from2[k] = from[k] /\ from2[k + 1] = c
      /\ at2[k] = b
      /\ \A n \in 1 .. (k - 1) : from2[n] = from[n] /\ at2[n] = at[n] /\ from2[n + 1] = from[n + 1]
  <2>1. k \in Nat \ {0}
    BY <1>1
  <2> HIDE DEF k
  <2> QED
    BY <2>1
<1> HIDE DEF st2, from2, at2
<1>3. ASSUME NEW n \in 1 .. k
      PROVE  Opened(s, st2[n], from2[n], at2[n])
  <2>1. CASE n = k
    BY <1>1, <1>2, <2>1
  <2>2. CASE n \in 1 .. (k - 1)
    BY <1>1, <1>2, <2>2 DEF Levels
  <2> QED
    BY <1>1, <2>1, <2>2
<1>4. ASSUME NEW n \in 1 .. (k - 1)
      PROVE  KeyRead(s, st2[n], at2[n], from2[n + 1])
  BY <1>1, <1>2, <1>4 DEF Levels
<1>5. from2[1] = 1
  BY <1>2 DEF Levels
<1>6. Levels(s, st2, from2, at2, k - 1)
  BY <1>1, <1>3, <1>4, <1>5, Zenon DEF Levels
<1>7. ASSUME KeyRead(s, f, b, c)
      PROVE  Levels(s, st2, from2, at2, k)
  <2>1. \A n \in 1 .. k : n \in 1 .. (k - 1) \/ n = k
    BY <1>1
  <2>2. \A n \in 1 .. k : KeyRead(s, st2[n], at2[n], from2[n + 1])
    BY <1>1, <1>2, <1>4, <1>7, <2>1
  <2> QED
    BY <1>1, <1>3, <1>5, <2>2, Zenon DEF Levels
<1>8. InnermostIs(s, st2, f, b, c)
  BY <1>1, <1>2, <1>6, <1>7 DEF InnermostIs
<1> QED
  BY <1>8 DEF st2

LEMMA LevelPopped ==
    ASSUME NEW s, NEW st, NEW from, NEW at, Len(st) > 0,
           Levels(s, st, from, at, Len(st))
    PROVE  /\ Levels(s, Front(st), from, at, Len(st) - 1)
           /\ Len(Front(st)) = Len(st) - 1
           /\ Last(st) = st[Len(st)]
<1> DEFINE k   == Len(st)
           st2 == Front(st)
<1>1. k \in Nat \ {0} /\ IsSequence(st2) /\ Len(st2) = k - 1 /\ \A n \in 1 .. (k - 1) : st2[n] = st[n]
  <2>1. Len(st) \in Nat /\ st = [n \in 1 .. Len(st) |-> st[n]]
    BY DEF Levels, IsSequence
  <2> DEFINE S == {st[n] : n \in 1 .. Len(st)}
  <2>2. st \in Seq(S)
    BY <2>1
  <2> HIDE DEF S
  <2>3. st2 \in Seq(S) /\ Len(st2) = k - 1 /\ \A n \in 1 .. (k - 1) : st2[n] = st[n]
    BY <2>1, <2>2 DEF Front
  <2>4. \A q \in Seq(S) : IsSequence(q)
    BY DEF IsSequence
  <2> QED
    BY <2>1, <2>3, <2>4
<1> HIDE DEF st2
<1>2. \A n \in 1 .. (k - 1) : n \in 1 .. k
  BY <1>1
<1>3. Levels(s, st2, from, at, k - 1)
  BY <1>1, <1>2 DEF Levels
<1> QED
  BY <1>1, <1>3 DEF st2, Last

LEMMA LevelFacts ==
    ASSUME NEW s, NEW st, NEW from, NEW at, NEW m, Levels(s, st, from, at, m)
    PROVE  /\ IsSequence(st) /\ Len(st) \in Nat
           /\ st = << >> <=> Len(st) = 0
           /\ \A n \in 1 .. Len(st) : Opened(s, st[n], from[n], at[n])
           /\ \A n \in 1 .. m : KeyRead(s, st[n], at[n], from[n + 1])
<1>1. IsSequence(st)
  BY DEF Levels
<1>2. st = << >> <=> Len(st) = 0
  <2>1. Len(st) \in Nat /\ st = [n \in 1 .. Len(st) |-> st[n]]
    BY <1>1 DEF IsSequence
  <2> QED
    BY <2>1
<1> QED
  BY <1>1, <1>2 DEF Levels, IsSequence
(* parse_value returns. *)
LEMMA ValueReturned ==
    ASSUME NEW s, Len(s) \in Nat, NEW st, NEW from, NEW at, NEW p \in 1 .. (Len(s) + 1), NEW v,
           Levels(s, st, from, at, Len(st)), from[Len(st) + 1] \in 1 .. (p - 1),
           v \in ValuesAt(s, from[Len(st) + 1], p - 1)
    PROVE  HasRead(s, p, After(st), st, v)
<1> DEFINE c == After(st)
<1>1. c # "key" /\ c # "value" /\ c = After(st) /\ c \in {"value", "key", "next", "returned"}
  BY DEF After
<1> HIDE DEF c
<1>2. At(s, p, c, st, v, from, at)
  BY <1>1 DEF At
<1> QED
  BY <1>1, <1>2, Zenon DEF HasRead, c

LEMMA ValueComes ==
    ASSUME NEW s, Len(s) \in Nat, NEW st, NEW f, NEW b, NEW p \in 1 .. (Len(s) + 1), NEW v,
           InnermostIs(s, st, f, b, p), KeyRead(s, f, b, p)
    PROVE  HasRead(s, p, "value", st, v)
<1>1. PICK from, at : Levels(s, st, from, at, Len(st)) /\ from[Len(st) + 1] = p
  BY DEF InnermostIs
<1>2. At(s, p, "value", st, v, from, at)
  BY <1>1 DEF At
<1> QED
  BY <1>2, Zenon DEF HasRead

LEMMA KeyComes ==
    ASSUME NEW s, Len(s) \in Nat, NEW st, NEW f, NEW c, NEW p \in 1 .. (Len(s) + 1), NEW v,
           InnermostIs(s, st, f, p, c), f.kind = "object"
    PROVE  HasRead(s, p, "key", st, v)
<1>1. PICK from, at : Levels(s, st, from, at, Len(st) - 1) /\ at[Len(st)] = p
  BY DEF InnermostIs
<1>2. Len(st) > 0 /\ st[Len(st)].kind = "object"
  BY DEF InnermostIs
<1>3. At(s, p, "key", st, v, from, at)
  BY <1>1, <1>2 DEF At
<1> QED
  BY <1>3, Zenon DEF HasRead

(* An element comes, its key or its value first. *)
LEMMA ElementComes ==
    ASSUME NEW s, Len(s) \in Nat, NEW st, NEW f, NEW p \in 1 .. (Len(s) + 1), NEW v,
           InnermostIs(s, st, f, p, p), f.kind \in Kinds
    PROVE  HasRead(s, p, ElementStart(f.kind), st, v)
<1>1. CASE f.kind = "object"
  BY <1>1, KeyComes DEF ElementStart
<1>2. CASE f.kind # "object"
  <2>1. KeyRead(s, f, p, p)
    BY <1>2 DEF KeyRead, KeyAt
  <2>2. HasRead(s, p, "value", st, v)
    BY <2>1, ValueComes
  <2> QED
    BY <1>2, <2>2 DEF ElementStart
<1> QED
  BY <1>1, <1>2

(* Where a value begins. *)
LEMMA ValueFacts ==
    ASSUME NEW s, NEW p, NEW st, NEW v, HasRead(s, p, "value", st, v)
    PROVE  /\ Len(s) \in Nat /\ p \in 1 .. (Len(s) + 1)
           /\ \E from, at : Levels(s, st, from, at, Len(st)) /\ p = from[Len(st) + 1]
<1>1. PICK from, at : At(s, p, "value", st, v, from, at)
  BY DEF HasRead
<1>2. Levels(s, st, from, at, Len(st)) /\ p = from[Len(st) + 1]
  BY <1>1 DEF At
<1> QED
  BY <1>2, Zenon DEF HasRead

LEMMA ScalarRead ==
    ASSUME NEW s, NEW p, NEW st, NEW v, HasRead(s, p, "value", st, v),
           p <= Len(s), s[p] \in Scalars
    PROVE  HasRead(s, p + 1, After(st), st, Scalar(s[p]))
<1>1. p \in 1 .. Len(s) /\ Len(s) \in Nat /\ p + 1 \in 1 .. (Len(s) + 1)
  BY DEF HasRead
<1>2. PICK from, at : Levels(s, st, from, at, Len(st)) /\ p = from[Len(st) + 1]
  BY ValueFacts
<1> DEFINE q == p + 1
           w == Scalar(s[p])
<1>3. w \in ValuesAt(s, p, p)
  BY <1>1, ScalarAt
<1>4. q \in 1 .. (Len(s) + 1) /\ q - 1 = p /\ p \in 1 .. p
  BY <1>1
<1> HIDE DEF q, w
<1>5. /\ from[Len(st) + 1] \in 1 .. (q - 1)
      /\ w \in ValuesAt(s, from[Len(st) + 1], q - 1)
  BY <1>2, <1>3, <1>4
<1>6. HasRead(s, q, After(st), st, w)
  BY <1>1, <1>2, <1>4, <1>5, ValueReturned, Zenon
<1> QED
  BY <1>6 DEF q, w

LEMMA EmptyRead ==
    ASSUME NEW s, NEW p, NEW st, NEW v, HasRead(s, p, "value", st, v),
           p < Len(s), NEW kind \in Kinds, s[p] = Opens(kind), s[p + 1] = Closes(kind)
    PROVE  HasRead(s, p + 2, After(st), st, <<kind, << >>>>)
<1>1. /\ p \in 1 .. Len(s) /\ p + 1 \in p .. Len(s) /\ p # p + 1 /\ Len(s) \in Nat
  BY DEF HasRead
<1>2. PICK from, at : Levels(s, st, from, at, Len(st)) /\ p = from[Len(st) + 1]
  BY ValueFacts
<1> DEFINE q == p + 2
           w == <<kind, << >>>>
           c == p + 1
<1>3. w \in ValuesAt(s, p, c)
  <2>1. c \in p .. Len(s) /\ p # c /\ c = p + 1 /\ s[c] = Closes(kind)
    BY <1>1
  <2> HIDE DEF c
  <2> QED
    BY <1>1, <2>1, BracketsAt
<1>4. q \in 1 .. (Len(s) + 1) /\ q - 1 = c /\ p \in 1 .. c
  BY <1>1
<1> HIDE DEF q, w, c
<1>5. /\ from[Len(st) + 1] \in 1 .. (q - 1)
      /\ w \in ValuesAt(s, from[Len(st) + 1], q - 1)
  BY <1>2, <1>3, <1>4
<1>6. HasRead(s, q, After(st), st, w)
  BY <1>1, <1>2, <1>4, <1>5, ValueReturned, Zenon
<1> QED
  BY <1>6 DEF q, w

LEMMA OpeningRead ==
    ASSUME NEW s, NEW p, NEW st, NEW v, HasRead(s, p, "value", st, v),
           p < Len(s), NEW kind \in Kinds, s[p] = Opens(kind)
    PROVE  HasRead(s, p + 1, ElementStart(kind), Append(st, Frame(kind, << >>, "")), v)
<1> DEFINE f   == Frame(kind, << >>, "")
           st2 == Append(st, f)
           k   == Len(st)
           q   == p + 1
<1>1. /\ p \in 1 .. Len(s) /\ q \in 1 .. (Len(s) + 1) /\ q - 1 = p /\ Len(s) \in Nat
      /\ q \in (p + 1) .. (Len(s) + 1)
  BY DEF HasRead
<1>2. PICK from, at : Levels(s, st, from, at, k) /\ p = from[k + 1]
  BY ValueFacts
<1>3. IsFrame(f) /\ f.kind = kind /\ f.parsed = << >>
  BY DEF IsFrame, Frame
<1>4. << >> \in OpenAt(s, kind, p, p)
  BY <1>1, BareAt
<1> HIDE DEF f, q
<1>5. Opened(s, f, from[k + 1], q)
  BY <1>1, <1>2, <1>3, <1>4 DEF Opened
<1>6. InnermostIs(s, st2, f, q, q)
  BY <1>2, <1>5, LevelPushed
<1> HIDE DEF st2, k
<1>7. HasRead(s, q, ElementStart(f.kind), st2, v)
  BY <1>1, <1>3, <1>6, ElementComes
<1> QED
  BY <1>3, <1>7 DEF st2, f, q

LEMMA KeyIsRead ==
    ASSUME NEW s, NEW p, NEW st, NEW v, HasRead(s, p, "key", st, v),
           p < Len(s), s[p][1] = "string", s[p + 1] = Colon
    PROVE  HasRead(s, p + 2, "value", [st EXCEPT ![Len(st)].key = s[p][2]], v)
<1> DEFINE k   == Len(st)
           key == s[p][2]
           f   == Frame(st[k].kind, st[k].parsed, key)
           st2 == [st EXCEPT ![k] = f]
           q   == p + 2
<1>1. /\ p \in 1 .. Len(s) /\ p + 1 <= Len(s) /\ Len(s) \in Nat
      /\ q \in 1 .. (Len(s) + 1) /\ q \in p .. (Len(s) + 1) /\ q = p + 2
  BY DEF HasRead
<1>2. PICK from, at : At(s, p, "key", st, v, from, at)
  BY DEF HasRead
<1>3. /\ Levels(s, st, from, at, k - 1) /\ k > 0
      /\ st[k].kind = "object" /\ p = at[k]
  BY <1>2 DEF At
<1>4. IsSequence(st) /\ k \in Nat /\ Opened(s, st[k], from[k], p)
  <2>1. k \in Nat /\ IsSequence(st) /\ \A n \in 1 .. Len(st) : Opened(s, st[n], from[n], at[n])
    BY <1>3, LevelFacts, Zenon
  <2>2. k \in 1 .. Len(st)
    BY <1>3, <2>1
  <2> QED
    BY <1>3, <2>1, <2>2
<1>5. IsFrame(st[k])
  BY <1>4, Zenon DEF Opened
<1>6. /\ IsFrame(f) /\ f.kind = st[k].kind /\ f.parsed = st[k].parsed /\ f.key = key
  BY <1>5 DEF IsFrame, Frame
<1>7. [st EXCEPT ![k].key = key] = st2
  <2>1. st[k] = Frame(st[k].kind, st[k].parsed, st[k].key)
    BY <1>5, Zenon DEF IsFrame
  <2>2. [st[k] EXCEPT !.key = key] = f
    BY <2>1 DEF Frame
  <2> HIDE DEF key, k
  <2>3. [st EXCEPT ![k].key = key] = [st EXCEPT ![k] = [st[k] EXCEPT !.key = key]]
    OBVIOUS
  <2> HIDE DEF f
  <2> QED
    BY <2>2, <2>3
<1>8. s[p][2] = key
  OBVIOUS
<1> HIDE DEF f, key, q
<1>9. Opened(s, f, from[k], p)
  BY <1>4, <1>6, Zenon DEF Opened
<1>10. KeyRead(s, f, p, q)
  BY <1>1, <1>3, <1>6, <1>8 DEF KeyRead, KeyAt
<1>11. InnermostIs(s, st2, f, p, q)
  BY <1>3, <1>9, LevelChanged
<1> HIDE DEF st2, k
<1>12. HasRead(s, q, "value", st2, v)
  BY <1>1, <1>10, <1>11, ValueComes
<1> QED
  BY <1>7, <1>12 DEF key, k, q

(* The value just read is one more element of the innermost. *)
LEMMA ElementFacts ==
    ASSUME NEW s, NEW p, NEW st, NEW v, HasRead(s, p, "next", st, v)
    PROVE  LET k == Len(st)
               f == st[k]
           IN  /\ k \in Nat \ {0} /\ IsSequence(st) /\ Last(st) = f /\ IsFrame(f)
               /\ \E from, at :
                     /\ Levels(s, st, from, at, k)
                     /\ Opened(s, f, from[k], at[k])
                     /\ p > from[k] + 1
                     /\ Append(f.parsed, Item(f.kind, f.key, v))
                            \in ListsAt(s, f.kind, from[k], p - 1)
<1> DEFINE k == Len(st)
           f == st[k]
<1>1. PICK from, at : At(s, p, "next", st, v, from, at)
  BY DEF HasRead
<1>2. /\ Levels(s, st, from, at, k) /\ from[k + 1] \in 1 .. (p - 1)
      /\ v \in ValuesAt(s, from[k + 1], p - 1)
      /\ "next" = After(st)
  BY <1>1 DEF At
<1>3. k \in Nat \ {0} /\ IsSequence(st)
  <2>1. st # << >>
    BY <1>2 DEF After
  <2> QED
    BY <1>2, <2>1, LevelFacts
<1>4. Opened(s, f, from[k], at[k]) /\ KeyRead(s, f, at[k], from[k + 1])
  <2>1. k \in 1 .. Len(st) /\ k \in 1 .. k
    BY <1>3
  <2> QED
    BY <1>2, <2>1, LevelFacts
<1>5. p \in 1 .. (Len(s) + 1) /\ Len(s) \in Nat
  BY DEF HasRead
<1>6. Last(st) = f
  BY DEF Last
<1> HIDE DEF f, k
<1> DEFINE a == from[k]
           b == at[k]
           c == from[k + 1]
           n == b - 1
           d == p - 1
<1>7. /\ IsFrame(f) /\ f.kind \in Kinds /\ f.parsed \in OpenAt(s, f.kind, a, b - 1)
      /\ a \in 1 .. Len(s) /\ b \in (a + 1) .. (Len(s) + 1)
      /\ c \in b .. (Len(s) + 1) /\ KeyAt(s, f.kind, f.key, b, c)
      /\ c \in 1 .. (p - 1) /\ v \in ValuesAt(s, c, p - 1)
  <2>1. IsFrame(f) => f.kind \in Kinds
    BY Zenon DEF IsFrame
  <2> QED
    BY <1>2, <1>4, <2>1, Zenon DEF Opened, KeyRead
<1> HIDE DEF a, b, c
<1>8. /\ n \in a .. (d - 1) /\ n + 1 = b /\ c \in (n + 1) .. d
      /\ p > a + 1 /\ d \in a .. Len(s)
  BY <1>5, <1>7
<1>9. n = b - 1 /\ d = p - 1
  OBVIOUS
<1> HIDE DEF n, d
<1>10. AnotherAt(s, f.kind, a, n, f.parsed, f.key, c, v, d)
  BY <1>7, <1>8, <1>9, Zenon DEF AnotherAt
<1>11. Append(f.parsed, Item(f.kind, f.key, v)) \in ListsAt(s, f.kind, a, d)
  <2> DEFINE e == Item(f.kind, f.key, v)
             kind == f.kind
             before == f.parsed
             key == f.key
  <2>1. kind \in Kinds /\ AnotherAt(s, kind, a, n, before, key, c, v, d)
    BY <1>7, <1>10
  <2> HIDE DEF kind, before, key
  <2>2. Append(before, Item(kind, key, v)) \in ListsAt(s, kind, a, d)
    BY <1>5, <1>7, <1>8, <2>1, ListAt
  <2> QED
    BY <2>2 DEF kind, before, key
<1>12. p > from[k] + 1 /\ Opened(s, f, from[k], at[k])
  BY <1>4, <1>8 DEF a
<1> QED
  BY <1>2, <1>3, <1>6, <1>7, <1>9, <1>11, <1>12, Zenon DEF f, k, a

LEMMA SeparatorRead ==
    ASSUME NEW s, NEW p, NEW st, NEW v, HasRead(s, p, "next", st, v),
           p <= Len(s), s[p] = Comma
    PROVE  HasRead(s, p + 1, ElementStart(Last(st).kind),
                   [st EXCEPT ![Len(st)] = Grown(Last(st), v)], v)
<1> DEFINE k   == Len(st)
           g   == st[k]
           list == Append(g.parsed, Item(g.kind, g.key, v))
           f   == Frame(g.kind, list, g.key)
           st2 == [st EXCEPT ![k] = f]
           q   == p + 1
<1>1. /\ p \in 1 .. Len(s) /\ Len(s) \in Nat /\ q \in 1 .. (Len(s) + 1)
      /\ q - 1 = p /\ q > p
  BY DEF HasRead
<1>2. k \in Nat \ {0} /\ Last(st) = g /\ IsFrame(g)
  BY ElementFacts
<1>3. PICK from, at :
          /\ Levels(s, st, from, at, k)
          /\ Opened(s, g, from[k], at[k])
          /\ p > from[k] + 1
          /\ list \in ListsAt(s, g.kind, from[k], p - 1)
  BY ElementFacts
<1>4. from[k] \in 1 .. Len(s) /\ s[from[k]] = Opens(g.kind) /\ g.kind \in Kinds
  BY <1>2, <1>3, Zenon DEF Opened, IsFrame
<1>5. Grown(g, v) = f
  <2> DEFINE kind == g.kind
             parsed == g.parsed
             key == g.key
  <2>1. g = Frame(kind, parsed, key)
    BY <1>2, Zenon DEF IsFrame
  <2> HIDE DEF kind, parsed, key, g
  <2>2. Grown(Frame(kind, parsed, key), v) = Frame(kind, Append(parsed, Item(kind, key, v)), key)
    BY GrownFrame
  <2>3. Grown(g, v) = Frame(kind, Append(parsed, Item(kind, key, v)), key)
    BY <2>1, <2>2, Zenon
  <2> QED
    BY <2>3, Zenon DEF kind, parsed, key
<1> HIDE DEF g, list
<1>6. IsFrame(f) /\ f.kind = g.kind /\ f.parsed = list
  BY <1>4 DEF IsFrame, Frame
<1> HIDE DEF k, f
<1>7. list \in OpenAt(s, g.kind, from[k], p)
  <2> DEFINE a == from[k]
             kind == g.kind
  <2>1. /\ a \in 1 .. Len(s) /\ p \in a .. Len(s) /\ a # p /\ kind \in Kinds
        /\ list \in ListsAt(s, kind, a, p - 1)
    BY <1>1, <1>3, <1>4
  <2> HIDE DEF a, kind
  <2>2. list \in OpenAt(s, kind, a, p)
    BY <1>1, <2>1, CommaAt
  <2> QED
    BY <2>2 DEF a, kind
<1> HIDE DEF q
<1>8. Opened(s, f, from[k], q)
  <2>1. q \in (from[k] + 1) .. (Len(s) + 1)
    BY <1>1, <1>3, <1>4
  <2> QED
    BY <1>1, <1>4, <1>6, <1>7, <2>1 DEF Opened
<1>9. Levels(s, st, from, at, k - 1)
  <2>1. \A n \in 1 .. (k - 1) : n \in 1 .. k
    BY <1>2
  <2> QED
    BY <1>3, <2>1 DEF Levels
<1>10. InnermostIs(s, st2, f, q, q)
  <2>1. k = Len(st) /\ k > 0
    BY <1>2 DEF k
  <2> QED
    BY <1>8, <1>9, <2>1, LevelChanged
<1> HIDE DEF st2
<1>11. HasRead(s, q, ElementStart(f.kind), st2, v)
  BY <1>1, <1>4, <1>6, <1>10, ElementComes
<1>12. st2 = [st EXCEPT ![Len(st)] = Grown(Last(st), v)]
  BY <1>2, <1>5, Zenon DEF st2, k
<1> QED
  BY <1>2, <1>6, <1>11, <1>12, Zenon DEF q

LEMMA ClosingRead ==
    ASSUME NEW s, NEW p, NEW st, NEW v, HasRead(s, p, "next", st, v),
           p <= Len(s), s[p] = Closes(Last(st).kind)
    PROVE  HasRead(s, p + 1, After(Front(st)), Front(st),
                   <<Last(st).kind, Grown(Last(st), v).parsed>>)
<1> DEFINE k   == Len(st)
           g   == st[k]
           list == Append(g.parsed, Item(g.kind, g.key, v))
           st2 == Front(st)
           q   == p + 1
           w   == <<g.kind, list>>
<1>1. /\ p \in 1 .. Len(s) /\ Len(s) \in Nat /\ q \in 1 .. (Len(s) + 1) /\ q - 1 = p
  BY DEF HasRead
<1>2. k \in Nat \ {0} /\ Last(st) = g /\ IsFrame(g)
  BY ElementFacts
<1>3. PICK from, at :
          /\ Levels(s, st, from, at, k)
          /\ Opened(s, g, from[k], at[k])
          /\ p > from[k] + 1
          /\ list \in ListsAt(s, g.kind, from[k], p - 1)
  BY ElementFacts
<1>4. from[k] \in 1 .. Len(s) /\ s[from[k]] = Opens(g.kind) /\ g.kind \in Kinds
  BY <1>2, <1>3, Zenon DEF Opened, IsFrame
<1>5. Grown(g, v).parsed = list
  <2> DEFINE kind == g.kind
             parsed == g.parsed
             key == g.key
             more == Append(parsed, Item(kind, key, v))
  <2>1. g = Frame(kind, parsed, key)
    BY <1>2, Zenon DEF IsFrame
  <2> HIDE DEF kind, parsed, key, g
  <2>2. Grown(Frame(kind, parsed, key), v) = Frame(kind, more, key)
    BY GrownFrame
  <2> HIDE DEF more
  <2>3. Frame(kind, more, key).parsed = more
    BY DEF Frame
  <2>4. Grown(g, v).parsed = more
    BY <2>1, <2>2, <2>3, Zenon
  <2> QED
    BY <2>4, Zenon DEF kind, parsed, key, more
<1>6. Levels(s, st2, from, at, Len(st2)) /\ Len(st2) + 1 = k
  <2>1. Levels(s, st2, from, at, k - 1) /\ Len(st2) = k - 1
    BY <1>2, <1>3, LevelPopped
  <2> HIDE DEF st2
  <2> QED
    BY <1>2, <2>1
<1> DEFINE a  == from[k]
<1>7. w \in ValuesAt(s, a, p) /\ a \in 1 .. p
  <2> DEFINE kind == g.kind
  <2> HIDE DEF list
  <2>1. /\ kind \in Kinds /\ a \in 1 .. Len(s) /\ p \in a .. Len(s) /\ a # p /\ p # a + 1
        /\ s[a] = Opens(kind) /\ s[p] = Closes(kind)
        /\ list \in ListsAt(s, kind, a, p - 1)
    BY <1>1, <1>2, <1>3, <1>4
  <2>2. a \in 1 .. p
    BY <1>1, <2>1
  <2> HIDE DEF a, kind
  <2>3. <<kind, list>> \in ValuesAt(s, a, p)
    BY <1>1, <2>1, BracketsAt
  <2> QED
    BY <2>2, <2>3 DEF kind
<1>8. from[Len(st2) + 1] \in 1 .. (q - 1) /\ w \in ValuesAt(s, from[Len(st2) + 1], q - 1)
  <2> HIDE DEF w, st2, q, k
  <2> QED
    BY <1>1, <1>6, <1>7
<1> HIDE DEF st2, q, w
<1>9. HasRead(s, q, After(st2), st2, w)
  BY <1>1, <1>6, <1>8, ValueReturned, Zenon
<1> QED
  BY <1>2, <1>5, <1>9, Zenon DEF st2, q, w

(* Whatever it does, it has read what it says. *)
LEMMA ReadOn ==
    ASSUME NEW s, NEW p, NEW c, NEW st, NEW v, HasRead(s, p, c, st, v),
           NEW q, NEW d, NEW st2, NEW w, GoesOn(s, p, c, st, v, <<q, d, st2, w>>)
    PROVE  HasRead(s, q, d, st2, w)
<1> DEFINE y == <<q, d, st2, w>>
<1>1. p \in Nat /\ Len(s) \in Nat
  BY DEF HasRead
<1>2. CASE OverScalar(s, p, c, st, v, y)
  <2>1. /\ c = "value" /\ p <= Len(s) /\ s[p] \in Scalars
        /\ q = p + 1 /\ d = After(st) /\ st2 = st /\ w = Scalar(s[p])
    BY <1>1, <1>2 DEF OverScalar
  <2> QED
    BY <2>1, ScalarRead, Zenon
<1>3. ASSUME NEW kind \in Kinds, OverOpening(s, p, c, st, v, y, kind)
      PROVE  HasRead(s, q, d, st2, w)
  <2>1. c = "value" /\ p < Len(s) /\ s[p] = Opens(kind)
    <3>1. c = "value" /\ p \in 1 .. (Len(s) - 1) /\ s[p] = Opens(kind)
      BY <1>3, Zenon DEF OverOpening
    <3> QED
      BY <1>1, <3>1
  <2>2. CASE s[p + 1] = Closes(kind)
    <3>1. q = p + 2 /\ d = After(st) /\ st2 = st /\ w = <<kind, << >>>>
      BY <1>3, <2>2 DEF OverOpening
    <3> QED
      BY <2>1, <2>2, <3>1, EmptyRead, Zenon
  <2>3. CASE s[p + 1] # Closes(kind)
    <3>1. /\ q = p + 1 /\ d = ElementStart(kind)
          /\ st2 = Append(st, Frame(kind, << >>, "")) /\ w = v
      BY <1>3, <2>3 DEF OverOpening
    <3> QED
      BY <2>1, <3>1, OpeningRead, Zenon
  <2> QED
    BY <2>2, <2>3
<1>4. CASE OverKey(s, p, c, st, v, y)
  <2>1. /\ c = "key" /\ p < Len(s) /\ s[p][1] = "string" /\ s[p + 1] = Colon
        /\ q = p + 2 /\ d = "value" /\ st2 = [st EXCEPT ![Len(st)].key = s[p][2]] /\ w = v
    BY <1>1, <1>4 DEF OverKey
  <2> QED
    BY <2>1, KeyIsRead, Zenon
<1>5. CASE OverComma(s, p, c, st, v, y)
  <2>1. /\ c = "next" /\ p <= Len(s) /\ s[p] = Comma
        /\ q = p + 1 /\ d = ElementStart(Last(st).kind)
        /\ st2 = [st EXCEPT ![Len(st)] = Grown(Last(st), v)] /\ w = v
    BY <1>1, <1>5 DEF OverComma
  <2> QED
    BY <2>1, SeparatorRead, Zenon
<1>6. CASE OverClosing(s, p, c, st, v, y)
  <2>1. /\ c = "next" /\ p <= Len(s) /\ s[p] = Closes(Last(st).kind)
        /\ q = p + 1 /\ d = After(Front(st)) /\ st2 = Front(st)
        /\ w = <<Last(st).kind, Grown(Last(st), v).parsed>>
    BY <1>1, <1>6 DEF OverClosing
  <2> QED
    BY <2>1, ClosingRead, Zenon
<1>7. "array" \in Kinds /\ "object" \in Kinds
  BY DEF Kinds
<1> QED
  BY <1>2, <1>3, <1>4, <1>5, <1>6, <1>7, Zenon DEF GoesOn

(* What the parser does is going on, and src stays as it is. *)
LEMMA ParseGoesOn ==
    ASSUME pos \in Nat \ {0}, Len(src) \in Nat, Parse
    PROVE  src' = src /\ GoesOn(src, pos, pc, stack, value, <<pos', pc', stack', value'>>)
<1> DEFINE y == <<pos', pc', stack', value'>>
<1>1. \A f : WithValue(f) = Grown(f, value)
  BY Zenon DEF WithValue, Grown, Item
<1>2. CASE ParseScalar
  <2>1. /\ pc = "value" /\ pos <= Len(src) /\ src[pos] \in Scalars /\ src' = src
        /\ y = <<pos + 1, After(stack), stack, Scalar(src[pos])>>
    BY <1>2, Zenon DEF ParseScalar, AtScalar, More, Returns, After
  <2>2. pos \in 1 .. Len(src)
    BY <2>1
  <2> HIDE DEF y
  <2>3. OverScalar(src, pos, pc, stack, value, y)
    BY <2>1, <2>2, Zenon DEF OverScalar
  <2> QED
    BY <2>1, <2>3, Zenon DEF GoesOn, y
<1>3. ASSUME NEW kind \in Kinds, Open(kind)
      PROVE  src' = src /\ OverOpening(src, pos, pc, stack, value, y, kind)
  <2>1. pc = "value" /\ src[pos] = Opens(kind) /\ pos < Len(src) /\ src' = src
    BY <1>3, Zenon DEF Open, AtOpening, Sees, Opens
  <2>2. pos \in 1 .. (Len(src) - 1)
    BY <2>1
  <2>3. CASE src[pos + 1] = Closes(kind)
    <3>1. pos' = pos + 2 /\ Returns(<<kind, << >>>>, stack)
      BY <1>3, <2>3, Zenon DEF Open, Closes
    <3>2. y = <<pos + 2, After(stack), stack, <<kind, << >>>>>>
      BY <3>1, Zenon DEF Returns, After
    <3> HIDE DEF y
    <3> QED
      BY <2>1, <2>2, <2>3, <3>2, Zenon DEF OverOpening
  <2>4. CASE src[pos + 1] # Closes(kind)
    <3>1. /\ pos' = pos + 1 /\ pc' = ElementStart(kind) /\ value' = value
          /\ stack' = Append(stack, Frame(kind, << >>, ""))
      BY <1>3, <2>4, Zenon DEF Open, Closes, Frame
    <3>2. y = <<pos + 1, ElementStart(kind), Append(stack, Frame(kind, << >>, "")), value>>
      BY <3>1, Zenon
    <3> HIDE DEF y
    <3> QED
      BY <2>1, <2>2, <2>4, <3>2, Zenon DEF OverOpening
  <2> QED
    BY <2>3, <2>4
<1>4. CASE OpenObject \/ OpenArray
  <2>1. "object" \in Kinds /\ "array" \in Kinds
    BY DEF Kinds
  <2> QED
    BY <1>3, <1>4, <2>1, Zenon DEF OpenObject, OpenArray, GoesOn
<1>5. CASE ParseKey
  <2>1. /\ pc = "key" /\ pos < Len(src) /\ src[pos][1] = "string" /\ src[pos + 1] = Colon
        /\ src' = src
        /\ y = <<pos + 2, "value", [stack EXCEPT ![Len(stack)].key = src[pos][2]], value>>
    BY <1>5, Zenon DEF ParseKey, AtKey, Colon
  <2>2. pos \in 1 .. (Len(src) - 1)
    BY <2>1
  <2> HIDE DEF y
  <2>3. OverKey(src, pos, pc, stack, value, y)
    BY <2>1, <2>2, Zenon DEF OverKey
  <2> QED
    BY <2>1, <2>3, Zenon DEF GoesOn, y
<1>6. CASE Separator
  <2>1. /\ pc = "next" /\ pos <= Len(src) /\ src[pos] = Comma /\ src' = src
        /\ y = <<pos + 1, ElementStart(Last(stack).kind),
                 [stack EXCEPT ![Len(stack)] = WithValue(stack[Len(stack)])], value>>
    BY <1>6, Zenon DEF Separator, AtSeparator, Sees, More, Innermost, Comma
  <2>2. pos \in 1 .. Len(src)
    BY <2>1
  <2>3. WithValue(stack[Len(stack)]) = Grown(Last(stack), value)
    BY <1>1, Zenon DEF Last
  <2> HIDE DEF y
  <2>4. OverComma(src, pos, pc, stack, value, y)
    BY <2>1, <2>2, <2>3, Zenon DEF OverComma
  <2> QED
    BY <2>1, <2>4, Zenon DEF GoesOn, y
<1>7. CASE Close
  <2>1. /\ pc = "next" /\ pos <= Len(src) /\ src[pos] = Closes(Last(stack).kind) /\ src' = src
        /\ y = <<pos + 1, After(Front(stack)), Front(stack),
                 <<Last(stack).kind, WithValue(Last(stack)).parsed>>>>
    BY <1>7, Zenon DEF Close, AtClosing, Sees, More, Innermost, Returns, Closes, After
  <2>2. pos \in 1 .. Len(src)
    BY <2>1
  <2> HIDE DEF y
  <2>3. OverClosing(src, pos, pc, stack, value, y)
    BY <1>1, <2>1, <2>2, Zenon DEF OverClosing
  <2> QED
    BY <2>1, <2>3, Zenon DEF GoesOn, y
<1> QED
  BY <1>2, <1>4, <1>5, <1>6, <1>7, Zenon DEF Parse

(* What it refuses, nothing goes on from. *)
LEMMA RefusedEnds ==
    ASSUME pos \in Nat \ {0}, Len(src) \in Nat, Refused, NEW y
    PROVE  ~ GoesOn(src, pos, pc, stack, value, y)
<1> SUFFICES ASSUME GoesOn(src, pos, pc, stack, value, y) PROVE FALSE
  OBVIOUS
<1>1. /\ ~ AtScalar /\ ~ AtKey /\ ~ AtSeparator /\ ~ AtClosing
      /\ \A kind \in Kinds : ~ AtOpening(kind)
  BY Zenon DEF Refused
<1>2. /\ pos \in 1 .. Len(src) => More
      /\ pos \in 1 .. (Len(src) - 1) => More /\ pos < Len(src)
  BY DEF More
<1>3. ~ OverScalar(src, pos, pc, stack, value, y)
  BY <1>1, <1>2, Zenon DEF OverScalar, AtScalar
<1>4. ASSUME NEW kind \in Kinds
      PROVE  ~ OverOpening(src, pos, pc, stack, value, y, kind)
  BY <1>1, <1>2, Zenon DEF OverOpening, AtOpening, Sees, Opens
<1>5. ~ OverKey(src, pos, pc, stack, value, y)
  BY <1>1, <1>2, Zenon DEF OverKey, AtKey, Colon
<1>6. ~ OverComma(src, pos, pc, stack, value, y)
  BY <1>1, <1>2, Zenon DEF OverComma, AtSeparator, Sees, Comma
<1>7. ~ OverClosing(src, pos, pc, stack, value, y)
  BY <1>1, <1>2, Zenon DEF OverClosing, AtClosing, Sees, Closes, Innermost
<1>8. "object" \in Kinds /\ "array" \in Kinds
  BY DEF Kinds
<1> QED
  BY <1>3, <1>4, <1>5, <1>6, <1>7, <1>8, Zenon DEF GoesOn

(***************************************************************************)
(* The parser is on its way to every value the text begins with; where it  *)
(* threw, there is none.                                                   *)
(***************************************************************************)
Expects(s, x) ==
    \A n \in 1 .. Len(s) : \A v \in ValuesAt(s, 1, n) :
        Leads(s, x, <<n + 1, "returned", << >>, v>>)

MeansNothing(s) == \A n \in 1 .. Len(s) : ValuesAt(s, 1, n) = {}

ReadsText(s, p, c, st, v) ==
    /\ Len(s) \in Nat
    /\ c = "threw" => MeansNothing(s)
    /\ c # "threw" => HasRead(s, p, c, st, v) /\ Expects(s, <<p, c, st, v>>)

ParserInv == ReadsText(src, pos, pc, stack, value)

LEMMA ReadsOn ==
    ASSUME NEW s, NEW p, NEW c, NEW st, NEW v, ReadsText(s, p, c, st, v), c # "threw",
           NEW q, NEW d, NEW st2, NEW w, GoesOn(s, p, c, st, v, <<q, d, st2, w>>)
    PROVE  ReadsText(s, q, d, st2, w)
<1> DEFINE x == <<p, c, st, v>>
           y == <<q, d, st2, w>>
<1>1. HasRead(s, p, c, st, v) /\ Expects(s, x) /\ Len(s) \in Nat
  BY DEF ReadsText
<1>2. HasRead(s, q, d, st2, w)
  BY <1>1, ReadOn
<1>3. c # "returned"
  BY Zenon DEF GoesOn, OverScalar, OverOpening, OverKey, OverComma, OverClosing
<1>4. Moves(s, x, y)
  <2>1. x[1] = p /\ x[2] = c /\ x[3] = st /\ x[4] = v
    OBVIOUS
  <2> HIDE DEF x, y
  <2> QED
    BY <2>1, Zenon DEF Moves, y
<1>5. ASSUME NEW n \in 1 .. Len(s), NEW u \in ValuesAt(s, 1, n)
      PROVE  Leads(s, y, <<n + 1, "returned", << >>, u>>)
  <2> DEFINE z == <<n + 1, "returned", << >>, u>>
  <2>1. Leads(s, x, z)
    BY <1>1 DEF Expects
  <2>2. x # z
    BY <1>3
  <2> HIDE DEF x, y, z
  <2>3. Leads(s, y, z)
    BY <1>4, <2>1, <2>2, MoveOnTheWay
  <2> QED
    BY <2>3 DEF z
<1>6. Expects(s, y)
  BY <1>5 DEF Expects
<1>7. d # "threw"
  BY <1>2 DEF HasRead
<1> QED
  BY <1>1, <1>2, <1>6, <1>7, Zenon DEF ReadsText

(* Where it stops, that is the value the text begins with. *)
LEMMA ReadsNoFurther ==
    ASSUME NEW s, NEW p, NEW c, NEW st, NEW v, ReadsText(s, p, c, st, v), c # "threw",
           \A y : ~ GoesOn(s, p, c, st, v, y),
           NEW n \in 1 .. Len(s), NEW u \in ValuesAt(s, 1, n)
    PROVE  p = n + 1 /\ c = "returned" /\ u = v
<1> DEFINE x == <<p, c, st, v>>
           z == <<n + 1, "returned", << >>, u>>
<1>1. Leads(s, x, z)
  BY Zenon DEF ReadsText, Expects
<1>2. \A y : ~ Moves(s, x, y)
  <2>1. x[1] = p /\ x[2] = c /\ x[3] = st /\ x[4] = v
    OBVIOUS
  <2> HIDE DEF x
  <2> QED
    BY <2>1, Zenon DEF Moves
<1>3. x = z
  <2> HIDE DEF x, z
  <2> QED
    BY <1>1, <1>2, NoMoveNoWay
<1> QED
  BY <1>3

LEMMA ReadsTextThen ==
    ASSUME ParserInv, [Next]_vars
    PROVE  ParserInv'
<1> SUFFICES ASSUME NEW CONSTANT s, NEW CONSTANT p, NEW CONSTANT c, NEW CONSTANT st,
                    NEW CONSTANT v, s = src', p = pos', c = pc', st = stack', v = value'
             PROVE  ReadsText(s, p, c, st, v)
  BY DEF ParserInv
<1>1. ReadsText(src, pos, pc, stack, value) /\ Len(src) \in Nat
  BY DEF ParserInv, ReadsText
<1>2. ASSUME pc # "threw"
      PROVE  pos \in Nat \ {0}
  BY <1>1, <1>2 DEF ReadsText, HasRead
<1>3. CASE UNCHANGED jsonVars
  BY <1>1, <1>3, Zenon DEF jsonVars
<1>4. CASE Parse
  <2>1. pc # "threw"
    BY <1>4 DEF Parse, ParseScalar, OpenObject, OpenArray, Open, ParseKey, Separator, Close,
                AtScalar, AtOpening, AtKey, AtSeparator, AtClosing
  <2>2. src' = src /\ GoesOn(src, pos, pc, stack, value, <<pos', pc', stack', value'>>)
    BY <1>1, <1>2, <1>4, <2>1, ParseGoesOn
  <2> QED
    BY <1>1, <2>1, <2>2, ReadsOn, Zenon
<1>5. CASE Throw
  <2>1. Refused /\ s = src /\ c = "threw" /\ pc # "threw" /\ pc # "returned"
    BY <1>5 DEF Throw, Refused
  <2>2. \A y : ~ GoesOn(src, pos, pc, stack, value, y)
    BY <1>1, <1>2, <2>1, RefusedEnds
  <2>3. ASSUME NEW n \in 1 .. Len(src), NEW u \in ValuesAt(src, 1, n)
        PROVE  FALSE
    BY <1>1, <2>1, <2>2, ReadsNoFurther, Zenon
  <2>4. MeansNothing(src)
    BY <2>3 DEF MeansNothing
  <2> QED
    BY <1>1, <2>1, <2>4 DEF ReadsText
<1>6. Next \/ UNCHANGED vars => Parse \/ Throw \/ UNCHANGED jsonVars
  BY DEF Next, Load, ReadLine, EndYaml, ParseStep, EndJson, LoadRule, ReturnRules,
         FailRules, PrepareStep, Done, vars
<1> QED
  BY <1>3, <1>4, <1>5, <1>6

LEMMA TextIsThere ==
    ASSUME Init
    PROVE  ParserInv
<1>1. Len(src) \in Nat /\ pos = 1 /\ pc = "value" /\ stack = << >>
  BY FilesAssumption DEF Init, JsonInit
<1>2. IsSequence(stack) /\ Len(stack) = 0
  BY <1>1, EmptySequence
<1>3. HasRead(src, pos, pc, stack, value)
  <2> DEFINE from == [n \in {1} |-> 1]
  <2>1. Levels(src, stack, from, << >>, Len(stack))
    BY <1>2 DEF Levels
  <2>2. At(src, pos, pc, stack, value, from, << >>)
    BY <1>1, <1>2, <2>1 DEF At
  <2>3. pos \in 1 .. (Len(src) + 1)
    BY <1>1
  <2>4. pc \in {"value", "key", "next", "returned"}
    BY <1>1
  <2> HIDE DEF from
  <2> QED
    BY <1>1, <2>2, <2>3, <2>4, Zenon DEF HasRead
<1>4. Expects(src, <<pos, pc, stack, value>>)
  <2>1. ASSUME NEW n \in 1 .. Len(src)
        PROVE  ReadsValues(src, 1, n)
    <3>1. 1 \in 1 .. Len(src) /\ n \in 1 .. Len(src)
      BY <1>1
    <3> QED
      BY <1>1, <3>1, EveryValueRead
  <2>2. After(stack) = "returned"
    BY <1>1 DEF After
  <2> QED
    BY <1>1, <1>2, <2>1, <2>2, Zenon DEF Expects, ReadsValues
<1> QED
  BY <1>1, <1>3, <1>4 DEF ParserInv, ReadsText

LEMMA ValueIsRead ==
    ASSUME ParserInv, pc = "returned"
    PROVE  /\ Len(src) \in Nat /\ pos \in Nat /\ pos - 1 \in 1 .. Len(src)
           /\ value \in ValuesAt(src, 1, pos - 1)
           /\ \A n \in 1 .. Len(src) : \A u \in ValuesAt(src, 1, n) : pos = n + 1 /\ u = value
<1>1. ReadsText(src, pos, pc, stack, value) /\ Len(src) \in Nat
  BY DEF ParserInv, ReadsText
<1>2. HasRead(src, pos, "returned", stack, value)
  BY <1>1 DEF ReadsText
<1>3. PICK from, at : At(src, pos, "returned", stack, value, from, at)
  BY <1>2 DEF HasRead
<1>4. stack = << >>
  BY <1>3 DEF At, After
<1>5. Len(stack) + 1 = 1
  BY <1>4, EmptySequence
<1>6. /\ from[1] = 1 /\ from[1] \in 1 .. (pos - 1)
      /\ value \in ValuesAt(src, from[1], pos - 1)
  BY <1>3, <1>5 DEF At, Levels
<1>7. value \in ValuesAt(src, 1, pos - 1) /\ pos - 1 \in 1 .. Len(src) /\ pos \in Nat
  BY <1>1, <1>2, <1>6 DEF HasRead
<1>8. \A y : ~ GoesOn(src, pos, pc, stack, value, y)
  BY Zenon DEF GoesOn, OverScalar, OverOpening, OverKey, OverComma, OverClosing
<1>9. ASSUME NEW n \in 1 .. Len(src), NEW u \in ValuesAt(src, 1, n)
      PROVE  pos = n + 1 /\ u = value
  <2>1. pc # "threw"
    OBVIOUS
  <2>2. pos = n + 1 /\ pc = "returned" /\ u = value
    BY <1>1, <1>8, <2>1, ReadsNoFurther, Zenon
  <2> QED
    BY <2>2, Zenon
<1> QED
  BY <1>1, <1>7, <1>9

LEMMA ReturnsTheValue ==
    ASSUME ParserInv
    PROVE  ParsesJson
<1>1. \A n : Meanings(src)[<<"value", 1, n>>] = ValuesAt(src, 1, n)
  BY Zenon DEF ValuesAt
<1>2. ASSUME pc = "threw"
      PROVE  \A n \in 1 .. Len(src) : ValuesAt(src, 1, n) = {}
  BY <1>2 DEF ParserInv, ReadsText, MeansNothing
<1>3. ASSUME pc = "returned"
      PROVE  /\ ValuesAt(src, 1, pos - 1) = {value}
             /\ \A n \in 1 .. Len(src) : n # pos - 1 => ValuesAt(src, 1, n) = {}
  <2>1. /\ Len(src) \in Nat /\ pos \in Nat /\ pos - 1 \in 1 .. Len(src)
        /\ value \in ValuesAt(src, 1, pos - 1)
        /\ \A n \in 1 .. Len(src) : \A u \in ValuesAt(src, 1, n) : pos = n + 1 /\ u = value
    BY <1>3, ValueIsRead
  <2>2. \A n \in 1 .. Len(src) : pos = n + 1 => n = pos - 1
    BY <2>1
  <2> QED
    BY <2>1, <2>2
<1> QED
  BY <1>1, <1>2, <1>3 DEF ParsesJson

(***************************************************************************)
(* rules_engine.hpp, MiniJsonParser::parse: it returns exactly if the text *)
(* begins with a value of JSON, and then returns that value and stands     *)
(* behind it; and it throws at every other text - whatever the file and    *)
(* however deep it is nested.                                              *)
(***************************************************************************)
THEOREM JsonIsParsed == Spec => []ParsesJson
<1>1. Init => ParserInv
  BY TextIsThere
<1>2. ParserInv /\ [Next]_vars => ParserInv'
  BY ReadsTextThen
<1>3. ParserInv => ParsesJson
  BY ReturnsTheValue
<1> QED
  BY <1>1, <1>2, <1>3, PTL DEF Spec
-----------------------------------------------------------------------------
(* Configuration: an element and the rule it writes.                       *)
LEMMA IntervalFacts ==
    ASSUME NEW b, NEW n \in 1 .. b
    PROVE  n \in Nat /\ 1 <= n
OBVIOUS

(* The first member with a key is the one that find finds. *)
LEMMA FirstFound ==
    ASSUME NEW elem, NEW key, NEW n \in 1 .. Len(elem[2]), elem[2][n].key = key,
           \A m \in 1 .. Len(elem[2]) : elem[2][m].key = key => n <= m
    PROVE  Has(elem, key) /\ find(elem, key) = elem[2][n].value
<1> DEFINE U == {k \in 1 .. Len(elem[2]) : elem[2][k].key = key}
<1>1. n \in U /\ \A k \in U : k \in Nat /\ n <= k
  BY IntervalFacts
<1>2. \A k \in U : (\A y \in U : k <= y) => k = n
  BY <1>1
<1> HIDE DEF U
<1>3. Min(U) = n
  BY <1>1, <1>2 DEF Min
<1>4. find(elem, key) = elem[2][Min(U)].value
  BY DEF find, U
<1> QED
  BY <1>1, <1>3, <1>4 DEF Has, U

LEMMA GivenIsFound ==
    ASSUME NEW elem, NEW key, NEW kind, NEW what, Given(elem, key, kind, what)
    PROVE  /\ Has(elem, key)
           /\ find(elem, key)[1] = kind
           /\ find(elem, key)[2] = what
<1>1. PICK n \in 1 .. Len(elem[2]) :
         /\ elem[2][n].key = key
         /\ \A m \in 1 .. Len(elem[2]) : elem[2][m].key = key => n <= m
         /\ elem[2][n].value[1] = kind
         /\ elem[2][n].value[2] = what
  BY DEF Given
<1>2. Has(elem, key) /\ find(elem, key) = elem[2][n].value
  BY <1>1, FirstFound
<1> QED
  BY <1>1, <1>2

LEMMA FoundIsGiven ==
    ASSUME NEW elem, NEW key, Has(elem, key)
    PROVE  Given(elem, key, find(elem, key)[1], find(elem, key)[2])
<1> DEFINE U == {k \in 1 .. Len(elem[2]) : elem[2][k].key = key}
<1>1. U \subseteq Nat /\ U # {}
  BY IntervalFacts DEF Has
<1>2. PICK n \in U : \A y \in U : n <= y
  BY <1>1, LeastNatural
<1>3. /\ n \in 1 .. Len(elem[2]) /\ elem[2][n].key = key
      /\ \A m \in 1 .. Len(elem[2]) : elem[2][m].key = key => n <= m
  BY <1>2
<1>4. find(elem, key) = elem[2][n].value
  BY <1>3, FirstFound
<1> QED
  BY <1>3, <1>4 DEF Given

LEMMA AbsentIsNotFound ==
    ASSUME NEW elem, NEW key
    PROVE  Absent(elem, key) <=> ~ Has(elem, key)
BY DEF Absent, Has

(* The tables have exactly the names of each type and priority. *)
LEMMA NamesOfTypes ==
    /\ \A type \in RuleType : \A name \in TypeNames(type) :
          /\ name \in DOMAIN string_to_ruletype
          /\ string_to_ruletype[name] = type
    /\ \A name \in DOMAIN string_to_ruletype :
          \E type \in RuleType : name \in TypeNames(type)
<1>1. /\ TypeNames("THRESHOLD") = {"threshold", "simple"}
      /\ TypeNames("STEP_DIFF") = {"step_difference", "step_diff"}
      /\ TypeNames("STATEFUL") = {"stateful"}
      /\ TypeNames("CORRELATION") = {"correlation"}
  BY DEF TypeNames
<1>2. DOMAIN string_to_ruletype = {"threshold", "simple", "step_difference", "step_diff",
                                   "stateful", "correlation"}
  BY DEF string_to_ruletype
<1>3. /\ string_to_ruletype["threshold"] = "THRESHOLD"
      /\ string_to_ruletype["simple"] = "THRESHOLD"
      /\ string_to_ruletype["step_difference"] = "STEP_DIFF"
      /\ string_to_ruletype["step_diff"] = "STEP_DIFF"
      /\ string_to_ruletype["stateful"] = "STATEFUL"
      /\ string_to_ruletype["correlation"] = "CORRELATION"
  BY DEF string_to_ruletype
<1> QED
  BY <1>1, <1>2, <1>3 DEF RuleType

LEMMA NamesOfPriorities ==
    /\ \A priority \in 0 .. 2 : \A name \in PriorityNames(priority) :
          /\ name \in DOMAIN string_to_priority
          /\ string_to_priority[name] = priority
    /\ \A name \in DOMAIN string_to_priority :
          \E priority \in 0 .. 2 : name \in PriorityNames(priority)
    /\ "LOW" \in PriorityNames(0)
<1>1. /\ PriorityNames(0) = {"LOW", "low"}
      /\ PriorityNames(1) = {"MEDIUM", "medium"}
      /\ PriorityNames(2) = {"HIGH", "high"}
  BY DEF PriorityNames
<1>2. DOMAIN string_to_priority = {"LOW", "low", "MEDIUM", "medium", "HIGH", "high"}
  BY DEF string_to_priority
<1>3. /\ string_to_priority["LOW"] = 0 /\ string_to_priority["low"] = 0
      /\ string_to_priority["MEDIUM"] = 1 /\ string_to_priority["medium"] = 1
      /\ string_to_priority["HIGH"] = 2 /\ string_to_priority["high"] = 2
  BY DEF string_to_priority
<1>4. \A n \in 0 .. 2 : n = 0 \/ n = 1 \/ n = 2
  OBVIOUS
<1> QED
  BY <1>1, <1>2, <1>3, <1>4

LEMMA NamesAreNotEmpty ==
    "" \notin DOMAIN string_to_ruletype /\ "" \notin DOMAIN string_to_priority
       /\ "" \notin CompOps
<1>1. "" \notin DOMAIN string_to_ruletype
  BY DEF string_to_ruletype
<1>2. "" \notin DOMAIN string_to_priority
  BY DEF string_to_priority
<1>3. "" \notin CompOps
  BY Zenon DEF CompOps
<1> QED
  BY <1>1, <1>2, <1>3
(***************************************************************************)
(* An element that writes a rule is accepted and read as that rule.        *)
(***************************************************************************)
LEMMA StringIsFound ==
    ASSUME NEW elem, NEW key, NEW s, Given(elem, key, "string", s)
    PROVE  Has(elem, key) /\ as_string(find(elem, key)) = s
BY GivenIsFound DEF as_string

LEMMA StringOrDefault ==
    ASSUME NEW elem, NEW key, NEW s, NEW default, GivenOr(elem, key, "string", s, default)
    PROVE  /\ StringOr(elem, key, default) = s
           /\ Has(elem, key) => as_string(find(elem, key)) = s
BY StringIsFound, AbsentIsNotFound DEF GivenOr, StringOr

LEMMA TypeIsFound ==
    ASSUME NEW elem, NEW type \in RuleType, WritesType(elem, type)
    PROVE  /\ Has(elem, "type")
           /\ as_string(find(elem, "type")) \in DOMAIN string_to_ruletype
           /\ string_to_ruletype[as_string(find(elem, "type"))] = type
<1>1. PICK name \in TypeNames(type) : Given(elem, "type", "string", name)
  BY DEF WritesType
<1>2. Has(elem, "type") /\ as_string(find(elem, "type")) = name
  BY <1>1, StringIsFound
<1> QED
  BY <1>2, NamesOfTypes

LEMMA PriorityIsFound ==
    ASSUME NEW elem, NEW priority \in 0 .. 2, WritesPriority(elem, priority)
    PROVE  /\ Has(elem, "priority")
                => as_string(find(elem, "priority")) \in DOMAIN string_to_priority
           /\ string_to_priority[StringOr(elem, "priority", "LOW")] = priority
<1>1. CASE \E name \in PriorityNames(priority) : Given(elem, "priority", "string", name)
  <2>1. PICK name \in PriorityNames(priority) : Given(elem, "priority", "string", name)
    BY <1>1
  <2>2. Has(elem, "priority") /\ as_string(find(elem, "priority")) = name
    BY <2>1, StringIsFound
  <2> QED
    BY <2>2, NamesOfPriorities DEF StringOr
<1>2. CASE Absent(elem, "priority") /\ priority = 0
  BY <1>2, AbsentIsNotFound, NamesOfPriorities DEF StringOr
<1> QED
  BY <1>1, <1>2 DEF WritesPriority

LEMMA NumberIsFound ==
    ASSUME NEW elem, NEW n, GivenOr(elem, "value", "number", n, 0)
    PROVE  (IF Has(elem, "value") THEN as_number(find(elem, "value")) ELSE 0) = n
BY GivenIsFound, AbsentIsNotFound DEF GivenOr, as_number

Counts(elem) ==
    IF Has(elem, "consecutive_measurements")
    THEN as_int(find(elem, "consecutive_measurements"))
    ELSE {1}

LEMMA CountIsFound ==
    ASSUME NEW elem, NEW n, WritesConsecutive(elem, n)
    PROVE  Counts(elem) = {n}
<1>1. CASE Absent(elem, "consecutive_measurements") /\ n = 1
  BY <1>1, AbsentIsNotFound DEF Counts
<1>2. CASE /\ n \in IntMin .. IntMax
           /\ \E halves \in Numbers :
                 /\ n = Truncated(halves)
                 /\ Given(elem, "consecutive_measurements", "number", halves)
  <2>1. PICK halves \in Numbers :
           /\ n = Truncated(halves)
           /\ Given(elem, "consecutive_measurements", "number", halves)
    BY <1>2
  <2>2. /\ Has(elem, "consecutive_measurements")
        /\ find(elem, "consecutive_measurements")[1] = "number"
        /\ find(elem, "consecutive_measurements")[2] = halves
    BY <2>1, GivenIsFound
  <2> QED
    BY <1>2, <2>1, <2>2 DEF Counts, as_int
<1> QED
  BY <1>1, <1>2 DEF WritesConsecutive

LEMMA ListIsFound ==
    ASSUME NEW elem, NEW key, NEW ids, IsSequence(ids),
           Given(elem, key, "array", [n \in 1 .. Len(ids) |-> <<"string", ids[n]>>])
    PROVE  /\ Has(elem, key) /\ find(elem, key)[1] = "array"
           /\ [n \in 1 .. Len(find(elem, key)[2]) |-> as_string(find(elem, key)[2][n])] = ids
<1> DEFINE strings == [n \in 1 .. Len(ids) |-> <<"string", ids[n]>>]
<1>1. Has(elem, key) /\ find(elem, key)[1] = "array" /\ find(elem, key)[2] = strings
  BY GivenIsFound
<1>2. Len(strings) = Len(ids) /\ \A n \in 1 .. Len(ids) : strings[n] = <<"string", ids[n]>>
  BY DEF IsSequence
<1> HIDE DEF strings
<1>3. \A n \in 1 .. Len(ids) : as_string(strings[n]) = ids[n]
  <2> TAKE n \in 1 .. Len(ids)
  <2>1. strings[n] = <<"string", ids[n]>>
    BY <1>2
  <2> QED
    BY <2>1 DEF as_string
<1>4. [n \in 1 .. Len(strings) |-> as_string(strings[n])] = [n \in 1 .. Len(ids) |-> ids[n]]
  BY <1>2, <1>3
<1> QED
  BY <1>1, <1>4 DEF IsSequence

LEMMA SubRulesAreFound ==
    ASSUME NEW elem, NEW ids, IsSequence(ids), WritesSubRules(elem, ids)
    PROVE  SubRules(elem) = ids
<1> DEFINE strings == [n \in 1 .. Len(ids) |-> <<"string", ids[n]>>]
<1>1. CASE Given(elem, "conditions", "array", strings)
  BY <1>1, ListIsFound DEF SubRules
<1>2. CASE Absent(elem, "conditions") /\ Given(elem, "sub_rules", "array", strings)
  BY <1>2, ListIsFound, AbsentIsNotFound DEF SubRules
<1>3. CASE Absent(elem, "conditions") /\ Absent(elem, "sub_rules") /\ ids = << >>
  BY <1>3, AbsentIsNotFound DEF SubRules
<1> QED
  BY <1>1, <1>2, <1>3 DEF WritesSubRules

LEMMA WrittenIsRead ==
    ASSUME NEW elem, NEW rule, Writes(elem, rule)
    PROVE  /\ Acceptable(elem)
           /\ Counts(elem) = {rule.consecutive_measurements}
           /\ RuleOf(elem, rule.consecutive_measurements) = rule
<1> DEFINE n == rule.consecutive_measurements
<1>1. /\ rule = [rule_id |-> rule.rule_id, type |-> rule.type, priority |-> rule.priority,
                 sensor_id |-> rule.sensor_id, op |-> rule.op, threshold |-> rule.threshold,
                 consecutive_measurements |-> n, logic |-> rule.logic,
                 sub_rules |-> rule.sub_rules]
      /\ rule.type \in RuleType /\ rule.priority \in 0 .. 2 /\ rule.op \in CompOps
      /\ IsSequence(rule.sub_rules)
      /\ elem[1] = "object"
  BY Zenon DEF Writes
<1>2. Has(elem, "rule_id") /\ as_string(find(elem, "rule_id")) = rule.rule_id
  BY StringIsFound DEF Writes
<1>3. /\ Has(elem, "type")
      /\ as_string(find(elem, "type")) \in DOMAIN string_to_ruletype
      /\ string_to_ruletype[as_string(find(elem, "type"))] = rule.type
  BY <1>1, TypeIsFound DEF Writes
<1>4. /\ Has(elem, "priority")
            => as_string(find(elem, "priority")) \in DOMAIN string_to_priority
      /\ string_to_priority[StringOr(elem, "priority", "LOW")] = rule.priority
  BY <1>1, PriorityIsFound DEF Writes
<1>5. StringOr(elem, "sensor_id", "") = rule.sensor_id /\ StringOr(elem, "logic", "") = rule.logic
  <2>1. /\ GivenOr(elem, "sensor_id", "string", rule.sensor_id, "")
        /\ GivenOr(elem, "logic", "string", rule.logic, "")
    BY Zenon DEF Writes
  <2> QED
    BY <2>1, StringOrDefault
<1>6. /\ StringOr(elem, "operator", ">") = rule.op
      /\ Has(elem, "operator") => as_string(find(elem, "operator")) \in CompOps
  <2>1. GivenOr(elem, "operator", "string", rule.op, ">")
    BY Zenon DEF Writes
  <2> QED
    BY <1>1, <2>1, StringOrDefault
<1>7. (IF Has(elem, "value") THEN as_number(find(elem, "value")) ELSE 0) = rule.threshold
  BY NumberIsFound DEF Writes
<1>8. Counts(elem) = {n}
  BY CountIsFound DEF Writes
<1>9. SubRules(elem) = rule.sub_rules
  BY <1>1, SubRulesAreFound DEF Writes
<1>10. Acceptable(elem)
  BY <1>1, <1>2, <1>3, <1>4, <1>6 DEF Acceptable
<1>11. RuleOf(elem, n) = rule
  BY <1>1, <1>2, <1>3, <1>4, <1>5, <1>6, <1>7, <1>9 DEF RuleOf
<1> QED
  BY <1>8, <1>10, <1>11

(* An element with a defect is not accepted. *)
LEMMA FoundString ==
    ASSUME NEW elem, NEW key, Has(elem, key), as_string(find(elem, key)) # ""
    PROVE  Given(elem, key, "string", as_string(find(elem, key)))
<1>1. find(elem, key)[1] = "string" /\ as_string(find(elem, key)) = find(elem, key)[2]
  BY DEF as_string
<1> QED
  BY <1>1, FoundIsGiven

LEMMA DefectIsRefused ==
    ASSUME NEW elem, IsDefective(elem)
    PROVE  ~ Acceptable(elem)
<1> SUFFICES ASSUME Acceptable(elem)
             PROVE  FALSE
  OBVIOUS
<1>1. elem[1] = "object" /\ ~ Absent(elem, "rule_id")
  BY AbsentIsNotFound DEF Acceptable
<1>2. \E type \in RuleType : WritesType(elem, type)
  <2> DEFINE name == as_string(find(elem, "type"))
  <2>1. Has(elem, "type") /\ name \in DOMAIN string_to_ruletype
    BY DEF Acceptable
  <2>2. name # ""
    BY <2>1, NamesAreNotEmpty
  <2>3. Given(elem, "type", "string", name)
    BY <2>1, <2>2, FoundString
  <2> HIDE DEF name
  <2> QED
    BY <2>1, <2>3, NamesOfTypes DEF WritesType
<1>3. \E priority \in 0 .. 2 : WritesPriority(elem, priority)
  <2> DEFINE name == as_string(find(elem, "priority"))
  <2>1. CASE Has(elem, "priority")
    <3>1. name \in DOMAIN string_to_priority
      BY <2>1 DEF Acceptable
    <3>2. name # ""
      BY <3>1, NamesAreNotEmpty
    <3>3. Given(elem, "priority", "string", name)
      BY <2>1, <3>2, FoundString
    <3> HIDE DEF name
    <3> QED
      BY <3>1, <3>3, NamesOfPriorities DEF WritesPriority
  <2>2. CASE ~ Has(elem, "priority")
    BY <2>2, AbsentIsNotFound DEF WritesPriority
  <2> QED
    BY <2>1, <2>2
<1>4. \E op \in CompOps : GivenOr(elem, "operator", "string", op, ">")
  <2> DEFINE name == as_string(find(elem, "operator"))
  <2>1. CASE Has(elem, "operator")
    <3>1. name \in CompOps
      BY <2>1 DEF Acceptable
    <3>2. name # ""
      BY <3>1, NamesAreNotEmpty
    <3>3. Given(elem, "operator", "string", name)
      BY <2>1, <3>2, FoundString
    <3> HIDE DEF name
    <3> QED
      BY <3>1, <3>3 DEF GivenOr
  <2>2. CASE ~ Has(elem, "operator")
    <3>1. ">" \in CompOps
      BY Zenon DEF CompOps
    <3> QED
      BY <2>2, <3>1, AbsentIsNotFound DEF GivenOr
  <2> QED
    BY <2>1, <2>2
<1> QED
  BY <1>1, <1>2, <1>3, <1>4, Zenon DEF IsDefective
-----------------------------------------------------------------------------
(* YamlSensors. *)
LEMMA GreatestPlace ==
    ASSUME NEW n \in Nat, NEW U, U \subseteq 1 .. n, U # {}
    PROVE  \E x \in U : \A y \in U : y <= x
<1> DEFINE V == {n - x : x \in U}
<1>1. \A x \in U : n - x \in Nat
  OBVIOUS
<1>0. V \subseteq Nat /\ V # {}
  BY <1>1
<1>2. PICK v \in V : \A w \in V : v <= w
  BY <1>0, LeastNatural
<1>3. PICK x \in U : v = n - x
  OBVIOUS
<1>4. \A y \in U : n - x <= n - y
  BY <1>2, <1>3
<1> QED
  BY <1>4

(* What is cut off has those symbols, and what is left begins and ends with *)
(* another.                                                                *)
IsTrimmed(line, symbols, i, j) ==
    /\ i \in 1 .. Len(line) /\ j \in i .. Len(line)
    /\ line[i] \notin symbols /\ line[j] \notin symbols
    /\ \A n \in 1 .. Len(line) : n < i \/ n > j => line[n] \in symbols

LEMMA TrimmedFacts ==
    ASSUME NEW line, IsSequence(line), NEW symbols
    PROVE  \/ /\ Trimmed(line, symbols) = << >>
              /\ \A n \in 1 .. Len(line) : line[n] \in symbols
           \/ \E i, j : /\ Trimmed(line, symbols) = SubSeq(line, i, j)
                        /\ IsTrimmed(line, symbols, i, j)
<1> DEFINE kept == {n \in 1 .. Len(line) : line[n] \notin symbols}
<1>1. CASE kept = {}
  BY <1>1 DEF Trimmed
<1>2. CASE kept # {}
  <2>1. kept \subseteq 1 .. Len(line) /\ kept \subseteq Nat /\ Len(line) \in Nat
    BY DEF IsSequence
  <2>2. PICK i \in kept : \A y \in kept : i <= y
    BY <1>2, <2>1, LeastNatural
  <2>3. PICK j \in kept : \A y \in kept : y <= j
    BY <1>2, <2>1, GreatestPlace
  <2>4. /\ \A x \in kept : (\A y \in kept : x <= y) => x = i
        /\ \A x \in kept : (\A y \in kept : x >= y) => x = j
    BY <2>1, <2>2, <2>3
  <2>5. Trimmed(line, symbols) = SubSeq(line, Min(kept), Max(kept))
    BY <1>2 DEF Trimmed
  <2>6. IsTrimmed(line, symbols, i, j)
    BY <2>1, <2>2, <2>3 DEF IsTrimmed
  <2>7. \A y \in kept : j >= y
    BY <2>1, <2>3
  <2> HIDE DEF kept
  <2>8. Min(kept) = i /\ Max(kept) = j
    BY <2>2, <2>4, <2>7 DEF Min, Max
  <2> QED
    BY <2>5, <2>6, <2>8
<1> QED
  BY <1>1, <1>2

(* A part of a sequence, and a part of that. *)
LEMMA PartFacts ==
    ASSUME NEW line, IsSequence(line), NEW i \in 1 .. Len(line), NEW j \in i .. Len(line)
    PROVE  /\ IsSequence(SubSeq(line, i, j)) /\ SubSeq(line, i, j) # << >>
           /\ Len(SubSeq(line, i, j)) = j - i + 1
           /\ \A n \in 1 .. (j - i + 1) : SubSeq(line, i, j)[n] = line[i + n - 1]
<1> DEFINE S == {line[n] : n \in 1 .. Len(line)}
           part == SubSeq(line, i, j)
<1>1. Len(line) \in Nat /\ i \in Int /\ j \in Int /\ i <= j
  BY DEF IsSequence
<1>2. \A n \in i .. j : line[n] \in S
  BY <1>1
<1> HIDE DEF S
<1>3. /\ part \in Seq(S) /\ Len(part) = (IF i <= j THEN j - i + 1 ELSE 0)
      /\ \A n \in 1 .. j - i + 1 : part[n] = line[i + n - 1]
  BY <1>1, <1>2, SubSeqProperties
<1> HIDE DEF part
<1>4. Len(part) = j - i + 1
  BY <1>1, <1>3
<1>5. IsSequence(part) /\ part # << >>
  BY <1>1, <1>3, <1>4, EmptySequence DEF IsSequence
<1> QED
  BY <1>3, <1>4, <1>5 DEF part

LEMMA SameSequence ==
    ASSUME NEW s, NEW t, IsSequence(s), IsSequence(t), Len(s) = Len(t),
           \A n \in 1 .. Len(s) : s[n] = t[n]
    PROVE  s = t
<1>1. s = [n \in 1 .. Len(s) |-> s[n]] /\ t = [n \in 1 .. Len(t) |-> t[n]]
  BY Zenon DEF IsSequence
<1>2. [n \in 1 .. Len(s) |-> s[n]] = [n \in 1 .. Len(t) |-> t[n]]
  OBVIOUS
<1> QED
  BY <1>1, <1>2, Zenon

LEMMA TailFacts ==
    ASSUME NEW s, IsSequence(s), s # << >>
    PROVE  /\ IsSequence(Tail(s)) /\ Len(Tail(s)) = Len(s) - 1
           /\ \A n \in 1 .. (Len(s) - 1) : Tail(s)[n] = s[n + 1]
<1> DEFINE S == {s[n] : n \in 1 .. Len(s)}
<1>1. s \in Seq(S)
  BY DEF IsSequence
<1> HIDE DEF S
<1>2. /\ Tail(s) \in Seq(S) /\ Len(Tail(s)) = Len(s) - 1
      /\ \A n \in 1 .. Len(Tail(s)) : Tail(s)[n] = s[n + 1]
  BY <1>1, HeadTailProperties
<1>3. \A t \in Seq(S) : IsSequence(t)
  BY DEF IsSequence
<1> QED
  BY <1>2, <1>3

(* A key, blanks before it, and a name from p to q behind it. *)
Blank == {" "}

Around == {" ", "'"}

NameAt(line, k, p, q) ==
    /\ k \in 1 .. Len(line) /\ p \in (k + 1) .. Len(line) /\ q \in p .. Len(line)
    /\ line[k] \in Keys
    /\ line[p] \notin Around /\ line[q] \notin Around
    /\ \A m \in 1 .. Len(line) :
          /\ m < k => line[m] \in Blank
          /\ m > k /\ (m < p \/ m > q) => line[m] \in Around

LEMMA SymbolFacts ==
    /\ Blank \subseteq Around
    /\ \A x \in Keys : x \notin Around
BY DEF Blank, Around, Keys

(* The symbols behind the first that is not a blank, up to the last.       *)
IsPart(part, line, i, j) ==
    /\ part[1] = line[i] /\ part # << >>
    /\ IsSequence(Tail(part)) /\ Len(Tail(part)) = j - i
    /\ \A n \in 1 .. (j - i) : Tail(part)[n] = line[i + n]

LEMMA BehindTheKey ==
    ASSUME NEW line, IsSequence(line), NEW i, NEW j, IsTrimmed(line, Blank, i, j)
    PROVE  IsPart(SubSeq(line, i, j), line, i, j)
<1> DEFINE part == SubSeq(line, i, j)
           tail == Tail(part)
<1>1. i \in 1 .. Len(line) /\ j \in i .. Len(line) /\ Len(line) \in Nat
  BY DEF IsTrimmed, IsSequence
<1>2. /\ IsSequence(part) /\ part # << >> /\ Len(part) = j - i + 1
      /\ \A n \in 1 .. (j - i + 1) : part[n] = line[i + n - 1]
  BY <1>1, PartFacts
<1> HIDE DEF part
<1>3. /\ IsSequence(tail) /\ Len(tail) = Len(part) - 1
      /\ \A n \in 1 .. (Len(part) - 1) : tail[n] = part[n + 1]
  BY <1>2, TailFacts
<1> HIDE DEF tail
<1>4. part[1] = line[i] /\ Len(tail) = j - i
  <2>1. 1 \in 1 .. (j - i + 1) /\ i + 1 - 1 = i
    BY <1>1
  <2> QED
    BY <1>1, <1>2, <1>3, <2>1
<1>5. ASSUME NEW n \in 1 .. (j - i)
      PROVE  tail[n] = line[i + n]
  <2>1. n \in 1 .. (Len(part) - 1) /\ n + 1 \in 1 .. (j - i + 1) /\ i + (n + 1) - 1 = i + n
    BY <1>1, <1>2
  <2>2. part[n + 1] = line[i + (n + 1) - 1]
    BY <1>2, <2>1
  <2> QED
    BY <1>3, <2>1, <2>2
<1> QED
  BY <1>2, <1>3, <1>4, <1>5 DEF tail, part, IsPart

LEMMA NameIsBehindTheKey ==
    ASSUME NEW line, IsSequence(line), NEW i, NEW j, IsTrimmed(line, Blank, i, j),
           NEW k, NEW p, NEW q, NameAt(line, k, p, q)
    PROVE  k = i /\ p - i \in 1 .. (j - i)
<1>1. /\ i \in 1 .. Len(line) /\ j \in i .. Len(line) /\ Len(line) \in Nat
      /\ line[i] \notin Blank
      /\ \A n \in 1 .. Len(line) : n < i \/ n > j => line[n] \in Blank
  BY DEF IsTrimmed, IsSequence
<1>2. /\ k \in 1 .. Len(line) /\ p \in (k + 1) .. Len(line) /\ line[k] \in Keys
      /\ line[p] \notin Around
      /\ \A m \in 1 .. Len(line) : m < k => line[m] \in Blank
  BY DEF NameAt
<1>3. ~ (i < k) /\ ~ (k < i)
  BY <1>1, <1>2, SymbolFacts
<1>4. k = i
  BY <1>1, <1>2, <1>3
<1>5. p \in 1 .. Len(line) /\ ~ (p > j)
  BY <1>1, <1>2, SymbolFacts
<1> QED
  BY <1>1, <1>2, <1>4, <1>5

LEMMA SensorOnLine ==
    ASSUME NEW line, IsSequence(line)
    PROVE  \/ \E k, p, q : /\ NameAt(line, k, p, q)
                           /\ SensorOn(line) = << Spelt(SubSeq(line, p, q)) >>
           \/ /\ SensorOn(line) = << >>
              /\ \A k, p, q : ~ NameAt(line, k, p, q)
<1> DEFINE trimmed == Trimmed(line, Blank)
           value_ == Trimmed(Tail(trimmed), Around)
<1>1. SensorOn(line) = IF trimmed # << >> /\ trimmed[1] \in Keys /\ value_ # << >>
                       THEN << Spelt(value_) >> ELSE << >>
  BY Zenon DEF SensorOn, Blank, Around
<1>2. CASE trimmed = << >> /\ \A n \in 1 .. Len(line) : line[n] \in Blank
  <2>1. ASSUME NEW k, NEW p, NEW q, NameAt(line, k, p, q)
        PROVE  FALSE
    BY <1>2, <2>1, SymbolFacts DEF NameAt
  <2> QED
    BY <1>1, <1>2, <2>1
<1>3. ASSUME NEW i, NEW j, trimmed = SubSeq(line, i, j), IsTrimmed(line, Blank, i, j)
      PROVE  \/ \E k, p, q : /\ NameAt(line, k, p, q)
                             /\ SensorOn(line) = << Spelt(SubSeq(line, p, q)) >>
             \/ /\ SensorOn(line) = << >>
                /\ \A k, p, q : ~ NameAt(line, k, p, q)
  <2> DEFINE tail == Tail(trimmed)
  <2>1. /\ i \in 1 .. Len(line) /\ j \in i .. Len(line) /\ Len(line) \in Nat
        /\ line[i] \notin Blank
        /\ \A n \in 1 .. Len(line) : n < i \/ n > j => line[n] \in Blank
    BY <1>3 DEF IsTrimmed, IsSequence
  <2>2. /\ trimmed[1] = line[i] /\ trimmed # << >>
        /\ IsSequence(tail) /\ Len(tail) = j - i
        /\ \A n \in 1 .. (j - i) : tail[n] = line[i + n]
    <3>1. IsPart(SubSeq(line, i, j), line, i, j) /\ trimmed = SubSeq(line, i, j)
      BY <1>3, BehindTheKey
    <3> HIDE DEF trimmed
    <3>2. IsPart(trimmed, line, i, j)
      BY <3>1
    <3> QED
      BY <3>2 DEF IsPart
  <2>3. value_ = Trimmed(tail, Around)
    OBVIOUS
  <2> HIDE DEF trimmed, tail, value_
  <2>4. CASE line[i] \notin Keys
    <3>1. ASSUME NEW k, NEW p, NEW q, NameAt(line, k, p, q)
          PROVE  FALSE
      <4>1. k = i
        BY <1>3, <3>1, NameIsBehindTheKey
      <4> QED
        BY <2>4, <3>1, <4>1 DEF NameAt
    <3> QED
      BY <1>1, <2>2, <2>4, <3>1
  <2>5. CASE value_ = << >> /\ \A n \in 1 .. Len(tail) : tail[n] \in Around
    <3>1. ASSUME NEW k, NEW p, NEW q, NameAt(line, k, p, q)
          PROVE  FALSE
      <4>1. k = i /\ p - i \in 1 .. (j - i)
        BY <1>3, <3>1, NameIsBehindTheKey
      <4>2. line[p] \notin Around /\ p \in (k + 1) .. Len(line)
        BY <3>1 DEF NameAt
      <4>3. i + (p - i) = p
        BY <2>1, <4>1, <4>2
      <4>4. tail[p - i] = line[i + (p - i)] /\ tail[p - i] \in Around
        BY <2>2, <2>5, <4>1
      <4> QED
        BY <4>2, <4>3, <4>4
    <3> QED
      BY <1>1, <2>5, <3>1
  <2>6. ASSUME line[i] \in Keys, NEW a, NEW b, value_ = SubSeq(tail, a, b),
               IsTrimmed(tail, Around, a, b)
        PROVE  \E k, p, q : /\ NameAt(line, k, p, q)
                            /\ SensorOn(line) = << Spelt(SubSeq(line, p, q)) >>
    <3> DEFINE p == i + a
               q == i + b
    <3>1. /\ a \in 1 .. (j - i) /\ b \in a .. (j - i)
          /\ tail[a] \notin Around /\ tail[b] \notin Around
          /\ \A n \in 1 .. (j - i) : n < a \/ n > b => tail[n] \in Around
      BY <2>2, <2>6 DEF IsTrimmed
    <3>2. /\ p \in (i + 1) .. Len(line) /\ q \in p .. Len(line) /\ p \in 1 .. Len(line)
          /\ b \in 1 .. (j - i)
      BY <2>1, <3>1
    <3>3. line[p] \notin Around /\ line[q] \notin Around
      BY <2>2, <3>1, <3>2
    <3>4. ASSUME NEW m \in 1 .. Len(line), m > i, m < p \/ m > q
          PROVE  line[m] \in Around
      <4>1. CASE m > j
        BY <2>1, <4>1, SymbolFacts
      <4>2. CASE ~ (m > j)
        <5>1. m - i \in 1 .. (j - i) /\ i + (m - i) = m /\ (m - i < a \/ m - i > b)
          BY <2>1, <3>1, <3>4, <4>2
        <5>2. tail[m - i] = line[i + (m - i)] /\ tail[m - i] \in Around
          BY <2>2, <3>1, <5>1
        <5> QED
          BY <5>1, <5>2
      <4> QED
        BY <4>1, <4>2
    <3>5. /\ IsSequence(value_) /\ Len(value_) = b - a + 1 /\ value_ # << >>
          /\ \A n \in 1 .. (b - a + 1) : value_[n] = tail[a + n - 1]
      <4>1. a \in 1 .. Len(tail) /\ b \in a .. Len(tail)
        BY <2>6 DEF IsTrimmed
      <4> QED
        BY <2>2, <2>6, <4>1, PartFacts
    <3>6. /\ IsSequence(SubSeq(line, p, q)) /\ Len(SubSeq(line, p, q)) = q - p + 1
          /\ \A n \in 1 .. (q - p + 1) : SubSeq(line, p, q)[n] = line[p + n - 1]
      BY <3>2, PartFacts
    <3>7. q - p + 1 = b - a + 1
      BY <2>1, <3>1
    <3>8. ASSUME NEW n \in 1 .. (b - a + 1)
          PROVE  value_[n] = SubSeq(line, p, q)[n]
      <4>1. a + n - 1 \in 1 .. (j - i) /\ i + (a + n - 1) = p + n - 1
        BY <2>1, <3>1
      <4>2. tail[a + n - 1] = line[i + (a + n - 1)]
        BY <2>2, <4>1
      <4> QED
        BY <3>5, <3>6, <3>7, <4>1, <4>2
    <3>9. value_ = SubSeq(line, p, q)
      BY <3>5, <3>6, <3>7, <3>8, SameSequence
    <3> HIDE DEF p, q
    <3>10. NameAt(line, i, p, q)
      BY <2>1, <2>6, <3>2, <3>3, <3>4 DEF NameAt
    <3>11. SensorOn(line) = << Spelt(SubSeq(line, p, q)) >>
      BY <1>1, <2>2, <2>6, <3>5, <3>9, Zenon
    <3> QED
      BY <3>10, <3>11, Zenon
  <2>7. \/ value_ = << >> /\ \A n \in 1 .. Len(tail) : tail[n] \in Around
        \/ \E a, b : value_ = SubSeq(tail, a, b) /\ IsTrimmed(tail, Around, a, b)
    BY <2>2, <2>3, TrimmedFacts
  <2> QED
    BY <2>4, <2>5, <2>6, <2>7, Zenon
<1>4. \/ trimmed = << >> /\ \A n \in 1 .. Len(line) : line[n] \in Blank
      \/ \E i, j : trimmed = SubSeq(line, i, j) /\ IsTrimmed(line, Blank, i, j)
  BY TrimmedFacts
<1> QED
  BY <1>2, <1>3, <1>4, Zenon

LEMMA ListsAround ==
    ASSUME NEW line, NEW id
    PROVE  Lists(line, id) <=>
              \E k \in 1 .. Len(line), n \in 1 .. Len(line) :
                 /\ k < n /\ line[k] \in Keys /\ line[n] = id
                 /\ \A m \in 1 .. Len(line) :
                       /\ m < k => line[m] \in Blank
                       /\ m > k /\ m # n => line[m] \in Around
<1>1. /\ \A x : x \in Blank <=> x = " "
      /\ \A x : x \in Around <=> x \in {" ", "'"}
  BY Zenon DEF Blank, Around
<1> QED
  BY <1>1, Zenon DEF Lists

(***************************************************************************)
(* A line gives the sensor it is meant to list, and no other.              *)
(***************************************************************************)
LEMMA SensorIsListed ==
    ASSUME NEW line, IsSequence(line), NEW id, id \notin Around,
           \A a, b \in 1 .. Len(line) :
              a <= b => (Spelt(SubSeq(line, a, b)) = id <=> a = b /\ line[a] = id)
    PROVE  id \in ToSet(SensorOn(line)) <=> Lists(line, id)
<1>0. Len(line) \in Nat
  BY DEF IsSequence
<1>1. \A x : ToSet(<< x >>) = {x}
  BY DEF ToSet
<1>2. ToSet(<< >>) = {}
  <2>1. DOMAIN << >> = {}
    OBVIOUS
  <2> QED
    BY <2>1 DEF ToSet
<1>3. Lists(line, id) <=> \E k, n : NameAt(line, k, n, n) /\ line[n] = id
  <2>1. ASSUME Lists(line, id)
        PROVE  \E k, n : NameAt(line, k, n, n) /\ line[n] = id
    <3>1. PICK k \in 1 .. Len(line), n \in 1 .. Len(line) :
             /\ k < n /\ line[k] \in Keys /\ line[n] = id
             /\ \A m \in 1 .. Len(line) : /\ m < k => line[m] \in Blank
                                          /\ m > k /\ m # n => line[m] \in Around
      BY <2>1, ListsAround, Zenon
    <3>2. n \in (k + 1) .. Len(line) /\ n \in n .. Len(line)
      BY <1>0, <3>1
    <3>3. \A m \in 1 .. Len(line) :
             /\ m < k => line[m] \in Blank
             /\ m > k /\ (m < n \/ m > n) => line[m] \in Around
      BY <3>1
    <3>4. NameAt(line, k, n, n)
      BY <3>1, <3>2, <3>3 DEF NameAt
    <3> QED
      BY <3>1, <3>4
  <2>2. ASSUME NEW k, NEW n, NameAt(line, k, n, n), line[n] = id
        PROVE  Lists(line, id)
    <3>1. /\ k \in 1 .. Len(line) /\ n \in (k + 1) .. Len(line) /\ line[k] \in Keys
          /\ \A m \in 1 .. Len(line) :
                /\ m < k => line[m] \in Blank
                /\ m > k /\ (m < n \/ m > n) => line[m] \in Around
      BY <2>2 DEF NameAt
    <3>2. n \in 1 .. Len(line) /\ k < n
      BY <1>0, <3>1
    <3>3. \A m \in 1 .. Len(line) : /\ m < k => line[m] \in Blank
                                    /\ m > k /\ m # n => line[m] \in Around
      BY <3>1, <3>2
    <3> QED
      BY <2>2, <3>1, <3>2, <3>3, ListsAround, Zenon
  <2> QED
    BY <2>1, <2>2
<1>4. CASE \E k, p, q : /\ NameAt(line, k, p, q)
                        /\ SensorOn(line) = << Spelt(SubSeq(line, p, q)) >>
  <2>1. PICK k, p, q : /\ NameAt(line, k, p, q)
                       /\ SensorOn(line) = << Spelt(SubSeq(line, p, q)) >>
    BY <1>4
  <2>2. /\ k \in 1 .. Len(line) /\ p \in (k + 1) .. Len(line) /\ q \in p .. Len(line)
        /\ p \in 1 .. Len(line) /\ q \in 1 .. Len(line) /\ p <= q
    BY <1>0, <2>1 DEF NameAt
  <2>3. id \in ToSet(SensorOn(line)) <=> p = q /\ line[p] = id
    <3>1. ToSet(SensorOn(line)) = {Spelt(SubSeq(line, p, q))}
      BY <1>1, <2>1, Zenon
    <3>2. Spelt(SubSeq(line, p, q)) = id <=> p = q /\ line[p] = id
      BY <2>2
    <3> QED
      BY <3>1, <3>2
  <2>4. ASSUME NEW l, NEW n, NameAt(line, l, n, n), line[n] = id
        PROVE  p = n /\ q = n
    <3>1. /\ l \in 1 .. Len(line) /\ n \in (l + 1) .. Len(line) /\ line[l] \in Keys
          /\ \A m \in 1 .. Len(line) :
                /\ m < l => line[m] \in Blank
                /\ m > l /\ (m < n \/ m > n) => line[m] \in Around
      BY <2>4 DEF NameAt
    <3>2. /\ line[k] \in Keys /\ line[p] \notin Around /\ line[q] \notin Around
          /\ \A m \in 1 .. Len(line) : m < k => line[m] \in Blank
      BY <2>1 DEF NameAt
    <3>3. ~ (l < k) /\ ~ (k < l)
      BY <2>2, <3>1, <3>2, SymbolFacts
    <3>4. l = k
      BY <2>2, <3>1, <3>3
    <3>5. ~ (p < n \/ p > n) /\ ~ (q < n \/ q > n)
      BY <2>2, <3>1, <3>2, <3>4
    <3> QED
      BY <1>0, <2>2, <3>1, <3>5
  <2>5. Lists(line, id) => p = q /\ line[p] = id
    BY <1>3, <2>4
  <2>6. p = q /\ line[p] = id => Lists(line, id)
    BY <1>3, <2>1
  <2> QED
    BY <2>3, <2>5, <2>6
<1>5. CASE SensorOn(line) = << >> /\ \A k, p, q : ~ NameAt(line, k, p, q)
  BY <1>2, <1>3, <1>5
<1> QED
  BY <1>4, <1>5, SensorOnLine
-----------------------------------------------------------------------------
(* What the files are meant to be. *)

(* The elements of an array or object are a sequence. *)
OpenIsSequence(s, kind, a, c) == \A list \in OpenAt(s, kind, a, c) : IsSequence(list)

LEMMA ListIsSequence ==
    ASSUME NEW s, Len(s) \in Nat, NEW kind \in Kinds, NEW a \in 1 .. Len(s),
           NEW c \in a .. Len(s),
           \A n \in a .. (c - 1) : OpenIsSequence(s, kind, a, n),
           NEW list \in ListsAt(s, kind, a, c)
    PROVE  IsSequence(list)
<1>1. \E n, before, key, b, v : /\ AnotherAt(s, kind, a, n, before, key, b, v, c)
                                /\ list = Append(before, Item(kind, key, v))
  BY ListAt
<1>2. PICK n, before, key, b, v : /\ AnotherAt(s, kind, a, n, before, key, b, v, c)
                                  /\ list = Append(before, Item(kind, key, v))
  BY <1>1
<1>3. n \in a .. (c - 1) /\ before \in OpenAt(s, kind, a, n)
  BY <1>2 DEF AnotherAt
<1>4. IsSequence(before)
  BY <1>3 DEF OpenIsSequence
<1> QED
  BY <1>2, <1>4, AppendedSequence

LEMMA OpenIsASequence ==
    ASSUME NEW s, Len(s) \in Nat, NEW kind \in Kinds, NEW a \in 1 .. Len(s)
    PROVE  \A c \in a .. Len(s) : OpenIsSequence(s, kind, a, c)
<1> DEFINE All(n) == \A c \in a .. Len(s) : c - a < n => OpenIsSequence(s, kind, a, c)
           P == {n \in Nat : All(n)}
<1>1. All(0)
  OBVIOUS
<1>2. ASSUME NEW n \in Nat, All(n)
      PROVE  All(n + 1)
  <2> SUFFICES ASSUME NEW c \in a .. Len(s), c - a < n + 1, NEW list \in OpenAt(s, kind, a, c)
               PROVE  IsSequence(list)
    BY DEF OpenIsSequence
  <2>1. CASE c = a
    <3>1. list = << >>
      BY <2>1, BareAt
    <3> QED
      BY <3>1, EmptySequence
  <2>2. CASE c # a
    <3>1. list \in ListsAt(s, kind, a, c - 1)
      BY <2>2, CommaAt
    <3>2. c - 1 \in a .. Len(s)
      BY <2>2
    <3>3. ASSUME NEW m \in a .. ((c - 1) - 1)
          PROVE  OpenIsSequence(s, kind, a, m)
      <4>1. m \in a .. Len(s) /\ m - a < n
        OBVIOUS
      <4> QED
        BY <1>2, <4>1
    <3> QED
      BY <3>1, <3>2, <3>3, ListIsSequence
  <2> QED
    BY <2>1, <2>2
<1> HIDE DEF All
<1>3. 0 \in P /\ \A n \in Nat : n \in P => n + 1 \in P
  BY <1>1, <1>2
<1> HIDE DEF P
<1>4. \A n \in Nat : n \in P
  BY <1>3, Induction
<1>5. ASSUME NEW c \in a .. Len(s)
      PROVE  OpenIsSequence(s, kind, a, c)
  <2>1. c - a + 1 \in Nat /\ c - a < c - a + 1
    OBVIOUS
  <2>2. All(c - a + 1)
    BY <1>4, <2>1 DEF P
  <2> QED
    BY <2>1, <2>2 DEF All
<1> QED
  BY <1>5

LEMMA ScalarIsNoArray == \A x \in Scalars : Scalar(x)[1] # "array"
<1> TAKE x \in Scalars
<1>1. x \in {"string"} \X Strings \/ x \in {"number"} \X Numbers \/ x \in Literals
  BY DEF Scalars
<1>2. CASE x \in {"string"} \X Strings \/ x \in {"number"} \X Numbers
  <2>1. x[1] = "string" \/ x[1] = "number"
    BY <1>2
  <2>2. /\ x # <<"literal", "true">> /\ x # <<"literal", "false">>
        /\ x # <<"literal", "null">>
    BY <2>1
  <2>3. Scalar(x) = x
    BY <2>2, Zenon DEF Scalar
  <2> QED
    BY <2>1, <2>3
<1>3. CASE x \in Literals
  <2>1. x = <<"literal", "true">> \/ x = <<"literal", "false">> \/ x = <<"literal", "null">>
    BY <1>3 DEF Literals
  <2>2. Scalar(x)[1] = "number" \/ Scalar(x)[1] = "none"
    BY <2>1 DEF Scalar
  <2> QED
    BY <2>2
<1> QED
  BY <1>1, <1>2, <1>3

LEMMA ArrayIsSequence ==
    ASSUME NEW s, Len(s) \in Nat, NEW c \in 1 .. Len(s), NEW v \in ValuesAt(s, 1, c),
           v[1] = "array"
    PROVE  IsSequence(v[2])
<1>0. 1 \in 1 .. Len(s)
  OBVIOUS
<1>1. CASE c = 1
  BY <1>0, <1>1, ScalarAt, ScalarIsNoArray
<1>2. CASE c # 1
  <2>1. PICK kind, list :
           /\ kind \in Kinds /\ v = <<kind, list>>
           /\ IF c = 1 + 1 THEN list = << >> ELSE list \in ListsAt(s, kind, 1, c - 1)
    BY <1>0, <1>2, BracketsAt
  <2>2. v[2] = list
    BY <2>1
  <2>3. CASE c = 1 + 1
    BY <2>1, <2>2, <2>3, EmptySequence
  <2>4. CASE c # 1 + 1
    <3> DEFINE d == c - 1
    <3>1. d \in 1 .. Len(s) /\ list \in ListsAt(s, kind, 1, d)
      BY <1>2, <2>1, <2>4
    <3> HIDE DEF d
    <3>2. \A n \in 1 .. (d - 1) : n \in 1 .. Len(s)
      BY <3>1
    <3>3. \A n \in 1 .. (d - 1) : OpenIsSequence(s, kind, 1, n)
      BY <1>0, <2>1, <3>2, OpenIsASequence
    <3> QED
      BY <1>0, <2>1, <2>2, <3>1, <3>3, ListIsSequence
  <2> QED
    BY <2>3, <2>4
<1> QED
  BY <1>1, <1>2

(***************************************************************************)
(* What has been read of the rules so far is what the file is meant to be. *)
(***************************************************************************)
IsTheFile(file) == yaml = file.yaml /\ src = file.text /\ meant = file.meant

(* The elements that have been read.                                       *)
ReadSoFar ==
    /\ phase \in {"yaml", "sensors", "json"} => rules = << >>
    /\ phase = "rules" =>
          /\ pc = "returned" /\ value[1] = "array"
          /\ \A n \in 1 .. Len(rules) : Acceptable(value[2][n])

(* The rules that have been read.                                          *)
RulesAsMeant ==
    /\ phase # "failed"
    /\ phase = "rules" =>
          /\ Len(rules) <= Len(meant.rules)
          /\ \A n \in 1 .. Len(rules) : rules[n] = meant.rules[n]
    /\ Loaded => all_rules = meant.rules

MeantInv ==
    /\ \E file \in Files : IsTheFile(file)
    /\ ReadSoFar
    /\ meant.verdict = "rules" => RulesAsMeant
    /\ meant.verdict = "defect" => ~ Loaded

(* The text of a file that is meant to be rules is not refused, and its    *)
(* value writes them.                                                      *)
LEMMA TextIsOfRules ==
    ASSUME ParserInv, NEW file \in Files, IsTheFile(file), meant.verdict = "rules"
    PROVE  /\ pc # "threw" /\ IsSequence(meant.rules)
           /\ pc = "returned" => WritesRules(value, meant.rules)
<1>1. /\ src = file.text /\ meant = file.meant
      /\ src \in Seq(Token) /\ IsSequence(meant.rules)
      /\ \E v \in Meanings(src)[<<"value", 1, Len(src)>>] : WritesRules(v, meant.rules)
  BY FilesAssumption, Zenon DEF IsTheFile
<1>2. PICK v \in ValuesAt(src, 1, Len(src)) : WritesRules(v, meant.rules)
  BY <1>1, Zenon DEF ValuesAt
<1>3. Len(src) \in Nat /\ (Len(src) # 0 => Len(src) \in 1 .. Len(src))
  BY <1>1
<1>4. ASSUME Len(src) = 0
      PROVE  FALSE
  <2> DEFINE p == <<"value", 1, 0>>
  <2>1. p \in Parts /\ p[1] = "value" /\ p[2] = 1 /\ p[3] = 0 /\ 1 > 0
    BY DEF Parts
  <2>2. Meanings(src)[p] = MeaningsOf(src, Meanings(src), p[1], p[2], p[3])
    BY <1>3, <2>1, MeaningsEquation, Zenon
  <2>3. Meanings(src)[p] = {}
    BY <2>1, <2>2, Zenon DEF MeaningsOf
  <2> QED
    BY <1>1, <1>4, <2>3, Zenon
<1>5. pc # "threw"
  BY <1>2, <1>3, <1>4 DEF ParserInv, ReadsText, MeansNothing
<1>6. ASSUME pc = "returned"
      PROVE  WritesRules(value, meant.rules)
  <2>1. \A u \in ValuesAt(src, 1, Len(src)) : u = value
    BY <1>3, <1>4, <1>6, ValueIsRead
  <2> QED
    BY <1>2, <2>1
<1> QED
  BY <1>1, <1>5, <1>6

LEMMA TextIsDefective ==
    ASSUME ParserInv, NEW file \in Files, IsTheFile(file), meant.verdict = "defect",
           pc = "returned", value[1] = "array"
    PROVE  /\ Len(value[2]) \in Nat
           /\ \E k \in 1 .. Len(value[2]) : ~ Acceptable(value[2][k])
<1>1. /\ src = file.text /\ meant = file.meant
      /\ \A n \in 1 .. Len(src) : \A v \in Meanings(src)[<<"value", 1, n>>] :
            v[1] = "array" => \E k \in 1 .. Len(v[2]) : IsDefective(v[2][k])
  BY FilesAssumption, Zenon DEF IsTheFile
<1>2. /\ Len(src) \in Nat /\ pos - 1 \in 1 .. Len(src)
      /\ value \in ValuesAt(src, 1, pos - 1)
  BY ValueIsRead
<1>3. Len(value[2]) \in Nat
  BY <1>2, ArrayIsSequence DEF IsSequence
<1>4. \E k \in 1 .. Len(value[2]) : IsDefective(value[2][k])
  BY <1>1, <1>2, Zenon DEF ValuesAt
<1>5. PICK k \in 1 .. Len(value[2]) : IsDefective(value[2][k])
  BY <1>4
<1>6. ~ Acceptable(value[2][k])
  BY <1>5, DefectIsRefused
<1> QED
  BY <1>3, <1>6

(* A step that leaves what has been read alone. *)
LEMMA MeantFrame ==
    ASSUME MeantInv, UNCHANGED <<all_rules, rules, jsonVars, yaml, meant>>,
           phase' \in {"yaml", "sensors", "json"} => phase \in {"yaml", "sensors", "json"},
           phase' = "rules" => phase = "rules",
           phase' = "failed" => phase = "failed",
           Loaded' => Loaded
    PROVE  MeantInv'
<1>1. /\ src' = src /\ pc' = pc /\ value' = value
      /\ yaml' = yaml /\ meant' = meant /\ rules' = rules /\ all_rules' = all_rules
  BY DEF jsonVars
<1>2. \E file \in Files : IsTheFile(file)'
  BY <1>1 DEF MeantInv, IsTheFile
<1>3. ReadSoFar'
  BY <1>1 DEF MeantInv, ReadSoFar
<1>4. (meant.verdict = "rules" => RulesAsMeant)'
  <2> SUFFICES ASSUME meant'.verdict = "rules"
               PROVE  RulesAsMeant'
    OBVIOUS
  <2>1. RulesAsMeant
    BY <1>1 DEF MeantInv
  <2> QED
    BY <1>1, <2>1 DEF RulesAsMeant
<1>5. (meant.verdict = "defect" => ~ Loaded)'
  BY <1>1 DEF MeantInv
<1> QED
  BY <1>2, <1>3, <1>4, <1>5 DEF MeantInv

(* The next element is read as what is meant to be the next rule. *)
LEMMA RuleReadAsMeant ==
    ASSUME MeantInv, LoadInv, ParserInv, LoadRule
    PROVE  MeantInv'
<1>1. /\ phase = "rules" /\ phase' = "rules" /\ Len(rules) < Len(value[2])
      /\ Acceptable(Element)
      /\ \E consecutive \in Counts(Element) : rules' = Append(rules, RuleOf(Element, consecutive))
      /\ UNCHANGED <<all_rules, jsonVars, yaml, meant>>
  BY DEF LoadRule, MoreRules, Counts
<1>2. /\ src' = src /\ pc' = pc /\ value' = value
      /\ yaml' = yaml /\ meant' = meant /\ all_rules' = all_rules
  BY <1>1 DEF jsonVars
<1>3. IsSequence(rules) /\ Len(rules) \in Nat
  BY DEF LoadInv, IsRuleList, IsSequence
<1>4. PICK consecutive \in Counts(Element) :
         rules' = Append(rules, RuleOf(Element, consecutive))
  BY <1>1
<1>5. /\ Len(rules') = Len(rules) + 1
      /\ \A n \in 1 .. Len(rules) : rules'[n] = rules[n]
      /\ rules'[Len(rules) + 1] = RuleOf(Element, consecutive)
  BY <1>3, <1>4, AppendedSequence
<1>6. \A n \in 1 .. Len(rules') : n \in 1 .. Len(rules) \/ n = Len(rules) + 1
  BY <1>3, <1>5
<1>7. \E file \in Files : IsTheFile(file)'
  BY <1>2 DEF MeantInv, IsTheFile
<1>8. ReadSoFar'
  <2>1. pc = "returned" /\ value[1] = "array" /\ \A n \in 1 .. Len(rules) : Acceptable(value[2][n])
    BY <1>1 DEF MeantInv, ReadSoFar
  <2>2. \A n \in 1 .. Len(rules') : Acceptable(value[2][n])
    BY <1>1, <1>6, <2>1 DEF Element
  <2> QED
    BY <1>1, <1>2, <2>1, <2>2 DEF ReadSoFar
<1>9. ASSUME meant'.verdict = "rules"
      PROVE  RulesAsMeant'
  <2>1. meant.verdict = "rules" /\ RulesAsMeant
    BY <1>2, <1>9 DEF MeantInv
  <2>2. PICK file \in Files : IsTheFile(file)
    BY DEF MeantInv
  <2>3. pc = "returned"
    BY <1>1 DEF MeantInv, ReadSoFar
  <2>4. WritesRules(value, meant.rules) /\ IsSequence(meant.rules)
    BY <2>1, <2>2, <2>3, TextIsOfRules
  <2> DEFINE k == Len(rules) + 1
  <2>5. k \in 1 .. Len(meant.rules) /\ Len(meant.rules) \in Nat
    BY <1>1, <1>3, <2>4 DEF WritesRules, IsSequence
  <2>6. Writes(Element, meant.rules[k])
    BY <2>4, <2>5 DEF WritesRules, Element
  <2>7. RuleOf(Element, consecutive) = meant.rules[k]
    <3>1. /\ Counts(Element) = {meant.rules[k].consecutive_measurements}
          /\ RuleOf(Element, meant.rules[k].consecutive_measurements) = meant.rules[k]
      BY <2>6, WrittenIsRead
    <3>2. consecutive = meant.rules[k].consecutive_measurements
      BY <3>1
    <3> QED
      BY <3>1, <3>2
  <2>8. \A n \in 1 .. Len(rules) : rules[n] = meant.rules[n]
    BY <1>1, <2>1 DEF RulesAsMeant
  <2>9. \A n \in 1 .. Len(rules') : rules'[n] = meant.rules[n]
    BY <1>5, <1>6, <2>7, <2>8
  <2>10. Len(rules') <= Len(meant.rules)
    BY <1>3, <1>5, <2>5
  <2> QED
    BY <1>1, <1>2, <2>9, <2>10 DEF RulesAsMeant, Loaded
<1>10. ~ Loaded'
  BY <1>1 DEF Loaded
<1> QED
  BY <1>7, <1>8, <1>9, <1>10 DEF MeantInv

(* After the last, all that is meant has been read. *)
LEMMA AllReadAsMeant ==
    ASSUME MeantInv, LoadInv, ParserInv, ReturnRules
    PROVE  MeantInv'
<1>1. /\ phase = "rules" /\ phase' = "bind" /\ ~ (Len(rules) < Len(value[2]))
      /\ all_rules' = rules
      /\ UNCHANGED <<rules, jsonVars, yaml, meant>>
  BY DEF ReturnRules, MoreRules
<1>2. /\ src' = src /\ pc' = pc /\ value' = value
      /\ yaml' = yaml /\ meant' = meant /\ rules' = rules
  BY <1>1 DEF jsonVars
<1>3. IsSequence(rules) /\ Len(rules) \in Nat
  BY DEF LoadInv, IsRuleList, IsSequence
<1>4. /\ pc = "returned" /\ value[1] = "array"
      /\ \A n \in 1 .. Len(rules) : Acceptable(value[2][n])
  BY <1>1 DEF MeantInv, ReadSoFar
<1>5. PICK file \in Files : IsTheFile(file)
  BY DEF MeantInv
<1>6. \E g \in Files : IsTheFile(g)'
  BY <1>2, <1>5 DEF IsTheFile
<1>7. ReadSoFar'
  BY <1>1 DEF ReadSoFar
<1>8. ASSUME meant'.verdict = "rules"
      PROVE  RulesAsMeant'
  <2>1. meant.verdict = "rules" /\ RulesAsMeant
    BY <1>2, <1>8 DEF MeantInv
  <2>2. WritesRules(value, meant.rules) /\ IsSequence(meant.rules)
    BY <1>4, <1>5, <2>1, TextIsOfRules
  <2>3. Len(value[2]) = Len(meant.rules) /\ Len(meant.rules) \in Nat
    BY <2>2 DEF WritesRules, IsSequence
  <2>4. /\ Len(rules) <= Len(meant.rules)
        /\ \A n \in 1 .. Len(rules) : rules[n] = meant.rules[n]
    BY <1>1, <2>1 DEF RulesAsMeant
  <2>5. Len(rules) = Len(meant.rules)
    BY <1>1, <1>3, <2>3, <2>4
  <2>6. rules = meant.rules
    BY <1>3, <2>2, <2>4, <2>5, SameSequence
  <2> QED
    BY <1>1, <1>2, <2>6 DEF RulesAsMeant
<1>9. ASSUME meant'.verdict = "defect"
      PROVE  FALSE
  <2>1. /\ Len(value[2]) \in Nat
        /\ \E k \in 1 .. Len(value[2]) : ~ Acceptable(value[2][k])
    BY <1>2, <1>4, <1>5, <1>9, TextIsDefective
  <2>2. PICK k \in 1 .. Len(value[2]) : ~ Acceptable(value[2][k])
    BY <2>1
  <2>3. k \in 1 .. Len(rules)
    BY <1>1, <1>3, <2>1
  <2> QED
    BY <1>4, <2>2, <2>3
<1> QED
  BY <1>6, <1>7, <1>8, <1>9 DEF MeantInv

(* It is refused only if it is not meant to be rules. *)
LEMMA RefusedAsMeant ==
    ASSUME MeantInv, LoadInv, ParserInv, FailRules
    PROVE  MeantInv'
<1>1. /\ phase \in {"json", "rules"} /\ phase' = "failed"
      /\ UNCHANGED <<all_rules, rules, jsonVars, yaml, meant>>
  BY DEF FailRules, MoreRules
<1>2. /\ src' = src /\ pc' = pc /\ value' = value
      /\ yaml' = yaml /\ meant' = meant /\ rules' = rules
  BY <1>1 DEF jsonVars
<1>3. PICK file \in Files : IsTheFile(file)
  BY DEF MeantInv
<1>4. \E g \in Files : IsTheFile(g)'
  BY <1>2, <1>3 DEF IsTheFile
<1>5. ReadSoFar' /\ ~ Loaded'
  BY <1>1 DEF ReadSoFar, Loaded
<1>6. ASSUME meant.verdict = "rules"
      PROVE  FALSE
  <2>1. /\ pc # "threw" /\ IsSequence(meant.rules)
        /\ pc = "returned" => WritesRules(value, meant.rules)
    BY <1>3, <1>6, TextIsOfRules
  <2>2. pc = "returned" => value[1] = "array" /\ Len(value[2]) = Len(meant.rules)
    BY <2>1 DEF WritesRules
  <2>3. MoreRules /\ ~ Acceptable(Element)
    BY <2>1, <2>2 DEF FailRules
  <2>4. /\ phase = "rules" /\ Len(rules) < Len(value[2])
        /\ pc = "returned"
    BY <2>3 DEF MoreRules, MeantInv, ReadSoFar
  <2>5. Len(rules) \in Nat /\ Len(meant.rules) \in Nat
    BY <2>1 DEF LoadInv, IsRuleList, IsSequence
  <2>6. Len(rules) + 1 \in 1 .. Len(meant.rules)
    BY <2>2, <2>4, <2>5
  <2>7. Writes(Element, meant.rules[Len(rules) + 1])
    BY <2>1, <2>4, <2>6 DEF WritesRules, Element
  <2> QED
    BY <2>3, <2>7, WrittenIsRead
<1> QED
  BY <1>2, <1>4, <1>5, <1>6 DEF MeantInv

(***************************************************************************)
(* The sensors of the lines that have been read.                           *)
(***************************************************************************)
SensorsInv ==
    /\ Len(yaml) \in Nat /\ next_line \in 1 .. (Len(yaml) + 1)
    /\ phase # "yaml" => next_line = Len(yaml) + 1
    /\ \A id \in SensorId :
          id \in ToSet(sensor_ids) <=> \E n \in 1 .. (next_line - 1) : Lists(yaml[n], id)

LEMMA SensorsOfAppended ==
    ASSUME NEW seq, IsSequence(seq), NEW line, NEW id
    PROVE  id \in ToSet(seq \o SensorOn(line)) <=> id \in ToSet(seq) \/ id \in ToSet(SensorOn(line))
<1>1. SensorOn(line) = << >> \/ \E x : SensorOn(line) = <<x>>
  BY DEF SensorOn
<1>2. CASE SensorOn(line) = << >>
  <2>1. seq \o << >> = seq
    BY DEF IsSequence
  <2>2. ToSet(<< >>) = {}
    <3>1. DOMAIN << >> = {}
      OBVIOUS
    <3> QED
      BY <3>1 DEF ToSet
  <2> QED
    BY <1>2, <2>1, <2>2
<1>3. ASSUME NEW x, SensorOn(line) = <<x>>
      PROVE  id \in ToSet(seq \o <<x>>) <=> id \in ToSet(seq) \/ id \in ToSet(<<x>>)
  <2> DEFINE S == {seq[n] : n \in 1 .. Len(seq)} \cup {x}
             t == seq \o <<x>>
             k == Len(seq)
  <2>1. seq \in Seq(S) /\ <<x>> \in Seq(S) /\ k \in Nat
    BY DEF IsSequence
  <2> HIDE DEF S
  <2>2. /\ t \in Seq(S) /\ Len(t) = k + 1 /\ t[k + 1] = x
        /\ \A n \in 1 .. k : t[n] = seq[n]
    BY <2>1
  <2>3. DOMAIN t = 1 .. (k + 1) /\ DOMAIN seq = 1 .. k
    BY <2>1, <2>2
  <2> HIDE DEF t, k
  <2>4. \A n \in 1 .. (k + 1) : n \in 1 .. k \/ n = k + 1
    BY <2>1
  <2>5. \A n \in 1 .. k : n \in 1 .. (k + 1)
    BY <2>1
  <2>6. k + 1 \in 1 .. (k + 1)
    BY <2>1
  <2>7. id \in ToSet(t) <=> id \in ToSet(seq) \/ id = x
    BY <2>2, <2>3, <2>4, <2>5, <2>6 DEF ToSet
  <2>8. ToSet(<<x>>) = {x}
    BY DEF ToSet
  <2> QED
    BY <2>7, <2>8 DEF t
<1> QED
  BY <1>1, <1>2, <1>3

(* A sensor is spelt by one symbol alone. *)
SpeltAlone(line) ==
    \A a, b \in 1 .. Len(line), id \in SensorId :
       a <= b => (Spelt(SubSeq(line, a, b)) = id <=> a = b /\ line[a] = id)

LEMMA LineRead ==
    ASSUME SensorsInv, LoadInv, NEW file \in Files, IsTheFile(file), ReadLine
    PROVE  SensorsInv'
<1>1. /\ phase = "yaml" /\ phase' = "yaml" /\ next_line <= Len(yaml)
      /\ sensor_ids' = sensor_ids \o SensorOn(yaml[next_line])
      /\ next_line' = next_line + 1 /\ yaml' = yaml
  BY DEF ReadLine
<1>2. Len(yaml) \in Nat /\ next_line \in 1 .. Len(yaml) /\ IsSequence(sensor_ids)
  BY <1>1 DEF SensorsInv, LoadInv
<1>3. /\ SensorId \cap ({" ", "'"} \cup Keys) = {}
      /\ yaml = file.yaml
  BY NamesAssumption, Zenon DEF IsTheFile
<1>4. IsSequence(yaml[next_line]) /\ SpeltAlone(yaml[next_line])
  <2>1. \A l \in 1 .. Len(file.yaml) :
           IsSequence(file.yaml[l]) /\ SpeltAlone(file.yaml[l])
    BY NamesAssumption, Zenon DEF SpeltAlone
  <2> QED
    BY <1>2, <1>3, <2>1, Zenon
<1>5. \A id \in SensorId : id \notin Around
  BY <1>3, Zenon DEF Around
<1> DEFINE line == yaml[next_line]
<1>6. ASSUME NEW id \in SensorId
      PROVE  id \in ToSet(SensorOn(line)) <=> Lists(line, id)
  <2>1. IsSequence(line) /\ id \notin Around
    BY <1>4, <1>5
  <2>2. \A a, b \in 1 .. Len(line) :
           a <= b => (Spelt(SubSeq(line, a, b)) = id <=> a = b /\ line[a] = id)
    BY <1>4 DEF SpeltAlone
  <2> HIDE DEF line
  <2> QED
    BY <2>1, <2>2, SensorIsListed
<1>7. ASSUME NEW id \in SensorId
      PROVE  id \in ToSet(sensor_ids') <=> \E n \in 1 .. next_line : Lists(yaml[n], id)
  <2>1. id \in ToSet(sensor_ids') <=> id \in ToSet(sensor_ids) \/ id \in ToSet(SensorOn(line))
    BY <1>1, <1>2, SensorsOfAppended
  <2>2. id \in ToSet(sensor_ids) <=> \E n \in 1 .. (next_line - 1) : Lists(yaml[n], id)
    BY DEF SensorsInv
  <2>3. \A n : n \in 1 .. next_line <=> n \in 1 .. (next_line - 1) \/ n = next_line
    BY <1>2
  <2> QED
    BY <1>6, <2>1, <2>2, <2>3
<1>8. next_line' \in 1 .. (Len(yaml) + 1) /\ next_line' - 1 = next_line
  BY <1>1, <1>2
<1> QED
  BY <1>1, <1>2, <1>7, <1>8 DEF SensorsInv

LEMMA SensorsFrame ==
    ASSUME SensorsInv, UNCHANGED <<sensor_ids, yaml, next_line>>,
           phase' # "yaml" => phase # "yaml" \/ next_line > Len(yaml)
    PROVE  SensorsInv'
BY DEF SensorsInv

(***************************************************************************)
(* All of it together.                                                     *)
(***************************************************************************)
FilesInv == LoadInv /\ ParserInv /\ MeantInv /\ SensorsInv

LEMMA FilesAreThere ==
    ASSUME Init
    PROVE  FilesInv
<1>1. PICK file \in Files : yaml = file.yaml /\ src = file.text /\ meant = file.meant
  BY DEF Init
<1>2. /\ phase = "yaml" /\ next_line = 1 /\ sensor_ids = << >> /\ rules = << >>
      /\ all_rules = << >>
  BY DEF Init
<1>3. LoadInv /\ ParserInv
  BY <1>2, EmptySequence, TextIsThere DEF LoadInv
<1>4. MeantInv
  BY <1>1, <1>2 DEF MeantInv, IsTheFile, ReadSoFar, RulesAsMeant, Loaded
<1>5. IsSequence(yaml)
  BY <1>1, NamesAssumption
<1>6. ToSet(sensor_ids) = {}
  <2>1. DOMAIN << >> = {}
    OBVIOUS
  <2> QED
    BY <1>2, <2>1 DEF ToSet
<1>7. SensorsInv
  BY <1>2, <1>5, <1>6 DEF SensorsInv, IsSequence
<1> QED
  BY <1>3, <1>4, <1>7 DEF FilesInv

LEMMA FilesStep ==
    ASSUME FilesInv, [Next]_vars
    PROVE  FilesInv'
<1>1. LoadInv /\ ParserInv /\ MeantInv /\ SensorsInv
  BY DEF FilesInv
<1>2. ParserInv'
  BY <1>1, ReadsTextThen
<1>3. PICK file \in Files : IsTheFile(file)
  BY <1>1 DEF MeantInv
<1>4. CASE ReadLine
  <2>1. /\ phase = "yaml" /\ phase' = "yaml"
        /\ UNCHANGED <<all_rules, rules, jsonVars, yaml, meant>>
    BY <1>4 DEF ReadLine
  <2>2. MeantInv'
    BY <1>1, <2>1, MeantFrame DEF Loaded
  <2> QED
    BY <1>1, <1>2, <1>3, <1>4, <2>2, LoadStep, LineRead DEF FilesInv, Load
<1>5. CASE EndYaml
  <2>1. /\ phase = "yaml" /\ phase' = "sensors" /\ next_line > Len(yaml)
        /\ UNCHANGED <<sensor_ids, next_line>>
        /\ UNCHANGED <<all_rules, rules, jsonVars, yaml, meant>>
    BY <1>5 DEF EndYaml
  <2>2. MeantInv'
    BY <1>1, <2>1, MeantFrame DEF Loaded
  <2>3. SensorsInv'
    BY <1>1, <2>1, SensorsFrame
  <2> QED
    BY <1>1, <1>2, <1>5, <2>2, <2>3, LoadStep DEF FilesInv, Load
<1>6. CASE ParseStep
  <2>1. /\ phase = "json" /\ phase' = "json" /\ UNCHANGED <<sensor_ids, yaml, next_line>>
        /\ UNCHANGED <<all_rules, rules, meant>>
    BY <1>6 DEF ParseStep
  <2>2. src' = src
    BY <1>6 DEF ParseStep, Parse, Throw, ParseScalar, OpenObject, OpenArray, Open, ParseKey,
                Separator, Close
  <2>3. MeantInv'
    BY <1>1, <1>3, <2>1, <2>2 DEF MeantInv, IsTheFile, ReadSoFar, RulesAsMeant, Loaded
  <2>4. SensorsInv'
    BY <1>1, <2>1, SensorsFrame
  <2> QED
    BY <1>1, <1>2, <1>6, <2>3, <2>4, LoadStep DEF FilesInv, Load
<1>7. CASE EndJson
  <2>1. /\ phase = "json" /\ phase' = "rules" /\ UNCHANGED <<sensor_ids, yaml, next_line>>
        /\ pc = "returned" /\ value[1] = "array"
        /\ UNCHANGED <<all_rules, rules, jsonVars, meant>>
    BY <1>7 DEF EndJson
  <2>2. /\ src' = src /\ pc' = pc /\ value' = value
    BY <2>1 DEF jsonVars
  <2>3. rules = << >> /\ Len(rules) = 0 /\ 1 .. Len(rules) = {}
    BY <1>1, <2>1, EmptySequence DEF MeantInv, ReadSoFar
  <2>4. MeantInv'
    <3>1. ReadSoFar'
      BY <2>1, <2>2, <2>3 DEF ReadSoFar
    <3>2. ASSUME meant.verdict = "rules"
          PROVE  RulesAsMeant'
      <4>1. IsSequence(meant.rules)
        BY <1>1, <1>3, <3>2, TextIsOfRules
      <4>2. 0 <= Len(meant.rules)
        BY <4>1 DEF IsSequence
      <4> QED
        BY <2>1, <2>3, <4>2 DEF RulesAsMeant, Loaded
    <3> QED
      BY <1>3, <2>1, <2>2, <3>1, <3>2 DEF MeantInv, IsTheFile, Loaded
  <2>5. SensorsInv'
    BY <1>1, <2>1, SensorsFrame
  <2> QED
    BY <1>1, <1>2, <1>7, <2>4, <2>5, LoadStep DEF FilesInv, Load
<1>8. CASE LoadRule \/ ReturnRules \/ FailRules
  <2>1. MeantInv'
    BY <1>1, <1>8, RuleReadAsMeant, AllReadAsMeant, RefusedAsMeant
  <2>2. phase # "yaml" /\ UNCHANGED <<sensor_ids, yaml, next_line>>
    BY <1>8 DEF LoadRule, ReturnRules, FailRules, MoreRules
  <2>3. SensorsInv'
    BY <1>1, <2>2, SensorsFrame
  <2> QED
    BY <1>1, <1>2, <1>8, <2>1, <2>3, LoadStep DEF FilesInv, Load
<1>9. CASE PrepareStep
  <2>1. /\ UNCHANGED <<sensor_ids, all_rules, jsonVars, yaml, next_line, rules, meant>>
        /\ phase # "yaml" /\ phase # "failed"
        /\ \/ phase = "sensors" /\ phase' \in {"sensors", "json"}
           \/ phase \in {"bind", "sort", "deal"} /\ phase' \in {"sort", "deal", "done"}
    <3>1. CASE InternSensor \/ EndSensors
      BY <1>9, <3>1 DEF PrepareStep, InternSensor, EndSensors
    <3>2. CASE assign_sensor_tokens \/ SortRules \/ DealRules
      BY <1>9, <3>2 DEF PrepareStep, assign_sensor_tokens, SortRules, DealRules
    <3> QED
      BY <1>9, <3>1, <3>2 DEF PrepareStep, Prepare
  <2>2. MeantInv'
    BY <1>1, <2>1, MeantFrame DEF Loaded
  <2>3. SensorsInv'
    BY <1>1, <2>1, SensorsFrame
  <2> QED
    BY <1>1, <1>2, <1>9, <2>2, <2>3, PrepareKeepsLoaded DEF FilesInv
<1>10. CASE Done \/ UNCHANGED vars
  <2>1. UNCHANGED vars
    BY <1>10 DEF Done
  <2>2. MeantInv'
    BY <1>1, <2>1, MeantFrame DEF vars, Loaded
  <2>3. SensorsInv' /\ LoadInv'
    BY <1>1, <2>1 DEF vars, SensorsInv, LoadInv
  <2> QED
    BY <1>2, <2>2, <2>3 DEF FilesInv
<1> QED
  BY <1>4, <1>5, <1>6, <1>7, <1>8, <1>9, <1>10 DEF Next, Load

LEMMA SoItIsRead ==
    ASSUME FilesInv
    PROVE  ReadAsWritten
<1>1. /\ meant.verdict = "rules" => phase # "failed" /\ (Loaded => all_rules = meant.rules)
      /\ meant.verdict = "defect" => ~ Loaded
  BY DEF FilesInv, MeantInv, RulesAsMeant
<1>2. ASSUME phase # "yaml"
      PROVE  SensorId \cap ToSet(sensor_ids) = Declared
  <2>1. next_line - 1 = Len(yaml)
    BY <1>2 DEF FilesInv, SensorsInv
  <2>2. \A id \in SensorId :
           id \in ToSet(sensor_ids) <=> \E n \in 1 .. Len(yaml) : Lists(yaml[n], id)
    BY <2>1 DEF FilesInv, SensorsInv
  <2> QED
    BY <2>2 DEF Declared
<1> QED
  BY <1>1, <1>2 DEF ReadAsWritten

(***************************************************************************)
(* rules_engine.hpp, load_rules, and main.cpp, load_sensors_from_yaml: a   *)
(* file that writes rules is accepted and read as those rules, however     *)
(* they are written; a file with a defect in any of them is refused whole; *)
(* and the sensors are those of the lines that list one.                   *)
(***************************************************************************)
THEOREM FilesAreReadAsWritten == Spec => []ReadAsWritten
<1>1. Init => FilesInv
  BY FilesAreThere
<1>2. FilesInv /\ [Next]_vars => FilesInv'
  BY FilesStep
<1>3. FilesInv => ReadAsWritten
  BY SoItIsRead
<1> QED
  BY <1>1, <1>2, <1>3, PTL DEF Spec
=============================================================================
