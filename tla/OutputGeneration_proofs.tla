----------------------- MODULE OutputGeneration_proofs -----------------------
(***************************************************************************)
(* Inline storage and spilling implement a sequence of pairs, for every    *)
(* INLINE_CAPACITY and every number of pairs and of moves; a text that     *)
(* fits the buffer reads as its value; and the files show the violations   *)
(* and the readings of a batch, however many threads format its groups.    *)
(***************************************************************************)
EXTENDS OutputGeneration, Orders_proofs

-----------------------------------------------------------------------------
(* The storage: RuleViolation. *)

USE CapacityAssumption, ZeroAssumption DEF Slots

(* add keeps the types of the members. *)
LEMMA AddType ==
    ASSUME NEW v \in Members, NEW t \in Token, NEW x \in Value
    PROVE  add(v, t, x) \in Members
<1>1. CASE v.count < INLINE_CAPACITY
  <2>1. /\ [v.sensor_tokens_inline EXCEPT ![v.count] = t] \in [Slots -> Token]
        /\ [v.values_inline EXCEPT ![v.count] = x] \in [Slots -> Value]
        /\ v.count + 1 \in Nat
    BY <1>1 DEF Members
  <2> QED
    BY <1>1, <2>1 DEF add, Members
<1>2. CASE ~ (v.count < INLINE_CAPACITY)
  <2>1. /\ Append(v.sensor_tokens_extra, t) \in Seq(Token)
        /\ Append(v.values_extra, x) \in Seq(Value)
        /\ v.count + 1 \in Nat
    BY DEF Members
  <2> QED
    BY <1>2, <2>1 DEF add, Members
<1> QED
  BY <1>1, <1>2

(* So does a move to what it leaves. *)
LEMMA MovedFromType ==
    ASSUME NEW v \in Members
    PROVE  MovedFrom(v) \in Members
<1>1. << >> \in Seq(Token) /\ << >> \in Seq(Value)
  OBVIOUS
<1>2. ASSUME NEW d \in Seq(Token), NEW e \in Seq(Value)
      PROVE  [v EXCEPT !.sensor_tokens_extra = d, !.values_extra = e] \in Members
  BY DEF Members
<1> QED
  BY <1>1, <1>2 DEF MovedFrom

(* An object without pairs is well formed. *)
LEMMA EmptyType == Empty \in Members
  BY DEF Empty, Members

(* Every member keeps its type: types.hpp's add, and the implicit moves. *)
THEOREM TypeCorrect == Spec => []TypeOK
<1>1. Init => TypeOK
  BY EmptyType DEF Init, TypeOK
<1>2. TypeOK /\ [Next]_vars => TypeOK'
  <2> SUFFICES ASSUME TypeOK, [Next]_vars
               PROVE  TypeOK'
    OBVIOUS
  <2> USE DEF TypeOK
  <2>1. ASSUME NEW o \in Objects, Construct(o)
        PROVE  TypeOK'
    BY <2>1, EmptyType DEF Construct
  <2>2. ASSUME NEW o \in Objects, NEW t \in Token, NEW x \in Value, Add(o, t, x)
        PROVE  TypeOK'
    <3>1. add(object[o], t, x) \in Members
      BY AddType
    <3>2. Append(added[o], <<t, x>>) \in Seq(Token \X Value)
      OBVIOUS
    <3> QED
      BY <2>2, <3>1, <3>2 DEF Add
  <2>3. ASSUME NEW o \in Objects, NEW to \in Objects, Move(o, to)
        PROVE  TypeOK'
    <3>1. MovedFrom(object[o]) \in Members
      BY MovedFromType
    <3> QED
      BY <2>3, <3>1 DEF Move
  <2>4. CASE UNCHANGED vars
    BY <2>4 DEF vars
  <2> QED
    BY <2>1, <2>2, <2>3, <2>4 DEF Next
<1> QED
  BY <1>1, <1>2, PTL DEF Spec

(* What Append keeps and adds. *)
LEMMA AppendKeeps ==
    ASSUME NEW S, NEW s \in Seq(S), NEW e, NEW k \in 1 .. Len(s)
    PROVE  Append(s, e)[k] = s[k]
  OBVIOUS

LEMMA AppendAdds ==
    ASSUME NEW S, NEW s \in Seq(S), NEW e
    PROVE  Append(s, e)[Len(s) + 1] = e
  OBVIOUS

(* Adding a pair to an object that reads back, read at each of its places. *)
LEMMA AddReadsBack ==
    ASSUME NEW v \in Members, NEW t \in Token, NEW x \in Value,
           NEW s \in Seq(Token \X Value),
           v.count = Len(s),
           Len(v.sensor_tokens_extra) = Spilt(Len(s)),
           Len(v.values_extra) = Spilt(Len(s)),
           \A n \in 1 .. Len(s) :
               <<sensor_token_at(v, n - 1), value_at(v, n - 1)>> = s[n]
    PROVE  LET w == add(v, t, x)
               r == Append(s, <<t, x>>)
           IN  /\ w.count = Len(r)
               /\ Len(w.sensor_tokens_extra) = Spilt(Len(r))
               /\ Len(w.values_extra) = Spilt(Len(r))
               /\ \A n \in 1 .. Len(r) :
                     <<sensor_token_at(w, n - 1), value_at(w, n - 1)>> = r[n]
<1> DEFINE w == add(v, t, x)
           r == Append(s, <<t, x>>)
<1>1. Len(r) = Len(s) + 1 /\ r[Len(s) + 1] = <<t, x>>
      /\ \A n \in 1 .. Len(s) : r[n] = s[n]
  OBVIOUS
<1>2. CASE v.count < INLINE_CAPACITY
  <2>1. /\ w.count = v.count + 1
        /\ w.sensor_tokens_extra = v.sensor_tokens_extra
        /\ w.values_extra = v.values_extra
        /\ w.sensor_tokens_inline = [v.sensor_tokens_inline EXCEPT ![v.count] = t]
        /\ w.values_inline = [v.values_inline EXCEPT ![v.count] = x]
    BY <1>2 DEF add, Members
  <2>2. \A n \in 0 .. (v.count - 1) :
            sensor_token_at(w, n) = sensor_token_at(v, n) /\ value_at(w, n) = value_at(v, n)
    BY <1>2, <2>1 DEF sensor_token_at, value_at, Members
  <2>3. sensor_token_at(w, v.count) = t /\ value_at(w, v.count) = x
    BY <1>2, <2>1 DEF sensor_token_at, value_at, Members
  <2>4. Spilt(Len(s)) = 0 /\ Spilt(Len(r)) = 0
    BY <1>1, <1>2 DEF Spilt, Members
  <2> QED
    <3>1. ASSUME NEW n \in 1 .. Len(r)
          PROVE  <<sensor_token_at(w, n - 1), value_at(w, n - 1)>> = r[n]
      <4>1. CASE n = Len(s) + 1
        BY <4>1, <1>1, <2>3
      <4>2. CASE n \in 1 .. Len(s)
        BY <4>2, <1>1, <2>2
      <4> QED
        BY <4>1, <4>2, <1>1
    <3> QED
      BY <3>1, <1>1, <2>1, <2>4
<1>3. CASE ~ (v.count < INLINE_CAPACITY)
  <2>1. /\ w.count = v.count + 1
        /\ w.sensor_tokens_extra = Append(v.sensor_tokens_extra, t)
        /\ w.values_extra = Append(v.values_extra, x)
        /\ w.sensor_tokens_inline = v.sensor_tokens_inline
        /\ w.values_inline = v.values_inline
    BY <1>3 DEF add, Members
  <2>2. /\ Len(v.sensor_tokens_extra) = v.count - INLINE_CAPACITY
        /\ Len(v.values_extra) = v.count - INLINE_CAPACITY
    BY <1>3 DEF Spilt, Members
  <2>6. v.count \in Nat /\ v.sensor_tokens_extra \in Seq(Token)
                        /\ v.values_extra \in Seq(Value)
    BY DEF Members
  <2> HIDE DEF w
  <2>3. ASSUME NEW n \in 0 .. (v.count - 1)
        PROVE  sensor_token_at(w, n) = sensor_token_at(v, n) /\ value_at(w, n) = value_at(v, n)
    <3>1. CASE n < INLINE_CAPACITY
      BY <3>1, <2>1 DEF sensor_token_at, value_at
    <3>2. CASE ~ (n < INLINE_CAPACITY)
      <4> DEFINE k == n - INLINE_CAPACITY + 1
      <4>1. k \in 1 .. (v.count - INLINE_CAPACITY)
        BY <2>6, <3>2
      <4> HIDE DEF k
      <4>2. Append(v.sensor_tokens_extra, t)[k] = v.sensor_tokens_extra[k]
        BY <4>1, <2>2, <2>6, AppendKeeps
      <4>3. Append(v.values_extra, x)[k] = v.values_extra[k]
        BY <4>1, <2>2, <2>6, AppendKeeps
      <4> QED
        BY <3>2, <4>2, <4>3, <2>1 DEF sensor_token_at, value_at, k
    <3> QED
      BY <3>1, <3>2
  <2>4. sensor_token_at(w, v.count) = t /\ value_at(w, v.count) = x
    <3>1. v.count - INLINE_CAPACITY + 1 = Len(v.sensor_tokens_extra) + 1
      BY <2>2, <2>6
    <3>2. /\ w.sensor_tokens_extra[Len(v.sensor_tokens_extra) + 1] = t
          /\ w.values_extra[Len(v.values_extra) + 1] = x
      BY <2>1, <2>6, AppendAdds
    <3> QED
      BY <1>3, <2>2, <3>1, <3>2 DEF sensor_token_at, value_at
  <2>5. /\ Len(w.sensor_tokens_extra) = Spilt(Len(r))
        /\ Len(w.values_extra) = Spilt(Len(r))
    BY <1>1, <1>3, <2>1, <2>2 DEF Spilt, Members
  <2> QED
    <3>1. ASSUME NEW n \in 1 .. Len(r)
          PROVE  <<sensor_token_at(w, n - 1), value_at(w, n - 1)>> = r[n]
      <4>1. CASE n = Len(s) + 1
        BY <4>1, <1>1, <2>4
      <4>2. CASE n \in 1 .. Len(s)
        BY <4>2, <1>1, <2>3
      <4> QED
        BY <4>1, <4>2, <1>1
    <3> QED
      BY <3>1, <1>1, <2>1, <2>5 DEF w
<1> QED
  BY <1>2, <1>3

(* An object that has not been moved from reads back what it was given.    *)
THEOREM StorageIsSequence == Spec => []ReadsBack
<1>1. Init => ReadsBack
  BY DEF Init, ReadsBack
<1>2. TypeOK /\ ReadsBack /\ [Next]_vars => ReadsBack'
  <2> SUFFICES ASSUME TypeOK, ReadsBack, [Next]_vars
               PROVE  ReadsBack'
    OBVIOUS
  <2>1. ASSUME NEW o \in Objects, Construct(o)
        PROVE  ReadsBack'
    BY <2>1 DEF Construct, ReadsBack, TypeOK, Empty, Spilt
  <2>2. ASSUME NEW o \in Objects, NEW t \in Token, NEW x \in Value, Add(o, t, x)
        PROVE  ReadsBack'
    <3>1. object[o] \in Members /\ added[o] \in Seq(Token \X Value)
      BY DEF TypeOK
    <3>2. ASSUME NEW p \in live
          PROVE  /\ object'[p].count = Len(added'[p])
                 /\ Len(object'[p].sensor_tokens_extra) = Spilt(Len(added'[p]))
                 /\ Len(object'[p].values_extra) = Spilt(Len(added'[p]))
                 /\ \A n \in 1 .. Len(added'[p]) :
                       <<sensor_token_at(object'[p], n - 1), value_at(object'[p], n - 1)>>
                           = added'[p][n]
      <4>1. CASE p = o
        <5>1. /\ object'[o] = add(object[o], t, x)
              /\ added'[o] = Append(added[o], <<t, x>>)
          BY <2>2 DEF Add, TypeOK
        <5>2. o \in live
          BY <2>2 DEF Add
        <5> DEFINE v == object[o]
                   s == added[o]
        <5>3. /\ v.count = Len(s)
              /\ Len(v.sensor_tokens_extra) = Spilt(Len(s))
              /\ Len(v.values_extra) = Spilt(Len(s))
              /\ \A n \in 1 .. Len(s) :
                    <<sensor_token_at(v, n - 1), value_at(v, n - 1)>> = s[n]
          BY <5>2 DEF ReadsBack
        <5>4. v \in Members /\ s \in Seq(Token \X Value)
          BY <3>1
        <5> HIDE DEF v, s
        <5>5. LET w == add(v, t, x)
                  r == Append(s, <<t, x>>)
              IN  /\ w.count = Len(r)
                  /\ Len(w.sensor_tokens_extra) = Spilt(Len(r))
                  /\ Len(w.values_extra) = Spilt(Len(r))
                  /\ \A n \in 1 .. Len(r) :
                        <<sensor_token_at(w, n - 1), value_at(w, n - 1)>> = r[n]
          BY <5>3, <5>4, AddReadsBack
        <5> QED
          BY <4>1, <5>1, <5>5 DEF v, s
      <4>2. CASE p # o
        <5>1. object'[p] = object[p] /\ added'[p] = added[p]
          BY <2>2, <4>2 DEF Add, TypeOK
        <5> QED
          BY <5>1 DEF ReadsBack
      <4> QED
        BY <4>1, <4>2
    <3> QED
      BY <2>2, <3>2 DEF Add, ReadsBack
  <2>3. ASSUME NEW o \in Objects, NEW to \in Objects, Move(o, to)
        PROVE  ReadsBack'
    <3>1. object'[to] = object[o] /\ added'[to] = added[o] /\ o \in live
      BY <2>3 DEF Move, TypeOK
    <3>2. \A p \in live' : p # to =>
              p \in live /\ object'[p] = object[p] /\ added'[p] = added[p]
      BY <2>3 DEF Move, TypeOK
    <3>3. ASSUME NEW p \in live'
          PROVE  \E q \in live : object'[p] = object[q] /\ added'[p] = added[q]
      BY <3>1, <3>2
    <3> QED
      BY <3>3 DEF ReadsBack
  <2>4. CASE UNCHANGED vars
    BY <2>4 DEF vars, ReadsBack
  <2> QED
    BY <2>1, <2>2, <2>3, <2>4 DEF Next
<1> QED
  BY <1>1, <1>2, TypeCorrect, PTL DEF Spec
-----------------------------------------------------------------------------
(* The texts: OutputFormatter. *)

HIDE DEF Slots
(* What a number is printed with. *)
Character == {"-", ".", Digit} \cup Decimal

LEMMA Characters ==
    /\ "-" \in Character /\ "-" # "."
    /\ "." \in Character
    /\ Digit \in Character /\ Digit # "."
    /\ \A c \in Decimal : c \in Character /\ c # "."
<1>1. \A c \in Decimal : c # "."
  BY SMT DEF Decimal
<1>2. Digit # "."
  BY DEF Digit
<1> QED
  BY <1>1, <1>2 DEF Character

(* How "%.6f" prints a number: h characters, the point and six digits.     *)
HasPointAfter(text, h, k) ==
    /\ text \in Seq(Character)
    /\ Len(text) = h + 1 + k
    /\ \A n \in 1 .. Len(text) : text[n] = "." <=> n = h + 1

IsNumber(text, h) == h \in Nat \ {0} /\ HasPointAfter(text, h, 6)

(* What u is if it is s, and then t. *)
IsJoin(u, s, t, S) ==
    /\ u \in Seq(S)
    /\ Len(u) = Len(s) + Len(t)
    /\ \A n \in 1 .. Len(s) : u[n] = s[n]
    /\ \A n \in 1 .. Len(t) : u[Len(s) + n] = t[n]

LEMMA Joined ==
    ASSUME NEW S, NEW s \in Seq(S), NEW t \in Seq(S)
    PROVE  IsJoin(s \o t, s, t, S)
  BY DEF IsJoin

LEMMA FunctionIsSequence ==
    ASSUME NEW S, NEW n \in Nat, NEW f \in [1 .. n -> S]
    PROVE  f \in Seq(S) /\ Len(f) = n
  OBVIOUS

(* No character of s is the point. *)
Pointless(s) == s \in Seq(Character) /\ \A n \in 1 .. Len(s) : s[n] # "."

LEMMA PointlessJoined ==
    ASSUME NEW s, Pointless(s), NEW t, Pointless(t)
    PROVE  Pointless(s \o t) /\ Len(s \o t) = Len(s) + Len(t)
<1> DEFINE u == s \o t
<1>1. /\ u \in Seq(Character) /\ Len(u) = Len(s) + Len(t)
      /\ \A n \in 1 .. Len(s) : u[n] = s[n]
      /\ \A n \in 1 .. Len(t) : u[Len(s) + n] = t[n]
  BY Joined DEF Pointless, IsJoin
<1>2. Len(s) \in Nat /\ Len(t) \in Nat
  BY DEF Pointless
<1> HIDE DEF u
<1>3. ASSUME NEW n \in 1 .. Len(u), n \notin 1 .. Len(s)
      PROVE  u[n] # "."
  <2>1. n - Len(s) \in 1 .. Len(t) /\ n = Len(s) + (n - Len(s))
    BY <1>1, <1>2, <1>3
  <2> QED
    BY <2>1, <1>1 DEF Pointless
<1>4. ASSUME NEW n \in 1 .. Len(s)
      PROVE  u[n] # "."
  BY <1>1 DEF Pointless
<1>5. Pointless(u)
  BY <1>1, <1>3, <1>4 DEF Pointless
<1> QED
  BY <1>1, <1>5 DEF u

(* The point between two such texts. *)
LEMMA PointBetween ==
    ASSUME NEW s, Pointless(s), NEW t, Pointless(t)
    PROVE  HasPointAfter(s \o <<".">> \o t, Len(s), Len(t))
<1> DEFINE v == s \o <<".">>
           u == v \o t
           point == <<".">>
<1>1. point \in Seq(Character) /\ Len(point) = 1 /\ point[1] = "."
  BY Characters
<1>2. /\ Len(s) \in Nat /\ Len(t) \in Nat
      /\ s \in Seq(Character) /\ t \in Seq(Character)
  BY DEF Pointless
<1> HIDE DEF point
<1>3. /\ s \o point \in Seq(Character) /\ Len(s \o point) = Len(s) + 1
      /\ \A n \in 1 .. Len(s) : (s \o point)[n] = s[n]
      /\ (s \o point)[Len(s) + 1] = "."
  <2>1. IsJoin(s \o point, s, point, Character)
    BY <1>1, <1>2, Joined
  <2>2. 1 \in 1 .. Len(point)
    BY <1>1
  <2> QED
    BY <1>1, <2>1, <2>2 DEF IsJoin
<1>4. v = s \o point
  BY DEF point
<1> HIDE DEF v
<1>5. /\ u \in Seq(Character) /\ Len(u) = Len(s) + 1 + Len(t)
      /\ \A n \in 1 .. Len(s) + 1 : u[n] = v[n]
      /\ \A n \in 1 .. Len(t) : u[Len(s) + 1 + n] = t[n]
  <2>1. v \in Seq(Character) /\ Len(v) = Len(s) + 1
    BY <1>3, <1>4
  <2>2. IsJoin(u, v, t, Character)
    BY <1>2, <2>1, Joined
  <2> QED
    BY <2>1, <2>2 DEF IsJoin
<1> HIDE DEF u
<1>6. ASSUME NEW n \in 1 .. Len(u)
      PROVE  u[n] = "." <=> n = Len(s) + 1
  <2>1. CASE n \in 1 .. Len(s)
    <3>1. u[n] = s[n] /\ n # Len(s) + 1
      BY <1>2, <1>3, <1>4, <1>5, <2>1
    <3> QED
      BY <3>1, <2>1 DEF Pointless
  <2>2. CASE n = Len(s) + 1
    BY <1>2, <1>3, <1>4, <1>5, <2>2
  <2>3. CASE ~ (n <= Len(s) + 1)
    <3>1. n - (Len(s) + 1) \in 1 .. Len(t) /\ n = Len(s) + 1 + (n - (Len(s) + 1))
      BY <1>2, <1>5, <2>3
    <3>2. u[n] = t[n - (Len(s) + 1)]
      BY <3>1, <1>5
    <3> QED
      BY <3>1, <3>2, <2>3 DEF Pointless
  <2> QED
    BY <1>2, <1>5, <2>1, <2>2, <2>3
<1> QED
  BY <1>5, <1>6 DEF u, v, HasPointAfter

LEMMA PrintedNumber ==
    ASSUME NEW val \in Double, val.kind = "finite"
    PROVE  \E h : IsNumber(Printed(val), h)
<1> DEFINE sign     == IF val.negative THEN <<"-">> ELSE << >>
           digits   == [n \in 1 .. val.digits |-> Digit]
           fraction == val.fraction
           before   == sign \o digits
           h        == Len(sign) + val.digits
<1>1. /\ val.digits \in Nat \ {0}
      /\ fraction \in [1 .. 6 -> Decimal]
  BY DEF Double
<1>2. \A c \in Decimal : c \in Character /\ c # "."
  BY Characters
<1>3. Pointless(sign) /\ Len(sign) \in Nat
  <2>1. CASE val.negative
    BY <2>1, Characters DEF Pointless
  <2>2. CASE ~ val.negative
    BY <2>2 DEF Pointless
  <2> QED
    BY <2>1, <2>2
<1>4. Pointless(digits) /\ Len(digits) = val.digits
  <2>1. digits \in [1 .. val.digits -> Character]
    BY Characters
  <2>2. digits \in Seq(Character) /\ Len(digits) = val.digits
    BY <1>1, <2>1, FunctionIsSequence
  <2> QED
    BY <2>2, Characters DEF Pointless
<1>5. Pointless(fraction) /\ Len(fraction) = 6
  <2>1. fraction \in [1 .. 6 -> Character]
    BY <1>1, <1>2
  <2>2. fraction \in Seq(Character) /\ Len(fraction) = 6
    <3> HIDE DEF fraction
    <3>1. 6 \in Nat
      OBVIOUS
    <3> QED
      BY <2>1, <3>1, FunctionIsSequence, Zenon
  <2> QED
    BY <1>1, <1>2, <2>2 DEF Pointless
<1>6. Printed(val) = before \o <<".">> \o fraction
  BY DEF Printed
<1> HIDE DEF sign, digits, fraction
<1>7. Pointless(before) /\ Len(before) = h
  BY <1>3, <1>4, PointlessJoined
<1> HIDE DEF before
<1>8. h \in Nat \ {0}
  BY <1>1, <1>3
<1> HIDE DEF h
<1>9. HasPointAfter(Printed(val), Len(before), Len(fraction))
  BY <1>5, <1>6, <1>7, PointBetween
<1> QED
  BY <1>5, <1>7, <1>8, <1>9 DEF IsNumber

(* A text with another character than "0" has a last such. *)
LEMMA LastNonzeroFacts ==
    ASSUME NEW text \in Seq(Character), NEW d \in 1 .. Len(text), text[d] # "0"
    PROVE  /\ LastNonzero(text) \in d .. Len(text)
           /\ \A k \in (LastNonzero(text) + 1) .. Len(text) : text[k] = "0"
<1> DEFINE len   == Len(text)
           IsLast(n) == text[n] # "0" /\ \A k \in (n + 1) .. len : text[k] = "0"
           behind == {k \in 0 .. len - 1 : text[len - k] # "0"}
<1>1. len \in Nat /\ d \in 1 .. len
  OBVIOUS
<1>2. len - d \in behind /\ behind \subseteq Nat
  BY <1>1
<1>3. PICK k \in behind : \A y \in behind : k <= y
  BY <1>2, LeastNatural
<1>4. len - k \in 1 .. len /\ text[len - k] # "0"
  BY <1>1, <1>3
<1>5. ASSUME NEW j \in (len - k + 1) .. len
      PROVE  text[j] = "0"
  <2>1. len - j \in 0 .. len - 1 /\ len - j < k /\ len - (len - j) = j
    BY <1>1, <1>3
  <2>2. len - j \notin behind
    BY <2>1, <1>3
  <2> QED
    BY <2>1, <2>2
<1>6. \E n \in 1 .. len : IsLast(n)
  BY <1>4, <1>5
<1>7. LastNonzero(text) \in 1 .. len /\ IsLast(LastNonzero(text))
  BY <1>6 DEF LastNonzero
<1>8. ~ (LastNonzero(text) < d)
  BY <1>1, <1>7
<1> QED
  BY <1>1, <1>7, <1>8
(* A text that fits: what is left out of it are zeros behind a decimal.    *)
LEMMA NumberReads ==
    ASSUME NEW val \in Double, val.kind = "finite", Fits(val)
    PROVE  ~ Throws(val) /\ Reads(format_value(val), val)
<1> DEFINE text == Printed(val)
           last == LastNonzero(text)
           upto == IF last = Dot(text) THEN Dot(text) + 1 ELSE last
           out  == SubSeq(text, 1, upto)
<1>1. PICK h : IsNumber(text, h)
  BY PrintedNumber
<1>2. snprintf(val) = text
  BY DEF snprintf
<1> HIDE DEF text
<1>3. /\ h \in Nat \ {0}
      /\ text \in Seq(Character)
      /\ Len(text) = h + 7
      /\ \A n \in 1 .. Len(text) : text[n] = "." <=> n = h + 1
  BY <1>1 DEF IsNumber, HasPointAfter
<1>4. HasDot(text) /\ Dot(text) = h + 1
  BY <1>3 DEF HasDot, Dot
<1>5. /\ last \in (h + 1) .. (h + 7)
      /\ \A k \in (last + 1) .. (h + 7) : text[k] = "0"
  <2>1. h + 1 \in 1 .. Len(text) /\ text[h + 1] # "0"
    BY <1>3
  <2> QED
    BY <1>3, <2>1, LastNonzeroFacts
<1>6. ~ Throws(val)
  BY <1>2, <1>3, <1>4 DEF Throws
<1>7. format_value(val) = out
  BY <1>2, <1>4 DEF format_value
<1>8. /\ upto \in (h + 2) .. (h + 7)
      /\ \A k \in (upto + 1) .. (h + 7) : text[k] = "0"
  BY <1>3, <1>4, <1>5
<1> HIDE DEF upto
<1>9. /\ Len(out) = upto
      /\ \A n \in 1 .. upto : out[n] = text[n]
  BY <1>3, <1>8
<1> HIDE DEF out
<1>10. HasDot(out) /\ Dot(out) = h + 1
  BY <1>3, <1>8, <1>9 DEF HasDot, Dot
<1>11. AtLeastOneDecimal(out)
  BY <1>3, <1>8, <1>9, <1>10 DEF AtLeastOneDecimal
<1>12. out = SubSeq(text, 1, Len(out))
  BY <1>9 DEF out
<1>13. \A n \in (Len(out) + 1) .. Len(text) : text[n] = "0"
  BY <1>3, <1>8, <1>9
<1> QED
  BY <1>6, <1>7, <1>11, <1>12, <1>13 DEF Reads, text

(***************************************************************************)
(* output_formatter.hpp:37, format_value: what fits the buffer is printed  *)
(* without an exception and reads as the value, all of whose decimals but  *)
(* zeros at the end are there.                                             *)
(***************************************************************************)
THEOREM FormattedValueReads ==
    ASSUME NEW val \in Double, Fits(val)
    PROVE  ~ Throws(val) /\ Reads(format_value(val), val)
<1>1. CASE val.kind = "finite"
  BY <1>1, NumberReads
<1>2. CASE val.kind # "finite"
  <2> DEFINE text == <<val.kind>>
  <2>1. Printed(val) = text /\ snprintf(val) = text
    BY <1>2 DEF Printed, snprintf
  <2>2. val.kind # "."
    BY <1>2 DEF Double
  <2>3. ~ HasDot(text)
    BY <2>2 DEF HasDot
  <2>4. text = SubSeq(text, 1, Len(text)) /\ Len(text) = 1
    <3>1. text \in Seq({val.kind}) /\ Len(text) = 1
      OBVIOUS
    <3> HIDE DEF text
    <3> QED
      BY <3>1
  <2> HIDE DEF text
  <2>5. ~ Throws(val) /\ format_value(val) = text
    BY <2>1, <2>3 DEF Throws, format_value
  <2>6. \A n \in (Len(text) + 1) .. Len(Printed(val)) : FALSE
    BY <2>1, <2>4
  <2>7. text = SubSeq(Printed(val), 1, Len(text))
    BY <2>1, <2>4
  <2> QED
    BY <1>2, <2>5, <2>6, <2>7, Zenon DEF Reads
<1> QED
  BY <1>1, <1>2
-----------------------------------------------------------------------------
(* The files: OutputGeneration. *)

(* What the region knows of the groups of a batch. *)
GroupOf(places) == [readings : Readings, violations : Seq(places)]

Batch == groups \in Seq(GroupOf(live))

NominalPart(g) ==
    IF groups[g].violations = << >> THEN <<format_nominal_line(groups[g])>> ELSE << >>

AlarmPart(g) ==
    [n \in 1 .. Len(groups[g].violations) |-> format_alarm_line(object[groups[g].violations[n]])]

Formatted(g) ==
    /\ \A val \in ValuesOf(groups[g]) : ~ Throws(val)
    /\ valid_lines[g] = NominalPart(g)
    /\ alarm_lines[g] = AlarmPart(g)

Blank(g) == valid_lines[g] = << >> /\ alarm_lines[g] = << >>

(* The groups of a thread's block. *)
Block(t) == (block[t] + 1) .. block[t + 1]

Region ==
    /\ Batch
    /\ block \in [0 .. NumThreads -> 0 .. Len(groups)]
    /\ block[0] = 0 /\ block[NumThreads] = Len(groups)
    /\ next_group \in [Threads -> Nat]
    /\ \A t \in Threads : block[t] < next_group[t]
    /\ valid_lines = [g \in 1 .. Len(groups) |-> valid_lines[g]]
    /\ alarm_lines = [g \in 1 .. Len(groups) |-> alarm_lines[g]]

(* Each thread has formatted its block up to next_group, and nothing is    *)
(* ever left of a group half formatted.                                    *)
LinesInv ==
    /\ \A g \in 1 .. Len(groups) : Formatted(g) \/ Blank(g)
    /\ \A t \in Threads : \A g \in Block(t) : g < next_group[t] => Formatted(g)

NominalLines(m) ==
    [n \in 1 .. Len(Nominal(m)) |-> format_nominal_line(groups[Nominal(m)[n]])]

AlarmLines(m) == [n \in 1 .. Len(Alarms(m)) |-> format_alarm_line(object[Alarms(m)[n]])]

(* The lines of all groups are there, those of the first few in the files. *)
FilesShow(m) == valid_file = NominalLines(m) /\ alarms_file = AlarmLines(m)

AppendInv ==
    /\ \A g \in 1 .. Len(groups) : Formatted(g)
    /\ \E m \in 0 .. Len(groups) : appended = m /\ FilesShow(m)

IInv ==
    /\ stage = "build" \/ stage = "format"
          => appended = 0 /\ valid_file = << >> /\ alarms_file = << >>
    /\ stage # "build" => Region /\ LinesInv
    /\ stage = "append" \/ stage = "done" => AppendInv
    /\ stage = "done" => appended = Len(groups)

(***************************************************************************)
(* Nothing but the building of the violations changes the objects: what is *)
(* proved of the storage holds while the groups are formatted.             *)
(***************************************************************************)
LEMMA StorageIsKept == OutputSpec => Spec
<1>1. OutputInit => Init
  BY DEF OutputInit
<1>2. [OutputNext]_allVars => [Next]_vars
  <2> SUFFICES ASSUME [OutputNext]_allVars
               PROVE  [Next]_vars
    OBVIOUS
  <2>1. CASE BuildStep
    BY <2>1 DEF BuildStep
  <2>2. CASE StartOutput
    BY <2>2 DEF StartOutput
  <2>3. ASSUME NEW t \in Threads, FormatGroup(t) \/ FormatThrows(t)
        PROVE  UNCHANGED vars
    BY <2>3 DEF FormatGroup, FormatThrows
  <2>4. CASE EndParallel \/ AppendOutput \/ EndOutput
    BY <2>4 DEF EndParallel, AppendOutput, EndOutput
  <2>5. CASE OutputDone \/ UNCHANGED allVars
    BY <2>5 DEF OutputDone, allVars
  <2> QED
    BY <2>1, <2>2, <2>3, <2>4, <2>5 DEF OutputNext, OutputStep
<1> QED
  BY <1>1, <1>2, PTL DEF OutputSpec, Spec
(* The values of F along a sequence. *)
Mapped(F, s) == [n \in 1 .. Len(s) |-> F[s[n]]]

Maps(F, S, R) == F \in [S -> R]

LEMMA MappedType ==
    ASSUME NEW S, NEW R, NEW F, Maps(F, S, R), NEW s \in Seq(S)
    PROVE  Mapped(F, s) \in Seq(R) /\ Len(Mapped(F, s)) = Len(s)
  BY DEF Mapped, Maps

LEMMA SameSequence ==
    ASSUME NEW S, NEW s \in Seq(S), NEW t \in Seq(S), Len(s) = Len(t),
           \A n \in 1 .. Len(s) : s[n] = t[n]
    PROVE  s = t
  OBVIOUS

LEMMA MappedJoin ==
    ASSUME NEW S, NEW R, NEW F, Maps(F, S, R), NEW a \in Seq(S), NEW b \in Seq(S)
    PROVE  Mapped(F, a \o b) = Mapped(F, a) \o Mapped(F, b)
<1> DEFINE ab == a \o b
           l  == Mapped(F, a)
           r  == Mapped(F, b)
           lr == l \o r
           m  == Mapped(F, ab)
<1>1. IsJoin(ab, a, b, S)
  BY Joined
<1>2. ab \in Seq(S) /\ Len(a) \in Nat /\ Len(b) \in Nat
  BY <1>1 DEF IsJoin
<1> HIDE DEF ab
<1>3. /\ l \in Seq(R) /\ Len(l) = Len(a) /\ r \in Seq(R) /\ Len(r) = Len(b)
      /\ m \in Seq(R) /\ Len(m) = Len(ab)
  BY <1>2, MappedType
<1>4. /\ \A n \in 1 .. Len(a) : l[n] = F[a[n]]
      /\ \A n \in 1 .. Len(b) : r[n] = F[b[n]]
      /\ \A n \in 1 .. Len(ab) : m[n] = F[ab[n]]
  BY DEF Mapped
<1> HIDE DEF l, r, m
<1>5. IsJoin(lr, l, r, R)
  BY <1>3, Joined
<1> HIDE DEF lr
<1>6. ASSUME NEW n \in 1 .. Len(m)
      PROVE  m[n] = lr[n]
  <2>1. CASE n \in 1 .. Len(a)
    <3>1. ab[n] = a[n] /\ lr[n] = l[n]
      BY <2>1, <1>1, <1>3, <1>5 DEF IsJoin
    <3> QED
      BY <2>1, <3>1, <1>3, <1>4
  <2>2. CASE n \notin 1 .. Len(a)
    <3> DEFINE k == n - Len(a)
    <3>1. k \in 1 .. Len(b) /\ n = Len(a) + k
      BY <2>2, <1>1, <1>2, <1>3 DEF IsJoin
    <3> HIDE DEF k
    <3>2. ab[n] = b[k] /\ lr[n] = r[k]
      BY <3>1, <1>1, <1>3, <1>5 DEF IsJoin
    <3> QED
      BY <3>1, <3>2, <1>3, <1>4
  <2> QED
    BY <2>1, <2>2
<1>7. lr \in Seq(R) /\ Len(lr) = Len(m)
  BY <1>1, <1>3, <1>5 DEF IsJoin
<1>8. m = lr
  BY <1>3, <1>6, <1>7, SameSequence
<1> QED
  BY <1>8 DEF m, lr, l, r, ab

LEMMA WiderSequence ==
    ASSUME NEW S, NEW T, S \subseteq T, NEW n \in Nat, NEW f \in [1 .. n -> S]
    PROVE  f \in Seq(T)
  OBVIOUS

(* One more group. *)
LEMMA NominalNext ==
    ASSUME NEW m \in Nat
    PROVE  /\ Nominal(m) \in Seq(1 .. m)
           /\ Nominal(m + 1)
                = Nominal(m) \o (IF groups[m + 1].violations = << >> THEN <<m + 1>> ELSE << >>)
<1> DEFINE S == {g \in 1 .. m : groups[g].violations = << >>}
           T == {g \in 1 .. (m + 1) : groups[g].violations = << >>}
           one == <<m + 1>>
<1>1. Nominal(m) = Ascending(S) /\ Nominal(m + 1) = Ascending(T)
  BY DEF Nominal
<1>2. S \in SUBSET (1 .. m) /\ T \in SUBSET (1 .. (m + 1)) /\ m + 1 \in Nat
  OBVIOUS
<1>3. CASE groups[m + 1].violations # << >>
  <2>1. S = T
    BY <1>3
  <2> HIDE DEF S, T
  <2>2. Ascending(S) \in [1 .. Len(Ascending(S)) -> S] /\ Len(Ascending(S)) \in Nat
    BY <1>2, PlacesInOrder
  <2>3. Ascending(S) \in Seq(1 .. m)
    <3> DEFINE I == 1 .. m
    <3>1. S \subseteq I
      BY <1>2
    <3> HIDE DEF I
    <3>2. Ascending(S) \in Seq(I)
      BY <2>2, <3>1, WiderSequence
    <3> QED
      BY <3>2 DEF I
  <2> QED
    BY <1>1, <1>3, <2>1, <2>3
<1>4. CASE groups[m + 1].violations = << >>
  <2>1. T = S \cup {m + 1}
    BY <1>4
  <2>2. \A x \in S : x \in 1 .. m
    OBVIOUS
  <2> HIDE DEF S, T
  <2>3. IsCut(T, S, {m + 1}, LessThan)
    BY <2>1, <2>2 DEF IsCut, LessThan
  <2>4. IsFiniteSet(T) /\ T \in SUBSET Int
    BY <1>2, PlacesFacts
  <2>5. Ascending(T) = Ascending(S) \o Ascending({m + 1})
    <3> DEFINE new == {m + 1}
    <3>1. IsCut(T, S, new, LessThan)
      BY <2>3
    <3> HIDE DEF new
    <3>2. /\ Cardinality(T) = Cardinality(S) + Cardinality(new)
          /\ Ascending(T) = Ascending(S) \o Ascending(new)
      BY <2>4, <3>1, AscendingOfUnion
    <3> QED
      BY <3>2 DEF new
  <2>6. Ascending({m + 1}) = one
    <3>1. one \in Seq({m + 1}) /\ Len(one) = 1 /\ one[1] = m + 1
      OBVIOUS
    <3> HIDE DEF one
    <3>2. Enumerates(one, {m + 1}, LessThan)
      BY <3>1 DEF Enumerates
    <3>3. {m + 1} \in SUBSET Int /\ IsFiniteSet({m + 1})
      BY FS_Singleton
    <3> QED
      BY <3>2, <3>3, AscendingIsUnique
  <2>7. Ascending(S) \in [1 .. Len(Ascending(S)) -> S] /\ Len(Ascending(S)) \in Nat
    BY <1>2, PlacesInOrder
  <2>8. Ascending(S) \in Seq(1 .. m)
    <3> DEFINE I == 1 .. m
    <3>1. S \subseteq I
      BY <1>2
    <3> HIDE DEF I
    <3>2. Ascending(S) \in Seq(I)
      BY <2>7, <3>1, WiderSequence
    <3> QED
      BY <3>2 DEF I
  <2> QED
    BY <1>1, <1>4, <2>5, <2>6, <2>8
<1> QED
  BY <1>3, <1>4
LEMMA NominalLinesNext ==
    ASSUME NEW m \in Nat
    PROVE  NominalLines(m + 1) = NominalLines(m) \o NominalPart(m + 1)
<1> DEFINE I    == 1 .. (m + 1)
           F    == [g \in I |-> format_nominal_line(groups[g])]
           R    == {F[g] : g \in I}
           now  == Nominal(m)
           next == Nominal(m + 1)
           new  == IF groups[m + 1].violations = << >> THEN <<m + 1>> ELSE << >>
<1>1. now \in Seq(1 .. m) /\ next = now \o new
  BY NominalNext
<1>2. now \in Seq(I)
  <2>1. Len(now) \in Nat /\ now \in [1 .. Len(now) -> 1 .. m] /\ 1 .. m \subseteq I
    BY <1>1
  <2> HIDE DEF I
  <2> QED
    BY <2>1, WiderSequence
<1>3. m + 1 \in I
  OBVIOUS
<1>4. NominalLines(m) = Mapped(F, now)
  <2>1. Len(now) \in Nat /\ \A n \in 1 .. Len(now) : now[n] \in I
    <3> HIDE DEF I
    <3> QED
      BY <1>2
  <2> QED
    BY <2>1 DEF NominalLines, Mapped
<1> HIDE DEF I
<1>5. new \in Seq(I)
  BY <1>3
<1>6. NominalPart(m + 1) = Mapped(F, new)
  <2>1. CASE groups[m + 1].violations = << >>
    <3>1. new = <<m + 1>> /\ Len(new) = 1 /\ new[1] = m + 1
      BY <2>1
    <3>2. Mapped(F, new) = [n \in 1 .. 1 |-> F[m + 1]]
      BY <3>1 DEF Mapped
    <3>3. F[m + 1] = format_nominal_line(groups[m + 1])
      BY <1>3
    <3> QED
      BY <2>1, <3>2, <3>3 DEF NominalPart
  <2>2. CASE groups[m + 1].violations # << >>
    <3>1. new = << >> /\ Len(new) = 0
      BY <2>2
    <3>2. Mapped(F, new) = << >>
      BY <3>1 DEF Mapped
    <3> QED
      BY <2>2, <3>2 DEF NominalPart
  <2> QED
    BY <2>1, <2>2
<1>7. Maps(F, I, R)
  BY DEF Maps
<1> HIDE DEF now, next, new, R
<1>8. next \in Seq(I)
  BY <1>1, <1>2, <1>5
<1>9. NominalLines(m + 1) = Mapped(F, next)
  <2>1. Len(next) \in Nat /\ \A n \in 1 .. Len(next) : next[n] \in I
    BY <1>8
  <2> QED
    BY <2>1 DEF NominalLines, Mapped, next
<1> HIDE DEF F
<1>10. Mapped(F, now \o new) = Mapped(F, now) \o Mapped(F, new)
  BY <1>2, <1>5, <1>7, MappedJoin
<1> QED
  BY <1>1, <1>4, <1>6, <1>9, <1>10

LEMMA FirstPlaces == Nominal(0) = << >> /\ NominalLines(0) = << >>
<1>1. {g \in 1 .. 0 : groups[g].violations = << >>} = {}
  OBVIOUS
<1>2. Nominal(0) = Ascending({})
  BY <1>1 DEF Nominal
<1>3. Ascending({}) = << >>
  BY FS_EmptySet DEF Ascending, Ranking
<1> QED
  BY <1>2, <1>3 DEF NominalLines
LEMMA GroupFacts ==
    ASSUME Batch, NEW g \in 1 .. Len(groups)
    PROVE  /\ groups[g].readings \in Readings
           /\ groups[g].violations \in Seq(live)
           /\ Len(groups[g].violations) \in Nat
<1> DEFINE S == GroupOf(live)
<1>1. \A x \in S : x.readings \in Readings /\ x.violations \in Seq(live)
  BY DEF GroupOf
<1>2. groups \in Seq(S)
  BY DEF Batch
<1> HIDE DEF S
<1>3. groups[g] \in S
  BY <1>2
<1> QED
  BY <1>1, <1>3

(* The violations of one group. *)
PlacesIn(g) == {<<g, k>> : k \in 1 .. Len(groups[g].violations)}

LEMMA AlarmPlacesFacts ==
    ASSUME NEW m \in Nat
    PROVE  /\ AlarmPlaces(0) = {}
           /\ AlarmPlaces(m + 1) = AlarmPlaces(m) \cup PlacesIn(m + 1)
           /\ \A p \in AlarmPlaces(m) : p[1] \in 1 .. m
<1>1. \A k \in Nat : \A p : p \in AlarmPlaces(k) <=> \E g \in 1 .. k : p \in PlacesIn(g)
  BY DEF AlarmPlaces, PlacesIn
<1>2. AlarmPlaces(0) = {}
  BY <1>1
<1>3. \A p : p \in AlarmPlaces(m + 1) <=> p \in AlarmPlaces(m) \/ p \in PlacesIn(m + 1)
  BY <1>1
<1>4. \A g : \A p \in PlacesIn(g) : p[1] = g
  BY DEF PlacesIn
<1> QED
  BY <1>1, <1>2, <1>3, <1>4

(* In the order of the group. *)
LEMMA PlacesInFacts ==
    ASSUME Batch, NEW g \in 1 .. Len(groups)
    PROVE  LET order == [k \in 1 .. Len(groups[g].violations) |-> <<g, k>>]
           IN  /\ PlacesIn(g) \subseteq Int \X Int
               /\ IsFiniteSet(PlacesIn(g))
               /\ Ranking(PlacesIn(g), LexicalOrder) = order
               /\ Cardinality(PlacesIn(g)) = Len(groups[g].violations)
<1> DEFINE len   == Len(groups[g].violations)
           order == [k \in 1 .. len |-> <<g, k>>]
           S     == PlacesIn(g)
<1>1. len \in Nat /\ g \in Int
  BY GroupFacts DEF Batch
<1> HIDE DEF len
<1>2. \A p : p \in S <=> \E k \in 1 .. len : p = <<g, k>>
  BY DEF PlacesIn, len
<1>3. \A k \in 1 .. len : order[k] = <<g, k>>
  OBVIOUS
<1>4. S \subseteq Int \X Int
  BY <1>1, <1>2
<1> HIDE DEF S
<1>5. order \in [1 .. len -> S]
  BY <1>2, <1>3
<1> HIDE DEF order
<1>6. order \in Seq(S) /\ Len(order) = len
  BY <1>1, <1>5, FunctionIsSequence
<1>7. IsFiniteSet(S)
  <2>1. IsFiniteSet(1 .. len)
    BY <1>1, FS_Interval
  <2>2. order \in Surjection(1 .. len, S)
    BY <1>2, <1>3, <1>5 DEF Surjection
  <2> QED
    BY <2>1, <2>2, FS_Surjection
<1>8. IsStrictTotalOrder(S, LexicalOrder)
      /\ \A x, y \in S : <<x, y>> \in LexicalOrder <=> PairBefore(x, y)
  BY <1>4, LexicalOrderIsTotal
<1>9. ASSUME NEW a \in 1 .. len, NEW b \in 1 .. len, a < b
      PROVE  <<order[a], order[b]>> \in LexicalOrder
  <2>1. PairBefore(<<g, a>>, <<g, b>>)
    BY <1>1, <1>9 DEF PairBefore
  <2>2. order[a] \in S /\ order[b] \in S
    BY <1>5
  <2> QED
    BY <1>3, <1>8, <2>1, <2>2
<1>10. Enumerates(order, S, LexicalOrder)
  BY <1>2, <1>3, <1>6, <1>9 DEF Enumerates
<1>11. Len(order) = Cardinality(S) /\ order = Ranking(S, LexicalOrder)
  BY <1>7, <1>8, <1>10, RankingIsUnique
<1> QED
  BY <1>4, <1>6, <1>7, <1>11 DEF order, len, S
LEMMA AlarmPlacesType ==
    ASSUME Batch, NEW m \in 0 .. Len(groups)
    PROVE  /\ IsFiniteSet(AlarmPlaces(m))
           /\ AlarmPlaces(m) \subseteq Int \X Int
<1> DEFINE len == Len(groups)
           good(k) == IsFiniteSet(AlarmPlaces(k)) /\ AlarmPlaces(k) \subseteq Int \X Int
           P == {k \in Nat : k <= len => good(k)}
<1>1. len \in Nat
  BY DEF Batch
<1>2. 0 \in P
  BY AlarmPlacesFacts, FS_EmptySet
<1>3. ASSUME NEW k \in Nat, k \in P
      PROVE  k + 1 \in P
  <2> SUFFICES ASSUME k + 1 <= len
               PROVE  good(k + 1)
    BY <1>3
  <2>1. good(k)
    BY <1>1, <1>3
  <2>2. k + 1 \in 1 .. Len(groups)
    BY <1>1
  <2>3. IsFiniteSet(PlacesIn(k + 1)) /\ PlacesIn(k + 1) \subseteq Int \X Int
    BY <2>2, PlacesInFacts
  <2>4. AlarmPlaces(k + 1) = AlarmPlaces(k) \cup PlacesIn(k + 1)
    BY AlarmPlacesFacts
  <2>5. IsFiniteSet(AlarmPlaces(k + 1))
    <3> DEFINE A == AlarmPlaces(k)
               B == PlacesIn(k + 1)
    <3>1. IsFiniteSet(A) /\ IsFiniteSet(B)
      BY <2>1, <2>3
    <3> HIDE DEF A, B
    <3>2. IsFiniteSet(A \cup B)
      BY <3>1, FS_Union, Zenon
    <3> QED
      BY <2>4, <3>2 DEF A, B
  <2>6. AlarmPlaces(k + 1) \subseteq Int \X Int
    BY <2>1, <2>3, <2>4
  <2> QED
    BY <2>5, <2>6
<1> HIDE DEF P
<1>4. \A k \in Nat : k \in P
  BY <1>2, <1>3, Induction
<1> QED
  BY <1>1, <1>4 DEF P

LEMMA AlarmsNext ==
    ASSUME Batch, NEW m \in 0 .. (Len(groups) - 1)
    PROVE  /\ Alarms(m) \in Seq(live)
           /\ Alarms(m + 1) = Alarms(m) \o groups[m + 1].violations
<1> DEFINE U     == AlarmPlaces(m + 1)
           S     == AlarmPlaces(m)
           T     == PlacesIn(m + 1)
           V     == [p \in U |-> groups[p[1]].violations[p[2]]]
           first == Ranking(S, LexicalOrder)
           last  == Ranking(T, LexicalOrder)
           new   == groups[m + 1].violations
<1>1. /\ Len(groups) \in Nat /\ m \in Nat /\ m + 1 \in 1 .. Len(groups)
      /\ m \in 0 .. Len(groups) /\ m + 1 \in 0 .. Len(groups)
  BY DEF Batch
<1>2. U = S \cup T /\ \A p \in S : p[1] \in 1 .. m
  BY <1>1, AlarmPlacesFacts
<1>3. /\ U \subseteq Int \X Int /\ IsFiniteSet(U)
      /\ S \subseteq Int \X Int /\ IsFiniteSet(S)
  BY <1>1, AlarmPlacesType
<1>4. /\ T \subseteq Int \X Int /\ IsFiniteSet(T)
      /\ last = [k \in 1 .. Len(new) |-> <<m + 1, k>>]
      /\ Cardinality(T) = Len(new)
  BY <1>1, PlacesInFacts
<1>5. new \in Seq(live) /\ Len(new) \in Nat
  BY <1>1, GroupFacts
<1>6. /\ IsStrictTotalOrder(U, LexicalOrder)
      /\ IsStrictTotalOrder(S, LexicalOrder)
      /\ \A x, y \in U : <<x, y>> \in LexicalOrder <=> PairBefore(x, y)
  BY <1>3, LexicalOrderIsTotal
<1>7. IsCut(U, S, T, LexicalOrder)
  <2>1. \A p \in T : p[1] = m + 1
    BY DEF PlacesIn
  <2>2. \A x \in S, y \in T : PairBefore(x, y)
    BY <1>1, <1>2, <2>1 DEF PairBefore
  <2> QED
    BY <1>2, <1>6, <2>2 DEF IsCut
<1>8. /\ Cardinality(U) = Cardinality(S) + Cardinality(T)
      /\ Ranking(U, LexicalOrder) = first \o last
  BY <1>3, <1>6, <1>7, RankingOfUnion
<1>9. /\ first \in Seq(U) /\ Len(first) = Cardinality(S)
  <2>1. Cardinality(S) \in Nat /\ Len(first) = Cardinality(S)
        /\ Enumerates(first, S, LexicalOrder)
    BY <1>3, <1>6, RankingFacts
  <2>2. first \in Seq(S)
    BY <2>1 DEF Enumerates
  <2>3. first \in [1 .. Len(first) -> S] /\ S \subseteq U /\ Len(first) \in Nat
    BY <1>2, <2>2
  <2> HIDE DEF first, S, U
  <2> QED
    BY <2>1, <2>3, WiderSequence
<1>10. last \in Seq(U) /\ Len(last) = Len(new)
  <2>1. \A k \in 1 .. Len(new) : <<m + 1, k>> \in U
    BY <1>2 DEF PlacesIn
  <2>2. last \in [1 .. Len(new) -> U]
    BY <1>4, <2>1
  <2> HIDE DEF last, U, new
  <2> QED
    BY <1>5, <2>2, FunctionIsSequence
<1>11. Maps(V, U, live)
  <2>1. ASSUME NEW p \in U
        PROVE  groups[p[1]].violations[p[2]] \in live
    <3>1. PICK g \in 1 .. (m + 1) : \E k \in 1 .. Len(groups[g].violations) : p = <<g, k>>
      BY DEF AlarmPlaces
    <3>2. PICK k \in 1 .. Len(groups[g].violations) : p = <<g, k>>
      BY <3>1
    <3>3. g \in 1 .. Len(groups)
      BY <1>1
    <3>4. groups[g].violations \in Seq(live)
      BY <3>3, GroupFacts
    <3> QED
      BY <3>2, <3>4
  <2> QED
    BY <2>1 DEF Maps
<1>12. \A p \in U : V[p] = groups[p[1]].violations[p[2]]
  OBVIOUS
<1> HIDE DEF V, U, S, T, first, last
<1>13. Alarms(m) = Mapped(V, first)
  <2>1. \A n \in 1 .. Len(first) : first[n] \in U
    BY <1>9
  <2>2. Alarms(m) = [n \in 1 .. Len(first) |-> groups[first[n][1]].violations[first[n][2]]]
    BY <1>9 DEF Alarms, first, S
  <2> QED
    BY <2>1, <2>2, <1>12 DEF Mapped
<1>14. Mapped(V, last) = new
  <2>1. \A k \in 1 .. Len(new) : last[k] = <<m + 1, k>> /\ last[k] \in U
    BY <1>4, <1>10
  <2>2. \A k \in 1 .. Len(new) : V[last[k]] = new[k]
    BY <2>1, <1>12
  <2>3. Mapped(V, last) = [k \in 1 .. Len(new) |-> new[k]]
    BY <1>10, <2>2 DEF Mapped
  <2> HIDE DEF new
  <2> QED
    BY <1>5, <2>3
<1>15. Alarms(m + 1) = Mapped(V, first \o last)
  <2> DEFINE all == first \o last
  <2>1. all \in Seq(U) /\ Len(all) = Cardinality(U)
    <3>1. all \in Seq(U) /\ Len(all) = Len(first) + Len(last)
      BY <1>9, <1>10
    <3> QED
      BY <3>1, <1>4, <1>8, <1>9, <1>10
  <2>2. Alarms(m + 1) = [n \in 1 .. Len(all) |-> groups[all[n][1]].violations[all[n][2]]]
    BY <1>8, <2>1 DEF Alarms, U
  <2> HIDE DEF all
  <2>3. \A n \in 1 .. Len(all) : all[n] \in U
    BY <2>1
  <2>4. Alarms(m + 1) = Mapped(V, all)
    BY <2>2, <2>3, <1>12 DEF Mapped
  <2> QED
    BY <2>4 DEF all
<1>16. Mapped(V, first \o last) = Mapped(V, first) \o Mapped(V, last)
  BY <1>9, <1>10, <1>11, MappedJoin
<1>17. Mapped(V, first) \in Seq(live)
  BY <1>9, <1>11, MappedType
<1> QED
  BY <1>13, <1>14, <1>15, <1>16, <1>17
(* What appending one more group adds to the two files. *)
LEMMA LinesNext ==
    ASSUME Batch, NEW m \in 0 .. (Len(groups) - 1)
    PROVE  /\ NominalLines(m + 1) = NominalLines(m) \o NominalPart(m + 1)
           /\ AlarmLines(m + 1) = AlarmLines(m) \o AlarmPart(m + 1)
<1> DEFINE F   == [o \in live |-> format_alarm_line(object[o])]
           R   == {F[o] : o \in live}
           now == Alarms(m)
           new == groups[m + 1].violations
<1>1. Len(groups) \in Nat /\ m \in Nat /\ m + 1 \in 1 .. Len(groups)
  BY DEF Batch
<1>2. now \in Seq(live) /\ Alarms(m + 1) = now \o new
  BY AlarmsNext
<1>3. new \in Seq(live)
  BY <1>1, GroupFacts
<1>4. Maps(F, live, R)
  BY DEF Maps
<1>5. \A o \in live : F[o] = format_alarm_line(object[o])
  OBVIOUS
<1> HIDE DEF F, R
<1>6. AlarmLines(m) = Mapped(F, now)
  BY <1>2, <1>5 DEF AlarmLines, Mapped
<1>7. AlarmPart(m + 1) = Mapped(F, new)
  BY <1>3, <1>5 DEF AlarmPart, Mapped
<1>8. AlarmLines(m + 1) = Mapped(F, now \o new)
  <2> DEFINE all == now \o new
  <2>1. all \in Seq(live) /\ Alarms(m + 1) = all
    BY <1>2, <1>3
  <2> HIDE DEF all
  <2>2. AlarmLines(m + 1) = Mapped(F, all)
    BY <2>1, <1>5 DEF AlarmLines, Mapped
  <2> QED
    BY <2>2 DEF all
<1> HIDE DEF now, new
<1>9. Mapped(F, now \o new) = Mapped(F, now) \o Mapped(F, new)
  BY <1>2, <1>3, <1>4, MappedJoin
<1> QED
  BY <1>1, <1>6, <1>7, <1>8, <1>9, NominalLinesNext

LEMMA FirstLines == NominalLines(0) = << >> /\ AlarmLines(0) = << >>
<1>1. AlarmPlaces(0) = {}
  BY AlarmPlacesFacts
<1>2. Alarms(0) = << >>
  BY <1>1, FS_EmptySet DEF Alarms
<1> QED
  BY <1>2, FirstPlaces DEF AlarmLines

(* The blocks of the threads are all groups. *)
LEMMA BlocksCover ==
    ASSUME Region, NEW g \in 1 .. Len(groups)
    PROVE  \E t \in Threads : g \in Block(t)
<1> DEFINE covered(k) == \A h \in 1 .. block[k] : \E t \in Threads : h \in Block(t)
           P == {k \in Nat : k <= NumThreads => covered(k)}
<1>1. /\ NumThreads \in Nat \ {0} /\ Len(groups) \in Nat
      /\ \A k \in 0 .. NumThreads : block[k] \in Nat
      /\ block[0] = 0 /\ block[NumThreads] = Len(groups)
  BY ThreadsAssumption DEF Region, Batch
<1>2. 0 \in P
  BY <1>1
<1>3. ASSUME NEW k \in Nat, k \in P
      PROVE  k + 1 \in P
  <2> SUFFICES ASSUME k + 1 <= NumThreads
               PROVE  covered(k + 1)
    BY <1>3
  <2>1. covered(k) /\ k \in Threads /\ k \in 0 .. NumThreads /\ k + 1 \in 0 .. NumThreads
    BY <1>1, <1>3 DEF Threads
  <2>2. ASSUME NEW h \in 1 .. block[k + 1]
        PROVE  \E t \in Threads : h \in Block(t)
    <3>1. CASE h \in 1 .. block[k]
      BY <2>1, <3>1
    <3>2. CASE h \notin 1 .. block[k]
      BY <1>1, <2>1, <3>2 DEF Block
    <3> QED
      BY <3>1, <3>2
  <2> QED
    BY <2>2
<1> HIDE DEF P
<1>4. \A k \in Nat : k \in P
  BY <1>2, <1>3, Induction
<1>5. covered(NumThreads)
  BY <1>1, <1>4 DEF P
<1> QED
  BY <1>1, <1>5
(* A list of places without repetition is a sequence of them. *)
LEMMA ArrangementType ==
    ASSUME NEW S, IsFiniteSet(S), NEW places \in SUBSET S,
           NEW order \in Arrangements(places)
    PROVE  order \in Seq(S)
<1>1. Cardinality(places) \in Nat
  BY FS_Subset, FS_CardinalityType
<1>2. order \in [1 .. Cardinality(places) -> places]
  BY DEF Arrangements
<1> QED
  BY <1>1, <1>2, WiderSequence

(* The region begins with every line still to be formatted. *)
LEMMA StartKeeps == TypeOK /\ IInv /\ StartOutput => IInv'
<1> SUFFICES ASSUME TypeOK, IInv, StartOutput
             PROVE  IInv'
  OBVIOUS
<1>1. PICK n \in 1 .. MaxGroups :
         /\ \E group_of \in [live -> 1 .. n], readings \in [1 .. n -> Readings] :
            \E order \in [1 .. n -> UNION {Arrangements(places) : places \in SUBSET live}] :
               /\ \A g \in 1 .. n :
                     {order[g][k] : k \in DOMAIN order[g]} = {o \in live : group_of[o] = g}
               /\ groups' = [g \in 1 .. n |-> [readings   |-> readings[g],
                                               violations |-> order[g]]]
         /\ block' \in {b \in [0 .. NumThreads -> 0 .. n] :
                           /\ b[0] = 0 /\ b[NumThreads] = n
                           /\ \A t \in Threads : b[t] <= b[t + 1]}
         /\ next_group' = [t \in Threads |-> block'[t] + 1]
         /\ valid_lines' = Empties(n)
         /\ alarm_lines' = Empties(n)
  BY DEF StartOutput
<1>2. /\ stage = "build" /\ stage' = "format"
      /\ UNCHANGED <<vars, appended, valid_file, alarms_file>>
  BY DEF StartOutput
<1>3. appended' = 0 /\ valid_file' = << >> /\ alarms_file' = << >> /\ live' = live
  BY <1>2 DEF IInv, vars
<1>4. n \in Nat /\ NumThreads \in Nat \ {0}
  BY OutputAssumption, ThreadsAssumption
<1>5. groups' \in Seq(GroupOf(live)) /\ Len(groups') = n
  <2>1. PICK readings \in [1 .. n -> Readings],
             order \in [1 .. n -> UNION {Arrangements(places) : places \in SUBSET live}] :
                groups' = [g \in 1 .. n |-> [readings   |-> readings[g],
                                             violations |-> order[g]]]
    BY <1>1
  <2>2. IsFiniteSet(live)
    BY OutputAssumption, FS_Subset DEF TypeOK
  <2>3. ASSUME NEW g \in 1 .. n
        PROVE  order[g] \in Seq(live)
    <3>1. PICK places \in SUBSET live : order[g] \in Arrangements(places)
      BY <2>1
    <3> QED
      BY <2>2, <3>1, ArrangementType
  <2>4. groups' \in [1 .. n -> GroupOf(live)]
    BY <2>1, <2>3 DEF GroupOf
  <2> DEFINE S == GroupOf(live)
  <2> HIDE DEF S
  <2>5. groups' \in Seq(S) /\ Len(groups') = n
    BY <1>4, <2>4, FunctionIsSequence DEF S
  <2> QED
    BY <2>5 DEF S
<1>6. Batch'
  BY <1>3, <1>5 DEF Batch
<1>7. /\ block' \in [0 .. NumThreads -> 0 .. n]
      /\ block'[0] = 0 /\ block'[NumThreads] = n
      /\ \A t \in Threads : block'[t] <= block'[t + 1]
  BY <1>1
<1>8. /\ next_group' \in [Threads -> Nat]
      /\ \A t \in Threads : next_group'[t] = block'[t] + 1 /\ block'[t] \in Nat
  <2>1. \A t \in Threads : t \in 0 .. NumThreads
    BY <1>4 DEF Threads
  <2>2. \A t \in Threads : block'[t] \in Nat
    BY <1>4, <1>7, <2>1
  <2>3. next_group' = [t \in Threads |-> block'[t] + 1]
    BY <1>1
  <2> QED
    BY <2>2, <2>3
<1>9. valid_lines' = [g \in 1 .. n |-> << >>] /\ alarm_lines' = [g \in 1 .. n |-> << >>]
  BY <1>1 DEF Empties
<1>10. Region'
  BY <1>5, <1>6, <1>7, <1>8, <1>9 DEF Region
<1>11. LinesInv'
  <2>1. ASSUME NEW g \in 1 .. n
        PROVE  Blank(g)'
    BY <1>9 DEF Blank
  <2>2. ASSUME NEW t \in Threads, NEW g \in Block(t)', g < next_group'[t]
        PROVE  FALSE
    <3>1. g \in (block'[t] + 1) .. block'[t + 1]
      BY DEF Block
    <3>2. block'[t] \in Nat /\ block'[t + 1] \in Int
      BY <1>4, <1>7, <1>8 DEF Threads
    <3> QED
      BY <1>8, <2>2, <3>1, <3>2
  <2> QED
    BY <1>5, <2>1, <2>2 DEF LinesInv
<1> QED
  BY <1>2, <1>3, <1>10, <1>11 DEF IInv
(* A group whose lines do not change stays as it was. *)
SameGroups == UNCHANGED <<vars, groups, block>>

SameLines(g) == valid_lines'[g] = valid_lines[g] /\ alarm_lines'[g] = alarm_lines[g]

LEMMA SamePart ==
    ASSUME SameGroups, NEW g
    PROVE  /\ NominalPart(g)' = NominalPart(g)
           /\ AlarmPart(g)' = AlarmPart(g)
           /\ ValuesOf(groups[g])' = ValuesOf(groups[g])
  BY DEF SameGroups, vars, NominalPart, AlarmPart, ValuesOf

LEMMA SameLinesKept ==
    ASSUME SameGroups, NEW g, SameLines(g)
    PROVE  /\ Formatted(g) => Formatted(g)'
           /\ Blank(g) => Blank(g)'
  BY SamePart DEF SameLines, Formatted, Blank

LEMMA SameRegion ==
    ASSUME SameGroups, Batch
    PROVE  Batch' /\ \A t : Block(t)' = Block(t)
  BY DEF SameGroups, vars, Batch, Block

(* The lines of a group, of either kind, are formatted in one step.        *)
LEMMA FormatKeeps == IInv /\ (\E t \in Threads : FormatGroup(t)) => IInv'
<1> SUFFICES ASSUME IInv, NEW t \in Threads, FormatGroup(t)
             PROVE  IInv'
  OBVIOUS
<1>0. PICK g : g = next_group[t]
  OBVIOUS
<1> DEFINE group == groups[g]
<1>1. /\ stage = "format" /\ stage' = stage
      /\ next_group[t] = g /\ g <= block[t + 1]
      /\ next_group' = [next_group EXCEPT ![t] = @ + 1]
      /\ UNCHANGED <<appended, valid_file, alarms_file>>
      /\ SameGroups
  BY <1>0 DEF FormatGroup, Formats, SameGroups
<1>2. Region /\ LinesInv
  BY <1>1 DEF IInv
<1>3. /\ Batch /\ Len(groups) \in Nat /\ NumThreads \in Nat \ {0}
      /\ next_group \in [Threads -> Nat]
      /\ valid_lines = [k \in 1 .. Len(groups) |-> valid_lines[k]]
      /\ alarm_lines = [k \in 1 .. Len(groups) |-> alarm_lines[k]]
  BY <1>2, ThreadsAssumption DEF Region, Batch
<1>4. /\ t \in 0 .. NumThreads /\ t + 1 \in 0 .. NumThreads
      /\ block[t] \in Nat /\ block[t + 1] \in 0 .. Len(groups)
      /\ block[t] < g
  BY <1>1, <1>2, <1>3 DEF Region, Threads
<1>5. g \in 1 .. Len(groups)
  <2>1. next_group[t] \in Nat
    BY <1>3
  <2> QED
    BY <1>1, <1>3, <1>4, <2>1
<1>6. Formatted(g) \/ Blank(g)
  BY <1>2, <1>5 DEF LinesInv
<1>7. /\ \A val \in ValuesOf(group) : ~ Throws(val)
      /\ IF group.violations = << >>
         THEN /\ valid_lines' = [valid_lines EXCEPT ![g] = <<format_nominal_line(group)>>]
              /\ UNCHANGED alarm_lines
         ELSE /\ alarm_lines' = [alarm_lines EXCEPT ![g] =
                    [n \in 1 .. Len(group.violations) |->
                        format_alarm_line(Violations(group)[n])]]
              /\ UNCHANGED valid_lines
  BY <1>0 DEF FormatGroup
<1>8. /\ valid_lines' = [k \in 1 .. Len(groups) |-> valid_lines'[k]]
      /\ alarm_lines' = [k \in 1 .. Len(groups) |-> alarm_lines'[k]]
      /\ \A k \in 1 .. Len(groups) : k # g => SameLines(k)
  BY <1>3, <1>7 DEF SameLines
<1>9. valid_lines'[g] = NominalPart(g) /\ alarm_lines'[g] = AlarmPart(g)
  <2>1. CASE group.violations = << >>
    <3>1. AlarmPart(g) = << >>
      BY <2>1 DEF AlarmPart
    <3>2. alarm_lines[g] = << >>
      BY <1>6, <3>1 DEF Formatted, Blank
    <3> QED
      BY <1>3, <1>5, <1>7, <2>1, <3>1, <3>2 DEF NominalPart
  <2>2. CASE group.violations # << >>
    <3>1. NominalPart(g) = << >>
      BY <2>2 DEF NominalPart
    <3>2. valid_lines[g] = << >>
      BY <1>6, <3>1 DEF Formatted, Blank
    <3>3. [n \in 1 .. Len(group.violations) |-> format_alarm_line(Violations(group)[n])]
            = AlarmPart(g)
      BY DEF AlarmPart, Violations
    <3> QED
      BY <1>3, <1>5, <1>7, <2>2, <3>1, <3>2, <3>3
  <2> QED
    BY <2>1, <2>2
<1>10. Formatted(g)'
  BY <1>1, <1>7, <1>9, SamePart DEF Formatted
<1>11. Region'
  <2>1. Batch'
    BY <1>1, <1>3, SameRegion
  <2>2. next_group' \in [Threads -> Nat] /\ \A u \in Threads : block[u] < next_group'[u]
    BY <1>1, <1>2, <1>3, <1>4 DEF Region
  <2>3. groups' = groups /\ block' = block
    BY <1>1 DEF SameGroups
  <2> QED
    BY <1>2, <1>8, <2>1, <2>2, <2>3 DEF Region
<1>12. LinesInv'
  <2>1. ASSUME NEW k \in 1 .. Len(groups)
        PROVE  /\ Formatted(k)' \/ Blank(k)'
               /\ Formatted(k) => Formatted(k)'
    <3>1. CASE k = g
      BY <3>1, <1>10
    <3>2. CASE k # g
      BY <3>2, <1>1, <1>2, <1>8, SameLinesKept DEF LinesInv
    <3> QED
      BY <3>1, <3>2
  <2>2. ASSUME NEW u \in Threads, NEW k \in Block(u), k < next_group'[u]
        PROVE  Formatted(k)'
    <3>1. u \in 0 .. NumThreads /\ u + 1 \in 0 .. NumThreads
      BY <1>3 DEF Threads
    <3>2. block[u] \in Nat /\ block[u + 1] \in 0 .. Len(groups)
      BY <1>2, <1>3, <3>1 DEF Region
    <3>3. k \in 1 .. Len(groups)
      BY <1>3, <3>2 DEF Block
    <3>4. CASE k < next_group[u]
      BY <1>2, <2>1, <3>3, <3>4 DEF LinesInv
    <3>5. CASE ~ (k < next_group[u])
      <4>1. u = t /\ k = g
        BY <1>1, <1>3, <2>2, <3>3, <3>5
      <4> QED
        BY <1>10, <4>1
    <3> QED
      BY <3>4, <3>5
  <2>3. groups' = groups /\ \A u : Block(u)' = Block(u)
    BY <1>1, <1>3, SameRegion DEF SameGroups
  <2> QED
    BY <2>1, <2>2, <2>3 DEF LinesInv
<1> QED
  BY <1>1, <1>2, <1>11, <1>12 DEF IInv
(* Steps that leave the region as it is. *)
SameLinesOfAll == SameGroups /\ UNCHANGED <<next_group, valid_lines, alarm_lines>>

LEMMA SameRegionKept ==
    ASSUME SameLinesOfAll, Region, LinesInv
    PROVE  /\ Region' /\ LinesInv'
           /\ \A g : Formatted(g) => Formatted(g)'
<1>1. /\ SameGroups /\ Batch
      /\ groups' = groups /\ block' = block /\ next_group' = next_group
      /\ valid_lines' = valid_lines /\ alarm_lines' = alarm_lines
  BY DEF SameLinesOfAll, SameGroups, Region
<1>2. Batch' /\ \A t : Block(t)' = Block(t)
  BY <1>1, SameRegion
<1>3. ASSUME NEW g
      PROVE  (Formatted(g) => Formatted(g)') /\ (Blank(g) => Blank(g)')
  BY <1>1, SameLinesKept DEF SameLines
<1>4. Region'
  BY <1>1, <1>2 DEF Region
<1>5. LinesInv'
  BY <1>1, <1>2, <1>3 DEF LinesInv
<1> QED
  BY <1>3, <1>4, <1>5

(* What has been appended does not depend on the files. *)
LEMMA SameAppended ==
    ASSUME SameGroups, NEW m
    PROVE  NominalLines(m)' = NominalLines(m) /\ AlarmLines(m)' = AlarmLines(m)
<1>1. groups' = groups /\ object' = object
  BY DEF SameGroups, vars
<1>2. Nominal(m)' = Nominal(m)
  BY <1>1 DEF Nominal
<1>3. AlarmPlaces(m)' = AlarmPlaces(m)
  BY <1>1 DEF AlarmPlaces
<1>4. Alarms(m)' = Alarms(m)
  BY <1>1, <1>3 DEF Alarms
<1> QED
  BY <1>1, <1>2, <1>4 DEF NominalLines, AlarmLines

(* Once no thread has a group left, all groups are formatted. *)
LEMMA EndParallelKeeps == IInv /\ EndParallel => IInv'
<1> SUFFICES ASSUME IInv, EndParallel
             PROVE  IInv'
  OBVIOUS
<1>1. /\ stage = "format" /\ stage' = "append"
      /\ SameLinesOfAll /\ UNCHANGED <<appended, valid_file, alarms_file>>
      /\ \A t \in Threads : ~ (next_group[t] <= block[t + 1])
  BY DEF EndParallel, SameLinesOfAll, SameGroups, Formats
<1>2. Region /\ LinesInv /\ appended = 0 /\ valid_file = << >> /\ alarms_file = << >>
  BY <1>1 DEF IInv
<1>3. ASSUME NEW g \in 1 .. Len(groups)
      PROVE  Formatted(g)'
  <2>1. PICK t \in Threads : g \in Block(t)
    BY <1>2, BlocksCover
  <2>2. t + 1 \in 0 .. NumThreads /\ t \in 0 .. NumThreads
    BY ThreadsAssumption DEF Threads
  <2>3. block[t] \in Int /\ block[t + 1] \in Int /\ next_group[t] \in Nat
    BY <1>2, <2>2 DEF Region
  <2>4. g < next_group[t]
    BY <1>1, <2>1, <2>3 DEF Block
  <2>5. Formatted(g)
    BY <1>2, <2>1, <2>4 DEF LinesInv
  <2> QED
    BY <1>1, <1>2, <2>5, SameRegionKept
<1>4. Region' /\ LinesInv' /\ groups' = groups
  BY <1>1, <1>2, SameRegionKept DEF SameLinesOfAll, SameGroups
<1>5. NominalLines(0)' = << >> /\ AlarmLines(0)' = << >>
  BY <1>1, FirstLines, SameAppended DEF SameLinesOfAll
<1>6. AppendInv'
  <2>1. appended' = 0 /\ valid_file' = << >> /\ alarms_file' = << >>
    BY <1>1, <1>2
  <2>2. 0 \in 0 .. Len(groups')
    BY <1>2, <1>4 DEF Region, Batch
  <2> QED
    BY <1>3, <1>4, <1>5, <2>1, <2>2 DEF AppendInv, FilesShow
<1> QED
  BY <1>1, <1>4, <1>6 DEF IInv

(* process_batch appends the lines of the next group. *)
LEMMA AppendOutputKeeps == IInv /\ AppendOutput => IInv'
<1> SUFFICES ASSUME IInv, AppendOutput
             PROVE  IInv'
  OBVIOUS
<1>0. PICK m : m = appended
  OBVIOUS
<1>1. /\ stage = "append" /\ stage' = stage
      /\ SameLinesOfAll
      /\ m < Len(groups) /\ appended' = m + 1
      /\ valid_file' = valid_file \o valid_lines[m + 1]
      /\ alarms_file' = alarms_file \o alarm_lines[m + 1]
  BY <1>0 DEF AppendOutput, SameLinesOfAll, SameGroups
<1>2. Region /\ LinesInv /\ AppendInv
  BY <1>1 DEF IInv
<1>3. /\ Batch /\ m \in 0 .. (Len(groups) - 1) /\ Len(groups) \in Nat
      /\ m + 1 \in 1 .. Len(groups)
  BY <1>0, <1>1, <1>2 DEF Region, Batch, AppendInv
<1>4. Formatted(m + 1)
  BY <1>2, <1>3 DEF AppendInv
<1>5. valid_file' = NominalLines(m + 1) /\ alarms_file' = AlarmLines(m + 1)
  BY <1>0, <1>1, <1>2, <1>3, <1>4, LinesNext DEF AppendInv, FilesShow, Formatted
<1>6. Region' /\ LinesInv' /\ groups' = groups
      /\ \A g \in 1 .. Len(groups) : Formatted(g)'
  BY <1>1, <1>2, SameRegionKept DEF SameLinesOfAll, SameGroups, AppendInv
<1>7. /\ valid_file' = NominalLines(m + 1)'
      /\ alarms_file' = AlarmLines(m + 1)'
  BY <1>1, <1>5, SameAppended DEF SameLinesOfAll
<1>8. AppendInv'
  <2>1. appended' = m + 1 /\ m + 1 \in 0 .. Len(groups')
    BY <1>1, <1>3, <1>6
  <2>2. FilesShow(m + 1)'
    BY <1>7 DEF FilesShow
  <2> QED
    BY <1>6, <2>1, <2>2 DEF AppendInv
<1> QED
  BY <1>1, <1>6, <1>8 DEF IInv
(* The steps before the region and those that change no line. *)
LEMMA OtherStepsKeep ==
    /\ OutputInit => IInv
    /\ IInv /\ BuildStep => IInv'
    /\ IInv /\ (\E t \in Threads : FormatThrows(t)) => IInv'
    /\ IInv /\ EndOutput => IInv'
    /\ IInv /\ (OutputDone \/ UNCHANGED allVars) => IInv'
<1>1. OutputInit => IInv
  BY DEF OutputInit, IInv
<1>2. IInv /\ BuildStep => IInv'
  BY DEF BuildStep, outputVars, IInv
<1>3. ASSUME IInv, SameLinesOfAll, UNCHANGED <<appended, valid_file, alarms_file>>
      PROVE  /\ Region /\ LinesInv => Region' /\ LinesInv'
             /\ Region /\ LinesInv /\ AppendInv => AppendInv'
  <2>1. CASE Region /\ LinesInv
    <3>1. Region' /\ LinesInv' /\ \A g : Formatted(g) => Formatted(g)'
      BY <1>3, <2>1, SameRegionKept
    <3>2. ASSUME AppendInv
          PROVE  AppendInv'
      <4>1. PICK m \in 0 .. Len(groups) : appended = m /\ FilesShow(m)
        BY <3>2 DEF AppendInv
      <4>2. NominalLines(m)' = NominalLines(m) /\ AlarmLines(m)' = AlarmLines(m)
        BY <1>3, SameAppended DEF SameLinesOfAll
      <4>3. groups' = groups /\ appended' = m
        BY <1>3, <4>1 DEF SameLinesOfAll, SameGroups
      <4>4. FilesShow(m)'
        BY <1>3, <4>1, <4>2 DEF FilesShow
      <4> QED
        BY <3>1, <3>2, <4>1, <4>3, <4>4 DEF AppendInv
    <3> QED
      BY <3>1, <3>2
  <2> QED
    BY <2>1
<1>4. ASSUME IInv, NEW t \in Threads, FormatThrows(t)
      PROVE  IInv'
  <2>1. /\ stage = "format" /\ stage' = "terminated"
        /\ SameLinesOfAll /\ UNCHANGED <<appended, valid_file, alarms_file>>
    BY <1>4 DEF FormatThrows, Formats, SameLinesOfAll, SameGroups
  <2> QED
    BY <1>3, <1>4, <2>1 DEF IInv
<1>5. ASSUME IInv, EndOutput
      PROVE  IInv'
  <2>1. /\ stage = "append" /\ stage' = "done" /\ appended = Len(groups)
        /\ SameLinesOfAll /\ UNCHANGED <<appended, valid_file, alarms_file>>
        /\ groups' = groups
    BY <1>5 DEF EndOutput, SameLinesOfAll, SameGroups
  <2> QED
    BY <1>3, <1>5, <2>1 DEF IInv
<1>6. ASSUME IInv, OutputDone \/ UNCHANGED allVars
      PROVE  IInv'
  <2>1. /\ stage' = stage /\ groups' = groups
        /\ SameLinesOfAll /\ UNCHANGED <<appended, valid_file, alarms_file>>
    BY <1>6 DEF OutputDone, allVars, outputVars, SameLinesOfAll, SameGroups
  <2> QED
    BY <1>3, <1>6, <2>1 DEF IInv
<1> QED
  BY <1>1, <1>2, <1>4, <1>5, <1>6

(***************************************************************************)
(* generate_output_parallel and the loop of process_batch: every group is  *)
(* formatted by one thread, in whatever order, and appended once, in the   *)
(* order of the groups.                                                    *)
(***************************************************************************)
THEOREM OutputInvariant == OutputSpec => []IInv
<1>1. OutputInit => IInv
  BY OtherStepsKeep
<1>2. TypeOK /\ IInv /\ [OutputNext]_allVars => IInv'
  BY OtherStepsKeep, StartKeeps, FormatKeeps, EndParallelKeeps, AppendOutputKeeps
     DEF OutputNext, OutputStep
<1>3. OutputSpec => []TypeOK
  BY StorageIsKept, TypeCorrect, PTL
<1> QED
  BY <1>1, <1>2, <1>3, PTL DEF OutputSpec
(* Where the lines of the files come from. *)
LEMMA NominalPlace ==
    ASSUME NEW m \in Nat
    PROVE  /\ Len(Nominal(m)) \in Nat
           /\ \A n \in 1 .. Len(Nominal(m)) :
                 Nominal(m)[n] \in 1 .. m /\ groups[Nominal(m)[n]].violations = << >>
<1> DEFINE S == {g \in 1 .. m : groups[g].violations = << >>}
<1>1. S \in SUBSET (1 .. m) /\ \A g \in S : groups[g].violations = << >> /\ g \in 1 .. m
  OBVIOUS
<1> HIDE DEF S
<1>2. Len(Ascending(S)) \in Nat /\ Ascending(S) \in [1 .. Len(Ascending(S)) -> S]
  BY <1>1, PlacesInOrder
<1>3. Nominal(m) = Ascending(S)
  BY DEF Nominal, S
<1> QED
  BY <1>1, <1>2, <1>3

LEMMA AlarmPlace ==
    ASSUME Batch, NEW m \in 0 .. Len(groups)
    PROVE  /\ Len(Alarms(m)) \in Nat
           /\ \A n \in 1 .. Len(Alarms(m)) :
                 \E g \in 1 .. m : \E k \in 1 .. Len(groups[g].violations) :
                    Alarms(m)[n] = groups[g].violations[k]
<1> DEFINE S     == AlarmPlaces(m)
           order == Ranking(S, LexicalOrder)
<1>1. IsFiniteSet(S) /\ S \subseteq Int \X Int
  BY AlarmPlacesType
<1>2. \A p \in S : \E g \in 1 .. m : \E k \in 1 .. Len(groups[g].violations) : p = <<g, k>>
  BY DEF AlarmPlaces
<1>3. Alarms(m) = [n \in 1 .. Cardinality(S) |-> groups[order[n][1]].violations[order[n][2]]]
  BY DEF Alarms
<1> HIDE DEF S
<1>4. IsStrictTotalOrder(S, LexicalOrder)
  BY <1>1, LexicalOrderIsTotal
<1>5. Cardinality(S) \in Nat /\ Len(order) = Cardinality(S) /\ order \in Seq(S)
  BY <1>1, <1>4, RankingFacts DEF Enumerates
<1> HIDE DEF order
<1>6. Len(Alarms(m)) = Cardinality(S)
  BY <1>3, <1>5
<1>7. ASSUME NEW n \in 1 .. Cardinality(S)
      PROVE  \E g \in 1 .. m : \E k \in 1 .. Len(groups[g].violations) :
                Alarms(m)[n] = groups[g].violations[k]
  <2>1. order[n] \in S
    BY <1>5
  <2>2. PICK g \in 1 .. m : \E k \in 1 .. Len(groups[g].violations) : order[n] = <<g, k>>
    BY <1>2, <2>1
  <2>3. PICK k \in 1 .. Len(groups[g].violations) : order[n] = <<g, k>>
    BY <2>2
  <2>4. Alarms(m)[n] = groups[g].violations[k]
    BY <1>3, <2>3
  <2> QED
    BY <2>4
<1> QED
  BY <1>5, <1>6, <1>7

(* A value whose line has been formatted is all in it. *)
LEMMA ValueReads ==
    ASSUME ValuesFitOrThrow, NEW g, Formatted(g), NEW val \in ValuesOf(groups[g]),
           val \in Value \/ \E readings \in Readings :
                              \E n \in 1 .. Len(readings) : val = readings[n][2]
    PROVE  val \in Double => Reads(format_value(val), val)
<1>1. ~ Throws(val)
  BY DEF Formatted
<1>2. Fits(val)
  BY <1>1 DEF ValuesFitOrThrow
<1> QED
  BY <1>2, FormattedValueReads

LEMMA NominalLineShows ==
    ASSUME ValuesFitOrThrow, Batch, NEW g \in 1 .. Len(groups), Formatted(g),
           groups[g].violations = << >>
    PROVE  Shows(format_nominal_line(groups[g]), groups[g].readings)
<1> DEFINE pairs == groups[g].readings
           line  == format_nominal_line(groups[g])
<1>1. pairs \in Readings
  BY GroupFacts
<1>2. pairs \in Seq(Int \X Double)
  BY <1>1, OutputAssumption
<1>3. line = [n \in 1 .. Len(pairs) |-> <<Name(pairs[n][1]), format_value(pairs[n][2])>>]
  BY DEF format_nominal_line
<1>4. \A n \in 1 .. Len(pairs) : pairs[n][2] \in ValuesOf(groups[g])
  BY DEF ValuesOf
<1> HIDE DEF pairs, line
<1>5. ASSUME NEW n \in 1 .. Len(pairs)
      PROVE  line[n][1] = Name(pairs[n][1]) /\ Reads(line[n][2], pairs[n][2])
  <2>1. pairs[n][2] \in Double
    BY <1>2
  <2>2. Reads(format_value(pairs[n][2]), pairs[n][2])
    BY <1>1, <1>4, <2>1, ValueReads
  <2>3. line[n] = <<Name(pairs[n][1]), format_value(pairs[n][2])>>
    BY <1>3
  <2> QED
    BY <2>2, <2>3
<1>6. Len(line) = Len(pairs)
  BY <1>2, <1>3
<1>7. Shows(line, pairs)
  BY <1>5, <1>6 DEF Shows
<1> QED
  BY <1>7 DEF line, pairs

LEMMA AlarmLineShows ==
    ASSUME ValuesFitOrThrow, TypeOK, ReadsBack, Batch, NEW g \in 1 .. Len(groups),
           Formatted(g), NEW k \in 1 .. Len(groups[g].violations)
    PROVE  LET o == groups[g].violations[k]
           IN  Shows(format_alarm_line(object[o]), added[o])
<1> DEFINE o     == groups[g].violations[k]
           v     == object[o]
           pairs == added[o]
           line  == format_alarm_line(v)
<1>1. groups[g].violations \in Seq(live) /\ groups[g].violations # << >>
  BY GroupFacts
<1>2. o \in live
  BY <1>1
<1>3. pairs \in Seq(Token \X Value) /\ v.count = Len(pairs)
  BY <1>2 DEF TypeOK, ReadsBack
<1>4. \A n \in 1 .. Len(pairs) :
         <<sensor_token_at(v, n - 1), value_at(v, n - 1)>> = pairs[n]
  BY <1>2 DEF ReadsBack
<1>5. \A n \in 0 .. (v.count - 1) : value_at(v, n) \in ValuesOf(groups[g])
  BY <1>1 DEF ValuesOf
<1>6. line = [n \in 1 .. v.count |->
                 <<Name(sensor_token_at(v, n - 1)), format_value(value_at(v, n - 1))>>]
  BY DEF format_alarm_line
<1> HIDE DEF pairs, line, v, o
<1>7. ASSUME NEW n \in 1 .. Len(pairs)
      PROVE  line[n][1] = Name(pairs[n][1]) /\ Reads(line[n][2], pairs[n][2])
  <2>1. /\ pairs[n][1] = sensor_token_at(v, n - 1)
        /\ pairs[n][2] = value_at(v, n - 1)
    BY <1>4
  <2>2. pairs[n][2] \in Value /\ pairs[n][2] \in Double
    BY <1>3, OutputAssumption
  <2>3. pairs[n][2] \in ValuesOf(groups[g])
    BY <1>3, <1>5, <2>1
  <2>4. Reads(format_value(pairs[n][2]), pairs[n][2])
    BY <2>2, <2>3, ValueReads
  <2>5. line[n] = <<Name(pairs[n][1]), format_value(pairs[n][2])>>
    BY <1>3, <1>6, <2>1
  <2> QED
    BY <2>4, <2>5
<1>8. Len(line) = Len(pairs)
  BY <1>3, <1>6
<1>9. Shows(line, pairs)
  BY <1>7, <1>8 DEF Shows
<1> QED
  BY <1>9 DEF line, pairs, v, o

(***************************************************************************)
(* From RuleViolation::add to the two files: each group without violations *)
(* has its line with all its readings, each violation its line with all    *)
(* the pairs that were added to it, wherever it was moved and whichever    *)
(* thread formatted it, and each value is printed to all its decimals, if  *)
(* no value of the batch is one that the buffer cuts off in silence.       *)
(***************************************************************************)
THEOREM FilesShowWhatWasGiven ==
    ASSUME ValuesFitOrThrow
    PROVE  OutputSpec => []FilesShowTheBatch
<1>1. ASSUME TypeOK, ReadsBack, IInv
      PROVE  FilesShowTheBatch
  <2> SUFFICES ASSUME stage = "done"
               PROVE  FilesShowTheBatch
    BY DEF FilesShowTheBatch
  <2> DEFINE len     == Len(groups)
             nominal == Nominal(len)
             alarms  == Alarms(len)
  <2>1. /\ Batch /\ len \in Nat
        /\ \A g \in 1 .. len : Formatted(g)
        /\ FilesShow(len)
    BY <1>1 DEF IInv, Region, Batch, AppendInv
  <2>2. Len(nominal) \in Nat /\ Len(alarms) \in Nat
    BY <2>1, NominalPlace, AlarmPlace
  <2>3. /\ Len(valid_file) = Len(nominal)
        /\ \A n \in 1 .. Len(nominal) :
              valid_file[n] = format_nominal_line(groups[nominal[n]])
    BY <2>1, <2>2 DEF FilesShow, NominalLines
  <2>4. /\ Len(alarms_file) = Len(alarms)
        /\ \A n \in 1 .. Len(alarms) :
              alarms_file[n] = format_alarm_line(object[alarms[n]])
    BY <2>1, <2>2 DEF FilesShow, AlarmLines
  <2>5. ASSUME NEW n \in 1 .. Len(nominal)
        PROVE  Shows(valid_file[n], groups[nominal[n]].readings)
    <3>1. nominal[n] \in 1 .. len /\ groups[nominal[n]].violations = << >>
      BY <2>1, NominalPlace
    <3> HIDE DEF nominal
    <3> QED
      BY <2>1, <2>3, <3>1, NominalLineShows
  <2>6. ASSUME NEW n \in 1 .. Len(alarms)
        PROVE  Shows(alarms_file[n], added[alarms[n]])
    <3>1. PICK g \in 1 .. len : \E k \in 1 .. Len(groups[g].violations) :
                                   alarms[n] = groups[g].violations[k]
      BY <2>1, AlarmPlace
    <3>2. PICK k \in 1 .. Len(groups[g].violations) : alarms[n] = groups[g].violations[k]
      BY <3>1
    <3>3. Shows(format_alarm_line(object[groups[g].violations[k]]),
                added[groups[g].violations[k]])
      BY <1>1, <2>1, AlarmLineShows
    <3> QED
      BY <2>4, <3>2, <3>3
  <2> QED
    BY <2>3, <2>4, <2>5, <2>6 DEF FilesShowTheBatch
<1>2. OutputSpec => []TypeOK /\ []ReadsBack
  BY StorageIsKept, TypeCorrect, StorageIsSequence, PTL
<1> QED
  BY <1>1, <1>2, OutputInvariant, PTL
=============================================================================
