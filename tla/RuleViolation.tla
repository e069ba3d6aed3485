--------------------------- MODULE RuleViolation ---------------------------
(***************************************************************************)
(* The storage of types.hpp's RuleViolation: the first INLINE_CAPACITY     *)
(* pairs of sensor token and value in two arrays, the rest in two vectors. *)
(* An object is built by add and moved: into a thread's list, into the     *)
(* merged list, and about while that is sorted.                            *)
(***************************************************************************)
EXTENDS Integers, Sequences

CONSTANTS
    INLINE_CAPACITY,
    Objects,        \* where an object may be: list elements and temporaries
    Token, Value,
    ZeroToken, ZeroValue,   \* what an array is filled with
    MaxAdds         \* bound: pairs added to one object

ASSUME CapacityAssumption == INLINE_CAPACITY \in Nat /\ MaxAdds \in Nat

ASSUME ZeroAssumption == ZeroToken \in Token /\ ZeroValue \in Value

VARIABLES
    object,     \* place -> the members of the object there
    live,       \* the places whose object has not been moved from
    added       \* place -> the pairs the object there was given (history)

vars == <<object, live, added>>

Slots == 0 .. (INLINE_CAPACITY - 1)

Members == [count : Nat,
            sensor_tokens_inline : [Slots -> Token], values_inline : [Slots -> Value],
            sensor_tokens_extra : Seq(Token), values_extra : Seq(Value)]

Empty ==
    [count |-> 0,
     sensor_tokens_inline |-> [n \in Slots |-> ZeroToken],
     values_inline |-> [n \in Slots |-> ZeroValue],
     sensor_tokens_extra |-> << >>,
     values_extra |-> << >>]

(* Mutant of add: one pair too many in the arrays. *)
add_at_capacity(v, sensor_token, value) ==
    IF v.count <= INLINE_CAPACITY
    THEN [v EXCEPT !.sensor_tokens_inline = [@ EXCEPT ![v.count] = sensor_token],
                   !.values_inline = [@ EXCEPT ![v.count] = value],
                   !.count = @ + 1]
    ELSE [v EXCEPT !.sensor_tokens_extra = Append(@, sensor_token),
                   !.values_extra = Append(@, value),
                   !.count = @ + 1]

add(v, sensor_token, value) ==
    IF v.count < INLINE_CAPACITY
    THEN [v EXCEPT !.sensor_tokens_inline = [@ EXCEPT ![v.count] = sensor_token],
                   !.values_inline = [@ EXCEPT ![v.count] = value],
                   !.count = @ + 1]
    ELSE [v EXCEPT !.sensor_tokens_extra = Append(@, sensor_token),
                   !.values_extra = Append(@, value),
                   !.count = @ + 1]

(* What a move leaves: the vectors are emptied, count and arrays are not. *)
MovedFrom(v) == [v EXCEPT !.sensor_tokens_extra = << >>, !.values_extra = << >>]

(* idx is from 0, a vector is indexed from 1 here. *)
sensor_token_at(v, idx) ==
    IF idx < INLINE_CAPACITY
    THEN v.sensor_tokens_inline[idx]
    ELSE v.sensor_tokens_extra[idx - INLINE_CAPACITY + 1]

value_at(v, idx) ==
    IF idx < INLINE_CAPACITY
    THEN v.values_inline[idx]
    ELSE v.values_extra[idx - INLINE_CAPACITY + 1]
-----------------------------------------------------------------------------
Init ==
    /\ object = [o \in Objects |-> Empty]
    /\ live = {}
    /\ added = [o \in Objects |-> << >>]

Construct(o) ==
    /\ o \notin live
    /\ object' = [object EXCEPT ![o] = Empty]
    /\ live' = live \cup {o}
    /\ added' = [added EXCEPT ![o] = << >>]

Add(o, sensor_token, value) ==
    /\ o \in live
    /\ Len(added[o]) < MaxAdds
    /\ object' = [object EXCEPT ![o] = add(@, sensor_token, value)]
    /\ added' = [added EXCEPT ![o] = Append(@, <<sensor_token, value>>)]
    /\ UNCHANGED live

(* The implicit move operations, of whatever is at the destination. *)
Move(from, to) ==
    /\ from \in live
    /\ to # from
    /\ object' = [object EXCEPT ![to] = object[from], ![from] = MovedFrom(@)]
    /\ live' = (live \cup {to}) \ {from}
    /\ added' = [added EXCEPT ![to] = added[from]]

Next ==
    \E o \in Objects :
        \/ Construct(o)
        \/ \E sensor_token \in Token, value \in Value : Add(o, sensor_token, value)
        \/ \E to \in Objects : Move(o, to)

Spec == Init /\ [][Next]_vars
-----------------------------------------------------------------------------
TypeOK ==
    /\ object \in [Objects -> Members]
    /\ live \subseteq Objects
    /\ added \in [Objects -> Seq(Token \X Value)]

(* The pairs the arrays do not hold. *)
Spilt(n) == IF n < INLINE_CAPACITY THEN 0 ELSE n - INLINE_CAPACITY

(***************************************************************************)
(* An object that has not been moved from reads back the pairs it was      *)
(* given, in their order, wherever it is now and whichever side of         *)
(* INLINE_CAPACITY they lie on.                                            *)
(***************************************************************************)
ReadsBack ==
    \A o \in live :
        /\ object[o].count = Len(added[o])
        /\ Len(object[o].sensor_tokens_extra) = Spilt(Len(added[o]))
        /\ Len(object[o].values_extra) = Spilt(Len(added[o]))
        /\ \A n \in 1 .. Len(added[o]) :
              <<sensor_token_at(object[o], n - 1), value_at(object[o], n - 1)>>
                  = added[o][n]
=============================================================================
