------------------------------- MODULE Arrays -------------------------------
(***************************************************************************)
(* The array exercises: the three sorts of sort.c, which exchange elements *)
(* in place, and the axis maps of kernel_list/sensor_core.c.  Indices      *)
(* start at 1 here.  The array is any that may be given to them.           *)
(***************************************************************************)
EXTENDS Integers, Sequences, SequencesExt, FiniteSetsExt, Functions

CONSTANTS
    Numbers,    \* the elements
    MaxSize,    \* bound: the longest array
    Half        \* 2^15: the magnitude of the least int16_t

ASSUME ArraysAssumption ==
    /\ Half \in Nat \ {0} /\ Numbers \subseteq -Half..(Half - 1)
    /\ MaxSize \in Nat

VARIABLE a

ArrayInit == a \in UNION {[1..k -> Numbers]: k \in 0..MaxSize}

Exchange(s, i, j) == [s EXCEPT ![i] = s[j], ![j] = s[i]]

\* MUTANT: the comparison is turned round.
Ordered_descending(s, j) == IF s[j] < s[j + 1] THEN Exchange(s, j, j + 1) ELSE s

\* The body of the bubble sorts' loops, which never moves equal elements.
Ordered(s, j) == IF s[j] > s[j + 1] THEN Exchange(s, j, j + 1) ELSE s

\* The indices from i up to j, and from j down to i, as loops run over them.
Up(i, j) == [k \in 1..(j - i + 1) |-> i + k - 1]
Down(j, i) == [k \in 1..(j - i + 1) |-> j - k + 1]

\* A loop over the indices js.
Bubbled(s, js) ==
    LET r[k \in 0..Len(js)] == IF k = 0 THEN s ELSE Ordered(r[k - 1], js[k])
    IN  r[Len(js)]

\* Without an element there is no round.
sort_bubble(s) ==
    LET r[i \in 0..(Len(s) - 1)] == IF i = 0 THEN s ELSE Bubbled(r[i - 1], Up(1, Len(s) - i))
    IN  IF s = <<>> THEN s ELSE r[Len(s) - 1]

\* Up to the right end, which then moves in, and down to the left end.  The
\* ends meet after half of the rounds.
sort_bubble_v2(s) ==
    LET r[left \in 0..(Len(s) \div 2)] ==
            LET right == Len(s) + 1 - left
            IN  IF left = 0 THEN s
                ELSE Bubbled(Bubbled(r[left - 1], Up(left, right - 1)), Down(right - 1, left))
    IN  r[Len(s) \div 2]

\* The index of a least element from i on, the first one.
Least(s, i) ==
    LET k[j \in 0..(Len(s) - i)] ==
            IF j = 0 THEN i ELSE IF s[i + j] < s[k[j - 1]] THEN i + j ELSE k[j - 1]
    IN  k[Len(s) - i]

sort_select(s) ==
    LET r[i \in 0..Len(s)] ==
            IF i = 0 THEN s
            ELSE LET k == Least(r[i - 1], i) IN IF k # i THEN Exchange(r[i - 1], k, i) ELSE r[i - 1]
    IN  r[Len(s)]

Int16(v) == ((v + Half) % (2 * Half)) - Half

\* sensor_axis_map_init: each axis is given as an integer in -3..3 but 0.
AxisMap(cfg) ==
    LET sign == [i \in 1..3 |-> IF cfg[i] < 0 THEN -1 ELSE 1]
    IN  [axis |-> [i \in 1..3 |-> cfg[i] * sign[i]], sign |-> sign]

sensor_data_map_axis(map, data) ==
    [i \in 1..3 |-> Int16(data[map.axis[i]] * map.sign[i])]

-----------------------------------------------------------------------------
Sorted(s) == \A i, j \in DOMAIN s: i < j => s[i] <= s[j]
SameElements(s, r) ==
    Len(s) = Len(r) /\ \A v \in Range(s) \cup Range(r): Cardinality({i \in DOMAIN s: s[i] = v})
                                                      = Cardinality({i \in DOMAIN r: r[i] = v})

(* Each sort returns its array's elements in order, also of arrays that are
   empty, sorted already, the wrong way round, or full of equal elements;
   sort_bubble_v2 leaves its loop when its two ends meet. *)
SortsSort ==
    \A r \in {sort_bubble(a), sort_bubble_v2(a), sort_select(a)}: Sorted(r) /\ SameElements(a, r)

\* The configurations that name each axis once, and the one that undoes one.
AxisConfigs == {f \in [1..3 -> {-3, -2, -1, 1, 2, 3}]: \A i, j \in 1..3:
                   i # j => f[i] # f[j] /\ f[i] # -f[j]}
Undo(cfg) == [i \in 1..3 |-> LET j == CHOOSE j \in 1..3: cfg[j] \in {i, -i}
                             IN  IF cfg[j] = i THEN j ELSE -j]

(* A map that names each axis once loses nothing: the map that undoes it
   gives back the data, the least int16_t, which has no negative, included. *)
AxesCanBeMappedBack ==
    Len(a) = 3 => \A cfg \in AxisConfigs:
        sensor_data_map_axis(AxisMap(Undo(cfg)), sensor_data_map_axis(AxisMap(cfg), a)) = a

(* What the exercises compute from an array is a function of its elements:
   none is lost, made up or changed on the way. *)
KeepsElements == SortsSort /\ AxesCanBeMappedBack
=============================================================================
