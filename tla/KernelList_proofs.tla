------------------------- MODULE KernelList_proofs -------------------------
(***************************************************************************)
(* The doubly linked lists of list.h as sequences, for every number of     *)
(* heads and entries: KernelList implements ListRules.  ListInv says that  *)
(* the live cells are rings with at most one head each; from it follows    *)
(* that next leads from a head along a sequence of its own (Ring), which   *)
(* is what list_for_each comes by (ContentsIs).  Then, for each function   *)
(* of the header, what becomes of the sequences of all heads at once       *)
(* (ContentsOf) when it has made its stores; and from that the step of     *)
(* ListRules each action of the program is.                                *)
(***************************************************************************)
EXTENDS Lists_proofs

(* What a loop from h has gone over after k steps along s, h included.      *)
Upto(s, k) == IF k <= Len(s) THEN k ELSE Len(s)
Gone(h, s, k) == [i \in 1..Upto(s, k) + 1 |-> Knot(h, s, i - 1)]

(* It grows by a member with each step until all of s is in it.             *)
LEMMA GoneGrows ==
  ASSUME NEW nodes, NEW h, NEW s \in Seq(nodes), NEW N \in Nat, Len(s) <= N
  PROVE  /\ Gone(h, s, 0) = <<h>>
         /\ \A k \in 1..N: Gone(h, s, k) = IF k <= Len(s) THEN Append(Gone(h, s, k - 1), s[k])
                                           ELSE Gone(h, s, k - 1)
         /\ \A k \in 0..N: Last(Gone(h, s, k)) = Knot(h, s, Upto(s, k))
         /\ Tail(Gone(h, s, N)) = s
<1>1. Len(s) \in Nat
  OBVIOUS
<1>2. \A k \in 0..N: /\ Upto(s, k) \in 0..Len(s)
                     /\ Gone(h, s, k) \in Seq(nodes \cup {h})
                     /\ Len(Gone(h, s, k)) = Upto(s, k) + 1
                     /\ \A i \in 1..Upto(s, k) + 1: Gone(h, s, k)[i] = Knot(h, s, i - 1)
  BY <1>1 DEF Gone, Knot, Upto
<1>3. Gone(h, s, 0) = <<h>>
  BY <1>1 DEF Gone, Knot, Upto
<1>4. ASSUME NEW k \in 1..N
      PROVE  Gone(h, s, k) = IF k <= Len(s) THEN Append(Gone(h, s, k - 1), s[k])
                             ELSE Gone(h, s, k - 1)
  <2>1. k - 1 \in 0..N /\ k \in 0..N
    BY <1>1
  <2>2. CASE k <= Len(s)
    <3>1. Upto(s, k) = k /\ Upto(s, k - 1) = k - 1 /\ s[k] \in nodes
      BY <1>1, <2>2 DEF Upto
    <3>2. /\ Len(Gone(h, s, k - 1)) = k /\ Gone(h, s, k - 1) \in Seq(nodes \cup {h})
          /\ Len(Gone(h, s, k)) = k + 1 /\ Gone(h, s, k) \in Seq(nodes \cup {h})
          /\ \A i \in 1..k: Gone(h, s, k)[i] = Gone(h, s, k - 1)[i]
          /\ Gone(h, s, k)[k + 1] = s[k]
      <4>1. /\ Len(Gone(h, s, k - 1)) = (k - 1) + 1 /\ Gone(h, s, k - 1) \in Seq(nodes \cup {h})
            /\ \A i \in 1..(k - 1) + 1: Gone(h, s, k - 1)[i] = Knot(h, s, i - 1)
        BY <1>2, <2>1, <3>1
      <4>2. /\ Len(Gone(h, s, k)) = k + 1 /\ Gone(h, s, k) \in Seq(nodes \cup {h})
            /\ \A i \in 1..k + 1: Gone(h, s, k)[i] = Knot(h, s, i - 1)
        BY <1>2, <2>1, <3>1
      <4>3. Knot(h, s, (k + 1) - 1) = s[k]
        BY <1>1, <2>2 DEF Knot
      <4>. QED
        BY ONLY <4>1, <4>2, <4>3, <1>1, k \in 1..N, N \in Nat
    <3>3. /\ Append(Gone(h, s, k - 1), s[k]) \in Seq(nodes \cup {h})
          /\ Len(Append(Gone(h, s, k - 1), s[k])) = k + 1
          /\ \A i \in 1..k + 1: Append(Gone(h, s, k - 1), s[k])[i] = Gone(h, s, k)[i]
      BY <3>1, <3>2
    <3>. QED
      BY <2>2, <3>2, <3>3
  <2>3. CASE k > Len(s)
    <3>1. Upto(s, k) = Len(s) /\ Upto(s, k - 1) = Len(s) /\ ~ (k <= Len(s))
      BY <1>1, <2>3 DEF Upto
    <3>. QED
      BY <3>1 DEF Gone
  <2>. QED
    BY <1>1, <2>2, <2>3
<1>5. \A k \in 0..N: Last(Gone(h, s, k)) = Knot(h, s, Upto(s, k))
  <2>. TAKE k \in 0..N
  <2>1. /\ Upto(s, k) \in Nat /\ Len(Gone(h, s, k)) = Upto(s, k) + 1
        /\ \A i \in 1..Upto(s, k) + 1: Gone(h, s, k)[i] = Knot(h, s, i - 1)
    BY <1>2
  <2>2. /\ Upto(s, k) + 1 \in 1..Upto(s, k) + 1
        /\ (Upto(s, k) + 1) - 1 = Upto(s, k)
    BY <2>1
  <2>. QED
    BY <2>1, <2>2 DEF Last
<1>6. Tail(Gone(h, s, N)) = s
  <2>1. /\ Gone(h, s, N) \in Seq(nodes \cup {h}) /\ Len(Gone(h, s, N)) = Len(s) + 1
        /\ \A i \in 1..Len(s): Gone(h, s, N)[i + 1] = s[i]
    BY <1>1, <1>2 DEF Upto, Knot
  <2>2. Tail(Gone(h, s, N)) \in Seq(nodes \cup {h}) /\ Len(Tail(Gone(h, s, N))) = Len(s)
    BY <1>1, <2>1
  <2>3. \A i \in 1..Len(s): Tail(Gone(h, s, N))[i] = s[i]
    BY <1>1, <2>1
  <2>. QED
    BY <1>1, <2>2, <2>3
<1>. QED
  BY <1>3, <1>4, <1>5, <1>6

(* From the head h the pointers f lead along s, and back to h.              *)
Ring(f, h, s) == Strung(f, h, s, Entries) /\ f[Knot(h, s, Len(s))] = h

(* Then list_for_each comes by s.                                           *)
LEMMA ContentsIs ==
  ASSUME NEW m, NEW h \in Heads, NEW s, Ring(m.next, h, s)
  PROVE  ContentsIn(m, h) = s
<1>. DEFINE N == Cardinality(Entries)
            Follows(g) == g = [k \in 0..N |->
              IF k = 0 THEN <<h>>
              ELSE IF Last(g[k - 1]) \notin Cells \/ m.next[Last(g[k - 1])] = h THEN g[k - 1]
                   ELSE Append(g[k - 1], m.next[Last(g[k - 1])])]
            trail == CHOOSE g: Follows(g)
            want == [k \in 0..N |-> Gone(h, s, k)]
<1>1. s \in Seq(Entries) /\ Len(s) \in Nat /\ N \in Nat /\ Len(s) <= N
  BY UniqFits, CellsAssumption DEF Strung, Ring
<1>2. ContentsIn(m, h) = Tail(trail[N])
  BY DEF ContentsIn
<1>3. /\ Gone(h, s, 0) = <<h>> /\ Tail(Gone(h, s, N)) = s
      /\ \A k \in 1..N: Gone(h, s, k) = IF k <= Len(s) THEN Append(Gone(h, s, k - 1), s[k])
                                        ELSE Gone(h, s, k - 1)
      /\ \A k \in 0..N: Last(Gone(h, s, k)) = Knot(h, s, Upto(s, k))
  BY <1>1, GoneGrows
<1>4. ASSUME NEW k \in 1..N
      PROVE  LET c == Last(Gone(h, s, k - 1))
             IN  Gone(h, s, k) = IF c \notin Cells \/ m.next[c] = h THEN Gone(h, s, k - 1)
                                 ELSE Append(Gone(h, s, k - 1), m.next[c])
  <2>1. Last(Gone(h, s, k - 1)) = Knot(h, s, Upto(s, k - 1))
    <3>1. k - 1 \in 0..N
      BY <1>1
    <3>. QED
      BY <1>3, <3>1
  <2>2. CASE k <= Len(s)
    <3>1. /\ Upto(s, k - 1) = k - 1 /\ m.next[Knot(h, s, k - 1)] = s[k] /\ s[k] # h
          /\ Knot(h, s, k - 1) \in Cells
      <4>1. k - 1 \in 0..Len(s) - 1 /\ (k - 1) + 1 = k /\ s[k] \in Entries
        BY <1>1, <2>2
      <4>2. m.next[Knot(h, s, k - 1)] = s[k]
        BY <4>1 DEF Ring, Strung
      <4>3. Upto(s, k - 1) = k - 1
        BY <1>1, <2>2 DEF Upto
      <4>4. s[k] # h
        BY <4>1, CellsAssumption
      <4>5. Knot(h, s, k - 1) \in Cells
        BY <1>1, <4>1 DEF Knot, Cells
      <4>. QED
        BY <4>2, <4>3, <4>4, <4>5
    <3>. QED
      BY <1>3, <2>1, <2>2, <3>1
  <2>3. CASE k > Len(s)
    <3>1. Upto(s, k - 1) = Len(s) /\ m.next[Knot(h, s, Len(s))] = h /\ ~ (k <= Len(s))
      BY <1>1, <2>3 DEF Ring, Upto
    <3>. QED
      BY <1>3, <2>1, <3>1
  <2>. QED
    BY <1>1, <2>2, <2>3
<1>5. Follows(want)
  <2>1. ASSUME NEW k \in 0..N
        PROVE  Gone(h, s, k) = IF k = 0 THEN <<h>>
              ELSE IF Last(want[k - 1]) \notin Cells \/ m.next[Last(want[k - 1])] = h
                   THEN want[k - 1] ELSE Append(want[k - 1], m.next[Last(want[k - 1])])
    <3>1. CASE k = 0
      BY <1>3, <3>1
    <3>2. CASE k # 0
      <4>1. k \in 1..N /\ want[k - 1] = Gone(h, s, k - 1)
        BY <1>1, <3>2
      <4>. HIDE DEF want
      <4>. QED
        BY <1>4, <3>2, <4>1
    <3>. QED
      BY <3>1, <3>2
  <2>. QED
    BY <2>1
<1>6. Follows(trail)
  <2>. HIDE DEF Follows, want
  <2>. QED
    BY <1>5
<1>. HIDE DEF trail
<1>. DEFINE Same == {k \in 0..N: trail[k] = Gone(h, s, k)}
<1>7. 0 \in Same
  BY <1>1, <1>3, <1>6
<1>8. ASSUME NEW k \in 0..N - 1, k \in Same PROVE k + 1 \in Same
  <2>1. /\ k + 1 \in 1..N /\ k + 1 \in 0..N /\ k + 1 # 0 /\ (k + 1) - 1 = k
        /\ trail[k] = Gone(h, s, k)
    BY <1>1, <1>8
  <2>2. trail[k + 1] = IF Last(trail[k]) \notin Cells \/ m.next[Last(trail[k])] = h
                       THEN trail[k] ELSE Append(trail[k], m.next[Last(trail[k])])
    BY <1>6, <2>1
  <2>3. Gone(h, s, k + 1) =
          IF Last(Gone(h, s, k)) \notin Cells \/ m.next[Last(Gone(h, s, k))] = h
          THEN Gone(h, s, k) ELSE Append(Gone(h, s, k), m.next[Last(Gone(h, s, k))])
    BY <1>4, <2>1
  <2>. QED
    BY <2>1, <2>2, <2>3
<1>. HIDE DEF Same
<1>9. \A k \in 0..N: k \in Same
  BY <1>1, <1>7, <1>8, UpTo
<1>10. trail[N] = Gone(h, s, N)
  BY <1>1, <1>9 DEF Same
<1>. QED
  BY <1>2, <1>3, <1>10

(* The memories in which lists are what ListInv says of them.               *)
Sound(m, cs) ==
    /\ m \in Memories /\ cs \in SUBSET Cells
    /\ \E o \in Owners: Linked(m, cs, o) /\ \A h \in cs \cap Heads: o[h] = h

(* Following next from a head leads back to it, over entries of its own.    *)
LEMMA RingExists ==
  ASSUME NEW m, NEW cs \in SUBSET Cells, NEW o, Linked(m, cs, o),
         \A h \in cs \cap Heads: o[h] = h, NEW h \in cs \cap Heads
  PROVE  \E s: Ring(m.next, h, s) /\ \A i \in 1..Len(s): s[i] \in cs /\ o[s[i]] = h
<1>. DEFINE N == Cardinality(Entries)
            step == [k \in 1..N + 1 |-> [c \in cs |-> m.next[c]]]
<1>1. N \in Nat /\ N + 1 \in Nat
  BY CellsAssumption, FS_CardinalityType
<1>2. PICK g: Recurs(g, N + 1, cs, h, step)
  <2>1. step \in [1..N + 1 -> [cs -> cs]] /\ h \in cs
    BY DEF Linked
  <2>. HIDE DEF step, N
  <2>. QED
    BY <1>1, <2>1, RecursionExists
<1>3. /\ g \in [0..N + 1 -> cs] /\ g[0] = h
      /\ \A k \in 0..N: g[k + 1] = m.next[g[k]] /\ g[k] = m.prev[g[k + 1]]
  <2>1. g \in [0..N + 1 -> cs] /\ g[0] = h
    BY <1>2 DEF Recurs
  <2>2. ASSUME NEW k \in 0..N PROVE g[k + 1] = m.next[g[k]] /\ g[k] = m.prev[g[k + 1]]
    <3>1. k + 1 \in 1..N + 1 /\ (k + 1) - 1 = k /\ k \in 0..N + 1
      BY <1>1
    <3>2. g[k + 1] = step[k + 1][g[k]] /\ g[k] \in cs
      BY <1>2, <2>1, <3>1 DEF Recurs
    <3>. QED
      BY <3>1, <3>2 DEF Linked
  <2>. QED
    BY <2>1, <2>2
<1>. HIDE DEF step, N
<1>4. \A k \in 0..N + 1: o[g[k]] = h /\ (g[k] = h \/ g[k] \in Entries)
  <2>. DEFINE S == {k \in 0..N + 1: o[g[k]] = h}
  <2>1. 0 \in S
    BY <1>1, <1>3
  <2>2. ASSUME NEW k \in 0..(N + 1) - 1, k \in S PROVE k + 1 \in S
    <3>1. k \in 0..N /\ k \in 0..N + 1 /\ k + 1 \in 0..N + 1
      BY <1>1
    <3>2. o[g[k + 1]] = o[g[k]]
      BY <1>3, <3>1 DEF Linked
    <3>. QED
      BY <2>2, <3>1, <3>2
  <2>. HIDE DEF S
  <2>3. \A k \in 0..N + 1: k \in S
    BY <1>1, <2>1, <2>2, UpTo
  <2>4. \A k \in 0..N + 1: o[g[k]] = h
    BY <2>3 DEF S
  <2>. QED
    BY <1>3, <2>4 DEF Cells
<1>5. ASSUME NEW i \in 0..N + 1, NEW j \in 0..N + 1, i < j, g[i] = g[j]
      PROVE  g[j - i] = h
  <2>. DEFINE S == {d \in 0..i: g[i - d] = g[j - d]}
  <2>1. 0 \in S
    BY <1>1, <1>5
  <2>2. ASSUME NEW d \in 0..i - 1, d \in S PROVE d + 1 \in S
    <3>1. /\ i - (d + 1) \in 0..N /\ j - (d + 1) \in 0..N /\ d + 1 \in 0..i
          /\ (i - (d + 1)) + 1 = i - d /\ (j - (d + 1)) + 1 = j - d
      BY <1>1, <1>5
    <3>2. g[i - d] = g[j - d]
      BY <2>2
    <3>3. g[i - (d + 1)] = m.prev[g[i - d]] /\ g[j - (d + 1)] = m.prev[g[j - d]]
      BY <1>3, <3>1
    <3>. QED
      BY <3>1, <3>2, <3>3
  <2>. HIDE DEF S
  <2>3. i \in Nat /\ i \in 0..i
    BY <1>1
  <2>4. i \in S
    BY <2>1, <2>2, <2>3, UpTo
  <2>5. g[i - i] = g[j - i] /\ i - i = 0
    BY <2>3, <2>4 DEF S
  <2>. QED
    BY <1>3, <2>5
<1>6. \E n \in 1..N + 1: g[n] = h
  <2>. SUFFICES ASSUME \A n \in 1..N + 1: g[n] # h PROVE FALSE
    OBVIOUS
  <2>. DEFINE u == [n \in 1..N + 1 |-> g[n]]
  <2>1. \A n \in 1..N + 1: n \in 0..N + 1 /\ g[n] \in Entries
    BY <1>1, <1>4
  <2>2. u \in Seq(Entries) /\ Len(u) = N + 1 /\ \A n \in 1..N + 1: u[n] = g[n]
    BY <1>1, <2>1
  <2>. HIDE DEF u
  <2>3. ASSUME NEW i \in 1..N + 1, NEW j \in 1..N + 1, i < j, g[i] = g[j] PROVE FALSE
    <3>1. j - i \in 1..N + 1
      BY <1>1, <2>3
    <3>. QED
      BY <1>5, <2>1, <2>3, <3>1
  <2>4. Uniq(u)
    <3>. SUFFICES ASSUME NEW i \in 1..N + 1, NEW j \in 1..N + 1, g[i] = g[j] PROVE i = j
      BY <2>2 DEF Uniq
    <3>1. i < j \/ j < i \/ i = j
      BY <1>1
    <3>. QED
      BY <2>3, <3>1
  <2>5. Len(u) <= N
    BY <2>2, <2>4, CellsAssumption, UniqFits DEF N
  <2>. QED
    BY <1>1, <2>2, <2>5
<1>7. PICK n \in 1..N + 1: g[n] = h /\ \A k \in 1..N + 1: g[k] = h => n <= k
  <2>. DEFINE S == {k \in 1..N + 1: g[k] = h}
  <2>1. S \in SUBSET Nat /\ S # {}
    BY <1>6
  <2>2. PICK k \in S: \A l \in S: k <= l
    <3>. HIDE DEF S
    <3>. QED
      BY <2>1, LeastNumber
  <2>. QED
    BY <2>2
<1>. DEFINE s == [i \in 1..n - 1 |-> g[i]]
<1>8. n \in Nat /\ n - 1 \in Nat /\ n >= 1 /\ n <= N + 1
  BY <1>1
<1>9. \A i \in 1..n - 1: i \in 0..N + 1 /\ i \in 1..N + 1 /\ g[i] \in Entries /\ g[i] # h
  <2>. TAKE i \in 1..n - 1
  <2>1. i \in 0..N + 1 /\ i \in 1..N + 1 /\ ~ (n <= i)
    BY <1>1, <1>8
  <2>. QED
    BY <1>4, <1>7, <2>1
<1>10. s \in Seq(Entries) /\ Len(s) = n - 1 /\ \A i \in 1..n - 1: s[i] = g[i]
  BY <1>8, <1>9
<1>. HIDE DEF s
<1>11. Uniq(s)
  <2>1. ASSUME NEW i \in 1..n - 1, NEW j \in 1..n - 1, i < j, g[i] = g[j] PROVE FALSE
    <3>1. j - i \in 1..N + 1 /\ ~ (n <= j - i)
      BY <1>8, <1>9, <2>1
    <3>2. g[j - i] = h
      BY <1>5, <1>9, <2>1
    <3>. QED
      BY <1>7, <3>1, <3>2
  <2>. SUFFICES ASSUME NEW i \in 1..n - 1, NEW j \in 1..n - 1, g[i] = g[j] PROVE i = j
    BY <1>10 DEF Uniq
  <2>2. i < j \/ j < i \/ i = j
    BY <1>8
  <2>. QED
    BY <2>1, <2>2
<1>12. \A i \in 0..n - 1: Knot(h, s, i) = g[i]
  BY <1>3, <1>8, <1>10 DEF Knot
<1>13. \A i \in 0..Len(s) - 1: m.next[Knot(h, s, i)] = s[i + 1]
  <2>. TAKE i \in 0..Len(s) - 1
  <2>1. i \in 0..N /\ i \in 0..n - 1 /\ i + 1 \in 1..n - 1
    BY <1>1, <1>8, <1>10
  <2>. QED
    BY <1>3, <1>10, <1>12, <2>1
<1>14. m.next[Knot(h, s, Len(s))] = h
  <2>1. n - 1 \in 0..N /\ (n - 1) + 1 = n /\ n - 1 \in 0..n - 1
    BY <1>1, <1>8
  <2>. QED
    BY <1>3, <1>7, <1>10, <1>12, <2>1
<1>15. Ring(m.next, h, s)
  BY <1>10, <1>11, <1>13, <1>14, CellsAssumption DEF Ring, Strung
<1>16. \A i \in 1..Len(s): s[i] \in cs /\ o[s[i]] = h
  BY <1>3, <1>4, <1>9, <1>10
<1>. QED
  BY <1>15, <1>16

(* The sequences of all heads, as list_for_each comes by them.              *)
ContentsOf(m, cs) == [h \in Heads |-> IF h \in cs THEN ContentsIn(m, h) ELSE <<>>]

(* S are the sequences of a memory: they follow next, and are apart.        *)
Shows(m, cs, S) ==
    /\ S \in [Heads -> Seq(Entries)]
    /\ \A h \in Heads \ cs: S[h] = <<>>
    /\ \A h \in Heads \cap cs: Ring(m.next, h, S[h])
    /\ \A h \in Heads: Uniq(S[h]) /\ \A i \in 1..Len(S[h]): S[h][i] \in cs
    /\ \A a, b \in Heads: \A i \in 1..Len(S[a]), j \in 1..Len(S[b]): S[a][i] = S[b][j] => a = b

(* Those of a sound memory do so.                                          *)
LEMMA ContentsShow ==
  ASSUME NEW m, NEW cs, Sound(m, cs)
  PROVE  Shows(m, cs, ContentsOf(m, cs))
<1>1. PICK o \in Owners: Linked(m, cs, o) /\ \A h \in cs \cap Heads: o[h] = h
  BY DEF Sound
<1>. DEFINE S == ContentsOf(m, cs)
<1>2. \A h \in Heads \ cs: S[h] = <<>>
  BY DEF ContentsOf
<1>3. ASSUME NEW h \in cs \cap Heads
      PROVE  Ring(m.next, h, S[h]) /\ \A i \in 1..Len(S[h]): S[h][i] \in cs /\ o[S[h][i]] = h
  <2>1. PICK s: Ring(m.next, h, s) /\ \A i \in 1..Len(s): s[i] \in cs /\ o[s[i]] = h
    <3>1. cs \in SUBSET Cells
      BY DEF Sound
    <3>. QED
      BY <1>1, <3>1, RingExists
  <2>2. S[h] = s
    BY <2>1, ContentsIs DEF ContentsOf
  <2>. QED
    BY <2>1, <2>2
<1>4. \A h \in Heads: S[h] \in Seq(Entries) /\ Uniq(S[h])
  <2>. TAKE h \in Heads
  <2>1. CASE h \in cs
    BY <1>3, <2>1 DEF Ring, Strung
  <2>2. CASE h \notin cs
    <3>1. S[h] = <<>>
      BY <1>2, <2>2
    <3>2. <<>> \in Seq(Entries) /\ Uniq(<<>>)
      BY DEF Uniq
    <3>. QED
      BY <3>1, <3>2
  <2>. QED
    BY <2>1, <2>2
<1>5. \A h \in Heads: \A i \in 1..Len(S[h]): h \in cs
  <2>. SUFFICES ASSUME NEW h \in Heads, NEW i \in 1..Len(S[h]), h \notin cs PROVE FALSE
    OBVIOUS
  <2>1. S[h] = <<>>
    BY <1>2
  <2>. QED
    BY <2>1
<1>6. S \in [Heads -> Seq(Entries)]
  BY <1>4 DEF ContentsOf
<1>. HIDE DEF S
<1>. QED
  BY <1>2, <1>3, <1>4, <1>5, <1>6 DEF Shows, S

(* And no other sequences follow next.                                      *)
LEMMA ContentsAre ==
  ASSUME NEW m, NEW cs, NEW T, T = [h \in Heads |-> T[h]],
         \A h \in Heads \ cs: T[h] = <<>>,
         \A h \in Heads \cap cs: Ring(m.next, h, T[h])
  PROVE  ContentsOf(m, cs) = T
<1>1. \A h \in Heads: (IF h \in cs THEN ContentsIn(m, h) ELSE <<>>) = T[h]
  BY ContentsIs
<1>. QED
  BY <1>1 DEF ContentsOf

(* S with another sequence for h.                                           *)
With(S, h, s) == [S EXCEPT ![h] = s]

(* What ContentsOf asks of a set of cells is which heads are in it.          *)
SameHeads(cs, ds) == \A h \in Heads: h \in cs <=> h \in ds

(* Every cell of a list is in one place of one list; next is the one behind *)
(* it, and no cell but the one before it leads to it.                       *)
LEMMA KnotFacts ==
  ASSUME NEW m, NEW cs, Sound(m, cs), NEW S, S = ContentsOf(m, cs)
  PROVE  /\ \A h \in Heads: S[h] \in Seq(Entries) /\ Len(S[h]) \in Nat
         /\ \A h \in Heads: \A i, j \in 1..Len(S[h]): S[h][i] = S[h][j] => i = j
         /\ \A h \in Heads: \A i \in 1..Len(S[h]): h \in cs /\ S[h][i] \in Entries \cap cs
         /\ \A h \in Heads \cap cs: \A i \in 0..Len(S[h]): Knot(h, S[h], i) \in cs
         /\ \A h \in Heads \cap cs: \A i \in 0..Len(S[h]):
              m.next[Knot(h, S[h], i)] = IF i < Len(S[h]) THEN S[h][i + 1] ELSE h
         /\ \A a, b \in Heads \cap cs: \A i \in 0..Len(S[a]), j \in 0..Len(S[b]):
              Knot(a, S[a], i) = Knot(b, S[b], j) => a = b /\ i = j
         /\ \A h \in Heads \cap cs: \A i \in 1..Len(S[h]): m.prev[S[h][i]] = Knot(h, S[h], i - 1)
         /\ \A h \in Heads \cap cs: m.prev[h] = Knot(h, S[h], Len(S[h]))
<1>1. Shows(m, cs, S)
  BY ContentsShow
<1>2. \A h \in Heads: S[h] \in Seq(Entries) /\ Len(S[h]) \in Nat
  BY <1>1 DEF Shows
<1>3. \A h \in Heads: \A i \in 1..Len(S[h]): h \in cs /\ S[h][i] \in Entries \cap cs
  <2>. SUFFICES ASSUME NEW h \in Heads, NEW i \in 1..Len(S[h])
                PROVE  h \in cs /\ S[h][i] \in Entries \cap cs
    OBVIOUS
  <2>1. S[h][i] \in Entries /\ S[h][i] \in cs
    BY <1>1, <1>2 DEF Shows
  <2>2. ASSUME h \notin cs PROVE FALSE
    <3>1. S[h] = <<>>
      BY <1>1, <2>2 DEF Shows
    <3>. QED
      BY <3>1
  <2>. QED
    BY <2>1, <2>2
<1>4. \A h \in Heads: \A i, j \in 1..Len(S[h]): S[h][i] = S[h][j] => i = j
  BY <1>1 DEF Shows, Uniq
<1>5. ASSUME NEW h \in Heads \cap cs, NEW i \in 0..Len(S[h])
      PROVE  /\ Knot(h, S[h], i) \in cs
             /\ Knot(h, S[h], i) = IF i = 0 THEN h ELSE S[h][i]
             /\ i # 0 => i \in 1..Len(S[h])
  BY <1>2, <1>3 DEF Knot
<1>6. ASSUME NEW h \in Heads \cap cs, NEW i \in 0..Len(S[h])
      PROVE  m.next[Knot(h, S[h], i)] = IF i < Len(S[h]) THEN S[h][i + 1] ELSE h
  <2>1. Ring(m.next, h, S[h])
    BY <1>1 DEF Shows
  <2>2. CASE i < Len(S[h])
    BY <1>2, <2>1, <2>2 DEF Ring, Strung
  <2>3. CASE i = Len(S[h])
    BY <1>2, <2>1, <2>3 DEF Ring
  <2>. QED
    BY <1>2, <2>2, <2>3
<1>7. ASSUME NEW a \in Heads \cap cs, NEW b \in Heads \cap cs,
             NEW i \in 0..Len(S[a]), NEW j \in 0..Len(S[b]), Knot(a, S[a], i) = Knot(b, S[b], j)
      PROVE  a = b /\ i = j
  <2>1. CASE i = 0 \/ j = 0
    BY <1>3, <1>5, <1>7, <2>1, CellsAssumption
  <2>2. CASE i # 0 /\ j # 0
    <3>1. i \in 1..Len(S[a]) /\ j \in 1..Len(S[b]) /\ S[a][i] = S[b][j]
      BY <1>5, <1>7, <2>2
    <3>2. a = b
      BY <1>1, <3>1 DEF Shows
    <3>. QED
      BY <1>4, <3>1, <3>2
  <2>. QED
    BY <2>1, <2>2
<1>8. \A c \in cs: m.prev[m.next[c]] = c
  BY DEF Sound, Linked
<1>9. ASSUME NEW h \in Heads \cap cs, NEW i \in 1..Len(S[h])
      PROVE  m.prev[S[h][i]] = Knot(h, S[h], i - 1)
  <2>1. i - 1 \in 0..Len(S[h]) /\ i - 1 < Len(S[h]) /\ (i - 1) + 1 = i
    BY <1>2
  <2>2. m.next[Knot(h, S[h], i - 1)] = S[h][i] /\ Knot(h, S[h], i - 1) \in cs
    BY <1>5, <1>6, <2>1
  <2>. QED
    BY <1>8, <2>2
<1>10. ASSUME NEW h \in Heads \cap cs
       PROVE  m.prev[h] = Knot(h, S[h], Len(S[h]))
  <2>1. Len(S[h]) \in 0..Len(S[h]) /\ ~ (Len(S[h]) < Len(S[h]))
    BY <1>2
  <2>. QED
    BY <1>5, <1>6, <1>8, <2>1
<1>. QED
  BY <1>2, <1>3, <1>4, <1>5, <1>6, <1>7, <1>9, <1>10

IsIdle(m, cs, e) == e \notin cs \/ m.next[e] = e

(* A cell that can be put on a list is on none.                             *)
LEMMA IdleIsOff ==
  ASSUME NEW m, NEW cs, Sound(m, cs), NEW S, S = ContentsOf(m, cs),
         NEW e \in Cells, IsIdle(m, cs, e)
  PROVE  /\ \A h \in Heads: \A i \in 1..Len(S[h]): S[h][i] # e
         /\ e \in Heads => S[e] = <<>>
<1>1. ASSUME NEW h \in Heads, NEW i \in 1..Len(S[h]), S[h][i] = e
      PROVE  FALSE
  <2>0. e \notin cs \/ m.next[e] = e
    BY DEF IsIdle
  <2>1. e \in cs /\ h \in cs /\ e \in Entries /\ e # h
    BY <1>1, KnotFacts, CellsAssumption
  <2>2. i \in 0..Len(S[h]) /\ Knot(h, S[h], i) = e /\ i # 0
    BY <1>1, KnotFacts DEF Knot
  <2>3. e = IF i < Len(S[h]) THEN S[h][i + 1] ELSE h
    BY <2>0, <2>1, <2>2, KnotFacts
  <2>4. i < Len(S[h]) => i + 1 \in 1..Len(S[h]) /\ i + 1 # i
    BY KnotFacts
  <2>. QED
    BY <1>1, <2>1, <2>3, <2>4, KnotFacts
<1>2. ASSUME e \in Heads PROVE S[e] = <<>>
  <2>1. CASE e \in cs
    <3>0. Len(S[e]) \in Nat /\ S[e] \in Seq(Entries)
      BY <1>2, KnotFacts
    <3>1. 0 \in 0..Len(S[e]) /\ Knot(e, S[e], 0) = e
      BY <3>0 DEF Knot
    <3>2. e = IF 0 < Len(S[e]) THEN S[e][0 + 1] ELSE e
      BY <1>2, <2>1, <3>1, KnotFacts DEF IsIdle
    <3>3. ~ (0 < Len(S[e]))
      <4>. SUFFICES ASSUME 0 < Len(S[e]) PROVE FALSE
        OBVIOUS
      <4>1. 0 + 1 \in 1..Len(S[e])
        BY <3>0
      <4>2. S[e][0 + 1] \in Entries
        BY <1>2, <4>1, KnotFacts
      <4>. QED
        BY <1>2, <2>1, <3>2, <4>2, CellsAssumption
    <3>. QED
      BY <3>0, <3>3
  <2>2. CASE e \notin cs
    BY <1>2, <2>2 DEF ContentsOf
  <2>. QED
    BY <2>1, <2>2
<1>. QED
  BY <1>1, <1>2

(* Pointers that are the same on a ring lead along it as before.            *)
LEMMA RingSame ==
  ASSUME NEW f, NEW g, NEW h, NEW s, Ring(f, h, s),
         \A i \in 0..Len(s): g[Knot(h, s, i)] = f[Knot(h, s, i)]
  PROVE  Ring(g, h, s)
<1>1. Len(s) \in 0..Len(s)
  <2>1. Len(s) \in Nat
    BY DEF Ring, Strung
  <2>. QED
    BY <2>1
<1>. QED
  BY <1>1, StrungSame DEF Ring

(* Stores to cells outside of cs change no list; a head that is linked to   *)
(* itself has none.                                                         *)
LEMMA Elsewhere ==
  ASSUME NEW m, NEW cs, Sound(m, cs), NEW m2, NEW ds, Heads \cap cs \subseteq ds,
         \A d \in cs: m2.next[d] = m.next[d],
         \A h \in (Heads \cap ds) \ cs: m2.next[h] = h
  PROVE  ContentsOf(m2, ds) = ContentsOf(m, cs)
<1>. DEFINE S == ContentsOf(m, cs)
<1>1. Shows(m, cs, S)
  BY ContentsShow
<1>2. S = [h \in Heads |-> S[h]]
  BY DEF ContentsOf
<1>3. \A h \in Heads \cap cs: \A i \in 0..Len(S[h]): Knot(h, S[h], i) \in cs
  BY KnotFacts
<1>4. \A h \in Heads \ ds: S[h] = <<>>
  BY DEF ContentsOf
<1>5. ASSUME NEW h \in Heads \cap ds PROVE Ring(m2.next, h, S[h])
  <2>1. CASE h \in cs
    <3>1. Ring(m.next, h, S[h])
      BY <1>1, <2>1 DEF Shows
    <3>2. \A i \in 0..Len(S[h]): m2.next[Knot(h, S[h], i)] = m.next[Knot(h, S[h], i)]
      BY <1>3, <2>1
    <3>. HIDE DEF S
    <3>. QED
      BY <3>1, <3>2, RingSame
  <2>2. CASE h \notin cs
    <3>1. S[h] = <<>> /\ m2.next[h] = h
      BY <2>2 DEF ContentsOf
    <3>2. Ring(m2.next, h, <<>>)
      BY <3>1, CellsAssumption DEF Ring, Strung, Uniq, Knot
    <3>. QED
      BY <3>1, <3>2
  <2>. QED
    BY <2>1, <2>2
<1>. HIDE DEF S
<1>. QED
  BY <1>2, <1>4, <1>5, ContentsAre DEF S

(* The sequences without e, as ListRules has them.                          *)
Less(S, e) ==
    [h \in Heads |-> IF e \in Range(S[h]) THEN RemoveAt(S[h], CHOOSE k \in DOMAIN S[h]: S[h][k] = e)
                                           ELSE S[h]]

(* That is: e leaves the list it is on, if any.                            *)
LEMMA LessIs ==
  ASSUME NEW m, NEW cs, Sound(m, cs), NEW S, S = ContentsOf(m, cs), NEW e
  PROVE  /\ \A h \in Heads: \A k \in 1..Len(S[h]): S[h][k] = e =>
              Less(S, e) = With(S, h, RemoveAt(S[h], k))
         /\ (\A h \in Heads: \A k \in 1..Len(S[h]): S[h][k] # e) => Less(S, e) = S
<1>1. Shows(m, cs, S)
  BY ContentsShow
<1>2. S = [h \in Heads |-> S[h]]
  BY DEF ContentsOf
<1>3. \A h \in Heads: DOMAIN S[h] = 1..Len(S[h])
  BY <1>1 DEF Shows
<1>4. \A h \in Heads: e \in Range(S[h]) <=> \E k \in 1..Len(S[h]): S[h][k] = e
  BY <1>3 DEF Range
<1>5. ASSUME NEW h \in Heads, NEW k \in 1..Len(S[h]), S[h][k] = e
      PROVE  Less(S, e) = With(S, h, RemoveAt(S[h], k))
  <2>1. \A a \in Heads: e \in Range(S[a]) => a = h
    BY <1>1, <1>4, <1>5 DEF Shows
  <2>2. (CHOOSE l \in DOMAIN S[h]: S[h][l] = e) = k
    <3>1. \A l \in DOMAIN S[h]: S[h][l] = e <=> l = k
      BY <1>1, <1>3, <1>5 DEF Shows, Uniq
    <3>. QED
      BY <1>3, <3>1
  <2>3. e \in Range(S[h])
    BY <1>4, <1>5
  <2>. QED
    BY <1>2, <2>1, <2>2, <2>3 DEF Less, With
<1>6. (\A h \in Heads: \A k \in 1..Len(S[h]): S[h][k] # e) => Less(S, e) = S
  BY <1>2, <1>4 DEF Less
<1>. QED
  BY <1>5, <1>6

(* __list_add makes the cell the one behind prev.                           *)
LEMMA LinkContents ==
  ASSUME NEW m, NEW cs, Sound(m, cs), NEW S, S = ContentsOf(m, cs),
         NEW h \in Heads \cap cs, NEW k \in 0..Len(S[h]),
         NEW new \in Entries, IsIdle(m, cs, new), NEW ds, SameHeads(cs, ds)
  PROVE  \A prev, succ: prev = Knot(h, S[h], k) /\ succ = m.next[prev] =>
           ContentsOf(list_link(m, new, prev, succ), ds) =
             With(S, h, InsertAt(S[h], k + 1, new))
<1>. TAKE prev, succ
<1>. HAVE prev = Knot(h, S[h], k) /\ succ = m.next[prev]
<1>. DEFINE m2 == list_link(m, new, prev, succ)
            T == With(S, h, InsertAt(S[h], k + 1, new))
<1>1. new \in Cells /\ \A a \in Heads: \A i \in 1..Len(S[a]): S[a][i] # new
  BY IdleIsOff DEF Cells
<1>2. S = [a \in Heads |-> S[a]] /\ Shows(m, cs, S)
  BY ContentsShow DEF ContentsOf
<1>3. \A a \in Heads \cap cs: \A i \in 0..Len(S[a]): Knot(a, S[a], i) \in cs
  BY KnotFacts
<1>4. \A a \in Heads \cap cs: \A i \in 0..Len(S[a]): Knot(a, S[a], i) # new
  BY <1>1, CellsAssumption DEF Knot
<1>5. S[h] \in Seq(Entries) /\ Len(S[h]) \in Nat
  BY KnotFacts
<1>6. succ = IF k < Len(S[h]) THEN S[h][k + 1] ELSE h
  BY KnotFacts
<1>7. prev \in cs /\ prev # new /\ succ \in cs /\ succ # new
  <2>1. k < Len(S[h]) => k + 1 \in 1..Len(S[h])
    BY <1>5
  <2>2. k < Len(S[h]) => S[h][k + 1] \in cs /\ S[h][k + 1] # new
    BY <1>1, <2>1, KnotFacts
  <2>. QED
    BY <1>3, <1>4, <1>6, <2>2, CellsAssumption
<1>8. \A d \in Cells: m2.next[d] = IF d = prev THEN new ELSE IF d = new THEN succ ELSE m.next[d]
  <2>1. /\ m \in Memories /\ new \in Cells /\ prev \in Cells /\ succ \in Cells
        /\ prev # new /\ succ # new
    BY <1>1, <1>7 DEF Sound
  <2>. QED
    BY ONLY <2>1, LinkStores
<1>. HIDE DEF m2
<1>9. cs \in SUBSET Cells
  BY DEF Sound
<1>10. Ring(m2.next, h, InsertAt(S[h], k + 1, new))
  <2>1. LinksIn(m.next, m2.next, h, S[h], k, new, Entries)
    <3>1. Strung(m.next, h, S[h], Entries) /\ h \notin Entries
      BY <1>2, CellsAssumption DEF Shows, Ring
    <3>2. m2.next[Knot(h, S[h], k)] = new /\ m2.next[new] = m.next[prev]
      BY <1>1, <1>7, <1>8, <1>9
    <3>3. k = Len(S[h]) => m2.next[new] \notin Entries
      <4>1. k = Len(S[h]) => ~ (k < Len(S[h]))
        BY <1>5
      <4>. QED
        BY <1>6, <3>2, <4>1, CellsAssumption
    <3>4. \A c \in Entries \cup {h}: c # new /\ c # prev => m2.next[c] = m.next[c]
      BY <1>8 DEF Cells
    <3>. QED
      BY <1>1, <3>1, <3>2, <3>3, <3>4 DEF LinksIn
  <2>2. m.next[Knot(h, S[h], Len(S[h]))] = h
    BY <1>2 DEF Shows, Ring
  <2>3. k = Len(S[h]) => m2.next[new] = h
    BY <1>1, <1>5, <1>6, <1>7, <1>8, <1>9
  <2>4. /\ Strung(m2.next, h, InsertAt(S[h], k + 1, new), Entries)
        /\ Len(InsertAt(S[h], k + 1, new)) = Len(S[h]) + 1
        /\ m2.next[Knot(h, InsertAt(S[h], k + 1, new), Len(S[h]) + 1)] =
             IF k = Len(S[h]) THEN m2.next[new] ELSE m.next[Knot(h, S[h], Len(S[h]))]
    BY <2>1, StrungInsert
  <2>. QED
    BY <2>2, <2>3, <2>4 DEF Ring
<1>11. ASSUME NEW a \in Heads \cap cs, a # h PROVE Ring(m2.next, a, S[a])
  <2>1. \A i \in 0..Len(S[a]): Knot(a, S[a], i) # prev
    BY <1>11, KnotFacts
  <2>2. \A i \in 0..Len(S[a]): m2.next[Knot(a, S[a], i)] = m.next[Knot(a, S[a], i)]
    BY <1>3, <1>4, <1>8, <1>9, <2>1
  <2>3. Ring(m.next, a, S[a])
    BY <1>2 DEF Shows
  <2>. QED
    BY <2>2, <2>3, RingSame
<1>12. T = [a \in Heads |-> T[a]] /\ T[h] = InsertAt(S[h], k + 1, new)
       /\ \A a \in Heads: a # h => T[a] = S[a]
  BY <1>2 DEF With
<1>. HIDE DEF T
<1>13. \A a \in Heads \cap ds: Ring(m2.next, a, T[a])
  BY <1>10, <1>11, <1>12 DEF SameHeads
<1>14. \A a \in Heads \ ds: T[a] = <<>>
  BY <1>2, <1>12 DEF Shows, SameHeads
<1>. QED
  BY <1>12, <1>13, <1>14, ContentsAre DEF T, m2

(* list_add makes it the first, and list_add_tail the last one.             *)
LEMMA AddContents ==
  ASSUME NEW m, NEW cs, Sound(m, cs), NEW S, S = ContentsOf(m, cs),
         NEW h \in Heads \cap cs, NEW new \in Entries, IsIdle(m, cs, new), NEW ds, SameHeads(cs, ds)
  PROVE  /\ ContentsOf(list_add(m, new, h), ds) =
              With(S, h, InsertAt(S[h], 1, new))
         /\ ContentsOf(list_add_tail(m, new, h), ds) =
              With(S, h, InsertAt(S[h], Len(S[h]) + 1, new))
<1>1. Len(S[h]) \in Nat /\ 0 \in 0..Len(S[h]) /\ Len(S[h]) \in 0..Len(S[h]) /\ 0 + 1 = 1
  BY KnotFacts
<1>2. h = Knot(h, S[h], 0)
  BY DEF Knot
<1>3. m.prev[h] = Knot(h, S[h], Len(S[h])) /\ m.next[m.prev[h]] = h
  <2>1. m.prev[h] = Knot(h, S[h], Len(S[h]))
    BY KnotFacts
  <2>. QED
    BY <2>1 DEF Sound, Linked
<1>4. ContentsOf(list_link(m, new, h, m.next[h]), ds) =
        With(S, h, InsertAt(S[h], 0 + 1, new))
  <2>1. PICK k \in 0..Len(S[h]): k = 0
    BY <1>1
  <2>2. \A prev, succ: prev = Knot(h, S[h], k) /\ succ = m.next[prev] =>
          ContentsOf(list_link(m, new, prev, succ), ds) =
            With(S, h, InsertAt(S[h], k + 1, new))
    BY LinkContents
  <2>. QED
    BY <1>2, <2>1, <2>2
<1>5. ContentsOf(list_link(m, new, m.prev[h], h), ds) =
        With(S, h, InsertAt(S[h], Len(S[h]) + 1, new))
  <2>1. PICK k \in 0..Len(S[h]): k = Len(S[h])
    BY <1>1
  <2>2. \A prev, succ: prev = Knot(h, S[h], k) /\ succ = m.next[prev] =>
          ContentsOf(list_link(m, new, prev, succ), ds) =
            With(S, h, InsertAt(S[h], k + 1, new))
    BY LinkContents
  <2>. QED
    BY <1>3, <2>1, <2>2
<1>. QED
  BY <1>1, <1>4, <1>5 DEF list_add, list_add_tail

(* __list_del_entry takes the cell out of its list, if it is on one.        *)
LEMMA DelContents ==
  ASSUME NEW m, NEW cs, Sound(m, cs), NEW S, S = ContentsOf(m, cs), NEW e \in Entries \cap cs,
         NEW ds, SameHeads(cs, ds)
  PROVE  ContentsOf(list_del_entry(m, e), ds) = Less(S, e)
<1>. DEFINE m2 == list_del_entry(m, e)
<1>1. m \in Memories /\ cs \in SUBSET Cells /\ m.next[e] \in cs /\ m.prev[e] \in cs
  BY DEF Sound, Linked
<1>2. PICK m1 \in Memories: m1 = SetPrev(m, m.next[e], m.prev[e])
                            /\ PrevStored(m, m.next[e], m.prev[e], m1)
  BY <1>1, SetPrevStores
<1>3. PICK m3 \in Memories: m3 = SetNext(m1, m.prev[e], m.next[e])
                            /\ NextStored(m1, m.prev[e], m.next[e], m3)
  BY <1>1, SetNextStores
<1>4. m3 = m2
  BY <1>2, <1>3 DEF list_del_entry, list_unlink
<1>5. \A d \in Cells: m2.next[d] = IF d = m.prev[e] THEN m.next[e] ELSE m.next[d]
  BY <1>2, <1>3, <1>4 DEF NextStored, PrevStored
<1>. HIDE DEF m2
<1>7. S = [a \in Heads |-> S[a]] /\ Shows(m, cs, S)
  BY ContentsShow DEF ContentsOf
<1>8. /\ \A h \in Heads: S[h] \in Seq(Entries) /\ Len(S[h]) \in Nat
      /\ \A h \in Heads \cap cs: \A i \in 0..Len(S[h]): Knot(h, S[h], i) \in cs
      /\ Heads \cap ds = Heads \cap cs /\ \A h \in Heads \ ds: S[h] = <<>>
  BY <1>7, KnotFacts DEF Shows, SameHeads
<1>9. ASSUME NEW h \in Heads \cap cs, \A i \in 0..Len(S[h]): Knot(h, S[h], i) # m.prev[e]
      PROVE  Ring(m2.next, h, S[h])
  <2>1. \A i \in 0..Len(S[h]): m2.next[Knot(h, S[h], i)] = m.next[Knot(h, S[h], i)]
    BY <1>1, <1>5, <1>8, <1>9
  <2>2. Ring(m.next, h, S[h])
    BY <1>7 DEF Shows
  <2>. QED
    BY <2>1, <2>2, RingSame
<1>10. CASE \E h \in Heads: \E k \in 1..Len(S[h]): S[h][k] = e
  <2>0. PICK h \in Heads: \E k \in 1..Len(S[h]): S[h][k] = e
    BY <1>10
  <2>1. PICK k \in 1..Len(S[h]): S[h][k] = e
    BY <2>0
  <2>2. h \in cs /\ m.prev[e] = Knot(h, S[h], k - 1) /\ k - 1 \in 0..Len(S[h])
    BY <1>8, <2>1, KnotFacts
  <2>. DEFINE T == With(S, h, RemoveAt(S[h], k))
  <2>3. T = [a \in Heads |-> T[a]] /\ T[h] = RemoveAt(S[h], k)
        /\ \A a \in Heads: a # h => T[a] = S[a]
    BY <1>7 DEF With
  <2>4. Less(S, e) = T
    BY <2>1, LessIs
  <2>5. Ring(m2.next, h, RemoveAt(S[h], k))
    <3>1. LinksOut(m.next, m2.next, h, S[h], k, Entries)
      <4>1. Strung(m.next, h, S[h], Entries) /\ h \notin Entries
        BY <1>7, <2>2, CellsAssumption DEF Shows, Ring
      <4>2. m2.next[Knot(h, S[h], k - 1)] = m.next[S[h][k]]
        BY <1>1, <1>5, <2>1, <2>2
      <4>3. \A c \in Entries \cup {h}: c # Knot(h, S[h], k - 1) => m2.next[c] = m.next[c]
        BY <1>5, <2>2 DEF Cells
      <4>. QED
        BY <4>1, <4>2, <4>3 DEF LinksOut
    <3>2. m.next[Knot(h, S[h], Len(S[h]))] = h
      BY <1>7, <2>2 DEF Shows, Ring
    <3>3. /\ Strung(m2.next, h, RemoveAt(S[h], k), Entries)
          /\ Len(RemoveAt(S[h], k)) = Len(S[h]) - 1
          /\ m2.next[Knot(h, RemoveAt(S[h], k), Len(S[h]) - 1)] = m.next[Knot(h, S[h], Len(S[h]))]
      BY <3>1, StrungRemove
    <3>. QED
      BY <3>2, <3>3 DEF Ring
  <2>6. ASSUME NEW a \in Heads \cap cs, a # h PROVE Ring(m2.next, a, S[a])
    <3>1. \A i \in 0..Len(S[a]): Knot(a, S[a], i) # m.prev[e]
      BY <2>2, <2>6, KnotFacts
    <3>. QED
      BY <1>9, <3>1
  <2>. HIDE DEF T
  <2>7. \A a \in Heads \cap ds: Ring(m2.next, a, T[a])
    BY <2>3, <2>5, <2>6 DEF SameHeads
  <2>8. \A a \in Heads \ ds: T[a] = <<>>
    BY <1>8, <2>2, <2>3
  <2>9. ContentsOf(m2, ds) = T
    BY <2>3, <2>7, <2>8, ContentsAre
  <2>. QED
    BY <2>4, <2>9 DEF m2
<1>11. CASE \A h \in Heads: \A k \in 1..Len(S[h]): S[h][k] # e
  <2>1. Less(S, e) = S
    BY <1>11, LessIs
  <2>2. ASSUME NEW h \in Heads \cap cs, NEW i \in 0..Len(S[h]), Knot(h, S[h], i) = m.prev[e]
        PROVE  FALSE
    <3>1. m.next[Knot(h, S[h], i)] = e
      BY <2>2 DEF Sound, Linked
    <3>2. e = IF i < Len(S[h]) THEN S[h][i + 1] ELSE h
      BY <3>1, KnotFacts
    <3>3. i < Len(S[h]) => i + 1 \in 1..Len(S[h])
      BY <1>8
    <3>. QED
      BY <1>11, <3>2, <3>3, CellsAssumption
  <2>3. \A h \in Heads \cap ds: Ring(m2.next, h, S[h])
    BY <1>9, <2>2 DEF SameHeads
  <2>4. ContentsOf(m2, ds) = S
    BY <1>7, <1>8, <2>3, ContentsAre
  <2>. QED
    BY <2>1, <2>4 DEF m2
<1>. QED
  BY <1>10, <1>11

(* s with new in the place of old, as ListRules has it.                     *)
Exchanged(s, old, new) == [k \in DOMAIN s |-> IF s[k] = old THEN new ELSE s[k]]

(* A cell takes the place of the k-th entry of a ring.                      *)
LinksOver(f, g, h, s, k, new) ==
    /\ h \in Heads /\ Ring(f, h, s) /\ k \in 1..Len(s)
    /\ new \in Entries /\ \A i \in 1..Len(s): s[i] # new
    /\ g[Knot(h, s, k - 1)] = new /\ g[new] = f[s[k]]
    /\ \A c \in Entries \cup {h}: c # new /\ c # Knot(h, s, k - 1) => g[c] = f[c]

(* Then the ring has new in its place.                                     *)
LEMMA RingSwap ==
  ASSUME NEW f, NEW g, NEW h, NEW s, NEW k, NEW new, LinksOver(f, g, h, s, k, new)
  PROVE  Ring(g, h, Exchanged(s, s[k], new))
<1>. DEFINE t == Exchanged(s, s[k], new)
<1>0. /\ h \in Heads /\ Ring(f, h, s) /\ k \in 1..Len(s)
      /\ new \in Entries /\ \A i \in 1..Len(s): s[i] # new
      /\ g[Knot(h, s, k - 1)] = new /\ g[new] = f[s[k]]
      /\ \A c \in Entries \cup {h}: c # new /\ c # Knot(h, s, k - 1) => g[c] = f[c]
  BY DEF LinksOver
<1>. USE <1>0
<1>1. /\ s \in Seq(Entries) /\ Len(s) \in Nat /\ Uniq(s) /\ DOMAIN s = 1..Len(s)
      /\ \A i \in 1..Len(s): s[i] \in Entries
  BY DEF Ring, Strung
<1>2. /\ t \in Seq(Entries) /\ Len(t) = Len(s)
      /\ \A i \in 1..Len(s): t[i] = IF i = k THEN new ELSE s[i]
  BY <1>1 DEF Exchanged, Uniq
<1>. HIDE DEF t
<1>3. Uniq(t)
  BY <1>1, <1>2 DEF Uniq
<1>4. /\ \A i \in 0..Len(s): Knot(h, t, i) = IF i = k THEN new ELSE Knot(h, s, i)
      /\ Knot(h, s, k) = s[k]
  BY <1>1, <1>2 DEF Knot
<1>5. \A i \in 0..Len(s): /\ Knot(h, s, i) \in Entries \cup {h} /\ Knot(h, s, i) # new
                          /\ i # k - 1 => Knot(h, s, i) # Knot(h, s, k - 1)
  BY <1>1, CellsAssumption DEF Knot, Uniq
<1>6. /\ \A i \in 0..Len(s) - 1: f[Knot(h, s, i)] = s[i + 1]
      /\ f[Knot(h, s, Len(s))] = h
  BY DEF Ring, Strung
<1>7. ASSUME NEW i \in 0..Len(s)
      PROVE  g[Knot(h, t, i)] = IF i = k - 1 THEN new ELSE f[Knot(h, s, i)]
  <2>1. CASE i = k
    BY <1>1, <1>4, <2>1
  <2>2. CASE i = k - 1
    BY <1>1, <1>4, <2>2
  <2>3. CASE i # k /\ i # k - 1
    <3>1. Knot(h, t, i) = Knot(h, s, i)
      BY <1>4, <2>3
    <3>. QED
      BY <1>5, <2>3, <3>1
  <2>. QED
    BY <2>1, <2>2, <2>3
<1>8. \A i \in 0..Len(t) - 1: g[Knot(h, t, i)] = t[i + 1]
  <2>. TAKE i \in 0..Len(t) - 1
  <2>1. i \in 0..Len(s) /\ i \in 0..Len(s) - 1 /\ i + 1 \in 1..Len(s) /\ (i + 1 = k <=> i = k - 1)
    BY <1>1, <1>2
  <2>. QED
    BY <1>2, <1>6, <1>7, <2>1
<1>9. g[Knot(h, t, Len(t))] = h
  <2>1. Len(s) \in 0..Len(s) /\ Len(s) # k - 1
    BY <1>1
  <2>. QED
    BY <1>2, <1>6, <1>7, <2>1
<1>. QED
  BY <1>2, <1>3, <1>8, <1>9, CellsAssumption DEF Ring, Strung, t

(* Two sequences in a row, if the last cell of the first leads to the next. *)
LinksBoth(g, h, c, d) ==
    /\ h \in Heads /\ c \in Seq(Entries) /\ d \in Seq(Entries) /\ Uniq(c) /\ Uniq(d)
    /\ \A i \in 1..Len(c), j \in 1..Len(d): c[i] # d[j]
    /\ \A i \in 0..Len(c) - 1: g[Knot(h, c, i)] = c[i + 1]
    /\ g[Knot(h, c, Len(c))] = IF Len(d) = 0 THEN h ELSE d[1]
    /\ \A j \in 1..Len(d): g[d[j]] = IF j < Len(d) THEN d[j + 1] ELSE h

(* Then the ring goes along c and d.                                       *)
LEMMA RingJoin ==
  ASSUME NEW g, NEW h, NEW c, NEW d, LinksBoth(g, h, c, d)
  PROVE  Ring(g, h, c \o d)
<1>. DEFINE t == c \o d
<1>0. /\ h \in Heads /\ c \in Seq(Entries) /\ d \in Seq(Entries) /\ Uniq(c) /\ Uniq(d)
      /\ \A i \in 1..Len(c), j \in 1..Len(d): c[i] # d[j]
      /\ \A i \in 0..Len(c) - 1: g[Knot(h, c, i)] = c[i + 1]
      /\ g[Knot(h, c, Len(c))] = IF Len(d) = 0 THEN h ELSE d[1]
      /\ \A j \in 1..Len(d): g[d[j]] = IF j < Len(d) THEN d[j + 1] ELSE h
  BY DEF LinksBoth
<1>. USE <1>0
<1>1. Len(c) \in Nat /\ Len(d) \in Nat
  OBVIOUS
<1>2. /\ t \in Seq(Entries) /\ Len(t) = Len(c) + Len(d)
      /\ \A i \in 1..Len(c) + Len(d): t[i] = IF i <= Len(c) THEN c[i] ELSE d[i - Len(c)]
  BY ConcatIs
<1>. HIDE DEF t
<1>3. Uniq(t)
  <2>. SUFFICES ASSUME NEW i \in 1..Len(c) + Len(d), NEW j \in 1..Len(c) + Len(d), t[i] = t[j]
                PROVE  i = j
    BY <1>2 DEF Uniq
  <2>1. \A l \in 1..Len(c) + Len(d): IF l <= Len(c) THEN l \in 1..Len(c)
                                                    ELSE l - Len(c) \in 1..Len(d)
    BY <1>1
  <2>2. CASE i <= Len(c) /\ j <= Len(c)
    BY <1>2, <2>1, <2>2 DEF Uniq
  <2>3. CASE ~ (i <= Len(c)) /\ ~ (j <= Len(c))
    <3>1. i - Len(c) \in 1..Len(d) /\ j - Len(c) \in 1..Len(d) /\ d[i - Len(c)] = d[j - Len(c)]
      BY <1>2, <2>1, <2>3
    <3>2. i - Len(c) = j - Len(c)
      BY <3>1 DEF Uniq
    <3>. QED
      BY <1>1, <3>2
  <2>4. CASE i <= Len(c) /\ ~ (j <= Len(c))
    BY <1>2, <2>1, <2>4
  <2>5. CASE ~ (i <= Len(c)) /\ j <= Len(c)
    BY <1>2, <2>1, <2>5
  <2>. QED
    BY <2>2, <2>3, <2>4, <2>5
<1>4. \A i \in 0..Len(c) + Len(d):
        Knot(h, t, i) = IF i <= Len(c) THEN Knot(h, c, i) ELSE d[i - Len(c)]
  BY <1>1, <1>2 DEF Knot
<1>5. ASSUME NEW i \in 0..Len(c) + Len(d)
      PROVE  g[Knot(h, t, i)] = IF i < Len(c) + Len(d) THEN t[i + 1] ELSE h
  <2>1. CASE i < Len(c)
    <3>1. /\ i \in 0..Len(c) - 1 /\ Knot(h, t, i) = Knot(h, c, i) /\ i + 1 \in 1..Len(c) + Len(d)
          /\ i + 1 <= Len(c) /\ i < Len(c) + Len(d)
      BY <1>1, <1>4, <2>1
    <3>. QED
      BY <1>2, <3>1
  <2>2. CASE i = Len(c) /\ Len(d) = 0
    BY <1>1, <1>4, <2>2
  <2>3. CASE i = Len(c) /\ Len(d) # 0
    <3>1. /\ Knot(h, t, i) = Knot(h, c, Len(c)) /\ i + 1 \in 1..Len(c) + Len(d)
          /\ ~ (i + 1 <= Len(c)) /\ i < Len(c) + Len(d) /\ (i + 1) - Len(c) = 1
      BY <1>1, <1>4, <2>3
    <3>. QED
      BY <1>2, <2>3, <3>1
  <2>4. CASE i > Len(c)
    <3>1. /\ Knot(h, t, i) = d[i - Len(c)] /\ i - Len(c) \in 1..Len(d)
          /\ i - Len(c) < Len(d) <=> i < Len(c) + Len(d)
      BY <1>1, <1>4, <2>4
    <3>2. i < Len(c) + Len(d) => t[i + 1] = d[(i - Len(c)) + 1]
      <4>1. i < Len(c) + Len(d) => /\ i + 1 \in 1..Len(c) + Len(d) /\ ~ (i + 1 <= Len(c))
                                   /\ (i + 1) - Len(c) = (i - Len(c)) + 1
        BY <1>1, <2>4
      <4>. QED
        BY <1>2, <4>1
    <3>. QED
      BY <3>1, <3>2
  <2>. QED
    BY <1>1, <2>1, <2>2, <2>3, <2>4
<1>6. \A i \in 0..Len(t) - 1: g[Knot(h, t, i)] = t[i + 1]
  BY <1>1, <1>2, <1>5
<1>7. g[Knot(h, t, Len(t))] = h
  BY <1>1, <1>2, <1>5
<1>. QED
  BY <1>2, <1>3, <1>6, <1>7, CellsAssumption DEF Ring, Strung, t

(* What the stores of list_replace do to the next pointers of a list.       *)
LEMMA ReplaceStores ==
  ASSUME NEW m \in Memories, NEW cs \in SUBSET Cells, NEW o, Linked(m, cs, o),
         NEW old \in cs, NEW new \in Cells, new # old, IsIdle(m, cs, new)
  PROVE  LET m2 == list_replace(m, old, new)
         IN  /\ m.next[old] = old => \A d \in Cells \ {new}: m2.next[d] = m.next[d]
             /\ m.next[old] # old =>
                  \A d \in Cells: m2.next[d] = IF d = m.prev[old] THEN new
                                               ELSE IF d = new THEN m.next[old] ELSE m.next[d]
<1>0. m.next[old] \in cs /\ m.prev[old] \in cs /\ m.next[m.prev[old]] = old
  BY DEF Linked
<1>1. PICK m1 \in Memories: /\ m1 = SetNext(m, new, m.next[old])
                            /\ NextStored(m, new, m.next[old], m1)
  BY <1>0, SetNextStores
<1>a. m1.next[new] = m.next[old]
  BY <1>1 DEF NextStored
<1>2. PICK m2 \in Memories: /\ m2 = SetPrev(m1, m1.next[new], new)
                            /\ PrevStored(m1, m.next[old], new, m2)
  BY <1>0, <1>a, SetPrevStores
<1>b. m2.prev[old] = IF m.next[old] = old THEN new ELSE m.prev[old]
  BY <1>0, <1>1, <1>2 DEF NextStored, PrevStored
<1>3. PICK m3 \in Memories: /\ m3 = SetPrev(m2, new, m2.prev[old])
                            /\ PrevStored(m2, new, m2.prev[old], m3)
  BY <1>0, <1>b, SetPrevStores
<1>c. m3.prev[new] = m2.prev[old]
  BY <1>3 DEF PrevStored
<1>4. PICK m4 \in Memories: /\ m4 = SetNext(m3, m3.prev[new], new)
                            /\ NextStored(m3, m2.prev[old], new, m4)
  BY <1>0, <1>b, <1>c, SetNextStores
<1>5. m4 = list_replace(m, old, new)
  BY <1>1, <1>2, <1>3, <1>4 DEF list_replace
<1>6. \A d \in Cells: m4.next[d] = IF d = m2.prev[old] THEN new
                                   ELSE IF d = new THEN m.next[old] ELSE m.next[d]
  <2>1. \A d \in Cells: m2.next[d] = IF d = new THEN m.next[old] ELSE m.next[d]
    BY <1>1, <1>2 DEF NextStored, PrevStored
  <2>2. \A d \in Cells: m4.next[d] = IF d = m2.prev[old] THEN new ELSE m2.next[d]
    BY <1>3, <1>4 DEF NextStored, PrevStored
  <2>. QED
    BY <2>1, <2>2
<1>. QED
  BY <1>5, <1>6, <1>b

(* list_replace puts the new cell in the place of the old one.              *)
LEMMA ReplaceContents ==
  ASSUME NEW m, NEW cs, Sound(m, cs), NEW S, S = ContentsOf(m, cs), NEW old \in Entries \cap cs,
         NEW new \in Entries, new # old, IsIdle(m, cs, new), NEW ds, SameHeads(cs, ds)
  PROVE  ContentsOf(list_replace(m, old, new), ds) = [h \in Heads |-> Exchanged(S[h], old, new)]
<1>. DEFINE m2 == list_replace(m, old, new)
            T == [h \in Heads |-> Exchanged(S[h], old, new)]
<1>1. m \in Memories /\ cs \in SUBSET Cells /\ new \in Cells
      /\ \A c \in cs: m.next[m.prev[c]] = c /\ m.prev[m.next[c]] = c
  BY DEF Sound, Cells, Linked
<1>2. /\ m.next[old] = old => \A d \in Cells \ {new}: m2.next[d] = m.next[d]
      /\ m.next[old] # old =>
           \A d \in Cells: m2.next[d] = IF d = m.prev[old] THEN new
                                        ELSE IF d = new THEN m.next[old] ELSE m.next[d]
  <2>1. PICK o: Linked(m, cs, o)
    BY DEF Sound
  <2>2. /\ m \in Memories /\ cs \in SUBSET Cells /\ old \in cs /\ new \in Cells /\ new # old
        /\ IsIdle(m, cs, new)
    BY <1>1
  <2>. QED
    BY ONLY <2>1, <2>2, ReplaceStores
<1>. HIDE DEF m2
<1>3. /\ \A h \in Heads: S[h] \in Seq(Entries) /\ Len(S[h]) \in Nat
      /\ \A h \in Heads \cap cs: \A i \in 0..Len(S[h]): Knot(h, S[h], i) \in cs
  BY KnotFacts
<1>4. Shows(m, cs, S)
  BY ContentsShow
<1>5. \A h \in Heads: \A i \in 1..Len(S[h]): S[h][i] # new
  BY <1>1, IdleIsOff
<1>6. \A h \in Heads \cap cs: \A i \in 0..Len(S[h]): Knot(h, S[h], i) # new
  BY <1>5, CellsAssumption DEF Knot
<1>7. ASSUME NEW h \in Heads, \A i \in 1..Len(S[h]): S[h][i] # old
      PROVE  Exchanged(S[h], old, new) = S[h]
  BY <1>3, <1>7 DEF Exchanged
<1>8. ASSUME NEW h \in Heads \cap cs, NEW k \in 1..Len(S[h]), S[h][k] = old
      PROVE  Ring(m2.next, h, Exchanged(S[h], old, new))
  <2>1. m.prev[old] = Knot(h, S[h], k - 1) /\ m.next[old] # old
    <3>1. m.prev[old] = Knot(h, S[h], k - 1)
      BY <1>8, KnotFacts
    <3>2. k \in 0..Len(S[h]) /\ Knot(h, S[h], k) = old /\ k - 1 \in 0..Len(S[h]) /\ k - 1 # k
      BY <1>3, <1>8 DEF Knot
    <3>3. m.prev[old] # old
      BY <3>1, <3>2, KnotFacts
    <3>. QED
      BY <1>1, <3>1, <3>3
  <2>2. k - 1 \in 0..Len(S[h]) /\ Knot(h, S[h], k - 1) # new /\ Knot(h, S[h], k - 1) \in Cells
    BY <1>1, <1>3, <1>6
  <2>3. m2.next[Knot(h, S[h], k - 1)] = new /\ m2.next[new] = m.next[S[h][k]]
    BY <1>1, <1>2, <1>8, <2>1, <2>2
  <2>4. \A c \in Entries \cup {h}: c # new /\ c # Knot(h, S[h], k - 1) => m2.next[c] = m.next[c]
    BY <1>2, <2>1 DEF Cells
  <2>5. Ring(m.next, h, S[h]) /\ \A i \in 1..Len(S[h]): S[h][i] # new
    BY <1>4, <1>5 DEF Shows
  <2>6. Ring(m2.next, h, Exchanged(S[h], S[h][k], new))
    <3>1. LinksOver(m.next, m2.next, h, S[h], k, new)
      BY <2>3, <2>4, <2>5 DEF LinksOver
    <3>. QED
      BY <3>1, RingSwap
  <2>. QED
    BY <1>8, <2>6
<1>9. ASSUME NEW h \in Heads \cap cs, \A i \in 1..Len(S[h]): S[h][i] # old
      PROVE  Ring(m2.next, h, Exchanged(S[h], old, new))
  <2>1. \A i \in 0..Len(S[h]): Knot(h, S[h], i) # m.prev[old]
    <3>. SUFFICES ASSUME NEW i \in 0..Len(S[h]), Knot(h, S[h], i) = m.prev[old] PROVE FALSE
      OBVIOUS
    <3>1. m.next[Knot(h, S[h], i)] = old
      BY <1>1
    <3>2. old = IF i < Len(S[h]) THEN S[h][i + 1] ELSE h
      BY <3>1, KnotFacts
    <3>3. i < Len(S[h]) => i + 1 \in 1..Len(S[h])
      BY <1>3
    <3>. QED
      BY <1>9, <3>2, <3>3, CellsAssumption
  <2>2. \A i \in 0..Len(S[h]): m2.next[Knot(h, S[h], i)] = m.next[Knot(h, S[h], i)]
    BY <1>1, <1>2, <1>3, <1>6, <2>1
  <2>3. Ring(m.next, h, S[h])
    BY <1>4 DEF Shows
  <2>4. Ring(m2.next, h, S[h])
    BY <2>2, <2>3, RingSame
  <2>. QED
    BY <1>7, <1>9, <2>4
<1>10. \A h \in Heads \cap ds: Ring(m2.next, h, T[h])
  <2>. SUFFICES ASSUME NEW h \in Heads \cap ds PROVE Ring(m2.next, h, Exchanged(S[h], old, new))
    OBVIOUS
  <2>1. h \in cs
    BY DEF SameHeads
  <2>. QED
    BY <1>8, <1>9, <2>1
<1>11. \A h \in Heads \ ds: T[h] = <<>>
  <2>. SUFFICES ASSUME NEW h \in Heads \ ds PROVE Exchanged(S[h], old, new) = <<>>
    OBVIOUS
  <2>1. S[h] = <<>>
    BY <1>4 DEF Shows, SameHeads
  <2>2. \A i \in 1..Len(S[h]): S[h][i] # old
    BY <2>1
  <2>. QED
    BY <1>7, <2>1, <2>2
<1>. QED
  <2>1. T = [h \in Heads |-> T[h]]
    OBVIOUS
  <2>. HIDE DEF T
  <2>2. ContentsOf(m2, ds) = T
    BY <1>10, <1>11, <2>1, ContentsAre
  <2>. QED
    BY <2>2 DEF T, m2

(* The first and the last entry of a list.                                  *)
LEMMA EndsOf ==
  ASSUME NEW m, NEW cs, Sound(m, cs), NEW S, S = ContentsOf(m, cs), NEW h \in Heads \cap cs
  PROVE  /\ S[h] = <<>> <=> m.next[h] = h
         /\ S[h] # <<>> => /\ Len(S[h]) >= 1
                           /\ m.next[h] = S[h][1] /\ m.prev[h] = S[h][Len(S[h])]
<1>1. S[h] \in Seq(Entries) /\ Len(S[h]) \in Nat
  BY KnotFacts
<1>2. m.next[h] = IF 0 < Len(S[h]) THEN S[h][0 + 1] ELSE h
  <2>1. 0 \in 0..Len(S[h]) /\ Knot(h, S[h], 0) = h
    BY <1>1 DEF Knot
  <2>. QED
    BY <2>1, KnotFacts
<1>3. m.prev[h] = Knot(h, S[h], Len(S[h]))
  BY KnotFacts
<1>4. CASE S[h] = <<>>
  BY <1>2, <1>4
<1>5. CASE S[h] # <<>>
  <2>1. 0 < Len(S[h]) /\ Len(S[h]) >= 1 /\ 0 + 1 = 1 /\ 1 \in 1..Len(S[h]) /\ Len(S[h]) # 0
    BY <1>1, <1>5
  <2>2. S[h][1] # h
    BY <1>1, <2>1, CellsAssumption
  <2>. QED
    BY <1>2, <1>3, <1>5, <2>1, <2>2 DEF Knot
<1>. QED
  BY <1>4, <1>5

(* What the stores of __list_splice do to next.                             *)
LEMMA SpliceStores ==
  ASSUME NEW m \in Memories, NEW list, m.next[list] \in Cells, m.prev[list] \in Cells,
         NEW prev \in Cells, NEW succ \in Cells
  PROVE  LET m2 == list_splice_between(m, list, prev, succ)
         IN  \A d \in Cells: m2.next[d] = IF d = m.prev[list] THEN succ
                                          ELSE IF d = prev THEN m.next[list] ELSE m.next[d]
<1>1. PICK m1 \in Memories: m1 = SetPrev(m, m.next[list], prev)
                            /\ PrevStored(m, m.next[list], prev, m1)
  BY SetPrevStores
<1>2. PICK m2 \in Memories: m2 = SetNext(m1, prev, m.next[list])
                            /\ NextStored(m1, prev, m.next[list], m2)
  BY SetNextStores
<1>3. PICK m3 \in Memories: m3 = SetNext(m2, m.prev[list], succ)
                            /\ NextStored(m2, m.prev[list], succ, m3)
  BY SetNextStores
<1>4. PICK m4 \in Memories: m4 = SetPrev(m3, succ, m.prev[list])
                            /\ PrevStored(m3, succ, m.prev[list], m4)
  BY SetPrevStores
<1>5. m4 = list_splice_between(m, list, prev, succ)
  BY <1>1, <1>2, <1>3, <1>4 DEF list_splice_between
<1>6. \A d \in Cells: m4.next[d] = IF d = m.prev[list] THEN succ
                                   ELSE IF d = prev THEN m.next[list] ELSE m.next[d]
  <2>1. \A d \in Cells: m2.next[d] = IF d = prev THEN m.next[list] ELSE m.next[d]
    BY <1>1, <1>2 DEF NextStored, PrevStored
  <2>2. \A d \in Cells: m4.next[d] = IF d = m.prev[list] THEN succ ELSE m2.next[d]
    BY <1>3, <1>4 DEF NextStored, PrevStored
  <2>. QED
    BY <2>1, <2>2
<1>. QED
  BY <1>5, <1>6

(* The heads of ds are those of cs but for list, which is not in ds.        *)
LosesHead(cs, ds, list) ==
    list \notin ds /\ \A h \in Heads: h # list => (h \in cs <=> h \in ds)

(* __list_splice puts all entries of list behind a cell of another list.    *)
LEMMA SpliceContents ==
  ASSUME NEW m, NEW cs, Sound(m, cs), NEW S, S = ContentsOf(m, cs), NEW list \in Heads \cap cs,
         NEW h \in Heads \cap cs, list # h, S[list] # <<>>, NEW ds, LosesHead(cs, ds, list)
  PROVE  /\ ContentsOf(list_splice(m, list, h), ds) =
              With(With(S, h, S[list] \o S[h]), list, <<>>)
         /\ ContentsOf(list_splice_tail(m, list, h), ds) =
              With(With(S, h, S[h] \o S[list]), list, <<>>)
<1>. DEFINE a == S[list]
            b == S[h]
            m1 == list_splice(m, list, h)
            m2 == list_splice_tail(m, list, h)
<1>0. /\ m \in Memories /\ cs \in SUBSET Cells /\ \A c \in cs: m.next[c] \in cs /\ m.prev[c] \in cs
  BY DEF Sound, Linked
<1>1. Shows(m, cs, S) /\ S = [c \in Heads |-> S[c]]
  BY ContentsShow DEF ContentsOf
<1>2. /\ a \in Seq(Entries) /\ Len(a) \in Nat /\ Uniq(a)
      /\ b \in Seq(Entries) /\ Len(b) \in Nat /\ Uniq(b)
      /\ \A i \in 1..Len(a), j \in 1..Len(b): a[i] # b[j]
  BY <1>1, KnotFacts DEF Shows
<1>3. /\ ~ list_empty(m, list) /\ Len(a) >= 1
      /\ m.next[list] = a[1] /\ m.prev[list] = a[Len(a)]
  BY EndsOf DEF list_empty
<1>4. /\ m.prev[h] = Knot(h, b, Len(b)) /\ m.next[h] = IF Len(b) = 0 THEN h ELSE b[1]
  <2>1. m.prev[h] = Knot(h, b, Len(b))
    BY KnotFacts
  <2>2. Len(b) = 0 <=> b = <<>>
    BY <1>2
  <2>. QED
    BY <2>1, <2>2, EndsOf
<1>5. /\ \A d \in Cells: m1.next[d] = IF d = a[Len(a)] THEN m.next[h]
                                      ELSE IF d = h THEN a[1] ELSE m.next[d]
      /\ \A d \in Cells: m2.next[d] = IF d = a[Len(a)] THEN h
                                      ELSE IF d = m.prev[h] THEN a[1] ELSE m.next[d]
  <2>1. /\ m \in Memories /\ m.next[list] \in Cells /\ m.prev[list] \in Cells
        /\ m.next[h] \in Cells /\ m.prev[h] \in Cells /\ h \in Cells
    BY <1>0
  <2>2. /\ m1 = list_splice_between(m, list, h, m.next[h])
        /\ m2 = list_splice_between(m, list, m.prev[h], h)
    BY <1>3 DEF list_splice, list_splice_tail
  <2>. HIDE DEF m1, m2, a, b
  <2>3. \A d \in Cells: m1.next[d] = IF d = m.prev[list] THEN m.next[h]
                                     ELSE IF d = h THEN m.next[list] ELSE m.next[d]
    BY <2>1, <2>2, SpliceStores
  <2>4. \A d \in Cells: m2.next[d] = IF d = m.prev[list] THEN h
                                     ELSE IF d = m.prev[h] THEN m.next[list] ELSE m.next[d]
    BY <2>1, <2>2, SpliceStores
  <2>. QED
    BY <1>3, <2>3, <2>4
<1>. HIDE DEF m1, m2
<1>6. /\ \A i \in 1..Len(a): /\ a[i] \in Entries /\ a[i] \in Cells
                             /\ i < Len(a) => m.next[a[i]] = a[i + 1] /\ a[i] # a[Len(a)]
      /\ \A j \in 1..Len(b): /\ b[j] \in Entries /\ b[j] \in Cells
                             /\ m.next[b[j]] = IF j < Len(b) THEN b[j + 1] ELSE h
                             /\ b[j] # a[Len(a)]
                             /\ j < Len(b) => b[j] # Knot(h, b, Len(b))
  <2>1. ASSUME NEW i \in 1..Len(a)
        PROVE  /\ a[i] \in Entries /\ a[i] \in Cells
               /\ i < Len(a) => m.next[a[i]] = a[i + 1] /\ a[i] # a[Len(a)]
    <3>1. i \in 0..Len(a) /\ Knot(list, a, i) = a[i] /\ Len(a) \in 1..Len(a)
      BY <1>2 DEF Knot
    <3>2. a[i] \in Entries /\ a[i] \in Cells
      BY <1>2 DEF Cells
    <3>3. m.next[a[i]] = IF i < Len(a) THEN a[i + 1] ELSE list
      BY <3>1, KnotFacts
    <3>4. i < Len(a) => a[i] # a[Len(a)]
      BY <1>2, <3>1 DEF Uniq
    <3>. QED
      BY <3>2, <3>3, <3>4
  <2>2. ASSUME NEW j \in 1..Len(b)
        PROVE  /\ b[j] \in Entries /\ b[j] \in Cells
               /\ m.next[b[j]] = IF j < Len(b) THEN b[j + 1] ELSE h
               /\ b[j] # a[Len(a)]
               /\ j < Len(b) => b[j] # Knot(h, b, Len(b))
    <3>1. j \in 0..Len(b) /\ Knot(h, b, j) = b[j] /\ Len(a) \in 1..Len(a)
      BY <1>2, <1>3 DEF Knot
    <3>2. b[j] \in Entries /\ b[j] \in Cells
      BY <1>2 DEF Cells
    <3>3. m.next[b[j]] = IF j < Len(b) THEN b[j + 1] ELSE h
      BY <3>1, KnotFacts
    <3>4. j < Len(b) => b[j] # Knot(h, b, Len(b))
      <4>1. Len(b) \in 0..Len(b)
        BY <1>2
      <4>2. Knot(h, b, j) = Knot(h, b, Len(b)) => j = Len(b)
        BY <3>1, <4>1, KnotFacts
      <4>. QED
        BY <1>2, <3>1, <4>2
    <3>. QED
      BY <1>2, <3>1, <3>2, <3>3, <3>4
  <2>. QED
    BY <2>1, <2>2
<1>7. h \notin Entries /\ h \in Cells /\ 1 \in 1..Len(a) /\ Len(a) \in 1..Len(a)
  BY <1>2, <1>3, CellsAssumption DEF Cells
<1>8. Ring(m1.next, h, a \o b)
  <2>1. \A i \in 0..Len(a) - 1: m1.next[Knot(h, a, i)] = a[i + 1]
    <3>. TAKE i \in 0..Len(a) - 1
    <3>1. CASE i = 0
      BY <1>5, <1>6, <1>7, <3>1 DEF Knot
    <3>2. CASE i # 0
      <4>1. i \in 1..Len(a) /\ i < Len(a) /\ Knot(h, a, i) = a[i]
        BY <1>2, <3>2 DEF Knot
      <4>. QED
        BY <1>5, <1>6, <1>7, <4>1
    <3>. QED
      BY <3>1, <3>2
  <2>2. m1.next[Knot(h, a, Len(a))] = IF Len(b) = 0 THEN h ELSE b[1]
    BY <1>3, <1>4, <1>5, <1>6, <1>7 DEF Knot
  <2>3. \A j \in 1..Len(b): m1.next[b[j]] = IF j < Len(b) THEN b[j + 1] ELSE h
    BY <1>5, <1>6, <1>7
  <2>4. LinksBoth(m1.next, h, a, b)
    BY <1>2, <2>1, <2>2, <2>3 DEF LinksBoth
  <2>. HIDE DEF a, b
  <2>. QED
    BY <2>4, RingJoin
<1>9. Ring(m2.next, h, b \o a)
  <2>0. Knot(h, b, Len(b)) \in Cells /\ Knot(h, b, Len(b)) # a[Len(a)]
    <3>1. CASE Len(b) = 0
      BY <1>6, <1>7, <3>1 DEF Knot
    <3>2. CASE Len(b) # 0
      <4>1. Len(b) \in 1..Len(b) /\ Knot(h, b, Len(b)) = b[Len(b)]
        BY <1>2, <3>2 DEF Knot
      <4>. QED
        BY <1>6, <4>1
    <3>. QED
      BY <3>1, <3>2
  <2>1. \A i \in 0..Len(b) - 1: m2.next[Knot(h, b, i)] = b[i + 1]
    <3>. TAKE i \in 0..Len(b) - 1
    <3>1. i \in 0..Len(b) /\ Len(b) \in 0..Len(b) /\ i < Len(b) /\ i # Len(b)
      BY <1>2
    <3>2. m.next[Knot(h, b, i)] = b[i + 1] /\ Knot(h, b, i) # Knot(h, b, Len(b))
      BY <3>1, KnotFacts
    <3>3. Knot(h, b, i) # a[Len(a)] /\ Knot(h, b, i) \in Cells
      <4>1. i # 0 => i \in 1..Len(b)
        BY <1>2
      <4>. QED
        BY <1>6, <1>7, <4>1 DEF Knot
    <3>. QED
      BY <1>4, <1>5, <3>2, <3>3
  <2>2. m2.next[Knot(h, b, Len(b))] = IF Len(a) = 0 THEN h ELSE a[1]
    BY <1>3, <1>4, <1>5, <1>2, <2>0
  <2>3. \A i \in 1..Len(a): m2.next[a[i]] = IF i < Len(a) THEN a[i + 1] ELSE h
    <3>. TAKE i \in 1..Len(a)
    <3>1. CASE i < Len(a)
      <4>1. a[i] # Knot(h, b, Len(b))
        <5>1. Len(b) # 0 => Len(b) \in 1..Len(b)
          BY <1>2
        <5>. QED
          BY <1>2, <1>6, <1>7, <5>1 DEF Knot
      <4>. QED
        BY <1>4, <1>5, <1>6, <3>1, <4>1
    <3>2. CASE i = Len(a)
      BY <1>5, <1>6, <1>7, <3>2
    <3>. QED
      BY <1>2, <3>1, <3>2
  <2>4. LinksBoth(m2.next, h, b, a)
    BY <1>2, <2>1, <2>2, <2>3 DEF LinksBoth
  <2>. HIDE DEF a, b
  <2>. QED
    BY <2>4, RingJoin
<1>10. ASSUME NEW c \in Heads \cap cs, c # h, c # list
       PROVE  Ring(m1.next, c, S[c]) /\ Ring(m2.next, c, S[c])
  <2>1. \A i \in 0..Len(S[c]): Knot(c, S[c], i) \in Cells
    BY <1>0, KnotFacts
  <2>2. \A i \in 0..Len(S[c]): /\ Knot(c, S[c], i) # h /\ Knot(c, S[c], i) # m.prev[h]
                               /\ Knot(c, S[c], i) # a[Len(a)]
    <3>. TAKE i \in 0..Len(S[c])
    <3>1. 0 \in 0..Len(b) /\ h = Knot(h, b, 0) /\ Len(b) \in 0..Len(b)
      BY <1>2 DEF Knot
    <3>2. Len(a) \in 0..Len(a) /\ a[Len(a)] = Knot(list, a, Len(a))
      BY <1>2, <1>3 DEF Knot
    <3>3. Knot(c, S[c], i) # Knot(h, b, 0) /\ Knot(c, S[c], i) # Knot(h, b, Len(b))
      BY <1>10, <3>1, KnotFacts
    <3>4. Knot(c, S[c], i) # Knot(list, a, Len(a))
      BY <1>10, <3>2, KnotFacts
    <3>. QED
      BY <1>4, <3>1, <3>2, <3>3, <3>4
  <2>3. \A i \in 0..Len(S[c]): /\ m1.next[Knot(c, S[c], i)] = m.next[Knot(c, S[c], i)]
                               /\ m2.next[Knot(c, S[c], i)] = m.next[Knot(c, S[c], i)]
    BY <1>5, <2>1, <2>2
  <2>4. Ring(m.next, c, S[c])
    BY <1>1 DEF Shows
  <2>. QED
    BY <2>3, <2>4, RingSame
<1>11. ASSUME NEW s, NEW g, NEW T, T = With(With(S, h, s), list, <<>>), Ring(g.next, h, s),
              \A c \in Heads \cap cs: c # h /\ c # list => Ring(g.next, c, S[c])
       PROVE  ContentsOf(g, ds) = T
  <2>1. /\ T = [c \in Heads |-> T[c]]
        /\ \A c \in Heads: T[c] = IF c = list THEN <<>> ELSE IF c = h THEN s ELSE S[c]
    BY <1>1, <1>11 DEF With
  <2>2. \A c \in Heads \cap ds: Ring(g.next, c, T[c])
    BY <1>11, <2>1 DEF LosesHead
  <2>3. \A c \in Heads \ ds: T[c] = <<>>
    BY <1>1, <2>1 DEF Shows, LosesHead
  <2>. QED
    BY <2>1, <2>2, <2>3, ContentsAre
<1>. QED
  BY <1>8, <1>9, <1>10, <1>11 DEF m1, m2

(* The entries of a list up to the k-th, and those from the k-th on.        *)
LEMMA PartsOf ==
  ASSUME NEW s \in Seq(Entries), NEW k \in 0..Len(s) + 1
  PROVE  /\ k <= Len(s) => /\ SubSeq(s, 1, k) \in Seq(Entries) /\ Len(SubSeq(s, 1, k)) = k
                           /\ \A i \in 1..k: SubSeq(s, 1, k)[i] = s[i]
         /\ k >= 1 => /\ SubSeq(s, k, Len(s)) \in Seq(Entries)
                      /\ Len(SubSeq(s, k, Len(s))) = Len(s) - k + 1
                      /\ \A i \in 1..Len(s) - k + 1: SubSeq(s, k, Len(s))[i] = s[k - 1 + i]
OBVIOUS

(* A ring without the entries from the i-th to the j-th.                    *)
LinksPast(f, g, h, s, i, j) ==
    /\ h \in Heads /\ Ring(f, h, s) /\ i \in 1..Len(s) + 1 /\ j \in i - 1..Len(s)
    /\ g[Knot(h, s, i - 1)] = f[Knot(h, s, j)]
    /\ \A l \in 0..Len(s): l < i - 1 \/ l > j => g[Knot(h, s, l)] = f[Knot(h, s, l)]

(* Then they are missing from the ring.                                    *)
LEMMA RingPast ==
  ASSUME NEW f, NEW g, NEW h, NEW s, NEW i, NEW j, LinksPast(f, g, h, s, i, j)
  PROVE  Ring(g, h, SubSeq(s, 1, i - 1) \o SubSeq(s, j + 1, Len(s)))
<1>. DEFINE c == SubSeq(s, 1, i - 1)
            d == SubSeq(s, j + 1, Len(s))
<1>0. /\ h \in Heads /\ Ring(f, h, s) /\ i \in 1..Len(s) + 1 /\ j \in i - 1..Len(s)
      /\ g[Knot(h, s, i - 1)] = f[Knot(h, s, j)]
      /\ \A l \in 0..Len(s): l < i - 1 \/ l > j => g[Knot(h, s, l)] = f[Knot(h, s, l)]
  BY DEF LinksPast
<1>1. /\ s \in Seq(Entries) /\ Len(s) \in Nat /\ Uniq(s)
      /\ \A l \in 0..Len(s) - 1: f[Knot(h, s, l)] = s[l + 1]
      /\ f[Knot(h, s, Len(s))] = h
  BY <1>0 DEF Ring, Strung
<1>2. /\ i - 1 \in 0..Len(s) /\ i - 1 \in 0..Len(s) + 1 /\ i - 1 <= Len(s)
      /\ j + 1 \in 0..Len(s) + 1 /\ j + 1 >= 1 /\ j \in Nat /\ i \in Nat /\ i >= 1
      /\ j <= Len(s) /\ i - 1 <= j /\ j \in 0..Len(s)
  BY <1>0, <1>1
<1>3. c \in Seq(Entries) /\ Len(c) = i - 1 /\ \A l \in 1..i - 1: c[l] = s[l]
  BY <1>1, <1>2, PartsOf
<1>4. d \in Seq(Entries) /\ Len(d) = Len(s) - j /\ \A l \in 1..Len(s) - j: d[l] = s[j + l]
  <2>1. PICK k \in 0..Len(s) + 1: k = j + 1
    BY <1>2
  <2>2. /\ SubSeq(s, k, Len(s)) \in Seq(Entries)
        /\ Len(SubSeq(s, k, Len(s))) = Len(s) - k + 1
        /\ \A l \in 1..Len(s) - k + 1: SubSeq(s, k, Len(s))[l] = s[k - 1 + l]
    BY <1>1, <1>2, <2>1, PartsOf
  <2>3. Len(s) - k + 1 = Len(s) - j /\ k - 1 = j
    BY <1>1, <1>2, <2>1
  <2>. QED
    BY <2>1, <2>2, <2>3
<1>. HIDE DEF c, d
<1>5. /\ \A l \in 1..i - 1: l \in 1..Len(s)
      /\ \A l \in 1..Len(s) - j: j + l \in 1..Len(s) /\ j + l > j /\ j + l >= i
  BY <1>1, <1>2
<1>6. Uniq(c) /\ Uniq(d)
  <2>1. \A l, n \in 1..Len(s) - j: j + l = j + n => l = n
    BY <1>1, <1>2
  <2>2. \A l, n \in 1..i - 1: c[l] = c[n] => l = n
    BY <1>1, <1>3, <1>5 DEF Uniq
  <2>3. ASSUME NEW l \in 1..Len(s) - j, NEW n \in 1..Len(s) - j, d[l] = d[n] PROVE l = n
    <3>1. s[j + l] = s[j + n] /\ j + l \in 1..Len(s) /\ j + n \in 1..Len(s)
      BY <1>4, <1>5, <2>3
    <3>2. j + l = j + n
      BY <1>1, <3>1 DEF Uniq
    <3>. QED
      BY <2>1, <3>2
  <2>. QED
    BY <1>3, <1>4, <2>2, <2>3 DEF Uniq
<1>7. \A l \in 1..Len(c), n \in 1..Len(d): c[l] # d[n]
  <2>1. \A l \in 1..i - 1, n \in 1..Len(s) - j: l # j + n
    BY <1>1, <1>2
  <2>. QED
    BY <1>1, <1>3, <1>4, <1>5, <2>1 DEF Uniq
<1>8. \A l \in 0..i - 1: Knot(h, c, l) = Knot(h, s, l)
  BY <1>2, <1>3 DEF Knot
<1>9. \A l \in 0..Len(c) - 1: g[Knot(h, c, l)] = c[l + 1]
  <2>. TAKE l \in 0..Len(c) - 1
  <2>1. /\ l \in 0..i - 1 /\ l \in 0..Len(s) /\ l < i - 1
        /\ l \in 0..Len(s) - 1 /\ l + 1 \in 1..i - 1
    BY <1>1, <1>2, <1>3
  <2>. QED
    BY <1>0, <1>1, <1>3, <1>8, <2>1
<1>10. f[Knot(h, s, j)] = IF Len(d) = 0 THEN h ELSE d[1]
  <2>1. CASE j = Len(s)
    BY <1>1, <1>4, <2>1
  <2>2. CASE j # Len(s)
    <3>1. j \in 0..Len(s) - 1 /\ Len(d) # 0 /\ 1 \in 1..Len(s) - j
      BY <1>1, <1>2, <1>4, <2>2
    <3>. QED
      BY <1>1, <1>4, <3>1
  <2>. QED
    BY <2>1, <2>2
<1>11. g[Knot(h, c, Len(c))] = IF Len(d) = 0 THEN h ELSE d[1]
  <2>1. i - 1 \in 0..i - 1
    BY <1>2
  <2>. QED
    BY <1>0, <1>3, <1>8, <1>10, <2>1
<1>12. \A l \in 1..Len(d): g[d[l]] = IF l < Len(d) THEN d[l + 1] ELSE h
  <2>. TAKE l \in 1..Len(d)
  <2>1. /\ j + l \in 0..Len(s) /\ j + l > j /\ d[l] = s[j + l] /\ Knot(h, s, j + l) = s[j + l]
    BY <1>1, <1>2, <1>4 DEF Knot
  <2>2. g[d[l]] = f[Knot(h, s, j + l)]
    BY <1>0, <2>1
  <2>3. CASE l < Len(d)
    <3>1. j + l \in 0..Len(s) - 1 /\ l + 1 \in 1..Len(s) - j /\ (j + l) + 1 = j + (l + 1)
      BY <1>1, <1>2, <1>4, <2>3
    <3>. QED
      BY <1>1, <1>4, <2>2, <2>3, <3>1
  <2>4. CASE l = Len(d)
    <3>1. j + l = Len(s) /\ ~ (l < Len(d))
      BY <1>1, <1>2, <1>4, <2>4
    <3>. QED
      BY <1>1, <2>2, <3>1
  <2>. QED
    BY <1>4, <2>3, <2>4
<1>13. LinksBoth(g, h, c, d)
  BY <1>0, <1>3, <1>4, <1>6, <1>7, <1>9, <1>11, <1>12 DEF LinksBoth
<1>. QED
  BY <1>13, RingJoin DEF c, d

(* list_del_range takes out the entries between two of the same list.       *)
LEMMA RangeContents ==
  ASSUME NEW m, NEW cs, Sound(m, cs), NEW S, S = ContentsOf(m, cs), NEW h \in Heads \cap cs,
         NEW i \in 1..Len(S[h]), NEW j \in i..Len(S[h]), NEW ds, SameHeads(cs, ds)
  PROVE  ContentsOf(list_del_range(m, S[h][i], S[h][j]), ds) =
           With(S, h, SubSeq(S[h], 1, i - 1) \o SubSeq(S[h], j + 1, Len(S[h])))
<1>. DEFINE s == S[h]
            m2 == list_del_range(m, s[i], s[j])
            t == SubSeq(s, 1, i - 1) \o SubSeq(s, j + 1, Len(s))
            T == With(S, h, t)
            before == m.prev[s[i]]
            after == m.next[s[j]]
<1>0. m \in Memories /\ cs \in SUBSET Cells
  BY DEF Sound
<1>1. Shows(m, cs, S) /\ S = [c \in Heads |-> S[c]]
  BY ContentsShow DEF ContentsOf
<1>2. /\ s \in Seq(Entries) /\ Len(s) \in Nat /\ j \in 1..Len(s) /\ j \in 0..Len(s)
      /\ i - 1 \in 0..Len(s) /\ i \in 1..Len(s) + 1 /\ j \in i - 1..Len(s)
  BY KnotFacts
<1>3. /\ before = Knot(h, s, i - 1) /\ before \in Cells
      /\ s[j] = Knot(h, s, j) /\ after = (IF j < Len(s) THEN s[j + 1] ELSE h) /\ after \in Cells
      /\ s[i] \in Cells /\ s[j] \in Cells
  <2>1. before = Knot(h, s, i - 1) /\ before \in Cells /\ s[j] = Knot(h, s, j) /\ s[j] \in cs
    BY <1>0, <1>2, KnotFacts DEF Knot
  <2>2. after = (IF j < Len(s) THEN s[j + 1] ELSE h) /\ s[i] \in cs
    BY <1>2, <2>1, KnotFacts
  <2>3. after \in cs
    BY <2>1 DEF Sound, Linked
  <2>. QED
    BY <1>0, <2>1, <2>2, <2>3
<1>. HIDE DEF s, before, after
<1>4. PICK m1 \in Memories: m1 = SetNext(m, before, after) /\ NextStored(m, before, after, m1)
  BY <1>0, <1>3, SetNextStores
<1>5. m1.prev[s[i]] = before /\ m1.next[s[j]] \in Cells
  <2>1. m1.prev = m.prev
    BY <1>4 DEF NextStored
  <2>2. m1.next[s[j]] = IF s[j] = before THEN after ELSE m.next[s[j]]
    BY <1>3, <1>4 DEF NextStored
  <2>. QED
    BY <1>3, <2>1, <2>2 DEF before, after
<1>6. PICK m3 \in Memories: m3 = SetPrev(m1, m1.next[s[j]], before)
                            /\ PrevStored(m1, m1.next[s[j]], before, m3)
  BY <1>3, <1>5, SetPrevStores
<1>7. m3 = m2
  BY <1>4, <1>5, <1>6 DEF list_del_range, before, after
<1>8. \A d \in Cells: m2.next[d] = IF d = before THEN after ELSE m.next[d]
  BY <1>4, <1>6, <1>7 DEF NextStored, PrevStored
<1>. HIDE DEF m2
<1>9. \A c \in Heads \cap cs: \A l \in 0..Len(S[c]): Knot(c, S[c], l) \in Cells
  BY <1>0, KnotFacts
<1>10. Ring(m2.next, h, t)
  <2>1. m2.next[Knot(h, s, i - 1)] = m.next[Knot(h, s, j)]
    BY <1>3, <1>8 DEF after
  <2>2. \A l \in 0..Len(s): l < i - 1 \/ l > j => m2.next[Knot(h, s, l)] = m.next[Knot(h, s, l)]
    <3>. SUFFICES ASSUME NEW l \in 0..Len(s), l < i - 1 \/ l > j
                  PROVE  m2.next[Knot(h, s, l)] = m.next[Knot(h, s, l)]
      OBVIOUS
    <3>1. l # i - 1
      BY <1>2
    <3>2. Knot(h, s, l) # Knot(h, s, i - 1) /\ Knot(h, s, l) \in Cells
      BY <1>2, <1>9, <3>1, KnotFacts DEF s
    <3>. QED
      BY <1>3, <1>8, <3>2
  <2>3. Ring(m.next, h, s)
    BY <1>1 DEF Shows, s
  <2>4. LinksPast(m.next, m2.next, h, s, i, j)
    BY <1>2, <2>1, <2>2, <2>3 DEF LinksPast
  <2>. QED
    BY <2>4, RingPast
<1>11. ASSUME NEW c \in Heads \cap cs, c # h PROVE Ring(m2.next, c, S[c])
  <2>1. \A l \in 0..Len(S[c]): Knot(c, S[c], l) # before
    BY <1>2, <1>3, <1>11, KnotFacts DEF s
  <2>2. \A l \in 0..Len(S[c]): m2.next[Knot(c, S[c], l)] = m.next[Knot(c, S[c], l)]
    BY <1>8, <1>9, <2>1
  <2>3. Ring(m.next, c, S[c])
    BY <1>1 DEF Shows
  <2>. QED
    BY <2>2, <2>3, RingSame
<1>. HIDE DEF t
<1>12. T = [c \in Heads |-> T[c]] /\ \A c \in Heads: T[c] = IF c = h THEN t ELSE S[c]
  BY <1>1 DEF With
<1>. HIDE DEF T
<1>13. \A c \in Heads \cap ds: Ring(m2.next, c, T[c])
  BY <1>10, <1>11, <1>12 DEF SameHeads
<1>14. \A c \in Heads \ ds: T[c] = <<>>
  BY <1>1, <1>12 DEF Shows, SameHeads
<1>15. ContentsOf(m2, ds) = T
  BY <1>12, <1>13, <1>14, ContentsAre
<1>. QED
  BY <1>15 DEF m2, T, t, s

(* What the stores of __list_cut_position do to next.                       *)
LEMMA CutStores ==
  ASSUME NEW m \in Memories, NEW list \in Cells, NEW base \in Cells, NEW entry \in Cells,
         list # base, entry # list, entry # base,
         m.next[base] \in Cells, m.next[entry] \in Cells
  PROVE  LET m2 == list_cut_at(m, list, base, entry)
         IN  \A d \in Cells: m2.next[d] = IF d = base THEN m.next[entry]
                                          ELSE IF d = entry THEN list
                                          ELSE IF d = list THEN m.next[base] ELSE m.next[d]
<1>1. PICK m1 \in Memories: /\ m1 = SetNext(m, list, m.next[base])
                            /\ NextStored(m, list, m.next[base], m1)
  BY SetNextStores
<1>a. m1.next[list] = m.next[base]
  BY <1>1 DEF NextStored
<1>2. PICK m2 \in Memories: /\ m2 = SetPrev(m1, m.next[base], list)
                            /\ PrevStored(m1, m.next[base], list, m2)
  BY SetPrevStores
<1>3. PICK m3 \in Memories: m3 = SetPrev(m2, list, entry) /\ PrevStored(m2, list, entry, m3)
  BY SetPrevStores
<1>4. PICK m4 \in Memories: m4 = SetNext(m3, entry, list) /\ NextStored(m3, entry, list, m4)
  BY SetNextStores
<1>5. PICK m5 \in Memories: /\ m5 = SetNext(m4, base, m.next[entry])
                            /\ NextStored(m4, base, m.next[entry], m5)
  BY SetNextStores
<1>6. PICK m6 \in Memories: /\ m6 = SetPrev(m5, m.next[entry], base)
                            /\ PrevStored(m5, m.next[entry], base, m6)
  BY SetPrevStores
<1>7. m6 = list_cut_at(m, list, base, entry)
  BY <1>1, <1>a, <1>2, <1>3, <1>4, <1>5, <1>6 DEF list_cut_at
<1>8. \A d \in Cells: m6.next[d] = IF d = base THEN m.next[entry]
                                   ELSE IF d = entry THEN list
                                   ELSE IF d = list THEN m.next[base] ELSE m.next[d]
  BY <1>1, <1>2, <1>3, <1>4, <1>5, <1>6, SMTT(60) DEF NextStored, PrevStored
<1>. QED
  BY <1>7, <1>8

(* The heads of ds are those of cs and list.                                *)
GainsHead(cs, ds, list) ==
    list \in ds /\ \A h \in Heads: h # list => (h \in cs <=> h \in ds)

(* list_cut_position leaves the entries up to the given one to list, and    *)
(* the others to their head.                                                *)
LEMMA CutContents ==
  ASSUME NEW m, NEW cs, Sound(m, cs), NEW S, S = ContentsOf(m, cs), NEW h \in Heads \cap cs,
         NEW list \in Heads, list # h, IsIdle(m, cs, list), NEW k \in 1..Len(S[h]),
         NEW ds, GainsHead(cs, ds, list)
  PROVE  ContentsOf(list_cut_at(m, list, h, S[h][k]), ds) =
           With(With(S, list, SubSeq(S[h], 1, k)), h, SubSeq(S[h], k + 1, Len(S[h])))
<1>. DEFINE s == S[h]
            entry == s[k]
            m2 == list_cut_at(m, list, h, entry)
            c == SubSeq(s, 1, k)
            d == SubSeq(s, k + 1, Len(s))
            T == With(With(S, list, c), h, d)
<1>0. m \in Memories /\ cs \in SUBSET Cells /\ \A e \in cs: m.next[e] \in cs
  BY DEF Sound, Linked
<1>1. Shows(m, cs, S) /\ S = [a \in Heads |-> S[a]]
  BY ContentsShow DEF ContentsOf
<1>2. /\ s \in Seq(Entries) /\ Len(s) \in Nat /\ Uniq(s)
      /\ \A i \in 1..Len(s): s[i] \in Entries /\ s[i] \in cs /\ s[i] \in Cells /\ s[i] # list
  <2>1. s \in Seq(Entries) /\ Len(s) \in Nat /\ Uniq(s)
    BY <1>1, KnotFacts DEF Shows
  <2>2. \A i \in 1..Len(s): s[i] \in Entries /\ s[i] \in cs
    BY KnotFacts
  <2>. HIDE DEF s
  <2>. QED
    BY <1>0, <2>1, <2>2, CellsAssumption
<1>3. entry = Knot(h, s, k) /\ entry \in cs /\ entry \in Entries /\ entry # h /\ entry # list
  BY <1>2, CellsAssumption DEF Knot
<1>4. \A e \in Cells: m2.next[e] = IF e = h THEN m.next[entry] ELSE IF e = entry THEN list
                                   ELSE IF e = list THEN m.next[h] ELSE m.next[e]
  <2>1. /\ list \in Cells /\ h \in Cells /\ entry \in Cells /\ list # h
        /\ m.next[h] \in Cells /\ m.next[entry] \in Cells
    BY <1>0, <1>3 DEF Cells
  <2>. HIDE DEF entry
  <2>. QED
    BY <1>0, <1>3, <2>1, CutStores
<1>. HIDE DEF m2
<1>5. /\ m.next[h] = s[1] /\ 1 \in 1..Len(s)
      /\ \A i \in 1..Len(s): i < Len(s) => m.next[s[i]] = s[i + 1]
  <2>1. 0 \in 0..Len(s) /\ 0 < Len(s) /\ 1 \in 1..Len(s) /\ Knot(h, s, 0) = h
    BY <1>2 DEF Knot
  <2>2. m.next[Knot(h, s, 0)] = s[0 + 1]
    BY <2>1, KnotFacts
  <2>3. ASSUME NEW i \in 1..Len(s), i < Len(s) PROVE m.next[s[i]] = s[i + 1]
    <3>1. i \in 0..Len(s) /\ Knot(h, s, i) = s[i]
      BY <1>2 DEF Knot
    <3>2. m.next[Knot(h, s, i)] = s[i + 1]
      BY <2>3, <3>1, KnotFacts
    <3>. QED
      BY <3>1, <3>2
  <2>. QED
    BY <2>1, <2>2, <2>3
<1>6. /\ c \in Seq(Entries) /\ Len(c) = k /\ \A i \in 1..k: c[i] = s[i]
      /\ d \in Seq(Entries)
  <2>1. k \in 0..Len(s) + 1 /\ k <= Len(s)
    BY <1>2
  <2>2. PICK l \in 0..Len(s) + 1: l = k + 1 /\ l >= 1
    BY <1>2
  <2>. QED
    BY <1>2, <2>1, <2>2, PartsOf
<1>. HIDE DEF c
<1>7. Ring(m2.next, list, c)
  <2>1. Uniq(c)
    <3>. SUFFICES ASSUME NEW i \in 1..k, NEW j \in 1..k, c[i] = c[j] PROVE i = j
      BY <1>6 DEF Uniq
    <3>1. i \in 1..Len(s) /\ j \in 1..Len(s) /\ s[i] = s[j]
      BY <1>2, <1>6
    <3>. QED
      BY <1>2, <3>1 DEF Uniq
  <2>2. ASSUME NEW i \in 0..Len(c) - 1 PROVE m2.next[Knot(list, c, i)] = c[i + 1]
    <3>1. CASE i = 0
      <4>1. list \in Cells /\ list # h /\ 1 \in 1..k /\ 0 + 1 = 1 /\ Knot(list, c, i) = list
        BY <3>1 DEF Cells, Knot
      <4>2. m2.next[list] = s[1]
        BY <1>3, <1>4, <1>5, <4>1
      <4>. QED
        BY <1>6, <3>1, <4>1, <4>2
    <3>2. CASE i # 0
      <4>1. i \in 1..Len(s) /\ i < Len(s) /\ i \in 1..k /\ i + 1 \in 1..k /\ i # k
        BY <1>2, <1>6, <3>2
      <4>2. Knot(list, c, i) = s[i] /\ s[i] # entry /\ s[i] # h /\ s[i] # list /\ s[i] \in Cells
        <5>1. Knot(list, c, i) = s[i]
          BY <1>6, <3>2, <4>1 DEF Knot
        <5>2. s[i] # s[k]
          BY <1>2, <4>1 DEF Uniq
        <5>. QED
          BY <1>2, <4>1, <5>1, <5>2, CellsAssumption
      <4>3. m2.next[s[i]] = s[i + 1]
        BY <1>4, <1>5, <4>1, <4>2
      <4>. QED
        BY <1>6, <4>1, <4>2, <4>3
    <3>. QED
      BY <3>1, <3>2
  <2>3. m2.next[Knot(list, c, Len(c))] = list
    <3>1. Knot(list, c, Len(c)) = entry /\ entry \in Cells
      BY <1>0, <1>3, <1>6 DEF Knot
    <3>. QED
      BY <1>3, <1>4, <3>1
  <2>. QED
    BY <1>6, <2>1, <2>2, <2>3, CellsAssumption DEF Ring, Strung
<1>8. Ring(m2.next, h, d)
  <2>1. h \in Cells /\ Knot(h, s, 0) = h /\ m2.next[h] = m.next[Knot(h, s, k)]
    BY <1>0, <1>3, <1>4 DEF Knot
  <2>2. \A l \in 0..Len(s): l < 0 \/ l > k => m2.next[Knot(h, s, l)] = m.next[Knot(h, s, l)]
    <3>. SUFFICES ASSUME NEW l \in 0..Len(s), l > k
                  PROVE  m2.next[Knot(h, s, l)] = m.next[Knot(h, s, l)]
      OBVIOUS
    <3>1. l \in 1..Len(s) /\ Knot(h, s, l) = s[l] /\ l # k
      BY <1>2 DEF Knot
    <3>2. s[l] # entry
      BY <1>2, <3>1 DEF Uniq
    <3>3. s[l] # h /\ s[l] # list /\ s[l] \in Cells
      BY <1>2, <3>1, CellsAssumption
    <3>. QED
      BY <1>4, <3>1, <3>2, <3>3
  <2>3. Ring(m.next, h, s)
    BY <1>1 DEF Shows
  <2>4. PICK i \in 1..Len(s) + 1: i = 1
    BY <1>2
  <2>5. i - 1 = 0 /\ k \in i - 1..Len(s)
    BY <1>2, <2>4
  <2>6. LinksPast(m.next, m2.next, h, s, i, k)
    BY <2>1, <2>2, <2>3, <2>5 DEF LinksPast
  <2>7. Ring(m2.next, h, SubSeq(s, 1, i - 1) \o d)
    BY <2>6, RingPast
  <2>8. SubSeq(s, 1, i - 1) \o d = d
    BY <1>2, <1>6, <2>5
  <2>. QED
    BY <2>7, <2>8
<1>9. ASSUME NEW a \in Heads \cap cs, a # h, a # list PROVE Ring(m2.next, a, S[a])
  <2>1. ASSUME NEW l \in 0..Len(S[a])
        PROVE  m2.next[Knot(a, S[a], l)] = m.next[Knot(a, S[a], l)]
    <3>1. 0 \in 0..Len(s) /\ k \in 0..Len(s) /\ Knot(h, s, 0) = h
      BY <1>2 DEF Knot
    <3>2. Knot(a, S[a], l) # Knot(h, s, 0) /\ Knot(a, S[a], l) # Knot(h, s, k)
      BY <1>9, <3>1, KnotFacts
    <3>3. Knot(a, S[a], l) # list
      <4>1. l # 0 => S[a][l] \in Entries
        <5>1. Len(S[a]) \in Nat
          BY KnotFacts
        <5>2. l # 0 => l \in 1..Len(S[a])
          BY <5>1
        <5>. QED
          BY <5>2, KnotFacts
      <4>. QED
        BY <1>9, <4>1, CellsAssumption DEF Knot
    <3>4. Knot(a, S[a], l) \in Cells
      BY <1>0, KnotFacts
    <3>. QED
      BY <1>3, <1>4, <3>1, <3>2, <3>3, <3>4
  <2>2. Ring(m.next, a, S[a])
    BY <1>1 DEF Shows
  <2>. QED
    BY <2>1, <2>2, RingSame
<1>. HIDE DEF d
<1>10. /\ T = [a \in Heads |-> T[a]]
       /\ \A a \in Heads: T[a] = IF a = h THEN d ELSE IF a = list THEN c ELSE S[a]
  BY <1>1 DEF With
<1>. HIDE DEF T
<1>11. \A a \in Heads \cap ds: Ring(m2.next, a, T[a])
  BY <1>7, <1>8, <1>9, <1>10 DEF GainsHead
<1>12. \A a \in Heads \ ds: T[a] = <<>>
  BY <1>1, <1>10 DEF Shows, GainsHead
<1>13. ContentsOf(m2, ds) = T
  BY <1>10, <1>11, <1>12, ContentsAre
<1>. QED
  BY <1>13 DEF m2, T, c, d, s, entry

(* The memory between the stores of two calls, when an operation makes two. *)
LEMMA DelSound ==
  ASSUME NEW m, NEW cs, Sound(m, cs), NEW e \in Entries \cap cs, NEW ds, ds = cs \ {e}
  PROVE  Sound(list_del_entry(m, e), ds)
<1>1. PICK o \in Owners: Linked(m, cs, o) /\ \A h \in cs \cap Heads: o[h] = h
  BY DEF Sound
<1>2. /\ list_del_entry(m, e) \in Memories
      /\ Linked(list_del_entry(m, e), cs \ {e}, o)
  BY <1>1, UnlinkKeeps DEF Sound
<1>. QED
  BY <1>1, <1>2 DEF Sound

(* list_replace leaves old out, and new in.                                *)
LEMMA ReplaceSound ==
  ASSUME NEW m, NEW cs, Sound(m, cs), NEW old \in Entries \cap cs, NEW new \in Entries, new # old,
         IsIdle(m, cs, new), NEW ds, ds = (cs \ {old}) \cup {new}
  PROVE  Sound(list_replace(m, old, new), ds)
<1>1. PICK o \in Owners: Linked(m, cs, o) /\ \A h \in cs \cap Heads: o[h] = h
  BY DEF Sound
<1>. DEFINE o1 == [o EXCEPT ![new] = o[old]]
<1>2. /\ old \in cs /\ new \in Cells /\ m \in Memories /\ cs \in SUBSET Cells
      /\ new \notin cs \/ m.next[new] = new
  BY DEF Sound, Cells, IsIdle
<1>3. /\ list_replace(m, old, new) \in Memories
      /\ Linked(list_replace(m, old, new), (cs \ {old}) \cup {new}, o1)
  BY <1>1, <1>2, ReplaceKeeps
<1>4. o1 \in Owners /\ \A h \in ds \cap Heads: o1[h] = h
  BY <1>1, <1>2, CellsAssumption DEF Owners
<1>. HIDE DEF o1
<1>5. ds \in SUBSET Cells
  BY <1>2
<1>. QED
  BY <1>3, <1>4, <1>5 DEF Sound

(* list_splice leaves the head it empties out.                             *)
LEMMA SpliceSound ==
  ASSUME NEW m, NEW cs, Sound(m, cs), NEW list \in Heads \cap cs, NEW h \in Heads \cap cs,
         list # h, ~ list_empty(m, list), NEW ds, ds = cs \ {list}
  PROVE  Sound(list_splice(m, list, h), ds) /\ Sound(list_splice_tail(m, list, h), ds)
<1>1. PICK o \in Owners: Linked(m, cs, o) /\ \A a \in cs \cap Heads: o[a] = a
  BY DEF Sound
<1>. DEFINE o1 == [d \in Cells |-> IF o[d] = o[list] THEN o[h] ELSE o[d]]
<1>2. /\ m \in Memories /\ cs \in SUBSET Cells /\ o[list] = list /\ o[h] = h /\ h \in Cells
  BY <1>1 DEF Sound
<1>3. o1 \in Owners /\ \A d \in Cells: o1[d] = IF o[d] = o[list] THEN o[h] ELSE o[d]
  BY <1>2 DEF Owners
<1>. HIDE DEF o1
<1>4. \A m1 \in {list_splice(m, list, h), list_splice_tail(m, list, h)}:
        m1 \in Memories /\ Linked(m1, cs \ {list}, o1)
  BY <1>1, <1>2, <1>3, SpliceKeeps, ZenonT(60)
<1>5. \A a \in ds \cap Heads: o1[a] = a
  BY <1>1, <1>2, <1>3
<1>6. ds \in SUBSET Cells
  BY <1>2
<1>. QED
  BY <1>3, <1>4, <1>5, <1>6 DEF Sound

(* The ends of a sequence.                                                  *)
LEMMA AtTheEnds ==
  ASSUME NEW S, NEW s \in Seq(S), NEW e \in S
  PROVE  /\ InsertAt(s, 1, e) = <<e>> \o s
         /\ InsertAt(s, Len(s) + 1, e) = Append(s, e)
         /\ s # <<>> => RemoveAt(s, 1) = Tail(s)
<1>1. InsertAt(s, 1, e) = <<e>> \o s
  <2>1. SubSeq(s, 1, 1 - 1) = <<>> /\ SubSeq(s, 1, Len(s)) = s
    OBVIOUS
  <2>2. <<>> \o <<e>> = <<e>>
    OBVIOUS
  <2>. QED
    BY <2>1, <2>2 DEF InsertAt
<1>2. InsertAt(s, Len(s) + 1, e) = Append(s, e)
  <2>1. SubSeq(s, 1, (Len(s) + 1) - 1) = s /\ SubSeq(s, Len(s) + 1, Len(s)) = <<>>
    OBVIOUS
  <2>2. (s \o <<e>>) \o <<>> = Append(s, e)
    OBVIOUS
  <2>. QED
    BY <2>1, <2>2 DEF InsertAt
<1>3. ASSUME s # <<>> PROVE RemoveAt(s, 1) = Tail(s)
  <2>1. SubSeq(s, 1, 1 - 1) = <<>> /\ SubSeq(s, 1 + 1, Len(s)) = Tail(s)
    BY <1>3
  <2>2. <<>> \o Tail(s) = Tail(s)
    BY <1>3
  <2>. QED
    BY <2>1, <2>2 DEF RemoveAt
<1>. QED
  BY <1>1, <1>2, <1>3

(* list_move takes an entry out and puts it at an end of a list.            *)
LEMMA MoveContents ==
  ASSUME NEW m, NEW cs, Sound(m, cs), NEW S, S = ContentsOf(m, cs), NEW h \in Heads \cap cs,
         NEW e \in Entries \cap cs, NEW T, T = Less(S, e)
  PROVE  /\ ContentsOf(list_move(m, e, h), cs) = With(T, h, InsertAt(T[h], 1, e))
         /\ ContentsOf(list_move_tail(m, e, h), cs) = With(T, h, InsertAt(T[h], Len(T[h]) + 1, e))
         /\ \A a \in Heads: T[a] \in Seq(Entries)
<1>1. PICK m1: m1 = list_del_entry(m, e)
  OBVIOUS
<1>2. PICK ds: ds = cs \ {e}
  OBVIOUS
<1>3. Sound(m1, ds)
  BY <1>1, <1>2, DelSound
<1>4. SameHeads(cs, ds) /\ SameHeads(ds, cs) /\ h \in Heads \cap ds
  BY <1>2, CellsAssumption DEF SameHeads
<1>5. ContentsOf(m1, ds) = T
  BY <1>1, <1>4, DelContents
<1>6. IsIdle(m1, ds, e)
  BY <1>2 DEF IsIdle
<1>7. /\ ContentsOf(list_add(m1, e, h), cs) = With(T, h, InsertAt(T[h], 1, e))
      /\ ContentsOf(list_add_tail(m1, e, h), cs) = With(T, h, InsertAt(T[h], Len(T[h]) + 1, e))
  BY <1>3, <1>4, <1>5, <1>6, AddContents
<1>8. \A a \in Heads: T[a] \in Seq(Entries)
  BY <1>3, <1>5, KnotFacts
<1>. QED
  BY <1>1, <1>7, <1>8 DEF list_move, list_move_tail

(* list_rotate_left does so with the first entry.                           *)
LEMMA RotateContents ==
  ASSUME NEW m, NEW cs, Sound(m, cs), NEW S, S = ContentsOf(m, cs), NEW h \in Heads \cap cs,
         S[h] # <<>>
  PROVE  /\ S[h][1] \in Entries
         /\ ContentsOf(list_rotate_left(m, h), cs) =
              With(Less(S, S[h][1]), h,
                   InsertAt(Less(S, S[h][1])[h], Len(Less(S, S[h][1])[h]) + 1, S[h][1]))
         /\ Less(S, S[h][1])[h] = Tail(S[h])
         /\ ContentsIn(list_rotate_left(m, h), h) = Append(Tail(S[h]), S[h][1])
<1>1. /\ S[h] \in Seq(Entries) /\ Len(S[h]) >= 1 /\ m.next[h] = S[h][1] /\ m.next[h] # h
  BY KnotFacts, EndsOf
<1>2. 1 \in 1..Len(S[h])
  BY <1>1
<1>3. PICK e \in Entries \cap cs: e = S[h][1]
  BY <1>2, KnotFacts
<1>4. PICK T: T = Less(S, e)
  OBVIOUS
<1>5. /\ ContentsOf(list_move_tail(m, e, h), cs) = With(T, h, InsertAt(T[h], Len(T[h]) + 1, e))
      /\ \A a \in Heads: T[a] \in Seq(Entries)
  BY <1>4, MoveContents
<1>6. list_rotate_left(m, h) = list_move_tail(m, e, h)
  BY <1>1, <1>3 DEF list_rotate_left, list_empty
<1>7. T[h] = Tail(S[h])
  <2>1. T = With(S, h, RemoveAt(S[h], 1))
    BY <1>2, <1>3, <1>4, LessIs
  <2>2. S = [a \in Heads |-> S[a]]
    BY DEF ContentsOf
  <2>3. RemoveAt(S[h], 1) = Tail(S[h])
    BY <1>1, <1>3, AtTheEnds
  <2>. QED
    BY <2>1, <2>2, <2>3 DEF With
<1>8. ContentsIn(list_rotate_left(m, h), h) = Append(Tail(S[h]), e)
  <2>1. h \in DOMAIN T
    BY <1>4 DEF Less
  <2>2. ContentsOf(list_rotate_left(m, h), cs)[h] = InsertAt(T[h], Len(T[h]) + 1, e)
    BY <1>5, <1>6, <2>1 DEF With
  <2>3. InsertAt(T[h], Len(T[h]) + 1, e) = Append(T[h], e)
    BY <1>5, AtTheEnds
  <2>. QED
    BY <1>7, <2>2, <2>3 DEF ContentsOf
<1>. QED
  BY <1>3, <1>4, <1>5, <1>6, <1>7, <1>8

(* A range that begins on a list ends on it, not before it begins.          *)
RangeFrom(S, h, i, range, end) ==
    /\ S = ContentsOf(mem, live) /\ h \in Heads \cap live /\ i \in 1..Len(S[h])
    /\ IsRange(range, S[h][i], end)

(* Its end is an entry of the same list, from there on.                    *)
LEMMA RangeOnList ==
  ASSUME Sound(mem, live),
         NEW S, NEW h, NEW i, NEW range, NEW end, RangeFrom(S, h, i, range, end)
  PROVE  \E j \in i..Len(S[h]): end = S[h][j]
<1>a. PICK begin: begin = S[h][i]
  OBVIOUS
<1>0. /\ S = ContentsOf(mem, live) /\ h \in Heads \cap live /\ i \in 1..Len(S[h])
      /\ IsRange(range, begin, end)
  BY <1>a DEF RangeFrom
<1>. DEFINE s == S[h]
            part == {c \in range: \E l \in i..Len(s): c = s[l]}
<1>1. /\ range \subseteq live \cap Entries /\ begin \in range /\ end \in range
      /\ \A c \in range: c = end \/ mem.next[c] \in range
  BY <1>0 DEF IsRange
<1>2. Len(s) \in Nat /\ i \in i..Len(s)
  BY <1>0, KnotFacts
<1>3. part \in SUBSET range /\ begin \in part
  BY <1>a, <1>1, <1>2
<1>4. ASSUME NEW c \in part PROVE c = end \/ mem.next[c] \in part
  <2>1. PICK l \in i..Len(s): c = s[l]
    BY <1>4
  <2>2. l \in 0..Len(s) /\ Knot(h, s, l) = s[l]
    BY <1>0, <1>2 DEF Knot
  <2>3. mem.next[c] = IF l < Len(s) THEN s[l + 1] ELSE h
    BY <1>0, <2>1, <2>2, KnotFacts
  <2>4. CASE c # end
    <3>1. mem.next[c] \in range /\ mem.next[c] # h
      BY <1>0, <1>1, <2>4, CellsAssumption
    <3>2. l + 1 \in i..Len(s) /\ mem.next[c] = s[l + 1]
      BY <1>0, <1>2, <2>3, <3>1
    <3>. QED
      BY <3>1, <3>2
  <2>. QED
    BY <2>4
<1>. HIDE DEF part
<1>5. part = range
  BY <1>0, <1>3, <1>4 DEF IsRange
<1>. QED
  BY <1>1, <1>5 DEF part

(* list_del_range between two entries that are on no list changes none.     *)
LEMMA RangeOffList ==
  ASSUME NEW m, NEW cs, Sound(m, cs), NEW S, S = ContentsOf(m, cs),
         NEW begin \in Entries \cap cs, NEW end \in cs,
         \A h \in Heads: \A i \in 1..Len(S[h]): S[h][i] # begin, NEW ds, SameHeads(cs, ds)
  PROVE  ContentsOf(list_del_range(m, begin, end), ds) = S
<1>. DEFINE before == m.prev[begin]
            after == m.next[end]
            m2 == list_del_range(m, begin, end)
<1>1. /\ m \in Memories /\ before \in cs /\ after \in cs /\ m.next[before] = begin
      /\ cs \in SUBSET Cells
  BY DEF Sound, Linked
<1>2. before \in Cells /\ after \in Cells /\ end \in Cells
  BY <1>1
<1>. HIDE DEF before, after
<1>3. PICK m1 \in Memories: m1 = SetNext(m, before, after) /\ NextStored(m, before, after, m1)
  BY <1>1, <1>2, SetNextStores
<1>4. m1.prev[begin] = before /\ m1.next[end] \in Cells
  <2>1. m1.prev = m.prev /\ m1.next[end] = IF end = before THEN after ELSE m.next[end]
    BY <1>2, <1>3 DEF NextStored
  <2>. QED
    BY <1>2, <2>1 DEF before, after
<1>5. PICK m3 \in Memories: m3 = SetPrev(m1, m1.next[end], before)
                            /\ PrevStored(m1, m1.next[end], before, m3)
  BY <1>2, <1>4, SetPrevStores
<1>6. m3 = m2
  BY <1>3, <1>4, <1>5 DEF list_del_range, before, after
<1>7. \A d \in Cells: d # before => m2.next[d] = m.next[d]
  BY <1>3, <1>5, <1>6 DEF NextStored, PrevStored
<1>. HIDE DEF m2
<1>8. Shows(m, cs, S) /\ S = [h \in Heads |-> S[h]]
  BY ContentsShow DEF ContentsOf
<1>9. ASSUME NEW h \in Heads \cap cs PROVE Ring(m2.next, h, S[h])
  <2>1. ASSUME NEW l \in 0..Len(S[h])
        PROVE  m2.next[Knot(h, S[h], l)] = m.next[Knot(h, S[h], l)]
    <3>1. m.next[Knot(h, S[h], l)] = IF l < Len(S[h]) THEN S[h][l + 1] ELSE h
      BY KnotFacts
    <3>2. l < Len(S[h]) => S[h][l + 1] # begin
      <4>1. Len(S[h]) \in Nat
        BY KnotFacts
      <4>2. l < Len(S[h]) => l + 1 \in 1..Len(S[h])
        BY <4>1
      <4>. QED
        BY <4>2
    <3>3. m.next[Knot(h, S[h], l)] # begin
      BY <3>1, <3>2, CellsAssumption
    <3>4. Knot(h, S[h], l) \in Cells
      BY <1>1, KnotFacts
    <3>. QED
      BY <1>1, <1>7, <3>3, <3>4
  <2>2. Ring(m.next, h, S[h])
    BY <1>8 DEF Shows
  <2>. QED
    BY <2>1, <2>2, RingSame
<1>10. /\ \A h \in Heads \cap ds: Ring(m2.next, h, S[h])
       /\ \A h \in Heads \ ds: S[h] = <<>>
  BY <1>8, <1>9 DEF Shows, SameHeads
<1>11. ContentsOf(m2, ds) = S
  BY <1>8, <1>10, ContentsAre
<1>. QED
  BY <1>11 DEF m2

-----------------------------------------------------------------------------
(* The lists as ListRules sees them, and what a step does to them.          *)
Lists == [h \in Heads |-> Contents(h)]

(* Both are read off the pointers.                                         *)
LEMMA ListsAre ==
  /\ Lists = ContentsOf(mem, live) /\ Lists' = ContentsOf(mem', live')
  /\ ListInv => Sound(mem, live)
  /\ \A e: Less(Lists, e) = Rules!Without(e)
  /\ \A c: Idle(c) <=> IsIdle(mem, live, c)
<1>1. Lists = ContentsOf(mem, live) /\ Lists' = ContentsOf(mem', live')
  BY DEF Lists, Contents, ContentsOf
<1>2. ListInv => Sound(mem, live)
  BY DEF ListInv, ListTypeOK, Sound
<1>3. \A e: Less(Lists, e) = Rules!Without(e)
  BY DEF Less, Rules!Without, Rules!Place, Lists, Range, Rules!Range, RemoveAt, Rules!RemoveAt
<1>4. \A c: Idle(c) <=> IsIdle(mem, live, c)
  BY DEF Idle, IsIdle
<1>. QED
  BY <1>1, <1>2, <1>3, <1>4

(* The steps ListRules allows, by what becomes of all lists.                *)
LEMMA RulesAllow ==
  ASSUME NEW S, S = Lists, NEW T, T = Lists'
  PROVE  /\ \A e \in Entries, h \in Heads: \A k \in 1..Len(Less(S, e)[h]) + 1:
              T = With(Less(S, e), h, InsertAt(Less(S, e)[h], k, e)) => Rules!Next
         /\ \A e \in Entries: T = Less(S, e) => Rules!Next
         /\ \A old, new \in Entries:
              /\ \A h \in Heads: new \notin Range(S[h])
              /\ T = [h \in Heads |-> Exchanged(S[h], old, new)]
              => Rules!Next
         /\ \A from, to \in Heads:
              from # to /\ \/ T = With(With(S, to, S[from] \o S[to]), from, <<>>)
                           \/ T = With(With(S, to, S[to] \o S[from]), from, <<>>)
              => Rules!Next
         /\ \A from, to \in Heads: \A k \in 0..Len(S[from]):
              /\ from # to /\ S[to] = <<>>
              /\ T = With(With(S, to, SubSeq(S[from], 1, k)), from,
                          SubSeq(S[from], k + 1, Len(S[from])))
              => Rules!Next
         /\ \A h \in Heads: \A i, j \in DOMAIN S[h]:
              /\ i <= j
              /\ T = With(S, h, SubSeq(S[h], 1, i - 1) \o SubSeq(S[h], j + 1, Len(S[h])))
              => Rules!Next
<1>0. S = [h \in Heads |-> S[h]] /\ \A e: Less(S, e) = Rules!Without(e)
  BY ListsAre DEF Lists
<1>1. ASSUME NEW e \in Entries, NEW h \in Heads, NEW k \in 1..Len(Less(S, e)[h]) + 1,
             T = With(Less(S, e), h, InsertAt(Less(S, e)[h], k, e))
      PROVE  Rules!Next
  <2>1. k \in 1..Len(Rules!Without(e)[h]) + 1
    BY <1>0
  <2>2. T = [Rules!Without(e) EXCEPT ![h] = Rules!InsertAt(Rules!Without(e)[h], k, e)]
    <3>1. InsertAt(Less(S, e)[h], k, e) = Rules!InsertAt(Less(S, e)[h], k, e)
      BY DEF InsertAt, Rules!InsertAt
    <3>. QED
      BY <1>0, <1>1, <3>1 DEF With
  <2>3. Rules!Put(e, h, k)
    BY <2>2 DEF Rules!Put, Lists
  <2>. QED
    BY <2>1, <2>3 DEF Rules!Next
<1>2. ASSUME NEW e \in Entries, T = Less(S, e) PROVE Rules!Next
  <2>1. Rules!TakeOut(e)
    BY <1>0, <1>2 DEF Rules!TakeOut, Lists
  <2>. QED
    BY <2>1 DEF Rules!Next
<1>3. ASSUME NEW old \in Entries, NEW new \in Entries, \A h \in Heads: new \notin Range(S[h]),
             T = [h \in Heads |-> Exchanged(S[h], old, new)]
      PROVE  Rules!Next
  <2>1. ~ Rules!OnSomeList(new)
    BY <1>3 DEF Rules!OnSomeList, Lists, Range, Rules!Range
  <2>2. Rules!Swap(old, new)
    BY <1>3, <2>1 DEF Rules!Swap, Lists, Exchanged
  <2>. QED
    BY <2>2 DEF Rules!Next
<1>4. ASSUME NEW from \in Heads, NEW to \in Heads, from # to,
             \/ T = With(With(S, to, S[from] \o S[to]), from, <<>>)
             \/ T = With(With(S, to, S[to] \o S[from]), from, <<>>)
      PROVE  Rules!Next
  <2>1. Rules!JoinFirst(from, to) \/ Rules!JoinLast(from, to)
    BY <1>4 DEF Rules!JoinFirst, Rules!JoinLast, Lists, With
  <2>. QED
    BY <1>4, <2>1 DEF Rules!Next
<1>5. ASSUME NEW from \in Heads, NEW to \in Heads, NEW k \in 0..Len(S[from]),
             from # to, S[to] = <<>>,
             T = With(With(S, to, SubSeq(S[from], 1, k)), from,
                      SubSeq(S[from], k + 1, Len(S[from])))
      PROVE  Rules!Next
  <2>1. [S EXCEPT ![to] = SubSeq(S[from], 1, k)][from] = S[from]
    BY <1>0, <1>5
  <2>2. Rules!CutAfter(k, from, to)
    BY <1>5, <2>1 DEF Rules!CutAfter, Lists, With
  <2>3. k \in 0..Len([h \in Heads |-> Contents(h)][from])
    BY DEF Lists
  <2>. QED
    BY <1>5, <2>2, <2>3 DEF Rules!Next
<1>6. ASSUME NEW h \in Heads, NEW i \in DOMAIN S[h], NEW j \in DOMAIN S[h], i <= j,
             T = With(S, h, SubSeq(S[h], 1, i - 1) \o SubSeq(S[h], j + 1, Len(S[h])))
      PROVE  Rules!Next
  <2>1. Rules!TakeOutRange(h, i, j)
    BY <1>6 DEF Rules!TakeOutRange, Lists, With
  <2>2. /\ i \in DOMAIN [a \in Heads |-> Contents(a)][h]
        /\ j \in DOMAIN [a \in Heads |-> Contents(a)][h]
    BY DEF Lists
  <2>. QED
    BY <1>6, <2>1, <2>2 DEF Rules!Next
<1>. QED
  BY <1>1, <1>2, <1>3, <1>4, <1>5, <1>6

(* INIT_LIST_HEAD of a cell that is on no list changes none.                *)
LEMMA InitContents ==
  ASSUME NEW m, NEW cs, Sound(m, cs), NEW c \in Cells, IsIdle(m, cs, c),
         NEW ds, ds = cs \cup {c}
  PROVE  ContentsOf(INIT_LIST_HEAD(m, c), ds) = ContentsOf(m, cs)
<1>1. PICK m2: m2 = INIT_LIST_HEAD(m, c)
  OBVIOUS
<1>2. \A d \in Cells: m2.next[d] = IF d = c THEN c ELSE m.next[d]
  BY <1>1, InitStores DEF Sound
<1>3. cs \in SUBSET Cells
  BY DEF Sound
<1>4. Heads \cap cs \subseteq ds
  OBVIOUS
<1>5. \A d \in cs: m2.next[d] = m.next[d]
  BY <1>2, <1>3 DEF IsIdle
<1>6. \A h \in (Heads \cap ds) \ cs: m2.next[h] = h
  BY <1>2
<1>7. ContentsOf(m2, ds) = ContentsOf(m, cs)
  BY <1>4, <1>5, <1>6, Elsewhere
<1>. QED
  BY <1>1, <1>7

(* list_del and list_del_init take the entry out of its list.               *)
LEMMA DeletedContents ==
  ASSUME NEW m, NEW cs, Sound(m, cs), NEW S, S = ContentsOf(m, cs), NEW e \in Entries \cap cs,
         NEW ds, ds = cs \ {e}
  PROVE  /\ ContentsOf(list_del(m, e), ds) = Less(S, e)
         /\ ContentsOf(list_del_init(m, e), cs) = Less(S, e)
<1>1. PICK m1: m1 = list_del_entry(m, e)
  OBVIOUS
<1>2. Sound(m1, ds) /\ ContentsOf(m1, ds) = Less(S, e)
  <2>1. SameHeads(cs, ds)
    BY CellsAssumption DEF SameHeads
  <2>. QED
    BY <1>1, <2>1, DelSound, DelContents
<1>3. e \in Cells /\ m1 \in Memories /\ ds \in SUBSET Cells /\ e \notin ds
  BY <1>2 DEF Sound, Cells
<1>4. ContentsOf(list_del(m, e), ds) = ContentsOf(m1, ds)
  <2>1. PICK m2 \in Memories: /\ m2 = SetNext(m1, e, LIST_POISON1)
                              /\ NextStored(m1, e, LIST_POISON1, m2)
    BY <1>3, SetNextStores
  <2>2. PICK m3 \in Memories: /\ m3 = SetPrev(m2, e, LIST_POISON2)
                              /\ PrevStored(m2, e, LIST_POISON2, m3)
    BY <1>3, SetPrevStores
  <2>3. m3 = list_del(m, e)
    BY <1>1, <2>1, <2>2 DEF list_del
  <2>4. \A d \in ds: m3.next[d] = m1.next[d]
    BY <1>3, <2>1, <2>2 DEF NextStored, PrevStored
  <2>5. /\ Heads \cap ds \subseteq ds /\ \A h \in (Heads \cap ds) \ ds: m3.next[h] = h
    OBVIOUS
  <2>6. ContentsOf(m3, ds) = ContentsOf(m1, ds)
    BY <1>2, <2>4, <2>5, Elsewhere
  <2>. QED
    BY <2>3, <2>6
<1>5. ContentsOf(list_del_init(m, e), cs) = ContentsOf(m1, ds)
  <2>1. IsIdle(m1, ds, e) /\ cs = ds \cup {e}
    BY <1>3 DEF IsIdle
  <2>2. ContentsOf(INIT_LIST_HEAD(m1, e), cs) = ContentsOf(m1, ds)
    BY <1>2, <1>3, <2>1, InitContents
  <2>. QED
    BY <1>1, <2>2 DEF list_del_init
<1>. QED
  BY <1>2, <1>4, <1>5

(* list_replace and list_replace_init put new where old was.                *)
LEMMA ReplacedContents ==
  ASSUME NEW m, NEW cs, Sound(m, cs), NEW S, S = ContentsOf(m, cs), NEW old \in Entries \cap cs,
         NEW new \in Entries, new # old, IsIdle(m, cs, new),
         NEW ds, ds = (cs \ {old}) \cup {new}, NEW es, es = cs \cup {new}
  PROVE  /\ ContentsOf(list_replace(m, old, new), ds) = [h \in Heads |-> Exchanged(S[h], old, new)]
         /\ ContentsOf(list_replace_init(m, old, new), es) =
              [h \in Heads |-> Exchanged(S[h], old, new)]
<1>1. PICK m1: m1 = list_replace(m, old, new)
  OBVIOUS
<1>2. Sound(m1, ds) /\ ContentsOf(m1, ds) = [h \in Heads |-> Exchanged(S[h], old, new)]
  <2>1. SameHeads(cs, ds)
    BY CellsAssumption DEF SameHeads
  <2>. QED
    BY <1>1, <2>1, ReplaceSound, ReplaceContents
<1>3. old \in Cells /\ IsIdle(m1, ds, old) /\ es = ds \cup {old}
  BY DEF Cells, IsIdle
<1>4. ContentsOf(INIT_LIST_HEAD(m1, old), es) = ContentsOf(m1, ds)
  BY <1>2, <1>3, InitContents
<1>. QED
  BY <1>1, <1>2, <1>4 DEF list_replace_init

(* list_splice_init and list_splice_tail_init leave list an empty list.     *)
LEMMA SplicedContents ==
  ASSUME NEW m, NEW cs, Sound(m, cs), NEW S, S = ContentsOf(m, cs), NEW list \in Heads \cap cs,
         NEW h \in Heads \cap cs, list # h, S[list] # <<>>
  PROVE  /\ ContentsOf(list_splice_init(m, list, h), cs) =
              With(With(S, h, S[list] \o S[h]), list, <<>>)
         /\ ContentsOf(list_splice_tail_init(m, list, h), cs) =
              With(With(S, h, S[h] \o S[list]), list, <<>>)
<1>1. PICK m1, m2, ds: /\ m1 = list_splice(m, list, h) /\ m2 = list_splice_tail(m, list, h)
                       /\ ds = cs \ {list}
  OBVIOUS
<1>2. ~ list_empty(m, list)
  BY EndsOf DEF list_empty
<1>3. Sound(m1, ds) /\ Sound(m2, ds)
  BY <1>1, <1>2, SpliceSound
<1>4. LosesHead(cs, ds, list)
  BY <1>1 DEF LosesHead
<1>5. /\ ContentsOf(m1, ds) = With(With(S, h, S[list] \o S[h]), list, <<>>)
      /\ ContentsOf(m2, ds) = With(With(S, h, S[h] \o S[list]), list, <<>>)
  BY <1>1, <1>4, SpliceContents
<1>6. list \in Cells /\ IsIdle(m1, ds, list) /\ IsIdle(m2, ds, list) /\ cs = ds \cup {list}
  BY <1>1 DEF Cells, IsIdle
<1>7. /\ ContentsOf(INIT_LIST_HEAD(m1, list), cs) = ContentsOf(m1, ds)
      /\ ContentsOf(INIT_LIST_HEAD(m2, list), cs) = ContentsOf(m2, ds)
  BY <1>3, <1>6, InitContents
<1>. QED
  BY <1>1, <1>2, <1>5, <1>7 DEF list_splice_init, list_splice_tail_init

(* Two of the rules in the form the steps need them in: putting.            *)
LEMMA PutAllowed ==
  ASSUME NEW S, S = Lists, NEW T, T = Lists', NEW e \in Entries, NEW h \in Heads,
         NEW U, U = Less(S, e), NEW k \in 1..Len(U[h]) + 1, T = With(U, h, InsertAt(U[h], k, e))
  PROVE  Rules!Next
BY RulesAllow

(* And the cut.                                                            *)
LEMMA CutAllowed ==
  ASSUME NEW S, S = Lists, NEW T, T = Lists', NEW from \in Heads, NEW to \in Heads,
         from # to, S[to] = <<>>, NEW k \in 0..Len(S[from]),
         T = With(With(S, to, SubSeq(S[from], 1, k)), from, SubSeq(S[from], k + 1, Len(S[from])))
  PROVE  Rules!Next
BY RulesAllow

(* The steps of the program as steps of the sequences, one lemma for each   *)
(* operation.                                                               *)
LEMMA InitShown ==
  ASSUME ListInv, NEW c \in Cells, Init_(c)
  PROVE  Lists' = Lists
<1>1. Sound(mem, live) /\ IsIdle(mem, live, c) /\ live' = live \cup {c}
  BY ListsAre DEF Init_, IsIdle
<1>2. ContentsOf(INIT_LIST_HEAD(mem, c), live') = ContentsOf(mem, live)
  BY <1>1, InitContents
<1>. QED
  BY <1>2, ListsAre DEF Init_

(* list_add and list_add_tail put an entry on a list.                      *)
LEMMA AddShown ==
  ASSUME ListInv, NEW new \in Entries, NEW base \in Heads, Add(new, base)
  PROVE  Rules!Next
<1>1. PICK S, T: S = Lists /\ T = Lists'
  OBVIOUS
<1>2. /\ Sound(mem, live) /\ S = ContentsOf(mem, live) /\ T = ContentsOf(mem', live')
      /\ base \in Heads \cap live /\ new \in Cells /\ IsIdle(mem, live, new)
  BY <1>1, ListsAre DEF Add, Cells
<1>3. SameHeads(live, live')
  BY CellsAssumption DEF SameHeads, Add
<1>4. Less(S, new) = S /\ Len(S[base]) \in Nat
  BY <1>2, IdleIsOff, LessIs, KnotFacts
<1>5. \/ T = With(S, base, InsertAt(S[base], 1, new))
      \/ T = With(S, base, InsertAt(S[base], Len(S[base]) + 1, new))
  <2>1. /\ ContentsOf(list_add(mem, new, base), live') =
             With(S, base, InsertAt(S[base], 1, new))
        /\ ContentsOf(list_add_tail(mem, new, base), live') =
             With(S, base, InsertAt(S[base], Len(S[base]) + 1, new))
    BY <1>2, <1>3, AddContents
  <2>. QED
    BY <1>2, <2>1 DEF Add
<1>6. 1 \in 1..Len(S[base]) + 1 /\ Len(S[base]) + 1 \in 1..Len(S[base]) + 1
  BY <1>4
<1>7. PICK k \in 1..Len(S[base]) + 1: T = With(S, base, InsertAt(S[base], k, new))
  BY <1>5, <1>6
<1>. QED
  BY <1>1, <1>4, <1>7, PutAllowed

(* list_del and list_del_init take one out.                                *)
LEMMA DelShown ==
  ASSUME ListInv, NEW entry \in Entries, Del(entry) \/ DelInit(entry)
  PROVE  Rules!Next
<1>1. PICK S, T: S = Lists /\ T = Lists'
  OBVIOUS
<1>2. /\ Sound(mem, live) /\ S = ContentsOf(mem, live) /\ T = ContentsOf(mem', live')
      /\ entry \in Entries \cap live
  BY <1>1, ListsAre DEF Del, DelInit
<1>3. PICK ds: ds = live \ {entry}
  OBVIOUS
<1>4. /\ ContentsOf(list_del(mem, entry), ds) = Less(S, entry)
      /\ ContentsOf(list_del_init(mem, entry), live) = Less(S, entry)
  BY <1>2, <1>3, DeletedContents
<1>5. T = Less(S, entry)
  BY <1>2, <1>3, <1>4 DEF Del, DelInit
<1>. QED
  BY <1>1, <1>5, RulesAllow

(* list_replace swaps one for another.                                     *)
LEMMA ReplaceShown ==
  ASSUME ListInv, NEW old \in Entries, NEW new \in Entries, Replace(old, new)
  PROVE  Rules!Next
<1>1. PICK S, T: S = Lists /\ T = Lists'
  OBVIOUS
<1>2. /\ Sound(mem, live) /\ S = ContentsOf(mem, live) /\ T = ContentsOf(mem', live')
      /\ old \in Entries \cap live /\ new # old /\ new \in Cells /\ IsIdle(mem, live, new)
  BY <1>1, ListsAre DEF Replace, Cells
<1>3. PICK ds, es: ds = (live \ {old}) \cup {new} /\ es = live \cup {new}
  OBVIOUS
<1>4. /\ ContentsOf(list_replace(mem, old, new), ds) = [h \in Heads |-> Exchanged(S[h], old, new)]
      /\ ContentsOf(list_replace_init(mem, old, new), es) =
           [h \in Heads |-> Exchanged(S[h], old, new)]
  BY <1>2, <1>3, ReplacedContents
<1>5. T = [h \in Heads |-> Exchanged(S[h], old, new)]
  BY <1>2, <1>3, <1>4 DEF Replace
<1>6. \A h \in Heads: new \notin Range(S[h])
  <2>. TAKE h \in Heads
  <2>1. S[h] \in Seq(Entries) /\ \A i \in 1..Len(S[h]): S[h][i] # new
    BY <1>2, IdleIsOff, KnotFacts
  <2>. QED
    BY <2>1 DEF Range
<1>. QED
  BY <1>1, <1>5, <1>6, RulesAllow

(* list_move and list_move_tail put one elsewhere.                         *)
LEMMA MoveShown ==
  ASSUME ListInv, NEW entry \in Entries, NEW base \in Heads, Move(entry, base)
  PROVE  Rules!Next
<1>1. PICK S, T, U: S = Lists /\ T = Lists' /\ U = Less(S, entry)
  OBVIOUS
<1>2. /\ Sound(mem, live) /\ S = ContentsOf(mem, live) /\ T = ContentsOf(mem', live)
      /\ base \in Heads \cap live /\ entry \in Entries \cap live
  BY <1>1, ListsAre DEF Move
<1>3. /\ ContentsOf(list_move(mem, entry, base), live) = With(U, base, InsertAt(U[base], 1, entry))
      /\ ContentsOf(list_move_tail(mem, entry, base), live) =
           With(U, base, InsertAt(U[base], Len(U[base]) + 1, entry))
      /\ U[base] \in Seq(Entries)
  BY <1>1, <1>2, MoveContents
<1>4. 1 \in 1..Len(U[base]) + 1 /\ Len(U[base]) + 1 \in 1..Len(U[base]) + 1
  BY <1>3
<1>5. PICK k \in 1..Len(U[base]) + 1: T = With(U, base, InsertAt(U[base], k, entry))
  BY <1>2, <1>3, <1>4 DEF Move
<1>. QED
  BY <1>1, <1>5, PutAllowed

(* list_rotate_left puts the first one last.                               *)
LEMMA RotateShown ==
  ASSUME ListInv, NEW base \in Heads, Rotate(base)
  PROVE  Rules!Next \/ Lists' = Lists
<1>1. PICK S, T: S = Lists /\ T = Lists'
  OBVIOUS
<1>2. /\ Sound(mem, live) /\ S = ContentsOf(mem, live) /\ T = ContentsOf(mem', live)
      /\ base \in Heads \cap live
  BY <1>1, ListsAre DEF Rotate
<1>3. CASE S[base] = <<>>
  <2>1. mem' = mem
    BY <1>2, <1>3, EndsOf DEF Rotate, list_rotate_left, list_empty
  <2>. QED
    BY <1>1, <1>2, <2>1
<1>4. CASE S[base] # <<>>
  <2>1. PICK e \in Entries: e = S[base][1]
    BY <1>2, <1>4, RotateContents
  <2>2. PICK U: U = Less(S, e)
    OBVIOUS
  <2>3. /\ T = With(U, base, InsertAt(U[base], Len(U[base]) + 1, e))
        /\ U[base] = Tail(S[base])
    BY <1>2, <1>4, <2>1, <2>2, RotateContents DEF Rotate
  <2>4. Len(U[base]) + 1 \in 1..Len(U[base]) + 1
    <3>1. S[base] \in Seq(Entries)
      BY <1>2, KnotFacts
    <3>. QED
      BY <1>4, <2>3, <3>1
  <2>. QED
    BY <1>1, <2>2, <2>3, <2>4, PutAllowed
<1>. QED
  BY <1>3, <1>4

(* list_splice and its variants join two lists.                            *)
LEMMA SpliceShown ==
  ASSUME ListInv, NEW list \in Heads, NEW base \in Heads, Splice(list, base)
  PROVE  Rules!Next \/ Lists' = Lists
<1>1. PICK S, T: S = Lists /\ T = Lists'
  OBVIOUS
<1>2. /\ Sound(mem, live) /\ S = ContentsOf(mem, live) /\ T = ContentsOf(mem', live')
      /\ base \in Heads \cap live /\ list \in Heads \cap live /\ list # base
  BY <1>1, ListsAre DEF Splice
<1>3. CASE S[list] = <<>>
  <2>1. list_empty(mem, list)
    BY <1>2, <1>3, EndsOf DEF list_empty
  <2>2. mem' = mem /\ live' = live
    BY <2>1 DEF Splice, list_splice, list_splice_tail, list_splice_init, list_splice_tail_init
  <2>. QED
    BY <1>1, <1>2, <2>2
<1>4. CASE S[list] # <<>>
  <2>1. ~ list_empty(mem, list)
    BY <1>2, <1>4, EndsOf DEF list_empty
  <2>a. PICK ds: ds = live \ {list}
    OBVIOUS
  <2>2. ds = live \ {list} /\ LosesHead(live, ds, list)
    BY <2>a DEF LosesHead
  <2>3. /\ ContentsOf(list_splice(mem, list, base), ds) =
             With(With(S, base, S[list] \o S[base]), list, <<>>)
        /\ ContentsOf(list_splice_tail(mem, list, base), ds) =
             With(With(S, base, S[base] \o S[list]), list, <<>>)
    BY <1>2, <1>4, <2>2, SpliceContents
  <2>4. /\ ContentsOf(list_splice_init(mem, list, base), live) =
             With(With(S, base, S[list] \o S[base]), list, <<>>)
        /\ ContentsOf(list_splice_tail_init(mem, list, base), live) =
             With(With(S, base, S[base] \o S[list]), list, <<>>)
    BY <1>2, <1>4, SplicedContents
  <2>5. \/ T = With(With(S, base, S[list] \o S[base]), list, <<>>)
        \/ T = With(With(S, base, S[base] \o S[list]), list, <<>>)
    BY <1>2, <2>1, <2>2, <2>3, <2>4 DEF Splice
  <2>. QED
    BY <1>1, <1>2, <2>5, RulesAllow
<1>. QED
  BY <1>3, <1>4

(* A list that is forgotten is empty from then on, and no other changes.   *)
LEMMA ForgetShown ==
  ASSUME ListInv, NEW list \in Heads, Forget(list)
  PROVE  Rules!Next \/ Lists' = Lists
<1>1. PICK S, T: S = Lists /\ T = Lists'
  OBVIOUS
<1>2. /\ Sound(mem, live) /\ S = ContentsOf(mem, live) /\ T = ContentsOf(mem', live')
      /\ mem' = mem /\ live' \cap Heads = (live \cap Heads) \ {list} /\ list \in live
  BY <1>1, ListsAre DEF Forget
<1>3. T = With(S, list, <<>>)
  BY <1>2 DEF ContentsOf, With
<1>4. S[list] \in Seq(Entries)
  BY <1>2, KnotFacts
<1>5. CASE S[list] = <<>>
  BY <1>1, <1>2, <1>3, <1>5 DEF ContentsOf, With
<1>6. CASE S[list] # <<>>
  <2>1. PICK n: n = Len(S[list])
    OBVIOUS
  <2>2. n \in Nat /\ 1 \in DOMAIN S[list] /\ n \in DOMAIN S[list] /\ 1 <= n
    BY <1>4, <1>6, <2>1
  <2>3. SubSeq(S[list], 1, 1 - 1) \o SubSeq(S[list], n + 1, Len(S[list])) = <<>>
    BY <1>4, <2>1, <2>2
  <2>4. T = With(S, list, SubSeq(S[list], 1, 1 - 1) \o SubSeq(S[list], n + 1, Len(S[list])))
    BY <1>3, <2>3
  <2>. QED
    BY <1>1, <2>2, <2>4, RulesAllow
<1>. QED
  BY <1>5, <1>6

(* list_cut_position cuts a list in two.                                   *)
LEMMA CutShown ==
  ASSUME ListInv, NEW list \in Heads, NEW base \in Heads, NEW entry \in Cells,
         Cut(list, base, entry)
  PROVE  Rules!Next \/ Lists' = Lists
<1>1. PICK S, T: S = Lists /\ T = Lists'
  OBVIOUS
<1>2. /\ Sound(mem, live) /\ S = ContentsOf(mem, live) /\ T = ContentsOf(mem', live')
      /\ base \in Heads \cap live /\ list # base /\ list \in Cells /\ IsIdle(mem, live, list)
      /\ S[list] = <<>>
  <2>1. /\ Sound(mem, live) /\ S = ContentsOf(mem, live) /\ T = ContentsOf(mem', live')
        /\ base \in Heads \cap live /\ list # base /\ list \in Cells /\ IsIdle(mem, live, list)
    BY <1>1, ListsAre DEF Cut, Cells
  <2>. QED
    BY <2>1, IdleIsOff
<1>3. CASE S[base] = <<>>
  <2>1. list_empty(mem, base)
    BY <1>2, <1>3, EndsOf DEF list_empty
  <2>2. mem' = mem /\ live' = live
    BY <2>1 DEF Cut, list_cut_position
  <2>. QED
    BY <1>1, <1>2, <2>2
<1>4. CASE S[base] # <<>> /\ entry = base
  <2>1. ~ list_empty(mem, base)
    BY <1>2, <1>4, EndsOf DEF list_empty
  <2>2. mem' = INIT_LIST_HEAD(mem, list) /\ live' = live \cup {list}
    BY <1>4, <2>1 DEF Cut, list_cut_position
  <2>3. ContentsOf(INIT_LIST_HEAD(mem, list), live') = ContentsOf(mem, live)
    BY <1>2, <2>2, InitContents
  <2>. QED
    BY <1>1, <1>2, <2>2, <2>3
<1>5. CASE S[base] # <<>> /\ entry # base
  <2>1. ~ list_empty(mem, base) /\ mem.next[base] = S[base][1] /\ Len(S[base]) \in Nat
        /\ Len(S[base]) >= 1
    BY <1>2, <1>5, EndsOf, KnotFacts DEF list_empty
  <2>2. PICK range: IsRange(range, mem.next[base], entry)
    BY <1>5 DEF Cut
  <2>3. PICK k \in 1..Len(S[base]): entry = S[base][k]
    <3>1. PICK i \in 1..Len(S[base]): i = 1
      BY <2>1
    <3>a. RangeFrom(S, base, i, range, entry)
      BY <1>2, <2>1, <2>2, <3>1 DEF RangeFrom
    <3>2. \E j \in i..Len(S[base]): entry = S[base][j]
      BY <1>2, <3>a, RangeOnList
    <3>. QED
      BY <3>1, <3>2
  <2>4. mem' = list_cut_at(mem, list, base, entry) /\ live' = live \cup {list}
    <3>1. ~ (list_is_singular(mem, base) /\ entry \notin {mem.next[base], base})
      <4>. SUFFICES ASSUME list_is_singular(mem, base), entry # mem.next[base] PROVE FALSE
        OBVIOUS
      <4>a. mem.prev[base] = S[base][Len(S[base])]
        BY <1>2, <1>5, EndsOf
      <4>b. 1 \in 1..Len(S[base]) /\ Len(S[base]) \in 1..Len(S[base])
        BY <2>1
      <4>1. S[base][1] = S[base][Len(S[base])]
        BY <2>1, <4>a DEF list_is_singular
      <4>c. \A i, j \in 1..Len(S[base]): S[base][i] = S[base][j] => i = j
        BY <1>2, KnotFacts
      <4>2. Len(S[base]) = 1
        BY <4>b, <4>1, <4>c
      <4>3. k = 1
        BY <4>2
      <4>. QED
        BY <2>1, <2>3, <4>3
    <3>. QED
      BY <1>5, <2>1, <3>1 DEF Cut, list_cut_position
  <2>5. GainsHead(live, live', list)
    BY <2>4 DEF GainsHead
  <2>6. T = With(With(S, list, SubSeq(S[base], 1, k)), base,
                 SubSeq(S[base], k + 1, Len(S[base])))
    BY <1>2, <2>3, <2>4, <2>5, CutContents
  <2>7. k \in 0..Len(S[base])
    BY <2>1
  <2>. QED
    BY <1>1, <1>2, <2>6, <2>7, CutAllowed
<1>. QED
  BY <1>3, <1>4, <1>5

(* list_del_range takes out a part of one.                                 *)
LEMMA DelRangeShown ==
  ASSUME ListInv, NEW begin \in Entries, NEW end \in Entries, DelRange(begin, end)
  PROVE  Rules!Next \/ Lists' = Lists
<1>1. PICK S, T: S = Lists /\ T = Lists'
  OBVIOUS
<1>2. PICK range: /\ IsRange(range, begin, end) /\ live' = live \ range
                  /\ mem' = list_del_range(mem, begin, end)
  BY DEF DelRange
<1>3. /\ Sound(mem, live) /\ S = ContentsOf(mem, live) /\ T = ContentsOf(mem', live')
      /\ begin \in Entries \cap live /\ end \in live /\ SameHeads(live, live')
  <2>1. range \subseteq live \cap Entries /\ begin \in range /\ end \in range
    BY <1>2 DEF IsRange
  <2>2. SameHeads(live, live')
    BY <1>2, <2>1, CellsAssumption DEF SameHeads
  <2>. QED
    BY <1>1, <2>1, <2>2, ListsAre
<1>4. CASE \A h \in Heads: \A i \in 1..Len(S[h]): S[h][i] # begin
  <2>1. T = S
    BY <1>2, <1>3, <1>4, RangeOffList
  <2>. QED
    BY <1>1, <2>1
<1>5. CASE \E h \in Heads: \E i \in 1..Len(S[h]): S[h][i] = begin
  <2>1. PICK h \in Heads: \E i \in 1..Len(S[h]): S[h][i] = begin
    BY <1>5
  <2>2. PICK i \in 1..Len(S[h]): S[h][i] = begin
    BY <2>1
  <2>3. h \in Heads \cap live /\ S[h] \in Seq(Entries) /\ Len(S[h]) \in Nat
    BY <1>3, <2>2, KnotFacts
  <2>a. \E j \in i..Len(S[h]): end = S[h][j]
    <3>1. RangeFrom(S, h, i, range, end)
      BY <1>2, <1>3, <2>2, <2>3 DEF RangeFrom
    <3>. QED
      BY <1>3, <3>1, RangeOnList
  <2>4. PICK j \in i..Len(S[h]): end = S[h][j]
    BY <2>a
  <2>5. T = With(S, h, SubSeq(S[h], 1, i - 1) \o SubSeq(S[h], j + 1, Len(S[h])))
    BY <1>2, <1>3, <2>2, <2>3, <2>4, RangeContents
  <2>6. i \in DOMAIN S[h] /\ j \in DOMAIN S[h] /\ i <= j
    BY <2>3
  <2>. QED
    BY <1>1, <2>5, <2>6, RulesAllow
<1>. QED
  BY <1>4, <1>5

(* A sequence is its first k members and the others.                        *)
LEMMA PartsMakeWhole ==
  ASSUME NEW s \in Seq(Entries), NEW k \in 1..Len(s)
  PROVE  SubSeq(s, 1, k) \o SubSeq(s, k + 1, Len(s)) = s /\ Len(SubSeq(s, 1, k)) = k
<1>1. Len(s) \in Nat /\ k \in Nat /\ k >= 1 /\ k <= Len(s)
  OBVIOUS
<1>2. PICK c \in Seq(Entries): /\ c = SubSeq(s, 1, k) /\ Len(c) = k
                               /\ \A i \in 1..k: c[i] = s[i]
  <2>1. k \in 0..Len(s) + 1
    BY <1>1
  <2>. QED
    BY <1>1, <2>1, PartsOf
<1>3. PICK d \in Seq(Entries): /\ d = SubSeq(s, k + 1, Len(s)) /\ Len(d) = Len(s) - k
                               /\ \A i \in 1..Len(s) - k: d[i] = s[k + i]
  <2>1. PICK l \in 0..Len(s) + 1: l = k + 1
    BY <1>1
  <2>2. /\ SubSeq(s, l, Len(s)) \in Seq(Entries)
        /\ Len(SubSeq(s, l, Len(s))) = Len(s) - l + 1
        /\ \A i \in 1..Len(s) - l + 1: SubSeq(s, l, Len(s))[i] = s[l - 1 + i]
    BY <1>1, <2>1, PartsOf
  <2>3. Len(s) - l + 1 = Len(s) - k /\ l - 1 = k
    BY <1>1, <2>1
  <2>. QED
    BY <2>1, <2>2, <2>3, ZenonT(60)
<1>4. /\ c \o d \in Seq(Entries) /\ Len(c \o d) = Len(c) + Len(d)
      /\ \A i \in 1..Len(c) + Len(d):
           (c \o d)[i] = IF i <= Len(c) THEN c[i] ELSE d[i - Len(c)]
  BY ConcatIs
<1>5. PICK t \in Seq(Entries): t = c \o d
  BY <1>4
<1>6. Len(t) = Len(s)
  BY <1>1, <1>2, <1>3, <1>4, <1>5
<1>7. ASSUME NEW i \in 1..Len(s) PROVE t[i] = s[i]
  <2>1. i \in 1..Len(c) + Len(d)
    BY <1>1, <1>2, <1>3
  <2>2. CASE i <= k
    BY <1>1, <1>2, <1>4, <1>5, <2>1, <2>2
  <2>3. CASE i > k
    <3>1. i - k \in 1..Len(s) - k /\ k + (i - k) = i /\ ~ (i <= k)
      BY <1>1, <2>3
    <3>. QED
      BY <1>2, <1>3, <1>4, <1>5, <2>1, <3>1
  <2>. QED
    BY <1>1, <2>2, <2>3
<1>8. t = s
  BY ONLY <1>1, <1>6, <1>7, t \in Seq(Entries), s \in Seq(Entries)
<1>. QED
  BY <1>2, <1>3, <1>5, <1>8

(* What the names of the operations say of the place of an entry.           *)
LEMMA EntriesShown == ListInv => EntriesInPlace
<1>. SUFFICES ASSUME ListInv, NEW h \in Heads \cap live
              PROVE
      LET s == Contents(h)
      IN  /\ \A new \in Entries: Idle(new) =>
               /\ ContentsIn(list_add(mem, new, h), h) = <<new>> \o s
               /\ ContentsIn(list_add_tail(mem, new, h), h) = Append(s, new)
          /\ s # <<>> => ContentsIn(list_rotate_left(mem, h), h) = Append(Tail(s), s[1])
          /\ \A list \in (Heads \cap live) \ {h}:
               /\ ContentsIn(list_splice_init(mem, list, h), h) = Contents(list) \o s
               /\ ContentsIn(list_splice_tail_init(mem, list, h), h) = s \o Contents(list)
          /\ \A list \in Heads \ {h}, k \in DOMAIN s: Idle(list) =>
               LET m == list_cut_position(mem, list, h, s[k])
               IN  ContentsIn(m, list) \o ContentsIn(m, h) = s /\ Len(ContentsIn(m, list)) = k
  BY DEF EntriesInPlace
<1>1. PICK S: S = ContentsOf(mem, live)
  OBVIOUS
<1>2. PICK s: s = S[h]
  OBVIOUS
<1>3. /\ Sound(mem, live) /\ s = Contents(h)
      /\ \A a \in Heads \cap live: S[a] = Contents(a)
  BY <1>1, <1>2, ListsAre DEF ContentsOf, Contents
<1>4. s \in Seq(Entries) /\ Len(s) \in Nat /\ S = [a \in Heads |-> S[a]]
  BY <1>1, <1>2, <1>3, KnotFacts DEF ContentsOf
<1>5. DOMAIN S = Heads
  BY <1>4
<1>6. ASSUME NEW new \in Entries, Idle(new)
      PROVE  /\ ContentsIn(list_add(mem, new, h), h) = <<new>> \o s
             /\ ContentsIn(list_add_tail(mem, new, h), h) = Append(s, new)
  <2>1. SameHeads(live, live) /\ IsIdle(mem, live, new)
    BY <1>6 DEF SameHeads, Idle, IsIdle
  <2>2. /\ ContentsOf(list_add(mem, new, h), live) = With(S, h, InsertAt(s, 1, new))
        /\ ContentsOf(list_add_tail(mem, new, h), live) = With(S, h, InsertAt(s, Len(s) + 1, new))
    BY <1>1, <1>2, <1>3, <2>1, AddContents
  <2>3. /\ ContentsOf(list_add(mem, new, h), live)[h] = InsertAt(s, 1, new)
        /\ ContentsOf(list_add_tail(mem, new, h), live)[h] = InsertAt(s, Len(s) + 1, new)
    BY <1>4, <2>2 DEF With
  <2>4. InsertAt(s, 1, new) = <<new>> \o s /\ InsertAt(s, Len(s) + 1, new) = Append(s, new)
    BY <1>4, AtTheEnds
  <2>. QED
    BY <2>3, <2>4 DEF ContentsOf
<1>7. s # <<>> => ContentsIn(list_rotate_left(mem, h), h) = Append(Tail(s), s[1])
  BY <1>1, <1>2, <1>3, RotateContents
<1>8. ASSUME NEW list \in (Heads \cap live) \ {h}
      PROVE  /\ ContentsIn(list_splice_init(mem, list, h), h) = S[list] \o s
             /\ ContentsIn(list_splice_tail_init(mem, list, h), h) = s \o S[list]
  <2>1. CASE S[list] = <<>>
    <3>1. list_empty(mem, list)
      BY <1>1, <1>3, <2>1, EndsOf DEF list_empty
    <3>2. list_splice_init(mem, list, h) = mem /\ list_splice_tail_init(mem, list, h) = mem
      BY <3>1 DEF list_splice_init, list_splice_tail_init
    <3>3. ContentsIn(mem, h) = s /\ <<>> \o s = s /\ s \o <<>> = s
      BY <1>3, <1>4 DEF Contents
    <3>. QED
      BY <2>1, <3>2, <3>3
  <2>2. CASE S[list] # <<>>
    <3>1. /\ ContentsOf(list_splice_init(mem, list, h), live) =
               With(With(S, h, S[list] \o s), list, <<>>)
          /\ ContentsOf(list_splice_tail_init(mem, list, h), live) =
               With(With(S, h, s \o S[list]), list, <<>>)
      BY <1>1, <1>2, <1>3, <2>2, SplicedContents
    <3>2. \A v: With(With(S, h, v), list, <<>>)[h] = v
      BY <1>5 DEF With
    <3>3. \A m: ContentsOf(m, live)[h] = ContentsIn(m, h)
      BY DEF ContentsOf
    <3>. QED
      BY <3>1, <3>2, <3>3
  <2>. QED
    BY <2>1, <2>2
<1>9. ASSUME NEW list \in Heads \ {h}, NEW k \in DOMAIN s, Idle(list),
             NEW m, m = list_cut_position(mem, list, h, s[k])
      PROVE  ContentsIn(m, list) \o ContentsIn(m, h) = s /\ Len(ContentsIn(m, list)) = k
  <2>1. k \in 1..Len(s) /\ s # <<>> /\ Len(s) >= 1
    BY <1>4
  <2>2. /\ ~ list_empty(mem, h) /\ mem.next[h] = s[1] /\ mem.prev[h] = s[Len(s)]
    BY <1>1, <1>2, <1>3, <2>1, EndsOf DEF list_empty
  <2>3. s[k] # h
    BY <1>4, <2>1, CellsAssumption
  <2>4. ~ (list_is_singular(mem, h) /\ s[k] \notin {mem.next[h], h})
    <3>. SUFFICES ASSUME list_is_singular(mem, h), s[k] # s[1] PROVE FALSE
      BY <2>2
    <3>a. s[1] = s[Len(s)]
      BY <2>2 DEF list_is_singular
    <3>1. s[1] = s[Len(s)] /\ 1 \in 1..Len(s) /\ Len(s) \in 1..Len(s)
      BY <1>4, <2>1, <3>a
    <3>2. \A i, j \in 1..Len(s): s[i] = s[j] => i = j
      BY <1>1, <1>2, <1>3, KnotFacts
    <3>3. Len(s) = 1
      BY <3>1, <3>2
    <3>. QED
      BY <2>1, <3>3
  <2>5. m = list_cut_at(mem, list, h, s[k])
    BY <1>9, <2>2, <2>3, <2>4 DEF list_cut_position
  <2>6. PICK ds: ds = live \cup {list}
    OBVIOUS
  <2>7. GainsHead(live, ds, list) /\ IsIdle(mem, live, list)
    BY <1>9, <2>6 DEF GainsHead, Idle, IsIdle
  <2>8. ContentsOf(m, ds) = With(With(S, list, SubSeq(s, 1, k)), h, SubSeq(s, k + 1, Len(s)))
    BY <1>1, <1>2, <1>3, <2>1, <2>5, <2>7, CutContents
  <2>9. ContentsIn(m, list) = SubSeq(s, 1, k) /\ ContentsIn(m, h) = SubSeq(s, k + 1, Len(s))
    <3>1. PICK v, w: v = SubSeq(s, 1, k) /\ w = SubSeq(s, k + 1, Len(s))
      OBVIOUS
    <3>2. With(With(S, list, v), h, w)[list] = v /\ With(With(S, list, v), h, w)[h] = w
      BY <1>5 DEF With
    <3>3. PICK T: T = ContentsOf(m, ds) /\ T = With(With(S, list, v), h, w)
      BY <2>8, <3>1
    <3>4. T[list] = ContentsIn(m, list) /\ T[h] = ContentsIn(m, h)
      BY <2>6, <3>3 DEF ContentsOf
    <3>. QED
      BY <3>1, <3>2, <3>3, <3>4
  <2>. QED
    BY <1>4, <2>1, <2>9, PartsMakeWhole
<1>. QED
  BY <1>3, <1>6, <1>7, <1>8, <1>9

(* The doubly linked lists implement ListRules: whatever the order of the   *)
(* calls, every operation of list.h does to the sequences of its lists what *)
(* the header's comments say, and to no other list anything; and it leaves  *)
(* the entry at the place its name says.                                    *)
THEOREM ListsAlwaysKeepSequences == ListSpec => KeepsSequences
<1>1. ListInit => Rules!Init
  <2>. SUFFICES ASSUME ListInit PROVE Rules!Init
    OBVIOUS
  <2>1. PICK T: T = [h \in Heads |-> <<>>]
    OBVIOUS
  <2>2. ASSUME NEW h \in Heads PROVE Ring(mem.next, h, T[h])
    <3>1. T[h] = <<>> /\ mem.next[h] = h
      BY <2>1 DEF ListInit, Cells
    <3>2. Ring(mem.next, h, <<>>)
      BY <3>1, CellsAssumption DEF Ring, Strung, Uniq, Knot
    <3>. QED
      BY <3>1, <3>2
  <2>3. T = [h \in Heads |-> T[h]] /\ \A h \in Heads \ live: T[h] = <<>>
    BY <2>1
  <2>4. ContentsOf(mem, live) = T
    BY <2>2, <2>3, ContentsAre
  <2>. QED
    BY <2>1, <2>4, ListsAre DEF Rules!Init, Lists
<1>2. ListInv /\ [ListNext]_listVars => [Rules!Next]_Lists
  <2>. SUFFICES ASSUME ListInv, [ListNext]_listVars PROVE Rules!Next \/ Lists' = Lists
    OBVIOUS
  <2>1. CASE UNCHANGED listVars
    <3>1. mem' = mem /\ live' = live
      BY <2>1 DEF listVars
    <3>. QED
      BY <3>1, ListsAre
  <2>2. CASE ListNext
    BY <2>2, InitShown, AddShown, DelShown, ReplaceShown, MoveShown, RotateShown, SpliceShown,
       ForgetShown, CutShown, DelRangeShown DEF ListNext
  <2>. QED
    BY <2>1, <2>2
<1>3. [Rules!Next]_Lists => [Rules!Next]_([h \in Heads |-> Contents(h)])
  BY DEF Lists
<1>4. ListInv => EntriesInPlace
  BY EntriesShown
<1>. QED
  BY <1>1, <1>2, <1>3, <1>4, ListInvariant, PTL DEF ListSpec, KeepsSequences, Rules!Spec
=============================================================================
