-------------------------- MODULE Exercises_proofs --------------------------
(***************************************************************************)
(* Theorems about the ring buffer, for every size and every width of the   *)
(* indices: the overflow of in and out never shows, and the ring           *)
(* implements the queue of ByteFifo; about the three snake games, for      *)
(* every map, first snake, speed and score; and about the sorts and axis   *)
(* maps, for every array.                                                  *)
(***************************************************************************)
EXTENDS MCExercises, CommonLemmas, FiniteSetTheorems, SequenceTheorems, TLAPS

RingInv ==
  /\ TypeOK
  /\ rb_get_valid_length <= Size

-----------------------------------------------------------------------------
(* The free room is what the valid bytes leave, although it is computed     *)
(* from indices that may have overflowed.                                   *)
LEMMA FreeIsRest ==
  ASSUME RingInv
  PROVE  /\ rb_get_valid_length \in 0 .. Size
         /\ Free = Size - rb_get_valid_length
<1>. USE SizeAssumption
<1>1. in \in 0 .. W - 1 /\ out \in 0 .. W - 1
  BY DEF RingInv, TypeOK
<1>. DEFINE v == rb_get_valid_length
<1>2. v = (IF in >= out THEN in - out ELSE in - out + W) /\ v <= Size
  BY <1>1, ModDifference DEF rb_get_valid_length, RingInv
<1>. HIDE DEF v
<1>3. v \in 0 .. Size /\ Size - v \in 0 .. W - 1
  BY <1>1, <1>2
<1>4. Size - in + out = Size - v \/ Size - in + out = (Size - v) + W
  BY <1>1, <1>2
<1>5. Free = Size - v
  <2>1. (Size - v) % W = Size - v /\ ((Size - v) + W) % W = Size - v
    BY <1>3, ModOnce
  <2>. QED
    BY <1>4, <2>1 DEF Free
<1>. QED
  BY <1>3, <1>5 DEF v

(* Writing x of the free bytes makes x more valid, reading x of the valid   *)
(* ones x fewer.                                                            *)
LEMMA IndexSteps ==
  ASSUME RingInv, NEW x \in Nat
  PROVE  /\ x <= Free =>
              /\ (in + x) % W \in 0 .. W - 1
              /\ (((in + x) % W) - out) % W = rb_get_valid_length + x
         /\ x <= rb_get_valid_length =>
              /\ (out + x) % W \in 0 .. W - 1
              /\ (in - ((out + x) % W)) % W = rb_get_valid_length - x
<1>. USE SizeAssumption
<1>1. in \in 0 .. W - 1 /\ out \in 0 .. W - 1 /\ W \in Nat \ {0}
  BY DEF RingInv, TypeOK
<1>. DEFINE v == rb_get_valid_length
<1>2. /\ v = (IF in >= out THEN in - out ELSE in - out + W)
      /\ v \in 0 .. Size
      /\ Free = Size - v
  BY <1>1, ModDifference, FreeIsRest DEF rb_get_valid_length
<1>. HIDE DEF v
<1>3. ASSUME x <= Free
      PROVE  /\ (in + x) % W \in 0 .. W - 1
             /\ (((in + x) % W) - out) % W = v + x
  <2>. DEFINE i == (in + x) % W
  <2>1. x \in 0 .. W - 1 /\ v + x \in 0 .. Size
    BY <1>2, <1>3
  <2>2. i = (IF in + x < W THEN in + x ELSE in + x - W)
    BY <1>1, <2>1, ModSum
  <2>3. i \in 0 .. W - 1
    BY <1>1, <2>1, <2>2
  <2>. HIDE DEF i
  <2>4. (i - out) % W = IF i >= out THEN i - out ELSE i - out + W
    BY <1>1, <2>3, <2>2, ModDifference
  <2>5. (i - out) % W = v + x
    BY <1>1, <1>2, <2>3, <2>1, <2>2, <2>4
  <2>. QED
    BY <2>3, <2>2, <2>5 DEF i
<1>4. ASSUME x <= v
      PROVE  /\ (out + x) % W \in 0 .. W - 1
             /\ (in - ((out + x) % W)) % W = v - x
  <2>. DEFINE o == (out + x) % W
  <2>1. x \in 0 .. W - 1 /\ v - x \in 0 .. Size
    BY <1>2, <1>4
  <2>2. o = (IF out + x < W THEN out + x ELSE out + x - W)
    BY <1>1, <2>1, ModSum
  <2>3. o \in 0 .. W - 1
    BY <1>1, <2>1, <2>2
  <2>. HIDE DEF o
  <2>4. (in - o) % W = IF in >= o THEN in - o ELSE in - o + W
    BY <1>1, <2>3, <2>2, ModDifference
  <2>5. (in - o) % W = v - x
    BY <1>1, <1>2, <2>3, <2>1, <2>2, <2>4
  <2>. QED
    BY <2>3, <2>2, <2>5 DEF o
<1>. QED
  BY <1>3, <1>4 DEF v

(* The first copy of x bytes at index i ends within the buffer, and the     *)
(* rest, copied to its start, ends there too.                               *)
LEMMA CopiesFit ==
  ASSUME NEW i \in Nat, NEW x \in 0 .. Size
  PROVE  /\ i % Size \in 0 .. Size - 1
         /\ First(x, i) \in 0 .. x
         /\ (i % Size) + First(x, i) <= Size
         /\ x - First(x, i) \in 0 .. Size
<1>1. i % Size \in 0 .. Size - 1
  BY SizeAssumption, ModRange
<1>. QED
  BY <1>1, SizeAssumption DEF First, min

(* A copy that fits keeps the buffer's size and its bytes bytes.            *)
LEMMA CopyKeepsBuffer ==
  ASSUME NEW b \in [0 .. Size - 1 -> Data], NEW at \in Nat,
         NEW bytes \in Seq(Data), at + Len(bytes) <= Size
  PROVE  memcpy(b, at, bytes) \in [0 .. Size - 1 -> Data]
<1>1. Size \in Nat /\ Len(bytes) \in Nat
  BY SizeAssumption
<1>2. DOMAIN b \union at .. at + Len(bytes) - 1 = 0 .. Size - 1
  BY <1>1
<1>3. \A i \in at .. at + Len(bytes) - 1 : bytes[i - at + 1] \in Data
  BY <1>1
<1>. QED
  BY <1>2, <1>3 DEF memcpy

-----------------------------------------------------------------------------
(* The ring starts empty.                                                  *)
LEMMA InitRingInv == Init => RingInv
<1>. SUFFICES ASSUME Init PROVE RingInv
  OBVIOUS
<1>1. 0 \in 0 .. W - 1 /\ 0 % W = 0
  BY SizeAssumption, ModOnce
<1>2. TypeOK
  BY <1>1 DEF Init, TypeOK
<1>3. rb_get_valid_length <= Size
  BY <1>1, SizeAssumption DEF Init, rb_get_valid_length
<1>. QED
  BY <1>2, <1>3 DEF RingInv

(* rb_write keeps the distance of the indices within the size and its two  *)
(* copies within the buffer.                                               *)
LEMMA WriteRingInv ==
  ASSUME RingInv, NEW m \in 0 .. MaxLen, NEW bytes \in [1 .. m -> Data],
         rb_write(bytes)
  PROVE  RingInv'
<1>. DEFINE len == min(Len(bytes), Free)
            l == First(len, in)
            head == SubSeq(bytes, 1, l)
            rest == SubSeq(bytes, l + 1, len)
<1>1. Len(bytes) = m /\ m \in Nat /\ bytes \in Seq(Data)
  BY SizeAssumption
<1>2. Free \in 0 .. Size /\ len \in 0 .. Size /\ len <= Free /\ len <= m
  BY <1>1, FreeIsRest, SizeAssumption DEF min
<1>3. in \in Nat /\ in % Size \in 0 .. Size - 1 /\ l \in 0 .. len
      /\ (in % Size) + l <= Size /\ len - l \in 0 .. Size
  <2>1. in \in Nat
    BY DEF RingInv, TypeOK
  <2>. HIDE DEF len
  <2>. QED
    BY <1>2, <2>1, CopiesFit
<1>4. /\ buffer' = memcpy(memcpy(buffer, in % Size, head), 0, rest)
      /\ in' = (in + len) % W
      /\ reply' = SubSeq(bytes, 1, len)
      /\ out' = out
  BY DEF rb_write
<1>. HIDE DEF len, l
<1>5. /\ head \in Seq(Data) /\ Len(head) = l
      /\ rest \in Seq(Data) /\ Len(rest) = len - l
      /\ SubSeq(bytes, 1, len) \in Seq(Data)
  <2>1. \A i \in 1 .. len : bytes[i] \in Data
    BY <1>1, <1>2
  <2>2. l \in Int /\ len \in Int /\ l <= len
    BY <1>2, <1>3
  <2>3. head \in Seq(Data) /\ Len(head) = IF 1 <= l THEN l - 1 + 1 ELSE 0
    BY <2>1, <2>2, SubSeqProperties
  <2>4. rest \in Seq(Data)
        /\ Len(rest) = IF l + 1 <= len THEN len - (l + 1) + 1 ELSE 0
    <3>1. \A i \in l + 1 .. len : bytes[i] \in Data
      BY <1>3, <2>1
    <3>. QED
      BY <2>2, <3>1, SubSeqProperties
  <2>5. SubSeq(bytes, 1, len) \in Seq(Data)
    BY <2>1, <2>2, SubSeqProperties
  <2>. QED
    BY <1>3, <2>2, <2>3, <2>4, <2>5
<1>. HIDE DEF head, rest
<1>6. memcpy(buffer, in % Size, head) \in [0 .. Size - 1 -> Data]
  <2>1. buffer \in [0 .. Size - 1 -> Data]
    BY DEF RingInv, TypeOK
  <2>2. in % Size \in Nat /\ (in % Size) + Len(head) <= Size
    BY <1>3, <1>5, SizeAssumption
  <2>. QED
    BY <1>5, <2>1, <2>2, CopyKeepsBuffer
<1>7. buffer' \in [0 .. Size - 1 -> Data]
  BY <1>3, <1>4, <1>5, <1>6, CopyKeepsBuffer
<1>8. in' \in 0 .. W - 1 /\ (in' - out) % W = rb_get_valid_length + len
  BY <1>2, <1>4, IndexSteps
<1>9. rb_get_valid_length' <= Size
  BY <1>2, <1>4, <1>8, FreeIsRest, SizeAssumption DEF rb_get_valid_length
<1>10. TypeOK'
  BY <1>4, <1>5, <1>7, <1>8 DEF RingInv, TypeOK
<1>. QED
  BY <1>9, <1>10 DEF RingInv

(* A run of bytes within the buffer is a sequence of bytes.                 *)
LEMMA BytesAreData ==
  ASSUME RingInv, NEW at \in Nat, NEW x \in Nat, at + x <= Size
  PROVE  BytesAt(at, x) \in Seq(Data)
<1>1. \A k \in 1 .. x : buffer[at + k - 1] \in Data
  BY SizeAssumption DEF RingInv, TypeOK
<1>. QED
  BY <1>1 DEF BytesAt

(* So does rb_read.                                                        *)
LEMMA ReadRingInv ==
  ASSUME RingInv, NEW x \in 0 .. MaxLen, rb_read(x)
  PROVE  RingInv'
<1>. DEFINE len == min(x, rb_get_valid_length)
            l == First(len, out)
<1>1. x \in Nat /\ out \in Nat
  BY SizeAssumption DEF RingInv, TypeOK
<1>2. /\ rb_get_valid_length \in 0 .. Size
      /\ len \in 0 .. Size /\ len <= rb_get_valid_length
  BY <1>1, FreeIsRest, SizeAssumption DEF min
<1>3. out % Size \in 0 .. Size - 1 /\ l \in 0 .. len
      /\ (out % Size) + l <= Size /\ len - l \in 0 .. Size
  <2>. HIDE DEF len
  <2>. QED
    BY <1>1, <1>2, CopiesFit
<1>4. /\ reply' = BytesAt(out % Size, l) \o BytesAt(0, len - l)
      /\ out' = (out + len) % W
      /\ UNCHANGED <<buffer, in>>
  BY DEF rb_read
<1>. HIDE DEF len, l
<1>5. reply' \in Seq(Data)
  <2>1. BytesAt(out % Size, l) \in Seq(Data)
    BY <1>2, <1>3, BytesAreData
  <2>2. BytesAt(0, len - l) \in Seq(Data)
    BY <1>2, <1>3, BytesAreData
  <2>. QED
    BY <1>4, <2>1, <2>2
<1>6. out' \in 0 .. W - 1 /\ (in - out') % W = rb_get_valid_length - len
  BY <1>2, <1>4, IndexSteps
<1>7. rb_get_valid_length' <= Size
  BY <1>2, <1>4, <1>6, SizeAssumption DEF rb_get_valid_length
<1>8. TypeOK'
  BY <1>4, <1>5, <1>6 DEF RingInv, TypeOK
<1>. QED
  BY <1>7, <1>8 DEF RingInv

(* A step that changes nothing preserves the invariant.                    *)
LEMMA StutterRingInv ==
  ASSUME RingInv, UNCHANGED vars
  PROVE  RingInv'
BY DEF RingInv, TypeOK, rb_get_valid_length, vars

-----------------------------------------------------------------------------
(* The indices stay reduced and never more than Size bytes apart, through   *)
(* any number of overflows.                                                 *)
THEOREM RingInvariant == Spec => []RingInv
<1>1. ASSUME RingInv, [Next]_vars PROVE RingInv'
  BY <1>1, WriteRingInv, ReadRingInv, StutterRingInv DEF Next
<1>. QED
  BY <1>1, InitRingInv, PTL DEF Spec

(* No call of rb_write or rb_read copies past the end of the buffer.        *)
THEOREM RingTypeCorrect == Spec => []TypeOK
<1>1. RingInv => TypeOK
  BY DEF RingInv
<1>. QED
  BY <1>1, RingInvariant, PTL

(* size - in + out, computed in uint32_t, is the free room and in - out the *)
(* number of valid bytes whichever of the indices overflowed.               *)
THEOREM RingLengthsAddUp == Spec => []LengthsAddUp
<1>1. RingInv => LengthsAddUp
  BY FreeIsRest, SizeAssumption DEF LengthsAddUp
<1>. QED
  BY <1>1, RingInvariant, PTL
-----------------------------------------------------------------------------
(* The places in the buffer come round: one overflow of an index by W, a    *)
(* multiple of the size, does not move them.                                *)
LEMMA PlaceSurvivesOverflow ==
  ASSUME NEW x \in Int
  PROVE  (x - W) % Size = x % Size
<1>. USE SizeAssumption
<1>. DEFINE q == x \div Size
            r == x % Size
            c == W \div Size
<1>1. q \in Int /\ r \in 0 .. Size - 1 /\ x = q * Size + r
  OBVIOUS
<1>2. c \in Int /\ W = c * Size
  OBVIOUS
<1>. HIDE DEF q, r, c
<1>3. x - W = (q - c) * Size + r
  BY <1>1, <1>2
<1>4. ((q - c) * Size + r) % Size = r
  BY <1>1, <1>2, ModUnique
<1>. QED
  BY <1>3, <1>4 DEF r

(* d places further on, and d places back, wherever i stands.               *)
LEMMA PlacesAround ==
  ASSUME NEW i \in Nat, NEW d \in 0 .. Size
  PROVE  /\ (i + d) % Size = IF (i % Size) + d < Size THEN (i % Size) + d
                                                      ELSE (i % Size) + d - Size
         /\ (i - d) % Size = IF d <= i % Size THEN (i % Size) - d
                                              ELSE (i % Size) - d + Size
<1>. USE SizeAssumption
<1>. DEFINE q == i \div Size
            r == i % Size
<1>1. q \in Int /\ r \in 0 .. Size - 1 /\ i = q * Size + r
  OBVIOUS
<1>. HIDE DEF q, r
<1>2. (i + d) % Size = IF r + d < Size THEN r + d ELSE r + d - Size
  <2>1. CASE r + d < Size
    <3>1. i + d = q * Size + (r + d) /\ r + d \in 0 .. Size - 1
      BY <1>1, <2>1
    <3>. QED
      BY <1>1, <2>1, <3>1, ModUnique
  <2>2. CASE r + d >= Size
    <3>1. /\ i + d = (q + 1) * Size + (r + d - Size)
          /\ r + d - Size \in 0 .. Size - 1 /\ q + 1 \in Int
      BY <1>1, <2>2
    <3>2. ((q + 1) * Size + (r + d - Size)) % Size = r + d - Size
      BY <3>1, ModUnique
    <3>. QED
      BY <1>1, <2>2, <3>1, <3>2
  <2>. QED
    BY <1>1, <2>1, <2>2
<1>3. (i - d) % Size = IF d <= r THEN r - d ELSE r - d + Size
  <2>1. CASE d <= r
    <3>1. i - d = q * Size + (r - d) /\ r - d \in 0 .. Size - 1
      BY <1>1, <2>1
    <3>. QED
      BY <1>1, <2>1, <3>1, ModUnique
  <2>2. CASE d > r
    <3>1. i - d = (q - 1) * Size + (r - d + Size) /\ r - d + Size \in 0 .. Size - 1
      BY <1>1, <2>2
    <3>. QED
      BY <1>1, <2>2, <3>1, ModUnique
  <2>. QED
    BY <1>1, <2>1, <2>2
<1>. QED
  BY <1>2, <1>3 DEF r

(* The write index is the read index and the valid bytes, seen from the     *)
(* buffer.                                                                  *)
LEMMA WritePlace ==
  ASSUME RingInv, NEW d \in Int
  PROVE  (in + d) % Size = (out + rb_get_valid_length + d) % Size
<1>. USE SizeAssumption
<1>1. in \in 0 .. W - 1 /\ out \in 0 .. W - 1
  BY DEF RingInv, TypeOK
<1>2. rb_get_valid_length = IF in >= out THEN in - out ELSE in - out + W
  BY <1>1, ModDifference DEF rb_get_valid_length
<1>3. CASE in >= out
  <2>1. in + d = out + rb_get_valid_length + d
    BY <1>1, <1>2, <1>3
  <2>. QED
    BY <2>1
<1>4. CASE in < out
  <2>1. in + d = (out + rb_get_valid_length + d) - W /\ out + rb_get_valid_length + d \in Int
    BY <1>1, <1>2, <1>4
  <2>. QED
    BY <2>1, PlaceSurvivesOverflow
<1>. QED
  BY <1>1, <1>3, <1>4

(* The read index after x bytes, seen from the buffer.                      *)
LEMMA ReadPlace ==
  ASSUME RingInv, NEW x \in 0 .. Size, NEW d \in Int
  PROVE  (((out + x) % W) + d) % Size = (out + x + d) % Size
<1>. USE SizeAssumption
<1>1. out \in 0 .. W - 1 /\ x \in 0 .. W - 1 /\ W \in Nat \ {0}
  BY DEF RingInv, TypeOK
<1>2. (out + x) % W = IF out + x < W THEN out + x ELSE out + x - W
  BY <1>1, ModSum
<1>3. CASE out + x < W
  BY <1>2, <1>3
<1>4. CASE out + x >= W
  <2>1. ((out + x) % W) + d = (out + x + d) - W /\ out + x + d \in Int
    BY <1>1, <1>2, <1>4
  <2>. QED
    BY <2>1, PlaceSurvivesOverflow
<1>. QED
  BY <1>1, <1>3, <1>4

-----------------------------------------------------------------------------
(* What the queue holds: a byte for every valid one, each in the buffer.    *)
LEMMA ContentsAreData ==
  ASSUME RingInv
  PROVE  /\ contents \in Seq(Data)
         /\ Len(contents) = rb_get_valid_length
         /\ \A k \in 1 .. rb_get_valid_length :
              contents[k] = buffer[(out + k - 1) % Size]
<1>. USE SizeAssumption
<1>1. rb_get_valid_length \in Nat /\ out \in Nat
  BY FreeIsRest DEF RingInv, TypeOK
<1>2. \A k \in 1 .. rb_get_valid_length : (out + k - 1) % Size \in 0 .. Size - 1
  BY <1>1, ModRange
<1>3. \A k \in 1 .. rb_get_valid_length : buffer[(out + k - 1) % Size] \in Data
  BY <1>2 DEF RingInv, TypeOK
<1>. QED
  BY <1>1, <1>3 DEF contents

(* The two copies of rb_read give the oldest bytes in their order, also     *)
(* when they lie on both sides of the end of the buffer.                    *)
LEMMA ReadGivesOldest ==
  ASSUME RingInv, NEW x \in 0 .. rb_get_valid_length
  PROVE  BytesAt(out % Size, First(x, out)) \o BytesAt(0, x - First(x, out))
           = SubSeq(contents, 1, x)
<1>. USE SizeAssumption
<1>. DEFINE r == out % Size
            l == First(x, out)
            y == BytesAt(r, l)
            b == BytesAt(0, x - l)
<1>1. rb_get_valid_length \in 0 .. Size /\ out \in Nat
  BY FreeIsRest DEF RingInv, TypeOK
<1>2. r \in 0 .. Size - 1 /\ l \in 0 .. x /\ r + l <= Size /\ x - l \in 0 .. Size
  BY <1>1, CopiesFit
<1>3. l < x => l = Size - r
  BY <1>1, <1>2 DEF First, min
<1>4. /\ y \in Seq(Data) /\ Len(y) = l
      /\ \A k \in 1 .. l : y[k] = buffer[r + k - 1]
  <2>1. l \in Nat /\ r \in Nat /\ r + l <= Size
    BY <1>1, <1>2
  <2>. HIDE DEF l, r
  <2>2. BytesAt(r, l) \in Seq(Data)
    BY <2>1, BytesAreData
  <2>. QED
    BY <2>1, <2>2 DEF BytesAt
<1>5. /\ b \in Seq(Data) /\ Len(b) = x - l
      /\ \A k \in 1 .. x - l : b[k] = buffer[k - 1]
  <2>1. x - l \in Nat /\ x - l <= Size
    BY <1>1, <1>2
  <2>. HIDE DEF l, r
  <2>2. BytesAt(0, x - l) \in Seq(Data)
    BY <2>1, BytesAreData
  <2>. QED
    BY <2>1, <2>2 DEF BytesAt
<1>6. /\ SubSeq(contents, 1, x) \in Seq(Data) /\ Len(SubSeq(contents, 1, x)) = x
      /\ \A k \in 1 .. x : SubSeq(contents, 1, x)[k] = buffer[(out + (k - 1)) % Size]
  <2>1. PICK c, v : c = contents /\ v = rb_get_valid_length
    OBVIOUS
  <2>2. /\ c \in Seq(Data) /\ Len(c) = v /\ v \in Nat /\ x \in 0 .. v
        /\ \A k \in 1 .. v : c[k] = buffer[(out + k - 1) % Size]
    BY <1>1, <2>1, ContentsAreData
  <2>3. /\ SubSeq(c, 1, x) \in Seq(Data) /\ Len(SubSeq(c, 1, x)) = x
        /\ \A k \in 1 .. x : SubSeq(c, 1, x)[k] = c[k]
    BY ONLY <2>2
  <2>4. \A k \in 1 .. x : k \in 1 .. v /\ out + k - 1 = out + (k - 1)
    BY <1>1, <2>2
  <2>5. \A k \in 1 .. x : c[k] = buffer[(out + (k - 1)) % Size]
    BY ONLY <2>2, <2>4
  <2>. QED
    BY <2>1, <2>3, <2>5
<1>. HIDE DEF y, b, l, r
<1>7. \A k \in 1 .. x : (y \o b)[k] = buffer[(out + (k - 1)) % Size]
  <2>. SUFFICES ASSUME NEW k \in 1 .. x
                PROVE  (y \o b)[k] = buffer[(out + (k - 1)) % Size]
    OBVIOUS
  <2>1. (out + (k - 1)) % Size = IF r + (k - 1) < Size THEN r + (k - 1)
                                                       ELSE r + (k - 1) - Size
    <3>1. k - 1 \in 0 .. Size
      BY <1>1
    <3>. QED
      BY <1>1, <3>1, PlacesAround DEF r
  <2>2. CASE k <= l
    <3>1. (y \o b)[k] = buffer[r + k - 1]
      <4>1. k \in 1 .. Len(y) /\ k \in 1 .. l
        BY <1>1, <1>2, <1>4, <2>2
      <4>2. (y \o b)[k] = y[k]
        BY ONLY <1>4, <1>5, <4>1, ConcatProperties
      <4>. QED
        BY ONLY <1>4, <4>1, <4>2
    <3>2. r + (k - 1) < Size /\ r + (k - 1) = r + k - 1
      BY <1>1, <1>2, <2>2
    <3>3. (out + (k - 1)) % Size = r + k - 1
      BY <2>1, <3>2
    <3>. QED
      BY <3>1, <3>3
  <2>3. CASE k > l
    <3>1. (y \o b)[k] = b[k - l] /\ k - l \in 1 .. x - l
      <4>1. k \in Len(y) + 1 .. Len(y) + Len(b) /\ k - l \in 1 .. x - l
        BY <1>1, <1>2, <1>4, <1>5, <2>3
      <4>2. (y \o b)[k] = b[k - Len(y)]
        BY ONLY <1>4, <1>5, <4>1, ConcatProperties
      <4>. QED
        BY <1>4, <4>1, <4>2
    <3>2. k - l - 1 = r + (k - 1) - Size
      BY <1>1, <1>2, <1>3, <2>3
    <3>. QED
      BY <1>1, <1>2, <1>5, <2>1, <3>1, <3>2
  <2>4. k <= l \/ k > l
    BY <1>1, <1>2
  <2>. QED
    BY <2>2, <2>3, <2>4
<1>8. y \o b \in Seq(Data) /\ Len(y \o b) = x
  <2>1. y \o b \in Seq(Data) /\ Len(y \o b) = l + (x - l)
    BY <1>4, <1>5, ConcatProperties
  <2>2. l \in Int /\ x \in Int
    BY <1>1, <1>2
  <2>. QED
    BY <2>1, <2>2
<1>9. y \o b = SubSeq(contents, 1, x)
  BY <1>1, <1>6, <1>7, <1>8, SeqEqual
<1>. QED
  BY <1>9 DEF y, b, l, r

(* A read takes what it gives out of the queue and leaves the rest.         *)
LEMMA ReadIsRead ==
  ASSUME RingInv, NEW x \in 0 .. MaxLen, rb_read(x)
  PROVE  Queue!Read(x)
<1>. USE SizeAssumption
<1>. DEFINE v == rb_get_valid_length
            len == min(x, v)
<1>1. x \in Nat /\ v \in 0 .. Size /\ len \in 0 .. v
  BY FreeIsRest DEF min
<1>2. RingInv'
  BY ReadRingInv
<1>3. len = Queue!Least(x, Len(contents))
  BY ContentsAreData DEF min, Queue!Least
<1>4. /\ reply' = BytesAt(out % Size, First(len, out)) \o BytesAt(0, len - First(len, out))
      /\ out' = (out + len) % W
      /\ UNCHANGED <<buffer, in>>
  BY DEF rb_read
<1>. HIDE DEF len
<1>5. reply' = SubSeq(contents, 1, len)
  BY <1>1, <1>4, ReadGivesOldest
<1>6. v' = v - len
  BY <1>1, <1>4, IndexSteps DEF rb_get_valid_length
<1>7. /\ contents' \in Seq(Data) /\ Len(contents') = v - len
      /\ \A k \in 1 .. v - len : contents'[k] = buffer[(out' + k - 1) % Size]
  <2>1. contents' = [k \in 1 .. v - len |-> buffer[(out' + k - 1) % Size]]
    BY <1>4, <1>6 DEF contents
  <2>2. v - len \in Nat /\ out' \in Nat /\ buffer \in [0 .. Size - 1 -> Data]
    BY <1>1, <1>2 DEF RingInv, TypeOK
  <2>3. ASSUME NEW k \in 1 .. v - len
        PROVE  buffer[(out' + k - 1) % Size] \in Data
    <3>1. out' + k - 1 \in Int /\ Size \in Nat \ {0}
      BY <2>2
    <3>2. (out' + k - 1) % Size \in 0 .. Size - 1
      BY ONLY <3>1, ModRange
    <3>. QED
      BY <2>2, <3>2
  <2>. DEFINE left == v - len
              at(k) == buffer[(out' + k - 1) % Size]
  <2>4. /\ left \in Nat /\ contents' = [k \in 1 .. left |-> at(k)]
        /\ \A k \in 1 .. left : at(k) \in Data
    BY <2>1, <2>2, <2>3
  <2>. HIDE DEF left, at
  <2>5. /\ contents' \in Seq(Data) /\ Len(contents') = left
        /\ \A k \in 1 .. left : contents'[k] = at(k)
    BY <2>4
  <2>. QED
    BY <2>5 DEF left, at
<1>8. /\ SubSeq(contents, len + 1, v) \in Seq(Data)
      /\ Len(SubSeq(contents, len + 1, v)) = v - len
      /\ \A k \in 1 .. v - len :
           SubSeq(contents, len + 1, v)[k] = buffer[(out + (len + k) - 1) % Size]
  BY <1>1, ContentsAreData
<1>9. ASSUME NEW k \in 1 .. v - len
      PROVE  (out' + k - 1) % Size = (out + (len + k) - 1) % Size
  <2>1. len \in 0 .. Size /\ k - 1 \in Int /\ out \in Nat /\ out' \in Nat
    BY <1>1, <1>2 DEF RingInv, TypeOK
  <2>2. (out' + (k - 1)) % Size = (out + len + (k - 1)) % Size
    BY <1>4, <2>1, ReadPlace
  <2>3. out' + (k - 1) = out' + k - 1 /\ out + len + (k - 1) = out + (len + k) - 1
    BY <1>1, <2>1
  <2>. QED
    BY <2>2, <2>3
<1>10. contents' = SubSeq(contents, len + 1, v)
  <2>1. \A k \in 1 .. v - len : contents'[k] = SubSeq(contents, len + 1, v)[k]
    BY <1>7, <1>8, <1>9, ZenonT(60)
  <2>. QED
    BY <1>7, <1>8, <2>1, SeqEqual
<1>. QED
  BY <1>3, <1>5, <1>10, ContentsAreData DEF Queue!Read

(* What the two copies of rb_write leave at each place: one of the bytes    *)
(* within the len places behind in, taken round the end, and else what was. *)
LEMMA CopiesGoRound ==
  ASSUME RingInv, NEW bytes \in Seq(Data), NEW len \in 0 .. Free, len <= Len(bytes),
         buffer' = memcpy(memcpy(buffer, in % Size, SubSeq(bytes, 1, First(len, in))),
                          0, SubSeq(bytes, First(len, in) + 1, len))
  PROVE  /\ \A j \in 1 .. len : buffer'[(in + (j - 1)) % Size] = bytes[j]
         /\ \A d \in 1 .. Size - len : buffer'[(in - d) % Size] = buffer[(in - d) % Size]
<1>. USE SizeAssumption
<1>. DEFINE r == in % Size
            l == First(len, in)
            head == SubSeq(bytes, 1, l)
            rest == SubSeq(bytes, l + 1, len)
<1>1. in \in Nat /\ len \in 0 .. Size /\ Len(bytes) \in Nat
      /\ buffer \in [0 .. Size - 1 -> Data]
  BY FreeIsRest DEF RingInv, TypeOK
<1>2. r \in 0 .. Size - 1 /\ l \in 0 .. len /\ r + l <= Size
  BY <1>1, CopiesFit
<1>3. l < len => l = Size - r
  BY <1>1, <1>2 DEF First, min
<1>. HIDE DEF r, l
<1>4. Len(head) = l /\ \A k \in 1 .. l : head[k] = bytes[k]
  BY <1>1, <1>2
<1>5. Len(rest) = len - l /\ \A k \in 1 .. len - l : rest[k] = bytes[l + k]
  BY <1>1, <1>2
<1>6. buffer' = memcpy(memcpy(buffer, r, head), 0, rest)
  BY DEF r, l
<1>. HIDE DEF head, rest
<1>7. memcpy(buffer, r, head) =
        [i \in 0 .. Size - 1 |-> IF i \in r .. r + l - 1 THEN head[i - r + 1] ELSE buffer[i]]
  <2>1. DOMAIN buffer \union r .. r + Len(head) - 1 = 0 .. Size - 1
    BY <1>1, <1>2, <1>4
  <2>. QED
    BY <1>4, <2>1 DEF memcpy
<1>8. ASSUME NEW i \in 0 .. Size - 1
      PROVE  buffer'[i] = IF i < len - l THEN rest[i + 1]
                          ELSE IF i \in r .. r + l - 1 THEN head[i - r + 1] ELSE buffer[i]
  <2>1. len - l <= Size
    BY <1>1, <1>2
  <2>2. i \in 0 .. 0 + Len(rest) - 1 <=> i < len - l
    BY <1>1, <1>2, <1>5
  <2>3. i \in DOMAIN memcpy(buffer, r, head)
    BY <1>7
  <2>4. buffer'[i] = IF i \in 0 .. 0 + Len(rest) - 1 THEN rest[i - 0 + 1]
                     ELSE memcpy(buffer, r, head)[i]
    BY <1>6, <2>3 DEF memcpy
  <2>. QED
    BY <1>7, <2>2, <2>4
<1>9. ASSUME NEW j \in 1 .. len
      PROVE  buffer'[(in + (j - 1)) % Size] = bytes[j]
  <2>1. (in + (j - 1)) % Size = IF r + (j - 1) < Size THEN r + (j - 1)
                                                     ELSE r + (j - 1) - Size
    <3>1. j - 1 \in 0 .. Size
      BY <1>1
    <3>. QED
      BY <1>1, <3>1, PlacesAround DEF r
  <2>2. CASE j <= l
    <3>. DEFINE i == r + (j - 1)
    <3>1. /\ i < Size /\ i \in 0 .. Size - 1 /\ ~ (i < len - l)
          /\ i \in r .. r + l - 1 /\ i - r + 1 = j
      BY <1>1, <1>2, <1>3, <2>2
    <3>2. (in + (j - 1)) % Size = i /\ head[j] = bytes[j]
      BY <1>2, <1>4, <2>1, <2>2, <3>1
    <3>. HIDE DEF i
    <3>3. buffer'[i] = head[j]
      BY <1>8, <3>1
    <3>. QED
      BY <3>2, <3>3
  <2>3. CASE j > l
    <3>1. /\ ~ (r + (j - 1) < Size)
          /\ r + (j - 1) - Size \in 0 .. Size - 1
          /\ r + (j - 1) - Size < len - l
          /\ r + (j - 1) - Size + 1 = j - l
          /\ j - l \in 1 .. len - l /\ l + (j - l) = j
      BY <1>1, <1>2, <1>3, <2>3
    <3>2. buffer'[r + (j - 1) - Size] = rest[j - l]
      BY <1>8, <3>1
    <3>. QED
      BY <1>5, <2>1, <3>1, <3>2
  <2>4. j <= l \/ j > l
    BY <1>1, <1>2
  <2>. QED
    BY <2>2, <2>3, <2>4
<1>10. ASSUME NEW d \in 1 .. Size - len
       PROVE  buffer'[(in - d) % Size] = buffer[(in - d) % Size]
  <2>1. (in - d) % Size = IF d <= r THEN r - d ELSE r - d + Size
    <3>1. d \in 0 .. Size
      BY <1>1
    <3>. QED
      BY <1>1, <3>1, PlacesAround DEF r
  <2>2. CASE d <= r
    <3>1. r - d \in 0 .. Size - 1 /\ ~ (r - d < len - l) /\ r - d \notin r .. r + l - 1
      BY <1>1, <1>2, <1>3, <2>2
    <3>. QED
      BY <1>8, <2>1, <2>2, <3>1
  <2>3. CASE d > r
    <3>1. /\ r - d + Size \in 0 .. Size - 1 /\ ~ (r - d + Size < len - l)
          /\ r - d + Size \notin r .. r + l - 1 /\ ~ (d <= r)
      BY <1>1, <1>2, <1>3, <2>3
    <3>. QED
      BY <1>8, <2>1, <3>1
  <2>4. d <= r \/ d > r
    BY <1>1, <1>2
  <2>. QED
    BY <2>2, <2>3, <2>4
<1>. QED
  BY <1>9, <1>10

(* A write puts what it takes behind what the queue holds.                  *)
LEMMA WriteIsWrite ==
  ASSUME RingInv, NEW m \in 0 .. MaxLen, NEW bytes \in [1 .. m -> Data], rb_write(bytes)
  PROVE  Queue!Write(bytes)
<1>. USE SizeAssumption
<1>. DEFINE v == rb_get_valid_length
            len == min(Len(bytes), Free)
            taken == SubSeq(bytes, 1, len)
<1>1. Len(bytes) = m /\ m \in Nat /\ bytes \in Seq(Data)
  OBVIOUS
<1>2. v \in 0 .. Size /\ Free = Size - v /\ len \in 0 .. Free /\ len <= m
  BY <1>1, FreeIsRest DEF min
<1>3. RingInv'
  BY WriteRingInv
<1>4. len = Queue!Least(Len(bytes), Size - Len(contents))
  BY <1>2, ContentsAreData DEF min, Queue!Least
<1>5. /\ buffer' = memcpy(memcpy(buffer, in % Size, SubSeq(bytes, 1, First(len, in))),
                          0, SubSeq(bytes, First(len, in) + 1, len))
      /\ in' = (in + len) % W
      /\ reply' = taken
      /\ out' = out
  BY DEF rb_write
<1>. HIDE DEF len
<1>6. v' = v + len
  BY <1>2, <1>5, IndexSteps DEF rb_get_valid_length
<1>7. /\ \A j \in 1 .. len : buffer'[(in + (j - 1)) % Size] = bytes[j]
      /\ \A d \in 1 .. Size - len : buffer'[(in - d) % Size] = buffer[(in - d) % Size]
  <2>1. len <= Len(bytes)
    BY <1>1, <1>2
  <2>. QED
    BY <1>1, <1>2, <1>5, <2>1, CopiesGoRound
<1>8. /\ taken \in Seq(Data) /\ Len(taken) = len
      /\ \A k \in 1 .. len : taken[k] = bytes[k]
  BY <1>1, <1>2
<1>. HIDE DEF taken
<1>9. /\ contents \o taken \in Seq(Data) /\ Len(contents \o taken) = v + len
      /\ \A k \in 1 .. v + len :
           (contents \o taken)[k] = IF k <= v THEN contents[k] ELSE taken[k - v]
  <2>1. contents \in Seq(Data) /\ Len(contents) = v
    BY ContentsAreData
  <2>2. /\ contents \o taken \in Seq(Data)
        /\ Len(contents \o taken) = Len(contents) + Len(taken)
        /\ \A k \in 1 .. Len(contents) + Len(taken) :
             (contents \o taken)[k] = IF k <= Len(contents) THEN contents[k]
                                                          ELSE taken[k - Len(contents)]
    <3>1. contents \in Seq(Data) /\ taken \in Seq(Data)
      BY <1>8, <2>1
    <3>. QED
      BY ONLY <3>1, ConcatProperties
  <2>3. Len(contents) = v /\ Len(taken) = len
    BY <1>8, <2>1
  <2>. QED
    BY ONLY <2>2, <2>3
<1>10. ASSUME NEW k \in 1 .. v + len
       PROVE  buffer'[(out + k - 1) % Size] = (contents \o taken)[k]
  <2>1. (out + k - 1) % Size = (in + (k - 1 - v)) % Size
    <3>1. k - 1 - v \in Int /\ out \in Nat /\ out + v + (k - 1 - v) = out + k - 1
      BY <1>2 DEF RingInv, TypeOK
    <3>2. (in + (k - 1 - v)) % Size = (out + v + (k - 1 - v)) % Size
      BY <3>1, WritePlace
    <3>. QED
      BY <3>1, <3>2
  <2>2. CASE k <= v
    <3>1. v - k + 1 \in 1 .. Size - len /\ in + (k - 1 - v) = in - (v - k + 1)
      BY <1>2, <2>2 DEF RingInv, TypeOK
    <3>2. buffer'[(out + k - 1) % Size] = buffer[(out + k - 1) % Size]
      BY <1>7, <2>1, <3>1
    <3>3. k \in 1 .. v /\ contents[k] = buffer[(out + k - 1) % Size]
      BY <1>2, <2>2, ContentsAreData
    <3>. QED
      BY <1>9, <2>2, <3>2, <3>3
  <2>3. CASE k > v
    <3>1. /\ k - v \in 1 .. len /\ in + (k - 1 - v) = in + ((k - v) - 1) /\ ~ (k <= v)
      BY <1>2, <2>3 DEF RingInv, TypeOK
    <3>2. buffer'[(out + k - 1) % Size] = bytes[k - v]
      BY <1>7, <2>1, <3>1
    <3>. QED
      BY <1>8, <1>9, <3>1, <3>2
  <2>4. k <= v \/ k > v
    BY <1>2
  <2>. QED
    BY <2>2, <2>3, <2>4
<1>11. contents' = [k \in 1 .. v + len |-> (contents \o taken)[k]]
  <2>1. contents' = [k \in 1 .. v + len |-> buffer'[(out + k - 1) % Size]]
    BY <1>5, <1>6 DEF contents
  <2>. QED
    BY <1>10, <2>1
<1>12. contents' = contents \o taken
  <2>. DEFINE both == contents \o taken
              w == v + len
  <2>1. w \in Nat /\ both \in Seq(Data) /\ Len(both) = w
        /\ contents' = [k \in 1 .. w |-> both[k]]
    BY <1>2, <1>9, <1>11
  <2>. HIDE DEF both, w
  <2>2. both \in [1 .. w -> Data]
    BY <2>1
  <2>3. [k \in 1 .. w |-> both[k]] = both
    BY <2>2
  <2>. QED
    BY <2>1, <2>3 DEF both
<1>. QED
  BY <1>4, <1>5, <1>12 DEF Queue!Write, taken

-----------------------------------------------------------------------------
(* The ring is a queue, for every size, width of the indices and length of  *)
(* the calls: what is read is what was written, in its order, also over     *)
(* the end of the buffer and the overflow of the indices.                   *)
THEOREM RingIsQueue == Spec => ImplementsQueue
<1>1. Init => Queue!Init
  <2>. SUFFICES ASSUME Init PROVE Queue!Init
    OBVIOUS
  <2>1. rb_get_valid_length = 0
    BY SizeAssumption, ModOnce DEF Init, rb_get_valid_length
  <2>. QED
    BY <2>1 DEF Init, contents, Queue!Init
<1>2. ASSUME RingInv, [Next]_vars PROVE [Queue!Next]_<<contents, reply>>
  <2>1. CASE \E x \in 0 .. MaxLen : \E bytes \in [1 .. x -> Data] : rb_write(bytes)
    <3>1. \E x \in 0 .. MaxLen : \E bytes \in [1 .. x -> Data] : Queue!Write(bytes)
      BY <1>2, <2>1, WriteIsWrite
    <3>. QED
      BY <3>1 DEF Queue!Next
  <2>3. CASE \E x \in 0 .. MaxLen : rb_read(x)
    <3>1. \E x \in 0 .. MaxLen : Queue!Read(x)
      BY <1>2, <2>3, ReadIsRead
    <3>. QED
      BY <3>1 DEF Queue!Next
  <2>2. CASE UNCHANGED vars
    BY <2>2 DEF vars, contents, rb_get_valid_length
  <2>. QED
    BY <1>2, <2>1, <2>2, <2>3 DEF Next
<1>. QED
  BY <1>1, <1>2, RingInvariant, PTL DEF Spec, ImplementsQueue, Queue!Spec
-----------------------------------------------------------------------------
(* The snakes that are sequences.                                           *)

(* r is the snake s one move later, with its head at x: it may have kept    *)
(* its last cell.                                                           *)
Crept(s, r, x) ==
  /\ Len(r) \in {Len(s), Len(s) + 1} /\ Len(r) > 0
  /\ r[1] = x
  /\ \A i \in 1 .. Len(r) - 1 : r[i + 1] = s[i]

LEMMA FrontIs ==
  ASSUME NEW S, NEW s \in Seq(S), Len(s) >= 1
  PROVE  /\ Front(s) \in Seq(S) /\ Len(Front(s)) = Len(s) - 1 /\ Len(s) \in Nat
         /\ \A i \in 1 .. Len(s) - 1 : Front(s)[i] = s[i]
<1>. DEFINE k == Len(s) - 1
<1>1. k \in Nat /\ Len(s) \in Nat /\ \A i \in 1 .. k : s[i] \in S
  OBVIOUS
<1>. HIDE DEF k
<1>2. /\ SubSeq(s, 1, k) \in Seq(S)
      /\ Len(SubSeq(s, 1, k)) = IF 1 <= k THEN k - 1 + 1 ELSE 0
      /\ \A i \in 1 .. k - 1 + 1 : SubSeq(s, 1, k)[i] = s[1 + i - 1]
  BY <1>1, SubSeqProperties
<1>3. k - 1 + 1 = k /\ \A i \in 1 .. k : 1 + i - 1 = i
  BY <1>1
<1>4. Len(SubSeq(s, 1, k)) = k /\ \A i \in 1 .. k : SubSeq(s, 1, k)[i] = s[i]
  BY <1>1, <1>2, <1>3
<1>. QED
  BY <1>1, <1>2, <1>4 DEF Front, k

LEMMA Creeps ==
  ASSUME NEW S, NEW s \in Seq(S), Len(s) >= 1, NEW x \in S
  PROVE  /\ <<x>> \o s \in Seq(S) /\ Crept(s, <<x>> \o s, x)
         /\ <<x>> \o Front(s) \in Seq(S) /\ Crept(s, <<x>> \o Front(s), x)
         /\ Front(<<x>> \o s) = <<x>> \o Front(s)
<1>1. <<x>> \in Seq(S) /\ Len(<<x>>) = 1 /\ <<x>>[1] = x
  OBVIOUS
<1>2. /\ Front(s) \in Seq(S) /\ Len(Front(s)) = Len(s) - 1 /\ Len(s) \in Nat
      /\ \A i \in 1 .. Len(s) - 1 : Front(s)[i] = s[i]
  BY FrontIs
<1>. DEFINE g == <<x>> \o s
            f == <<x>> \o Front(s)
<1>3. /\ g \in Seq(S) /\ Len(g) = Len(s) + 1 /\ g[1] = x
      /\ \A i \in 1 .. Len(s) : g[i + 1] = s[i]
  BY <1>1
<1>4. /\ f \in Seq(S) /\ Len(f) = Len(s) /\ f[1] = x
      /\ \A i \in 1 .. Len(s) - 1 : f[i + 1] = s[i]
  BY <1>1, <1>2
<1>. HIDE DEF g, f
<1>5. Crept(s, g, x) /\ Crept(s, f, x)
  BY <1>2, <1>3, <1>4 DEF Crept
<1>6. Front(g) = f
  <2>1. /\ Front(g) \in Seq(S) /\ Len(Front(g)) = Len(s)
        /\ \A i \in 1 .. Len(s) : Front(g)[i] = g[i]
    BY <1>2, <1>3 DEF Front
  <2>2. \A i \in 1 .. Len(s) : g[i] = f[i]
    <3>. SUFFICES ASSUME NEW i \in 1 .. Len(s) PROVE g[i] = f[i]
      OBVIOUS
    <3>1. CASE i = 1
      BY <1>3, <1>4, <3>1
    <3>2. CASE i # 1
      <4>1. i - 1 \in 1 .. Len(s) - 1 /\ i - 1 \in 1 .. Len(s) /\ (i - 1) + 1 = i
        BY <1>2, <3>2
      <4>. QED
        BY <1>3, <1>4, <4>1
    <3>. QED
      BY <3>1, <3>2
  <2>. QED
    BY <1>4, <2>1, <2>2, SeqEqual
<1>. QED
  BY <1>3, <1>4, <1>5, <1>6 DEF g, f

(* A snake that does not bite itself has no two cells on one place.         *)
LEMMA CreepsApart ==
  ASSUME NEW S, NEW s \in Seq(S), NEW r \in Seq(S), NEW x, Crept(s, r, x),
         IsInjective(s), x \notin ToSet(Tail(r))
  PROVE  IsInjective(r)
<1>1. /\ Len(s) \in Nat /\ Len(r) \in Nat /\ Len(r) >= 1 /\ Len(r) - 1 <= Len(s)
      /\ DOMAIN s = 1 .. Len(s) /\ DOMAIN r = 1 .. Len(r)
  BY DEF Crept
<1>2. /\ DOMAIN Tail(r) = 1 .. Len(r) - 1
      /\ \A i \in 1 .. Len(r) - 1 : Tail(r)[i] = r[i + 1]
  BY <1>1
<1>3. \A i \in 2 .. Len(r) : i - 1 \in 1 .. Len(r) - 1 /\ r[i] = s[i - 1] /\ r[i] # r[1]
  <2>. SUFFICES ASSUME NEW i \in 2 .. Len(r)
                PROVE  i - 1 \in 1 .. Len(r) - 1 /\ r[i] = s[i - 1] /\ r[i] # r[1]
    OBVIOUS
  <2>1. i - 1 \in 1 .. Len(r) - 1 /\ (i - 1) + 1 = i
    BY <1>1
  <2>2. r[i] = s[i - 1] /\ Tail(r)[i - 1] = r[i]
    BY <1>2, <2>1 DEF Crept
  <2>. QED
    BY <1>2, <2>1, <2>2 DEF Crept, ToSet
<1>. SUFFICES ASSUME NEW i \in 1 .. Len(r), NEW j \in 1 .. Len(r), r[i] = r[j] PROVE i = j
  BY <1>1 DEF IsInjective
<1>4. CASE i = 1 \/ j = 1
  BY <1>1, <1>3, <1>4
<1>5. CASE i # 1 /\ j # 1
  <2>1. i \in 2 .. Len(r) /\ j \in 2 .. Len(r)
    BY <1>1, <1>5
  <2>2. s[i - 1] = s[j - 1] /\ i - 1 \in DOMAIN s /\ j - 1 \in DOMAIN s
    BY <1>1, <1>3, <2>1
  <2>3. i - 1 = j - 1
    BY <2>2 DEF IsInjective
  <2>. QED
    BY <2>1, <2>3
<1>. QED
  BY <1>4, <1>5
-----------------------------------------------------------------------------
(* The frame buffer game, for a field of any size.                          *)

(* Where the cell behind the head of a longer snake lies.                   *)
FrameInv ==
  /\ trunk \in Seq(Int \X Int) /\ Len(trunk) >= 1
  /\ now \in 0 .. 3
  /\ Len(trunk) > 1 =>
       trunk[1] = <<trunk[2][1] + addx[now + 1], trunk[2][2] + addy[now + 1]>>
  /\ AliveInFrame

(* What a direction and the one against it add up to.                       *)
LEMMA FrameVectors ==
  ASSUME NEW d \in 0 .. 3
  PROVE  /\ addx[d + 1] \in Int /\ addy[d + 1] \in Int
         /\ Against[d + 1] \in 0 .. 3 /\ Against[d + 1] # d
         /\ Against[Against[d + 1] + 1] = d
         /\ \A e \in 0 .. 3 : addx[d + 1] + addx[e + 1] = 0 /\ addy[d + 1] + addy[e + 1] = 0
                             => d = Against[e + 1]
<1>1. addx[1] = -1 /\ addx[2] = 1 /\ addx[3] = 0 /\ addx[4] = 0
  BY DEF addx
<1>2. addy[1] = 0 /\ addy[2] = 0 /\ addy[3] = -1 /\ addy[4] = 1
  BY DEF addy
<1>3. Against[1] = 1 /\ Against[2] = 0 /\ Against[3] = 3 /\ Against[4] = 2
  BY DEF Against
<1>4. \A e \in 0 .. 3 : e + 1 \in {1, 2, 3, 4} /\ e = (e + 1) - 1
  OBVIOUS
<1>5. ASSUME NEW e \in 0 .. 3, addx[d + 1] + addx[e + 1] = 0, addy[d + 1] + addy[e + 1] = 0
      PROVE  d = Against[e + 1]
  <2>1. CASE d = 0
    BY <1>1, <1>2, <1>3, <1>4, <1>5, <2>1
  <2>2. CASE d = 1
    BY <1>1, <1>2, <1>3, <1>4, <1>5, <2>2
  <2>3. CASE d = 2
    BY <1>1, <1>2, <1>3, <1>4, <1>5, <2>3
  <2>4. CASE d = 3
    BY <1>1, <1>2, <1>3, <1>4, <1>5, <2>4
  <2>. QED
    BY <2>1, <2>2, <2>3, <2>4
<1>. QED
  <2>1. d \in {0, 1, 2, 3}
    OBVIOUS
  <2>. QED
    BY <1>1, <1>2, <1>3, <1>5, <2>1

LEMMA FrameStarts == FrameInit => FrameInv
<1>. SUFFICES ASSUME FrameInit PROVE FrameInv
  OBVIOUS
<1>1. PICK at \in Field : trunk = <<at>> /\ meal \in Field \ {at}
  BY DEF FrameInit
<1>2. at \in Int \X Int /\ at \in (0 .. L) \X (0 .. H)
  BY FrameAssumption DEF Field
<1>3. trunk \in Seq(Int \X Int) /\ Len(trunk) = 1 /\ trunk[1] = at /\ DOMAIN trunk = 1 .. 1
  BY <1>1, <1>2
<1>4. AliveInFrame
  BY <1>1, <1>2, <1>3 DEF AliveInFrame, IsInjective, ToSet
<1>. QED
  BY <1>3, <1>4 DEF FrameInit, FrameInv

(* One turn of the loop, whichever key was pressed.                         *)
LEMMA Advances ==
  ASSUME FrameInv, jump, now' \in 0 .. 3, NEW leaving \in BOOLEAN, Advance_(leaving)
  PROVE  /\ FrameInv'
         /\ trunk'[1] = <<trunk[1][1] + addx[now' + 1], trunk[1][2] + addy[now' + 1]>>
<1>. DEFINE x == <<trunk[1][1] + addx[now' + 1], trunk[1][2] + addy[now' + 1]>>
<1>1. trunk \in Seq(Int \X Int) /\ Len(trunk) >= 1 /\ trunk[1] \in Int \X Int
  BY DEF FrameInv
<1>2. x \in Int \X Int
  <2>1. addx[now' + 1] \in Int /\ addy[now' + 1] \in Int
    BY FrameVectors
  <2>2. trunk[1][1] \in Int /\ trunk[1][2] \in Int
    BY <1>1
  <2>. QED
    BY <2>1, <2>2
<1>. HIDE DEF x
<1>3. move_add(now') = <<x>> \o trunk
  BY <1>1 DEF move_add, x
<1>. DEFINE grown == <<x>> \o trunk
<1>4. /\ grown \in Seq(Int \X Int) /\ Crept(trunk, grown, x)
      /\ Front(grown) \in Seq(Int \X Int) /\ Crept(trunk, Front(grown), x)
  BY <1>1, <1>2, Creeps, ZenonT(60)
<1>. HIDE DEF grown
<1>5. grown[1] = x /\ Head(grown) = x
  BY <1>4 DEF Crept
<1>6. /\ trunk' \in {grown, Front(grown)}
      /\ x = meal => trunk' = grown /\ meal' \in Field \ ToSet(grown)
      /\ x # meal => trunk' = Front(grown) /\ meal' = meal
      /\ jump' = (~ leaving /\ ~ check_over(trunk'))
  BY <1>3, <1>5 DEF Advance_, creat_food, grown
<1>7. trunk' \in Seq(Int \X Int) /\ Crept(trunk, trunk', x)
  BY <1>4, <1>6
<1>8. trunk'[1] = x /\ Head(trunk') = x /\ Len(trunk') >= 1 /\ Len(trunk') \in Nat
  BY <1>7 DEF Crept
<1>9. Len(trunk') > 1 =>
        trunk'[1] = <<trunk'[2][1] + addx[now' + 1], trunk'[2][2] + addy[now' + 1]>>
  <2>1. Len(trunk') > 1 => trunk'[2] = trunk[1]
    <3>. SUFFICES ASSUME Len(trunk') > 1 PROVE trunk'[1 + 1] = trunk[1]
      OBVIOUS
    <3>1. 1 \in 1 .. Len(trunk') - 1
      BY <1>8
    <3>. QED
      BY <1>7, <3>1 DEF Crept
  <2>. QED
    BY <1>8, <2>1 DEF x
<1>10. AliveInFrame'
  <2>. SUFFICES ASSUME jump' PROVE /\ IsInjective(trunk')
                                  /\ Head(trunk') \in (0 .. L) \X (0 .. H)
                                  /\ meal' \in Field \ ToSet(trunk')
    BY DEF AliveInFrame
  <2>1. x \notin ToSet(Tail(trunk')) /\ x[1] \in 0 .. L /\ x[2] \in 0 .. H
    BY <1>6, <1>8 DEF check_over
  <2>2. IsInjective(trunk) /\ meal \in Field \ ToSet(trunk)
    BY DEF FrameInv, AliveInFrame
  <2>3. IsInjective(trunk')
    BY <1>1, <1>7, <2>1, <2>2, CreepsApart
  <2>4. x \in (0 .. L) \X (0 .. H)
    BY <1>2, <2>1
  <2>5. meal' \in Field \ ToSet(trunk')
    <3>1. CASE x = meal
      BY <1>6, <3>1
    <3>2. CASE x # meal
      <4>. SUFFICES ASSUME NEW i \in DOMAIN trunk' PROVE trunk'[i] # meal
        BY <1>6, <2>2, <3>2 DEF ToSet
      <4>1. i \in 1 .. Len(trunk')
        BY <1>7
      <4>2. CASE i = 1
        BY <1>8, <3>2, <4>2
      <4>3. CASE i # 1
        <5>1. i - 1 \in 1 .. Len(trunk') - 1 /\ (i - 1) + 1 = i
          BY <1>8, <4>1, <4>3
        <5>2. trunk'[(i - 1) + 1] = trunk[i - 1]
          BY <1>7, <5>1 DEF Crept
        <5>3. i - 1 \in 1 .. Len(trunk)
          BY <1>1, <1>7, <1>8, <5>1 DEF Crept
        <5>4. DOMAIN trunk = 1 .. Len(trunk)
          BY <1>1
        <5>. QED
          BY <2>2, <5>1, <5>2, <5>3, <5>4 DEF ToSet
      <4>. QED
        BY <4>2, <4>3
    <3>. QED
      BY <3>1, <3>2
  <2>. QED
    BY <1>8, <2>3, <2>4, <2>5
<1>. QED
  BY <1>7, <1>8, <1>9, <1>10 DEF FrameInv, x

(* The key that was taken is not against the head's direction.              *)
LEMMA FrameTurns ==
  ASSUME FrameInv, FrameNext
  PROVE  /\ FrameInv'
         /\ Len(trunk) > 1 => Head(trunk') # trunk[2]
<1>1. PICK leaving \in BOOLEAN :
        jump /\ now' \in 0 .. 3 /\ now' # Against[now + 1] /\ Advance_(leaving)
  <2>1. now \in 0 .. 3 /\ Against[now + 1] # now
    BY FrameVectors DEF FrameInv
  <2>2. CASE Leave
    BY <2>1, <2>2 DEF Leave
  <2>3. CASE Turn
    <3>1. PICK d \in 0 .. 3 : now' \in {now} \cup {e \in {d} : Against[d + 1] # now}
      BY <2>3 DEF Turn, click
    <3>2. now' \in 0 .. 3 /\ now' # Against[now + 1]
      BY <2>1, <3>1, FrameVectors
    <3>. QED
      BY <2>3, <3>2 DEF Turn
  <2>. QED
    BY <2>2, <2>3 DEF FrameNext
<1>2. FrameInv' /\ trunk'[1] = <<trunk[1][1] + addx[now' + 1], trunk[1][2] + addy[now' + 1]>>
  BY <1>1, Advances
<1>3. ASSUME Len(trunk) > 1 PROVE trunk'[1] # trunk[2]
  <2>. DEFINE p == trunk[2]
  <2>1. p \in Int \X Int /\ now \in 0 .. 3
    BY <1>3 DEF FrameInv
  <2>2. trunk[1] = <<p[1] + addx[now + 1], p[2] + addy[now + 1]>>
    BY <1>3 DEF FrameInv
  <2>. HIDE DEF p
  <2>3. trunk'[1] = <<p[1] + addx[now + 1] + addx[now' + 1], p[2] + addy[now + 1] + addy[now' + 1]>>
    BY <1>2, <2>2
  <2>4. addx[now + 1] + addx[now' + 1] # 0 \/ addy[now + 1] + addy[now' + 1] # 0
    BY <1>1, <2>1, FrameVectors
  <2>5. /\ addx[now + 1] \in Int /\ addx[now' + 1] \in Int
        /\ addy[now + 1] \in Int /\ addy[now' + 1] \in Int
    BY <1>1, <2>1, FrameVectors
  <2>6. trunk'[1][1] # p[1] \/ trunk'[1][2] # p[2]
    <3>1. p[1] \in Int /\ p[2] \in Int
      BY <2>1
    <3>2. /\ trunk'[1][1] = p[1] + addx[now + 1] + addx[now' + 1]
          /\ trunk'[1][2] = p[2] + addy[now + 1] + addy[now' + 1]
      BY <2>3
    <3>. QED
      BY <2>4, <2>5, <3>1, <3>2
  <2>. QED
    BY <2>6 DEF p
<1>4. Head(trunk') = trunk'[1]
  BY <1>2 DEF FrameInv
<1>. QED
  BY <1>2, <1>3, <1>4
-----------------------------------------------------------------------------
(* The console game, for any map and any first snake on it.                 *)

(* While the game runs the head lies one step from the second cell, in the  *)
(* direction, and in a column that it shares with the walls.                *)
ConsoleInv ==
  /\ cells \in Seq(Int \X Int) /\ Len(cells) >= 2
  /\ status \in Directions
  /\ endGamestatus = 0 => cells[1] = Onward(cells[2], status) /\ cells[1][1] % 2 = 0
  /\ AliveOnMap
  /\ AddFollowsSpeed /\ sleeptime % 30 = 20

LEMMA OnwardIsPlace ==
  ASSUME NEW at \in Int \X Int, NEW d \in Directions
  PROVE  /\ Onward(at, d) \in Int \X Int
         /\ Onward(at, d)[1] \in {at[1] - 2, at[1], at[1] + 2}
         /\ Onward(at, d)[2] \in {at[2] - 1, at[2], at[2] + 1}
         /\ \A e \in Directions : Onward(Onward(at, d), e) = at => d = Opposite[e]
<1>1. /\ Ahead["U"][1] = 0 /\ Ahead["U"][2] = -1 /\ Ahead["D"][1] = 0 /\ Ahead["D"][2] = 1
      /\ Ahead["L"][1] = -2 /\ Ahead["L"][2] = 0 /\ Ahead["R"][1] = 2 /\ Ahead["R"][2] = 0
  BY DEF Ahead
<1>2. /\ Opposite["U"] = "D" /\ Opposite["D"] = "U"
      /\ Opposite["L"] = "R" /\ Opposite["R"] = "L"
  BY DEF Opposite
<1>3. \A e \in Directions : e \in {"U", "D", "L", "R"}
  BY DEF Directions
<1>4. at[1] \in Int /\ at[2] \in Int
  OBVIOUS
<1>5. ASSUME NEW e \in Directions
      PROVE  Ahead[e][1] \in {-2, 0, 2} /\ Ahead[e][2] \in {-1, 0, 1}
  BY <1>1, <1>3
<1>6. /\ Onward(at, d) \in Int \X Int
      /\ Onward(at, d)[1] = at[1] + Ahead[d][1] /\ Onward(at, d)[2] = at[2] + Ahead[d][2]
  BY <1>4, <1>5 DEF Onward
<1>7. ASSUME NEW e \in Directions, Onward(Onward(at, d), e) = at
      PROVE  d = Opposite[e]
  <2>1. /\ Onward(Onward(at, d), e)[1] = at[1] + Ahead[d][1] + Ahead[e][1]
        /\ Onward(Onward(at, d), e)[2] = at[2] + Ahead[d][2] + Ahead[e][2]
    BY <1>6 DEF Onward
  <2>2. Ahead[d][1] + Ahead[e][1] = 0 /\ Ahead[d][2] + Ahead[e][2] = 0
    BY <1>4, <1>5, <1>7, <2>1
  <2>. QED
    BY <1>1, <1>2, <1>3, <2>2
<1>. QED
  BY <1>4, <1>5, <1>6, <1>7

LEMMA ConsoleStarts == ConsoleInit => ConsoleInv
<1>. SUFFICES ASSUME ConsoleInit PROVE ConsoleInv
  OBVIOUS
<1>1. /\ Joints \in Nat /\ Joints > 1 /\ StartX \in Nat /\ StartY \in Nat /\ StartY \in 0 .. Bottom
      /\ Right \in Nat /\ StartX + 2 * (Joints - 1) <= Right /\ StartX % 2 = 0
  BY ConsoleAssumption
<1>2. cells = [i \in 1 .. Joints |-> <<StartX + 2 * (Joints - i), StartY>>]
  BY DEF ConsoleInit
<1>3. cells \in Seq(Int \X Int) /\ Len(cells) = Joints /\ DOMAIN cells = 1 .. Joints
  BY <1>1, <1>2
<1>4. /\ cells[1] = <<StartX + 2 * (Joints - 1), StartY>>
      /\ cells[2] = <<StartX + 2 * (Joints - 2), StartY>>
  BY <1>1, <1>2
<1>5. cells[1] = Onward(cells[2], "R") /\ cells[1][1] % 2 = 0
  BY <1>1, <1>4 DEF Onward, Ahead
<1>6. IsInjective(cells)
  BY <1>1, <1>2, <1>3 DEF IsInjective
<1>7. Head(cells) \in (0 .. Right) \X (0 .. Bottom)
  BY <1>1, <1>3, <1>4
<1>8. AddFollowsSpeed /\ sleeptime % 30 = 20
  BY DEF ConsoleInit, AddFollowsSpeed
<1>. QED
  BY <1>1, <1>3, <1>5, <1>6, <1>7, <1>8
     DEF ConsoleInit, ConsoleInv, AliveOnMap, Directions

(* F1 and F2: the two corrections of the score undo each other.             *)
LEMMA SpeedsStep ==
  ASSUME AddFollowsSpeed, sleeptime % 30 = 20,
         Faster \/ Slower \/ UNCHANGED <<sleeptime, add>>
  PROVE  AddFollowsSpeed' /\ sleeptime' % 30 = 20
<1>. DEFINE k == sleeptime \div 30
<1>1. sleeptime = 30 * k + 20 /\ k \in 0 .. 11
  BY DEF AddFollowsSpeed
<1>2. add = IF k = 11 THEN 1 ELSE 22 - 2 * k
  BY <1>1 DEF AddFollowsSpeed
<1>. HIDE DEF k
<1>3. PICK j \in 0 .. 11 :
        sleeptime' = 30 * j + 20 /\ add' = IF j = 11 THEN 1 ELSE 22 - 2 * j
  <2>1. CASE Faster /\ sleeptime >= 50
    <3>1. k >= 1 /\ k - 1 \in 0 .. 11 /\ sleeptime' = 30 * (k - 1) + 20
      BY <1>1, <2>1 DEF Faster
    <3>2. add' = IF k - 1 = 11 THEN 1 ELSE 22 - 2 * (k - 1)
      BY <1>1, <1>2, <2>1, <3>1 DEF Faster
    <3>. QED
      BY <3>1, <3>2
  <2>2. CASE Slower /\ sleeptime < 350
    <3>1. k <= 10 /\ k + 1 \in 0 .. 11 /\ sleeptime' = 30 * (k + 1) + 20
      BY <1>1, <2>2 DEF Slower
    <3>2. add' = IF k + 1 = 11 THEN 1 ELSE 22 - 2 * (k + 1)
      BY <1>1, <1>2, <2>2, <3>1 DEF Slower
    <3>. QED
      BY <3>1, <3>2
  <2>3. CASE UNCHANGED <<sleeptime, add>>
    BY <1>1, <1>2, <2>3
  <2>. QED
    BY <2>1, <2>2, <2>3 DEF Faster, Slower
<1>. QED
  BY <1>3 DEF AddFollowsSpeed

(* A turn of the loop.                                                      *)
LEMMA ConsoleMoves ==
  ASSUME ConsoleInv, endGamestatus = 0,
         status' \in Directions, status # Opposite[status'], snakeMove(status')
  PROVE  /\ cells' \in Seq(Int \X Int) /\ Len(cells') >= 2
         /\ endGamestatus' = 0 =>
              cells'[1] = Onward(cells'[2], status') /\ cells'[1][1] % 2 = 0
         /\ AliveOnMap'
         /\ cells' # cells => Head(cells') # cells[2]
<1>1. /\ cells \in Seq(Int \X Int) /\ Len(cells) >= 2 /\ status \in Directions
      /\ cells[1] \in Int \X Int /\ cells[2] \in Int \X Int
      /\ cells[1] = Onward(cells[2], status) /\ cells[1][1] % 2 = 0
      /\ IsInjective(cells) /\ Head(cells) = cells[1]
      /\ cells[1] \in (0 .. Right) \X (0 .. Bottom)
  BY DEF ConsoleInv, AliveOnMap
<1>2. CASE cantCrossWall
  BY <1>1, <1>2 DEF snakeMove, AliveOnMap
<1>3. CASE ~ cantCrossWall
  <2>. DEFINE x == Onward(cells[1], status')
  <2>1. /\ x \in Int \X Int
        /\ x[1] \in {cells[1][1] - 2, cells[1][1], cells[1][1] + 2}
        /\ x[2] \in {cells[1][2] - 1, cells[1][2], cells[1][2] + 1}
        /\ x # cells[2]
    <3>1. /\ x \in Int \X Int
          /\ x[1] \in {cells[1][1] - 2, cells[1][1], cells[1][1] + 2}
          /\ x[2] \in {cells[1][2] - 1, cells[1][2], cells[1][2] + 1}
      BY <1>1, OnwardIsPlace
    <3>2. Onward(Onward(cells[2], status), status') # cells[2]
      BY <1>1, OnwardIsPlace, ZenonT(60)
    <3>. QED
      BY <1>1, <3>1, <3>2
  <2>2. /\ cells' \in {<<x>> \o cells, <<x>> \o Front(cells)}
        /\ endGamestatus' = IF x \in ToSet(Tail(cells')) THEN 2 ELSE 0
    BY <1>1, <1>3 DEF snakeMove
  <2>. HIDE DEF x
  <2>3. cells' \in Seq(Int \X Int) /\ Crept(cells, cells', x)
    <3>1. /\ <<x>> \o cells \in Seq(Int \X Int) /\ Crept(cells, <<x>> \o cells, x)
          /\ <<x>> \o Front(cells) \in Seq(Int \X Int)
          /\ Crept(cells, <<x>> \o Front(cells), x)
      <4>1. cells \in Seq(Int \X Int) /\ Len(cells) >= 1 /\ x \in Int \X Int
        BY <1>1, <2>1
      <4>. QED
        BY <4>1, Creeps
    <3>. QED
      BY <2>2, <3>1
  <2>4. /\ cells'[1] = x /\ Len(cells') \in Nat /\ Len(cells') >= 2
        /\ Head(cells') = x
    BY <1>1, <2>3, SMTT(60) DEF Crept
  <2>5. cells'[2] = cells[1]
    <3>1. 1 \in 1 .. Len(cells') - 1 /\ 1 + 1 = 2
      BY <2>4
    <3>2. cells'[1 + 1] = cells[1]
      BY <2>3, <3>1 DEF Crept
    <3>. QED
      BY <3>1, <3>2
  <2>6. x[1] % 2 = 0 /\ x \in (0 .. Right) \X (0 .. Bottom)
    <3>1. /\ cells[1][1] \in 0 .. Right /\ cells[1][1] # 0 /\ cells[1][1] # Right
          /\ cells[1][2] \in 0 .. Bottom /\ cells[1][2] # 0 /\ cells[1][2] # Bottom
      BY <1>1, <1>3 DEF cantCrossWall
    <3>2. Right \in Nat /\ Right % 2 = 0 /\ Bottom \in Nat
      BY ConsoleAssumption
    <3>3. cells[1][1] >= 2 /\ cells[1][1] + 2 <= Right
      <4>1. \A h, w \in Nat : /\ h % 2 = 0 /\ w % 2 = 0 /\ h \in 0 .. w
                              /\ h # 0 /\ h # w
                              => h >= 2 /\ h + 2 <= w
        OBVIOUS
      <4>2. cells[1][1] \in Nat /\ cells[1][1] % 2 = 0
        BY <1>1, <3>1
      <4>. QED
        BY <3>1, <3>2, <4>1, <4>2
    <3>4. x[1] % 2 = 0 /\ x[1] \in 0 .. Right
      <4>1. \A h, w \in Nat : h % 2 = 0 /\ h >= 2 /\ h + 2 <= w
                => \A y \in {h - 2, h, h + 2} : y % 2 = 0 /\ y \in 0 .. w
        OBVIOUS
      <4>2. cells[1][1] \in Nat
        BY <3>1
      <4>. QED
        BY <1>1, <2>1, <3>2, <3>3, <4>1, <4>2
    <3>5. x[2] \in 0 .. Bottom
      BY <2>1, <3>1, <3>2
    <3>. QED
      BY <2>1, <3>4, <3>5
  <2>7. AliveOnMap'
    <3>. SUFFICES ASSUME endGamestatus' = 0 PROVE IsInjective(cells')
      BY <2>4, <2>6 DEF AliveOnMap
    <3>1. x \notin ToSet(Tail(cells'))
      BY <2>2
    <3>. QED
      BY <1>1, <2>3, <3>1, CreepsApart
  <2>8. cells'[1] = Onward(cells'[2], status')
    BY <2>4, <2>5 DEF x
  <2>. QED
    BY <2>1, <2>3, <2>4, <2>6, <2>7, <2>8
<1>. QED
  BY <1>2, <1>3

LEMMA ConsoleTurns ==
  ASSUME ConsoleInv, ConsoleNext
  PROVE  /\ ConsoleInv'
         /\ cells' # cells => Head(cells') # cells[2]
<1>1. CASE Escape
  <2>1. UNCHANGED <<cells, status, sleeptime, add>> /\ endGamestatus' = 3
    BY <1>1 DEF Escape
  <2>. QED
    BY <2>1 DEF ConsoleInv, AliveOnMap, AddFollowsSpeed, Onward
<1>2. ASSUME NEW key \in Directions \cup {"F1", "F2", "none"}, runGame(key)
      PROVE  ConsoleInv' /\ (cells' # cells => Head(cells') # cells[2])
  <2>1. /\ endGamestatus = 0 /\ status' = Turned(key) /\ snakeMove(status')
        /\ Faster \/ Slower \/ UNCHANGED <<sleeptime, add>>
    BY <1>2 DEF runGame
  <2>2. status' \in Directions /\ status # Opposite[status']
    BY <2>1 DEF ConsoleInv, Turned, Directions, Opposite
  <2>3. AddFollowsSpeed' /\ sleeptime' % 30 = 20
    BY <2>1, SpeedsStep DEF ConsoleInv
  <2>. QED
    BY <2>1, <2>2, <2>3, ConsoleMoves DEF ConsoleInv
<1>. QED
  BY <1>1, <1>2 DEF ConsoleNext
-----------------------------------------------------------------------------
(* The curses game, for any screen, first snake, levels and speeds.         *)

Node == [pos : Int \X Int, pNext : Cells \cup {VOID}, pPre : Cells \cup {VOID}]

(* The cells of s are linked to each other, both ways, from end to end.     *)
Chained(h, s) ==
  /\ h \in [Cells -> Node \cup {VOID}]
  /\ s \in Seq(Cells) /\ Len(s) >= 2 /\ Len(s) <= Cardinality(Cells)
  /\ \A i, j \in 1 .. Len(s) : s[i] = s[j] => i = j
  /\ \A i \in 1 .. Len(s) :
       /\ h[s[i]] # VOID
       /\ h[s[i]].pNext = IF i = Len(s) THEN VOID ELSE s[i + 1]
       /\ h[s[i]].pPre = IF i = 1 THEN VOID ELSE s[i - 1]

LEMMA CellsAre ==
  /\ Cells = 1 .. Cardinality(Cells) /\ Cardinality(Cells) \in Nat
  /\ IsFiniteSet(Cells) /\ VOID \notin Cells /\ VOID \notin Node
  /\ Cardinality(Cells) = INIT_SNAKE_LENGTH + levelup_score[Len(levelup_score)] + 1
<1>. DEFINE M == INIT_SNAKE_LENGTH + levelup_score[Len(levelup_score)] + 1
<1>1. levelup_score[Len(levelup_score)] \in Nat /\ INIT_SNAKE_LENGTH \in Nat
  BY SnakeAssumption
<1>2. M \in Nat /\ M >= 1
  BY <1>1
<1>. HIDE DEF M
<1>3. Cells = 1 .. M
  BY DEF Cells, M
<1>4. IsFiniteSet(1 .. M) /\ Cardinality(1 .. M) = M
  BY <1>2, FS_Interval
<1>5. VOID \notin Cells /\ VOID \notin Node
  BY SnakeAssumption DEF Node
<1>. QED
  BY <1>2, <1>3, <1>4, <1>5 DEF M

(* Following pNext from its first cell gives the chain.                     *)
LEMMA ChainIs ==
  ASSUME NEW h, NEW s, Chained(h, s)
  PROVE  ChainFrom(h, s[1]) = s
<1>. DEFINE M == Cardinality(Cells)
            follow == [c \in Cells \cup {VOID} |->
                         IF c = VOID THEN VOID ELSE IF h[c] = VOID THEN VOID ELSE h[c].pNext]
            Links(g) == g = [k \in Cells |-> IF k = 1 THEN s[1] ELSE follow[g[k - 1]]]
            link == CHOOSE g : Links(g)
            want == [k \in Cells |-> IF k <= Len(s) THEN s[k] ELSE VOID]
<1>1. ChainFrom(h, s[1]) = [k \in 1 .. Cardinality({j \in Cells : link[j] # VOID}) |-> link[k]]
  BY DEF ChainFrom
<1>2. /\ s \in Seq(Cells) /\ Len(s) \in Nat /\ Len(s) >= 2 /\ Len(s) <= M
      /\ \A i \in 1 .. Len(s) : s[i] \in Cells
      /\ Cells = 1 .. M /\ M \in Nat /\ VOID \notin Cells
  BY CellsAre DEF Chained
<1>3. /\ \A i \in 1 .. Len(s) - 1 : follow[s[i]] = s[i + 1]
      /\ follow[s[Len(s)]] = VOID /\ follow[VOID] = VOID
  <2>1. follow[VOID] = VOID
    OBVIOUS
  <2>2. ASSUME NEW i \in 1 .. Len(s)
        PROVE  follow[s[i]] = IF i = Len(s) THEN VOID ELSE s[i + 1]
    <3>1. s[i] \in Cells /\ s[i] # VOID /\ h[s[i]] # VOID
      BY <1>2 DEF Chained
    <3>2. follow[s[i]] = h[s[i]].pNext
      BY <3>1
    <3>. QED
      BY <3>2 DEF Chained
  <2>3. \A i \in 1 .. Len(s) - 1 : i \in 1 .. Len(s) /\ i # Len(s)
    BY <1>2
  <2>4. Len(s) \in 1 .. Len(s)
    BY <1>2
  <2>. QED
    BY <2>1, <2>2, <2>3, <2>4
<1>. HIDE DEF follow
<1>4. Links(want)
  <2>. SUFFICES ASSUME NEW k \in Cells
                PROVE  want[k] = IF k = 1 THEN s[1] ELSE follow[want[k - 1]]
    OBVIOUS
  <2>1. CASE k = 1
    BY <1>2, <2>1
  <2>2. CASE k # 1
    <3>1. k - 1 \in Cells /\ k - 1 >= 1 /\ (k - 1) + 1 = k
      BY <1>2, <2>2
    <3>2. CASE k <= Len(s)
      <4>1. k - 1 \in 1 .. Len(s) - 1
        BY <1>2, <3>1, <3>2
      <4>. QED
        BY <1>2, <1>3, <2>2, <3>1, <3>2, <4>1, SMTT(60)
    <3>3. CASE k = Len(s) + 1
      BY <1>2, <1>3, <2>2, <3>1, <3>3
    <3>4. CASE k > Len(s) + 1
      BY <1>2, <1>3, <2>2, <3>1, <3>4
    <3>. QED
      BY <1>2, <3>2, <3>3, <3>4
  <2>. QED
    BY <2>1, <2>2
<1>. HIDE DEF want
<1>5. Links(link)
  BY <1>4
<1>. HIDE DEF link
<1>6. \A k \in Cells : link[k] = want[k]
  <2>. DEFINE S == {k \in Nat : k + 1 \in Cells => link[k + 1] = want[k + 1]}
  <2>1. 0 \in S
    BY <1>2, <1>4, <1>5
  <2>2. ASSUME NEW k \in Nat, k \in S PROVE k + 1 \in S
    <3>. SUFFICES ASSUME (k + 1) + 1 \in Cells PROVE link[(k + 1) + 1] = want[(k + 1) + 1]
      OBVIOUS
    <3>1. k + 1 \in Cells /\ ((k + 1) + 1) - 1 = k + 1 /\ (k + 1) + 1 # 1
      BY <1>2
    <3>2. link[k + 1] = want[k + 1]
      BY <2>2, <3>1
    <3>3. /\ link[(k + 1) + 1] = follow[link[((k + 1) + 1) - 1]]
          /\ want[(k + 1) + 1] = follow[want[((k + 1) + 1) - 1]]
      BY <1>4, <1>5, <3>1
    <3>. QED
      BY <3>1, <3>2, <3>3
  <2>. HIDE DEF S
  <2>3. \A k \in Nat : k \in S
    BY <2>1, <2>2, ForAll
  <2>4. ASSUME NEW k \in Cells PROVE link[k] = want[k]
    <3>1. k - 1 \in Nat /\ (k - 1) + 1 = k
      BY <1>2
    <3>. QED
      BY <2>3, <3>1 DEF S
  <2>. QED
    BY <2>4
<1>7. {j \in Cells : link[j] # VOID} = 1 .. Len(s)
  BY <1>2, <1>6 DEF want
<1>8. Cardinality(1 .. Len(s)) = Len(s)
  BY <1>2, FS_Interval
<1>9. ChainFrom(h, s[1]) = [k \in 1 .. Len(s) |-> s[k]]
  BY <1>1, <1>2, <1>6, <1>7, <1>8, ZenonT(60) DEF want
<1>. QED
  BY <1>2, <1>9
Used(h) == {c \in Cells : h[c] # VOID}

Heaps == [Cells -> Node \cup {VOID}]

LEMMA CellIs ==
  ASSUME NEW at \in Int \X Int, NEW p \in Cells \cup {VOID}, NEW q \in Cells \cup {VOID}
  PROVE  /\ Cell(at, p, q) \in Node /\ Cell(at, p, q) # VOID
         /\ Cell(at, p, q).pos = at /\ Cell(at, p, q).pNext = p /\ Cell(at, p, q).pPre = q
BY CellsAre DEF Cell, Node

LEMMA NodeIs ==
  ASSUME NEW v \in Node
  PROVE  /\ v # VOID /\ v.pos \in Int \X Int
         /\ v.pNext \in Cells \cup {VOID} /\ v.pPre \in Cells \cup {VOID}
BY CellsAre DEF Node

(* The writes: a pointer of a cell that is allocated, or a whole cell.      *)
PutNext(h, x, p) == [h EXCEPT ![x].pNext = p]
PutPre(h, x, p) == [h EXCEPT ![x].pPre = p]
PutCell(h, x, v) == [h EXCEPT ![x] = v]

LEMMA PutNextIs ==
  ASSUME NEW h \in Heaps, NEW x \in Cells, h[x] # VOID, NEW p \in Cells \cup {VOID}
  PROVE  /\ PutNext(h, x, p) \in Heaps
         /\ \A y \in Cells : /\ PutNext(h, x, p)[y] = VOID <=> h[y] = VOID
                             /\ y # x => PutNext(h, x, p)[y] = h[y]
         /\ PutNext(h, x, p)[x].pos = h[x].pos
         /\ PutNext(h, x, p)[x].pNext = p
         /\ PutNext(h, x, p)[x].pPre = h[x].pPre
<1>1. h[x] \in Node
  BY DEF Heaps
<1>2. [h[x] EXCEPT !.pNext = p] = Cell(h[x].pos, p, h[x].pPre)
  BY <1>1 DEF Node, Cell
<1>3. PICK v \in Node : /\ v = Cell(h[x].pos, p, h[x].pPre) /\ v # VOID
                         /\ v.pos = h[x].pos /\ v.pNext = p /\ v.pPre = h[x].pPre
  <2>1. /\ h[x].pos \in Int \X Int
        /\ h[x].pNext \in Cells \cup {VOID} /\ h[x].pPre \in Cells \cup {VOID}
    BY <1>1, NodeIs
  <2>. QED
    BY <2>1, CellIs
<1>4. PutNext(h, x, p) = [h EXCEPT ![x] = v]
  BY <1>2, <1>3 DEF PutNext
<1>. QED
  BY <1>3, <1>4 DEF Heaps

LEMMA PutPreIs ==
  ASSUME NEW h \in Heaps, NEW x \in Cells, h[x] # VOID, NEW p \in Cells \cup {VOID}
  PROVE  /\ PutPre(h, x, p) \in Heaps
         /\ \A y \in Cells : /\ PutPre(h, x, p)[y] = VOID <=> h[y] = VOID
                             /\ y # x => PutPre(h, x, p)[y] = h[y]
         /\ PutPre(h, x, p)[x].pos = h[x].pos
         /\ PutPre(h, x, p)[x].pNext = h[x].pNext
         /\ PutPre(h, x, p)[x].pPre = p
<1>1. h[x] \in Node
  BY DEF Heaps
<1>2. [h[x] EXCEPT !.pPre = p] = Cell(h[x].pos, h[x].pNext, p)
  BY <1>1 DEF Node, Cell
<1>3. PICK v \in Node : /\ v = Cell(h[x].pos, h[x].pNext, p) /\ v # VOID
                         /\ v.pos = h[x].pos /\ v.pNext = h[x].pNext /\ v.pPre = p
  <2>1. /\ h[x].pos \in Int \X Int
        /\ h[x].pNext \in Cells \cup {VOID} /\ h[x].pPre \in Cells \cup {VOID}
    BY <1>1, NodeIs
  <2>. QED
    BY <2>1, CellIs
<1>4. PutPre(h, x, p) = [h EXCEPT ![x] = v]
  BY <1>2, <1>3 DEF PutPre
<1>. QED
  BY <1>3, <1>4 DEF Heaps

LEMMA PutCellIs ==
  ASSUME NEW h \in Heaps, NEW x \in Cells, NEW v \in Node
  PROVE  /\ PutCell(h, x, v) \in Heaps
         /\ PutCell(h, x, v)[x] = v
         /\ \A y \in Cells \ {x} : PutCell(h, x, v)[y] = h[y]
BY DEF PutCell, Heaps

(* What the crawl writes, cell by cell.                                     *)
LEMMA CrawlWrites ==
  ASSUME NEW h \in Heaps,
         NEW hd \in Cells, NEW tl \in Cells, NEW last \in Cells, hd # tl, last # tl,
         h[hd] # VOID, h[last] # VOID, h[tl] # VOID, NEW at \in Int \X Int,
         NEW h2, h2 = PutCell(PutPre(PutNext(h, last, VOID), hd, tl), tl, Cell(at, hd, VOID))
  PROVE  /\ h2 \in Heaps
         /\ h2[tl] # VOID /\ h2[tl].pos = at /\ h2[tl].pNext = hd /\ h2[tl].pPre = VOID
         /\ \A c \in Cells \ {hd, tl, last} : h2[c] = h[c]
         /\ \A c \in Cells \ {tl} :
              h[c] # VOID => /\ h2[c] # VOID /\ h2[c].pos = h[c].pos
                             /\ h2[c].pNext = IF c = last THEN VOID ELSE h[c].pNext
                             /\ h2[c].pPre = IF c = hd THEN tl ELSE h[c].pPre
<1>1. PICK h0 : h0 = PutNext(h, last, VOID)
  OBVIOUS
<1>2. PICK h1 : h1 = PutPre(h0, hd, tl)
  OBVIOUS
<1>3. /\ h0 \in Heaps
      /\ \A y \in Cells : (h0[y] = VOID <=> h[y] = VOID) /\ (y # last => h0[y] = h[y])
      /\ h0[last].pos = h[last].pos /\ h0[last].pNext = VOID /\ h0[last].pPre = h[last].pPre
  BY <1>1, PutNextIs
<1>4. /\ h1 \in Heaps
      /\ \A y \in Cells : (h1[y] = VOID <=> h0[y] = VOID) /\ (y # hd => h1[y] = h0[y])
      /\ h1[hd].pos = h0[hd].pos /\ h1[hd].pNext = h0[hd].pNext /\ h1[hd].pPre = tl
  BY <1>2, <1>3, PutPreIs
<1>5. Cell(at, hd, VOID) \in Node
  BY CellIs
<1>6. /\ h2 \in Heaps /\ h2[tl] = Cell(at, hd, VOID)
      /\ \A y \in Cells \ {tl} : h2[y] = h1[y]
  BY <1>1, <1>2, <1>4, <1>5, PutCellIs
<1>7. h2[tl] # VOID /\ h2[tl].pos = at /\ h2[tl].pNext = hd /\ h2[tl].pPre = VOID
  BY <1>6, CellIs
<1>8. ASSUME NEW c \in Cells \ {tl}, h[c] # VOID
      PROVE  /\ h2[c] # VOID /\ h2[c].pos = h[c].pos
             /\ h2[c].pNext = IF c = last THEN VOID ELSE h[c].pNext
             /\ h2[c].pPre = IF c = hd THEN tl ELSE h[c].pPre
  BY <1>3, <1>4, <1>6, <1>8
<1>. QED
  BY <1>3, <1>4, <1>6, <1>7, <1>8

(* The last cell becomes the first one, at another square.                  *)
LEMMA CrawlKeeps ==
  ASSUME NEW h, NEW s, Chained(h, s), NEW at \in Int \X Int, NEW m, m = Len(s),
         NEW last, last = h[s[m]].pPre,
         NEW h2, h2 = PutCell(PutPre(PutNext(h, last, VOID), s[1], s[m]), s[m],
                              Cell(at, s[1], VOID))
  PROVE  /\ last = s[m - 1]
         /\ h2[s[m]].pos = at
         /\ \A c \in Cells : /\ h2[c] # VOID <=> h[c] # VOID
                             /\ h[c] # VOID /\ c # s[m] => h2[c].pos = h[c].pos
                             /\ (\A i \in 1 .. m : c # s[i]) => h2[c] = h[c]
         /\ \A r : /\ r \in Seq(Cells) /\ Len(r) = m /\ r[1] = s[m]
                   /\ \A i \in 1 .. m - 1 : r[i + 1] = s[i]
                   => Chained(h2, r)
<1>1. /\ h \in Heaps
      /\ m \in Nat /\ m >= 2 /\ m <= Cardinality(Cells)
      /\ \A i \in 1 .. m : s[i] \in Cells /\ h[s[i]] # VOID
      /\ \A i, j \in 1 .. m : s[i] = s[j] => i = j
      /\ \A i \in 1 .. m : /\ h[s[i]].pNext = IF i = m THEN VOID ELSE s[i + 1]
                           /\ h[s[i]].pPre = IF i = 1 THEN VOID ELSE s[i - 1]
  <2>1. s \in Seq(Cells) => Len(s) \in Nat /\ \A i \in 1 .. Len(s) : s[i] \in Cells
    OBVIOUS
  <2>. QED
    BY <2>1 DEF Chained, Heaps
<1>2. 1 \in 1 .. m /\ m \in 1 .. m /\ m - 1 \in 1 .. m /\ m # 1 /\ m - 1 # m
  BY <1>1
<1>3. /\ last = s[m - 1] /\ last \in Cells /\ s[m] \in Cells /\ s[1] \in Cells
      /\ last # s[m] /\ s[1] # s[m] /\ h[last] # VOID /\ h[s[1]] # VOID /\ h[s[m]] # VOID
  BY <1>1, <1>2
<1>4. /\ h2 \in Heaps
      /\ h2[s[m]] # VOID /\ h2[s[m]].pos = at /\ h2[s[m]].pNext = s[1] /\ h2[s[m]].pPre = VOID
      /\ \A c \in Cells \ {s[1], s[m], last} : h2[c] = h[c]
      /\ \A c \in Cells \ {s[m]} :
           h[c] # VOID => /\ h2[c] # VOID /\ h2[c].pos = h[c].pos
                          /\ h2[c].pNext = IF c = last THEN VOID ELSE h[c].pNext
                          /\ h2[c].pPre = IF c = s[1] THEN s[m] ELSE h[c].pPre
  <2>1. PICK hd \in Cells, tl \in Cells : hd = s[1] /\ tl = s[m]
    BY <1>3
  <2>2. h2 = PutCell(PutPre(PutNext(h, last, VOID), hd, tl), tl, Cell(at, hd, VOID))
    BY <2>1
  <2>3. hd # tl /\ last # tl /\ h[hd] # VOID /\ h[last] # VOID /\ h[tl] # VOID
    BY <1>3, <2>1
  <2>4. /\ h2 \in Heaps
        /\ h2[tl] # VOID /\ h2[tl].pos = at /\ h2[tl].pNext = hd /\ h2[tl].pPre = VOID
        /\ \A c \in Cells \ {hd, tl, last} : h2[c] = h[c]
        /\ \A c \in Cells \ {tl} :
             h[c] # VOID => /\ h2[c] # VOID /\ h2[c].pos = h[c].pos
                            /\ h2[c].pNext = IF c = last THEN VOID ELSE h[c].pNext
                            /\ h2[c].pPre = IF c = hd THEN tl ELSE h[c].pPre
    <3>1. h \in Heaps /\ last \in Cells
      BY <1>1, <1>3
    <3>. QED
      BY <2>2, <2>3, <3>1, CrawlWrites, SMTT(60)
  <2>. QED
    BY ONLY <1>3, <2>1, <2>4, SMTT(60)
<1>5. ASSUME NEW c \in Cells
      PROVE  /\ h2[c] # VOID <=> h[c] # VOID
             /\ h[c] # VOID /\ c # s[m] => h2[c].pos = h[c].pos
             /\ (\A i \in 1 .. m : c # s[i]) => h2[c] = h[c]
  BY <1>2, <1>3, <1>4
<1>6. ASSUME NEW r, r \in Seq(Cells), Len(r) = m, r[1] = s[m],
             \A i \in 1 .. m - 1 : r[i + 1] = s[i]
      PROVE  Chained(h2, r)
  <2>1. ASSUME NEW i \in 1 .. m, i # 1
        PROVE  i - 1 \in 1 .. m - 1 /\ i - 1 \in 1 .. m /\ i - 1 # m /\ r[i] = s[i - 1]
    <3>1. i - 1 \in 1 .. m - 1 /\ i - 1 \in 1 .. m /\ i - 1 # m /\ (i - 1) + 1 = i
      BY <1>1, <2>1
    <3>2. r[(i - 1) + 1] = s[i - 1]
      BY <1>6, <3>1
    <3>. QED
      BY <3>1, <3>2
  <2>2. \A i, j \in 1 .. m : r[i] = r[j] => i = j
    <3>. SUFFICES ASSUME NEW i \in 1 .. m, NEW j \in 1 .. m, r[i] = r[j] PROVE i = j
      OBVIOUS
    <3>1. ASSUME NEW k \in 1 .. m, k # 1 PROVE r[k] # r[1]
      BY <1>1, <1>2, <1>6, <2>1, <3>1
    <3>2. CASE i = 1 \/ j = 1
      BY <3>1, <3>2
    <3>3. CASE i # 1 /\ j # 1
      <4>1. i - 1 \in 1 .. m /\ j - 1 \in 1 .. m /\ s[i - 1] = s[j - 1]
        BY <2>1, <3>3
      <4>2. i - 1 = j - 1
        BY <1>1, <4>1
      <4>. QED
        BY <4>2
    <3>. QED
      BY <3>2, <3>3
  <2>3. ASSUME NEW i \in 1 .. m
        PROVE  /\ h2[r[i]] # VOID
               /\ h2[r[i]].pNext = IF i = m THEN VOID ELSE r[i + 1]
               /\ h2[r[i]].pPre = IF i = 1 THEN VOID ELSE r[i - 1]
    <3>1. CASE i = 1
      <4>1. 1 \in 1 .. m - 1
        BY <1>1
      <4>2. r[1 + 1] = s[1]
        BY <1>6, <4>1
      <4>. QED
        BY <1>2, <1>4, <1>6, <3>1, <4>2
    <3>2. CASE i # 1
      <4>. DEFINE k == i - 1
      <4>1. k \in 1 .. m - 1 /\ k \in 1 .. m /\ k # m /\ r[i] = s[k] /\ i = k + 1
        BY <2>1, <3>2
      <4>. HIDE DEF k
      <4>2. s[k] \in Cells \ {s[m]} /\ h[s[k]] # VOID
        BY <1>1, <1>2, <4>1
      <4>3. /\ h2[s[k]] # VOID
            /\ h2[s[k]].pNext = IF s[k] = last THEN VOID ELSE s[k + 1]
            /\ h2[s[k]].pPre = IF s[k] = s[1] THEN s[m] ELSE IF k = 1 THEN VOID ELSE s[k - 1]
        BY <1>1, <1>4, <4>1, <4>2, SMTT(60)
      <4>4. /\ s[k] = last <=> i = m
            /\ s[k] = s[1] <=> k = 1
        BY <1>1, <1>2, <1>3, <4>1
      <4>5. i # m => r[i + 1] = s[k + 1]
        <5>1. i # m => i \in 1 .. m - 1
          BY <1>1
        <5>. QED
          BY <1>6, <4>1, <5>1
      <4>6. r[i - 1] = IF k = 1 THEN s[m] ELSE s[k - 1]
        <5>1. i - 1 = k
          BY <4>1
        <5>2. k # 1 => r[k] = s[k - 1]
          BY <2>1, <4>1
        <5>. QED
          BY <1>6, <5>1, <5>2
      <4>. QED
        BY <3>2, <4>1, <4>3, <4>4, <4>5, <4>6
    <3>. QED
      BY <3>1, <3>2
  <2>4. h2 \in [Cells -> Node \cup {VOID}]
    BY <1>4 DEF Heaps
  <2>5. Len(r) >= 2 /\ Len(r) <= Cardinality(Cells)
    BY <1>1, <1>6
  <2>. QED
    BY <1>6, <2>2, <2>3, <2>4, <2>5, SMTT(60) DEF Chained
<1>. QED
  BY <1>3, <1>4, <1>5, <1>6

(* The chain and the food, which is one more cell, are all that is          *)
(* allocated; the food is where the snake can get it.                       *)
Feeding(h, s, f) ==
  /\ Chained(h, s)
  /\ f \in Cells /\ \A i \in 1 .. Len(s) : s[i] # f
  /\ h[f] # VOID /\ h[f].pPre = VOID
  /\ \A c \in Cells : h[c] # VOID => c = f \/ \E i \in 1 .. Len(s) : c = s[i]

InReach(h, s, f) ==
  /\ h[f].pos \in Room
  /\ \A i \in 1 .. Len(s) : h[s[i]].pos # h[f].pos

(* The chain runs from head to tail, and the score is its length.           *)
Snaking(s) ==
  /\ Feeding(heap, s, pSnakeFood)
  /\ s[1] = pSnakeHead /\ s[Len(s)] = pSnakeTail
  /\ Len(s) = INIT_SNAKE_LENGTH + current_score
  /\ mode = "play" => InReach(heap, s, pSnakeFood)

SnakeInv ==
  /\ current_score \in Nat /\ level \in DOMAIN speed
  /\ mode \in {"play", "crashed", "gameover", "levelup", "killed"}
  /\ current_score <= levelup_score[level]
  /\ mode = "play" => current_score < levelup_score[level]
  /\ move_dir \in DOMAIN Deltas
  /\ TickerOfLevel
  /\ Snaking(Chain)

(* The square that the snake crawls onto.                                   *)
Onto ==
  <<heap[pSnakeHead].pos[1] + Deltas[move_dir][1], heap[pSnakeHead].pos[2] + Deltas[move_dir][2]>>

LEMMA DeltasAre ==
  ASSUME NEW d \in DOMAIN Deltas
  PROVE  Deltas[d][1] \in Int /\ Deltas[d][2] \in Int
<1>1. DOMAIN Deltas = {"left", "right", "up", "down"}
  BY DEF Deltas
<1>2. \A e \in {"left", "right", "up", "down"} : Deltas[e][1] \in Int /\ Deltas[e][2] \in Int
  BY DEF Deltas
<1>. QED
  BY <1>1, <1>2

LEMMA CrawledIs ==
  ASSUME NEW s, Chained(heap, s), s[1] = pSnakeHead, s[Len(s)] = pSnakeTail,
         move_dir \in DOMAIN Deltas
  PROVE  /\ Onto \in Int \X Int
         /\ Crawled = PutCell(PutPre(PutNext(heap, heap[pSnakeTail].pPre, VOID), s[1], s[Len(s)]),
                              s[Len(s)], Cell(Onto, s[1], VOID))
<1>1. heap[pSnakeHead].pos \in Int \X Int
  <2>1. s[1] \in Cells /\ heap[s[1]] # VOID
    BY DEF Chained
  <2>2. heap[s[1]] \in Node
    BY <2>1 DEF Chained
  <2>. QED
    BY <2>2, NodeIs
<1>2. Onto \in Int \X Int
  BY <1>1, DeltasAre DEF Onto
<1>. DEFINE last == heap[pSnakeTail].pPre
<1>3. [heap EXCEPT ![last].pNext = VOID, ![pSnakeHead].pPre = pSnakeTail]
        = PutPre(PutNext(heap, last, VOID), pSnakeHead, pSnakeTail)
  BY DEF PutPre, PutNext
<1>4. Crawled = PutCell(PutPre(PutNext(heap, last, VOID), pSnakeHead, pSnakeTail), pSnakeTail,
                        Cell(Onto, pSnakeHead, VOID))
  BY <1>3 DEF Crawled, Onto, PutCell
<1>. QED
  BY <1>2, <1>4

(* What eating writes, cell by cell.                                        *)
LEMMA EatWrites ==
  ASSUME NEW h \in Heaps, NEW f \in Cells, NEW first \in Cells, NEW second \in Cells,
         NEW last \in Cells, f \notin {first, second, last}, first \notin {second, last},
         h[f] # VOID, h[first] # VOID, h[second] # VOID, h[last] # VOID,
         NEW h2, h2 = PutPre(PutNext(PutNext(PutPre(PutNext(h, f, second), second, f),
                                             last, first), first, VOID), first, last)
  PROVE  /\ h2 \in Heaps
         /\ \A c \in Cells :
              /\ h2[c] = VOID <=> h[c] = VOID
              /\ h[c] # VOID =>
                   /\ h2[c].pos = h[c].pos
                   /\ h2[c].pNext = IF c = first THEN VOID ELSE IF c = last THEN first
                                    ELSE IF c = f THEN second ELSE h[c].pNext
                   /\ h2[c].pPre = IF c = first THEN last ELSE IF c = second THEN f ELSE h[c].pPre
<1>1. PICK h0 : h0 = PutNext(h, f, second)
  OBVIOUS
<1>2. PICK h1 : h1 = PutPre(h0, second, f)
  OBVIOUS
<1>3. PICK h3 : h3 = PutNext(h1, last, first)
  OBVIOUS
<1>4. PICK h4 : h4 = PutNext(h3, first, VOID)
  OBVIOUS
<1>5. h2 = PutPre(h4, first, last)
  BY <1>1, <1>2, <1>3, <1>4
<1>6. /\ h0 \in Heaps
      /\ \A y \in Cells : (h0[y] = VOID <=> h[y] = VOID) /\ (y # f => h0[y] = h[y])
      /\ h0[f].pos = h[f].pos /\ h0[f].pNext = second /\ h0[f].pPre = h[f].pPre
  BY <1>1, PutNextIs
<1>7. /\ h1 \in Heaps
      /\ \A y \in Cells : (h1[y] = VOID <=> h0[y] = VOID) /\ (y # second => h1[y] = h0[y])
      /\ h1[second].pos = h0[second].pos /\ h1[second].pNext = h0[second].pNext
      /\ h1[second].pPre = f
  BY <1>2, <1>6, PutPreIs
<1>8. /\ h3 \in Heaps
      /\ \A y \in Cells : (h3[y] = VOID <=> h1[y] = VOID) /\ (y # last => h3[y] = h1[y])
      /\ h3[last].pos = h1[last].pos /\ h3[last].pNext = first /\ h3[last].pPre = h1[last].pPre
  <2>1. h1[last] # VOID
    BY <1>6, <1>7
  <2>. QED
    BY <1>3, <1>7, <2>1, PutNextIs
<1>9. /\ h4 \in Heaps
      /\ \A y \in Cells : (h4[y] = VOID <=> h3[y] = VOID) /\ (y # first => h4[y] = h3[y])
      /\ h4[first].pos = h3[first].pos /\ h4[first].pNext = VOID /\ h4[first].pPre = h3[first].pPre
  <2>1. h3[first] # VOID
    BY <1>6, <1>7, <1>8
  <2>. QED
    BY <1>4, <1>8, <2>1, PutNextIs
<1>10. /\ h2 \in Heaps
       /\ \A y \in Cells : (h2[y] = VOID <=> h4[y] = VOID) /\ (y # first => h2[y] = h4[y])
       /\ h2[first].pos = h4[first].pos /\ h2[first].pNext = h4[first].pNext
       /\ h2[first].pPre = last
  <2>1. h4[first] # VOID
    BY <1>6, <1>7, <1>8, <1>9
  <2>. QED
    BY <1>5, <1>9, <2>1, PutPreIs
<1>11. ASSUME NEW c \in Cells PROVE h2[c] = VOID <=> h[c] = VOID
  BY <1>6, <1>7, <1>8, <1>9, <1>10
<1>12. ASSUME NEW c \in Cells, h[c] # VOID
       PROVE  /\ h2[c].pos = h[c].pos
              /\ h2[c].pNext = IF c = first THEN VOID ELSE IF c = last THEN first
                               ELSE IF c = f THEN second ELSE h[c].pNext
              /\ h2[c].pPre = IF c = first THEN last ELSE IF c = second THEN f ELSE h[c].pPre
  <2>1. CASE c = first
    BY <1>6, <1>7, <1>8, <1>9, <1>10, <2>1
  <2>2. CASE c # first /\ c = last
    BY <1>6, <1>7, <1>8, <1>9, <1>10, <2>2
  <2>3. CASE c # first /\ c # last
    BY <1>6, <1>7, <1>8, <1>9, <1>10, <2>3
  <2>. QED
    BY <2>1, <2>2, <2>3
<1>. QED
  BY <1>10, <1>11, <1>12

(* The food becomes the first cell, and the first cell the last one.        *)
LEMMA EatKeeps ==
  ASSUME NEW h, NEW s, Chained(h, s), NEW m, m = Len(s), m < Cardinality(Cells),
         NEW f \in Cells, h[f] # VOID, h[f].pPre = VOID, \A i \in 1 .. m : s[i] # f,
         NEW h2, h2 = PutPre(PutNext(PutNext(PutPre(PutNext(h, f, h[s[1]].pNext), h[s[1]].pNext, f),
                                             s[m], s[1]), s[1], VOID), s[1], s[m])
  PROVE  /\ \A c \in Cells : /\ h2[c] = VOID <=> h[c] = VOID
                             /\ h[c] # VOID => h2[c].pos = h[c].pos
         /\ \A r : /\ r \in Seq(Cells) /\ Len(r) = m + 1 /\ r[1] = f /\ r[m + 1] = s[1]
                   /\ \A i \in 2 .. m : r[i] = s[i]
                   => Chained(h2, r)
<1>1. /\ h \in Heaps
      /\ m \in Nat /\ m >= 2 /\ m + 1 <= Cardinality(Cells) /\ Cardinality(Cells) \in Nat
      /\ \A i \in 1 .. m : s[i] \in Cells /\ h[s[i]] # VOID
      /\ \A i, j \in 1 .. m : s[i] = s[j] => i = j
      /\ \A i \in 1 .. m : /\ h[s[i]].pNext = IF i = m THEN VOID ELSE s[i + 1]
                           /\ h[s[i]].pPre = IF i = 1 THEN VOID ELSE s[i - 1]
  <2>1. s \in Seq(Cells) => Len(s) \in Nat /\ \A i \in 1 .. Len(s) : s[i] \in Cells
    OBVIOUS
  <2>2. Len(s) \in Nat /\ Cardinality(Cells) \in Nat /\ Len(s) < Cardinality(Cells)
          => Len(s) + 1 <= Cardinality(Cells)
    OBVIOUS
  <2>. QED
    BY <2>1, <2>2, CellsAre DEF Chained, Heaps
<1>2. 1 \in 1 .. m /\ 2 \in 1 .. m /\ m \in 1 .. m /\ m # 1 /\ 1 + 1 = 2
  BY <1>1
<1>3. PICK first \in Cells, second \in Cells, last \in Cells :
        first = s[1] /\ second = s[2] /\ last = s[m]
  BY <1>1, <1>2
<1>4. h[first].pNext = second
  BY <1>1, <1>2, <1>3
<1>5. /\ f \notin {first, second, last} /\ first \notin {second, last}
      /\ h[first] # VOID /\ h[second] # VOID /\ h[last] # VOID
  BY <1>1, <1>2, <1>3
<1>6. h2 = PutPre(PutNext(PutNext(PutPre(PutNext(h, f, second), second, f),
                                  last, first), first, VOID), first, last)
  BY <1>3, <1>4
<1>7. /\ h2 \in Heaps
      /\ \A c \in Cells :
           /\ h2[c] = VOID <=> h[c] = VOID
           /\ h[c] # VOID =>
                /\ h2[c].pos = h[c].pos
                /\ h2[c].pNext = IF c = first THEN VOID ELSE IF c = last THEN first
                                 ELSE IF c = f THEN second ELSE h[c].pNext
                /\ h2[c].pPre = IF c = first THEN last ELSE IF c = second THEN f ELSE h[c].pPre
  <2>1. ASSUME NEW g, g = PutPre(PutNext(PutNext(PutPre(PutNext(h, f, second), second, f),
                                                 last, first), first, VOID), first, last)
        PROVE  /\ g \in Heaps
               /\ \A c \in Cells :
                    /\ g[c] = VOID <=> h[c] = VOID
                    /\ h[c] # VOID =>
                         /\ g[c].pos = h[c].pos
                         /\ g[c].pNext = IF c = first THEN VOID ELSE IF c = last THEN first
                                         ELSE IF c = f THEN second ELSE h[c].pNext
                         /\ g[c].pPre = IF c = first THEN last
                                        ELSE IF c = second THEN f ELSE h[c].pPre
    <3>1. h \in Heaps /\ h[f] # VOID
      BY <1>1
    <3>. QED
      BY <3>1, <1>5, <2>1, EatWrites, SMTT(60)
  <2>. QED
    BY <1>6, <2>1
<1>8. ASSUME NEW r, r \in Seq(Cells), Len(r) = m + 1, r[1] = f, r[m + 1] = s[1],
             \A i \in 2 .. m : r[i] = s[i]
      PROVE  Chained(h2, r)
  <2>1. ASSUME NEW i \in 1 .. m + 1, i # 1, i # m + 1
        PROVE  i \in 2 .. m /\ i \in 1 .. m /\ r[i] = s[i]
    BY <1>1, <1>8, <2>1
  <2>2. \A i, j \in 1 .. m + 1 : r[i] = r[j] => i = j
    <3>. SUFFICES ASSUME NEW i \in 1 .. m + 1, NEW j \in 1 .. m + 1, r[i] = r[j] PROVE i = j
      OBVIOUS
    <3>1. ASSUME NEW k \in 1 .. m + 1, k # 1 PROVE r[k] # f
      BY <1>2, <1>8, <2>1, <3>1
    <3>2. ASSUME NEW k \in 1 .. m + 1, k # m + 1 PROVE r[k] # s[1]
      <4>1. CASE k = 1
        BY <1>2, <1>8, <4>1
      <4>2. CASE k # 1
        BY <1>1, <1>2, <2>1, <3>2, <4>2
      <4>. QED
        BY <4>1, <4>2
    <3>3. CASE i = 1 \/ j = 1
      BY <1>8, <3>1, <3>3
    <3>4. CASE i = m + 1 \/ j = m + 1
      BY <1>8, <3>2, <3>4
    <3>5. CASE i \notin {1, m + 1} /\ j \notin {1, m + 1}
      BY <1>1, <2>1, <3>5
    <3>. QED
      BY <3>3, <3>4, <3>5
  <2>3. ASSUME NEW i \in 1 .. m + 1
        PROVE  /\ h2[r[i]] # VOID
               /\ h2[r[i]].pNext = IF i = m + 1 THEN VOID ELSE r[i + 1]
               /\ h2[r[i]].pPre = IF i = 1 THEN VOID ELSE r[i - 1]
    <3>1. CASE i = 1
      <4>1. r[2] = second /\ 1 # m + 1
        BY <1>1, <1>3, <1>8
      <4>. QED
        BY <1>2, <1>5, <1>7, <1>8, <3>1, <4>1
    <3>2. CASE i = m + 1
      <4>1. m \in 2 .. m /\ i # 1 /\ i - 1 = m
        BY <1>1, <3>2
      <4>2. r[i - 1] = last /\ r[i] = first
        BY <1>3, <1>8, <3>2, <4>1
      <4>. QED
        BY <1>5, <1>7, <3>2, <4>1, <4>2
    <3>3. CASE i # 1 /\ i # m + 1
      <4>1. i \in 1 .. m /\ i \in 2 .. m /\ r[i] = s[i]
        BY <2>1, <3>3
      <4>2. /\ s[i] \in Cells /\ h[s[i]] # VOID /\ s[i] # first /\ s[i] # f
            /\ s[i] = last <=> i = m
            /\ s[i] = second <=> i = 2
        BY <1>1, <1>2, <1>3, <3>3, <4>1
      <4>3. /\ h2[s[i]] # VOID
            /\ h2[s[i]].pNext = IF i = m THEN first ELSE s[i + 1]
            /\ h2[s[i]].pPre = IF i = 2 THEN f ELSE s[i - 1]
        BY <1>1, <1>7, <3>3, <4>1, <4>2
      <4>4. r[i + 1] = IF i = m THEN first ELSE s[i + 1]
        <5>1. i # m => i + 1 \in 2 .. m
          BY <1>1, <4>1
        <5>. QED
          BY <1>3, <1>8, <5>1
      <4>5. r[i - 1] = IF i = 2 THEN f ELSE s[i - 1]
        <5>1. i # 2 => i - 1 \in 2 .. m
          BY <1>1, <4>1
        <5>2. i = 2 => i - 1 = 1
          BY <1>2
        <5>. QED
          BY <1>8, <5>1, <5>2
      <4>. QED
        BY <3>3, <4>1, <4>3, <4>4, <4>5
    <3>. QED
      BY <3>1, <3>2, <3>3
  <2>4. m + 1 >= 2 /\ m + 1 <= Cardinality(Cells)
    BY <1>1
  <2>5. h2 \in [Cells -> Node \cup {VOID}]
    BY ONLY <1>7 DEF Heaps
  <2>. QED
    BY ONLY <1>8, <2>2, <2>3, <2>4, <2>5, SMTT(60) DEF Chained
<1>. QED
  BY <1>7, <1>8

(* A heap that is not full has a cell for malloc.                           *)
LEMMA MallocIs ==
  ASSUME NEW h \in Heaps, NEW s \in Seq(Cells), Len(s) < Cardinality(Cells),
         \A c \in Cells : h[c] # VOID => \E i \in 1 .. Len(s) : c = s[i]
  PROVE  malloc(h) \in Cells /\ h[malloc(h)] = VOID
<1>. DEFINE place == [c \in Cells |-> CHOOSE i \in 1 .. Len(s) : c = s[i]]
<1>1. Unused(h) # {}
  <2>. SUFFICES ASSUME \A c \in Cells : h[c] # VOID PROVE FALSE
    BY DEF Unused
  <2>1. IsFiniteSet(1 .. Len(s)) /\ Cardinality(1 .. Len(s)) = Len(s)
    <3>1. PICK k \in Nat : k = Len(s)
      OBVIOUS
    <3>2. 1 \in Int /\ k \in Int /\ (1 > k => k = 0) /\ k - 1 + 1 = k
      OBVIOUS
    <3>3. IsFiniteSet(1 .. k) /\ Cardinality(1 .. k) = k
      BY <3>2, FS_Interval
    <3>. QED
      BY <3>1, <3>3
  <2>2. \A c \in Cells : place[c] \in 1 .. Len(s) /\ c = s[place[c]]
    OBVIOUS
  <2>3. place \in [Cells -> 1 .. Len(s)]
    BY <2>2
  <2>. HIDE DEF place
  <2>4. PICK c \in Cells, d \in Cells : c # d /\ place[c] = place[d]
    <3>1. PICK T : T = 1 .. Len(s)
      OBVIOUS
    <3>2. IsFiniteSet(T) /\ Cardinality(T) < Cardinality(Cells) /\ place \in [Cells -> T]
      BY <2>1, <2>3, <3>1
    <3>3. IsFiniteSet(Cells)
      BY CellsAre
    <3>. QED
      BY <3>2, <3>3, FS_PigeonHole
  <2>. QED
    BY <2>2, <2>4
<1>2. Unused(h) \in SUBSET Nat /\ Unused(h) \subseteq Cells
  BY CellsAre DEF Unused
<1>3. \E c \in Unused(h) : \A d \in Unused(h) : c <= d
  BY <1>1, <1>2, LeastNumber
<1>4. malloc(h) \in Unused(h)
  BY <1>3 DEF malloc, Min
<1>. QED
  BY <1>4 DEF Unused

(* put_food: the food lies off the snake, in a cell of its own.             *)
LEMMA FoodIsPut ==
  ASSUME NEW h, NEW s, Chained(h, s), Len(s) < Cardinality(Cells),
         \A c \in Cells : h[c] # VOID => \E i \in 1 .. Len(s) : c = s[i],
         NEW f, f = malloc(h), NEW at \in Room \ Squares(h),
         NEW h2, h2 = PutCell(h, f, Cell(at, VOID, VOID))
  PROVE  /\ Feeding(h2, s, f) /\ InReach(h2, s, f)
         /\ \A i \in 1 .. Len(s) : h2[s[i]].pos = h[s[i]].pos
<1>1. h \in Heaps /\ s \in Seq(Cells)
  BY DEF Chained, Heaps
<1>2. f \in Cells /\ h[f] = VOID
  BY <1>1, MallocIs
<1>3. at \in Int \X Int
  BY SnakeAssumption DEF Room
<1>4. /\ Cell(at, VOID, VOID) \in Node /\ Cell(at, VOID, VOID) # VOID
      /\ Cell(at, VOID, VOID).pos = at /\ Cell(at, VOID, VOID).pPre = VOID
  BY <1>3, CellIs
<1>5. /\ h2 \in Heaps /\ h2[f] = Cell(at, VOID, VOID)
      /\ \A c \in Cells : c # f => h2[c] = h[c]
  BY <1>1, <1>2, <1>4, PutCellIs
<1>6. \A i \in 1 .. Len(s) : s[i] \in Cells /\ h[s[i]] # VOID /\ s[i] # f /\ h2[s[i]] = h[s[i]]
  <2>1. \A i \in 1 .. Len(s) : s[i] \in Cells /\ h[s[i]] # VOID
    BY DEF Chained
  <2>. QED
    BY <1>2, <1>5, <2>1
<1>7. Chained(h2, s)
  BY <1>5, <1>6 DEF Chained, Heaps
<1>8. \A i \in 1 .. Len(s) : h[s[i]].pos # at
  BY <1>6 DEF Squares
<1>9. Feeding(h2, s, f)
  BY <1>2, <1>4, <1>5, <1>6, <1>7 DEF Feeding
<1>10. InReach(h2, s, f)
  BY <1>4, <1>5, <1>6, <1>8 DEF InReach
<1>. QED
  BY <1>6, <1>9, <1>10

(* init_snake links its cells one by one.                                   *)
LEMMA FreshIsChained ==
  /\ Chained(Fresh, [i \in 1 .. INIT_SNAKE_LENGTH |-> i])
  /\ \A c \in Cells : Fresh[c] # VOID <=> c <= INIT_SNAKE_LENGTH
  /\ INIT_SNAKE_LENGTH \in Nat /\ INIT_SNAKE_LENGTH >= 2
  /\ INIT_SNAKE_LENGTH < Cardinality(Cells)
  /\ INIT_SNAKE_LENGTH \in Cells /\ 1 \in Cells
<1>. DEFINE N == INIT_SNAKE_LENGTH
            s == [i \in 1 .. N |-> i]
<1>1. N \in Nat /\ N >= 2
  BY SnakeAssumption
<1>2. N < Cardinality(Cells) /\ Cells = 1 .. Cardinality(Cells) /\ Cardinality(Cells) \in Nat
  <2>1. levelup_score[Len(levelup_score)] \in Nat
    BY SnakeAssumption
  <2>. QED
    BY <1>1, <2>1, CellsAre
<1>3. N \in Cells /\ 1 \in Cells /\ \A i \in 1 .. N : i \in Cells
  BY <1>1, <1>2
<1>4. s \in Seq(Cells) /\ Len(s) = N /\ \A i \in 1 .. N : s[i] = i
  BY <1>1, <1>3
<1>5. ASSUME NEW c \in Cells, c <= N
      PROVE  /\ Fresh[c] \in Node /\ Fresh[c] # VOID
             /\ Fresh[c].pNext = IF c = N THEN VOID ELSE c + 1
             /\ Fresh[c].pPre = IF c = 1 THEN VOID ELSE c - 1
  <2>1. PICK at \in Int \X Int : at = <<INIT_POS_X, INIT_POS_Y + INIT_SNAKE_LENGTH - (c - 1)>>
    <3>1. c \in Int /\ INIT_POS_X \in Int /\ INIT_POS_Y \in Int /\ INIT_SNAKE_LENGTH \in Int
      BY <1>1, <1>2, SnakeAssumption
    <3>2. INIT_POS_Y + INIT_SNAKE_LENGTH - (c - 1) \in Int
      BY <3>1
    <3>. QED
      BY <3>1, <3>2
  <2>2. PICK p \in Cells \cup {VOID} : p = IF c = N THEN VOID ELSE c + 1
    BY <1>1, <1>2, <1>5
  <2>3. PICK q \in Cells \cup {VOID} : q = IF c = 1 THEN VOID ELSE c - 1
    BY <1>1, <1>2, <1>5
  <2>4. ~ (c > INIT_SNAKE_LENGTH)
    BY <1>1, <1>2, <1>5
  <2>5. Fresh[c] = Cell(at, p, q)
    BY <2>1, <2>2, <2>3, <2>4 DEF Fresh
  <2>6. /\ Cell(at, p, q) \in Node /\ Cell(at, p, q) # VOID
        /\ Cell(at, p, q).pNext = p /\ Cell(at, p, q).pPre = q
    BY CellIs
  <2>. QED
    BY <2>2, <2>3, <2>5, <2>6
<1>6. ASSUME NEW c \in Cells, ~ (c <= N) PROVE Fresh[c] = VOID
  <2>1. c > INIT_SNAKE_LENGTH
    BY <1>1, <1>2, <1>6
  <2>. QED
    BY <2>1 DEF Fresh
<1>. HIDE DEF N, s
<1>7. Fresh \in [Cells -> Node \cup {VOID}]
  <2>1. \A c \in Cells : Fresh[c] \in Node \cup {VOID}
    BY <1>5, <1>6
  <2>. QED
    BY <2>1 DEF Fresh
<1>8. \A i \in 1 .. N : i \in Cells /\ i <= N
  BY <1>1, <1>3
<1>9. \A i \in 1 .. N : /\ i # N => i + 1 \in 1 .. N
                        /\ i # 1 => i - 1 \in 1 .. N
  BY <1>1
<1>10. Chained(Fresh, s)
  <2>1. ASSUME NEW i \in 1 .. N
        PROVE  /\ Fresh[s[i]] # VOID
               /\ Fresh[s[i]].pNext = IF i = N THEN VOID ELSE s[i + 1]
               /\ Fresh[s[i]].pPre = IF i = 1 THEN VOID ELSE s[i - 1]
    <3>1. s[i] = i /\ i \in Cells /\ i <= N
      BY <1>4, <1>8
    <3>2. /\ i # N => s[i + 1] = i + 1
          /\ i # 1 => s[i - 1] = i - 1
      BY <1>4, <1>9
    <3>. QED
      BY <1>5, <3>1, <3>2
  <2>2. \A i, j \in 1 .. N : s[i] = s[j] => i = j
    BY <1>4
  <2>. QED
    BY <1>1, <1>2, <1>4, <1>7, <2>1, <2>2 DEF Chained
<1>. QED
  BY <1>1, <1>2, <1>3, <1>5, <1>6, <1>10 DEF N, s

(* A new snake, and its first food.                                         *)
LEMMA NewSnakeIs ==
  ASSUME NEW f, f = malloc(Fresh), NEW at \in Room \ Squares(Fresh),
         NEW h2, h2 = [Fresh EXCEPT ![f] = Cell(at, VOID, VOID)]
  PROVE  \E s : /\ Feeding(h2, s, f) /\ InReach(h2, s, f)
                /\ s[1] = 1 /\ s[Len(s)] = INIT_SNAKE_LENGTH /\ Len(s) = INIT_SNAKE_LENGTH
<1>. DEFINE N == INIT_SNAKE_LENGTH
<1>1. PICK s : s = [i \in 1 .. N |-> i]
  OBVIOUS
<1>2. Chained(Fresh, s) /\ N \in Nat /\ N >= 2 /\ N < Cardinality(Cells)
  BY <1>1, FreshIsChained
<1>3. Len(s) = N /\ \A i \in 1 .. N : s[i] = i
  BY <1>1, <1>2
<1>4. 1 \in 1 .. N /\ N \in 1 .. N
  BY <1>2
<1>5. \A c \in Cells : Fresh[c] # VOID => \E i \in 1 .. Len(s) : c = s[i]
  <2>. SUFFICES ASSUME NEW c \in Cells, Fresh[c] # VOID PROVE \E i \in 1 .. Len(s) : c = s[i]
    OBVIOUS
  <2>1. c <= N /\ c \in 1 .. Cardinality(Cells)
    BY FreshIsChained, CellsAre
  <2>2. c \in 1 .. N
    BY <1>2, <2>1, CellsAre
  <2>. QED
    BY <1>3, <2>2
<1>6. h2 = PutCell(Fresh, f, Cell(at, VOID, VOID))
  BY DEF PutCell
<1>7. Feeding(h2, s, f) /\ InReach(h2, s, f)
  BY <1>2, <1>3, <1>5, <1>6, FoodIsPut
<1>. QED
  BY <1>3, <1>4, <1>7

LEMMA SnakingIsChain ==
  ASSUME NEW s, Snaking(s)
  PROVE  Chain = s
BY ChainIs DEF Snaking, Feeding, Chain

LEMMA LevelsAre ==
  ASSUME NEW l \in DOMAIN speed
  PROVE  /\ speed[l] \in Nat /\ speed[l] # 0 /\ levelup_score[l] \in Nat /\ levelup_score[l] > 0
         /\ levelup_score[l] <= levelup_score[Len(levelup_score)]
         /\ 1 \in DOMAIN speed /\ (l # Len(speed) => l + 1 \in DOMAIN speed)
<1>1. /\ speed \in Seq(Nat \ {0}) /\ levelup_score \in Seq(Nat \ {0})
      /\ Len(speed) = Len(levelup_score) /\ Len(speed) > 0
      /\ DOMAIN speed = 1 .. Len(speed) /\ DOMAIN levelup_score = 1 .. Len(speed)
      /\ \A i, k \in DOMAIN speed : i <= k => levelup_score[i] <= levelup_score[k]
  BY SnakeAssumption
<1>2. /\ Len(speed) \in Nat /\ l \in 1 .. Len(speed) /\ Len(speed) \in 1 .. Len(speed)
      /\ 1 \in 1 .. Len(speed) /\ l <= Len(speed)
      /\ l # Len(speed) => l + 1 \in 1 .. Len(speed)
  BY <1>1
<1>3. speed[l] \in Nat \ {0} /\ levelup_score[l] \in Nat \ {0}
  BY <1>1, <1>2
<1>. QED
  BY <1>1, <1>2, <1>3

LEMMA SnakeStarts == SnakeInit => SnakeInv
<1>. SUFFICES ASSUME SnakeInit PROVE SnakeInv
  OBVIOUS
<1>1. PICK at \in Room \ Squares(Fresh) :
        pSnakeFood = malloc(Fresh) /\ heap = [Fresh EXCEPT ![pSnakeFood] = Cell(at, VOID, VOID)]
  BY DEF SnakeInit
<1>2. PICK s : /\ Feeding(heap, s, pSnakeFood) /\ InReach(heap, s, pSnakeFood)
               /\ s[1] = 1 /\ s[Len(s)] = INIT_SNAKE_LENGTH /\ Len(s) = INIT_SNAKE_LENGTH
  BY <1>1, NewSnakeIs
<1>3. INIT_SNAKE_LENGTH = INIT_SNAKE_LENGTH + 0
  BY FreshIsChained
<1>4. Snaking(s)
  BY <1>2, <1>3 DEF SnakeInit, Snaking
<1>5. 1 \in DOMAIN speed
  BY SnakeAssumption
<1>6. levelup_score[1] \in Nat /\ levelup_score[1] > 0
  BY <1>5, LevelsAre
<1>7. "right" \in DOMAIN Deltas
  BY DEF Deltas
<1>. QED
  BY <1>4, <1>5, <1>6, <1>7, SnakingIsChain DEF SnakeInit, SnakeInv, TickerOfLevel

(* r is the chain s with its last cell in front.                            *)
CrawlsTo(s, r) ==
  /\ Chained(Crawled, r) /\ Len(r) = Len(s)
  /\ r[1] = s[Len(s)] /\ r[Len(s)] = s[Len(s) - 1]
  /\ \A i \in 1 .. Len(s) - 1 : r[i + 1] = s[i]

(* The way the first cell goes: the crawl by itself.                        *)
LEMMA Crawls ==
  ASSUME SnakeInv, NEW s, s = Chain, NEW m, m = Len(s)
  PROVE  /\ m \in Nat /\ m >= 2 /\ Onto \in Int \X Int
         /\ s[1] = pSnakeHead /\ s[m] = pSnakeTail
         /\ heap[pSnakeTail].pPre = s[m - 1] /\ Crawled[pSnakeTail].pos = Onto
         /\ \A c \in Cells : (Crawled[c] # VOID <=> heap[c] # VOID)
         /\ \A i \in 1 .. m - 1 : Crawled[s[i]].pos = heap[s[i]].pos
         /\ Crawled[pSnakeFood] = heap[pSnakeFood]
         /\ \E r : CrawlsTo(s, r)
<1>1. Snaking(s) /\ move_dir \in DOMAIN Deltas
  BY DEF SnakeInv
<1>2. /\ Chained(heap, s) /\ s[1] = pSnakeHead /\ s[m] = pSnakeTail
      /\ pSnakeFood \in Cells /\ \A i \in 1 .. m : s[i] # pSnakeFood
  BY <1>1 DEF Snaking, Feeding
<1>3. /\ m \in Nat /\ m >= 2 /\ s \in Seq(Cells)
      /\ \A i \in 1 .. m : s[i] \in Cells /\ heap[s[i]] # VOID
      /\ \A i, j \in 1 .. m : s[i] = s[j] => i = j
  <2>1. s \in Seq(Cells) /\ Len(s) >= 2
    BY <1>2 DEF Chained
  <2>2. Len(s) \in Nat /\ \A i \in 1 .. Len(s) : s[i] \in Cells
    BY <2>1
  <2>. QED
    BY <1>2, <2>1, <2>2 DEF Chained
<1>4. PICK last : last = heap[s[m]].pPre
  OBVIOUS
<1>5. /\ Onto \in Int \X Int
      /\ Crawled = PutCell(PutPre(PutNext(heap, last, VOID), s[1], s[m]), s[m],
                           Cell(Onto, s[1], VOID))
  BY <1>1, <1>2, <1>4, CrawledIs
<1>6. /\ last = s[m - 1] /\ Crawled[s[m]].pos = Onto
      /\ \A c \in Cells : /\ Crawled[c] # VOID <=> heap[c] # VOID
                          /\ heap[c] # VOID /\ c # s[m] => Crawled[c].pos = heap[c].pos
                          /\ (\A i \in 1 .. m : c # s[i]) => Crawled[c] = heap[c]
      /\ \A r : /\ r \in Seq(Cells) /\ Len(r) = m /\ r[1] = s[m]
                /\ \A i \in 1 .. m - 1 : r[i + 1] = s[i]
                => Chained(Crawled, r)
  <2>1. PICK at \in Int \X Int : at = Onto
    BY <1>5
  <2>2. PICK h2 : h2 = Crawled
    OBVIOUS
  <2>3. h2 = PutCell(PutPre(PutNext(heap, last, VOID), s[1], s[m]), s[m], Cell(at, s[1], VOID))
    BY <1>5, <2>1, <2>2
  <2>4. /\ last = s[m - 1]
        /\ h2[s[m]].pos = at
        /\ \A c \in Cells : /\ h2[c] # VOID <=> heap[c] # VOID
                            /\ heap[c] # VOID /\ c # s[m] => h2[c].pos = heap[c].pos
                            /\ (\A i \in 1 .. m : c # s[i]) => h2[c] = heap[c]
        /\ \A r : /\ r \in Seq(Cells) /\ Len(r) = m /\ r[1] = s[m]
                  /\ \A i \in 1 .. m - 1 : r[i + 1] = s[i]
                  => Chained(h2, r)
    BY <1>2, <1>4, <2>3, CrawlKeeps, SMTT(60)
  <2>. QED
    BY <2>1, <2>2, <2>4
<1>7. PICK r : r = [i \in 1 .. m |-> IF i = 1 THEN s[m] ELSE s[i - 1]]
  OBVIOUS
<1>8. /\ r \in Seq(Cells) /\ Len(r) = m /\ r[1] = s[m] /\ r[m] = s[m - 1]
      /\ \A i \in 1 .. m - 1 : r[i + 1] = s[i]
  <2>1. \A i \in 1 .. m : r[i] \in Cells
    <3>1. m \in 1 .. m /\ \A i \in 1 .. m : i # 1 => i - 1 \in 1 .. m
      BY <1>3
    <3>. QED
      BY <1>3, <1>7, <3>1
  <2>2. r \in Seq(Cells) /\ Len(r) = m
    BY <1>3, <1>7, <2>1
  <2>3. \A i \in 1 .. m - 1 : i + 1 \in 1 .. m /\ i + 1 # 1 /\ (i + 1) - 1 = i
    BY <1>3
  <2>4. 1 \in 1 .. m /\ m \in 1 .. m /\ m # 1
    BY <1>3
  <2>. QED
    BY <1>7, <2>2, <2>3, <2>4
<1>9. \A i \in 1 .. m - 1 : s[i] \in Cells /\ heap[s[i]] # VOID /\ s[i] # s[m]
  <2>1. m \in 1 .. m /\ \A i \in 1 .. m - 1 : i \in 1 .. m /\ i # m
    BY <1>3
  <2>. QED
    BY <1>3, <2>1
<1>10. Crawled[pSnakeFood] = heap[pSnakeFood]
  BY <1>2, <1>6
<1>11. CrawlsTo(s, r)
  BY <1>6, <1>8 DEF CrawlsTo
<1>. QED
  BY <1>2, <1>3, <1>4, <1>5, <1>6, <1>9, <1>10, <1>11

(* Where the cells of a chain lie.                                          *)
Where(h, s) == [i \in DOMAIN s |-> h[s[i]].pos]

LEMMA WhereIs ==
  ASSUME NEW h, NEW s, Chained(h, s)
  PROVE  /\ Where(h, s) \in Seq(Int \X Int) /\ Len(Where(h, s)) = Len(s)
         /\ Len(s) \in Nat /\ Len(s) >= 2
         /\ \A i \in 1 .. Len(s) : Where(h, s)[i] = h[s[i]].pos
<1>1. s \in Seq(Cells) /\ Len(s) \in Nat /\ Len(s) >= 2 /\ DOMAIN s = 1 .. Len(s)
  BY DEF Chained
<1>2. \A i \in 1 .. Len(s) : h[s[i]].pos \in Int \X Int
  <2>. SUFFICES ASSUME NEW i \in 1 .. Len(s) PROVE h[s[i]].pos \in Int \X Int
    OBVIOUS
  <2>1. s[i] \in Cells
    BY <1>1
  <2>2. h[s[i]] \in Node
    BY <2>1 DEF Chained
  <2>. QED
    BY <2>2, NodeIs
<1>. QED
  BY <1>1, <1>2 DEF Where

(* A snake of the same length, one square further.                          *)
LEMMA OneFurther ==
  ASSUME NEW p \in Seq(Int \X Int), Len(p) >= 2, NEW q \in Seq(Int \X Int), Len(q) = Len(p),
         NEW x \in Int \X Int, q[1] = x, \A i \in 1 .. Len(p) - 1 : q[i + 1] = p[i]
  PROVE  q = <<x>> \o Front(p)
<1>1. PICK S : S = Int \X Int
  OBVIOUS
<1>2. p \in Seq(S) /\ q \in Seq(S) /\ x \in S /\ Len(p) >= 1
  BY <1>1
<1>3. /\ Front(p) \in Seq(S) /\ Len(Front(p)) = Len(p) - 1 /\ Len(p) \in Nat
      /\ \A i \in 1 .. Len(p) - 1 : Front(p)[i] = p[i]
  BY <1>2, FrontIs
<1>4. <<x>> \in Seq(S) /\ Len(<<x>>) = 1 /\ <<x>>[1] = x
  BY <1>2
<1>. DEFINE g == <<x>> \o Front(p)
<1>5. /\ g \in Seq(S) /\ Len(g) = Len(p) /\ g[1] = x
      /\ \A i \in 1 .. Len(p) - 1 : g[i + 1] = p[i]
  BY <1>3, <1>4
<1>. HIDE DEF g
<1>6. \A i \in 1 .. Len(q) : q[i] = g[i]
  <2>. SUFFICES ASSUME NEW i \in 1 .. Len(q) PROVE q[i] = g[i]
    OBVIOUS
  <2>1. CASE i = 1
    BY <1>5, <2>1
  <2>2. CASE i # 1
    <3>1. i - 1 \in 1 .. Len(p) - 1 /\ (i - 1) + 1 = i
      BY <1>3, <2>2
    <3>2. q[(i - 1) + 1] = g[(i - 1) + 1]
      BY <1>5, <3>1
    <3>. QED
      BY <3>1, <3>2
  <2>. QED
    BY <2>1, <2>2
<1>7. q = g
  BY <1>2, <1>5, <1>6, SeqEqual
<1>. QED
  BY <1>7 DEF g

(* What is seen of the snake.                                               *)
LEMMA TrailIs ==
  ASSUME SnakeInv, NEW p, p = Where(heap, Chain)
  PROVE  /\ (IF Len(Trail) < Len(Chain) THEN Trail ELSE Front(Trail)) = Front(p)
         /\ Trail[1] = p[1]
<1>1. Chained(heap, Chain)
  BY DEF SnakeInv, Snaking, Feeding
<1>2. p \in Seq(Int \X Int) /\ Len(p) = Len(Chain) /\ Len(p) \in Nat /\ Len(p) >= 2
  BY <1>1, WhereIs
<1>3. /\ Len(Front(p)) = Len(p) - 1
      /\ \A i \in 1 .. Len(p) - 1 : Front(p)[i] = p[i]
  <2>1. PICK S : S = Int \X Int
    OBVIOUS
  <2>2. p \in Seq(S) /\ Len(p) >= 1
    BY <1>2, <2>1
  <2>. QED
    BY <2>2, FrontIs
<1>4. Trail \in {p, Front(p)}
  BY DEF Trail, Where
<1>5. Len(Front(p)) < Len(Chain) /\ ~ (Len(p) < Len(Chain))
  BY <1>2, <1>3
<1>6. Front(p)[1] = p[1]
  <2>1. 1 \in 1 .. Len(p) - 1
    BY <1>2
  <2>. QED
    BY <1>3, <2>1
<1>. QED
  BY <1>4, <1>5, <1>6

(* The crawled snake with its food.                                         *)
CrawlsOnto(s, m, r) ==
  /\ Feeding(Crawled, r, pSnakeFood)
  /\ Len(r) = m /\ r[1] = pSnakeTail /\ r[m] = heap[pSnakeTail].pPre /\ r[m] = s[m - 1]
  /\ Crawled[r[1]].pos = Onto
  /\ \A i \in 1 .. m - 1 : r[i + 1] = s[i] /\ Crawled[r[i + 1]].pos = heap[s[i]].pos

LEMMA CrawlFeeds ==
  ASSUME SnakeInv, NEW s, s = Chain, NEW m, m = Len(s)
  PROVE  \E r : CrawlsOnto(s, m, r)
<1>1. /\ m \in Nat /\ m >= 2
      /\ s[1] = pSnakeHead /\ s[m] = pSnakeTail
      /\ heap[pSnakeTail].pPre = s[m - 1] /\ Crawled[pSnakeTail].pos = Onto
      /\ \A c \in Cells : (Crawled[c] # VOID <=> heap[c] # VOID)
      /\ \A i \in 1 .. m - 1 : Crawled[s[i]].pos = heap[s[i]].pos
      /\ Crawled[pSnakeFood] = heap[pSnakeFood]
  BY Crawls
<1>2. PICK r : /\ Chained(Crawled, r) /\ Len(r) = m /\ r[1] = s[m] /\ r[m] = s[m - 1]
               /\ \A i \in 1 .. m - 1 : r[i + 1] = s[i]
  <2>1. PICK r : CrawlsTo(s, r)
    BY Crawls
  <2>. QED
    BY <2>1 DEF CrawlsTo
<1>3. Feeding(heap, s, pSnakeFood)
  BY DEF SnakeInv, Snaking
<1>4. ASSUME NEW i \in 1 .. m PROVE r[i] # pSnakeFood
  <2>1. CASE i = 1
    <3>1. m \in 1 .. m
      BY <1>1
    <3>. QED
      BY <1>2, <1>3, <2>1, <3>1 DEF Feeding
  <2>2. CASE i # 1
    <3>1. i - 1 \in 1 .. m - 1 /\ (i - 1) + 1 = i /\ i - 1 \in 1 .. m
      BY <1>1, <2>2
    <3>2. r[(i - 1) + 1] = s[i - 1]
      BY <1>2, <3>1
    <3>. QED
      BY <1>3, <3>1, <3>2 DEF Feeding
  <2>. QED
    BY <2>1, <2>2
<1>5. ASSUME NEW c \in Cells, Crawled[c] # VOID
      PROVE  c = pSnakeFood \/ \E i \in 1 .. Len(r) : c = r[i]
  <2>1. CASE c = pSnakeFood
    BY <2>1
  <2>2. CASE c # pSnakeFood
    <3>1. PICK i \in 1 .. m : c = s[i]
      BY <1>1, <1>3, <1>5, <2>2 DEF Feeding
    <3>2. CASE i = m
      <4>1. 1 \in 1 .. Len(r)
        BY <1>1, <1>2
      <4>. QED
        BY <1>2, <3>1, <3>2, <4>1
    <3>3. CASE i # m
      <4>1. i \in 1 .. m - 1 /\ i + 1 \in 1 .. Len(r)
        BY <1>1, <1>2, <3>3
      <4>. QED
        BY <1>2, <3>1, <4>1
    <3>. QED
      BY <3>2, <3>3
  <2>. QED
    BY <2>1, <2>2
<1>6. Feeding(Crawled, r, pSnakeFood)
  BY <1>1, <1>2, <1>3, <1>4, <1>5 DEF Feeding
<1>7. CrawlsOnto(s, m, r)
  BY <1>1, <1>2, <1>6 DEF CrawlsOnto
<1>. QED
  BY <1>7

(* A tick that does not feed.                                               *)
LEMMA CreepGoesOn ==
  ASSUME SnakeInv, mode = "play", mode' = "play", Creep
  PROVE  SnakeInv' /\ Trail' = <<Onto>> \o Front(Where(heap, Chain))
<1>1. PICK s, m : s = Chain /\ m = Len(s)
  OBVIOUS
<1>2. PICK r : /\ Feeding(Crawled, r, pSnakeFood)
               /\ Len(r) = m /\ r[1] = pSnakeTail /\ r[m] = heap[pSnakeTail].pPre
               /\ r[m] = s[m - 1]
               /\ Crawled[r[1]].pos = Onto
               /\ \A i \in 1 .. m - 1 : /\ r[i + 1] = s[i]
                                        /\ Crawled[r[i + 1]].pos = heap[s[i]].pos
  <2>1. PICK r : CrawlsOnto(s, m, r)
    BY <1>1, CrawlFeeds
  <2>. QED
    BY <2>1 DEF CrawlsOnto
<1>3. /\ m \in Nat /\ m >= 2 /\ Onto \in Int \X Int /\ s[m] = pSnakeTail
      /\ Crawled[pSnakeTail].pos = Onto /\ Crawled[pSnakeFood] = heap[pSnakeFood]
  BY <1>1, Crawls
<1>4. Snaking(s) /\ Feeding(heap, s, pSnakeFood) /\ InReach(heap, s, pSnakeFood)
  BY <1>1 DEF SnakeInv, Snaking
<1>5. /\ heap' = Crawled /\ pSnakeHead' = pSnakeTail /\ pSnakeTail' = heap[pSnakeTail].pPre
      /\ UNCHANGED <<pSnakeFood, current_score, level, ticker, move_dir>>
      /\ ~ is_snake_dead(Onto) /\ Onto # heap[pSnakeFood].pos
  BY <1>3 DEF Creep
<1>6. InReach(heap', r, pSnakeFood')
  <2>1. ASSUME NEW i \in 1 .. m PROVE Crawled[r[i]].pos # heap[pSnakeFood].pos
    <3>1. CASE i = 1
      BY <1>2, <1>5, <3>1
    <3>2. CASE i # 1
      <4>1. i - 1 \in 1 .. m - 1 /\ (i - 1) + 1 = i /\ i - 1 \in 1 .. m
        BY <1>3, <3>2
      <4>2. Crawled[r[(i - 1) + 1]].pos = heap[s[i - 1]].pos
        BY <1>2, <4>1
      <4>. QED
        BY <1>1, <1>4, <4>1, <4>2 DEF InReach
    <3>. QED
      BY <3>1, <3>2
  <2>. QED
    BY <1>2, <1>3, <1>4, <1>5, <2>1 DEF InReach
<1>7. Snaking(r)'
  BY <1>1, <1>2, <1>4, <1>5, <1>6 DEF Snaking
<1>8. Chain' = r
  BY <1>7, ChainIs DEF Snaking, Feeding, Chain
<1>9. SnakeInv'
  BY <1>5, <1>7, <1>8 DEF SnakeInv, TickerOfLevel
<1>10. PICK p, q : p = Where(heap, s) /\ q = Where(heap', r)
  OBVIOUS
<1>11. /\ p \in Seq(Int \X Int) /\ Len(p) = m /\ \A i \in 1 .. m : p[i] = heap[s[i]].pos
       /\ q \in Seq(Int \X Int) /\ Len(q) = m /\ \A i \in 1 .. m : q[i] = Crawled[r[i]].pos
  <2>1. Chained(heap, s) /\ Chained(Crawled, r)
    BY <1>2, <1>4 DEF Feeding
  <2>2. /\ Where(heap, s) \in Seq(Int \X Int) /\ Len(Where(heap, s)) = Len(s)
        /\ \A i \in 1 .. Len(s) : Where(heap, s)[i] = heap[s[i]].pos
    BY ONLY <2>1, WhereIs
  <2>3. /\ Where(Crawled, r) \in Seq(Int \X Int) /\ Len(Where(Crawled, r)) = Len(r)
        /\ \A i \in 1 .. Len(r) : Where(Crawled, r)[i] = Crawled[r[i]].pos
    BY ONLY <2>1, WhereIs
  <2>. QED
    BY <1>1, <1>2, <1>5, <1>10, <2>2, <2>3
<1>12. q[1] = Onto /\ \A i \in 1 .. m - 1 : q[i + 1] = p[i]
  <2>1. 1 \in 1 .. m /\ \A i \in 1 .. m - 1 : i \in 1 .. m /\ i + 1 \in 1 .. m
    BY <1>3
  <2>. QED
    BY <1>2, <1>11, <2>1
<1>13. q = <<Onto>> \o Front(p)
  <2>1. /\ Len(p) >= 2 /\ Len(q) = Len(p)
        /\ \A i \in 1 .. Len(p) - 1 : q[i + 1] = p[i]
    BY <1>3, <1>11, <1>12
  <2>. QED
    BY <1>3, <1>11, <1>12, <2>1, OneFurther
<1>14. Last(q) # Head(q)
  <2>1. m - 1 \in 1 .. m - 1 /\ (m - 1) + 1 = m /\ m - 1 \in 1 .. m /\ m \in 1 .. m /\ m # m - 1
    BY <1>3
  <2>2. q[m] = heap[s[m - 1]].pos
    BY <1>11, <1>12, <2>1
  <2>3. s[m - 1] \in ToSet(Chain) \ {pSnakeTail}
    <3>1. DOMAIN s = 1 .. m /\ s[m - 1] # s[m]
      BY <1>1, <1>4, <2>1 DEF Feeding, Chained
    <3>. QED
      BY <1>1, <1>3, <2>1, <3>1 DEF ToSet
  <2>4. q[m] # Onto
    BY <1>5, <2>2, <2>3 DEF is_snake_dead
  <2>. QED
    BY <1>3, <1>11, <1>12, <2>4 DEF Last
<1>15. Trail' = q
  BY <1>8, <1>10, <1>14 DEF Trail, Where
<1>. QED
  BY <1>1, <1>9, <1>10, <1>13, <1>15

(* A tick that ends the life.                                               *)
LEMMA CrashGoesOn ==
  ASSUME SnakeInv, mode = "play", Crash
  PROVE  SnakeInv' /\ Trail' = <<Onto>> \o Front(Where(heap, Chain))
<1>1. PICK s, m : s = Chain /\ m = Len(s)
  OBVIOUS
<1>2. PICK r : /\ Feeding(Crawled, r, pSnakeFood)
               /\ Len(r) = m /\ r[1] = pSnakeTail /\ r[m] = heap[pSnakeTail].pPre
               /\ r[m] = s[m - 1]
               /\ Crawled[r[1]].pos = Onto
               /\ \A i \in 1 .. m - 1 : /\ r[i + 1] = s[i]
                                        /\ Crawled[r[i + 1]].pos = heap[s[i]].pos
  <2>1. PICK r : CrawlsOnto(s, m, r)
    BY <1>1, CrawlFeeds
  <2>. QED
    BY <2>1 DEF CrawlsOnto
<1>3. /\ m \in Nat /\ m >= 2 /\ Onto \in Int \X Int
  BY <1>1, Crawls
<1>4. Snaking(s) /\ Feeding(heap, s, pSnakeFood)
  BY <1>1 DEF SnakeInv, Snaking
<1>5. /\ heap' = Crawled /\ pSnakeHead' = pSnakeTail /\ pSnakeTail' = heap[pSnakeTail].pPre
      /\ UNCHANGED <<pSnakeFood, current_score, level, move_dir>>
      /\ mode' \in {"gameover", "crashed"} /\ ticker' = 0
  BY DEF Crash
<1>6. Snaking(r)'
  BY <1>1, <1>2, <1>4, <1>5 DEF Snaking
<1>7. Chain' = r
  BY <1>6, ChainIs DEF Snaking, Feeding, Chain
<1>8. SnakeInv'
  BY <1>5, <1>6, <1>7 DEF SnakeInv, TickerOfLevel
<1>9. PICK p, q : p = Where(heap, s) /\ q = Where(heap', r)
  OBVIOUS
<1>10. /\ p \in Seq(Int \X Int) /\ Len(p) = m /\ \A i \in 1 .. m : p[i] = heap[s[i]].pos
       /\ q \in Seq(Int \X Int) /\ Len(q) = m /\ \A i \in 1 .. m : q[i] = Crawled[r[i]].pos
  <2>1. Chained(heap, s) /\ Chained(Crawled, r)
    BY <1>2, <1>4 DEF Feeding
  <2>2. /\ Where(heap, s) \in Seq(Int \X Int) /\ Len(Where(heap, s)) = Len(s)
        /\ \A i \in 1 .. Len(s) : Where(heap, s)[i] = heap[s[i]].pos
    BY ONLY <2>1, WhereIs
  <2>3. /\ Where(Crawled, r) \in Seq(Int \X Int) /\ Len(Where(Crawled, r)) = Len(r)
        /\ \A i \in 1 .. Len(r) : Where(Crawled, r)[i] = Crawled[r[i]].pos
    BY ONLY <2>1, WhereIs
  <2>. QED
    BY <1>1, <1>2, <1>5, <1>9, <2>2, <2>3
<1>11. q[1] = Onto /\ \A i \in 1 .. m - 1 : q[i + 1] = p[i]
  <2>1. 1 \in 1 .. m /\ \A i \in 1 .. m - 1 : i \in 1 .. m /\ i + 1 \in 1 .. m
    BY <1>3
  <2>. QED
    BY <1>2, <1>10, <2>1
<1>12. q = <<Onto>> \o Front(p)
  <2>1. /\ Len(p) >= 2 /\ Len(q) = Len(p)
        /\ \A i \in 1 .. Len(p) - 1 : q[i + 1] = p[i]
    BY <1>3, <1>10, <1>11
  <2>. QED
    BY <1>3, <1>10, <1>11, <2>1, OneFurther
<1>13. Trail' = q
  BY <1>5, <1>7, <1>9 DEF Trail, Where
<1>. QED
  BY <1>1, <1>8, <1>9, <1>12, <1>13

(* A tick that feeds: the old food is the head, and lies where the last     *)
(* cell lies; put_food has found another one.                               *)
LEMMA EatGoesOn ==
  ASSUME SnakeInv, mode = "play", Eat
  PROVE  SnakeInv' /\ Trail' = <<Onto>> \o Front(Where(heap, Chain))
<1>1. PICK s, m : s = Chain /\ m = Len(s)
  OBVIOUS
<1>2. PICK r : /\ Feeding(Crawled, r, pSnakeFood)
               /\ Len(r) = m /\ r[1] = pSnakeTail /\ r[m] = heap[pSnakeTail].pPre
               /\ r[m] = s[m - 1]
               /\ Crawled[r[1]].pos = Onto
               /\ \A i \in 1 .. m - 1 : /\ r[i + 1] = s[i]
                                        /\ Crawled[r[i + 1]].pos = heap[s[i]].pos
  <2>1. PICK r : CrawlsOnto(s, m, r)
    BY <1>1, CrawlFeeds
  <2>. QED
    BY <2>1 DEF CrawlsOnto
<1>3. /\ m \in Nat /\ m >= 2 /\ Onto \in Int \X Int
      /\ Crawled[pSnakeTail].pos = Onto /\ Crawled[pSnakeFood] = heap[pSnakeFood]
  BY <1>1, Crawls
<1>4. /\ Snaking(s) /\ Feeding(heap, s, pSnakeFood)
      /\ m = INIT_SNAKE_LENGTH + current_score
      /\ current_score \in Nat /\ level \in DOMAIN speed
      /\ current_score < levelup_score[level] /\ move_dir \in DOMAIN Deltas
      /\ ticker = speed[level]
  BY <1>1 DEF SnakeInv, Snaking, TickerOfLevel
<1>5. /\ m + 1 < Cardinality(Cells) /\ INIT_SNAKE_LENGTH \in Nat
      /\ current_score + 1 <= levelup_score[level]
  <2>1. /\ levelup_score[level] \in Nat /\ levelup_score[Len(levelup_score)] \in Nat
        /\ levelup_score[level] <= levelup_score[Len(levelup_score)]
    <3>1. levelup_score[Len(levelup_score)] \in Nat
      BY SnakeAssumption
    <3>. QED
      BY <1>4, <3>1, LevelsAre
  <2>2. INIT_SNAKE_LENGTH \in Nat
    BY FreshIsChained
  <2>3. Cardinality(Cells) = INIT_SNAKE_LENGTH + levelup_score[Len(levelup_score)] + 1
    BY CellsAre
  <2>. QED
    BY <1>4, <2>1, <2>2, <2>3
<1>6. PICK f, h : f = pSnakeFood /\ h = Crawled
  OBVIOUS
<1>7. Chained(h, r) /\ f \in Cells /\ h[f] # VOID /\ h[f].pPre = VOID /\ \A i \in 1 .. m : r[i] # f
  BY <1>2, <1>6 DEF Feeding
<1>8. PICK h2 : h2 = eat_food(Crawled, pSnakeTail, heap[pSnakeTail].pPre)
  OBVIOUS
<1>9. h2 = PutPre(PutNext(PutNext(PutPre(PutNext(h, f, h[r[1]].pNext), h[r[1]].pNext, f),
                                  r[m], r[1]), r[1], VOID), r[1], r[m])
  BY <1>2, <1>6, <1>8 DEF eat_food, PutPre, PutNext
<1>10. PICK w : w = [i \in 1 .. m + 1 |-> IF i = 1 THEN f ELSE IF i = m + 1 THEN r[1] ELSE r[i]]
  OBVIOUS
<1>11. /\ r \in Seq(Cells) /\ \A i \in 1 .. m : r[i] \in Cells /\ h[r[i]] # VOID
       /\ 1 \in 1 .. m
  BY <1>2, <1>3, <1>7 DEF Chained
<1>12. /\ w \in Seq(Cells) /\ Len(w) = m + 1 /\ w[1] = f /\ w[m + 1] = r[1]
       /\ \A i \in 2 .. m : w[i] = r[i]
  <2>1. \A i \in 1 .. m + 1 : w[i] \in Cells
    <3>1. \A i \in 1 .. m + 1 : i # m + 1 => i \in 1 .. m
      BY <1>3
    <3>. QED
      BY <1>7, <1>10, <1>11, <3>1
  <2>2. w \in Seq(Cells) /\ Len(w) = m + 1
    BY <1>3, <1>10, <2>1
  <2>3. 1 \in 1 .. m + 1 /\ m + 1 \in 1 .. m + 1 /\ m + 1 # 1
    BY <1>3
  <2>4. \A i \in 2 .. m : i \in 1 .. m + 1 /\ i # 1 /\ i # m + 1
    BY <1>3
  <2>. QED
    BY <1>10, <2>2, <2>3, <2>4
<1>13. /\ \A c \in Cells : /\ h2[c] = VOID <=> h[c] = VOID
                           /\ h[c] # VOID => h2[c].pos = h[c].pos
       /\ Chained(h2, w)
  <2>1. m < Cardinality(Cells)
    BY <1>3, <1>5, CellsAre
  <2>2. ASSUME NEW g,
               g = PutPre(PutNext(PutNext(PutPre(PutNext(h, f, h[r[1]].pNext), h[r[1]].pNext, f),
                                          r[m], r[1]), r[1], VOID), r[1], r[m])
        PROVE  /\ \A c \in Cells : /\ g[c] = VOID <=> h[c] = VOID
                                   /\ h[c] # VOID => g[c].pos = h[c].pos
               /\ \A v : /\ v \in Seq(Cells) /\ Len(v) = m + 1 /\ v[1] = f /\ v[m + 1] = r[1]
                         /\ \A i \in 2 .. m : v[i] = r[i]
                         => Chained(g, v)
    <3>1. m = Len(r)
      BY <1>2
    <3>. QED
      BY ONLY <1>7, <2>1, <2>2, <3>1, EatKeeps, SMTT(60)
  <2>. QED
    BY <1>9, <1>12, <2>2
<1>14. ASSUME NEW c \in Cells, h2[c] # VOID PROVE \E i \in 1 .. Len(w) : c = w[i]
  <2>1. h[c] # VOID
    BY <1>13, <1>14
  <2>2. CASE c = f
    <3>1. 1 \in 1 .. Len(w)
      BY <1>3, <1>12
    <3>. QED
      BY <1>12, <2>2, <3>1
  <2>3. CASE c # f
    <3>1. PICK i \in 1 .. m : c = r[i]
      BY <1>2, <1>6, <2>1, <2>3 DEF Feeding
    <3>2. CASE i = 1
      <4>1. m + 1 \in 1 .. Len(w)
        BY <1>3, <1>12
      <4>. QED
        BY <1>12, <3>1, <3>2, <4>1
    <3>3. CASE i # 1
      <4>1. i \in 2 .. m /\ i \in 1 .. Len(w)
        BY <1>3, <1>12, <3>3
      <4>. QED
        BY <1>12, <3>1, <4>1
    <3>. QED
      BY <3>2, <3>3
  <2>. QED
    BY <2>2, <2>3
<1>15. PICK at \in Room \ Squares(h2) :
         heap' = PutCell(h2, malloc(h2), Cell(at, VOID, VOID)) /\ pSnakeFood' = malloc(h2)
  BY <1>8 DEF Eat, put_food, PutCell
<1>16. /\ Feeding(heap', w, pSnakeFood') /\ InReach(heap', w, pSnakeFood')
       /\ \A i \in 1 .. Len(w) : heap'[w[i]].pos = h2[w[i]].pos
  <2>1. Len(w) < Cardinality(Cells)
    BY <1>5, <1>12
  <2>. QED
    BY <1>13, <1>14, <1>15, <2>1, FoodIsPut
<1>17. /\ pSnakeHead' = pSnakeFood /\ pSnakeTail' = pSnakeTail /\ current_score' = current_score + 1
       /\ IF current_score + 1 = levelup_score[level]
            THEN mode' = "levelup" /\ ticker' = 0 ELSE mode' = "play" /\ ticker' = ticker
       /\ UNCHANGED <<level, move_dir>>
       /\ Onto = heap[pSnakeFood].pos
  BY <1>3 DEF Eat
<1>18. Snaking(w)'
  <2>1. Len(w) = INIT_SNAKE_LENGTH + (current_score + 1)
    BY <1>4, <1>5, <1>12
  <2>2. w[1] = pSnakeFood /\ w[Len(w)] = pSnakeTail
    BY <1>2, <1>6, <1>12
  <2>. QED
    BY <1>16, <1>17, <2>1, <2>2 DEF Snaking
<1>19. Chain' = w
  BY <1>18, ChainIs DEF Snaking, Feeding, Chain
<1>20. SnakeInv'
  <2>1. /\ current_score' \in Nat /\ current_score' <= levelup_score[level]
        /\ mode' \in {"play", "levelup"}
        /\ mode' = "play" => current_score' < levelup_score[level]
        /\ ticker' = IF mode' = "play" THEN speed[level] ELSE 0
    <3>1. levelup_score[level] \in Nat
      BY <1>4, LevelsAre
    <3>. QED
      BY <1>4, <1>5, <1>17, <3>1
  <2>. QED
    BY <1>4, <1>17, <1>18, <1>19, <2>1 DEF SnakeInv, TickerOfLevel
<1>21. PICK p, q : p = Where(heap, s) /\ q = Where(heap', w)
  OBVIOUS
<1>22. /\ p \in Seq(Int \X Int) /\ Len(p) = m /\ \A i \in 1 .. m : p[i] = heap[s[i]].pos
       /\ q \in Seq(Int \X Int) /\ Len(q) = m + 1
       /\ \A i \in 1 .. m + 1 : q[i] = heap'[w[i]].pos
  <2>1. Chained(heap, s) /\ Chained(heap', w)
    BY <1>4, <1>16 DEF Feeding
  <2>2. /\ Where(heap, s) \in Seq(Int \X Int) /\ Len(Where(heap, s)) = Len(s)
        /\ \A i \in 1 .. Len(s) : Where(heap, s)[i] = heap[s[i]].pos
    BY ONLY <2>1, WhereIs
  <2>3. /\ Where(heap', w) \in Seq(Int \X Int) /\ Len(Where(heap', w)) = Len(w)
        /\ \A i \in 1 .. Len(w) : Where(heap', w)[i] = heap'[w[i]].pos
    BY ONLY <2>1, WhereIs
  <2>. QED
    BY <1>1, <1>12, <1>21, <2>2, <2>3
<1>23. /\ \A i \in 1 .. m + 1 : q[i] = h[w[i]].pos
  <2>. SUFFICES ASSUME NEW i \in 1 .. m + 1 PROVE q[i] = h[w[i]].pos
    OBVIOUS
  <2>1. w[i] \in Cells
    BY <1>12
  <2>2. h2[w[i]] # VOID
    BY <1>12, <1>13 DEF Chained
  <2>. QED
    BY <1>12, <1>13, <1>16, <1>22, <2>1, <2>2
<1>24. /\ q[1] = Onto /\ q[m + 1] = Onto
       /\ \A i \in 1 .. m - 1 : q[i + 1] = p[i]
  <2>1. 1 \in 1 .. m + 1 /\ m + 1 \in 1 .. m + 1
    BY <1>3
  <2>2. \A i \in 1 .. m - 1 : i \in 1 .. m /\ i + 1 \in 2 .. m /\ i + 1 \in 1 .. m + 1
    BY <1>3
  <2>3. q[1] = Onto
    BY <1>3, <1>6, <1>12, <1>17, <1>23, <2>1
  <2>4. q[m + 1] = Onto
    BY <1>2, <1>6, <1>12, <1>23, <2>1
  <2>5. ASSUME NEW i \in 1 .. m - 1 PROVE q[i + 1] = p[i]
    <3>1. q[i + 1] = h[w[i + 1]].pos /\ w[i + 1] = r[i + 1]
      BY <1>12, <1>23, <2>2
    <3>. QED
      BY <1>2, <1>6, <1>22, <2>2, <3>1
  <2>. QED
    BY <2>3, <2>4, <2>5
<1>25. Front(q) = <<Onto>> \o Front(p)
  <2>1. PICK S : S = Int \X Int
    OBVIOUS
  <2>2. q \in Seq(S) /\ Len(q) >= 1
    BY <1>3, <1>22, <2>1
  <2>3. /\ Front(q) \in Seq(S) /\ Len(Front(q)) = Len(q) - 1
        /\ \A i \in 1 .. Len(q) - 1 : Front(q)[i] = q[i]
    BY <2>2, FrontIs
  <2>4. PICK v : v = Front(q)
    OBVIOUS
  <2>5. \A i \in 1 .. m - 1 : i + 1 \in 1 .. m
    BY <1>3
  <2>6. /\ v \in Seq(Int \X Int) /\ Len(v) = Len(p) /\ Len(p) >= 2 /\ v[1] = Onto
        /\ \A i \in 1 .. Len(p) - 1 : v[i + 1] = p[i]
    <3>1. Len(q) - 1 = m /\ 1 \in 1 .. m
      BY <1>3, <1>22
    <3>. QED
      BY <1>3, <1>22, <1>24, <2>1, <2>3, <2>4, <2>5, <3>1
  <2>7. v = <<Onto>> \o Front(p)
    BY <1>3, <1>22, <2>6, OneFurther
  <2>. QED
    BY <2>4, <2>7
<1>26. Trail' = Front(q)
  <2>1. mode' \in {"play", "levelup"}
    BY <1>17
  <2>2. Last(q) = Head(q)
    BY <1>3, <1>22, <1>24 DEF Last
  <2>. QED
    BY <1>19, <1>21, <2>1, <2>2 DEF Trail, Where
<1>. QED
  BY <1>1, <1>20, <1>21, <1>25, <1>26

(* The key that over or levelup waits for.                                  *)
LEMMA KeyStarts ==
  ASSUME SnakeInv, KeyGoesOn
  PROVE  SnakeInv' /\ mode # "play" /\ mode' = "play"
<1>1. /\ mode # "play" /\ mode' = "play" /\ level' \in DOMAIN speed
      /\ NewSnake /\ current_score' = 0 /\ ticker' = speed[level']
  <2>1. level \in DOMAIN speed /\ 1 \in DOMAIN speed
        /\ (level # Len(speed) => level + 1 \in DOMAIN speed)
    BY LevelsAre DEF SnakeInv
  <2>2. mode \in {"crashed", "gameover", "levelup"}
    BY DEF SnakeInv, KeyGoesOn
  <2>. QED
    BY <2>1, <2>2 DEF KeyGoesOn, reset_game
<1>2. /\ speed[level'] \in Nat /\ levelup_score[level'] \in Nat /\ 0 < levelup_score[level']
      /\ 0 <= levelup_score[level']
  BY <1>1, LevelsAre
<1>3. PICK at \in Room \ Squares(Fresh) :
        /\ heap' = [Fresh EXCEPT ![malloc(Fresh)] = Cell(at, VOID, VOID)]
        /\ pSnakeFood' = malloc(Fresh)
        /\ pSnakeHead' = 1 /\ pSnakeTail' = INIT_SNAKE_LENGTH /\ move_dir' = "right"
  BY <1>1 DEF NewSnake, put_food
<1>4. PICK s : /\ Feeding(heap', s, pSnakeFood') /\ InReach(heap', s, pSnakeFood')
               /\ s[1] = 1 /\ s[Len(s)] = INIT_SNAKE_LENGTH /\ Len(s) = INIT_SNAKE_LENGTH
  <2>1. PICK f : f = malloc(Fresh)
    OBVIOUS
  <2>2. PICK h : h = [Fresh EXCEPT ![f] = Cell(at, VOID, VOID)]
    OBVIOUS
  <2>3. \E s : /\ Feeding(h, s, f) /\ InReach(h, s, f)
               /\ s[1] = 1 /\ s[Len(s)] = INIT_SNAKE_LENGTH /\ Len(s) = INIT_SNAKE_LENGTH
    BY <2>1, <2>2, NewSnakeIs
  <2>. QED
    BY <1>3, <2>1, <2>2, <2>3
<1>5. INIT_SNAKE_LENGTH = INIT_SNAKE_LENGTH + 0
  BY FreshIsChained
<1>6. Snaking(s)'
  BY <1>1, <1>3, <1>4, <1>5 DEF Snaking
<1>7. Chain' = s
  BY <1>6, ChainIs DEF Snaking, Feeding, Chain
<1>8. move_dir' \in DOMAIN Deltas
  BY <1>3 DEF Deltas
<1>. QED
  BY <1>1, <1>2, <1>6, <1>7, <1>8 DEF SnakeInv, TickerOfLevel

(* A tick, a key and a change of direction.                                 *)
LEMMA SnakeTurns ==
  ASSUME SnakeInv, SnakeNext
  PROVE  SnakeInv' /\ (Glides \/ heap' = heap)
<1>1. CASE snake_move
  <2>1. mode = "play" /\ (Creep \/ Eat \/ Crash)
    BY <1>1 DEF snake_move
  <2>2. SnakeInv' /\ Trail' = <<Onto>> \o Front(Where(heap, Chain))
    <3>1. CASE Creep
      <4>1. mode' = "play"
        BY <2>1, <3>1 DEF Creep
      <4>. QED
        BY <2>1, <3>1, <4>1, CreepGoesOn
    <3>2. CASE Eat
      BY <2>1, <3>2, EatGoesOn
    <3>3. CASE Crash
      BY <2>1, <3>3, CrashGoesOn
    <3>. QED
      BY <2>1, <3>1, <3>2, <3>3
  <2>3. PICK p, s : p = Where(heap, s) /\ s = Chain
    OBVIOUS
  <2>4. /\ (IF Len(Trail) < Len(s) THEN Trail ELSE Front(Trail)) = Front(p)
        /\ Trail[1] = p[1]
    BY <2>3, TrailIs
  <2>5. p[1] = heap[pSnakeHead].pos
    <3>1. Chained(heap, s) /\ s[1] = pSnakeHead
      BY <2>3 DEF SnakeInv, Snaking, Feeding
    <3>2. Len(s) \in Nat /\ Len(s) >= 2 /\ \A i \in 1 .. Len(s) : Where(heap, s)[i] = heap[s[i]].pos
      BY ONLY <3>1, WhereIs
    <3>3. 1 \in 1 .. Len(s)
      BY <3>2
    <3>. QED
      BY <2>3, <3>1, <3>2, <3>3
  <2>6. move_dir \in DOMAIN Deltas
    BY DEF SnakeInv
  <2>7. Onto = <<Trail[1][1] + Deltas[move_dir][1], Trail[1][2] + Deltas[move_dir][2]>>
    BY <2>4, <2>5 DEF Onto
  <2>8. Glides
    BY <2>2, <2>3, <2>4, <2>6, <2>7 DEF Glides
  <2>. QED
    BY <2>2, <2>8
<1>2. CASE KeyGoesOn
  BY <1>2, KeyStarts DEF Glides
<1>3. CASE delete_snake_dies
  <2>1. /\ mode # "play" /\ mode' = "killed"
        /\ UNCHANGED <<heap, pSnakeHead, pSnakeTail, pSnakeFood, move_dir, current_score, level,
                       ticker>>
    BY <1>3 DEF delete_snake_dies
  <2>. QED
    BY <2>1 DEF SnakeInv, Snaking, TickerOfLevel, Chain
<1>4. ASSUME NEW d \in DOMAIN Deltas, getOrder(d)
      PROVE  SnakeInv' /\ heap' = heap
  <2>1. /\ move_dir' = d /\ mode' = mode
        /\ UNCHANGED <<heap, pSnakeHead, pSnakeTail, pSnakeFood, current_score, level, ticker>>
    BY <1>4 DEF getOrder
  <2>. QED
    BY <1>4, <2>1 DEF SnakeInv, Snaking, TickerOfLevel, Chain
<1>. QED
  BY <1>1, <1>2, <1>3, <1>4 DEF SnakeNext
-----------------------------------------------------------------------------
(* What the invariant of the curses game says of the chain.                 *)
LEMMA SnakeIsWhole ==
  ASSUME SnakeInv
  PROVE  ChainIsWhole /\ LengthFollowsScore /\ FoodCanBeReached /\ TickerOfLevel
<1>1. PICK s : s = Chain
  OBVIOUS
<1>2. Snaking(s) /\ Feeding(heap, s, pSnakeFood) /\ Chained(heap, s)
  BY <1>1 DEF SnakeInv, Snaking, Feeding
<1>3. /\ s \in Seq(Cells) /\ Len(s) \in Nat /\ Len(s) >= 2 /\ DOMAIN s = 1 .. Len(s)
      /\ \A i \in 1 .. Len(s) : s[i] \in Cells
  BY <1>2 DEF Chained
<1>4. IsInjective(s)
  BY <1>2, <1>3 DEF Chained, IsInjective
<1>5. \A c \in Cells : (\E i \in 1 .. Len(s) : c = s[i]) <=> heap[c] # VOID /\ c # pSnakeFood
  BY <1>2, <1>3 DEF Feeding, Chained
<1>6. ToSet(s) = Cells \ (Unused(heap) \cup {pSnakeFood})
  BY <1>3, <1>5 DEF ToSet, Unused
<1>7. /\ 1 \in 1 .. Len(s) /\ Len(s) \in 1 .. Len(s)
      /\ \A i \in 2 .. Len(s) : i \in 1 .. Len(s) /\ i # 1
  BY <1>3
<1>8. s[1] = pSnakeHead /\ s[Len(s)] = pSnakeTail
  BY <1>2 DEF Snaking
<1>9. /\ heap[pSnakeHead].pPre = VOID /\ heap[pSnakeTail].pNext = VOID
      /\ \A i \in 2 .. Len(s) : heap[s[i]].pPre = s[i - 1]
  BY <1>2, <1>7, <1>8 DEF Chained
<1>10. ChainIsWhole
  BY <1>1, <1>4, <1>6, <1>8, <1>9 DEF ChainIsWhole, Last
<1>11. LengthFollowsScore
  BY <1>1, <1>2 DEF LengthFollowsScore, Snaking, SnakeInv
<1>12. FoodCanBeReached
  BY <1>1, <1>2, <1>3 DEF FoodCanBeReached, Snaking, InReach, ToSet
<1>. QED
  BY <1>10, <1>11, <1>12 DEF SnakeInv

-----------------------------------------------------------------------------
(* Each game by itself.                                                     *)
SnakeSpec == SnakeInit /\ [][SnakeNext]_snakeVars
ConsoleSpec == ConsoleInit /\ [][ConsoleNext]_consoleVars
FrameSpec == FrameInit /\ [][FrameNext]_frameVars

LEMMA GamesStay ==
  /\ SnakeInv /\ UNCHANGED snakeVars => SnakeInv'
  /\ ConsoleInv /\ UNCHANGED consoleVars => ConsoleInv'
  /\ FrameInv /\ UNCHANGED frameVars => FrameInv'
<1>1. ASSUME SnakeInv, UNCHANGED snakeVars PROVE SnakeInv'
  BY <1>1 DEF SnakeInv, snakeVars, Snaking, TickerOfLevel, Chain
<1>2. ASSUME ConsoleInv, UNCHANGED consoleVars PROVE ConsoleInv'
  BY <1>2 DEF ConsoleInv, consoleVars, AliveOnMap, AddFollowsSpeed
<1>3. ASSUME FrameInv, UNCHANGED frameVars PROVE FrameInv'
  BY <1>3 DEF FrameInv, frameVars, AliveInFrame
<1>. QED
  BY <1>1, <1>2, <1>3

(* snake_move, over, levelup and reset_game of the curses game, as long as  *)
(* delete_snake lets it go on: no cell malloced for a life is lost while    *)
(* the life lasts, the food can be reached, the timer runs while the game   *)
(* is played, and a tick shifts what is seen of the snake by one square.    *)
THEOREM CursesGame ==
  SnakeSpec => /\ [](ChainIsWhole /\ LengthFollowsScore /\ FoodCanBeReached /\ TickerOfLevel)
               /\ CrawlsByOne
<1>1. SnakeInit => SnakeInv
  BY SnakeStarts
<1>2. SnakeInv /\ [SnakeNext]_snakeVars => SnakeInv' /\ [Glides]_heap
  BY SnakeTurns, GamesStay DEF snakeVars
<1>3. SnakeInv => ChainIsWhole /\ LengthFollowsScore /\ FoodCanBeReached /\ TickerOfLevel
  BY SnakeIsWhole
<1>. QED
  BY <1>1, <1>2, <1>3, PTL DEF SnakeSpec, CrawlsByOne

(* runGame of the console game: while it runs the head is on the map and no *)
(* cell lies on another one, the score for the food follows the sleeping    *)
(* time, and no key turns the head into the second cell.                    *)
THEOREM ConsoleGame ==
  ConsoleSpec => [](AliveOnMap /\ AddFollowsSpeed) /\ NeverTurnsBack
<1>1. ConsoleInit => ConsoleInv
  BY ConsoleStarts
<1>2. ConsoleInv /\ [ConsoleNext]_consoleVars =>
        ConsoleInv' /\ [cells' # cells => Head(cells') # cells[2]]_cells
  BY ConsoleTurns, GamesStay DEF consoleVars
<1>3. ConsoleInv => AliveOnMap /\ AddFollowsSpeed
  BY DEF ConsoleInv
<1>. QED
  BY <1>1, <1>2, <1>3, PTL DEF ConsoleSpec, NeverTurnsBack

(* click, move_add and check_over of the frame buffer game: the same, and   *)
(* its food lies in the field beside the snake.                             *)
THEOREM FrameGame == FrameSpec => []AliveInFrame /\ NeverFoldsBack
<1>1. FrameInit => FrameInv
  BY FrameStarts
<1>2. FrameInv /\ [FrameNext]_frameVars =>
        /\ FrameInv'
        /\ [Len(trunk) > 1 /\ trunk' # trunk => Head(trunk') # trunk[2]]_trunk
  BY FrameTurns, GamesStay DEF frameVars
<1>3. FrameInv => AliveInFrame
  BY DEF FrameInv
<1>. QED
  BY <1>1, <1>2, <1>3, PTL DEF FrameSpec, NeverFoldsBack

-----------------------------------------------------------------------------
(* The games together, as they are model-checked: what holds of each one    *)
(* that is played, and of the others, which stay as they start.             *)
GamesInv == SnakeInv /\ ConsoleInv /\ FrameInv

LEMMA GamesStep ==
  ASSUME GamesInv, [AllNext]_allVars
  PROVE  /\ GamesInv'
         /\ Glides \/ heap' = heap
         /\ cells' # cells => Head(cells') # cells[2]
         /\ trunk' # trunk => (Len(trunk) > 1 => Head(trunk') # trunk[2])
<1>1. SnakeInv /\ ConsoleInv /\ FrameInv
  BY DEF GamesInv
<1>2. CASE SnakeNext /\ UNCHANGED <<consoleVars, frameVars>>
  BY <1>1, <1>2, SnakeTurns, GamesStay DEF GamesInv, consoleVars, frameVars
<1>3. CASE ConsoleNext /\ UNCHANGED <<snakeVars, frameVars>>
  BY <1>1, <1>3, ConsoleTurns, GamesStay DEF GamesInv, snakeVars, frameVars
<1>4. CASE FrameNext /\ UNCHANGED <<snakeVars, consoleVars>>
  BY <1>1, <1>4, FrameTurns, GamesStay DEF GamesInv, snakeVars, consoleVars
<1>5. CASE UNCHANGED <<snakeVars, consoleVars, frameVars>>
  BY <1>1, <1>5, GamesStay DEF GamesInv, snakeVars, consoleVars, frameVars
<1>. QED
  BY <1>2, <1>3, <1>4, <1>5 DEF AllNext, allVars

(* snake_move, over, levelup and reset_game of the curses game keep the     *)
(* chain of cells of this life linked both ways, with the food as the one   *)
(* cell beside it; runGame and move_add keep the head one step from the     *)
(* second cell, in the direction last taken.                                *)
THEOREM GamesInvariant == AllSpec => []GamesInv
<1>1. AllInit => GamesInv
  BY SnakeStarts, ConsoleStarts, FrameStarts DEF AllInit, GamesInv
<1>2. GamesInv /\ [AllNext]_allVars => GamesInv'
  BY GamesStep
<1>. QED
  BY <1>1, <1>2, PTL DEF AllSpec

(* Through crash, level and new game, for as long as delete_snake survives  *)
(* reading what it has freed: the chain of the curses game is whole, the    *)
(* snake is as long as its score, the food can be reached and the timer     *)
(* runs while it is played; in the other two games a snake that is alive    *)
(* has no two cells on one place and its head on the map.                   *)
THEOREM GamesAlwaysGoOn == AllSpec => []GamesGoOn
<1>1. GamesInv => GamesGoOn
  BY SnakeIsWhole DEF GamesInv, GamesGoOn, ConsoleInv, FrameInv
<1>. QED
  BY <1>1, GamesInvariant, PTL

(* The score for the next food is a function of the sleeping time, in       *)
(* whatever order F1 and F2 of the console game were pressed.               *)
THEOREM AddAlwaysFollows == AllSpec => []AddFollowsSpeed
<1>1. GamesInv => AddFollowsSpeed
  BY DEF GamesInv, ConsoleInv
<1>. QED
  BY <1>1, GamesInvariant, PTL

(* A tick of snake_move shifts what is seen of the snake by one square,     *)
(* feeding or not, although it moves a cell from the end to the front; it   *)
(* may be the square of the neck, since getOrder takes the key back.  In    *)
(* the other two games no key that was taken turns the head into the neck.  *)
THEOREM SnakesAlwaysMoveOn == AllSpec => SnakesMoveOn
<1>1. GamesInv /\ [AllNext]_allVars => [Glides]_heap
  BY GamesStep
<1>2. GamesInv /\ [AllNext]_allVars => [cells' # cells => Head(cells') # cells[2]]_cells
  BY GamesStep
<1>3. GamesInv /\ [AllNext]_allVars =>
        [Len(trunk) > 1 /\ trunk' # trunk => Head(trunk') # trunk[2]]_trunk
  BY GamesStep
<1>4. AllSpec => CrawlsByOne
  BY <1>1, GamesInvariant, PTL DEF AllSpec, CrawlsByOne
<1>5. AllSpec => NeverTurnsBack
  BY <1>2, GamesInvariant, PTL DEF AllSpec, NeverTurnsBack
<1>6. AllSpec => NeverFoldsBack
  BY <1>3, GamesInvariant, PTL DEF AllSpec, NeverFoldsBack
<1>. QED
  BY <1>4, <1>5, <1>6 DEF SnakesMoveOn

-----------------------------------------------------------------------------
(* The sorts, on arrays of N numbers.                                       *)
IntArrays(N) == [1 .. N -> Int]

(* Every number occurs in both equally often.                               *)
Places(s, v) == {i \in DOMAIN s : s[i] = v}
SameCounts(s, r) == \A v \in Int : Cardinality(Places(s, v)) = Cardinality(Places(r, v))

(* Two elements of which one is outside lo .. hi are in order.              *)
Framed(s, lo, hi) ==
  \A i, j \in DOMAIN s : i < j /\ (i < lo \/ j > hi) => s[i] <= s[j]

(* An exchange loses no element.                                            *)
LEMMA ExchangeKeeps ==
  ASSUME NEW N \in Nat, NEW s \in IntArrays(N), NEW i \in 1 .. N, NEW j \in 1 .. N
  PROVE  /\ Exchange(s, i, j) \in IntArrays(N)
         /\ \A k \in 1 .. N : Exchange(s, i, j)[k] = IF k = i THEN s[j]
                                                     ELSE IF k = j THEN s[i] ELSE s[k]
         /\ SameCounts(s, Exchange(s, i, j))
<1>. DEFINE r == Exchange(s, i, j)
            other(k) == IF k = i THEN j ELSE IF k = j THEN i ELSE k
<1>1. r \in IntArrays(N)
  BY DEF Exchange, IntArrays
<1>2. \A k \in 1 .. N : r[k] = IF k = i THEN s[j] ELSE IF k = j THEN s[i] ELSE s[k]
  BY DEF Exchange, IntArrays
<1>3. DOMAIN s = 1 .. N /\ DOMAIN r = 1 .. N
  BY <1>1 DEF IntArrays
<1>. HIDE DEF r
<1>4. ASSUME NEW v \in Int PROVE Cardinality(Places(s, v)) = Cardinality(Places(r, v))
  <2>. DEFINE A == Places(s, v)
              B == Places(r, v)
              f == [k \in A |-> other(k)]
  <2>1. A \subseteq 1 .. N /\ B \subseteq 1 .. N /\ IsFiniteSet(1 .. N)
    BY <1>3, FS_Interval DEF Places
  <2>2. IsFiniteSet(A)
    BY <2>1, FS_Subset
  <2>3. \A k \in A : f[k] \in B
    BY <1>2, <1>3 DEF Places
  <2>4. \A k, m \in A : f[k] = f[m] => k = m
    OBVIOUS
  <2>5. \A m \in B : other(m) \in A /\ f[other(m)] = m
    BY <1>2, <1>3 DEF Places
  <2>. HIDE DEF A, B
  <2>6. f \in Bijection(A, B)
    <3>1. f \in [A -> B]
      BY <2>3
    <3>2. IsInjective(f)
      BY <2>4 DEF IsInjective
    <3>3. \A m \in B : \E k \in A : f[k] = m
      BY <2>5
    <3>. QED
      BY <3>1, <3>2, <3>3 DEF Bijection, Injection, Surjection
  <2>7. ExistsBijection(A, B)
    BY <2>6 DEF ExistsBijection
  <2>. QED
    BY <2>2, <2>7, FS_Bijection DEF A, B
<1>. QED
  BY <1>1, <1>2, <1>4 DEF SameCounts, r

(* Nor does it disturb what is outside.                                     *)
LEMMA ExchangeInside ==
  ASSUME NEW N \in Nat, NEW s \in IntArrays(N), NEW lo \in Int, NEW hi \in Int,
         NEW i \in 1 .. N, NEW j \in 1 .. N, Framed(s, lo, hi),
         lo <= i, i <= hi, lo <= j, j <= hi
  PROVE  Framed(Exchange(s, i, j), lo, hi)
<1>. DEFINE r == Exchange(s, i, j)
<1>1. /\ r \in IntArrays(N)
      /\ \A k \in 1 .. N : r[k] = IF k = i THEN s[j] ELSE IF k = j THEN s[i] ELSE s[k]
  BY ExchangeKeeps
<1>. HIDE DEF r
<1>2. DOMAIN r = 1 .. N /\ DOMAIN s = 1 .. N /\ \A k \in 1 .. N : s[k] \in Int
  BY <1>1 DEF IntArrays
<1>3. ASSUME NEW k \in 1 .. N, NEW m \in 1 .. N, k < m, k < lo \/ m > hi
      PROVE  r[k] <= r[m]
  <2>1. CASE k < lo
    <3>1. r[k] = s[k] /\ k < i /\ k < j
      BY <1>1, <2>1
    <3>2. s[k] <= s[i] /\ s[k] <= s[j] /\ s[k] <= s[m]
      BY <1>2, <1>3, <2>1, <3>1 DEF Framed
    <3>. QED
      BY <1>1, <3>1, <3>2
  <2>2. CASE m > hi
    <3>1. r[m] = s[m] /\ m > i /\ m > j
      BY <1>1, <2>2
    <3>2. s[i] <= s[m] /\ s[j] <= s[m] /\ s[k] <= s[m]
      BY <1>2, <1>3, <2>2, <3>1 DEF Framed
    <3>. QED
      BY <1>1, <3>1, <3>2
  <2>. QED
    BY <1>3, <2>1, <2>2
<1>. QED
  BY <1>2, <1>3 DEF Framed, r

(* Putting two neighbours in order.                                         *)
LEMMA OrderedKeeps ==
  ASSUME NEW N \in Nat, NEW s \in IntArrays(N), NEW j \in 1 .. N - 1
  PROVE  /\ Ordered(s, j) \in IntArrays(N)
         /\ Ordered(s, j)[j] <= Ordered(s, j)[j + 1]
         /\ {Ordered(s, j)[j], Ordered(s, j)[j + 1]} = {s[j], s[j + 1]}
         /\ \A k \in 1 .. N : k # j /\ k # j + 1 => Ordered(s, j)[k] = s[k]
         /\ SameCounts(s, Ordered(s, j))
         /\ \A lo, hi \in Int : Framed(s, lo, hi) => Framed(Ordered(s, j), lo, hi)
<1>1. j \in 1 .. N /\ j + 1 \in 1 .. N /\ s[j] \in Int /\ s[j + 1] \in Int /\ DOMAIN s = 1 .. N
  BY DEF IntArrays
<1>2. CASE s[j] > s[j + 1]
  <2>. DEFINE r == Exchange(s, j, j + 1)
  <2>1. Ordered(s, j) = r
    BY <1>2 DEF Ordered
  <2>2. /\ r \in IntArrays(N) /\ SameCounts(s, r)
        /\ \A k \in 1 .. N : r[k] = IF k = j THEN s[j + 1] ELSE IF k = j + 1 THEN s[j] ELSE s[k]
    <3>. DEFINE z == j + 1
    <3>1. z \in 1 .. N
      BY <1>1
    <3>. HIDE DEF z
    <3>2. Exchange(s, j, z) \in IntArrays(N)
      BY <1>1, <3>1, ExchangeKeeps
    <3>4. \A k \in 1 .. N : Exchange(s, j, z)[k] = IF k = j THEN s[z]
                                                   ELSE IF k = z THEN s[j] ELSE s[k]
      BY <1>1, <3>1 DEF Exchange, IntArrays
    <3>3. SameCounts(s, Exchange(s, j, z))
      BY <1>1, <3>1, ExchangeKeeps, Zenon
    <3>. QED
      BY <3>2, <3>3, <3>4 DEF z
  <2>3. ASSUME NEW lo \in Int, NEW hi \in Int, Framed(s, lo, hi) PROVE Framed(r, lo, hi)
    <3>1. lo <= j /\ j <= hi /\ lo <= j + 1 /\ j + 1 <= hi
      BY <1>1, <1>2, <2>3 DEF Framed
    <3>. QED
      BY <1>1, <2>3, <3>1, ExchangeInside
  <2>. HIDE DEF r
  <2>4. r[j] = s[j + 1] /\ r[j + 1] = s[j]
    BY <1>1, <2>2
  <2>. QED
    BY <1>1, <1>2, <2>1, <2>2, <2>3, <2>4
<1>3. CASE ~ (s[j] > s[j + 1])
  <2>1. Ordered(s, j) = s
    BY <1>3 DEF Ordered
  <2>. QED
    BY <1>1, <1>3, <2>1 DEF SameCounts
<1>. QED
  BY <1>2, <1>3

(* What a loop makes of an array, and each step on the way.                 *)
LEMMA BubbledIs ==
  ASSUME NEW N \in Nat, NEW s \in IntArrays(N), NEW js \in Seq(1 .. N - 1)
  PROVE  \E r \in [0 .. Len(js) -> IntArrays(N)] :
           /\ r[0] = s /\ r[Len(js)] = Bubbled(s, js)
           /\ \A k \in 1 .. Len(js) : r[k] = Ordered(r[k - 1], js[k])
<1>. DEFINE M == Len(js)
            D == IntArrays(N)
            step == [k \in 1 .. M |-> [r \in D |-> Ordered(r, js[k])]]
            Loop(r) == r = [k \in 0 .. M |-> IF k = 0 THEN s ELSE Ordered(r[k - 1], js[k])]
<1>1. M \in Nat /\ \A k \in 1 .. M : js[k] \in 1 .. N - 1
  OBVIOUS
<1>2. Bubbled(s, js) = (CHOOSE r : Loop(r))[M]
  BY DEF Bubbled
<1>3. \A k \in 1 .. M : \A r \in D : Ordered(r, js[k]) \in D
  BY <1>1, OrderedKeeps
<1>. HIDE DEF M, D
<1>4. PICK r : Recurs(r, M, D, s, step)
  <2>1. step \in [1 .. M -> [D -> D]]
    BY <1>3
  <2>2. s \in D
    BY DEF D
  <2>. HIDE DEF step
  <2>. QED
    BY <1>1, <2>1, <2>2, RecursionExists
<1>5. /\ r \in [0 .. M -> D] /\ r[0] = s
      /\ \A k \in 1 .. M : r[k] = step[k][r[k - 1]]
  BY <1>4 DEF Recurs
<1>6. \A k \in 1 .. M : k - 1 \in 0 .. M
  BY <1>1
<1>7. \A k \in 1 .. M : r[k] = Ordered(r[k - 1], js[k])
  BY <1>5, <1>6
<1>. HIDE DEF step
<1>8. Loop(r)
  <2>1. \A k \in 0 .. M : k = 0 \/ k \in 1 .. M
    BY <1>1
  <2>. QED
    BY <1>5, <1>7, <2>1
<1>. DEFINE q == CHOOSE q : Loop(q)
<1>9. Loop(q)
  <2>. HIDE DEF Loop
  <2>. QED
    BY <1>8
<1>. HIDE DEF q
<1>10. q[0] = s /\ \A k \in 1 .. M : q[k] = Ordered(q[k - 1], js[k])
  <2>1. 0 \in 0 .. M /\ \A k \in 1 .. M : k \in 0 .. M /\ k # 0
    BY <1>1
  <2>. QED
    BY <1>9, <2>1
<1>11. \A k \in 0 .. M : q[k] = r[k]
  <2>. DEFINE S == {k \in 0 .. M : q[k] = r[k]}
  <2>1. 0 \in S
    BY <1>1, <1>5, <1>10
  <2>2. \A k \in 0 .. M - 1 : k \in S => k + 1 \in S
    <3>. SUFFICES ASSUME NEW k \in 0 .. M - 1, q[k] = r[k] PROVE k + 1 \in S
      OBVIOUS
    <3>1. k + 1 \in 1 .. M /\ k + 1 \in 0 .. M /\ (k + 1) - 1 = k
      BY <1>1
    <3>. QED
      BY <1>7, <1>10, <3>1
  <2>. HIDE DEF S
  <2>3. \A k \in 0 .. M : k \in S
    BY <1>1, <2>1, <2>2, UpTo
  <2>. QED
    BY <2>3 DEF S
<1>12. r[M] = Bubbled(s, js)
  <2>1. M \in 0 .. M
    BY <1>1
  <2>. QED
    BY <1>2, <1>11, <2>1 DEF q
<1>. QED
  BY <1>5, <1>7, <1>12 DEF M, D

(* A loop loses no element and disturbs nothing outside.                    *)
LEMMA BubbledKeeps ==
  ASSUME NEW N \in Nat, NEW s \in IntArrays(N), NEW js \in Seq(1 .. N - 1)
  PROVE  /\ Bubbled(s, js) \in IntArrays(N) /\ SameCounts(s, Bubbled(s, js))
         /\ \A lo, hi \in Int : Framed(s, lo, hi) => Framed(Bubbled(s, js), lo, hi)
<1>. DEFINE M == Len(js)
<1>1. M \in Nat /\ \A k \in 1 .. M : js[k] \in 1 .. N - 1
  OBVIOUS
<1>2. PICK r \in [0 .. M -> IntArrays(N)] :
        /\ r[0] = s /\ r[M] = Bubbled(s, js)
        /\ \A k \in 1 .. M : r[k] = Ordered(r[k - 1], js[k])
  BY BubbledIs
<1>. HIDE DEF M
<1>. DEFINE Kept(q) == /\ q \in IntArrays(N) /\ SameCounts(s, q)
                       /\ \A lo, hi \in Int : Framed(s, lo, hi) => Framed(q, lo, hi)
            S == {k \in 0 .. M : Kept(r[k])}
<1>3. Kept(s)
  BY DEF SameCounts
<1>4. ASSUME NEW q, Kept(q), NEW j \in 1 .. N - 1 PROVE Kept(Ordered(q, j))
  <2>1. /\ Ordered(q, j) \in IntArrays(N) /\ SameCounts(q, Ordered(q, j))
        /\ \A lo, hi \in Int : Framed(q, lo, hi) => Framed(Ordered(q, j), lo, hi)
    BY <1>4, OrderedKeeps
  <2>. QED
    BY <1>4, <2>1 DEF SameCounts
<1>. HIDE DEF Kept
<1>5. 0 \in S
  BY <1>1, <1>2, <1>3
<1>6. \A k \in 0 .. M - 1 : k \in S => k + 1 \in S
  <2>. SUFFICES ASSUME NEW k \in 0 .. M - 1, Kept(r[k]) PROVE k + 1 \in S
    OBVIOUS
  <2>1. k + 1 \in 1 .. M /\ k + 1 \in 0 .. M /\ (k + 1) - 1 = k
    BY <1>1
  <2>2. r[k + 1] = Ordered(r[k], js[k + 1]) /\ js[k + 1] \in 1 .. N - 1
    BY <1>1, <1>2, <2>1
  <2>3. Kept(Ordered(r[k], js[k + 1]))
    BY <1>4, <2>2
  <2>. QED
    BY <2>1, <2>2, <2>3
<1>. HIDE DEF S
<1>7. M \in S
  <2>1. \A k \in 0 .. M : k \in S
    BY <1>1, <1>5, <1>6, UpTo
  <2>2. M \in 0 .. M
    BY <1>1
  <2>. QED
    BY <2>1, <2>2
<1>8. Kept(Bubbled(s, js))
  BY <1>2, <1>7 DEF S
<1>. QED
  BY <1>8 DEF Kept

(* A loop up from lo carries the greatest element to hi.                    *)
LEMMA UpCarries ==
  ASSUME NEW N \in Nat, NEW s \in IntArrays(N), NEW lo \in 1 .. N, NEW hi \in lo .. N
  PROVE  /\ Up(lo, hi - 1) \in Seq(1 .. N - 1)
         /\ \A i \in lo .. hi : Bubbled(s, Up(lo, hi - 1))[i] <= Bubbled(s, Up(lo, hi - 1))[hi]
<1>. DEFINE js == Up(lo, hi - 1)
            M == hi - lo
<1>1. M \in Nat /\ js \in Seq(1 .. N - 1) /\ Len(js) = M /\ \A k \in 1 .. M : js[k] = lo + k - 1
  <2>1. js = [k \in 1 .. M |-> lo + k - 1]
    BY DEF Up
  <2>2. M \in Nat /\ \A k \in 1 .. M : lo + k - 1 \in 1 .. N - 1
    OBVIOUS
  <2>. HIDE DEF js, M
  <2>. QED
    BY <2>1, <2>2
<1>. HIDE DEF js
<1>2. PICK r \in [0 .. M -> IntArrays(N)] :
        /\ r[0] = s /\ r[M] = Bubbled(s, js)
        /\ \A k \in 1 .. M : r[k] = Ordered(r[k - 1], js[k])
  <2>. HIDE DEF M
  <2>1. \E r \in [0 .. Len(js) -> IntArrays(N)] :
          /\ r[0] = s /\ r[Len(js)] = Bubbled(s, js)
          /\ \A k \in 1 .. Len(js) : r[k] = Ordered(r[k - 1], js[k])
    BY <1>1, BubbledIs
  <2>. QED
    BY ONLY <1>1, <2>1
<1>. DEFINE Carried(q, m) == \A i \in lo .. m : q[i] <= q[m]
            S == {k \in 0 .. M : Carried(r[k], lo + k)}
<1>3. 0 \in S
  <2>1. r[0][lo] \in Int /\ 0 \in 0 .. M /\ lo + 0 = lo
    BY <1>1, <1>2 DEF IntArrays
  <2>. QED
    BY <2>1
<1>4. \A k \in 0 .. M - 1 : k \in S => k + 1 \in S
  <2>. SUFFICES ASSUME NEW k \in 0 .. M - 1, Carried(r[k], lo + k) PROVE k + 1 \in S
    OBVIOUS
  <2>. DEFINE q == r[k]
              j == lo + k
              e == Ordered(q, j)
  <2>1. k + 1 \in 1 .. M /\ k + 1 \in 0 .. M /\ (k + 1) - 1 = k /\ lo + (k + 1) = j + 1
        /\ j \in 1 .. N - 1 /\ k \in 0 .. M /\ lo + (k + 1) - 1 = j
    BY <1>1
  <2>2. r[k + 1] = e /\ q \in IntArrays(N)
    BY <1>1, <1>2, <2>1
  <2>. HIDE DEF q, j
  <2>3. /\ e \in IntArrays(N) /\ e[j] <= e[j + 1] /\ {e[j], e[j + 1]} = {q[j], q[j + 1]}
        /\ \A i \in 1 .. N : i # j /\ i # j + 1 => e[i] = q[i]
    BY <2>1, <2>2, OrderedKeeps, ZenonT(60)
  <2>. HIDE DEF e
  <2>4. \A i \in 1 .. N : q[i] \in Int /\ e[i] \in Int
    BY <2>2, <2>3 DEF IntArrays
  <2>5. q[j] <= e[j + 1]
    <3>1. e[j] \in Int /\ e[j + 1] \in Int
      BY <2>1, <2>4
    <3>2. q[j] \in {e[j], e[j + 1]}
      BY ONLY <2>3
    <3>. QED
      BY <2>3, <3>1, <3>2
  <2>6. ASSUME NEW i \in lo .. j + 1 PROVE e[i] <= e[j + 1]
    <3>1. CASE i < j
      <4>1. i \in lo .. j /\ i \in 1 .. N /\ i # j /\ i # j + 1
        BY <2>1, <3>1
      <4>2. q[i] <= q[j] /\ e[i] = q[i]
        BY <2>3, <4>1 DEF q, j
      <4>. QED
        BY <2>1, <2>4, <2>5, <4>1, <4>2
    <3>2. CASE i = j
      BY <2>3, <3>2
    <3>3. CASE i = j + 1
      BY <2>1, <2>4, <3>3
    <3>. QED
      BY <2>1, <3>1, <3>2, <3>3
  <2>. QED
    BY <2>1, <2>2, <2>6
<1>. HIDE DEF S
<1>5. M \in S
  <2>1. \A k \in 0 .. M : k \in S
    BY <1>1, <1>3, <1>4, UpTo
  <2>2. M \in 0 .. M
    BY <1>1
  <2>. QED
    BY <2>1, <2>2
<1>6. lo + M = hi
  OBVIOUS
<1>. QED
  BY <1>1, <1>2, <1>5, <1>6 DEF S, js

(* A loop down to lo carries the least element there.                       *)
LEMMA DownCarries ==
  ASSUME NEW N \in Nat, NEW s \in IntArrays(N), NEW lo \in 1 .. N, NEW hi \in lo .. N
  PROVE  /\ Down(hi - 1, lo) \in Seq(1 .. N - 1)
         /\ \A i \in lo .. hi :
              Bubbled(s, Down(hi - 1, lo))[lo] <= Bubbled(s, Down(hi - 1, lo))[i]
<1>. DEFINE js == Down(hi - 1, lo)
            M == hi - lo
<1>1. M \in Nat /\ js \in Seq(1 .. N - 1) /\ Len(js) = M /\ \A k \in 1 .. M : js[k] = hi - k
  <2>1. js = [k \in 1 .. M |-> hi - k]
    BY DEF Down
  <2>2. M \in Nat /\ \A k \in 1 .. M : hi - k \in 1 .. N - 1
    OBVIOUS
  <2>. HIDE DEF js, M
  <2>. QED
    BY <2>1, <2>2
<1>. HIDE DEF js
<1>2. PICK r \in [0 .. M -> IntArrays(N)] :
        /\ r[0] = s /\ r[M] = Bubbled(s, js)
        /\ \A k \in 1 .. M : r[k] = Ordered(r[k - 1], js[k])
  <2>. HIDE DEF M
  <2>1. \E r \in [0 .. Len(js) -> IntArrays(N)] :
          /\ r[0] = s /\ r[Len(js)] = Bubbled(s, js)
          /\ \A k \in 1 .. Len(js) : r[k] = Ordered(r[k - 1], js[k])
    BY <1>1, BubbledIs
  <2>. QED
    BY ONLY <1>1, <2>1
<1>. DEFINE Carried(q, m) == \A i \in m .. hi : q[m] <= q[i]
            S == {k \in 0 .. M : Carried(r[k], hi - k)}
<1>3. 0 \in S
  <2>1. r[0][hi] \in Int /\ 0 \in 0 .. M /\ hi - 0 = hi
    BY <1>1, <1>2 DEF IntArrays
  <2>. QED
    BY <2>1
<1>4. \A k \in 0 .. M - 1 : k \in S => k + 1 \in S
  <2>. SUFFICES ASSUME NEW k \in 0 .. M - 1, Carried(r[k], hi - k) PROVE k + 1 \in S
    OBVIOUS
  <2>. DEFINE q == r[k]
              j == hi - (k + 1)
              e == Ordered(q, j)
  <2>1. k + 1 \in 1 .. M /\ k + 1 \in 0 .. M /\ (k + 1) - 1 = k /\ hi - k = j + 1
        /\ j \in 1 .. N - 1 /\ k \in 0 .. M /\ j + 1 <= hi
    BY <1>1
  <2>2. r[k + 1] = e /\ q \in IntArrays(N)
    BY <1>1, <1>2, <2>1
  <2>7. \A i \in j + 1 .. hi : q[j + 1] <= q[i]
    BY <2>1
  <2>. HIDE DEF q
  <2>3. /\ e \in IntArrays(N) /\ e[j] <= e[j + 1] /\ {e[j], e[j + 1]} = {q[j], q[j + 1]}
        /\ \A i \in 1 .. N : i # j /\ i # j + 1 => e[i] = q[i]
    <3>. HIDE DEF j
    <3>. QED
      BY <2>1, <2>2, OrderedKeeps
  <2>. HIDE DEF e
  <2>4. \A i \in 1 .. N : q[i] \in Int /\ e[i] \in Int
    BY <2>2, <2>3 DEF IntArrays
  <2>5. e[j] <= q[j + 1]
    <3>1. e[j] \in Int /\ e[j + 1] \in Int
      BY <2>1, <2>4
    <3>2. q[j + 1] \in {e[j], e[j + 1]}
      BY ONLY <2>3
    <3>. QED
      BY <2>3, <3>1, <3>2
  <2>6. ASSUME NEW i \in j .. hi PROVE e[j] <= e[i]
    <3>1. CASE i > j + 1
      <4>1. i \in j + 1 .. hi /\ i \in 1 .. N /\ i # j /\ i # j + 1
        BY <2>1, <3>1
      <4>2. q[j + 1] <= q[i] /\ e[i] = q[i]
        BY <2>3, <2>7, <4>1
      <4>3. e[j] \in Int /\ q[j + 1] \in Int /\ q[i] \in Int
        BY <2>1, <2>4, <4>1
      <4>. QED
        BY ONLY <2>5, <4>2, <4>3
    <3>2. CASE i = j + 1
      BY <2>3, <3>2
    <3>3. CASE i = j
      BY <2>1, <2>4, <3>3
    <3>. QED
      BY <2>1, <3>1, <3>2, <3>3
  <2>. QED
    BY <2>1, <2>2, <2>6
<1>. HIDE DEF S
<1>5. M \in S
  <2>1. \A k \in 0 .. M : k \in S
    BY <1>1, <1>3, <1>4, UpTo
  <2>2. M \in 0 .. M
    BY <1>1
  <2>. QED
    BY <2>1, <2>2
<1>6. hi - M = lo
  OBVIOUS
<1>. QED
  BY <1>1, <1>2, <1>5, <1>6 DEF S, js

(* What a sort has done of its work: between lo and hi it is still open.    *)
SortedBut(s, r, N, lo, hi) == r \in IntArrays(N) /\ SameCounts(s, r) /\ Framed(r, lo, hi)

(* It begins with everything open.                                          *)
LEMMA SortedButWhole ==
  ASSUME NEW N \in Nat, NEW s \in IntArrays(N)
  PROVE  SortedBut(s, s, N, 1, N)
BY DEF SortedBut, SameCounts, Framed, IntArrays

(* With nothing open the array is sorted.                                   *)
LEMMA SortedButNothing ==
  ASSUME NEW N \in Nat, NEW s \in IntArrays(N), NEW r, NEW lo \in Int, NEW hi \in Int, hi <= lo,
         SortedBut(s, r, N, lo, hi)
  PROVE  Sorted(r) /\ SameElements(s, r)
<1>1. DOMAIN s = 1 .. N /\ DOMAIN r = 1 .. N /\ r \in IntArrays(N)
  BY DEF SortedBut, IntArrays
<1>2. Sorted(r)
  BY <1>1 DEF Sorted, SortedBut, Framed
<1>3. Len(s) = Len(r)
  <2>1. s \in Seq(Int) /\ r \in Seq(Int)
    BY <1>1 DEF IntArrays
  <2>2. Len(s) = N /\ Len(r) = N
    BY <1>1, <2>1
  <2>. QED
    BY <2>2
<1>4. \A v \in Range(s) \cup Range(r) : v \in Int
  BY <1>1 DEF Range, IntArrays
<1>5. \A v \in Int : Cardinality({i \in DOMAIN s : s[i] = v})
                     = Cardinality({i \in DOMAIN r : r[i] = v})
  BY DEF SortedBut, SameCounts, Places
<1>. QED
  BY <1>2, <1>3, <1>4, <1>5 DEF SameElements

(* Carrying the greatest of what is open to its upper end, or the least to  *)
(* its lower end, closes it there.                                          *)
LEMMA SortedButLess ==
  ASSUME NEW N \in Nat, NEW s \in IntArrays(N), NEW r, NEW lo \in 1 .. N, NEW hi \in lo .. N,
         SortedBut(s, r, N, lo, hi)
  PROVE  /\ (\A i \in lo .. hi : r[i] <= r[hi]) => SortedBut(s, r, N, lo, hi - 1)
         /\ (\A i \in lo .. hi : r[lo] <= r[i]) => SortedBut(s, r, N, lo + 1, hi)
<1>1. DOMAIN r = 1 .. N /\ \A i, j \in 1 .. N : i < j /\ (i < lo \/ j > hi) => r[i] <= r[j]
  BY DEF SortedBut, IntArrays, Framed
<1>2. ASSUME \A i \in lo .. hi : r[i] <= r[hi] PROVE Framed(r, lo, hi - 1)
  <2>. SUFFICES ASSUME NEW i \in 1 .. N, NEW j \in 1 .. N, i < j, i < lo \/ j > hi - 1
                PROVE  r[i] <= r[j]
    BY <1>1 DEF Framed
  <2>1. CASE i < lo \/ j > hi
    BY <1>1, <2>1
  <2>2. CASE ~ (i < lo) /\ j = hi
    <3>1. i \in lo .. hi
      BY <2>2
    <3>. QED
      BY <1>2, <2>2, <3>1
  <2>. QED
    BY <2>1, <2>2
<1>3. ASSUME \A i \in lo .. hi : r[lo] <= r[i] PROVE Framed(r, lo + 1, hi)
  <2>. SUFFICES ASSUME NEW i \in 1 .. N, NEW j \in 1 .. N, i < j, i < lo + 1 \/ j > hi
                PROVE  r[i] <= r[j]
    BY <1>1 DEF Framed
  <2>1. CASE i < lo \/ j > hi
    BY <1>1, <2>1
  <2>2. CASE i = lo /\ ~ (j > hi)
    <3>1. j \in lo .. hi
      BY <2>2
    <3>. QED
      BY <1>3, <2>2, <3>1
  <2>. QED
    BY <2>1, <2>2
<1>. QED
  BY <1>2, <1>3 DEF SortedBut

(* Loops over neighbours close nothing that was open nor lose an element.   *)
LEMMA SortedButBubbled ==
  ASSUME NEW N \in Nat, NEW s \in IntArrays(N), NEW r, NEW lo \in Int, NEW hi \in Int,
         NEW js \in Seq(1 .. N - 1), SortedBut(s, r, N, lo, hi)
  PROVE  SortedBut(s, Bubbled(r, js), N, lo, hi)
<1>1. r \in IntArrays(N)
  BY DEF SortedBut
<1>2. /\ Bubbled(r, js) \in IntArrays(N) /\ SameCounts(r, Bubbled(r, js))
      /\ Framed(r, lo, hi) => Framed(Bubbled(r, js), lo, hi)
  BY <1>1, BubbledKeeps
<1>. QED
  BY <1>2 DEF SortedBut, SameCounts

(* The least element that sort_select finds.                                *)
LEMMA LeastIs ==
  ASSUME NEW N \in Nat, NEW s \in IntArrays(N), NEW i \in 1 .. N
  PROVE  Least(s, i) \in i .. N /\ \A j \in i .. N : s[Least(s, i)] <= s[j]
<1>. DEFINE M == N - i
            D == i .. N
            next(j, k) == IF s[i + j] < s[k] THEN i + j ELSE k
            step == [j \in 1 .. M |-> [k \in D |-> next(j, k)]]
            Loop(k) == k = [j \in 0 .. M |-> IF j = 0 THEN i ELSE next(j, k[j - 1])]
<1>1. M \in Nat /\ i \in D /\ (\A j \in 0 .. M : i + j \in D)
  OBVIOUS
<1>2. Len(s) = N /\ \A j \in 1 .. N : s[j] \in Int
  BY DEF IntArrays
<1>3. Least(s, i) = (CHOOSE k : Loop(k))[M]
  BY <1>2 DEF Least
<1>4. \A j \in 1 .. M : \A k \in D : next(j, k) \in D
  BY <1>1
<1>. HIDE DEF M, D, next
<1>5. PICK f : Recurs(f, M, D, i, step)
  <2>1. step \in [1 .. M -> [D -> D]]
    BY <1>4
  <2>. HIDE DEF step
  <2>. QED
    BY <1>1, <2>1, RecursionExists
<1>6. /\ f \in [0 .. M -> D] /\ f[0] = i
      /\ \A k \in 1 .. M : f[k] = step[k][f[k - 1]]
  BY <1>5 DEF Recurs
<1>7. \A k \in 1 .. M : k - 1 \in 0 .. M
  BY <1>1
<1>8. \A k \in 1 .. M : f[k] = next(k, f[k - 1])
  BY <1>6, <1>7
<1>. HIDE DEF step
<1>9. Loop(f)
  <2>1. \A k \in 0 .. M : k = 0 \/ k \in 1 .. M
    BY <1>1
  <2>. QED
    BY <1>6, <1>8, <2>1
<1>. DEFINE q == CHOOSE q : Loop(q)
<1>10. Loop(q)
  <2>. HIDE DEF Loop
  <2>. QED
    BY <1>9
<1>. HIDE DEF q
<1>11. q[0] = i /\ \A k \in 1 .. M : q[k] = next(k, q[k - 1])
  <2>1. 0 \in 0 .. M /\ \A k \in 1 .. M : k \in 0 .. M /\ k # 0
    BY <1>1
  <2>. QED
    BY <1>10, <2>1
<1>. HIDE DEF Loop
<1>. DEFINE S == {k \in 0 .. M : q[k] \in D /\ \A j \in i .. i + k : s[q[k]] <= s[j]}
<1>12. 0 \in S
  <2>1. \A j \in i .. i + 0 : j = i
    OBVIOUS
  <2>2. q[0] = i /\ s[i] \in Int /\ 0 \in 0 .. M
    BY <1>1, <1>2, <1>11
  <2>. QED
    BY <1>1, <2>1, <2>2
<1>13. \A k \in 0 .. M - 1 : k \in S => k + 1 \in S
  <2>. SUFFICES ASSUME NEW k \in 0 .. M - 1, k \in S PROVE k + 1 \in S
    OBVIOUS
  <2>. DEFINE p == q[k]
              m == i + (k + 1)
              z == q[k + 1]
  <2>1. k + 1 \in 1 .. M /\ k + 1 \in 0 .. M /\ (k + 1) - 1 = k
    BY <1>1
  <2>2. z = next(k + 1, p) /\ p \in D /\ \A j \in i .. i + k : s[p] <= s[j]
    BY <1>11, <2>1
  <2>3. z = IF s[m] < s[p] THEN m ELSE p
    BY <2>2 DEF next
  <2>. HIDE DEF p, z
  <2>4. m \in D /\ (\A j \in D : j \in 1 .. N) /\ \A j \in i .. m : j \in D
    BY <1>1, <2>1 DEF D, M
  <2>5. s[m] \in Int /\ s[p] \in Int /\ z \in D /\ \A j \in i .. m : s[j] \in Int
    BY <1>2, <2>2, <2>3, <2>4
  <2>6. s[z] <= s[m] /\ s[z] <= s[p] /\ s[z] \in Int
    BY <2>3, <2>5
  <2>7. ASSUME NEW j \in i .. m PROVE s[z] <= s[j]
    <3>1. j = m \/ j \in i .. i + k
      BY <2>1
    <3>2. CASE j \in i .. i + k
      <4>1. s[p] <= s[j] /\ s[j] \in Int
        BY <2>2, <2>5, <3>2
      <4>. QED
        BY <2>5, <2>6, <4>1
    <3>. QED
      BY <2>6, <3>1, <3>2
  <2>. QED
    BY <2>1, <2>5, <2>7 DEF z
<1>14. M \in S
  <2>. HIDE DEF S
  <2>1. \A k \in 0 .. M : k \in S
    BY <1>1, <1>12, <1>13, UpTo
  <2>2. M \in 0 .. M
    BY <1>1
  <2>. QED
    BY <2>1, <2>2
<1>. QED
  <2>1. i + M = N
    BY DEF M
  <2>2. Least(s, i) = q[M]
    BY <1>3 DEF q
  <2>. QED
    BY <1>14, <2>1, <2>2 DEF D

(* sort_bubble: each round closes the upper end.                            *)
LEMMA BubbleSorts ==
  ASSUME NEW N \in Nat, NEW s \in IntArrays(N)
  PROVE  Sorted(sort_bubble(s)) /\ SameElements(s, sort_bubble(s))
<1>0. CASE N = 0
  <2>1. s = <<>>
    BY <1>0 DEF IntArrays
  <2>2. sort_bubble(s) = s /\ SortedBut(s, s, N, 1, N)
    BY <2>1, SortedButWhole DEF sort_bubble
  <2>. QED
    BY <1>0, <2>2, SortedButNothing
<1>. SUFFICES ASSUME N # 0 PROVE Sorted(sort_bubble(s)) /\ SameElements(s, sort_bubble(s))
  BY <1>0
<1>. DEFINE M == N - 1
            D == IntArrays(N)
            next(k, r) == Bubbled(r, Up(1, N - k))
            step == [k \in 1 .. M |-> [r \in D |-> next(k, r)]]
            Loop(r) == r = [k \in 0 .. M |-> IF k = 0 THEN s ELSE next(k, r[k - 1])]
<1>1. M \in Nat /\ s \in D /\ \A k \in 1 .. M : N - k = (N + 1 - k) - 1 /\ N + 1 - k \in 1 .. N
  OBVIOUS
<1>2. Len(s) = N /\ s # <<>>
  BY DEF IntArrays
<1>3. sort_bubble(s) = (CHOOSE r : Loop(r))[M]
  BY <1>2 DEF sort_bubble
<1>4. \A k \in 1 .. M : \A r \in D : next(k, r) \in D
  <2>. SUFFICES ASSUME NEW k \in 1 .. M, NEW r \in D PROVE next(k, r) \in D
    OBVIOUS
  <2>. DEFINE hi == N + 1 - k
  <2>1. hi \in 1 .. N /\ 1 \in 1 .. N /\ N - k = hi - 1
    BY <1>1
  <2>. HIDE DEF hi
  <2>2. Up(1, hi - 1) \in Seq(1 .. N - 1)
    BY <2>1, UpCarries
  <2>3. Bubbled(r, Up(1, hi - 1)) \in IntArrays(N)
    BY <2>2, BubbledKeeps
  <2>. QED
    BY <2>1, <2>3
<1>. HIDE DEF M, D, next
<1>5. PICK f : Recurs(f, M, D, s, step)
  <2>1. step \in [1 .. M -> [D -> D]]
    BY <1>4
  <2>. HIDE DEF step
  <2>. QED
    BY <1>1, <2>1, RecursionExists
<1>6. /\ f \in [0 .. M -> D] /\ f[0] = s
      /\ \A k \in 1 .. M : f[k] = step[k][f[k - 1]]
  BY <1>5 DEF Recurs
<1>7. \A k \in 1 .. M : k - 1 \in 0 .. M
  BY <1>1
<1>8. \A k \in 1 .. M : f[k] = next(k, f[k - 1])
  BY <1>6, <1>7
<1>. HIDE DEF step
<1>9. Loop(f)
  <2>1. \A k \in 0 .. M : k = 0 \/ k \in 1 .. M
    BY <1>1
  <2>. QED
    BY <1>6, <1>8, <2>1
<1>. DEFINE q == CHOOSE q : Loop(q)
<1>10. Loop(q)
  <2>. HIDE DEF Loop
  <2>. QED
    BY <1>9
<1>. HIDE DEF q
<1>11. q[0] = s /\ \A k \in 1 .. M : q[k] = next(k, q[k - 1])
  <2>1. 0 \in 0 .. M /\ \A k \in 1 .. M : k \in 0 .. M /\ k # 0
    BY <1>1
  <2>. QED
    BY <1>10, <2>1
<1>. HIDE DEF Loop
<1>. DEFINE S == {k \in 0 .. M : SortedBut(s, q[k], N, 1, N - k)}
<1>12. 0 \in S
  <2>1. SortedBut(s, s, N, 1, N)
    BY SortedButWhole
  <2>2. 0 \in 0 .. M /\ N - 0 = N /\ 0 + 1 = 1
    BY <1>1
  <2>. QED
    BY <1>11, <2>1, <2>2
<1>13. \A k \in 0 .. M - 1 : k \in S => k + 1 \in S
  <2>. SUFFICES ASSUME NEW k \in 0 .. M - 1, SortedBut(s, q[k], N, 1, N - k) PROVE k + 1 \in S
    OBVIOUS
  <2>. DEFINE r == q[k]
              hi == N - k
              e == Bubbled(r, Up(1, hi - 1))
  <2>1. /\ k + 1 \in 1 .. M /\ k + 1 \in 0 .. M /\ (k + 1) - 1 = k /\ N - (k + 1) = hi - 1
        /\ hi \in 1 .. N /\ 1 \in 1 .. N
    BY <1>1 DEF M
  <2>2. q[k + 1] = e /\ r \in IntArrays(N) /\ SortedBut(s, r, N, 1, hi)
    BY <1>11, <2>1 DEF next, SortedBut
  <2>. HIDE DEF r, hi
  <2>3. Up(1, hi - 1) \in Seq(1 .. N - 1) /\ \A i \in 1 .. hi : e[i] <= e[hi]
    BY <2>1, <2>2, UpCarries
  <2>4. SortedBut(s, e, N, 1, hi)
    BY <2>1, <2>2, <2>3, SortedButBubbled
  <2>. HIDE DEF e
  <2>5. SortedBut(s, e, N, 1, hi - 1)
    BY <2>1, <2>3, <2>4, SortedButLess
  <2>. QED
    BY <2>1, <2>2, <2>5
<1>14. M \in S
  <2>. HIDE DEF S
  <2>1. \A k \in 0 .. M : k \in S
    BY <1>1, <1>12, <1>13, UpTo
  <2>2. M \in 0 .. M
    BY <1>1
  <2>. QED
    BY <2>1, <2>2
<1>. QED
  <2>1. N - M = 1
    BY DEF M
  <2>2. sort_bubble(s) = q[M]
    BY <1>3 DEF q
  <2>3. SortedBut(s, sort_bubble(s), N, 1, 1)
    BY <1>14, <2>1, <2>2
  <2>. QED
    BY <2>3, SortedButNothing

(* sort_bubble_v2: each round closes both ends.                             *)
LEMMA BubbleV2Sorts ==
  ASSUME NEW N \in Nat, NEW s \in IntArrays(N)
  PROVE  Sorted(sort_bubble_v2(s)) /\ SameElements(s, sort_bubble_v2(s))
<1>. DEFINE M == Len(s) \div 2
            D == IntArrays(N)
            next(k, r) == LET right == Len(s) + 1 - k
                          IN  Bubbled(Bubbled(r, Up(k, right - 1)), Down(right - 1, k))
            step == [k \in 1 .. M |-> [r \in D |-> next(k, r)]]
            Loop(r) == r = [k \in 0 .. M |-> IF k = 0 THEN s ELSE next(k, r[k - 1])]
<1>0. Len(s) = N
  BY DEF IntArrays
<1>1. /\ M \in Nat /\ s \in D /\ N - M <= M + 1
      /\ \A k \in 1 .. M : k \in 1 .. N /\ N + 1 - k \in k + 1 .. N
  BY <1>0
<1>3. sort_bubble_v2(s) = (CHOOSE r : Loop(r))[M]
  BY DEF sort_bubble_v2
<1>4. \A k \in 1 .. M : \A r \in D : next(k, r) \in D
  <2>. SUFFICES ASSUME NEW k \in 1 .. M, NEW r \in D PROVE next(k, r) \in D
    OBVIOUS
  <2>. DEFINE hi == N + 1 - k
              e == Bubbled(r, Up(k, hi - 1))
  <2>1. k \in 1 .. N /\ hi \in k .. N
    BY <1>1
  <2>. HIDE DEF hi
  <2>2. Up(k, hi - 1) \in Seq(1 .. N - 1)
    BY <2>1, UpCarries
  <2>3. e \in IntArrays(N)
    BY <2>2, BubbledKeeps
  <2>. HIDE DEF e
  <2>4. Down(hi - 1, k) \in Seq(1 .. N - 1)
    BY <2>1, <2>3, DownCarries
  <2>5. Bubbled(e, Down(hi - 1, k)) \in IntArrays(N)
    BY <2>3, <2>4, BubbledKeeps
  <2>. QED
    BY <1>0, <2>5 DEF e, hi
<1>. HIDE DEF M, D, next
<1>5. PICK f : Recurs(f, M, D, s, step)
  <2>1. step \in [1 .. M -> [D -> D]]
    BY <1>4
  <2>. HIDE DEF step
  <2>. QED
    BY <1>1, <2>1, RecursionExists
<1>6. /\ f \in [0 .. M -> D] /\ f[0] = s
      /\ \A k \in 1 .. M : f[k] = step[k][f[k - 1]]
  BY <1>5 DEF Recurs
<1>7. \A k \in 1 .. M : k - 1 \in 0 .. M
  BY <1>1
<1>8. \A k \in 1 .. M : f[k] = next(k, f[k - 1])
  BY <1>6, <1>7
<1>. HIDE DEF step
<1>9. Loop(f)
  <2>1. \A k \in 0 .. M : k = 0 \/ k \in 1 .. M
    BY <1>1
  <2>. QED
    BY <1>6, <1>8, <2>1
<1>. DEFINE q == CHOOSE q : Loop(q)
<1>10. Loop(q)
  <2>. HIDE DEF Loop
  <2>. QED
    BY <1>9
<1>. HIDE DEF q
<1>11. q[0] = s /\ \A k \in 1 .. M : q[k] = next(k, q[k - 1])
  <2>1. 0 \in 0 .. M /\ \A k \in 1 .. M : k \in 0 .. M /\ k # 0
    BY <1>1
  <2>. QED
    BY <1>10, <2>1
<1>. HIDE DEF Loop
<1>. DEFINE S == {k \in 0 .. M : SortedBut(s, q[k], N, k + 1, N - k)}
<1>12. 0 \in S
  <2>1. SortedBut(s, s, N, 1, N)
    BY SortedButWhole
  <2>2. 0 \in 0 .. M /\ N - 0 = N /\ 0 + 1 = 1
    BY <1>1
  <2>. QED
    BY <1>11, <2>1, <2>2
<1>13. \A k \in 0 .. M - 1 : k \in S => k + 1 \in S
  <2>. SUFFICES ASSUME NEW k \in 0 .. M - 1, SortedBut(s, q[k], N, k + 1, N - k) PROVE k + 1 \in S
    OBVIOUS
  <2>. DEFINE r == q[k]
              lo == k + 1
              hi == N - k
              e == Bubbled(r, Up(lo, hi - 1))
              u == Bubbled(e, Down(hi - 1, lo))
  <2>1. /\ k + 1 \in 1 .. M /\ k + 1 \in 0 .. M /\ (k + 1) - 1 = k /\ N - (k + 1) = hi - 1
        /\ lo \in 1 .. N /\ hi \in lo .. N /\ hi - 1 \in lo .. N /\ N + 1 - (k + 1) - 1 = hi - 1
        /\ (k + 1) + 1 = lo + 1
    BY <1>1
  <2>2. q[k + 1] = u /\ r \in IntArrays(N) /\ SortedBut(s, r, N, lo, hi)
    BY <1>0, <1>11, <2>1 DEF next, SortedBut
  <2>. HIDE DEF r, lo, hi
  <2>3. Up(lo, hi - 1) \in Seq(1 .. N - 1) /\ \A i \in lo .. hi : e[i] <= e[hi]
    BY <2>1, <2>2, UpCarries
  <2>4. SortedBut(s, e, N, lo, hi)
    BY <2>1, <2>2, <2>3, SortedButBubbled
  <2>. HIDE DEF e
  <2>5. SortedBut(s, e, N, lo, hi - 1) /\ e \in IntArrays(N)
    BY <2>1, <2>3, <2>4, SortedButLess DEF SortedBut
  <2>6. Down(hi - 1, lo) \in Seq(1 .. N - 1) /\ \A i \in lo .. hi : u[lo] <= u[i]
    BY <2>1, <2>5, DownCarries
  <2>7. SortedBut(s, u, N, lo, hi - 1)
    BY <2>1, <2>5, <2>6, SortedButBubbled
  <2>. HIDE DEF u
  <2>8. \A i \in lo .. hi - 1 : i \in lo .. hi
    BY <2>1
  <2>9. SortedBut(s, u, N, lo + 1, hi - 1)
    <3>. DEFINE h == hi - 1
    <3>1. h \in lo .. N /\ SortedBut(s, u, N, lo, h) /\ \A i \in lo .. h : u[lo] <= u[i]
      BY <2>1, <2>6, <2>7, <2>8
    <3>. HIDE DEF h
    <3>2. SortedBut(s, u, N, lo + 1, h)
      BY <2>1, <3>1, SortedButLess
    <3>. QED
      BY <3>2 DEF h
  <2>. QED
    BY <2>1, <2>2, <2>9
<1>14. M \in S
  <2>. HIDE DEF S
  <2>1. \A k \in 0 .. M : k \in S
    BY <1>1, <1>12, <1>13, UpTo
  <2>2. M \in 0 .. M
    BY <1>1
  <2>. QED
    BY <2>1, <2>2
<1>. QED
  <2>1. sort_bubble_v2(s) = q[M]
    BY <1>3 DEF q
  <2>2. SortedBut(s, sort_bubble_v2(s), N, M + 1, N - M)
    BY <1>14, <2>1
  <2>3. M + 1 \in Int /\ N - M \in Int
    BY <1>1
  <2>. QED
    BY <1>1, <2>2, <2>3, SortedButNothing

(* sort_select: each round closes the lower end.                            *)
LEMMA SelectSorts ==
  ASSUME NEW N \in Nat, NEW s \in IntArrays(N)
  PROVE  Sorted(sort_select(s)) /\ SameElements(s, sort_select(s))
<1>. DEFINE M == N
            D == IntArrays(N)
            next(k, r) == LET m == Least(r, k) IN IF m # k THEN Exchange(r, m, k) ELSE r
            step == [k \in 1 .. M |-> [r \in D |-> next(k, r)]]
            Loop(r) == r = [k \in 0 .. M |-> IF k = 0 THEN s ELSE next(k, r[k - 1])]
<1>1. M \in Nat /\ s \in D
  OBVIOUS
<1>2. Len(s) = N
  BY DEF IntArrays
<1>3. sort_select(s) = (CHOOSE r : Loop(r))[M]
  BY <1>2 DEF sort_select
<1>4. \A k \in 1 .. M : \A r \in D : next(k, r) \in D
  <2>. SUFFICES ASSUME NEW k \in 1 .. M, NEW r \in D PROVE next(k, r) \in D
    OBVIOUS
  <2>1. Least(r, k) \in 1 .. N
    BY LeastIs
  <2>. QED
    BY <2>1, ExchangeKeeps
<1>. HIDE DEF M, D, next
<1>5. PICK f : Recurs(f, M, D, s, step)
  <2>1. step \in [1 .. M -> [D -> D]]
    BY <1>4
  <2>. HIDE DEF step
  <2>. QED
    BY <1>1, <2>1, RecursionExists
<1>6. /\ f \in [0 .. M -> D] /\ f[0] = s
      /\ \A k \in 1 .. M : f[k] = step[k][f[k - 1]]
  BY <1>5 DEF Recurs
<1>7. \A k \in 1 .. M : k - 1 \in 0 .. M
  BY <1>1
<1>8. \A k \in 1 .. M : f[k] = next(k, f[k - 1])
  BY <1>6, <1>7
<1>. HIDE DEF step
<1>9. Loop(f)
  <2>1. \A k \in 0 .. M : k = 0 \/ k \in 1 .. M
    BY <1>1
  <2>. QED
    BY <1>6, <1>8, <2>1
<1>. DEFINE q == CHOOSE q : Loop(q)
<1>10. Loop(q)
  <2>. HIDE DEF Loop
  <2>. QED
    BY <1>9
<1>. HIDE DEF q
<1>11. q[0] = s /\ \A k \in 1 .. M : q[k] = next(k, q[k - 1])
  <2>1. 0 \in 0 .. M /\ \A k \in 1 .. M : k \in 0 .. M /\ k # 0
    BY <1>1
  <2>. QED
    BY <1>10, <2>1
<1>. HIDE DEF Loop
<1>. DEFINE S == {k \in 0 .. M : SortedBut(s, q[k], N, k + 1, N)}
<1>12. 0 \in S
  <2>1. SortedBut(s, s, N, 1, N)
    BY SortedButWhole
  <2>2. 0 \in 0 .. M /\ N - 0 = N /\ 0 + 1 = 1
    BY <1>1
  <2>. QED
    BY <1>11, <2>1, <2>2
<1>13. \A k \in 0 .. M - 1 : k \in S => k + 1 \in S
  <2>. SUFFICES ASSUME NEW k \in 0 .. M - 1, SortedBut(s, q[k], N, k + 1, N) PROVE k + 1 \in S
    OBVIOUS
  <2>. DEFINE r == q[k]
              lo == k + 1
              m == Least(r, lo)
              e == q[k + 1]
  <2>1. /\ lo \in 1 .. M /\ lo \in 1 .. N /\ lo \in 0 .. M /\ lo - 1 = k /\ M = N
        /\ N \in lo .. N
    BY <1>1 DEF M
  <2>2. e = next(lo, r) /\ r \in IntArrays(N) /\ SortedBut(s, r, N, lo, N)
    BY <1>11, <2>1 DEF SortedBut
  <2>3. e = IF m # lo THEN Exchange(r, m, lo) ELSE r
    BY <2>2 DEF next
  <2>. HIDE DEF r, lo, e
  <2>4. m \in lo .. N /\ \A j \in lo .. N : r[m] <= r[j]
    BY <2>1, <2>2, LeastIs
  <2>. HIDE DEF m
  <2>5. m \in 1 .. N /\ lo <= m /\ m <= N /\ Framed(r, lo, N)
    BY <2>1, <2>2, <2>4 DEF SortedBut
  <2>6. SortedBut(s, e, N, lo, N) /\ \A j \in lo .. N : e[lo] <= e[j]
    <3>1. CASE m = lo
      BY <2>2, <2>3, <2>4, <3>1
    <3>2. CASE m # lo
      <4>1. e = Exchange(r, m, lo)
        BY <2>3, <3>2
      <4>2. e \in IntArrays(N)
        BY <2>1, <2>2, <2>5, <4>1, ExchangeKeeps
      <4>3. SameCounts(r, e)
        <5>1. r \in IntArrays(N) /\ m \in 1 .. N /\ lo \in 1 .. N
          BY <2>1, <2>2, <2>5
        <5>2. SameCounts(r, Exchange(r, m, lo))
          BY <5>1, ExchangeKeeps, Zenon
        <5>. QED
          BY <4>1, <5>2, Zenon
      <4>4. Framed(e, lo, N)
        BY <2>1, <2>2, <2>5, <4>1, ExchangeInside
      <4>5. \A z \in 1 .. N : e[z] = IF z = m THEN r[lo] ELSE IF z = lo THEN r[m] ELSE r[z]
        BY <2>1, <2>2, <2>5, <4>1 DEF Exchange, IntArrays
      <4>6. \A j \in lo .. N : j \in 1 .. N /\ r[m] <= r[j]
        BY <2>1, <2>4
      <4>7. e[lo] = r[m] /\ r[m] <= r[lo]
        BY <2>1, <3>2, <4>5, <4>6
      <4>8. \A j \in lo .. N : e[lo] <= e[j]
        <5>1. \A j \in lo .. N : e[j] \in {r[lo], r[m], r[j]}
          BY <4>5, <4>6
        <5>2. r[m] <= r[m]
          BY <2>4
        <5>. QED
          BY <4>6, <4>7, <5>1, <5>2
      <4>. QED
        BY <2>2, <4>2, <4>3, <4>4, <4>8 DEF SortedBut, SameCounts
    <3>. QED
      BY <3>1, <3>2
  <2>7. SortedBut(s, e, N, lo + 1, N)
    BY <2>1, <2>6, SortedButLess
  <2>. QED
    BY <2>1, <2>7 DEF lo, e
<1>14. M \in S
  <2>. HIDE DEF S
  <2>1. \A k \in 0 .. M : k \in S
    BY <1>1, <1>12, <1>13, UpTo
  <2>2. M \in 0 .. M
    BY <1>1
  <2>. QED
    BY <2>1, <2>2
<1>. QED
  <2>1. sort_select(s) = q[N]
    BY <1>3 DEF q, M
  <2>2. SortedBut(s, sort_select(s), N, N + 1, N)
    BY <1>14, <2>1 DEF M
  <2>. QED
    BY <2>2, SortedButNothing

(* Two bytes hold any number in their range; the negative of the least one  *)
(* is itself, so that taking it twice gives back every number.              *)
LEMMA Int16Is ==
  ASSUME NEW v \in -Half .. (Half - 1)
  PROVE  Int16(v) = v /\ Int16(- Int16(- v)) = v /\ Int16(- v) \in Int
<1>. DEFINE m == 2 * Half
<1>1. Half \in Nat \ {0} /\ m \in Nat \ {0}
  BY ArraysAssumption
<1>2. Int16(v) = v
  <2>1. v + Half \in 0 .. m - 1
    BY <1>1
  <2>. HIDE DEF m
  <2>2. (v + Half) % m = v + Half
    BY <1>1, <2>1, ModOnce
  <2>. QED
    BY <1>1, <2>2 DEF Int16, m
<1>3. CASE v = -Half
  <2>1. Int16(Half) = -Half
    <3>1. 0 \in 0 .. m - 1 /\ Half + Half = 0 + m
      BY <1>1
    <3>. HIDE DEF m
    <3>2. (0 + m) % m = 0
      BY <1>1, <3>1, ModOnce
    <3>. QED
      BY <1>1, <3>1, <3>2 DEF Int16, m
  <2>2. - v = Half /\ - (-Half) = Half
    BY <1>1, <1>3
  <2>. QED
    BY <1>1, <1>2, <1>3, <2>1, <2>2
<1>4. CASE v # -Half
  <2>. DEFINE w == - v
  <2>1. w + Half \in 0 .. m - 1 /\ w \in Int /\ - w = v
    BY <1>1, <1>4
  <2>. HIDE DEF m, w
  <2>2. (w + Half) % m = w + Half
    BY <1>1, <2>1, ModOnce
  <2>3. Int16(w) = w
    BY <1>1, <2>1, <2>2 DEF Int16, m
  <2>. QED
    BY <1>2, <2>1, <2>3 DEF w
<1>. QED
  BY <1>3, <1>4

(* A configuration that names each axis once names every one.               *)
LEMMA EveryAxisIsNamed ==
  ASSUME NEW cfg \in AxisConfigs, NEW i \in 1 .. 3
  PROVE  \E j \in 1 .. 3 : cfg[j] \in {i, -i}
<1>. DEFINE p == cfg[1]
            q == cfg[2]
            r == cfg[3]
<1>1. /\ p \in {-3, -2, -1, 1, 2, 3} /\ q \in {-3, -2, -1, 1, 2, 3} /\ r \in {-3, -2, -1, 1, 2, 3}
      /\ p # q /\ p # -q /\ p # r /\ p # -r /\ q # r /\ q # -r
  BY DEF AxisConfigs
<1>. HIDE DEF p, q, r
<1>2. p \in {i, -i} \/ q \in {i, -i} \/ r \in {i, -i}
  BY <1>1
<1>. QED
  BY <1>2 DEF p, q, r

(* Mapping by a configuration and then by the one that undoes it.           *)
LEMMA MappedBack ==
  ASSUME NEW d \in [1 .. 3 -> Numbers], NEW cfg \in AxisConfigs
  PROVE  sensor_data_map_axis(AxisMap(Undo(cfg)), sensor_data_map_axis(AxisMap(cfg), d)) = d
<1>. DEFINE g == Undo(cfg)
            b == sensor_data_map_axis(AxisMap(cfg), d)
            c == sensor_data_map_axis(AxisMap(g), b)
<1>1. ASSUME NEW i \in 1 .. 3 PROVE c[i] = d[i]
  <2>. DEFINE j == CHOOSE j \in 1 .. 3 : cfg[j] \in {i, -i}
  <2>1. j \in 1 .. 3 /\ cfg[j] \in {i, -i}
    BY EveryAxisIsNamed
  <2>2. g[i] = IF cfg[j] = i THEN j ELSE -j
    BY DEF Undo
  <2>. HIDE DEF j, g
  <2>. DEFINE e == IF cfg[j] = i THEN 1 ELSE -1
  <2>3. /\ AxisMap(cfg).axis[j] = i /\ AxisMap(cfg).sign[j] = e
        /\ AxisMap(g).axis[i] = j /\ AxisMap(g).sign[i] = e
    <3>1. /\ AxisMap(cfg).sign[j] = IF cfg[j] < 0 THEN -1 ELSE 1
          /\ AxisMap(cfg).axis[j] = cfg[j] * (IF cfg[j] < 0 THEN -1 ELSE 1)
          /\ AxisMap(g).sign[i] = IF g[i] < 0 THEN -1 ELSE 1
          /\ AxisMap(g).axis[i] = g[i] * (IF g[i] < 0 THEN -1 ELSE 1)
      BY <2>1 DEF AxisMap
    <3>2. CASE cfg[j] = i
      <4>1. g[i] = j
        BY <2>2, <3>2
      <4>. QED
        BY <2>1, <3>1, <3>2, <4>1
    <3>3. CASE cfg[j] # i
      <4>1. g[i] = -j /\ cfg[j] = -i
        BY <2>1, <2>2, <3>3
      <4>. QED
        BY <2>1, <3>1, <3>3, <4>1
    <3>. QED
      BY <3>2, <3>3
  <2>4. b[j] = Int16(d[i] * e) /\ c[i] = Int16(b[j] * e)
    <3>1. b[j] = Int16(d[i] * e)
      BY <2>1, <2>3 DEF sensor_data_map_axis
    <3>. HIDE DEF b
    <3>2. c[i] = Int16(b[j] * e)
      BY <2>1, <2>3 DEF sensor_data_map_axis
    <3>. QED
      BY <3>1, <3>2
  <2>5. d[i] \in -Half .. (Half - 1) /\ Half \in Int
    <3>1. d[i] \in Numbers
      OBVIOUS
    <3>2. Numbers \subseteq -Half .. (Half - 1) /\ Half \in Int
      BY ONLY ArraysAssumption
    <3>. QED
      BY ONLY <3>1, <3>2
  <2>6. CASE e = 1
    <3>1. d[i] * 1 = d[i] /\ Int16(d[i]) = d[i]
      BY <2>5, Int16Is
    <3>. QED
      BY <2>4, <2>6, <3>1
  <2>7. CASE e = -1
    <3>1. d[i] * (-1) = - d[i] /\ Int16(- d[i]) \in Int /\ Int16(- Int16(- d[i])) = d[i]
      BY <2>5, Int16Is
    <3>2. Int16(- d[i]) * (-1) = - Int16(- d[i])
      BY <3>1
    <3>. QED
      BY <2>4, <2>7, <3>1, <3>2
  <2>. QED
    BY <2>6, <2>7
<1>2. c = [i \in 1 .. 3 |-> c[i]] /\ d = [i \in 1 .. 3 |-> d[i]]
  BY DEF sensor_data_map_axis
<1>. HIDE DEF c
<1>3. c = d
  BY <1>1, <1>2
<1>. QED
  BY <1>3 DEF c, b, g

(* Whatever array the exercises are given.                                  *)
LEMMA ArraysKeep ==
  ASSUME ArrayInit
  PROVE  KeepsElements
<1>1. PICK N \in 0 .. MaxSize : a \in [1 .. N -> Numbers]
  BY DEF ArrayInit
<1>2. N \in Nat /\ a \in IntArrays(N) /\ Len(a) = N
  <2>1. N \in Nat /\ Numbers \subseteq Int
    BY ArraysAssumption
  <2>2. \A i \in 1 .. N : a[i] \in Int
    BY <1>1, <2>1
  <2>3. a = [i \in 1 .. N |-> a[i]]
    BY <1>1
  <2>. QED
    BY <2>1, <2>2, <2>3 DEF IntArrays
<1>3. SortsSort
  BY <1>2, BubbleSorts, BubbleV2Sorts, SelectSorts DEF SortsSort
<1>4. AxesCanBeMappedBack
  <2>. SUFFICES ASSUME Len(a) = 3, NEW cfg \in AxisConfigs
                PROVE  sensor_data_map_axis(AxisMap(Undo(cfg)),
                                            sensor_data_map_axis(AxisMap(cfg), a)) = a
    BY DEF AxesCanBeMappedBack
  <2>1. a \in [1 .. 3 -> Numbers]
    BY <1>1, <1>2
  <2>. QED
    BY <2>1, MappedBack
<1>. QED
  BY <1>3, <1>4 DEF KeepsElements

(* sort_bubble, sort_bubble_v2 and sort_select return the elements of any   *)
(* array in order, none lost and none made up; and sensor_data_map_axis     *)
(* with a map that names each axis once can be undone, for every int16_t.   *)
THEOREM ElementsAlwaysKept == AllSpec => []KeepsElements
<1>1. AllInit => KeepsElements
  BY ArraysKeep DEF AllInit
<1>2. KeepsElements /\ [AllNext]_allVars => KeepsElements'
  <2>. SUFFICES ASSUME KeepsElements, [AllNext]_allVars PROVE KeepsElements'
    OBVIOUS
  <2>1. a' = a
    BY DEF AllNext, allVars
  <2>. QED
    BY <2>1 DEF KeepsElements, SortsSort, AxesCanBeMappedBack
<1>. QED
  BY <1>1, <1>2, PTL DEF AllSpec
=============================================================================
