------------------------------- MODULE ByteFifo -------------------------------
(***************************************************************************)
(* What a ring buffer promises: a queue of at most Size bytes.  A write    *)
(* takes as many of the bytes as fit, a read gives the oldest bytes.       *)
(***************************************************************************)
EXTENDS Integers, Sequences

CONSTANTS
  Data,       \* the bytes
  Size,       \* the capacity
  MaxLen      \* the longest write or read that is asked for

VARIABLES
  contents,   \* the bytes in the queue, the oldest first
  reply       \* the bytes that the last operation took or gave

Least(a, b) == IF a < b THEN a ELSE b

Init == contents = <<>> /\ reply = <<>>

Write(bytes) ==
  LET n == Least(Len(bytes), Size - Len(contents))
  IN /\ reply' = SubSeq(bytes, 1, n)
     /\ contents' = contents \o SubSeq(bytes, 1, n)

Read(len) ==
  LET n == Least(len, Len(contents))
  IN /\ reply' = SubSeq(contents, 1, n)
     /\ contents' = SubSeq(contents, n + 1, Len(contents))

Next ==
  \/ \E n \in 0 .. MaxLen : \E bytes \in [1 .. n -> Data] : Write(bytes)
  \/ \E n \in 0 .. MaxLen : Read(n)

Spec == Init /\ [][Next]_<<contents, reply>>
===============================================================================
