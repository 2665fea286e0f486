------------------------------ MODULE RingBuffer ------------------------------
(***************************************************************************)
(* The ring buffer of 基础知识/ringbuffer/ringbuffer.c.  in and out count    *)
(* bytes modulo 2^32 (here modulo W) and are never reduced modulo the      *)
(* size; the program's lengths are differences of them.                    *)
(***************************************************************************)
EXTENDS Integers, Sequences

CONSTANTS
  Data,     \* the bytes
  Size,     \* rb->size, a power of two
  W,        \* the number of values of a uint32_t
  MaxLen    \* the longest write or read that is asked for

ASSUME SizeAssumption ==
  /\ Size \in Nat \ {0}
  /\ W \in Nat
  /\ W % Size = 0 /\ Size < W   \* what a power of two below 2^32 fulfils
  /\ MaxLen \in Nat /\ MaxLen < W

VARIABLES
  buffer,   \* the bytes from index 0
  in,       \* the write index
  out,      \* the read index
  reply     \* the bytes that the last call took from its caller or gave it

vars == <<buffer, in, out, reply>>

(* malloc leaves anything in the buffer.                                    *)
Init ==
  /\ buffer \in [0 .. Size - 1 -> Data]
  /\ in = 0 /\ out = 0
  /\ reply = <<>>

min(a, b) == IF a < b THEN a ELSE b

(* memcpy of a sequence into a buffer; it does not look for the end.        *)
memcpy(dst, at, bytes) ==
  [i \in DOMAIN dst \union at .. at + Len(bytes) - 1 |->
     IF i \in at .. at + Len(bytes) - 1 THEN bytes[i - at + 1] ELSE dst[i]]

(* memcpy of l bytes out of the buffer.                                     *)
BytesAt(at, l) == [k \in 1 .. l |-> buffer[at + k - 1]]

rb_get_valid_length == (in - out) % W
Free == (Size - in + out) % W

(* Up to the end of the buffer from index i.                                *)
First(len, i) == min(len, Size - (i % Size))

rb_write(bytes) ==
  LET len == min(Len(bytes), Free)
      l == First(len, in)
  IN /\ buffer' = memcpy(memcpy(buffer, in % Size, SubSeq(bytes, 1, l)),
                         0, SubSeq(bytes, l + 1, len))
     /\ in' = (in + len) % W
     /\ reply' = SubSeq(bytes, 1, len)
     /\ UNCHANGED out

rb_read_from_out(n) ==
  LET len == min(n, rb_get_valid_length)
      l == First(len, out)
  IN /\ reply' = BytesAt(out % Size, l) \o BytesAt(out % Size, len - l)
     /\ out' = (out + len) % W
     /\ UNCHANGED <<buffer, in>>
rb_read(n) ==
  LET len == min(n, rb_get_valid_length)
      l == First(len, out)
  IN /\ reply' = BytesAt(out % Size, l) \o BytesAt(0, len - l)
     /\ out' = (out + len) % W
     /\ UNCHANGED <<buffer, in>>

Next ==
  \/ \E n \in 0 .. MaxLen : \E bytes \in [1 .. n -> Data] : rb_write(bytes)
  \/ \E n \in 0 .. MaxLen : rb_read(n)

Spec == Init /\ [][Next]_vars

-----------------------------------------------------------------------------
(* The buffer keeps its size: no copy goes past its end, wherever the       *)
(* indices are.                                                             *)
TypeOK ==
  /\ buffer \in [0 .. Size - 1 -> Data]
  /\ in \in 0 .. W - 1
  /\ out \in 0 .. W - 1
  /\ reply \in Seq(Data)

(* The two differences complement each other although one of the indices   *)
(* may have overflowed and the other not: neither is ever read as a huge    *)
(* length.                                                                  *)
LengthsAddUp == rb_get_valid_length + Free = Size

contents ==
  [k \in 1 .. rb_get_valid_length |-> buffer[(out + k - 1) % Size]]

(* The ring is a queue of Size bytes: no byte is lost, repeated, reordered  *)
(* or invented, also over the end of the buffer and the overflow of in and  *)
(* out.                                                                     *)
Queue == INSTANCE ByteFifo
ImplementsQueue == Queue!Spec
===============================================================================
