---------------------------- MODULE Lists_proofs ----------------------------
(***************************************************************************)
(* Theorems about the linked lists, for every number of heads, buckets,    *)
(* entries and nodes.  For KernelList, next and prev being inverse to each *)
(* other is not inductive on its own: a splice of a list onto a head of    *)
(* the same ring would break it.  The invariant proved therefore says in   *)
(* addition that every cell belongs to a ring with at most one head, by an *)
(* owner that is constant along next.                                      *)
(*                                                                         *)
(* Behind it: list_empty_careful against a deleter on another processor    *)
(* (CarefulInv), the lists that are followed in one direction as sequences *)
(* (Strung, NodeInv, ChainInv), and the loops whose body changes the list  *)
(* (Round, WalkInv).                                                       *)
(***************************************************************************)
EXTENDS MCLists, CommonLemmas, FiniteSetTheorems, SequenceTheorems, TLAPS

(* KernelList: the doubly linked lists.                                     *)

(* The cells of cs are doubly linked among each other, in rings on which    *)
(* the owner o does not change.                                             *)
Linked(m, cs, o) ==
    \A c \in cs: /\ m.next[c] \in cs /\ m.prev[m.next[c]] = c
                 /\ m.prev[c] \in cs /\ m.next[m.prev[c]] = c
                 /\ o[m.next[c]] = o[c]

Owners == [Cells -> Cells]

ListInv ==
    /\ ListTypeOK
    /\ \E o \in Owners: Linked(mem, live, o) /\ \A h \in live \cap Heads: o[h] = h

-----------------------------------------------------------------------------
(* m2 is m1 after one store to a next pointer, or to a prev pointer.        *)
NextStored(m1, c, q, m2) ==
    m2.prev = m1.prev /\ \A d \in Cells: m2.next[d] = IF d = c THEN q ELSE m1.next[d]
PrevStored(m1, c, q, m2) ==
    m2.next = m1.next /\ \A d \in Cells: m2.prev[d] = IF d = c THEN q ELSE m1.prev[d]

(* What the two stores do to the memory.                                    *)
LEMMA SetNextStores ==
  ASSUME NEW m \in Memories, NEW c \in Cells, NEW q \in Cells \cup {LIST_POISON1}
  PROVE  SetNext(m, c, q) \in Memories /\ NextStored(m, c, q, SetNext(m, c, q))
BY DEF SetNext, Memories, NextStored, Pointers

(* A store to prev changes prev of one cell and no next.                    *)
LEMMA SetPrevStores ==
  ASSUME NEW m \in Memories, NEW c \in Cells, NEW q \in Cells \cup {LIST_POISON2}
  PROVE  SetPrev(m, c, q) \in Memories /\ PrevStored(m, c, q, SetPrev(m, c, q))
BY DEF SetPrev, Memories, PrevStored, Pointers

-----------------------------------------------------------------------------
(* INIT_LIST_HEAD adds a ring of one cell.                                  *)
LEMMA InitKeeps ==
  ASSUME NEW m \in Memories, NEW cs \in SUBSET Cells, NEW o \in Owners, Linked(m, cs, o),
         NEW c \in Cells, c \notin cs \/ m.next[c] = c
  PROVE  /\ INIT_LIST_HEAD(m, c) \in Memories
         /\ Linked(INIT_LIST_HEAD(m, c), cs \cup {c}, [o EXCEPT ![c] = c])
<1>1. PICK m1 \in Memories: m1 = SetNext(m, c, c) /\ NextStored(m, c, c, m1)
  BY SetNextStores
<1>2. PICK m2 \in Memories: m2 = SetPrev(m1, c, c) /\ PrevStored(m1, c, c, m2)
  BY SetPrevStores
<1>3. Linked(m2, cs \cup {c}, [o EXCEPT ![c] = c])
  BY <1>1, <1>2 DEF Linked, NextStored, PrevStored, Owners
<1>. QED
  BY <1>1, <1>2, <1>3 DEF INIT_LIST_HEAD

(* __list_add puts an idle cell between two neighbours.                     *)
LEMMA LinkKeeps ==
  ASSUME NEW m \in Memories, NEW cs \in SUBSET Cells, NEW o \in Owners, Linked(m, cs, o),
         NEW new \in Cells, new \notin cs \/ m.next[new] = new,
         NEW prev \in cs, NEW succ \in cs, prev # new, succ # new, m.next[prev] = succ
  PROVE  /\ list_link(m, new, prev, succ) \in Memories
         /\ Linked(list_link(m, new, prev, succ), cs \cup {new}, [o EXCEPT ![new] = o[prev]])
<1>1. PICK m1 \in Memories: m1 = SetPrev(m, succ, new) /\ PrevStored(m, succ, new, m1)
  BY SetPrevStores
<1>2. PICK m2 \in Memories: m2 = SetNext(m1, new, succ) /\ NextStored(m1, new, succ, m2)
  BY SetNextStores
<1>3. PICK m3 \in Memories: m3 = SetPrev(m2, new, prev) /\ PrevStored(m2, new, prev, m3)
  BY SetPrevStores
<1>4. PICK m4 \in Memories: m4 = SetNext(m3, prev, new) /\ NextStored(m3, prev, new, m4)
  BY SetNextStores
<1>5. \A d \in Cells:
        /\ m4.next[d] = IF d = prev THEN new ELSE IF d = new THEN succ ELSE m.next[d]
        /\ m4.prev[d] = IF d = new THEN prev ELSE IF d = succ THEN new ELSE m.prev[d]
  BY <1>1, <1>2, <1>3, <1>4 DEF NextStored, PrevStored
<1>6. Linked(m4, cs \cup {new}, [o EXCEPT ![new] = o[prev]])
  BY <1>5 DEF Linked, Owners
<1>. QED
  BY <1>1, <1>2, <1>3, <1>4, <1>6 DEF list_link

(* list_add and list_add_tail find the neighbours themselves.               *)
LEMMA AddKeeps ==
  ASSUME NEW m \in Memories, NEW cs \in SUBSET Cells, NEW o \in Owners, Linked(m, cs, o),
         NEW new \in Cells, new \notin cs \/ m.next[new] = new,
         NEW h \in cs, h # new
  PROVE  \A m1 \in {list_add(m, new, h), list_add_tail(m, new, h)}:
           m1 \in Memories /\ Linked(m1, cs \cup {new}, [o EXCEPT ![new] = o[h]])
<1>1. /\ m.next[h] \in cs /\ m.prev[h] \in cs /\ m.next[m.prev[h]] = h
      /\ m.next[h] # new /\ m.prev[h] # new /\ o[m.prev[h]] = o[h]
  BY DEF Linked
<1>2. /\ list_add(m, new, h) \in Memories
      /\ Linked(list_add(m, new, h), cs \cup {new}, [o EXCEPT ![new] = o[h]])
  BY <1>1, LinkKeeps DEF list_add
<1>3. /\ list_add_tail(m, new, h) \in Memories
      /\ Linked(list_add_tail(m, new, h), cs \cup {new}, [o EXCEPT ![new] = o[m.prev[h]]])
  BY <1>1, LinkKeeps DEF list_add_tail
<1>. QED
  BY <1>1, <1>2, <1>3

(* __list_del leaves the other cells linked.                                *)
LEMMA UnlinkKeeps ==
  ASSUME NEW m \in Memories, NEW cs \in SUBSET Cells, NEW o \in Owners, Linked(m, cs, o),
         NEW entry \in cs
  PROVE  /\ list_del_entry(m, entry) \in Memories
         /\ Linked(list_del_entry(m, entry), cs \ {entry}, o)
<1>. DEFINE prev == m.prev[entry]
            succ == m.next[entry]
<1>0. prev \in cs /\ succ \in cs
  BY DEF Linked
<1>1. PICK m1 \in Memories: m1 = SetPrev(m, succ, prev) /\ PrevStored(m, succ, prev, m1)
  BY <1>0, SetPrevStores
<1>2. PICK m2 \in Memories: m2 = SetNext(m1, prev, succ) /\ NextStored(m1, prev, succ, m2)
  BY <1>0, SetNextStores
<1>3. Linked(m2, cs \ {entry}, o)
  BY <1>0, <1>1, <1>2 DEF Linked, NextStored, PrevStored
<1>. QED
  BY <1>1, <1>2, <1>3 DEF list_del_entry, list_unlink

(* list_del poisons a cell that nothing points to any more.                 *)
LEMMA DelKeeps ==
  ASSUME NEW m \in Memories, NEW cs \in SUBSET Cells, NEW o \in Owners, Linked(m, cs, o),
         NEW entry \in cs
  PROVE  list_del(m, entry) \in Memories /\ Linked(list_del(m, entry), cs \ {entry}, o)
<1>0. PICK m0 \in Memories: m0 = list_del_entry(m, entry) /\ Linked(m0, cs \ {entry}, o)
  BY UnlinkKeeps
<1>1. PICK m1 \in Memories: /\ m1 = SetNext(m0, entry, LIST_POISON1)
                            /\ NextStored(m0, entry, LIST_POISON1, m1)
  BY SetNextStores
<1>2. PICK m2 \in Memories: /\ m2 = SetPrev(m1, entry, LIST_POISON2)
                            /\ PrevStored(m1, entry, LIST_POISON2, m2)
  BY SetPrevStores
<1>3. Linked(m2, cs \ {entry}, o)
  BY <1>0, <1>1, <1>2 DEF Linked, NextStored, PrevStored
<1>. QED
  BY <1>0, <1>1, <1>2, <1>3 DEF list_del

(* list_del_init: as list_del, and the entry is a ring of its own.          *)
LEMMA DelInitKeeps ==
  ASSUME NEW m \in Memories, NEW cs \in SUBSET Cells, NEW o \in Owners, Linked(m, cs, o),
         NEW entry \in cs
  PROVE  /\ list_del_init(m, entry) \in Memories
         /\ Linked(list_del_init(m, entry), cs, [o EXCEPT ![entry] = entry])
<1>. DEFINE ds == cs \ {entry}
<1>1. ds \in SUBSET Cells /\ entry \in Cells /\ entry \notin ds /\ ds \cup {entry} = cs
  OBVIOUS
<1>2. PICK m1 \in Memories: m1 = list_del_entry(m, entry) /\ Linked(m1, ds, o)
  BY UnlinkKeeps
<1>. HIDE DEF ds
<1>3. /\ INIT_LIST_HEAD(m1, entry) \in Memories
      /\ Linked(INIT_LIST_HEAD(m1, entry), ds \cup {entry}, [o EXCEPT ![entry] = entry])
  BY <1>1, <1>2, InitKeeps
<1>. QED
  BY <1>1, <1>2, <1>3 DEF list_del_init

(* list_move and list_move_tail: out of one ring and into another.          *)
LEMMA MoveKeeps ==
  ASSUME NEW m \in Memories, NEW cs \in SUBSET Cells, NEW o \in Owners, Linked(m, cs, o),
         NEW entry \in cs, NEW h \in cs, h # entry
  PROVE  \A m1 \in {list_move(m, entry, h), list_move_tail(m, entry, h)}:
           m1 \in Memories /\ Linked(m1, cs, [o EXCEPT ![entry] = o[h]])
<1>. DEFINE ds == cs \ {entry}
<1>1. /\ ds \in SUBSET Cells /\ entry \in Cells /\ entry \notin ds
      /\ ds \cup {entry} = cs /\ h \in ds
  OBVIOUS
<1>2. PICK m1 \in Memories: m1 = list_del_entry(m, entry) /\ Linked(m1, ds, o)
  BY UnlinkKeeps
<1>. HIDE DEF ds
<1>3. \A m2 \in {list_add(m1, entry, h), list_add_tail(m1, entry, h)}:
        m2 \in Memories /\ Linked(m2, ds \cup {entry}, [o EXCEPT ![entry] = o[h]])
  <2>1. /\ m1 \in Memories /\ ds \in SUBSET Cells /\ o \in Owners /\ Linked(m1, ds, o)
        /\ entry \in Cells /\ entry \notin ds /\ h \in ds /\ h # entry
    BY <1>1, <1>2
  <2>2. /\ list_add(m1, entry, h) \in Memories
        /\ Linked(list_add(m1, entry, h), ds \cup {entry}, [o EXCEPT ![entry] = o[h]])
    BY ONLY <2>1, AddKeeps
  <2>3. /\ list_add_tail(m1, entry, h) \in Memories
        /\ Linked(list_add_tail(m1, entry, h), ds \cup {entry}, [o EXCEPT ![entry] = o[h]])
    BY ONLY <2>1, AddKeeps
  <2>. QED
    BY <2>2, <2>3
<1>. QED
  BY <1>1, <1>2, <1>3 DEF list_move, list_move_tail

(* list_replace, also of a cell that is alone on its ring.                  *)
LEMMA ReplaceKeeps ==
  ASSUME NEW m \in Memories, NEW cs \in SUBSET Cells, NEW o \in Owners, Linked(m, cs, o),
         NEW old \in cs, NEW new \in Cells, new # old, new \notin cs \/ m.next[new] = new
  PROVE  /\ list_replace(m, old, new) \in Memories
         /\ Linked(list_replace(m, old, new), (cs \ {old}) \cup {new}, [o EXCEPT ![new] = o[old]])
<1>0. m.next[old] \in cs /\ m.prev[old] \in cs
  BY DEF Linked
<1>1. PICK m1 \in Memories: /\ m1 = SetNext(m, new, m.next[old])
                            /\ NextStored(m, new, m.next[old], m1)
  BY <1>0, SetNextStores
<1>a. m1.next[new] = m.next[old]
  BY <1>1 DEF NextStored
<1>2. PICK m2 \in Memories: /\ m2 = SetPrev(m1, m1.next[new], new)
                            /\ PrevStored(m1, m.next[old], new, m2)
  BY <1>0, <1>a, SetPrevStores
<1>b. m2.prev[old] \in Cells
  BY <1>0, <1>1, <1>2 DEF NextStored, PrevStored
<1>3. PICK m3 \in Memories: /\ m3 = SetPrev(m2, new, m2.prev[old])
                            /\ PrevStored(m2, new, m2.prev[old], m3)
  BY <1>b, SetPrevStores
<1>c. m3.prev[new] = m2.prev[old]
  BY <1>3 DEF PrevStored
<1>4. PICK m4 \in Memories: /\ m4 = SetNext(m3, m3.prev[new], new)
                            /\ NextStored(m3, m2.prev[old], new, m4)
  BY <1>b, <1>c, SetNextStores
<1>5. \A d \in Cells:
        /\ m2.next[d] = IF d = new THEN m.next[old] ELSE m.next[d]
        /\ m2.prev[d] = IF d = m.next[old] THEN new ELSE m.prev[d]
  BY <1>1, <1>2 DEF NextStored, PrevStored
<1>6. \A d \in Cells:
        /\ m4.next[d] = IF d = m2.prev[old] THEN new ELSE m2.next[d]
        /\ m4.prev[d] = IF d = new THEN m2.prev[old] ELSE m2.prev[d]
  BY <1>3, <1>4 DEF NextStored, PrevStored
<1>. DEFINE o1 == [o EXCEPT ![new] = o[old]]
<1>d. o1 \in Owners /\ \A d \in Cells: o1[d] = IF d = new THEN o[old] ELSE o[d]
  BY DEF Owners
<1>. HIDE DEF o1
<1>7. Linked(m4, (cs \ {old}) \cup {new}, o1)
  <2>1. CASE m.next[old] = old
    <3>1. m.prev[old] = old /\ m2.prev[old] = new
      BY <2>1, <1>5 DEF Linked
    <3>2. \A c \in cs \ {old, new}: /\ m.next[c] \in cs \ {old, new}
                                     /\ m.prev[c] \in cs \ {old, new}
      BY <2>1, <3>1 DEF Linked
    <3>. QED
      BY <2>1, <3>1, <3>2, <1>5, <1>6, <1>d DEF Linked
  <2>2. CASE m.next[old] # old
    <3>1. /\ m.prev[old] # old /\ m.prev[old] # new /\ m.next[old] # new
          /\ m2.prev[old] = m.prev[old]
      BY <2>2, <1>0, <1>5 DEF Linked
    <3>2. \A d \in Cells:
            /\ m4.next[d] = IF d = m.prev[old] THEN new
                            ELSE IF d = new THEN m.next[old] ELSE m.next[d]
            /\ m4.prev[d] = IF d = m.next[old] THEN new
                            ELSE IF d = new THEN m.prev[old] ELSE m.prev[d]
      BY <3>1, <1>5, <1>6
    <3>. QED
      BY <2>2, <3>1, <3>2, <1>0, <1>d DEF Linked
  <2>. QED
    BY <2>1, <2>2
<1>. QED
  BY <1>1, <1>2, <1>3, <1>4, <1>7 DEF list_replace, o1

(* list_replace_init: as list_replace, and old is a ring of its own.        *)
LEMMA ReplaceInitKeeps ==
  ASSUME NEW m \in Memories, NEW cs \in SUBSET Cells, NEW o \in Owners, Linked(m, cs, o),
         NEW old \in cs, NEW new \in Cells, new # old, new \notin cs \/ m.next[new] = new
  PROVE  /\ list_replace_init(m, old, new) \in Memories
         /\ Linked(list_replace_init(m, old, new), cs \cup {new},
                   [[o EXCEPT ![new] = o[old]] EXCEPT ![old] = old])
<1>. DEFINE ds == (cs \ {old}) \cup {new}
            o1 == [o EXCEPT ![new] = o[old]]
<1>1. o1 \in Owners /\ ds \in SUBSET Cells /\ old \in Cells /\ old \notin ds
  BY DEF Owners
<1>2. ds \cup {old} = cs \cup {new}
  OBVIOUS
<1>3. PICK m1 \in Memories: m1 = list_replace(m, old, new) /\ Linked(m1, ds, o1)
  BY ReplaceKeeps
<1>. HIDE DEF ds, o1
<1>4. /\ INIT_LIST_HEAD(m1, old) \in Memories
      /\ Linked(INIT_LIST_HEAD(m1, old), ds \cup {old}, [o1 EXCEPT ![old] = old])
  BY <1>1, <1>3, InitKeeps
<1>. QED
  BY <1>2, <1>3, <1>4 DEF list_replace_init, o1

(* __list_splice puts the cells of one ring, without its head, into another. *)
LEMMA SpliceBetweenKeeps ==
  ASSUME NEW m \in Memories, NEW cs \in SUBSET Cells, NEW o \in Owners, Linked(m, cs, o),
         NEW list \in cs, NEW prev \in cs, NEW succ \in cs, NEW o1 \in Owners,
         m.next[prev] = succ, o[prev] # o[list], m.next[list] # list,
         \A d \in Cells: o1[d] = IF o[d] = o[list] THEN o[prev] ELSE o[d]
  PROVE  /\ list_splice_between(m, list, prev, succ) \in Memories
         /\ Linked(list_splice_between(m, list, prev, succ), cs \ {list}, o1)
<1>. DEFINE first == m.next[list]
            last == m.prev[list]
<1>0. /\ first \in cs /\ last \in cs /\ first # list /\ last # list
      /\ o[succ] = o[prev] /\ o[first] = o[list] /\ o[last] = o[list]
  BY DEF Linked
<1>1. PICK m1 \in Memories: m1 = SetPrev(m, first, prev) /\ PrevStored(m, first, prev, m1)
  BY <1>0, SetPrevStores
<1>2. PICK m2 \in Memories: m2 = SetNext(m1, prev, first) /\ NextStored(m1, prev, first, m2)
  BY <1>0, SetNextStores
<1>3. PICK m3 \in Memories: m3 = SetNext(m2, last, succ) /\ NextStored(m2, last, succ, m3)
  BY <1>0, SetNextStores
<1>4. PICK m4 \in Memories: m4 = SetPrev(m3, succ, last) /\ PrevStored(m3, succ, last, m4)
  BY <1>0, SetPrevStores
<1>5. \A d \in Cells:
        /\ m4.next[d] = IF d = last THEN succ ELSE IF d = prev THEN first ELSE m.next[d]
        /\ m4.prev[d] = IF d = succ THEN last ELSE IF d = first THEN prev ELSE m.prev[d]
  BY <1>1, <1>2, <1>3, <1>4 DEF NextStored, PrevStored
<1>6. Linked(m4, cs \ {list}, o1)
  BY <1>0, <1>5, SMTT(60) DEF Linked
<1>. QED
  BY <1>1, <1>2, <1>3, <1>4, <1>6 DEF list_splice_between

(* list_splice and list_splice_tail: two rings become one.                  *)
LEMMA SpliceKeeps ==
  ASSUME NEW m \in Memories, NEW cs \in SUBSET Cells, NEW o \in Owners, Linked(m, cs, o),
         NEW list \in cs, NEW base \in cs, NEW o1 \in Owners,
         o[base] # o[list], ~ list_empty(m, list),
         \A d \in Cells: o1[d] = IF o[d] = o[list] THEN o[base] ELSE o[d]
  PROVE  \A m1 \in {list_splice(m, list, base), list_splice_tail(m, list, base)}:
           m1 \in Memories /\ Linked(m1, cs \ {list}, o1)
<1>1. /\ m.next[base] \in cs /\ m.prev[base] \in cs /\ m.next[m.prev[base]] = base
      /\ m.next[list] # list /\ o[m.prev[base]] = o[base]
  BY DEF Linked, list_empty
<1>2. /\ list_splice(m, list, base) \in Memories
      /\ Linked(list_splice(m, list, base), cs \ {list}, o1)
  BY <1>1, SpliceBetweenKeeps, ZenonT(60) DEF list_splice
<1>3. /\ list_splice_tail(m, list, base) \in Memories
      /\ Linked(list_splice_tail(m, list, base), cs \ {list}, o1)
  BY <1>1, SpliceBetweenKeeps, ZenonT(60) DEF list_splice_tail
<1>. QED
  BY <1>2, <1>3

(* A range is closed the other way too, and belongs to one ring.            *)
LEMMA RangeFacts ==
  ASSUME NEW o \in Owners, Linked(mem, live, o), live \in SUBSET Cells,
         NEW range, NEW begin, NEW end, IsRange(range, begin, end)
  PROVE  /\ \A c \in range: c = begin \/ mem.prev[c] \in range
         /\ \A c \in range: c = end \/ mem.next[c] \in range
         /\ range \subseteq live \cap Entries /\ begin \in range /\ end \in range
         /\ mem.prev[begin] \in live \ range /\ mem.next[end] \in live \ range
         /\ o[mem.prev[begin]] = o[begin] /\ o[mem.next[end]] = o[begin]
<1>. DEFINE back == {c \in range: c = begin \/ mem.prev[c] \in range}
            same == {c \in range: o[c] = o[begin]}
<1>1. back = range
  <2>1. back \in SUBSET range /\ begin \in back
    BY DEF IsRange
  <2>2. \A c \in back: c = end \/ mem.next[c] \in back
    BY DEF IsRange, Linked
  <2>. HIDE DEF back
  <2>. QED
    BY <2>1, <2>2 DEF IsRange
<1>2. same = range
  <2>1. same \in SUBSET range /\ begin \in same
    BY DEF IsRange
  <2>2. \A c \in same: c = end \/ mem.next[c] \in same
    BY DEF IsRange, Linked
  <2>. HIDE DEF same
  <2>. QED
    BY <2>1, <2>2 DEF IsRange
<1>3. end \in same /\ begin \in live /\ end \in live
  BY <1>2 DEF IsRange
<1>4. range \subseteq live \cap Entries /\ \A c \in range: c = end \/ mem.next[c] \in range
  BY DEF IsRange
<1>5. /\ mem.prev[begin] \in live \ range /\ mem.next[end] \in live \ range
      /\ o[mem.prev[begin]] = o[begin] /\ o[mem.next[end]] = o[end]
  BY <1>3 DEF Linked, IsRange
<1>6. \A c \in range: c = begin \/ mem.prev[c] \in range
  BY <1>1
<1>7. o[end] = o[begin]
  BY <1>3
<1>8. begin \in range /\ end \in range
  BY DEF IsRange
<1>. HIDE DEF back, same
<1>. QED
  BY <1>4, <1>5, <1>6, <1>7, <1>8

(* list_del_range closes the gap.                                           *)
LEMMA DelRangeKeeps ==
  ASSUME NEW o \in Owners, Linked(mem, live, o), ListTypeOK,
         NEW range, NEW begin, NEW end, IsRange(range, begin, end)
  PROVE  /\ list_del_range(mem, begin, end) \in Memories
         /\ Linked(list_del_range(mem, begin, end), live \ range, o)
<1>. DEFINE before == mem.prev[begin]
            after == mem.next[end]
<1>. mem \in Memories /\ live \in SUBSET Cells
  BY DEF ListTypeOK
<1>0. /\ range \subseteq live /\ begin \in range /\ end \in range
      /\ before \in live \ range /\ after \in live \ range /\ o[before] = o[after]
      /\ \A c \in range: c = begin \/ mem.prev[c] \in range
      /\ \A c \in range: c = end \/ mem.next[c] \in range
  BY RangeFacts
<1>1. PICK m1 \in Memories: m1 = SetNext(mem, before, after) /\ NextStored(mem, before, after, m1)
  BY <1>0, SetNextStores
<1>2. m1.next[end] = after /\ m1.prev[begin] = before
  BY <1>0, <1>1 DEF NextStored
<1>3. PICK m2 \in Memories: m2 = SetPrev(m1, after, before) /\ PrevStored(m1, after, before, m2)
  BY <1>0, SetPrevStores
<1>4. \A d \in Cells: /\ m2.next[d] = IF d = before THEN after ELSE mem.next[d]
                      /\ m2.prev[d] = IF d = after THEN before ELSE mem.prev[d]
  BY <1>1, <1>3 DEF NextStored, PrevStored
<1>5. Linked(m2, live \ range, o)
  BY <1>0, <1>4 DEF Linked
<1>. QED
  BY <1>1, <1>2, <1>3, <1>5 DEF list_del_range

(* list_cut_position gives a range its own head.                            *)
LEMMA CutKeeps ==
  ASSUME NEW o \in Owners, Linked(mem, live, o), ListTypeOK,
         NEW list \in Heads, NEW base \in live \cap Heads, list # base, Idle(list),
         NEW range, NEW entry, IsRange(range, mem.next[base], entry), NEW o1 \in Owners,
         \A d \in Cells: o1[d] = IF d \in range \cup {list} THEN list ELSE o[d]
  PROVE  /\ list_cut_at(mem, list, base, entry) \in Memories
         /\ Linked(list_cut_at(mem, list, base, entry), live \cup {list}, o1)
<1>. DEFINE first == mem.next[base]
            rest == mem.next[entry]
<1>. mem \in Memories /\ live \in SUBSET Cells /\ list \in Cells
  BY DEF ListTypeOK, Cells
<1>b. /\ range \subseteq live \cap Entries /\ first \in range /\ entry \in range
      /\ rest \in live \ range
      /\ o[mem.prev[first]] = o[first] /\ o[rest] = o[first]
      /\ \A c \in range: c = first \/ mem.prev[c] \in range
      /\ \A c \in range: c = entry \/ mem.next[c] \in range
  BY RangeFacts
<1>c. base \notin range /\ list \notin range /\ entry # list
  BY <1>b, CellsAssumption
<1>d. mem.prev[first] = base /\ mem.prev[rest] = entry
  BY <1>b DEF Linked
<1>e. (list \notin live \/ mem.next[list] = list) /\ rest # list
  BY <1>b, <1>c, <1>d DEF Idle, Linked
<1>0. /\ first \in range /\ entry \in range /\ range \subseteq live /\ rest \in live \ range
      /\ mem.prev[first] = base /\ mem.prev[rest] = entry /\ o[rest] = o[base]
      /\ base \notin range /\ list \notin range /\ rest # list
      /\ \A c \in range: c = first \/ mem.prev[c] \in range
      /\ \A c \in range: c = entry \/ mem.next[c] \in range
      /\ list \notin live \/ mem.next[list] = list
  BY <1>b, <1>c, <1>d, <1>e
<1>1. PICK m1 \in Memories: m1 = SetNext(mem, list, first) /\ NextStored(mem, list, first, m1)
  BY <1>0, SetNextStores
<1>a. m1.next[list] = first
  BY <1>0, <1>1 DEF NextStored
<1>2. PICK m2 \in Memories: m2 = SetPrev(m1, first, list) /\ PrevStored(m1, first, list, m2)
  BY <1>0, SetPrevStores
<1>3. PICK m3 \in Memories: m3 = SetPrev(m2, list, entry) /\ PrevStored(m2, list, entry, m3)
  BY <1>0, SetPrevStores
<1>4. PICK m4 \in Memories: m4 = SetNext(m3, entry, list) /\ NextStored(m3, entry, list, m4)
  BY <1>0, SetNextStores
<1>5. PICK m5 \in Memories: m5 = SetNext(m4, base, rest) /\ NextStored(m4, base, rest, m5)
  BY <1>0, SetNextStores
<1>6. PICK m6 \in Memories: m6 = SetPrev(m5, rest, base) /\ PrevStored(m5, rest, base, m6)
  BY <1>0, SetPrevStores
<1>7. \A d \in Cells:
        /\ m6.next[d] = IF d = base THEN rest ELSE IF d = entry THEN list
                        ELSE IF d = list THEN first ELSE mem.next[d]
        /\ m6.prev[d] = IF d = rest THEN base ELSE IF d = list THEN entry
                        ELSE IF d = first THEN list ELSE mem.prev[d]
  BY <1>1, <1>2, <1>3, <1>4, <1>5, <1>6 DEF NextStored, PrevStored
<1>8. Linked(m6, live \cup {list}, o1)
  BY <1>0, <1>7 DEF Linked
<1>9. list_cut_at(mem, list, base, entry) = m6
  BY <1>1, <1>a, <1>2, <1>3, <1>4, <1>5, <1>6, ZenonT(60) DEF list_cut_at
<1>. QED
  BY <1>8, <1>9

-----------------------------------------------------------------------------
(* The steps of the program, one lemma for each operation.                  *)
LEMMA InitStep ==
  ASSUME ListInv, NEW c \in Cells, Init_(c)
  PROVE  ListInv'
<1>1. PICK o \in Owners: Linked(mem, live, o) /\ \A h \in live \cap Heads: o[h] = h
  BY DEF ListInv
<1>. DEFINE o1 == [o EXCEPT ![c] = c]
<1>2. mem' \in Memories /\ Linked(mem', live', o1)
  BY <1>1, InitKeeps DEF Init_, ListInv, ListTypeOK
<1>3. o1 \in Owners /\ \A h \in live' \cap Heads: o1[h] = h
  BY <1>1 DEF Owners, Init_, Cells
<1>. HIDE DEF o1
<1>. QED
  BY <1>2, <1>3 DEF ListInv, ListTypeOK, Init_

LEMMA AddStep ==
  ASSUME ListInv, NEW new \in Entries, NEW base \in Heads, Add(new, base)
  PROVE  ListInv'
<1>1. PICK o \in Owners: Linked(mem, live, o) /\ \A h \in live \cap Heads: o[h] = h
  BY DEF ListInv
<1>. DEFINE o1 == [o EXCEPT ![new] = o[base]]
<1>2. mem' \in Memories /\ Linked(mem', live', o1)
  <2>1. /\ mem \in Memories /\ live \in SUBSET Cells /\ base \in live
        /\ new \in Cells /\ new # base
        /\ new \notin live \/ mem.next[new] = new
    BY CellsAssumption DEF Add, Idle, ListInv, ListTypeOK, Cells, list_empty
  <2>2. \A m1 \in {list_add(mem, new, base), list_add_tail(mem, new, base)}:
          m1 \in Memories /\ Linked(m1, live \cup {new}, o1)
    BY ONLY <1>1, <2>1, AddKeeps, o \in Owners
  <2>. QED
    BY <2>2 DEF Add
<1>3. o1 \in Owners /\ \A h \in live' \cap Heads: o1[h] = h
  BY <1>1, CellsAssumption DEF Owners, Add, Cells
<1>. HIDE DEF o1
<1>. QED
  BY <1>2, <1>3 DEF ListInv, ListTypeOK, Add, Cells

LEMMA DelStep ==
  ASSUME ListInv, NEW entry \in Entries, Del(entry) \/ DelInit(entry)
  PROVE  ListInv'
<1>1. PICK o \in Owners: Linked(mem, live, o) /\ \A h \in live \cap Heads: o[h] = h
  BY DEF ListInv
<1>2. CASE Del(entry)
  <2>1. mem' \in Memories /\ Linked(mem', live', o)
    BY <1>1, <1>2, DelKeeps DEF Del, ListInv, ListTypeOK
  <2>. QED
    BY <1>1, <1>2, <2>1 DEF ListInv, ListTypeOK, Del
<1>3. CASE DelInit(entry)
  <2>. DEFINE o1 == [o EXCEPT ![entry] = entry]
  <2>1. mem' \in Memories /\ Linked(mem', live', o1)
    BY <1>1, <1>3, DelInitKeeps DEF DelInit, ListInv, ListTypeOK
  <2>2. o1 \in Owners /\ \A h \in live' \cap Heads: o1[h] = h
    BY <1>1, <1>3, CellsAssumption DEF Owners, DelInit, Cells
  <2>. HIDE DEF o1
  <2>. QED
    BY <1>3, <2>1, <2>2 DEF ListInv, ListTypeOK, DelInit
<1>. QED
  BY <1>2, <1>3

LEMMA ReplaceStep ==
  ASSUME ListInv, NEW old \in Entries, NEW new \in Entries, Replace(old, new)
  PROVE  ListInv'
<1>1. PICK o \in Owners: Linked(mem, live, o) /\ \A h \in live \cap Heads: o[h] = h
  BY DEF ListInv
<1>2. /\ old \in live /\ new \in Cells /\ new # old /\ mem \in Memories
      /\ live \in SUBSET Cells /\ (new \notin live \/ mem.next[new] = new)
  BY DEF Replace, Idle, ListInv, ListTypeOK, Cells
<1>. DEFINE o1 == [o EXCEPT ![new] = o[old]]
            o2 == [o1 EXCEPT ![old] = old]
<1>3. /\ o1 \in Owners /\ \A h \in Heads: o1[h] = o[h]
      /\ o2 \in Owners /\ \A h \in Heads: o2[h] = o[h]
  BY <1>2, CellsAssumption DEF Owners, Cells
<1>4. CASE mem' = list_replace(mem, old, new) /\ live' = (live \ {old}) \cup {new}
  <2>1. mem' \in Memories /\ Linked(mem', live', o1)
    <3>1. /\ list_replace(mem, old, new) \in Memories
          /\ Linked(list_replace(mem, old, new), (live \ {old}) \cup {new}, o1)
      BY <1>1, <1>2, ReplaceKeeps
    <3>. HIDE DEF o1
    <3>. QED
      BY <1>4, <3>1
  <2>. HIDE DEF o1
  <2>. QED
    BY <1>1, <1>2, <1>3, <1>4, <2>1, CellsAssumption DEF ListInv, ListTypeOK
<1>5. CASE mem' = list_replace_init(mem, old, new) /\ live' = live \cup {new}
  <2>1. mem' \in Memories /\ Linked(mem', live', o2)
    <3>1. /\ list_replace_init(mem, old, new) \in Memories
          /\ Linked(list_replace_init(mem, old, new), live \cup {new}, o2)
      BY <1>1, <1>2, ReplaceInitKeeps
    <3>. HIDE DEF o2
    <3>. QED
      BY <1>5, <3>1
  <2>. HIDE DEF o2
  <2>. QED
    BY <1>1, <1>2, <1>3, <1>5, <2>1, CellsAssumption DEF ListInv, ListTypeOK
<1>. QED
  BY <1>4, <1>5 DEF Replace

LEMMA MoveStep ==
  ASSUME ListInv, NEW entry \in Entries, NEW base \in Heads, Move(entry, base)
  PROVE  ListInv'
<1>1. PICK o \in Owners: Linked(mem, live, o) /\ \A h \in live \cap Heads: o[h] = h
  BY DEF ListInv
<1>. DEFINE o1 == [o EXCEPT ![entry] = o[base]]
<1>2. mem' \in Memories /\ Linked(mem', live', o1)
  <2>1. /\ mem \in Memories /\ live \in SUBSET Cells
        /\ entry \in live /\ base \in live /\ base # entry
    BY CellsAssumption DEF Move, ListInv, ListTypeOK
  <2>2. \A m1 \in {list_move(mem, entry, base), list_move_tail(mem, entry, base)}:
          m1 \in Memories /\ Linked(m1, live, o1)
    BY ONLY <1>1, <2>1, MoveKeeps, o \in Owners
  <2>. QED
    BY <2>2 DEF Move
<1>3. o1 \in Owners /\ \A h \in live' \cap Heads: o1[h] = h
  BY <1>1, CellsAssumption DEF Owners, Move, Cells
<1>. HIDE DEF o1
<1>. QED
  BY <1>2, <1>3 DEF ListInv, ListTypeOK, Move

LEMMA RotateStep ==
  ASSUME ListInv, NEW base \in Heads, Rotate(base)
  PROVE  ListInv'
<1>1. PICK o \in Owners: Linked(mem, live, o) /\ \A h \in live \cap Heads: o[h] = h
  BY DEF ListInv
<1>2. CASE list_empty(mem, base)
  BY <1>2 DEF Rotate, list_rotate_left, ListInv, ListTypeOK, Linked
<1>3. CASE ~ list_empty(mem, base)
  <2>. DEFINE first == mem.next[base]
              o1 == [o EXCEPT ![first] = o[base]]
  <2>1. first \in live /\ base \in live /\ first # base /\ o[first] = o[base]
    BY <1>1, <1>3 DEF Rotate, Linked, list_empty
  <2>2. mem' \in Memories /\ Linked(mem', live', o1)
    <3>1. mem \in Memories /\ live \in SUBSET Cells
      BY DEF ListInv, ListTypeOK
    <3>2. \A m1 \in {list_move(mem, first, base), list_move_tail(mem, first, base)}:
            m1 \in Memories /\ Linked(m1, live, o1)
      BY ONLY <1>1, <2>1, <3>1, MoveKeeps, o \in Owners
    <3>. QED
      BY <1>3, <3>2 DEF Rotate, list_rotate_left
  <2>3. o1 \in Owners /\ \A h \in live' \cap Heads: o1[h] = h
    BY <1>1, <2>1 DEF Owners, Rotate, Cells, ListInv, ListTypeOK
  <2>. HIDE DEF o1
  <2>. QED
    BY <2>2, <2>3 DEF ListInv, ListTypeOK, Rotate
<1>. QED
  BY <1>2, <1>3

LEMMA SpliceStep ==
  ASSUME ListInv, NEW list \in Heads, NEW base \in Heads, Splice(list, base)
  PROVE  ListInv'
<1>1. PICK o \in Owners: Linked(mem, live, o) /\ \A h \in live \cap Heads: o[h] = h
  BY DEF ListInv
<1>2. /\ list \in live /\ base \in live /\ o[list] = list /\ o[base] = base /\ list # base
      /\ mem \in Memories /\ live \in SUBSET Cells
  BY <1>1 DEF Splice, ListInv, ListTypeOK
<1>3. CASE list_empty(mem, list)
  <2>1. mem' = mem /\ live' = live
    BY <1>3 DEF Splice, list_splice, list_splice_tail, list_splice_init, list_splice_tail_init
  <2>. QED
    BY <1>1, <2>1 DEF ListInv, ListTypeOK
<1>4. CASE ~ list_empty(mem, list)
  <2>. DEFINE o1 == [d \in Cells |-> IF o[d] = o[list] THEN o[base] ELSE o[d]]
              o2 == [o1 EXCEPT ![list] = list]
  <2>1. o1 \in Owners /\ \A d \in Cells: o1[d] = IF o[d] = o[list] THEN o[base] ELSE o[d]
    BY <1>2 DEF Owners
  <2>2. o2 \in Owners /\ \A d \in Cells: o2[d] = IF d = list THEN list ELSE o1[d]
    BY <1>2, <2>1 DEF Owners
  <2>. HIDE DEF o1
  <2>3. \A m1 \in {list_splice(mem, list, base), list_splice_tail(mem, list, base)}:
          m1 \in Memories /\ Linked(m1, live \ {list}, o1)
    BY <1>1, <1>2, <1>4, <2>1, SpliceKeeps, ZenonT(60)
  <2>4. /\ \A h \in (live \ {list}) \cap Heads: o1[h] = h
        /\ \A h \in live \cap Heads: o2[h] = h
    BY <1>1, <1>2, <2>1, <2>2
  <2>5. CASE /\ mem' \in {list_splice(mem, list, base), list_splice_tail(mem, list, base)}
             /\ live' = live \ {list}
    BY <1>2, <2>1, <2>3, <2>4, <2>5 DEF ListInv, ListTypeOK
  <2>6. CASE /\ mem' \in {list_splice_init(mem, list, base), list_splice_tail_init(mem, list, base)}
             /\ live' = live
    <3>. DEFINE ds == live \ {list}
    <3>1. ds \in SUBSET Cells /\ list \in Cells /\ list \notin ds /\ ds \cup {list} = live
      BY <1>2
    <3>2. PICK m1 \in Memories: Linked(m1, ds, o1) /\ mem' = INIT_LIST_HEAD(m1, list)
      BY <1>4, <2>3, <2>6 DEF list_splice_init, list_splice_tail_init
    <3>. HIDE DEF ds
    <3>3. mem' \in Memories /\ Linked(mem', ds \cup {list}, o2)
      BY <2>1, <3>1, <3>2, InitKeeps
    <3>. HIDE DEF o2
    <3>. QED
      BY <1>2, <2>2, <2>4, <2>6, <3>1, <3>3 DEF ListInv, ListTypeOK
  <2>. QED
    BY <1>4, <2>5, <2>6 DEF Splice
<1>. QED
  BY <1>3, <1>4

LEMMA CutStep ==
  ASSUME ListInv, NEW list \in Heads, NEW base \in Heads, NEW entry \in Cells,
         Cut(list, base, entry)
  PROVE  ListInv'
<1>1. PICK o \in Owners: Linked(mem, live, o) /\ \A h \in live \cap Heads: o[h] = h
  BY DEF ListInv
<1>2. /\ mem \in Memories /\ live \in SUBSET Cells /\ list \in Cells /\ list # base
      /\ base \in live /\ (list \notin live \/ mem.next[list] = list)
  BY DEF Cut, Idle, ListInv, ListTypeOK, Cells
<1>3. CASE \/ list_empty(mem, base)
           \/ list_is_singular(mem, base) /\ entry \notin {mem.next[base], base}
  <2>1. mem' = mem
    BY <1>3 DEF Cut, list_cut_position
  <2>2. list_empty(mem, base)
    <3>1. ASSUME ~ list_empty(mem, base), entry # base, entry # mem.next[base],
                 list_is_singular(mem, base),
                 NEW range, IsRange(range, mem.next[base], entry)
          PROVE  FALSE
      <4>1. mem.next[base] \in range /\ \A c \in range: c = entry \/ mem.next[c] \in range
        BY <3>1 DEF IsRange
      <4>2. mem.next[mem.next[base]] = base /\ base \notin range
        BY <1>1, <1>2, <3>1, CellsAssumption DEF Linked, list_is_singular, IsRange
      <4>. QED
        BY <3>1, <4>1, <4>2
    <3>. QED
      BY <1>3, <3>1 DEF Cut
  <2>. QED
    BY <1>1, <2>1, <2>2 DEF Cut, ListInv, ListTypeOK
<1>4. CASE ~ list_empty(mem, base) /\ entry = base
  <2>. DEFINE o1 == [o EXCEPT ![list] = list]
  <2>1. mem' = INIT_LIST_HEAD(mem, list) /\ live' = live \cup {list}
    BY <1>4 DEF Cut, list_cut_position
  <2>2. mem' \in Memories /\ Linked(mem', live', o1)
    BY <1>1, <1>2, <2>1, InitKeeps
  <2>3. o1 \in Owners /\ \A h \in live' \cap Heads: o1[h] = h
    BY <1>1, <1>2, <2>1 DEF Owners
  <2>. HIDE DEF o1
  <2>. QED
    BY <1>2, <2>1, <2>2, <2>3 DEF ListInv, ListTypeOK
<1>5. CASE /\ ~ list_empty(mem, base) /\ entry # base
           /\ ~ (list_is_singular(mem, base) /\ entry \notin {mem.next[base], base})
  <2>1. mem' = list_cut_at(mem, list, base, entry) /\ live' = live \cup {list}
    BY <1>5 DEF Cut, list_cut_position
  <2>2. PICK range: IsRange(range, mem.next[base], entry)
    BY <1>5 DEF Cut
  <2>. DEFINE o1 == [d \in Cells |-> IF d \in range \cup {list} THEN list ELSE o[d]]
  <2>3. o1 \in Owners /\ \A d \in Cells: o1[d] = IF d \in range \cup {list} THEN list ELSE o[d]
    BY <1>2 DEF Owners
  <2>. HIDE DEF o1
  <2>4. mem' \in Memories /\ Linked(mem', live', o1)
    <3>1. ListTypeOK /\ Idle(list) /\ base \in live \cap Heads /\ list # base
      BY <1>2 DEF ListInv, Cut
    <3>. QED
      BY <1>1, <2>1, <2>2, <2>3, <3>1, CutKeeps, ZenonT(30)
  <2>5. \A h \in live' \cap Heads: o1[h] = h
    BY <1>1, <1>2, <2>1, <2>2, <2>3, CellsAssumption DEF IsRange
  <2>. QED
    BY <1>2, <2>1, <2>3, <2>4, <2>5 DEF ListInv, ListTypeOK
<1>. QED
  BY <1>3, <1>4, <1>5

LEMMA ForgetStep ==
  ASSUME ListInv, NEW list \in Heads, Forget(list)
  PROVE  ListInv'
<1>1. PICK o \in Owners: Linked(mem, live, o) /\ \A h \in live \cap Heads: o[h] = h
  BY DEF ListInv
<1>2. PICK gone \in SUBSET live: /\ \A c \in gone: {mem.next[c], mem.prev[c]} \subseteq gone
                                /\ live' = live \ gone /\ mem' = mem
  BY DEF Forget
<1>3. Linked(mem', live', o)
  BY <1>1, <1>2 DEF Linked
<1>. QED
  BY <1>1, <1>2, <1>3 DEF ListInv, ListTypeOK

LEMMA DelRangeStep ==
  ASSUME ListInv, NEW begin \in Entries, NEW end \in Entries, DelRange(begin, end)
  PROVE  ListInv'
<1>1. PICK o \in Owners: Linked(mem, live, o) /\ \A h \in live \cap Heads: o[h] = h
  BY DEF ListInv
<1>2. PICK range: /\ IsRange(range, begin, end) /\ live' = live \ range
                  /\ mem' = list_del_range(mem, begin, end)
  BY DEF DelRange
<1>3. mem' \in Memories /\ Linked(mem', live', o)
  BY <1>1, <1>2, DelRangeKeeps DEF ListInv
<1>. QED
  BY <1>1, <1>2, <1>3 DEF ListInv, ListTypeOK

-----------------------------------------------------------------------------
(* Every program that keeps to the rules of list.h keeps its lists doubly   *)
(* linked and apart from each other, and every pointer is a cell, NULL or   *)
(* one of the two poison values.                                            *)
THEOREM ListInvariant == ListSpec => []ListInv
<1>1. ListInit => ListInv
  <2>. SUFFICES ASSUME ListInit PROVE ListInv
    OBVIOUS
  <2>. DEFINE o == [c \in Cells |-> c]
  <2>1. o \in Owners /\ Linked(mem, live, o) /\ \A h \in live \cap Heads: o[h] = h
    BY DEF ListInit, Owners, Linked, Cells
  <2>2. ListTypeOK
    BY DEF ListInit, ListTypeOK, Memories, Pointers, Cells
  <2>. QED
    BY <2>1, <2>2 DEF ListInv
<1>2. ListInv /\ [ListNext]_listVars => ListInv'
  <2>. SUFFICES ASSUME ListInv, [ListNext]_listVars PROVE ListInv'
    OBVIOUS
  <2>1. CASE UNCHANGED listVars
    BY <2>1 DEF listVars, ListInv, ListTypeOK
  <2>2. CASE ListNext
    BY <2>2, InitStep, AddStep, DelStep, ReplaceStep, MoveStep, RotateStep, SpliceStep,
       ForgetStep, CutStep, DelRangeStep DEF ListNext
  <2>. QED
    BY <2>1, <2>2
<1>. QED
  BY <1>1, <1>2, PTL DEF ListSpec

(* The type invariant of the lists, from ListInv.                           *)
THEOREM ListTypeCorrect == ListSpec => []ListTypeOK
<1>1. ListInv => ListTypeOK
  BY DEF ListInv
<1>. QED
  BY <1>1, ListInvariant, PTL

(* Following next and prev back and forth leads to where one started, for   *)
(* every live cell, after any calls of any length.                          *)
THEOREM AlwaysDoublyLinked == ListSpec => []DoublyLinked
<1>1. ListInv => DoublyLinked
  BY DEF ListInv, Linked, DoublyLinked
<1>. QED
  BY <1>1, ListInvariant, PTL

-----------------------------------------------------------------------------
(* HashList: the lists with a single-pointer head.                          *)

HashInv == HashTypeOK /\ HashLinked

(* Each operation keeps pprev the inverse of the pointers.                  *)
LEMMA InitNodeStep ==
  ASSUME HashInv, NEW n \in Nodes, INIT_HLIST_NODE(n)
  PROVE  HashInv'
BY SlotsAssumption
   DEF INIT_HLIST_NODE, HashInv, HashTypeOK, HashLinked, Slots, Loose, hlist_fake, hlist_unhashed

LEMMA AddHeadStep ==
  ASSUME HashInv, NEW n \in Nodes, NEW h \in Buckets, hlist_add_head(n, h)
  PROVE  HashInv'
BY SlotsAssumption
   DEF hlist_add_head, HashInv, HashTypeOK, HashLinked, Slots, Loose, hlist_fake,
       hlist_unhashed, SetPprev

LEMMA AddBeforeStep ==
  ASSUME HashInv, NEW n \in Nodes, NEW succ \in Nodes, hlist_add_before(n, succ)
  PROVE  HashInv'
BY SlotsAssumption
   DEF hlist_add_before, HashInv, HashTypeOK, HashLinked, Slots, Loose, hlist_fake,
       hlist_unhashed, SetPprev

LEMMA AddBehindStep ==
  ASSUME HashInv, NEW n \in Nodes, NEW prev \in Nodes, hlist_add_behind(n, prev)
  PROVE  HashInv'
BY SlotsAssumption
   DEF hlist_add_behind, HashInv, HashTypeOK, HashLinked, Slots, Loose, hlist_fake,
       hlist_unhashed, SetPprev

LEMMA BypassStep ==
  ASSUME HashInv, NEW n \in hashed, NEW back \in {HNULL, HPOISON}, Bypass(n, back, back)
  PROVE  HashInv'
<1>. DEFINE after == slot[n]
            at == pprev[n]
<1>1. /\ n \in Nodes /\ at \in Buckets \cup hashed /\ at \in Slots
      /\ after = HNULL \/ (after \in hashed /\ pprev[after] = n)
      /\ slot[at] = n \/ (at = n /\ after = HNULL)
      /\ n # HNULL /\ n # HPOISON /\ HNULL \notin Nodes /\ Nodes \subseteq Slots
  BY SlotsAssumption DEF HashInv, HashTypeOK, HashLinked, hlist_fake, Slots
<1>2. /\ hashed' = hashed \ {n}
      /\ \A c \in Slots: slot'[c] = IF c = n THEN back ELSE IF c = at THEN after ELSE slot[c]
      /\ \A m \in Nodes: pprev'[m] = IF m = n THEN back
                                     ELSE IF m = after THEN at ELSE pprev[m]
  BY <1>1 DEF Bypass, HashInv, HashTypeOK, SetPprev, Slots
<1>3. HashTypeOK'
  BY <1>1 DEF Bypass, HashInv, HashTypeOK, SetPprev, Slots
<1>4. \A c \in Buckets \cup hashed':
        slot'[c] = HNULL \/ (slot'[c] \in hashed' /\ pprev'[slot'[c]] = c)
  BY <1>1, <1>2, SlotsAssumption DEF HashInv, HashTypeOK, HashLinked, hlist_fake, Slots
<1>5. \A m \in hashed':
        /\ pprev'[m] \in Buckets \cup hashed'
        /\ slot'[pprev'[m]] = m \/ (pprev'[m] = m /\ slot'[m] = HNULL)
  <2>. SUFFICES ASSUME NEW m \in hashed'
                PROVE  /\ pprev'[m] \in Buckets \cup hashed'
                       /\ slot'[pprev'[m]] = m \/ (pprev'[m] = m /\ slot'[m] = HNULL)
    OBVIOUS
  <2>1. m \in hashed /\ m \in Nodes /\ m # n
    BY <1>2 DEF HashInv, HashTypeOK
  <2>2. CASE m = after
    BY <1>1, <1>2, <2>1, <2>2 DEF HashInv, HashLinked, hlist_fake, Slots
  <2>3. CASE m # after
    <3>1. /\ pprev[m] \in Buckets \cup hashed /\ pprev[m] \in Slots /\ pprev'[m] = pprev[m]
          /\ slot[pprev[m]] = m \/ (pprev[m] = m /\ slot[m] = HNULL)
      BY <1>1, <1>2, <2>1, <2>3 DEF HashInv, HashTypeOK, HashLinked, hlist_fake, Slots
    <3>2. pprev[m] # n /\ slot'[pprev[m]] = slot[pprev[m]]
      BY <1>1, <1>2, <2>1, <2>3, <3>1
    <3>. QED
      BY <1>2, <3>1, <3>2
  <2>. QED
    BY <2>2, <2>3
<1>6. \A m \in Nodes: /\ m \notin hashed' <=> pprev'[m] \in {HNULL, HPOISON}
                      /\ pprev'[m] = HNULL => slot'[m] = HNULL
  BY <1>1, <1>2, SlotsAssumption DEF HashInv, HashTypeOK, HashLinked, hlist_unhashed, Slots
<1>. QED
  BY <1>3, <1>4, <1>5, <1>6 DEF HashInv, HashLinked, hlist_fake, hlist_unhashed

LEMMA FakeStep ==
  ASSUME HashInv, NEW n \in Nodes, hlist_add_fake(n)
  PROVE  HashInv'
BY SlotsAssumption
   DEF hlist_add_fake, HashInv, HashTypeOK, HashLinked, Slots, hlist_fake, hlist_unhashed

LEMMA MoveListStep ==
  ASSUME HashInv, NEW old \in Buckets, NEW new \in Buckets, hlist_move_list(old, new)
  PROVE  HashInv'
BY SlotsAssumption
   DEF hlist_move_list, HashInv, HashTypeOK, HashLinked, Slots, hlist_fake, hlist_unhashed,
       SetPprev

(* The same for a whole program.                                            *)
THEOREM HashInvariant == HashSpec => []HashInv
<1>1. HashInit => HashInv
  BY SlotsAssumption
     DEF HashInit, HashInv, HashTypeOK, HashLinked, Slots, hlist_fake, hlist_unhashed
<1>2. HashInv /\ [HashNext]_hashVars => HashInv'
  <2>. SUFFICES ASSUME HashInv, [HashNext]_hashVars PROVE HashInv'
    OBVIOUS
  <2>1. CASE UNCHANGED hashVars
    BY <2>1 DEF hashVars, HashInv, HashTypeOK, HashLinked, hlist_fake, hlist_unhashed
  <2>2. ASSUME NEW n \in Nodes, hlist_del(n) \/ hlist_del_init(n) PROVE HashInv'
    <3>1. n \in hashed \/ UNCHANGED hashVars
      BY <2>2 DEF hlist_del, hlist_del_init, HashInv, HashTypeOK, HashLinked, hlist_unhashed
    <3>. QED
      BY <2>1, <2>2, <3>1, BypassStep DEF hlist_del, hlist_del_init
  <2>. QED
    BY <2>1, <2>2, InitNodeStep, AddHeadStep, AddBeforeStep, AddBehindStep, FakeStep,
       MoveListStep DEF HashNext
<1>. QED
  BY <1>1, <1>2, PTL DEF HashSpec

(* A pprev is always the inverse of the pointer that points to the node.    *)
THEOREM AlwaysHashLinked == HashSpec => [](HashTypeOK /\ HashLinked)
BY HashInvariant, PTL DEF HashInv

-----------------------------------------------------------------------------
(* ListOf: the lists the loops and list_empty_careful start with.           *)

(* The i-th cell of the ring of a head and the first n members of es.       *)
Spot(h, es, n, i) == IF i \in 1..n THEN es[i] ELSE h

Threaded(m, h, es, n) ==
    \A i \in 0..n: /\ m.next[Spot(h, es, n, i)] = Spot(h, es, n, i + 1)
                   /\ m.prev[Spot(h, es, n, i + 1)] = Spot(h, es, n, i)

(* The cells outside of cs have the pointers of m1 in m2.                   *)
SameBut(m1, m2, cs) ==
    \A d \in Cells \ cs: m2.next[d] = m1.next[d] /\ m2.prev[d] = m1.prev[d]

(* What the four stores of __list_add do together.                          *)
LEMMA LinkStores ==
  ASSUME NEW m \in Memories, NEW new \in Cells, NEW prev \in Cells, NEW succ \in Cells,
         prev # new, succ # new
  PROVE  /\ list_link(m, new, prev, succ) \in Memories
         /\ \A d \in Cells:
              /\ list_link(m, new, prev, succ).next[d] =
                   IF d = prev THEN new ELSE IF d = new THEN succ ELSE m.next[d]
              /\ list_link(m, new, prev, succ).prev[d] =
                   IF d = new THEN prev ELSE IF d = succ THEN new ELSE m.prev[d]
<1>1. PICK m1 \in Memories: m1 = SetPrev(m, succ, new) /\ PrevStored(m, succ, new, m1)
  BY SetPrevStores
<1>2. PICK m2 \in Memories: m2 = SetNext(m1, new, succ) /\ NextStored(m1, new, succ, m2)
  BY SetNextStores
<1>3. PICK m3 \in Memories: m3 = SetPrev(m2, new, prev) /\ PrevStored(m2, new, prev, m3)
  BY SetPrevStores
<1>4. PICK m4 \in Memories: m4 = SetNext(m3, prev, new) /\ NextStored(m3, prev, new, m4)
  BY SetNextStores
<1>5. m4 = list_link(m, new, prev, succ)
  BY <1>1, <1>2, <1>3, <1>4 DEF list_link
<1>. QED
  BY <1>1, <1>2, <1>3, <1>4, <1>5 DEF NextStored, PrevStored

(* list_add_tail puts a cell that is not on the ring behind its last one.   *)
LEMMA TailThreads ==
  ASSUME NEW m \in Memories, NEW h \in Heads, NEW N \in Nat, NEW es \in [1..N -> Entries],
         IsInjective(es), NEW n \in 0..N - 1, Threaded(m, h, es, n)
  PROVE  /\ list_add_tail(m, es[n + 1], h) \in Memories
         /\ Threaded(list_add_tail(m, es[n + 1], h), h, es, n + 1)
         /\ SameBut(m, list_add_tail(m, es[n + 1], h), {h} \cup {es[i]: i \in 1..n + 1})
<1>. DEFINE new == es[n + 1]
            last == Spot(h, es, n, n)
            m1 == list_link(m, new, last, h)
<1>1. /\ h \in Cells /\ h \notin Entries /\ new \in Entries /\ new \in Cells
      /\ \A i \in 1..n + 1: es[i] \in Entries /\ es[i] \in Cells
      /\ \A i, j \in 1..n + 1: es[i] = es[j] => i = j
  BY CellsAssumption DEF Cells, IsInjective
<1>2. last \in Cells /\ last # new /\ h # new
  BY <1>1 DEF Spot
<1>3. m.prev[h] = last
  <2>1. n \in 0..n /\ Spot(h, es, n, n + 1) = h
    BY DEF Spot
  <2>. QED
    BY <2>1 DEF Threaded
<1>4. list_add_tail(m, new, h) = m1
  BY <1>3 DEF list_add_tail
<1>. HIDE DEF last, m1
<1>5. /\ m1 \in Memories
      /\ \A d \in Cells:
           /\ m1.next[d] = IF d = last THEN new ELSE IF d = new THEN h ELSE m.next[d]
           /\ m1.prev[d] = IF d = new THEN last ELSE IF d = h THEN new ELSE m.prev[d]
  BY <1>1, <1>2, LinkStores DEF m1
<1>6. ASSUME NEW i \in 0..n + 1
      PROVE  /\ m1.next[Spot(h, es, n + 1, i)] = Spot(h, es, n + 1, i + 1)
             /\ m1.prev[Spot(h, es, n + 1, i + 1)] = Spot(h, es, n + 1, i)
  <2>1. CASE i = n + 1
    BY <1>1, <1>2, <1>5, <2>1 DEF Spot
  <2>2. CASE i = n
    <3>1. Spot(h, es, n + 1, i) = last /\ Spot(h, es, n + 1, i + 1) = new
      BY <2>2 DEF Spot, last
    <3>. QED
      BY <1>1, <1>2, <1>5, <3>1
  <2>3. CASE i < n
    <3>1. /\ Spot(h, es, n + 1, i) = Spot(h, es, n, i)
          /\ Spot(h, es, n + 1, i + 1) = Spot(h, es, n, i + 1)
          /\ Spot(h, es, n, i) \in Cells /\ Spot(h, es, n, i + 1) \in Cells
      BY <1>1, <2>3 DEF Spot
    <3>2. /\ Spot(h, es, n, i) # last /\ Spot(h, es, n, i) # new
          /\ Spot(h, es, n, i + 1) # new /\ Spot(h, es, n, i + 1) # h
      BY <1>1, <2>3 DEF Spot, last
    <3>3. /\ m.next[Spot(h, es, n, i)] = Spot(h, es, n, i + 1)
          /\ m.prev[Spot(h, es, n, i + 1)] = Spot(h, es, n, i)
      BY <2>3 DEF Threaded
    <3>. QED
      BY <1>5, <3>1, <3>2, <3>3
  <2>. QED
    BY <2>1, <2>2, <2>3
<1>7. SameBut(m, m1, {h} \cup {es[i]: i \in 1..n + 1})
  <2>1. last \in {h} \cup {es[i]: i \in 1..n + 1} /\ new \in {es[i]: i \in 1..n + 1}
    BY DEF last, Spot
  <2>. QED
    BY <1>5, <2>1 DEF SameBut
<1>. QED
  BY <1>4, <1>5, <1>6, <1>7 DEF Threaded

(* The whole list: a recursive function, so that there is one.              *)
LEMMA ListOfThreads ==
  ASSUME NEW m \in Memories, NEW h \in Heads, NEW N \in Nat, NEW es \in [1..N -> Entries],
         IsInjective(es), m.next[h] = h, m.prev[h] = h
  PROVE  /\ ListOf(m, h, es) \in Memories
         /\ Threaded(ListOf(m, h, es), h, es, N)
         /\ SameBut(m, ListOf(m, h, es), {h} \cup Range(es))
<1>. DEFINE Adds(g) == g = [k \in 0..Len(es) |->
                              IF k = 0 THEN m ELSE list_add_tail(g[k - 1], es[k], h)]
            built == CHOOSE g: Adds(g)
            step == [k \in 1..N |-> [x \in Memories |->
                       IF list_add_tail(x, es[k], h) \in Memories
                       THEN list_add_tail(x, es[k], h) ELSE m]]
<1>1. Len(es) = N /\ es \in Seq(Entries)
  OBVIOUS
<1>2. ListOf(m, h, es) = built[N]
  BY <1>1 DEF ListOf
<1>3. PICK f: Recurs(f, N, Memories, m, step)
  <2>1. step \in [1..N -> [Memories -> Memories]]
    OBVIOUS
  <2>. HIDE DEF step
  <2>. QED
    BY <2>1, RecursionExists
<1>4. f \in [0..N -> Memories] /\ f[0] = m
  BY <1>3 DEF Recurs
<1>. DEFINE Good == {k \in 0..N:
                /\ Threaded(f[k], h, es, k)
                /\ SameBut(m, f[k], {h} \cup {es[i]: i \in 1..k})}
<1>5. 0 \in Good
  BY <1>4 DEF Threaded, SameBut, Spot
<1>6. ASSUME NEW k \in 0..N - 1, k \in Good
      PROVE  k + 1 \in Good /\ f[k + 1] = list_add_tail(f[k], es[k + 1], h)
  <2>1. /\ list_add_tail(f[k], es[k + 1], h) \in Memories
        /\ Threaded(list_add_tail(f[k], es[k + 1], h), h, es, k + 1)
        /\ SameBut(f[k], list_add_tail(f[k], es[k + 1], h), {h} \cup {es[i]: i \in 1..k + 1})
    <3>1. f[k] \in Memories /\ Threaded(f[k], h, es, k) /\ k \in 0..N - 1
      BY <1>4, <1>6
    <3>. HIDE DEF Good
    <3>. QED
      BY <3>1, TailThreads
  <2>2. k + 1 \in 1..N /\ (k + 1) - 1 = k /\ f[k] \in Memories
    BY <1>4
  <2>3. f[k + 1] = step[k + 1][f[(k + 1) - 1]]
    BY <1>3, <2>2 DEF Recurs
  <2>4. f[k + 1] = list_add_tail(f[k], es[k + 1], h)
    BY <2>1, <2>2, <2>3
  <2>5. SameBut(m, f[k + 1], {h} \cup {es[i]: i \in 1..k + 1})
    <3>1. {h} \cup {es[i]: i \in 1..k} \subseteq {h} \cup {es[i]: i \in 1..k + 1}
      OBVIOUS
    <3>. QED
      BY <1>6, <2>1, <2>4, <3>1 DEF SameBut
  <2>. QED
    BY <2>1, <2>2, <2>4, <2>5
<1>. HIDE DEF Good
<1>7. \A k \in 0..N: k \in Good
  BY <1>5, <1>6, UpTo
<1>8. f = [k \in 0..N |-> IF k = 0 THEN m ELSE list_add_tail(f[k - 1], es[k], h)]
  <2>1. ASSUME NEW k \in 0..N, k # 0 PROVE f[k] = list_add_tail(f[k - 1], es[k], h)
    <3>1. k - 1 \in 0..N - 1 /\ k - 1 \in 0..N /\ (k - 1) + 1 = k
      BY <2>1
    <3>. QED
      BY <1>6, <1>7, <3>1
  <2>. QED
    BY <1>4, <2>1
<1>9. Adds(f)
  BY <1>1, <1>8
<1>10. Adds(built)
  <2>. HIDE DEF Adds
  <2>. QED
    BY <1>9
<1>11. \A k \in 0..N: built[k] = f[k]
  <2>. DEFINE Same == {k \in 0..N: built[k] = f[k]}
  <2>1. built = [k \in 0..N |-> IF k = 0 THEN m ELSE list_add_tail(built[k - 1], es[k], h)]
    BY <1>1, <1>10
  <2>. HIDE DEF built
  <2>2. 0 \in Same
    BY <1>4, <2>1
  <2>3. ASSUME NEW k \in 0..N - 1, k \in Same PROVE k + 1 \in Same
    <3>1. k + 1 \in 0..N /\ k + 1 # 0 /\ (k + 1) - 1 = k
      OBVIOUS
    <3>2. built[k + 1] = list_add_tail(built[k], es[k + 1], h)
      BY <2>1, <3>1
    <3>3. f[k + 1] = list_add_tail(f[k], es[k + 1], h)
      BY <1>8, <3>1
    <3>. QED
      BY <2>3, <3>1, <3>2, <3>3
  <2>. HIDE DEF Same
  <2>4. \A k \in 0..N: k \in Same
    BY <2>2, <2>3, UpTo
  <2>. QED
    BY <2>4 DEF Same
<1>12. ListOf(m, h, es) = f[N]
  BY <1>2, <1>11
<1>13. Range(es) = {es[i]: i \in 1..N}
  BY DEF Range
<1>. QED
  BY <1>4, <1>7, <1>12, <1>13 DEF Good

-----------------------------------------------------------------------------
(* ListCareful: a deleter and a reader without the lock.                    *)

(* The cells of the list are linked, and nothing is half done.              *)
OnRings(m) == \E o \in Owners: Linked(m, Range(listed), o)

(* The deleter is in the middle of list_del_init(e), which began with m.    *)
Deleting(m, e) ==
    LET a  == m.next[e]
        b  == m.prev[e]
        s1 == Store("prev", a, b)
        s2 == Store("next", b, a)
        s3 == Store("next", e, e)
        s4 == Store("prev", e, e)
        m1 == SetPrev(m, a, b)
        m2 == SetNext(m1, b, a)
    IN  \/ cmem = m /\ stores = <<s1, s2, s3, s4>>
        \/ cmem = m1 /\ stores = <<s2, s3, s4>>
        \/ cmem = m2 /\ stores = <<s3, s4>>
        \/ cmem = SetNext(m2, e, e) /\ stores = <<s4>>

DeleterInv ==
    /\ listed # <<>> /\ listed \in Seq(Cells) /\ cmem \in Memories
    /\ \/ stores = <<>> /\ OnRings(cmem)
       \/ \E m \in Memories, e \in Range(listed):
            OnRings(m) /\ m.next[e] # e /\ Deleting(m, e)

(* A pointer to itself that the reader has loaded is still there.           *)
ReaderInv ==
    /\ half # NULL => asked \in Range(listed)
    /\ half = asked /\ half # NULL => cmem.next[asked] = asked
    /\ answer => /\ asked \in Range(listed)
                 /\ cmem.next[asked] = asked /\ cmem.prev[asked] = asked

CarefulInv == DeleterInv /\ ReaderInv

(* The effect of the stores, in the notation of the other lemmas.           *)
LEMMA DeletingEffect ==
  ASSUME NEW m \in Memories, NEW R \in SUBSET Cells, NEW o \in Owners, Linked(m, R, o),
         NEW e \in R, m.next[e] # e
  PROVE  LET a  == m.next[e]
             b  == m.prev[e]
             m1 == SetPrev(m, a, b)
             m2 == SetNext(m1, b, a)
             m3 == SetNext(m2, e, e)
             m4 == SetPrev(m3, e, e)
         IN  /\ a \in R /\ b \in R /\ a # e /\ b # e /\ m.prev[a] = e /\ m.next[b] = e
             /\ {m1, m2, m3, m4} \subseteq Memories
             /\ PrevStored(m, a, b, m1) /\ NextStored(m1, b, a, m2)
             /\ NextStored(m2, e, e, m3) /\ PrevStored(m3, e, e, m4)
             /\ m4 = list_del_init(m, e)
<1>. DEFINE a  == m.next[e]
            b  == m.prev[e]
            m1 == SetPrev(m, a, b)
            m2 == SetNext(m1, b, a)
            m3 == SetNext(m2, e, e)
            m4 == SetPrev(m3, e, e)
<1>1. a \in R /\ b \in R /\ a # e /\ b # e /\ m.prev[a] = e /\ m.next[b] = e
  BY DEF Linked
<1>2. m4 = list_del_init(m, e)
  BY DEF list_del_init, list_del_entry, list_unlink, INIT_LIST_HEAD
<1>. HIDE DEF a, b
<1>3. a \in Cells /\ b \in Cells /\ e \in Cells
  BY <1>1
<1>4. m1 \in Memories /\ PrevStored(m, a, b, m1)
  BY <1>3, SetPrevStores
<1>. HIDE DEF m1
<1>5. m2 \in Memories /\ NextStored(m1, b, a, m2)
  BY <1>3, <1>4, SetNextStores
<1>. HIDE DEF m2
<1>6. m3 \in Memories /\ NextStored(m2, e, e, m3)
  BY <1>3, <1>5, SetNextStores
<1>. HIDE DEF m3
<1>7. m4 \in Memories /\ PrevStored(m3, e, e, m4)
  BY <1>3, <1>6, SetPrevStores
<1>. HIDE DEF m4
<1>8. /\ a \in R /\ b \in R /\ a # e /\ b # e /\ m.prev[a] = e /\ m.next[b] = e
      /\ {m1, m2, m3, m4} \subseteq Memories
      /\ PrevStored(m, a, b, m1) /\ NextStored(m1, b, a, m2)
      /\ NextStored(m2, e, e, m3) /\ PrevStored(m3, e, e, m4)
      /\ m4 = list_del_init(m, e)
  BY <1>1, <1>2, <1>4, <1>5, <1>6, <1>7
<1>. QED
  BY <1>8 DEF a, b, m1, m2, m3, m4

(* What one store does: the deleter gets one further, or it is done; a next *)
(* pointer to itself stays, and a cell whose pointers are both its own is   *)
(* not written to.                                                          *)
LEMMA StoreKeeps ==
  ASSUME DeleterInv, DelInitStores
  PROVE  /\ DeleterInv'
         /\ \A c \in Range(listed): cmem.next[c] = c => cmem'.next[c] = c
         /\ \A c \in Range(listed): cmem.next[c] = c /\ cmem.prev[c] = c => cmem'.prev[c] = c
<1>1. stores # <<>>
  BY DEF DelInitStores
<1>2. PICK m \in Memories, e \in Range(listed):
        OnRings(m) /\ m.next[e] # e /\ Deleting(m, e)
  BY <1>1 DEF DeleterInv
<1>3. PICK o \in Owners: Linked(m, Range(listed), o)
  BY <1>2 DEF OnRings
<1>4. Range(listed) \in SUBSET Cells
  BY DEF DeleterInv, Range
<1>. DEFINE R  == Range(listed)
            a  == m.next[e]
            b  == m.prev[e]
            s1 == Store("prev", a, b)
            s2 == Store("next", b, a)
            s3 == Store("next", e, e)
            s4 == Store("prev", e, e)
            m1 == SetPrev(m, a, b)
            m2 == SetNext(m1, b, a)
            m3 == SetNext(m2, e, e)
            m4 == SetPrev(m3, e, e)
<1>5. /\ a \in R /\ b \in R /\ a # e /\ b # e /\ m.prev[a] = e /\ m.next[b] = e
      /\ m1 \in Memories /\ m2 \in Memories /\ m3 \in Memories /\ m4 \in Memories
      /\ PrevStored(m, a, b, m1) /\ NextStored(m1, b, a, m2)
      /\ NextStored(m2, e, e, m3) /\ PrevStored(m3, e, e, m4)
      /\ m4 = list_del_init(m, e)
  BY <1>2, <1>3, <1>4, DeletingEffect
<1>6. \/ cmem = m /\ stores = <<s1, s2, s3, s4>>
      \/ cmem = m1 /\ stores = <<s2, s3, s4>>
      \/ cmem = m2 /\ stores = <<s3, s4>>
      \/ cmem = m3 /\ stores = <<s4>>
  BY <1>2 DEF Deleting
<1>7. /\ s1.field # "next" /\ s1.cell = a /\ s1.pointer = b
      /\ s2.field = "next" /\ s2.cell = b /\ s2.pointer = a
      /\ s3.field = "next" /\ s3.cell = e /\ s3.pointer = e
      /\ s4.field # "next" /\ s4.cell = e /\ s4.pointer = e
  BY DEF Store
<1>. DEFINE h == Head(stores)
<1>8. /\ cmem' = IF h.field = "next" THEN SetNext(cmem, h.cell, h.pointer)
                                     ELSE SetPrev(cmem, h.cell, h.pointer)
      /\ stores' = Tail(stores)
      /\ UNCHANGED listed
  BY DEF DelInitStores
<1>9. ASSUME \/ cmem' = m1 /\ stores' = <<s2, s3, s4>>
             \/ cmem' = m2 /\ stores' = <<s3, s4>>
             \/ cmem' = m3 /\ stores' = <<s4>>
      PROVE  DeleterInv'
  <2>1. Deleting(m, e)'
    BY <1>9 DEF Deleting
  <2>2. OnRings(m)'
    BY <1>2, <1>8 DEF OnRings
  <2>3. (listed # <<>> /\ listed \in Seq(Cells) /\ cmem \in Memories)'
    BY <1>5, <1>8, <1>9 DEF DeleterInv
  <2>4. e \in Range(listed)'
    BY <1>8
  <2>. QED
    BY <1>2, <2>1, <2>2, <2>3, <2>4 DEF DeleterInv
<1>. HIDE DEF s1, s2, s3, s4, m1, m2, m3, m4, a, b
<1>10. CASE cmem = m /\ stores = <<s1, s2, s3, s4>>
  <2>1. h = s1 /\ stores' = <<s2, s3, s4>>
    BY <1>8, <1>10
  <2>2. cmem' = m1
    BY <1>7, <1>8, <1>10, <2>1 DEF m1
  <2>. QED
    BY <1>4, <1>5, <1>9, <1>10, <2>1, <2>2 DEF PrevStored
<1>11. CASE cmem = m1 /\ stores = <<s2, s3, s4>>
  <2>1. h = s2 /\ stores' = <<s3, s4>>
    BY <1>8, <1>11
  <2>2. cmem' = m2
    BY <1>7, <1>8, <1>11, <2>1 DEF m2
  <2>. QED
    BY <1>4, <1>5, <1>9, <1>11, <2>1, <2>2 DEF PrevStored, NextStored
<1>12. CASE cmem = m2 /\ stores = <<s3, s4>>
  <2>1. h = s3 /\ stores' = <<s4>>
    BY <1>8, <1>12
  <2>2. cmem' = m3
    BY <1>7, <1>8, <1>12, <2>1 DEF m3
  <2>. QED
    BY <1>4, <1>5, <1>9, <1>12, <2>1, <2>2 DEF PrevStored, NextStored
<1>13. CASE cmem = m3 /\ stores = <<s4>>
  <2>1. h = s4 /\ stores' = <<>>
    BY <1>8, <1>13
  <2>2. cmem' = m4
    BY <1>7, <1>8, <1>13, <2>1 DEF m4
  <2>3. \E o1 \in Owners: Linked(m4, R, o1)
    <3>1. PICK o1: o1 = [o EXCEPT ![e] = e]
      OBVIOUS
    <3>2. o1 \in Owners
      BY <1>4, <3>1 DEF Owners
    <3>3. Linked(m4, R, o1)
      BY <1>3, <1>4, <1>5, <3>1, DelInitKeeps
    <3>. QED
      BY <3>2, <3>3
  <2>4. OnRings(cmem)'
    BY <1>8, <2>2, <2>3 DEF OnRings
  <2>5. DeleterInv'
    BY <1>5, <1>8, <2>1, <2>2, <2>4 DEF DeleterInv
  <2>. QED
    BY <1>4, <1>5, <1>13, <2>2, <2>5 DEF PrevStored
<1>. QED
  BY <1>6, <1>10, <1>11, <1>12, <1>13

(* A cell whose pointers are both its own is one no store is still to come  *)
(* to.                                                                      *)
LEMMA NoStoreToCome ==
  ASSUME DeleterInv, NEW c \in Range(listed), cmem.next[c] = c, cmem.prev[c] = c
  PROVE  \A k \in DOMAIN stores: stores[k].cell # c
<1>1. CASE stores = <<>>
  BY <1>1
<1>2. CASE stores # <<>>
  <2>1. PICK m \in Memories, e \in Range(listed):
          OnRings(m) /\ m.next[e] # e /\ Deleting(m, e)
    BY <1>2 DEF DeleterInv
  <2>2. PICK o \in Owners: Linked(m, Range(listed), o)
    BY <2>1 DEF OnRings
  <2>3. Range(listed) \in SUBSET Cells
    BY DEF DeleterInv, Range
  <2>. DEFINE R  == Range(listed)
              a  == m.next[e]
              b  == m.prev[e]
              s1 == Store("prev", a, b)
              s2 == Store("next", b, a)
              s3 == Store("next", e, e)
              s4 == Store("prev", e, e)
              m1 == SetPrev(m, a, b)
              m2 == SetNext(m1, b, a)
              m3 == SetNext(m2, e, e)
  <2>4. /\ a \in R /\ b \in R /\ a # e /\ b # e /\ m.prev[a] = e /\ m.next[b] = e
        /\ m1 \in Memories /\ m2 \in Memories /\ m3 \in Memories
        /\ PrevStored(m, a, b, m1) /\ NextStored(m1, b, a, m2)
        /\ NextStored(m2, e, e, m3)
    BY <2>1, <2>2, <2>3, DeletingEffect
  <2>5. \/ cmem = m /\ stores = <<s1, s2, s3, s4>>
        \/ cmem = m1 /\ stores = <<s2, s3, s4>>
        \/ cmem = m2 /\ stores = <<s3, s4>>
        \/ cmem = m3 /\ stores = <<s4>>
    BY <2>1 DEF Deleting
  <2>6. s1.cell = a /\ s2.cell = b /\ s3.cell = e /\ s4.cell = e
    BY DEF Store
  <2>. HIDE DEF s1, s2, s3, s4, m1, m2, m3, a, b
  <2>7. c # e
    BY <2>3, <2>4, <2>5 DEF PrevStored, NextStored, a, b
  <2>8. CASE cmem = m /\ stores = <<s1, s2, s3, s4>>
    BY <2>4, <2>6, <2>7, <2>8
  <2>9. CASE cmem = m1 /\ stores = <<s2, s3, s4>>
    BY <2>3, <2>4, <2>6, <2>7, <2>9 DEF PrevStored
  <2>10. CASE cmem = m2 /\ stores = <<s3, s4>>
    BY <2>6, <2>7, <2>10
  <2>11. CASE cmem = m3 /\ stores = <<s4>>
    BY <2>6, <2>7, <2>11
  <2>. QED
    BY <2>5, <2>8, <2>9, <2>10, <2>11
<1>. QED
  BY <1>1, <1>2

(* The first list.                                                          *)
LEMMA CarefulStarts ==
  ASSUME CarefulInit
  PROVE  CarefulInv
<1>1. PICK h \in Heads, entries \in SeqOf(Entries, Listed):
        IsInjective(entries) /\ listed = <<h>> \o entries
  BY DEF CarefulInit
<1>2. PICK N \in 0..Listed: entries \in [1..N -> Entries]
  BY ListedAssumption DEF SeqOf
<1>3. /\ N \in Nat /\ Len(entries) = N /\ h \in Cells /\ h \notin Entries
      /\ \A i \in 1..N: entries[i] \in Cells
  BY <1>1, <1>2, ListedAssumption, CellsAssumption DEF Cells
<1>4. /\ Len(listed) = N + 1 /\ listed[1] = h
      /\ \A i \in 1..N: listed[i + 1] = entries[i]
      /\ listed \in Seq(Cells)
  BY <1>1, <1>2, <1>3
<1>5. Head(listed) = h /\ Tail(listed) = entries
  <2>1. Len(Tail(listed)) = N /\ \A i \in 1..N: Tail(listed)[i] = entries[i]
    BY <1>3, <1>4
  <2>2. Tail(listed) \in Seq(Cells)
    BY <1>3, <1>4
  <2>. QED
    BY <1>2, <1>3, <1>4, <2>1, <2>2
<1>. DEFINE blank == [next |-> [c \in Cells |-> NULL], prev |-> [c \in Cells |-> NULL]]
            m0 == INIT_LIST_HEAD(blank, h)
<1>6. m0 \in Memories /\ m0.next[h] = h /\ m0.prev[h] = h
  <2>1. blank \in Memories
    BY DEF Memories, Pointers
  <2>. HIDE DEF blank
  <2>2. PICK m1 \in Memories: m1 = SetNext(blank, h, h) /\ NextStored(blank, h, h, m1)
    BY <1>3, <2>1, SetNextStores
  <2>3. PICK m2 \in Memories: m2 = SetPrev(m1, h, h) /\ PrevStored(m1, h, h, m2)
    BY <1>3, <2>2, SetPrevStores
  <2>. QED
    BY <1>3, <2>2, <2>3 DEF INIT_LIST_HEAD, NextStored, PrevStored
<1>7. cmem = ListOf(m0, h, entries)
  BY <1>5 DEF CarefulInit
<1>. HIDE DEF m0
<1>8. cmem \in Memories /\ Threaded(cmem, h, entries, N)
  BY <1>1, <1>2, <1>3, <1>6, <1>7, ListOfThreads
<1>9. Range(listed) = {Spot(h, entries, N, i): i \in 0..N}
  <2>1. DOMAIN listed = 1..N + 1
    BY <1>3, <1>4
  <2>2. \A i \in 0..N: i + 1 \in 1..N + 1 /\ listed[i + 1] = Spot(h, entries, N, i)
    BY <1>3, <1>4 DEF Spot
  <2>3. \A j \in 1..N + 1: j - 1 \in 0..N /\ (j - 1) + 1 = j
    BY <1>3
  <2>4. Range(listed) = {listed[j]: j \in 1..N + 1}
    BY <2>1 DEF Range
  <2>5. \A j \in 1..N + 1: listed[j] = Spot(h, entries, N, j - 1)
    BY <2>2, <2>3
  <2>. QED
    BY <2>2, <2>3, <2>4, <2>5
<1>10. Linked(cmem, Range(listed), [c \in Cells |-> h])
  <2>. DEFINE sp(i) == Spot(h, entries, N, i)
  <2>1. \A i \in 0..N: sp(i) \in Cells /\ sp(i) \in Range(listed)
    BY <1>3, <1>9 DEF Spot
  <2>2. sp(N + 1) = sp(0)
    BY <1>3 DEF Spot
  <2>3. ASSUME NEW i \in 0..N
        PROVE  /\ cmem.next[sp(i)] = sp(i + 1) /\ cmem.prev[sp(i + 1)] = sp(i)
               /\ sp(i + 1) \in Range(listed)
    <3>1. i + 1 \in 0..N \/ i + 1 = N + 1
      BY <1>3
    <3>. QED
      BY <1>3, <1>8, <2>1, <2>2, <3>1 DEF Threaded
  <2>4. ASSUME NEW i \in 0..N
        PROVE  /\ cmem.prev[sp(i)] \in Range(listed)
               /\ cmem.next[cmem.prev[sp(i)]] = sp(i)
    <3>1. CASE i = 0
      <4>1. N \in 0..N
        BY <1>3
      <4>. QED
        BY <2>1, <2>2, <2>3, <3>1, <4>1
    <3>2. CASE i # 0
      <4>1. i - 1 \in 0..N /\ (i - 1) + 1 = i
        BY <1>3, <3>2
      <4>. QED
        BY <2>1, <2>3, <4>1
    <3>. QED
      BY <3>1, <3>2
  <2>5. \A c \in Range(listed): \E i \in 0..N: c = sp(i)
    BY <1>9
  <2>. HIDE DEF sp
  <2>. QED
    BY <2>1, <2>3, <2>4, <2>5 DEF Linked
<1>11. [c \in Cells |-> h] \in Owners
  BY <1>3 DEF Owners
<1>12. listed # <<>> /\ stores = <<>> /\ half = NULL /\ answer = FALSE
  BY <1>3, <1>4 DEF CarefulInit
<1>. QED
  BY <1>4, <1>8, <1>10, <1>11, <1>12 DEF CarefulInv, DeleterInv, ReaderInv, OnRings

LEMMA CarefulStep ==
  ASSUME CarefulInv, [CarefulNext]_carefulVars
  PROVE  CarefulInv'
<1>0. Range(listed) \in SUBSET Cells /\ NULL \notin Cells
  BY CellsAssumption DEF CarefulInv, DeleterInv, Range
<1>1. ASSUME NEW entry \in Range(Tail(listed)), DelInitBegins(entry) PROVE CarefulInv'
  <2>1. entry \in Range(listed)
    <3>1. listed \in Seq(Cells) /\ listed # <<>>
      BY DEF CarefulInv, DeleterInv
    <3>2. \A i \in 1..Len(listed) - 1: Tail(listed)[i] = listed[i + 1] /\ i + 1 \in 1..Len(listed)
      BY <3>1
    <3>3. DOMAIN Tail(listed) = 1..Len(listed) - 1 /\ DOMAIN listed = 1..Len(listed)
      BY <3>1
    <3>. QED
      BY <1>1, <3>2, <3>3 DEF Range
  <2>2. /\ cmem \in Memories /\ OnRings(cmem) /\ cmem.next[entry] # entry
        /\ UNCHANGED <<listed, cmem, asked, half, answer>>
    BY <1>1 DEF DelInitBegins, CarefulInv, DeleterInv, Deleting
  <2>3. Deleting(cmem, entry)'
    BY <1>1, <2>2 DEF DelInitBegins, Deleting
  <2>4. OnRings(cmem)'
    BY <2>2 DEF OnRings
  <2>5. DeleterInv'
    BY <2>1, <2>2, <2>3, <2>4 DEF DeleterInv, CarefulInv
  <2>6. ReaderInv'
    BY <2>2 DEF ReaderInv, CarefulInv
  <2>. QED
    BY <2>5, <2>6 DEF CarefulInv
<1>2. CASE DelInitStores
  <2>1. UNCHANGED <<listed, asked, half, answer>>
    BY <1>2 DEF DelInitStores
  <2>. QED
    BY <1>0, <1>2, <2>1, StoreKeeps DEF CarefulInv, ReaderInv
<1>3. ASSUME NEW c \in Range(listed), AskNext(c) PROVE CarefulInv'
  <2>1. DeleterInv'
    BY <1>3 DEF AskNext, CarefulInv, DeleterInv, OnRings, Deleting
  <2>2. ReaderInv'
    BY <1>3 DEF AskNext, ReaderInv
  <2>. QED
    BY <2>1, <2>2 DEF CarefulInv
<1>4. CASE AskPrev
  <2>1. DeleterInv'
    BY <1>4 DEF AskPrev, CarefulInv, DeleterInv, OnRings, Deleting
  <2>2. ReaderInv'
    BY <1>4 DEF AskPrev, ReaderInv, CarefulInv, list_empty_careful
  <2>. QED
    BY <2>1, <2>2 DEF CarefulInv
<1>5. CASE UNCHANGED carefulVars
  BY <1>5 DEF carefulVars, CarefulInv, DeleterInv, ReaderInv, OnRings, Deleting
<1>. QED
  BY <1>1, <1>2, <1>3, <1>4, <1>5 DEF CarefulNext

(* The deleter and the reader fit each other between any two stores.        *)
THEOREM CarefulInvariant == CarefulSpec => []CarefulInv
BY CarefulStarts, CarefulStep, PTL DEF CarefulSpec

(* list_empty_careful says yes of a cell only when the other processor is   *)
(* done with it, wherever it was between the two loads (list.h's comment).  *)
THEOREM CarefulAlwaysMeansDone == CarefulSpec => []CarefulMeansDone
<1>1. CarefulInv => CarefulMeansDone
  BY NoStoreToCome DEF CarefulInv, ReaderInv, CarefulMeansDone
<1>. QED
  BY <1>1, CarefulInvariant, PTL

-----------------------------------------------------------------------------
(* Sequences without repetition, and what a list operation does to them.    *)
Uniq(s) == \A i, j \in 1..Len(s): s[i] = s[j] => i = j

(* The members of a concatenation, by their index.                          *)
LEMMA ConcatIs ==
  ASSUME NEW S, NEW a \in Seq(S), NEW b \in Seq(S)
  PROVE  /\ a \o b \in Seq(S) /\ Len(a \o b) = Len(a) + Len(b)
         /\ \A i \in 1..Len(a) + Len(b):
              (a \o b)[i] = IF i <= Len(a) THEN a[i] ELSE b[i - Len(a)]
OBVIOUS

(* t is s with e as its k-th member.                                        *)
Inserted(t, s, k, e) ==
    \A i \in 1..Len(s) + 1: t[i] = IF i < k THEN s[i] ELSE IF i = k THEN e ELSE s[i - 1]

(* The members of InsertAt, by their index.                                 *)
LEMMA InsertAtIs ==
  ASSUME NEW S, NEW s \in Seq(S), NEW k \in 1..Len(s) + 1, NEW e \in S
  PROVE  /\ InsertAt(s, k, e) \in Seq(S)
         /\ Len(InsertAt(s, k, e)) = Len(s) + 1
         /\ Inserted(InsertAt(s, k, e), s, k, e)
<1>. DEFINE a == SubSeq(s, 1, k - 1)
            b == SubSeq(s, k, Len(s))
<1>1. Len(s) \in Nat /\ k \in Nat /\ k >= 1 /\ k <= Len(s) + 1
  OBVIOUS
<1>2. a \in Seq(S) /\ Len(a) = k - 1 /\ \A i \in 1..k - 1: a[i] = s[i]
  BY <1>1
<1>3. b \in Seq(S) /\ Len(b) = Len(s) - k + 1 /\ \A i \in 1..Len(b): b[i] = s[k + i - 1]
  BY <1>1
<1>. HIDE DEF a, b
<1>. DEFINE c == a \o <<e>>
<1>4. c \in Seq(S) /\ Len(c) = k /\ \A i \in 1..k: c[i] = IF i < k THEN s[i] ELSE e
  BY <1>1, <1>2
<1>. HIDE DEF c
<1>5. /\ c \o b \in Seq(S) /\ Len(c \o b) = Len(s) + 1
      /\ \A i \in 1..Len(s) + 1: (c \o b)[i] = IF i <= k THEN c[i] ELSE b[i - k]
  <2>1. Len(c) + Len(b) = Len(s) + 1
    BY <1>1, <1>3, <1>4
  <2>2. c \in Seq(S) /\ b \in Seq(S)
    BY <1>3, <1>4
  <2>3. /\ c \o b \in Seq(S) /\ Len(c \o b) = Len(c) + Len(b)
        /\ \A i \in 1..Len(c) + Len(b):
             (c \o b)[i] = IF i <= Len(c) THEN c[i] ELSE b[i - Len(c)]
    BY ONLY <2>2, ConcatIs
  <2>4. Len(c) = k
    BY <1>4
  <2>. QED
    BY ONLY <2>1, <2>3, <2>4
<1>6. \A i \in 1..Len(s) + 1: i > k => i - k \in 1..Len(b) /\ k + (i - k) - 1 = i - 1
  BY <1>1, <1>3
<1>7. \A i \in 1..Len(s) + 1:
        (c \o b)[i] = IF i < k THEN s[i] ELSE IF i = k THEN e ELSE s[i - 1]
  <2>. TAKE i \in 1..Len(s) + 1
  <2>1. CASE i <= k
    BY <1>1, <1>4, <1>5, <2>1
  <2>2. CASE i > k
    <3>1. (c \o b)[i] = b[i - k] /\ i - k \in 1..Len(b) /\ k + (i - k) - 1 = i - 1
      BY <1>1, <1>5, <1>6, <2>2
    <3>2. b[i - k] = s[k + (i - k) - 1]
      BY <1>3, <3>1
    <3>. QED
      BY <1>1, <2>2, <3>1, <3>2
  <2>. QED
    <3>1. i <= k \/ i > k
      BY <1>1
    <3>. QED
      BY <2>1, <2>2, <3>1
<1>8. InsertAt(s, k, e) = c \o b
  BY DEF InsertAt, a, b, c
<1>. QED
  BY <1>5, <1>7, <1>8 DEF Inserted

(* The members of RemoveAt, by their index.                                 *)
LEMMA RemoveAtIs ==
  ASSUME NEW S, NEW s \in Seq(S), NEW k \in 1..Len(s)
  PROVE  /\ RemoveAt(s, k) \in Seq(S)
         /\ Len(RemoveAt(s, k)) = Len(s) - 1
         /\ \A i \in 1..Len(s) - 1: RemoveAt(s, k)[i] = IF i < k THEN s[i] ELSE s[i + 1]
<1>. DEFINE a == SubSeq(s, 1, k - 1)
            b == SubSeq(s, k + 1, Len(s))
<1>1. Len(s) \in Nat /\ k \in Nat /\ k >= 1 /\ k <= Len(s)
  OBVIOUS
<1>2. a \in Seq(S) /\ Len(a) = k - 1 /\ \A i \in 1..k - 1: a[i] = s[i]
  BY <1>1
<1>3. b \in Seq(S) /\ Len(b) = Len(s) - k /\ \A i \in 1..Len(b): b[i] = s[k + i]
  BY <1>1
<1>. HIDE DEF a, b
<1>4. /\ a \o b \in Seq(S) /\ Len(a \o b) = Len(s) - 1
      /\ \A i \in 1..Len(s) - 1: (a \o b)[i] = IF i <= k - 1 THEN a[i] ELSE b[i - (k - 1)]
  <2>1. Len(a) + Len(b) = Len(s) - 1
    BY <1>1, <1>2, <1>3
  <2>2. a \o b \in Seq(S) /\ Len(a \o b) = Len(s) - 1
    BY <1>2, <1>3, <2>1, ConcatIs
  <2>3. \A i \in 1..Len(a) + Len(b):
          (a \o b)[i] = IF i <= Len(a) THEN a[i] ELSE b[i - Len(a)]
    BY <1>2, <1>3, ConcatIs
  <2>. QED
    BY <1>2, <2>1, <2>2, <2>3
<1>5. \A i \in 1..Len(s) - 1:
        i > k - 1 => i - (k - 1) \in 1..Len(b) /\ k + (i - (k - 1)) = i + 1
  BY <1>1, <1>3
<1>6. \A i \in 1..Len(s) - 1: (a \o b)[i] = IF i < k THEN s[i] ELSE s[i + 1]
  <2>. TAKE i \in 1..Len(s) - 1
  <2>1. CASE i < k
    BY <1>1, <1>2, <1>4, <2>1
  <2>2. CASE i >= k
    <3>1. /\ (a \o b)[i] = b[i - (k - 1)]
          /\ i - (k - 1) \in 1..Len(b) /\ k + (i - (k - 1)) = i + 1
      <4>1. i > k - 1 /\ ~(i <= k - 1)
        BY <1>1, <2>2
      <4>2. (a \o b)[i] = IF i <= k - 1 THEN a[i] ELSE b[i - (k - 1)]
        BY <1>4
      <4>. QED
        BY <1>5, <4>1, <4>2
    <3>2. b[i - (k - 1)] = s[k + (i - (k - 1))]
      BY <1>3, <3>1
    <3>. QED
      BY <1>1, <2>2, <3>1, <3>2
  <2>. QED
    <3>1. i < k \/ i >= k
      BY <1>1
    <3>. QED
      BY <2>1, <2>2, <3>1
<1>7. RemoveAt(s, k) = a \o b
  BY DEF RemoveAt, a, b
<1>. QED
  BY <1>4, <1>6, <1>7

(* A sequence without repetition is no longer than there are nodes.         *)
LEMMA UniqFits ==
  ASSUME NEW S, IsFiniteSet(S), NEW s \in Seq(S), Uniq(s)
  PROVE  Cardinality(S) \in Nat /\ Len(s) <= Cardinality(S)
<1>1. s \in Injection(1..Len(s), S)
  BY DEF Uniq, Injection, IsInjective
<1>2. Cardinality(1..Len(s)) <= Cardinality(S)
  BY <1>1, FS_Injection
<1>3. Cardinality(1..Len(s)) = Len(s)
  <2>1. Len(s) \in Nat
    OBVIOUS
  <2>2. Cardinality(1..Len(s)) = IF 1 > Len(s) THEN 0 ELSE Len(s) - 1 + 1
    BY <2>1, FS_Interval
  <2>. QED
    BY <2>1, <2>2
<1>. QED
  BY <1>2, <1>3, FS_CardinalityType

-----------------------------------------------------------------------------
(* SinglyLinked: from the head h the pointers f lead along s, and end.      *)
Knot(h, s, i) == IF i = 0 THEN h ELSE s[i]

Strung(f, h, s, nodes) ==
    /\ s \in Seq(nodes) /\ Uniq(s)
    /\ \A i \in 0..Len(s) - 1: f[Knot(h, s, i)] = s[i + 1]
    /\ f[Knot(h, s, Len(s))] \notin nodes

(* Then following them gives s.                                             *)
LEMMA AlongIs ==
  ASSUME NEW nodes, IsFiniteSet(nodes), NEW f, NEW h, NEW s, Strung(f, h, s, nodes)
  PROVE  Along(f, h, nodes) = s
<1>. DEFINE N == Cardinality(nodes)
            Follows(g) == g = [k \in 0..N |->
              IF k = 0 THEN <<h>>
              ELSE IF f[Last(g[k - 1])] \in nodes THEN Append(g[k - 1], f[Last(g[k - 1])])
                   ELSE g[k - 1]]
            trail == CHOOSE g: Follows(g)
            upto(k) == IF k <= Len(s) THEN k ELSE Len(s)
            part(k) == [i \in 1..upto(k) + 1 |-> Knot(h, s, i - 1)]
            want == [k \in 0..N |-> part(k)]
<1>1. s \in Seq(nodes) /\ Len(s) \in Nat /\ N \in Nat /\ Len(s) <= N
  BY UniqFits DEF Strung
<1>2. Along(f, h, nodes) = Tail(trail[N])
  BY DEF Along
<1>3. \A k \in 0..N: /\ upto(k) \in 0..Len(s)
                     /\ part(k) \in Seq(nodes \cup {h}) /\ Len(part(k)) = upto(k) + 1
                     /\ Last(part(k)) = Knot(h, s, upto(k))
  BY <1>1 DEF Knot, Last
<1>4. part(0) = <<h>>
  BY <1>1 DEF Knot
<1>5. ASSUME NEW k \in 1..N
      PROVE  part(k) = IF f[Last(part(k - 1))] \in nodes
                       THEN Append(part(k - 1), f[Last(part(k - 1))]) ELSE part(k - 1)
  <2>1. k - 1 \in 0..N /\ Last(part(k - 1)) = Knot(h, s, upto(k - 1))
    <3>1. k - 1 \in 0..N
      BY <1>1
    <3>. HIDE DEF part, upto
    <3>. QED
      BY <1>3, <3>1
  <2>2. CASE k <= Len(s)
    <3>1. upto(k) = k /\ upto(k - 1) = k - 1 /\ f[Knot(h, s, k - 1)] = s[k] /\ s[k] \in nodes
      BY <1>1, <2>2 DEF Strung
    <3>2. part(k) = Append(part(k - 1), s[k])
      <4>1. Len(part(k - 1)) = k /\ part(k - 1) \in Seq(nodes \cup {h})
        <5>. HIDE DEF part, upto
        <5>1. Len(part(k - 1)) = upto(k - 1) + 1 /\ part(k - 1) \in Seq(nodes \cup {h})
          BY <1>3, <2>1
        <5>. QED
          BY <3>1, <5>1
      <4>2. Len(part(k)) = k + 1 /\ part(k) \in Seq(nodes \cup {h})
        <5>. HIDE DEF part, upto
        <5>1. k \in 0..N
          BY <1>1
        <5>2. Len(part(k)) = upto(k) + 1 /\ part(k) \in Seq(nodes \cup {h})
          BY <1>3, <5>1
        <5>. QED
          BY <3>1, <5>2
      <4>3. \A i \in 1..k: part(k)[i] = part(k - 1)[i]
        BY <3>1
      <4>4. part(k)[k + 1] = s[k]
        BY <3>1 DEF Knot
      <4>. HIDE DEF part
      <4>5. Append(part(k - 1), s[k]) \in Seq(nodes \cup {h})
        BY <3>1, <4>1
      <4>6. Len(Append(part(k - 1), s[k])) = k + 1
        BY <4>1
      <4>7. \A i \in 1..k + 1: Append(part(k - 1), s[k])[i] = part(k)[i]
        BY <4>1, <4>3, <4>4
      <4>. QED
        BY <4>2, <4>5, <4>6, <4>7
    <3>. QED
      BY <2>1, <3>1, <3>2
  <2>3. CASE k > Len(s)
    <3>1. upto(k) = Len(s) /\ upto(k - 1) = Len(s) /\ f[Knot(h, s, Len(s))] \notin nodes
      BY <1>1, <2>3 DEF Strung
    <3>. QED
      BY <2>1, <3>1
  <2>. QED
    BY <1>1, <2>2, <2>3
<1>. HIDE DEF upto, part
<1>6. Follows(want)
  <2>1. \A k \in 0..N: k # 0 => k \in 1..N /\ k - 1 \in 0..N
    BY <1>1
  <2>2. \A k \in 0..N: want[k] = part(k)
    OBVIOUS
  <2>3. want = [k \in 0..N |->
              IF k = 0 THEN <<h>>
              ELSE IF f[Last(want[k - 1])] \in nodes
                   THEN Append(want[k - 1], f[Last(want[k - 1])]) ELSE want[k - 1]]
    <3>1. ASSUME NEW k \in 0..N
          PROVE  part(k) = IF k = 0 THEN <<h>>
              ELSE IF f[Last(want[k - 1])] \in nodes
                   THEN Append(want[k - 1], f[Last(want[k - 1])]) ELSE want[k - 1]
      <4>1. CASE k = 0
        BY <1>4, <4>1
      <4>2. CASE k # 0
        <5>1. k \in 1..N /\ want[k - 1] = part(k - 1)
          BY <2>1, <2>2, <4>2
        <5>. HIDE DEF want
        <5>. QED
          BY <1>5, <4>2, <5>1
      <4>. QED
        BY <4>1, <4>2
    <3>. QED
      BY <3>1
  <2>. QED
    BY <2>3
<1>7. Follows(trail)
  <2>. HIDE DEF Follows, want
  <2>. QED
    BY <1>6
<1>. HIDE DEF trail
<1>. DEFINE Same == {k \in 0..N: trail[k] = part(k)}
<1>8. 0 \in Same
  BY <1>1, <1>4, <1>7
<1>9. ASSUME NEW k \in 0..N - 1, k \in Same PROVE k + 1 \in Same
  <2>1. k + 1 \in 1..N /\ k + 1 \in 0..N /\ k + 1 # 0 /\ (k + 1) - 1 = k /\ trail[k] = part(k)
    BY <1>1, <1>9
  <2>2. trail[k + 1] = IF f[Last(trail[k])] \in nodes
                       THEN Append(trail[k], f[Last(trail[k])]) ELSE trail[k]
    BY <1>7, <2>1
  <2>3. part(k + 1) = IF f[Last(part(k))] \in nodes
                      THEN Append(part(k), f[Last(part(k))]) ELSE part(k)
    BY <1>5, <2>1
  <2>. QED
    BY <2>1, <2>2, <2>3
<1>. HIDE DEF Same
<1>10. \A k \in 0..N: k \in Same
  BY <1>1, <1>8, <1>9, UpTo
<1>11. trail[N] = part(N) /\ N \in 0..N
  BY <1>1, <1>10 DEF Same
<1>12. part(N) = [i \in 1..Len(s) + 1 |-> Knot(h, s, i - 1)]
  BY <1>1 DEF part, upto
<1>13. Tail(part(N)) = s
  <2>1. part(N) \in Seq(nodes \cup {h}) /\ Len(part(N)) = Len(s) + 1
    BY <1>3, <1>11, <1>12
  <2>2. \A i \in 1..Len(s): part(N)[i + 1] = s[i]
    BY <1>1, <1>12 DEF Knot
  <2>3. Tail(part(N)) \in Seq(nodes \cup {h}) /\ Len(Tail(part(N))) = Len(s)
    BY <1>1, <2>1
  <2>4. \A i \in 1..Len(s): Tail(part(N))[i] = s[i]
    BY <1>1, <2>1, <2>2
  <2>. QED
    BY <1>1, <2>3, <2>4
<1>. QED
  BY <1>2, <1>11, <1>13

(* A node is put behind the k-th knot.                                      *)
LinksIn(f, g, h, s, k, n, nodes) ==
    /\ h \notin nodes /\ Strung(f, h, s, nodes)
    /\ k \in 0..Len(s) /\ n \in nodes /\ \A i \in 1..Len(s): s[i] # n
    /\ g[Knot(h, s, k)] = n
    /\ k < Len(s) => g[n] = f[Knot(h, s, k)]
    /\ k = Len(s) => g[n] \notin nodes
    /\ \A c \in nodes \cup {h}: c # n /\ c # Knot(h, s, k) => g[c] = f[c]

(* A sequence that pointers are strung along gains a member in the middle.  *)
LEMMA StrungInsert ==
  ASSUME NEW nodes, NEW f, NEW g, NEW h, NEW s, NEW k, NEW n, LinksIn(f, g, h, s, k, n, nodes)
  PROVE  /\ Strung(g, h, InsertAt(s, k + 1, n), nodes)
         /\ Len(InsertAt(s, k + 1, n)) = Len(s) + 1
         /\ g[Knot(h, InsertAt(s, k + 1, n), Len(s) + 1)] =
              IF k = Len(s) THEN g[n] ELSE f[Knot(h, s, Len(s))]
         /\ Inserted(InsertAt(s, k + 1, n), s, k + 1, n)
<1>. DEFINE t == InsertAt(s, k + 1, n)
<1>0. /\ h \notin nodes /\ Strung(f, h, s, nodes)
      /\ k \in 0..Len(s) /\ n \in nodes /\ \A i \in 1..Len(s): s[i] # n
      /\ g[Knot(h, s, k)] = n
      /\ k < Len(s) => g[n] = f[Knot(h, s, k)]
      /\ k = Len(s) => g[n] \notin nodes
      /\ \A c \in nodes \cup {h}: c # n /\ c # Knot(h, s, k) => g[c] = f[c]
  BY DEF LinksIn
<1>. USE <1>0
<1>1. /\ s \in Seq(nodes) /\ Len(s) \in Nat /\ k + 1 \in 1..Len(s) + 1
      /\ \A i \in 1..Len(s): s[i] \in nodes
      /\ \A i, j \in 1..Len(s): s[i] = s[j] => i = j
  BY DEF Strung, Uniq
<1>2. /\ t \in Seq(nodes) /\ Len(t) = Len(s) + 1
      /\ \A i \in 1..Len(s) + 1:
           t[i] = IF i < k + 1 THEN s[i] ELSE IF i = k + 1 THEN n ELSE s[i - 1]
  <2>1. PICK m \in 1..Len(s) + 1: m = k + 1
    BY ONLY <1>0, <1>1
  <2>2. s \in Seq(nodes) /\ n \in nodes
    BY ONLY <1>0, <1>1
  <2>3. /\ InsertAt(s, m, n) \in Seq(nodes) /\ Len(InsertAt(s, m, n)) = Len(s) + 1
        /\ Inserted(InsertAt(s, m, n), s, m, n)
    BY ONLY <2>2, m \in 1..Len(s) + 1, InsertAtIs
  <2>. QED
    BY ONLY <2>1, <2>3 DEF Inserted
<1>. HIDE DEF t
<1>3. Uniq(t)
  <2>. SUFFICES ASSUME NEW i \in 1..Len(t), NEW j \in 1..Len(t), t[i] = t[j] PROVE i = j
    BY DEF Uniq
  <2>. DEFINE from(l) == IF l < k + 1 THEN l ELSE l - 1
  <2>1. \A l \in 1..Len(t): l # k + 1 =>
          from(l) \in 1..Len(s) /\ t[l] = s[from(l)] /\ t[l] # n
    <3>. SUFFICES ASSUME NEW l \in 1..Len(t), l # k + 1
                  PROVE  from(l) \in 1..Len(s) /\ t[l] = s[from(l)] /\ t[l] # n
      OBVIOUS
    <3>1. CASE l < k + 1
      BY <1>1, <1>2, <3>1
    <3>2. CASE l > k + 1
      BY <1>1, <1>2, <3>2
    <3>3. l < k + 1 \/ l > k + 1
      BY <1>1, <1>2
    <3>. HIDE DEF from
    <3>. QED
      BY <3>1, <3>2, <3>3
  <2>2. t[k + 1] = n
    BY <1>1, <1>2
  <2>3. CASE i = k + 1 \/ j = k + 1
    <3>. HIDE DEF from
    <3>. QED
      BY <2>1, <2>2, <2>3
  <2>4. CASE i # k + 1 /\ j # k + 1
    <3>1. from(i) = from(j)
      BY <1>1, <2>1, <2>4, SMTT(60)
    <3>. QED
      BY <1>1, <1>2, <2>4, <3>1
  <2>. QED
    BY <2>3, <2>4
<1>4. \A i \in 0..Len(s) + 1:
        Knot(h, t, i) = IF i <= k THEN Knot(h, s, i)
                        ELSE IF i = k + 1 THEN n ELSE Knot(h, s, i - 1)
  BY <1>1, <1>2 DEF Knot
<1>5. \A i \in 0..Len(s): /\ Knot(h, s, i) \in nodes \cup {h} /\ Knot(h, s, i) # n
                          /\ i # k => Knot(h, s, i) # Knot(h, s, k)
  BY <1>1 DEF Knot
<1>6. ASSUME NEW i \in 0..Len(s) PROVE g[Knot(h, t, i)] = t[i + 1]
  <2>1. CASE i < k
    <3>1. Knot(h, t, i) = Knot(h, s, i) /\ t[i + 1] = s[i + 1]
      BY <1>1, <1>2, <1>4, <2>1
    <3>2. f[Knot(h, s, i)] = s[i + 1]
      BY <1>1, <2>1 DEF Strung
    <3>. QED
      BY <1>5, <2>1, <3>1, <3>2
  <2>2. CASE i = k
    BY <1>1, <1>2, <1>4, <2>2
  <2>3. CASE i = k + 1
    <3>1. Knot(h, t, i) = n /\ t[i + 1] = s[k + 1] /\ k < Len(s)
      BY <1>1, <1>2, <1>4, <2>3
    <3>2. f[Knot(h, s, k)] = s[k + 1]
      BY <1>1, <3>1 DEF Strung
    <3>. QED
      BY <3>1, <3>2
  <2>4. CASE i > k + 1
    <3>1. Knot(h, t, i) = Knot(h, s, i - 1) /\ t[i + 1] = s[i] /\ i - 1 \in 0..Len(s) - 1
      BY <1>1, <1>2, <1>4, <2>4
    <3>2. f[Knot(h, s, i - 1)] = s[(i - 1) + 1]
      BY <3>1 DEF Strung
    <3>3. i - 1 # k /\ i - 1 \in 0..Len(s) /\ (i - 1) + 1 = i
      BY <1>1, <2>4
    <3>. QED
      BY <1>5, <3>1, <3>2, <3>3
  <2>. QED
    BY <1>1, <2>1, <2>2, <2>3, <2>4
<1>7. g[Knot(h, t, Len(s) + 1)] = IF k = Len(s) THEN g[n] ELSE f[Knot(h, s, Len(s))]
  <2>1. CASE k = Len(s)
    BY <1>1, <1>4, <2>1
  <2>2. CASE k # Len(s)
    <3>1. Len(s) + 1 \in 0..Len(s) + 1 /\ ~(Len(s) + 1 <= k) /\ Len(s) + 1 # k + 1
          /\ (Len(s) + 1) - 1 = Len(s) /\ Len(s) \in 0..Len(s)
      BY <1>1, <2>2
    <3>2. Knot(h, t, Len(s) + 1) = Knot(h, s, Len(s))
      BY <1>4, <3>1
    <3>. QED
      BY <1>5, <2>2, <3>1, <3>2
  <2>. QED
    BY <2>1, <2>2
<1>8. g[Knot(h, t, Len(t))] \notin nodes
  BY <1>2, <1>7 DEF Strung
<1>9. \A i \in 0..Len(t) - 1: g[Knot(h, t, i)] = t[i + 1]
  BY <1>1, <1>2, <1>6
<1>. QED
  BY <1>2, <1>3, <1>7, <1>8, <1>9 DEF Strung, Inserted, t

(* The k-th node is taken out.                                              *)
LinksOut(f, g, h, s, k, nodes) ==
    /\ h \notin nodes /\ Strung(f, h, s, nodes) /\ k \in 1..Len(s)
    /\ g[Knot(h, s, k - 1)] = f[s[k]]
    /\ \A c \in nodes \cup {h}: c # s[k] /\ c # Knot(h, s, k - 1) => g[c] = f[c]

(* It loses a member.                                                       *)
LEMMA StrungRemove ==
  ASSUME NEW nodes, NEW f, NEW g, NEW h, NEW s, NEW k, LinksOut(f, g, h, s, k, nodes)
  PROVE  /\ Strung(g, h, RemoveAt(s, k), nodes)
         /\ Len(RemoveAt(s, k)) = Len(s) - 1
         /\ g[Knot(h, RemoveAt(s, k), Len(s) - 1)] = f[Knot(h, s, Len(s))]
<1>. DEFINE t == RemoveAt(s, k)
<1>0. /\ h \notin nodes /\ Strung(f, h, s, nodes) /\ k \in 1..Len(s)
      /\ g[Knot(h, s, k - 1)] = f[s[k]]
      /\ \A c \in nodes \cup {h}: c # s[k] /\ c # Knot(h, s, k - 1) => g[c] = f[c]
  BY DEF LinksOut
<1>. USE <1>0
<1>1. /\ s \in Seq(nodes) /\ Len(s) \in Nat
      /\ \A i \in 1..Len(s): s[i] \in nodes
      /\ \A i, j \in 1..Len(s): s[i] = s[j] => i = j
  BY DEF Strung, Uniq
<1>2. /\ t \in Seq(nodes) /\ Len(t) = Len(s) - 1
      /\ \A i \in 1..Len(s) - 1: t[i] = IF i < k THEN s[i] ELSE s[i + 1]
  BY <1>1, RemoveAtIs
<1>. HIDE DEF t
<1>3. Uniq(t)
  BY <1>1, <1>2 DEF Uniq
<1>4. \A i \in 0..Len(s) - 1:
        Knot(h, t, i) = IF i < k THEN Knot(h, s, i) ELSE Knot(h, s, i + 1)
  BY <1>1, <1>2 DEF Knot
<1>5. \A i \in 0..Len(s): /\ Knot(h, s, i) \in nodes \cup {h}
                          /\ i # k => Knot(h, s, i) # s[k]
                          /\ i # k - 1 => Knot(h, s, i) # Knot(h, s, k - 1)
  BY <1>1 DEF Knot
<1>6. \A i \in 0..Len(s): i # k /\ i # k - 1 => g[Knot(h, s, i)] = f[Knot(h, s, i)]
  BY <1>5
<1>7. \A i \in 0..Len(s) - 1: f[Knot(h, s, i)] = s[i + 1]
  BY DEF Strung
<1>8. Knot(h, s, k) = s[k]
  BY <1>1 DEF Knot
<1>9. ASSUME NEW i \in 0..Len(s) - 2 PROVE g[Knot(h, t, i)] = t[i + 1]
  <2>1. CASE i < k - 1
    <3>1. /\ Knot(h, t, i) = Knot(h, s, i) /\ t[i + 1] = s[i + 1]
          /\ i \in 0..Len(s) /\ i \in 0..Len(s) - 1 /\ i # k /\ i # k - 1
      BY <1>1, <1>2, <1>4, <2>1
    <3>. QED
      BY <1>6, <1>7, <3>1
  <2>2. CASE i = k - 1
    <3>1. /\ Knot(h, t, i) = Knot(h, s, k - 1) /\ t[i + 1] = s[k + 1]
          /\ k \in 0..Len(s) - 1
      BY <1>1, <1>2, <1>4, <2>2
    <3>. QED
      BY <1>7, <1>8, <3>1
  <2>3. CASE i > k - 1
    <3>1. /\ Knot(h, t, i) = Knot(h, s, i + 1) /\ t[i + 1] = s[(i + 1) + 1]
          /\ i + 1 \in 0..Len(s) /\ i + 1 \in 0..Len(s) - 1 /\ i + 1 # k /\ i + 1 # k - 1
      BY <1>1, <1>2, <1>4, <2>3
    <3>. QED
      BY <1>6, <1>7, <3>1
  <2>. QED
    BY <1>1, <2>1, <2>2, <2>3
<1>10. g[Knot(h, t, Len(s) - 1)] = f[Knot(h, s, Len(s))]
  <2>0. Len(s) - 1 \in 0..Len(s) - 1 /\ Len(s) \in 0..Len(s) /\ (Len(s) - 1) + 1 = Len(s)
    BY <1>1
  <2>1. CASE k = Len(s)
    <3>1. Knot(h, t, Len(s) - 1) = Knot(h, s, k - 1)
      BY <1>4, <2>0, <2>1
    <3>. QED
      BY <1>8, <2>1, <3>1
  <2>2. CASE k < Len(s)
    <3>1. Knot(h, t, Len(s) - 1) = Knot(h, s, Len(s))
      BY <1>1, <1>4, <2>0, <2>2
    <3>2. Len(s) # k /\ Len(s) # k - 1
      BY <1>1, <2>2
    <3>. QED
      BY <1>6, <2>0, <3>1, <3>2
  <2>. QED
    BY <1>1, <2>1, <2>2
<1>11. g[Knot(h, t, Len(t))] \notin nodes
  BY <1>2, <1>10 DEF Strung
<1>12. \A i \in 0..Len(t) - 1: g[Knot(h, t, i)] = t[i + 1]
  BY <1>1, <1>2, <1>9
<1>. QED
  BY <1>2, <1>3, <1>10, <1>11, <1>12 DEF Strung, t

-----------------------------------------------------------------------------
(* NodeList: the singly linked list of list_operation.c.                    *)

NodeTypes ==
    /\ next \in [Items \cup {head} -> Items \cup {head, NIL, JUNK}]
    /\ unused \in SUBSET Items
    /\ phase \in {"create", "ready", "failed"}

(* Pointers that were never assigned are those of nodes not on the list.    *)
NodeInv ==
    /\ NodeTypes
    /\ \A i \in unused: next[i] = JUNK
    /\ Strung(next, head, Content, Items)
    /\ \A i \in 1..Len(Content): Content[i] \notin unused
    /\ phase = "create" => p = Knot(head, Content, Len(Content))
    /\ phase = "ready" => Len(Content) > 0 /\ next[Content[Len(Content)]] = NIL

(* What the operations share: a new node behind the k-th one.               *)
LEMMA NodeInserted ==
  ASSUME NodeInv, NEW i \in unused, NEW k \in 0..Len(Content), NEW x \in {head, NIL, JUNK},
         next' = [next EXCEPT ![Knot(head, Content, k)] = i,
                              ![i] = IF k = Len(Content) THEN x
                                     ELSE next[Knot(head, Content, k)]],
         unused' = unused \ {i}, phase' = phase,
         phase = "create" => k = Len(Content) /\ p' = i,
         phase = "ready" => (k = Len(Content) => x = NIL)
  PROVE  /\ NodeInv'
         /\ \E j \in 1..Len(Content) + 1: NodeRules!PutNew(i, head, j)
<1>. DEFINE s == Content
            t == InsertAt(s, k + 1, i)
            at == Knot(head, s, k)
<1>1. /\ i \in Items /\ head \notin Items /\ {NIL, JUNK} \cap Items = {} /\ IsFiniteSet(Items)
      /\ NodeTypes /\ Strung(next, head, s, Items)
      /\ \A j \in 1..Len(s): s[j] \notin unused
  BY NodeAssumption DEF NodeInv, NodeTypes
<1>2. /\ s \in Seq(Items) /\ Len(s) \in Nat /\ at \in Items \cup {head} /\ at # i
      /\ \A j \in 1..Len(s): s[j] # i
  BY <1>1 DEF Strung, Knot
<1>3. /\ next'[at] = i
      /\ next'[i] = IF k = Len(s) THEN x ELSE next[at]
      /\ \A c \in Items \cup {head}: c # i /\ c # at => next'[c] = next[c]
      /\ next' \in [Items \cup {head} -> Items \cup {head, NIL, JUNK}]
  BY <1>1, <1>2 DEF NodeTypes
<1>. HIDE DEF s, at
<1>4. /\ Strung(next', head, t, Items) /\ Len(t) = Len(s) + 1
      /\ next'[Knot(head, t, Len(s) + 1)] =
           IF k = Len(s) THEN next'[i] ELSE next[Knot(head, s, Len(s))]
      /\ Inserted(t, s, k + 1, i)
  <2>1. k < Len(s) => next'[i] = next[at]
    BY <1>2, <1>3 DEF s
  <2>2. k = Len(s) => next'[i] \notin Items
    BY <1>1, <1>3
  <2>3. /\ k \in 0..Len(s) /\ next'[Knot(head, s, k)] = i
        /\ k < Len(s) => next'[i] = next[Knot(head, s, k)]
        /\ \A c \in Items \cup {head}: c # i /\ c # Knot(head, s, k) => next'[c] = next[c]
    BY <1>3, <2>1 DEF s, at
  <2>. DEFINE g == next'
  <2>4. /\ g[Knot(head, s, k)] = i
        /\ k < Len(s) => g[i] = next[Knot(head, s, k)]
        /\ k = Len(s) => g[i] \notin Items
        /\ \A c \in Items \cup {head}: c # i /\ c # Knot(head, s, k) => g[c] = next[c]
    BY <2>2, <2>3
  <2>. HIDE DEF g
  <2>5. /\ Strung(g, head, t, Items) /\ Len(t) = Len(s) + 1
        /\ g[Knot(head, t, Len(s) + 1)] =
             IF k = Len(s) THEN g[i] ELSE next[Knot(head, s, Len(s))]
        /\ Inserted(t, s, k + 1, i)
    <3>1. /\ head \notin Items /\ i \in Items /\ Strung(next, head, s, Items)
          /\ k \in 0..Len(s) /\ \A j \in 1..Len(s): s[j] # i
      BY <1>1, <1>2, <2>3
    <3>0. LinksIn(next, g, head, s, k, i, Items)
      BY ONLY <2>4, <3>1 DEF LinksIn
    <3>2. /\ Strung(g, head, InsertAt(s, k + 1, i), Items)
          /\ Len(InsertAt(s, k + 1, i)) = Len(s) + 1
          /\ g[Knot(head, InsertAt(s, k + 1, i), Len(s) + 1)] =
               IF k = Len(s) THEN g[i] ELSE next[Knot(head, s, Len(s))]
          /\ Inserted(InsertAt(s, k + 1, i), s, k + 1, i)
      BY ONLY <3>0, StrungInsert
    <3>. QED
      BY ONLY <3>2 DEF t
  <2>. QED
    BY <2>5 DEF g
<1>5. Content' = t
  BY <1>1, <1>4, AlongIs DEF Content
<1>6. /\ t \in Seq(Items)
      /\ \A j \in 1..Len(s) + 1:
           t[j] = IF j < k + 1 THEN s[j] ELSE IF j = k + 1 THEN i ELSE s[j - 1]
  BY <1>4 DEF Inserted, Strung
<1>. HIDE DEF t
<1>7. NodeTypes'
  BY <1>1, <1>3 DEF NodeTypes
<1>8. \A j \in unused': next'[j] = JUNK
  <2>1. \A j \in unused: j # i => j # at /\ j \in Items
    BY <1>1, <1>2 DEF at, Knot, s, NodeTypes
  <2>. QED
    BY <1>3, <2>1 DEF NodeInv
<1>9. \A j \in 1..Len(t): t[j] \notin unused'
  <2>. SUFFICES ASSUME NEW j \in 1..Len(t) PROVE t[j] \notin unused'
    OBVIOUS
  <2>1. t[j] = i \/ (\E l \in 1..Len(s): t[j] = s[l])
    <3>1. CASE j < k + 1
      <4>1. j \in 1..Len(s)
        BY <1>2, <1>4, <3>1 DEF s
      <4>. QED
        BY <1>4, <1>6, <3>1, <4>1
    <3>2. CASE j = k + 1
      BY <1>2, <1>4, <1>6, <3>2
    <3>3. CASE j > k + 1
      <4>1. j - 1 \in 1..Len(s) /\ t[j] = s[j - 1]
        BY <1>2, <1>4, <1>6, <3>3 DEF s
      <4>. QED
        BY <4>1
    <3>. QED
      BY <1>2, <3>1, <3>2, <3>3
  <2>. QED
    BY <1>1, <2>1
<1>10. phase = "create" => p' = Knot(head, t, Len(t))
  <2>. SUFFICES ASSUME phase = "create" PROVE p' = Knot(head, t, Len(t))
    OBVIOUS
  <2>1. k = Len(s) /\ p' = i
    BY DEF s
  <2>2. Len(t) = k + 1 /\ t[k + 1] = i /\ k + 1 # 0
    BY <1>2, <1>4, <1>6, <2>1
  <2>. QED
    BY <2>1, <2>2 DEF Knot
<1>11. phase = "ready" => Len(t) > 0 /\ next'[t[Len(t)]] = NIL
  <2>1. Knot(head, t, Len(s) + 1) = t[Len(t)] /\ Len(t) > 0
    BY <1>2, <1>4 DEF Knot
  <2>2. phase = "ready" => next[Knot(head, s, Len(s))] = NIL
    BY <1>2 DEF NodeInv, Knot, s
  <2>. QED
    BY <1>3, <1>4, <2>1, <2>2 DEF s
<1>12. NodeInv'
  <2>1. Strung(next, head, Content, Items)'
    BY <1>4, <1>5
  <2>. QED
    BY <1>5, <1>7, <1>8, <1>9, <1>10, <1>11, <2>1 DEF NodeInv
<1>13. NodeRules!PutNew(i, head, k + 1)
  <2>1. i \notin Range(s)
    BY <1>2 DEF Range
  <2>2. ListOfHead = [b \in {head} |-> s] /\ ListOfHead' = [b \in {head} |-> t]
    BY <1>5 DEF ListOfHead, s
  <2>3. NodeRules!Without(i) = [b \in {head} |-> s]
    BY <2>1, <2>2 DEF NodeRules!Without, NodeRules!Range, Range
  <2>4. [b \in {head} |-> t] = [[b \in {head} |-> s] EXCEPT ![head] = InsertAt(s, k + 1, i)]
    BY DEF t
  <2>0. InsertAt(s, k + 1, i) = NodeRules!InsertAt(s, k + 1, i)
    BY DEF InsertAt, NodeRules!InsertAt
  <2>5. ~ NodeRules!OnSomeList(i)
    BY <2>1, <2>2 DEF NodeRules!OnSomeList, NodeRules!Range, Range
  <2>6. NodeRules!Put(i, head, k + 1)
    BY <2>0, <2>2, <2>3, <2>4 DEF NodeRules!Put
  <2>. QED
    BY <2>5, <2>6 DEF NodeRules!PutNew
<1>. QED
  <2>1. k + 1 \in 1..Len(Content) + 1
    BY <1>2 DEF s
  <2>. QED
    BY <1>12, <1>13, <2>1

(* The list of the exercise is empty at first.                              *)
LEMMA NodeStarts ==
  ASSUME NodeInit
  PROVE  NodeInv /\ Content = <<>>
<1>1. /\ head \notin Items /\ JUNK \notin Items /\ IsFiniteSet(Items)
  BY NodeAssumption
<1>2. Strung(next, head, <<>>, Items)
  BY <1>1 DEF NodeInit, Strung, Knot, Uniq
<1>3. Content = <<>>
  BY <1>1, <1>2, AlongIs DEF Content
<1>. QED
  BY <1>2, <1>3 DEF NodeInit, NodeInv, NodeTypes, Knot

LEMMA NodeStep ==
  ASSUME NodeInv, [NodeNext]_nodeVars
  PROVE  /\ NodeInv'
         /\ \/ \E i \in Items: \E k \in 1..(Len(Content) + 1): NodeRules!PutNew(i, head, k)
            \/ UNCHANGED ListOfHead
<1>. DEFINE s == Content
            Goal == /\ NodeInv'
                    /\ \/ \E i \in Items: \E k \in 1..(Len(Content) + 1):
                            NodeRules!PutNew(i, head, k)
                       \/ UNCHANGED ListOfHead
<1>1. /\ s \in Seq(Items) /\ Len(s) \in Nat /\ \A i \in 1..Len(s): s[i] \in Items
      /\ NodeTypes /\ unused \in SUBSET Items
      /\ head \notin Items /\ {NIL, JUNK} \cap Items = {} /\ IsFiniteSet(Items)
  BY NodeAssumption DEF NodeInv, NodeTypes, Strung
<1>2. ASSUME next' = next, unused' \in SUBSET unused, phase' \in {phase, "failed"}, p' = p
      PROVE  Goal
  <2>1. Content' = Content
    BY <1>2 DEF Content
  <2>2. NodeInv'
    BY <1>1, <1>2, <2>1 DEF NodeInv, NodeTypes
  <2>. QED
    BY <2>1, <2>2 DEF ListOfHead
<1>3. ASSUME NEW i \in unused, NEW k \in 0..Len(s),
             LinkBehind(Knot(head, s, k), i), phase = "ready"
      PROVE  Goal
  <2>1. /\ next' = [next EXCEPT ![Knot(head, s, k)] = i, ![i] = next[Knot(head, s, k)]]
        /\ unused' = unused \ {i} /\ phase' = phase
    BY <1>3 DEF LinkBehind
  <2>2. k = Len(s) => next[Knot(head, s, k)] = NIL
    BY <1>1, <1>3 DEF NodeInv, Knot
  <2>3. next' = [next EXCEPT ![Knot(head, s, k)] = i,
                             ![i] = IF k = Len(s) THEN NIL ELSE next[Knot(head, s, k)]]
    BY <2>1, <2>2
  <2>4. /\ NodeInv'
        /\ \E j \in 1..Len(Content) + 1: NodeRules!PutNew(i, head, j)
    BY <1>3, <2>1, <2>3, NodeInserted
  <2>. QED
    BY <1>1, <2>4
<1>4. ASSUME NEW i \in Items, CreateNode(i) PROVE Goal
  <2>1. /\ i \in unused /\ phase = "create" /\ p' = i /\ p = Knot(head, s, Len(s))
        /\ next' = [next EXCEPT ![p] = i] /\ unused' = unused \ {i} /\ phase' = phase
        /\ next[i] = JUNK /\ Len(s) \in 0..Len(s)
    BY <1>1, <1>4 DEF CreateNode, NodeInv
  <2>2. p # i
    BY <1>1, <1>4, <2>1 DEF Knot, NodeInv
  <2>3. next' = [next EXCEPT ![Knot(head, s, Len(s))] = i,
                             ![i] = IF Len(s) = Len(s) THEN JUNK
                                    ELSE next[Knot(head, s, Len(s))]]
    BY <1>1, <2>1, <2>2 DEF NodeTypes
  <2>. DEFINE k == Len(s)
  <2>4. /\ next' = [next EXCEPT ![Knot(head, s, k)] = i,
                                ![i] = IF k = Len(s) THEN JUNK ELSE next[Knot(head, s, k)]]
        /\ k \in 0..Len(s) /\ k = Len(s)
    BY <2>1, <2>3
  <2>. HIDE DEF k
  <2>5. /\ NodeInv'
        /\ \E j \in 1..Len(Content) + 1: NodeRules!PutNew(i, head, j)
    BY <2>1, <2>4, NodeInserted
  <2>. QED
    BY <1>1, <2>5
<1>5. ASSUME NEW i \in Items, add_to_tail(i) PROVE Goal
  <2>1. /\ i \in unused /\ phase = "ready" /\ unused' = unused \ {i} /\ phase' = phase
        /\ next' = [next EXCEPT ![Last(s)] = i, ![i] = NIL] /\ Len(s) > 0
    BY <1>5 DEF add_to_tail, NodeInv
  <2>2. Last(s) = Knot(head, s, Len(s)) /\ Len(s) \in 0..Len(s)
    BY <1>1, <2>1 DEF Last, Knot
  <2>. DEFINE k == Len(s)
  <2>4. /\ next' = [next EXCEPT ![Knot(head, s, k)] = i,
                                ![i] = IF k = Len(s) THEN NIL ELSE next[Knot(head, s, k)]]
        /\ k \in 0..Len(s) /\ k = Len(s)
    BY <2>1, <2>2
  <2>. HIDE DEF k
  <2>5. /\ NodeInv'
        /\ \E j \in 1..Len(Content) + 1: NodeRules!PutNew(i, head, j)
    BY <2>1, <2>4, NodeInserted
  <2>. QED
    BY <1>1, <2>5
<1>6. ASSUME NEW i \in Items, add_to_head(i) PROVE Goal
  <2>1. i \in unused /\ phase = "ready" /\ LinkBehind(Knot(head, s, 0), i) /\ 0 \in 0..Len(s)
    BY <1>1, <1>6 DEF add_to_head, Knot
  <2>. QED
    BY <1>3, <2>1
<1>7. ASSUME NEW i \in Items, NEW n \in Int, add_to_mid(i, n) PROVE Goal
  <2>1. i \in unused /\ phase = "ready"
    BY <1>7 DEF add_to_mid
  <2>2. CASE n <= 0
    <3>1. next' = next /\ unused' = unused \ {i} /\ phase' = phase /\ p' = p
      BY <1>7, <2>2 DEF add_to_mid
    <3>2. unused' \in SUBSET unused
      BY <3>1
    <3>. QED
      BY <1>2, <3>1, <3>2
  <2>3. CASE ~(n <= 0)
    <3>. DEFINE k == IF n <= Len(s) THEN n ELSE Len(s)
    <3>1. LinkBehind(s[k], i)
      BY <1>7, <2>3 DEF add_to_mid
    <3>2. k \in 0..Len(s) /\ s[k] = Knot(head, s, k)
      <4>1. Len(s) > 0
        BY <2>1 DEF NodeInv
      <4>. QED
        BY <1>1, <2>3, <4>1 DEF Knot
    <3>. HIDE DEF k
    <3>. QED
      BY <1>3, <2>1, <3>1, <3>2
  <2>. QED
    BY <2>2, <2>3
<1>8. CASE CreateEnds
  <2>1. /\ phase = "create" /\ p # head /\ phase' = "ready" /\ unused' = unused
        /\ next' = [next EXCEPT ![p] = NIL] /\ p = Knot(head, s, Len(s))
    BY <1>8 DEF CreateEnds, NodeInv
  <2>2. Len(s) > 0 /\ p = s[Len(s)] /\ p \in Items
    BY <1>1, <2>1 DEF Knot
  <2>3. /\ next'[p] = NIL /\ \A c \in Items \cup {head}: c # p => next'[c] = next[c]
        /\ NodeTypes'
    BY <1>1, <2>1, <2>2 DEF NodeTypes
  <2>4. Strung(next', head, s, Items)
    <3>1. ASSUME NEW j \in 0..Len(s) - 1 PROVE next'[Knot(head, s, j)] = s[j + 1]
      <4>1. next[Knot(head, s, j)] = s[j + 1]
        BY DEF NodeInv, Strung
      <4>2. Knot(head, s, j) # p /\ Knot(head, s, j) \in Items \cup {head}
        BY <1>1, <2>2 DEF NodeInv, Strung, Uniq, Knot
      <4>. QED
        BY <2>3, <4>1, <4>2
    <3>. QED
      BY <1>1, <2>1, <2>3, <3>1 DEF NodeInv, Strung
  <2>5. Content' = s
    BY <1>1, <2>4, AlongIs DEF Content
  <2>6. \A j \in unused: j # p /\ j \in Items
    BY <1>1, <2>2 DEF NodeInv
  <2>7. NodeInv'
    <3>1. Strung(next, head, Content, Items)'
      BY <2>4, <2>5
    <3>. QED
      BY <2>1, <2>2, <2>3, <2>5, <2>6, <3>1 DEF NodeInv
  <2>. QED
    BY <2>5, <2>7 DEF ListOfHead
<1>9. CASE CreateFails
  BY <1>1, <1>2, <1>9 DEF CreateFails
<1>10. CASE UNCHANGED nodeVars
  BY <1>2, <1>10 DEF nodeVars
<1>11. Cardinality(Items) \in Nat
  BY <1>1, FS_CardinalityType
<1>12. ASSUME NEW i \in Items, add_to_list(i) PROVE Goal
  <2>1. CASE \E n \in 0..(Cardinality(Items) + 1): add_to_mid(i, n)
    BY <1>7, <1>11, <2>1
  <2>. QED
    BY <1>5, <1>6, <1>12, <2>1 DEF add_to_list
<1>13. Goal
  <2>1. CASE NodeNext
    <3>1. CASE \E i \in Items: CreateNode(i) \/ add_to_list(i)
      BY <1>4, <1>12, <3>1
    <3>. QED
      BY <1>8, <1>9, <2>1, <3>1 DEF NodeNext
  <2>. QED
    BY <1>10, <2>1
<1>. QED
  BY <1>13 DEF Goal

(* A list is created whole, ends in null, and a node is added somewhere,    *)
(* once; those that were there before keep their order.                     *)
THEOREM NodeInvariant == NodeSpec => []NodeInv
BY NodeStarts, NodeStep, PTL DEF NodeSpec

(* A call leaves the sequence of the list as it is or puts one new node     *)
(* into it, and the last node points to null.                               *)
THEOREM NodeAlwaysKeepsSequence == NodeSpec => NodeKeepsSequence
<1>1. NodeInit => NodeRules!Init
  <2>. SUFFICES ASSUME NodeInit PROVE NodeRules!Init
    OBVIOUS
  <2>. QED
    BY NodeStarts DEF NodeRules!Init, ListOfHead
<1>2. NodeInv /\ [NodeNext]_nodeVars =>
        [\E i \in Items: \E k \in 1..(Len(Content) + 1): NodeRules!PutNew(i, head, k)]_ListOfHead
  BY NodeStep
<1>3. NodeInv => EndsInNull
  <2>. SUFFICES ASSUME NodeInv, phase = "ready"
                PROVE  Content # <<>> /\ next[Last(Content)] = NIL
    BY DEF EndsInNull
  <2>. QED
    BY DEF NodeInv, Last, Strung
<1>4. NodeInv' => EndsInNull'
  BY <1>3, PTL
<1>5. NodeInv' => [EndsInNull']_nodeVars
  BY <1>4
<1>. QED
  BY <1>1, <1>2, <1>5, NodeInvariant, PTL DEF NodeSpec, NodeKeepsSequence

-----------------------------------------------------------------------------
(* HashList: the buckets as sequences.                                      *)

(* The nodes on a list are those that one comes by from the buckets, and    *)
(* the ones that pretend to be on a list.                                   *)
ChainInv ==
    /\ HashInv
    /\ \A b \in Buckets: /\ Strung(slot, b, Chains[b], Nodes)
                         /\ \A i \in 1..Len(Chains[b]): Chains[b][i] \in hashed
    /\ \A b, c \in Buckets: \A i \in 1..Len(Chains[b]), j \in 1..Len(Chains[c]):
         Chains[b][i] = Chains[c][j] => b = c
    /\ \A n \in hashed:
         hlist_fake(n) \/ \E b \in Buckets: \E i \in 1..Len(Chains[b]): Chains[b][i] = n

(* Pointers that are the same on a sequence are strung along it as before.  *)
LEMMA StrungSame ==
  ASSUME NEW nodes, NEW f, NEW g, NEW h, NEW s, Strung(f, h, s, nodes),
         \A i \in 0..Len(s): g[Knot(h, s, i)] = f[Knot(h, s, i)]
  PROVE  Strung(g, h, s, nodes)
<1>1. Len(s) \in Nat
  BY DEF Strung
<1>2. \A i \in 0..Len(s) - 1: i \in 0..Len(s)
  OBVIOUS
<1>3. Len(s) \in 0..Len(s)
  BY <1>1
<1>. QED
  BY <1>2, <1>3 DEF Strung

(* Every cell is in one place of one bucket, and pprev is the one before.   *)
LEMMA ChainFacts ==
  ASSUME ChainInv
  PROVE  /\ \A b \in Buckets:
              /\ b \notin Nodes /\ b \in Slots
              /\ Chains[b] \in Seq(Nodes) /\ Len(Chains[b]) \in Nat
              /\ \A i \in 1..Len(Chains[b]): Chains[b][i] \in Nodes /\ Chains[b][i] \in hashed
              /\ \A i, j \in 1..Len(Chains[b]): Chains[b][i] = Chains[b][j] => i = j
              /\ \A i \in 0..Len(Chains[b]):
                   /\ Knot(b, Chains[b], i) \in Buckets \cup hashed
                   /\ Knot(b, Chains[b], i) \in Slots
              /\ \A i \in 1..Len(Chains[b]): pprev[Chains[b][i]] = Knot(b, Chains[b], i - 1)
         /\ \A b, c \in Buckets: \A i \in 0..Len(Chains[b]), j \in 0..Len(Chains[c]):
              Knot(b, Chains[b], i) = Knot(c, Chains[c], j) => b = c /\ i = j
         /\ hashed \subseteq Nodes /\ Nodes \subseteq Slots /\ IsFiniteSet(Nodes)
         /\ HNULL \notin Slots /\ HPOISON \notin Slots /\ HashTypeOK
<1>1. /\ hashed \subseteq Nodes /\ Nodes \subseteq Slots /\ IsFiniteSet(Nodes)
      /\ HNULL \notin Slots /\ HPOISON \notin Slots /\ HashTypeOK /\ HashLinked
      /\ Buckets \cap Nodes = {} /\ Buckets \subseteq Slots
  BY SlotsAssumption DEF ChainInv, HashInv, HashTypeOK, Slots
<1>2. ASSUME NEW b \in Buckets
      PROVE  /\ Chains[b] \in Seq(Nodes) /\ Len(Chains[b]) \in Nat
             /\ \A i \in 1..Len(Chains[b]): Chains[b][i] \in Nodes /\ Chains[b][i] \in hashed
             /\ \A i, j \in 1..Len(Chains[b]): Chains[b][i] = Chains[b][j] => i = j
             /\ \A i \in 0..Len(Chains[b]):
                  /\ Knot(b, Chains[b], i) \in Buckets \cup hashed
                  /\ Knot(b, Chains[b], i) \in Slots
  <2>1. /\ Chains[b] \in Seq(Nodes) /\ Uniq(Chains[b])
        /\ \A i \in 1..Len(Chains[b]): Chains[b][i] \in hashed
    BY DEF ChainInv, Strung
  <2>. QED
    BY <1>1, <2>1 DEF Uniq, Knot
<1>3. ASSUME NEW b \in Buckets, NEW i \in 1..Len(Chains[b])
      PROVE  pprev[Chains[b][i]] = Knot(b, Chains[b], i - 1)
  <2>1. i - 1 \in 0..Len(Chains[b]) - 1 /\ i - 1 \in 0..Len(Chains[b]) /\ (i - 1) + 1 = i
    BY <1>2
  <2>2. slot[Knot(b, Chains[b], i - 1)] = Chains[b][(i - 1) + 1]
    BY <2>1 DEF ChainInv, Strung
  <2>3. Knot(b, Chains[b], i - 1) \in Buckets \cup hashed /\ Chains[b][i] # HNULL
    BY <1>1, <1>2, <2>1
  <2>. QED
    BY <1>1, <2>1, <2>2, <2>3 DEF HashLinked
<1>4. ASSUME NEW b \in Buckets, NEW c \in Buckets,
             NEW i \in 0..Len(Chains[b]), NEW j \in 0..Len(Chains[c]),
             Knot(b, Chains[b], i) = Knot(c, Chains[c], j)
      PROVE  b = c /\ i = j
  <2>1. CASE i = 0 \/ j = 0
    BY <1>1, <1>2, <1>4, <2>1 DEF Knot
  <2>2. CASE i # 0 /\ j # 0
    <3>1. /\ i \in 1..Len(Chains[b]) /\ j \in 1..Len(Chains[c])
          /\ Chains[b][i] = Chains[c][j]
      BY <1>2, <1>4, <2>2 DEF Knot
    <3>2. b = c
      BY <3>1 DEF ChainInv
    <3>. QED
      BY <1>2, <3>1, <3>2
  <2>. QED
    BY <2>1, <2>2
<1>5. \A b \in Buckets: b \notin Nodes /\ b \in Slots
  BY <1>1
<1>. QED
  BY <1>1, <1>2, <1>3, <1>4, <1>5

(* Whatever sequences the next pointers string together are the chains.     *)
LEMMA ChainsAre ==
  ASSUME IsFiniteSet(Nodes), NEW t, t = [b \in Buckets |-> t[b]],
         \A b \in Buckets: Strung(slot', b, t[b], Nodes)
  PROVE  Chains' = t
<1>1. \A b \in Buckets: Along(slot', b, Nodes) = t[b]
  BY AlongIs
<1>2. Chains' = [b \in Buckets |-> Along(slot', b, Nodes)]
  BY DEF Chains, Chain
<1>. QED
  BY <1>1, <1>2

(* No pointer of a chain changes.                                           *)
LEMMA ChainsUntouched ==
  ASSUME ChainInv, HashInv',
         \A b \in Buckets: \A i \in 0..Len(Chains[b]):
           slot'[Knot(b, Chains[b], i)] = slot[Knot(b, Chains[b], i)],
         \A b \in Buckets: \A i \in 1..Len(Chains[b]): Chains[b][i] \in hashed',
         \A n \in hashed': hlist_fake(n)' \/ (n \in hashed /\ ~ hlist_fake(n))
  PROVE  ChainInv' /\ Chains' = Chains
<1>1. \A b \in Buckets: Strung(slot', b, Chains[b], Nodes)
  <2>. TAKE b \in Buckets
  <2>1. Strung(slot, b, Chains[b], Nodes)
    BY DEF ChainInv
  <2>. DEFINE s == Chains[b]
              g == slot'
  <2>2. \A i \in 0..Len(s): g[Knot(b, s, i)] = slot[Knot(b, s, i)]
    OBVIOUS
  <2>. HIDE DEF g, s
  <2>3. Strung(g, b, s, Nodes)
    BY <2>1, <2>2, StrungSame DEF s
  <2>. QED
    BY <2>3 DEF g, s
<1>2. Chains' = Chains
  <2>1. Chains = [b \in Buckets |-> Chains[b]] /\ IsFiniteSet(Nodes)
    BY SlotsAssumption DEF Chains
  <2>. QED
    BY <1>1, <2>1, ChainsAre
<1>3. \A n \in hashed': hlist_fake(n)'
          \/ \E b \in Buckets: \E i \in 1..Len(Chains[b]): Chains[b][i] = n
  BY DEF ChainInv
<1>. QED
  BY <1>1, <1>2, <1>3 DEF ChainInv

(* A node that was not hashed is put behind the k-th knot of b.             *)
LEMMA HashInserted ==
  ASSUME ChainInv, HashInv', NEW n \in Nodes, n \notin hashed, hashed' = hashed \cup {n},
         NEW b \in Buckets, NEW k \in 0..Len(Chains[b]),
         slot'[Knot(b, Chains[b], k)] = n,
         slot'[n] = slot[Knot(b, Chains[b], k)],
         \A c \in Slots: c # n /\ c # Knot(b, Chains[b], k) => slot'[c] = slot[c],
         \A m \in hashed: hlist_fake(m) => hlist_fake(m)'
  PROVE  ChainInv' /\ HashPromise
<1>. DEFINE s == Chains[b]
            u == InsertAt(s, k + 1, n)
            t == [c \in Buckets |-> IF c = b THEN u ELSE Chains[c]]
            g == slot'
<1>1. /\ b \notin Nodes /\ s \in Seq(Nodes) /\ Len(s) \in Nat
      /\ \A i \in 1..Len(s): s[i] \in Nodes /\ s[i] \in hashed /\ s[i] # n
      /\ IsFiniteSet(Nodes) /\ Nodes \subseteq Slots /\ b \in Slots
      /\ Strung(slot, b, s, Nodes) /\ k \in 0..Len(s)
  BY ChainFacts DEF ChainInv
<1>2. /\ Strung(g, b, u, Nodes) /\ Len(u) = Len(s) + 1
      /\ \A i \in 1..Len(s) + 1:
           u[i] = IF i < k + 1 THEN s[i] ELSE IF i = k + 1 THEN n ELSE s[i - 1]
  <2>1. /\ g[Knot(b, s, k)] = n
        /\ k < Len(s) => g[n] = slot[Knot(b, s, k)]
        /\ k = Len(s) => g[n] \notin Nodes
        /\ \A c \in Nodes \cup {b}: c # n /\ c # Knot(b, s, k) => g[c] = slot[c]
    BY <1>1 DEF Strung
  <2>2. /\ b \notin Nodes /\ n \in Nodes /\ Strung(slot, b, s, Nodes)
        /\ k \in 0..Len(s) /\ \A i \in 1..Len(s): s[i] # n
    BY <1>1
  <2>. HIDE DEF g, s
  <2>0. LinksIn(slot, g, b, s, k, n, Nodes)
    BY ONLY <2>1, <2>2 DEF LinksIn
  <2>3. /\ Strung(g, b, InsertAt(s, k + 1, n), Nodes)
        /\ Len(InsertAt(s, k + 1, n)) = Len(s) + 1
        /\ Inserted(InsertAt(s, k + 1, n), s, k + 1, n)
    BY ONLY <2>0, StrungInsert
  <2>. QED
    BY ONLY <2>3 DEF Inserted
<1>3. Strung(g, b, u, Nodes)
  BY <1>2
<1>4. ASSUME NEW c \in Buckets, c # b PROVE Strung(g, c, Chains[c], Nodes)
  <2>1. ASSUME NEW i \in 0..Len(Chains[c])
        PROVE  g[Knot(c, Chains[c], i)] = slot[Knot(c, Chains[c], i)]
    <3>1. /\ Knot(c, Chains[c], i) \in Slots /\ Knot(c, Chains[c], i) \in Buckets \cup hashed
          /\ Knot(c, Chains[c], i) # Knot(b, Chains[b], k)
      BY <1>4, ChainFacts
    <3>2. Knot(c, Chains[c], i) # n
      BY <3>1, ChainFacts
    <3>. QED
      BY <3>1, <3>2
  <2>2. Strung(slot, c, Chains[c], Nodes)
    BY DEF ChainInv
  <2>. HIDE DEF g
  <2>. QED
    BY <2>1, <2>2, StrungSame
<1>5. Chains' = t
  <2>1. t = [c \in Buckets |-> t[c]]
    OBVIOUS
  <2>2. \A c \in Buckets: Strung(slot', c, t[c], Nodes)
    <3>. HIDE DEF u, s
    <3>. QED
      BY <1>3, <1>4
  <2>. HIDE DEF t
  <2>. QED
    BY <1>1, <2>1, <2>2, ChainsAre
<1>. HIDE DEF u
<1>6. \A i \in 1..Len(u): u[i] = n \/ (\E j \in 1..Len(s): u[i] = s[j])
  <2>. TAKE i \in 1..Len(u)
  <2>1. CASE i < k + 1
    <3>1. i \in 1..Len(s) /\ u[i] = s[i]
      BY <1>1, <1>2, <2>1
    <3>. QED
      BY <3>1
  <2>2. CASE i = k + 1
    BY <1>1, <1>2, <2>2
  <2>3. CASE i > k + 1
    <3>1. i - 1 \in 1..Len(s) /\ u[i] = s[i - 1]
      BY <1>1, <1>2, <2>3
    <3>. QED
      BY <3>1
  <2>. QED
    BY <1>1, <2>1, <2>2, <2>3
<1>7. \A j \in 1..Len(s): \E i \in 1..Len(u): u[i] = s[j]
  <2>. TAKE j \in 1..Len(s)
  <2>1. CASE j <= k
    <3>1. j \in 1..Len(u) /\ u[j] = s[j]
      BY <1>1, <1>2, <2>1
    <3>. QED
      BY <3>1
  <2>2. CASE j > k
    <3>1. j + 1 \in 1..Len(u) /\ ~(j + 1 < k + 1) /\ j + 1 # k + 1 /\ (j + 1) - 1 = j
      BY <1>1, <1>2, <2>2
    <3>2. u[j + 1] = s[j]
      BY <1>2, <3>1
    <3>. QED
      BY <3>1, <3>2
  <2>. QED
    BY <1>1, <2>1, <2>2
<1>8. k + 1 \in 1..Len(u) /\ u[k + 1] = n
  BY <1>1, <1>2
<1>9. ChainInv'
  <2>1. \A c \in Buckets: /\ Strung(slot', c, Chains'[c], Nodes)
                          /\ \A i \in 1..Len(Chains'[c]): Chains'[c][i] \in hashed'
    <3>. TAKE c \in Buckets
    <3>1. CASE c = b
      BY <1>1, <1>3, <1>5, <1>6, <3>1
    <3>2. CASE c # b
      BY <1>4, <1>5, <3>2, ChainFacts
    <3>. QED
      BY <3>1, <3>2
  <2>2. ASSUME NEW c \in Buckets, NEW d \in Buckets,
               NEW i \in 1..Len(Chains'[c]), NEW j \in 1..Len(Chains'[d]),
               Chains'[c][i] = Chains'[d][j], c # d
        PROVE  FALSE
    <3>1. ASSUME NEW a \in Buckets, NEW l \in 1..Len(Chains'[a])
          PROVE  \/ a = b /\ Chains'[a][l] = n
                 \/ \E q \in 1..Len(Chains[a]): Chains'[a][l] = Chains[a][q]
      BY <1>5, <1>6
    <3>2. \A a \in Buckets: \A q \in 1..Len(Chains[a]): Chains[a][q] # n
      BY ChainFacts
    <3>3. CASE c = b /\ Chains'[c][i] = n
      BY <2>2, <3>1, <3>2, <3>3
    <3>4. CASE d = b /\ Chains'[d][j] = n
      BY <2>2, <3>1, <3>2, <3>4, SMTT(60)
    <3>5. CASE ~(c = b /\ Chains'[c][i] = n) /\ ~(d = b /\ Chains'[d][j] = n)
      <4>1. PICK q \in 1..Len(Chains[c]): Chains'[c][i] = Chains[c][q]
        BY <3>1, <3>5
      <4>2. PICK r \in 1..Len(Chains[d]): Chains'[d][j] = Chains[d][r]
        BY <3>1, <3>5
      <4>3. \A x \in 1..Len(Chains[c]), y \in 1..Len(Chains[d]): Chains[c][x] # Chains[d][y]
        BY <2>2 DEF ChainInv
      <4>. QED
        BY <2>2, <4>1, <4>2, <4>3
    <3>. QED
      BY <3>3, <3>4, <3>5
  <2>3. \A m \in hashed': hlist_fake(m)'
            \/ \E c \in Buckets: \E i \in 1..Len(Chains'[c]): Chains'[c][i] = m
    <3>. SUFFICES ASSUME NEW m \in hashed', ~ hlist_fake(m)'
                  PROVE  \E c \in Buckets: \E i \in 1..Len(Chains'[c]): Chains'[c][i] = m
      OBVIOUS
    <3>1. CASE m = n
      BY <1>5, <1>8, <3>1
    <3>2. CASE m # n
      <4>1. PICK c \in Buckets: \E i \in 1..Len(Chains[c]): Chains[c][i] = m
        BY <3>2 DEF ChainInv
      <4>2. CASE c = b
        BY <1>5, <1>7, <4>1, <4>2
      <4>3. CASE c # b
        BY <1>5, <4>1, <4>3
      <4>. QED
        BY <4>2, <4>3
    <3>. QED
      BY <3>1, <3>2
  <2>. QED
    BY <2>1, <2>2, <2>3 DEF ChainInv
<1>10. HashRules!PutNew(n, b, k + 1)
  <2>1. \A c \in Buckets: n \notin Range(Chains[c])
    <3>. TAKE c \in Buckets
    <3>1. /\ Chains[c] \in Seq(Nodes)
          /\ \A i \in 1..Len(Chains[c]): Chains[c][i] \in hashed
      BY ChainFacts
    <3>2. DOMAIN Chains[c] = 1..Len(Chains[c])
      BY <3>1
    <3>. QED
      BY <3>1, <3>2 DEF Range
  <2>2. ~ HashRules!OnSomeList(n)
    BY <2>1 DEF HashRules!OnSomeList, HashRules!Range, Range
  <2>3. HashRules!Without(n) = Chains
    <3>1. Chains = [c \in Buckets |-> Chains[c]]
      BY DEF Chains
    <3>. QED
      BY <2>1, <3>1 DEF HashRules!Without, HashRules!Range, Range
  <2>4. InsertAt(s, k + 1, n) = HashRules!InsertAt(s, k + 1, n)
    BY DEF InsertAt, HashRules!InsertAt
  <2>5. t = [Chains EXCEPT ![b] = InsertAt(s, k + 1, n)]
    BY DEF Chains, u
  <2>6. HashRules!Put(n, b, k + 1)
    BY <1>5, <2>3, <2>4, <2>5 DEF HashRules!Put
  <2>. QED
    BY <2>2, <2>6 DEF HashRules!PutNew
<1>11. k + 1 \in 1..(Len(Chain(b)) + 1)
  BY <1>1 DEF Chains
<1>. QED
  BY <1>9, <1>10, <1>11 DEF HashPromise

(* The k-th node of b is taken out.                                         *)
LEMMA HashRemoved ==
  ASSUME ChainInv, HashInv', NEW b \in Buckets, NEW k \in 1..Len(Chains[b]),
         NEW n, n = Chains[b][k], hashed' = hashed \ {n},
         slot'[Knot(b, Chains[b], k - 1)] = slot[n],
         \A c \in Slots: c # n /\ c # Knot(b, Chains[b], k - 1) => slot'[c] = slot[c],
         \A m \in hashed: hlist_fake(m) /\ m # n => hlist_fake(m)'
  PROVE  ChainInv' /\ HashPromise
<1>. DEFINE s == Chains[b]
            u == RemoveAt(s, k)
            t == [c \in Buckets |-> IF c = b THEN u ELSE Chains[c]]
            g == slot'
<1>1. /\ b \notin Nodes /\ s \in Seq(Nodes) /\ Len(s) \in Nat
      /\ \A i \in 1..Len(s): s[i] \in Nodes /\ s[i] \in hashed
      /\ \A i, j \in 1..Len(s): s[i] = s[j] => i = j
      /\ IsFiniteSet(Nodes) /\ Nodes \subseteq Slots /\ b \in Slots
      /\ Strung(slot, b, s, Nodes) /\ k \in 1..Len(s) /\ n = s[k] /\ n \in Nodes
      /\ n = Knot(b, s, k) /\ k - 1 \in 0..Len(s) /\ k \in 0..Len(s)
  BY ChainFacts DEF ChainInv, Knot
<1>2. /\ u \in Seq(Nodes) /\ Len(u) = Len(s) - 1
      /\ \A i \in 1..Len(s) - 1: u[i] = IF i < k THEN s[i] ELSE s[i + 1]
  <2>1. k \in 1..Len(s) /\ s \in Seq(Nodes)
    BY <1>1
  <2>. HIDE DEF s
  <2>. QED
    BY ONLY <2>1, RemoveAtIs
<1>3. Strung(g, b, u, Nodes)
  <2>1. /\ g[Knot(b, s, k - 1)] = slot[s[k]]
        /\ \A c \in Nodes \cup {b}: c # s[k] /\ c # Knot(b, s, k - 1) => g[c] = slot[c]
    BY <1>1
  <2>2. b \notin Nodes /\ Strung(slot, b, s, Nodes) /\ k \in 1..Len(s)
    BY <1>1
  <2>. HIDE DEF g, s
  <2>3. LinksOut(slot, g, b, s, k, Nodes)
    BY ONLY <2>1, <2>2 DEF LinksOut
  <2>4. Strung(g, b, RemoveAt(s, k), Nodes)
    BY ONLY <2>3, StrungRemove
  <2>. QED
    BY <2>4
<1>4. ASSUME NEW c \in Buckets, c # b PROVE Strung(g, c, Chains[c], Nodes)
  <2>1. ASSUME NEW i \in 0..Len(Chains[c])
        PROVE  g[Knot(c, Chains[c], i)] = slot[Knot(c, Chains[c], i)]
    <3>1. Knot(c, Chains[c], i) \in Slots
      BY ChainFacts
    <3>2. /\ Knot(c, Chains[c], i) # Knot(b, Chains[b], k - 1)
          /\ Knot(c, Chains[c], i) # Knot(b, Chains[b], k)
      BY <1>1, <1>4, ChainFacts
    <3>. QED
      BY <1>1, <3>1, <3>2
  <2>2. Strung(slot, c, Chains[c], Nodes)
    BY DEF ChainInv
  <2>. HIDE DEF g
  <2>. QED
    BY <2>1, <2>2, StrungSame
<1>5. Chains' = t
  <2>1. t = [c \in Buckets |-> t[c]]
    OBVIOUS
  <2>2. \A c \in Buckets: Strung(slot', c, t[c], Nodes)
    <3>. HIDE DEF u, s
    <3>. QED
      BY <1>3, <1>4
  <2>. HIDE DEF t
  <2>. QED
    BY <1>1, <2>1, <2>2, ChainsAre
<1>. HIDE DEF u
<1>6. \A i \in 1..Len(u): u[i] # n /\ (\E j \in 1..Len(s): u[i] = s[j])
  <2>. TAKE i \in 1..Len(u)
  <2>1. CASE i < k
    <3>1. i \in 1..Len(s) /\ u[i] = s[i] /\ i # k
      BY <1>1, <1>2, <2>1
    <3>. QED
      BY <1>1, <3>1
  <2>2. CASE i >= k
    <3>1. i + 1 \in 1..Len(s) /\ u[i] = s[i + 1] /\ i + 1 # k
      BY <1>1, <1>2, <2>2
    <3>. QED
      BY <1>1, <3>1
  <2>3. i < k \/ i >= k
    BY <1>1, <1>2
  <2>. QED
    BY <2>1, <2>2, <2>3
<1>7. \A j \in 1..Len(s): j # k => \E i \in 1..Len(u): u[i] = s[j]
  <2>. SUFFICES ASSUME NEW j \in 1..Len(s), j # k PROVE \E i \in 1..Len(u): u[i] = s[j]
    OBVIOUS
  <2>1. CASE j < k
    <3>1. j \in 1..Len(u) /\ u[j] = s[j]
      BY <1>1, <1>2, <2>1
    <3>. QED
      BY <3>1
  <2>2. CASE j > k
    <3>1. j - 1 \in 1..Len(u) /\ ~(j - 1 < k) /\ (j - 1) + 1 = j
      BY <1>1, <1>2, <2>2
    <3>2. u[j - 1] = s[j]
      BY <1>2, <3>1
    <3>. QED
      BY <3>1, <3>2
  <2>3. j < k \/ j > k
    BY <1>1
  <2>. QED
    BY <2>1, <2>2, <2>3
<1>8. \A c \in Buckets: c # b => \A i \in 1..Len(Chains[c]): Chains[c][i] # n
  <2>. SUFFICES ASSUME NEW c \in Buckets, c # b, NEW i \in 1..Len(Chains[c]), Chains[c][i] = n
                PROVE  FALSE
    OBVIOUS
  <2>1. \A l \in 1..Len(Chains[c]), m \in 1..Len(Chains[b]):
          Chains[c][l] = Chains[b][m] => c = b
    BY DEF ChainInv
  <2>2. Chains[c][i] = Chains[b][k]
    OBVIOUS
  <2>. QED
    BY <2>1, <2>2
<1>9. ChainInv'
  <2>1. \A c \in Buckets: /\ Strung(slot', c, Chains'[c], Nodes)
                          /\ \A i \in 1..Len(Chains'[c]): Chains'[c][i] \in hashed'
    <3>. TAKE c \in Buckets
    <3>1. CASE c = b
      <4>1. Chains'[c] = u
        BY <1>5, <3>1
      <4>2. \A i \in 1..Len(u): u[i] \in hashed /\ u[i] # n
        BY <1>1, <1>6, SMTT(60)
      <4>. QED
        BY <1>3, <3>1, <4>1, <4>2
    <3>2. CASE c # b
      <4>1. Chains'[c] = Chains[c]
        BY <1>5, <3>2
      <4>2. \A i \in 1..Len(Chains[c]): Chains[c][i] \in hashed /\ Chains[c][i] # n
        BY <1>8, <3>2, ChainFacts
      <4>. QED
        BY <1>4, <3>2, <4>1, <4>2
    <3>. QED
      BY <3>1, <3>2
  <2>2. ASSUME NEW c \in Buckets, NEW d \in Buckets,
               NEW i \in 1..Len(Chains'[c]), NEW j \in 1..Len(Chains'[d]),
               Chains'[c][i] = Chains'[d][j], c # d
        PROVE  FALSE
    <3>1. ASSUME NEW a \in Buckets, NEW l \in 1..Len(Chains'[a])
          PROVE  \E q \in 1..Len(Chains[a]): Chains'[a][l] = Chains[a][q]
      BY <1>5, <1>6
    <3>2. PICK q \in 1..Len(Chains[c]): Chains'[c][i] = Chains[c][q]
      BY <3>1
    <3>3. PICK r \in 1..Len(Chains[d]): Chains'[d][j] = Chains[d][r]
      BY <3>1
    <3>4. \A x \in 1..Len(Chains[c]), y \in 1..Len(Chains[d]): Chains[c][x] # Chains[d][y]
      BY <2>2 DEF ChainInv
    <3>. QED
      BY <2>2, <3>2, <3>3, <3>4
  <2>3. \A m \in hashed': hlist_fake(m)'
            \/ \E c \in Buckets: \E i \in 1..Len(Chains'[c]): Chains'[c][i] = m
    <3>. SUFFICES ASSUME NEW m \in hashed', ~ hlist_fake(m)'
                  PROVE  \E c \in Buckets: \E i \in 1..Len(Chains'[c]): Chains'[c][i] = m
      OBVIOUS
    <3>1. PICK c \in Buckets: \E i \in 1..Len(Chains[c]): Chains[c][i] = m
      BY DEF ChainInv
    <3>2. CASE c = b
      <4>1. PICK j \in 1..Len(s): s[j] = m
        BY <3>1, <3>2
      <4>2. j # k
        BY <1>1, <4>1
      <4>. QED
        BY <1>5, <1>7, <4>1, <4>2
    <3>3. CASE c # b
      BY <1>5, <3>1, <3>3
    <3>. QED
      BY <3>2, <3>3
  <2>. QED
    BY <2>1, <2>2, <2>3 DEF ChainInv
<1>10. HashRules!TakeOut(n)
  <2>1. \A c \in Buckets: n \in Range(Chains[c]) <=> c = b
    <3>. TAKE c \in Buckets
    <3>1. Chains[c] \in Seq(Nodes)
      BY ChainFacts
    <3>2. DOMAIN Chains[c] = 1..Len(Chains[c])
      BY <3>1
    <3>3. CASE c = b
      <4>1. k \in DOMAIN Chains[c] /\ Chains[c][k] = n
        BY <3>2, <3>3
      <4>. QED
        BY <3>3, <4>1 DEF Range
    <3>4. CASE c # b
      <4>1. \A i \in DOMAIN Chains[c]: Chains[c][i] # n
        BY <1>8, <3>2, <3>4
      <4>. QED
        BY <3>4, <4>1 DEF Range
    <3>. QED
      BY <3>3, <3>4
  <2>2. HashRules!Place(n, s) = k
    <3>1. DOMAIN s = 1..Len(s)
      BY <1>1
    <3>2. \A j \in DOMAIN s: s[j] = n <=> j = k
      BY <1>1, <3>1
    <3>. HIDE DEF s
    <3>. QED
      BY <1>1, <3>1, <3>2 DEF HashRules!Place
  <2>3. RemoveAt(s, k) = HashRules!RemoveAt(s, k)
    BY DEF RemoveAt, HashRules!RemoveAt
  <2>4. HashRules!Without(n) = t
    <3>1. HashRules!Without(n) =
            [c \in Buckets |-> IF c = b THEN HashRules!RemoveAt(s, HashRules!Place(n, s))
                                       ELSE Chains[c]]
      BY <2>1 DEF HashRules!Without, HashRules!Range, Range
    <3>. QED
      BY <2>2, <2>3, <3>1 DEF u
  <2>. QED
    BY <1>5, <2>4 DEF HashRules!TakeOut
<1>. QED
  BY <1>1, <1>9, <1>10 DEF HashPromise

(* A node that pretends to be on a list is on none.                         *)
LEMMA FakesApart ==
  ASSUME ChainInv
  PROVE  /\ \A b \in Buckets: \A i \in 1..Len(Chains[b]): ~ hlist_fake(Chains[b][i])
         /\ \A c \in Buckets \cup hashed: slot[c] \in Nodes => pprev[slot[c]] = c
<1>1. \A b \in Buckets: \A i \in 1..Len(Chains[b]): ~ hlist_fake(Chains[b][i])
  <2>. TAKE b \in Buckets
  <2>. TAKE i \in 1..Len(Chains[b])
  <2>1. /\ pprev[Chains[b][i]] = Knot(b, Chains[b], i - 1)
        /\ i - 1 \in 0..Len(Chains[b]) /\ i \in 0..Len(Chains[b]) /\ i - 1 # i /\ i # 0
    BY ChainFacts
  <2>2. Chains[b][i] = Knot(b, Chains[b], i)
    BY <2>1 DEF Knot
  <2>3. Knot(b, Chains[b], i - 1) # Knot(b, Chains[b], i)
    BY <2>1, ChainFacts
  <2>. QED
    BY <2>1, <2>2, <2>3 DEF hlist_fake
<1>2. \A c \in Buckets \cup hashed: slot[c] \in Nodes => pprev[slot[c]] = c
  BY SlotsAssumption DEF ChainInv, HashInv, HashLinked, Slots
<1>. QED
  BY <1>1, <1>2

(* hlist_move_list: the chain of old becomes that of new.                   *)
LEMMA HashMoved ==
  ASSUME ChainInv, NEW old \in Buckets, NEW new \in Buckets, hlist_move_list(old, new)
  PROVE  ChainInv' /\ HashPromise
<1>. DEFINE s == Chains[old]
            t == [c \in Buckets |-> IF c = new THEN s ELSE IF c = old THEN <<>> ELSE Chains[c]]
            g == slot'
<1>1. /\ old # new /\ slot[new] = HNULL /\ hashed' = hashed
      /\ pprev' = SetPprev(pprev, slot[old], new)
      /\ g[new] = slot[old] /\ g[old] = HNULL
      /\ \A c \in Slots: c # old /\ c # new => g[c] = slot[c]
      /\ old \in Slots /\ new \in Slots /\ old \notin Nodes /\ new \notin Nodes
      /\ HNULL \notin Nodes /\ IsFiniteSet(Nodes) /\ Nodes \subseteq Slots
  BY SlotsAssumption DEF hlist_move_list, ChainInv, HashInv, HashTypeOK, Slots
<1>2. HashInv'
  BY MoveListStep DEF ChainInv
<1>3. Chains[new] = <<>>
  <2>1. Chains[new] \in Seq(Nodes) /\ Len(Chains[new]) \in Nat
    BY ChainFacts
  <2>2. Len(Chains[new]) # 0 => slot[new] \in Nodes
    <3>. SUFFICES ASSUME Len(Chains[new]) # 0 PROVE slot[new] \in Nodes
      OBVIOUS
    <3>1. 0 \in 0..Len(Chains[new]) - 1 /\ 1 \in 1..Len(Chains[new])
      BY <2>1
    <3>2. slot[Knot(new, Chains[new], 0)] = Chains[new][0 + 1]
      BY <3>1 DEF ChainInv, Strung
    <3>. QED
      BY <3>1, <3>2, ChainFacts DEF Knot
  <2>. QED
    BY <1>1, <2>1, <2>2
<1>4. Strung(g, new, s, Nodes)
  <2>1. Strung(slot, old, s, Nodes) /\ Len(s) \in Nat /\ \A i \in 1..Len(s): s[i] \in Nodes
    BY ChainFacts DEF ChainInv
  <2>2. \A i \in 0..Len(s): g[Knot(new, s, i)] = slot[Knot(old, s, i)]
    <3>. TAKE i \in 0..Len(s)
    <3>1. CASE i = 0
      BY <1>1, <3>1 DEF Knot
    <3>2. CASE i # 0
      <4>1. i \in 1..Len(s) /\ s[i] \in Nodes /\ s[i] \in Slots /\ s[i] # old /\ s[i] # new
        BY <1>1, <2>1, <3>2
      <4>. QED
        BY <1>1, <3>2, <4>1 DEF Knot
    <3>. QED
      BY <3>1, <3>2
  <2>. HIDE DEF g, s
  <2>3. (\A i \in 0..Len(s) - 1: i \in 0..Len(s)) /\ Len(s) \in 0..Len(s)
    BY <2>1
  <2>. QED
    BY <2>1, <2>2, <2>3 DEF Strung
<1>5. Strung(g, old, <<>>, Nodes)
  BY <1>1 DEF Strung, Knot, Uniq
<1>6. ASSUME NEW c \in Buckets, c # old, c # new PROVE Strung(g, c, Chains[c], Nodes)
  <2>1. ASSUME NEW i \in 0..Len(Chains[c])
        PROVE  g[Knot(c, Chains[c], i)] = slot[Knot(c, Chains[c], i)]
    <3>1. Knot(c, Chains[c], i) \in Slots
      BY ChainFacts
    <3>2. Knot(c, Chains[c], i) # old /\ Knot(c, Chains[c], i) # new
      BY <1>1, <1>6, ChainFacts DEF Knot
    <3>. QED
      BY <1>1, <3>1, <3>2
  <2>2. Strung(slot, c, Chains[c], Nodes)
    BY DEF ChainInv
  <2>. HIDE DEF g
  <2>. QED
    BY <2>1, <2>2, StrungSame
<1>7. Chains' = t
  <2>1. t = [c \in Buckets |-> t[c]]
    OBVIOUS
  <2>2. \A c \in Buckets: Strung(slot', c, t[c], Nodes)
    <3>. HIDE DEF s
    <3>. QED
      BY <1>1, <1>4, <1>5, <1>6
  <2>. HIDE DEF t
  <2>. QED
    BY <1>1, <2>1, <2>2, ChainsAre
<1>8. ChainInv'
  <2>1. \A c \in Buckets: /\ Strung(slot', c, Chains'[c], Nodes)
                          /\ \A i \in 1..Len(Chains'[c]): Chains'[c][i] \in hashed'
    <3>. TAKE c \in Buckets
    <3>1. CASE c = new
      <4>1. Chains'[c] = s
        BY <1>7, <3>1
      <4>. QED
        BY <1>1, <1>4, <3>1, <4>1 DEF ChainInv
    <3>2. CASE c = old
      <4>1. Chains'[c] = <<>>
        BY <1>1, <1>7, <3>2
      <4>. QED
        BY <1>5, <3>2, <4>1
    <3>3. CASE c # old /\ c # new
      <4>1. Chains'[c] = Chains[c]
        BY <1>7, <3>3
      <4>. QED
        BY <1>1, <1>6, <3>3, <4>1 DEF ChainInv
    <3>. QED
      BY <3>1, <3>2, <3>3
  <2>2. ASSUME NEW c \in Buckets, NEW d \in Buckets,
               NEW i \in 1..Len(Chains'[c]), NEW j \in 1..Len(Chains'[d]),
               Chains'[c][i] = Chains'[d][j], c # d
        PROVE  FALSE
    <3>. DEFINE from(a) == IF a = new THEN old ELSE a
    <3>1. ASSUME NEW a \in Buckets, Len(Chains'[a]) # 0
          PROVE  a # old /\ Chains'[a] = Chains[from(a)] /\ from(a) \in Buckets
      BY <1>1, <1>7, <3>1
    <3>2. Len(Chains'[c]) # 0 /\ Len(Chains'[d]) # 0
      OBVIOUS
    <3>3. /\ c # old /\ Chains'[c] = Chains[from(c)] /\ from(c) \in Buckets
          /\ d # old /\ Chains'[d] = Chains[from(d)] /\ from(d) \in Buckets
      BY <3>1, <3>2
    <3>4. from(c) # from(d)
      BY <2>2, <3>3
    <3>. HIDE DEF from
    <3>5. \A l \in 1..Len(Chains[from(c)]), m \in 1..Len(Chains[from(d)]):
            Chains[from(c)][l] # Chains[from(d)][m]
      BY <3>3, <3>4 DEF ChainInv
    <3>. QED
      BY <2>2, <3>3, <3>5
  <2>3. \A m \in hashed': hlist_fake(m)'
            \/ \E c \in Buckets: \E i \in 1..Len(Chains'[c]): Chains'[c][i] = m
    <3>. TAKE m \in hashed'
    <3>1. CASE hlist_fake(m)
      <4>1. m \in Nodes /\ m # slot[old]
        BY <1>1, <3>1, FakesApart DEF hlist_fake, ChainInv, HashInv, HashTypeOK
      <4>. QED
        BY <1>1, <3>1, <4>1 DEF SetPprev, hlist_fake
    <3>2. CASE ~ hlist_fake(m)
      <4>1. PICK c \in Buckets: \E i \in 1..Len(Chains[c]): Chains[c][i] = m
        BY <1>1, <3>2 DEF ChainInv
      <4>2. c # new
        BY <1>3, <4>1
      <4>3. CASE c = old
        <5>1. Chains'[new] = Chains[c]
          BY <1>7, <4>3
        <5>. QED
          BY <4>1, <5>1
      <4>4. CASE c # old
        <5>1. Chains'[c] = Chains[c]
          BY <1>7, <4>2, <4>4
        <5>. QED
          BY <4>1, <5>1
      <4>. QED
        BY <4>3, <4>4
    <3>. QED
      BY <3>1, <3>2
  <2>. QED
    BY <1>2, <2>1, <2>2, <2>3 DEF ChainInv
<1>9. HashRules!JoinFirst(old, new)
  <2>1. Chains[old] \o Chains[new] = Chains[old]
    <3>1. s \in Seq(Nodes)
      BY ChainFacts
    <3>. HIDE DEF s
    <3>2. s \o <<>> = s
      BY <3>1
    <3>. QED
      BY <1>3, <3>2 DEF s
  <2>2. Chains = [c \in Buckets |-> Chains[c]]
    BY DEF Chains
  <2>3. [Chains EXCEPT ![new] = Chains[old] \o Chains[new], ![old] = <<>>] = t
    BY <1>1, <2>1, <2>2
  <2>. QED
    BY <1>7, <2>3 DEF HashRules!JoinFirst
<1>. QED
  <2>1. Chain(new) = <<>>
    BY <1>3 DEF Chains
  <2>. QED
    BY <1>8, <1>9, <2>1 DEF HashPromise

(* hlist_del and hlist_del_init: from a bucket, or from nowhere.            *)
LEMMA HashBypassed ==
  ASSUME ChainInv, NEW n \in hashed, NEW back \in {HNULL, HPOISON}, Bypass(n, back, back)
  PROVE  ChainInv' /\ (HashPromise \/ Chains' = Chains)
<1>1. /\ n \in Nodes /\ n \in Slots /\ hashed \subseteq Nodes /\ hashed' = hashed \ {n}
      /\ slot' = [slot EXCEPT ![pprev[n]] = slot[n], ![n] = back]
      /\ pprev' = [SetPprev(pprev, slot[n], pprev[n]) EXCEPT ![n] = back]
      /\ slot \in [Slots -> Nodes \cup {HNULL, HPOISON}]
      /\ pprev \in [Nodes -> Slots \cup {HNULL, HPOISON}]
  BY ChainFacts DEF Bypass, HashTypeOK
<1>2. HashInv'
  BY BypassStep DEF ChainInv
<1>3. \A m \in hashed: hlist_fake(m) /\ m # n => hlist_fake(m)'
  <2>. SUFFICES ASSUME NEW m \in hashed, hlist_fake(m), m # n PROVE hlist_fake(m)'
    OBVIOUS
  <2>1. m \in Nodes /\ m # slot[n]
    BY <1>1, FakesApart DEF hlist_fake
  <2>. QED
    BY <1>1, <2>1 DEF SetPprev, hlist_fake
<1>4. CASE hlist_fake(n)
  <2>1. \A b \in Buckets: \A i \in 1..Len(Chains[b]): Chains[b][i] # n
    BY <1>4, FakesApart
  <2>2. \A b \in Buckets: \A i \in 0..Len(Chains[b]):
          slot'[Knot(b, Chains[b], i)] = slot[Knot(b, Chains[b], i)]
    <3>. TAKE b \in Buckets
    <3>. TAKE i \in 0..Len(Chains[b])
    <3>1. Knot(b, Chains[b], i) \in Slots /\ Knot(b, Chains[b], i) # n
      BY <1>1, <2>1, ChainFacts DEF Knot
    <3>. QED
      BY <1>1, <1>4, <3>1 DEF hlist_fake
  <2>3. \A b \in Buckets: \A i \in 1..Len(Chains[b]): Chains[b][i] \in hashed'
    BY <1>1, <2>1, ChainFacts
  <2>4. \A m \in hashed': hlist_fake(m)' \/ (m \in hashed /\ ~ hlist_fake(m))
    BY <1>1, <1>3
  <2>. QED
    BY <1>2, <2>2, <2>3, <2>4, ChainsUntouched
<1>5. CASE ~ hlist_fake(n)
  <2>1. PICK b \in Buckets: \E i \in 1..Len(Chains[b]): Chains[b][i] = n
    BY <1>5 DEF ChainInv
  <2>2. PICK k \in 1..Len(Chains[b]): Chains[b][k] = n
    BY <2>1
  <2>3. pprev[n] = Knot(b, Chains[b], k - 1) /\ k - 1 \in 0..Len(Chains[b])
    BY <2>2, ChainFacts
  <2>4. Knot(b, Chains[b], k - 1) \in Slots /\ Knot(b, Chains[b], k - 1) # n
    BY <1>5, <2>3, ChainFacts DEF hlist_fake
  <2>5. /\ slot'[Knot(b, Chains[b], k - 1)] = slot[n]
        /\ \A c \in Slots: c # n /\ c # Knot(b, Chains[b], k - 1) => slot'[c] = slot[c]
    BY <1>1, <2>3, <2>4
  <2>6. n = Chains[b][k] /\ hashed' = hashed \ {n}
    BY <1>1, <2>2
  <2>7. /\ slot'[Knot(b, Chains[b], k - 1)] = slot[n]
        /\ \A c \in Slots: c # n /\ c # Knot(b, Chains[b], k - 1) => slot'[c] = slot[c]
        /\ \A m \in hashed: hlist_fake(m) /\ m # n => hlist_fake(m)'
    BY <1>3, <2>5
  <2>8. ChainInv' /\ HashPromise
    BY ONLY ChainInv, <1>2, b \in Buckets, k \in 1..Len(Chains[b]), <2>6, <2>7, HashRemoved
  <2>. QED
    BY <2>8
<1>. QED
  BY <1>4, <1>5

(* The three operations that add a node.                                    *)
LEMMA HashAdded ==
  ASSUME ChainInv, HashInv', NEW n \in Nodes, Loose(n), hashed' = hashed \cup {n},
         NEW b \in Buckets, NEW k \in 0..Len(Chains[b]),
         slot' = [slot EXCEPT ![n] = slot[Knot(b, Chains[b], k)],
                              ![Knot(b, Chains[b], k)] = n],
         \A e \in hashed: hlist_fake(e) => pprev'[e] = pprev[e]
  PROVE  ChainInv' /\ HashPromise
<1>1. /\ n \notin hashed /\ hashed \subseteq Nodes /\ n \in Slots
      /\ slot \in [Slots -> Nodes \cup {HNULL, HPOISON}]
  BY ChainFacts DEF Loose, HashTypeOK
<1>2. Knot(b, Chains[b], k) \in Slots /\ Knot(b, Chains[b], k) # n
  BY <1>1, ChainFacts
<1>3. /\ slot'[Knot(b, Chains[b], k)] = n
      /\ slot'[n] = slot[Knot(b, Chains[b], k)]
      /\ \A c \in Slots: c # n /\ c # Knot(b, Chains[b], k) => slot'[c] = slot[c]
  BY <1>1, <1>2
<1>4. \A e \in hashed: hlist_fake(e) => hlist_fake(e)'
  BY <1>1 DEF hlist_fake
<1>. QED
  BY <1>1, <1>3, <1>4, HashInserted

LEMMA HashAddHead ==
  ASSUME ChainInv, NEW n \in Nodes, NEW h \in Buckets, hlist_add_head(n, h)
  PROVE  ChainInv' /\ HashPromise
<1>1. HashInv'
  BY AddHeadStep DEF ChainInv
<1>2. /\ n \in Nodes /\ h \in Slots /\ h \notin Nodes /\ 0 \in 0..Len(Chains[h])
      /\ h = Knot(h, Chains[h], 0) /\ pprev \in [Nodes -> Slots \cup {HNULL, HPOISON}]
      /\ HNULL \notin Nodes
  BY ChainFacts, SlotsAssumption DEF Knot, HashTypeOK, Slots
<1>3. ~ (slot[h] \in hashed /\ hlist_fake(slot[h]))
  BY <1>2, ChainFacts, FakesApart DEF hlist_fake
<1>4. \A e \in hashed: hlist_fake(e) => pprev'[e] = pprev[e]
  BY <1>2, <1>3, ChainFacts DEF hlist_add_head, SetPprev, Loose
<1>5. slot' = [slot EXCEPT ![n] = slot[Knot(h, Chains[h], 0)], ![Knot(h, Chains[h], 0)] = n]
  BY <1>2 DEF hlist_add_head
<1>6. Loose(n) /\ hashed' = hashed \cup {n}
  BY DEF hlist_add_head
<1>7. 0 \in 0..Len(Chains[h])
  BY <1>2
<1>. QED
  BY ONLY ChainInv, n \in Nodes, h \in Buckets, <1>1, <1>4, <1>5, <1>6, <1>7, HashAdded

(* Where a node is that other code found on a list.                         *)
LEMMA HashPlace ==
  ASSUME ChainInv, NEW n \in hashed, ~ hlist_fake(n)
  PROVE  \E b \in Buckets: \E k \in 1..Len(Chains[b]):
           /\ k \in 0..Len(Chains[b]) /\ Knot(b, Chains[b], k) = n
           /\ k - 1 \in 0..Len(Chains[b]) /\ Knot(b, Chains[b], k - 1) = pprev[n]
           /\ slot[pprev[n]] = n
<1>1. PICK b \in Buckets: \E i \in 1..Len(Chains[b]): Chains[b][i] = n
  BY DEF ChainInv
<1>2. PICK k \in 1..Len(Chains[b]): Chains[b][k] = n
  BY <1>1
<1>3. /\ pprev[n] = Knot(b, Chains[b], k - 1) /\ k - 1 \in 0..Len(Chains[b])
      /\ k \in 0..Len(Chains[b]) /\ k # 0
  BY <1>2, ChainFacts
<1>4. slot[pprev[n]] = n
  BY DEF ChainInv, HashInv, HashLinked
<1>. QED
  BY <1>2, <1>3, <1>4 DEF Knot

LEMMA HashAddBefore ==
  ASSUME ChainInv, NEW n \in Nodes, NEW succ \in Nodes, hlist_add_before(n, succ)
  PROVE  ChainInv' /\ HashPromise
<1>1. HashInv'
  BY AddBeforeStep DEF ChainInv
<1>2. succ \in hashed /\ ~ hlist_fake(succ) /\ Loose(n) /\ hashed' = hashed \cup {n}
  BY DEF hlist_add_before
<1>3. PICK b \in Buckets: \E k \in 1..Len(Chains[b]):
        /\ k - 1 \in 0..Len(Chains[b]) /\ Knot(b, Chains[b], k - 1) = pprev[succ]
        /\ slot[pprev[succ]] = succ
  BY <1>2, HashPlace
<1>4. PICK k \in 0..Len(Chains[b]): Knot(b, Chains[b], k) = pprev[succ]
                                    /\ slot[pprev[succ]] = succ
  BY <1>3
<1>5. \A e \in hashed: hlist_fake(e) => pprev'[e] = pprev[e]
  BY <1>2, ChainFacts DEF hlist_add_before, HashTypeOK, Loose
<1>6. slot' = [slot EXCEPT ![n] = slot[Knot(b, Chains[b], k)], ![Knot(b, Chains[b], k)] = n]
  BY <1>4 DEF hlist_add_before
<1>. QED
  BY <1>1, <1>2, <1>5, <1>6, HashAdded

LEMMA HashAddBehind ==
  ASSUME ChainInv, NEW n \in Nodes, NEW prev \in Nodes, hlist_add_behind(n, prev)
  PROVE  ChainInv' /\ HashPromise
<1>1. HashInv'
  BY AddBehindStep DEF ChainInv
<1>2. prev \in hashed /\ ~ hlist_fake(prev) /\ Loose(n) /\ hashed' = hashed \cup {n}
  BY DEF hlist_add_behind
<1>3. PICK b \in Buckets: \E k \in 1..Len(Chains[b]):
        k \in 0..Len(Chains[b]) /\ Knot(b, Chains[b], k) = prev
  BY <1>2, HashPlace
<1>4. PICK k \in 0..Len(Chains[b]): Knot(b, Chains[b], k) = prev
  BY <1>3
<1>5. prev # n
  BY <1>2 DEF Loose
<1>6. ~ (slot[prev] \in hashed /\ hlist_fake(slot[prev]))
  <2>. SUFFICES ASSUME slot[prev] \in hashed, hlist_fake(slot[prev]) PROVE FALSE
    OBVIOUS
  <2>1. slot[prev] \in Nodes /\ pprev[slot[prev]] = prev
    BY <1>2, ChainFacts, FakesApart
  <2>. QED
    BY <1>2, <2>1 DEF hlist_fake
<1>7. \A e \in hashed: hlist_fake(e) => pprev'[e] = pprev[e]
  BY <1>6, ChainFacts DEF hlist_add_behind, SetPprev, HashTypeOK, Loose
<1>8. slot' = [slot EXCEPT ![n] = slot[Knot(b, Chains[b], k)], ![Knot(b, Chains[b], k)] = n]
  BY <1>4 DEF hlist_add_behind
<1>9. Loose(n) /\ hashed' = hashed \cup {n} /\ k \in 0..Len(Chains[b])
  BY <1>2
<1>. QED
  BY ONLY ChainInv, n \in Nodes, b \in Buckets, <1>1, <1>7, <1>8, <1>9, HashAdded

(* The two operations on a node that is on no list.                         *)
LEMMA HashInitNode ==
  ASSUME ChainInv, NEW n \in Nodes, INIT_HLIST_NODE(n) \/ hlist_add_fake(n)
  PROVE  ChainInv' /\ Chains' = Chains
<1>1. HashInv'
  BY InitNodeStep, FakeStep DEF ChainInv
<1>2. /\ n \notin hashed /\ n \in Slots /\ hashed \subseteq Nodes /\ hashed \subseteq hashed'
      /\ \A m \in hashed': m \in hashed \/ hlist_fake(m)'
      /\ \A m \in Nodes: m # n => pprev'[m] = pprev[m]
      /\ \A c \in Slots: c # n => slot'[c] = slot[c]
  <2>1. /\ HashTypeOK /\ hashed \subseteq Nodes /\ Nodes \subseteq Slots
        /\ pprev[n] = HNULL => n \notin hashed
    BY ChainFacts DEF ChainInv, HashInv, HashLinked
  <2>2. CASE INIT_HLIST_NODE(n)
    BY <2>1, <2>2 DEF INIT_HLIST_NODE, Loose, HashTypeOK
  <2>3. CASE hlist_add_fake(n)
    BY <2>1, <2>3 DEF hlist_add_fake, hlist_unhashed, HashTypeOK, hlist_fake
  <2>. QED
    BY <2>2, <2>3
<1>3. \A b \in Buckets: \A i \in 0..Len(Chains[b]):
        slot'[Knot(b, Chains[b], i)] = slot[Knot(b, Chains[b], i)]
  <2>. TAKE b \in Buckets
  <2>. TAKE i \in 0..Len(Chains[b])
  <2>1. /\ Knot(b, Chains[b], i) \in Slots /\ Knot(b, Chains[b], i) \in Buckets \cup hashed
        /\ n \notin Buckets
    BY ChainFacts
  <2>. QED
    BY <1>2, <2>1
<1>4. \A b \in Buckets: \A i \in 1..Len(Chains[b]): Chains[b][i] \in hashed'
  BY <1>2, ChainFacts
<1>5. \A m \in hashed': hlist_fake(m)' \/ (m \in hashed /\ ~ hlist_fake(m))
  BY <1>2 DEF hlist_fake
<1>. QED
  BY <1>1, <1>3, <1>4, <1>5, ChainsUntouched

(* The buckets are empty at first.                                          *)
LEMMA HashStarts ==
  ASSUME HashInit
  PROVE  ChainInv /\ HashRules!Init
<1>1. HashInv
  BY SlotsAssumption
     DEF HashInit, HashInv, HashTypeOK, HashLinked, Slots, hlist_fake, hlist_unhashed
<1>2. \A b \in Buckets: Strung(slot, b, <<>>, Nodes)
  BY SlotsAssumption DEF HashInit, Strung, Knot, Uniq, Slots
<1>3. \A b \in Buckets: Chains[b] = <<>>
  <2>. TAKE b \in Buckets
  <2>1. Along(slot, b, Nodes) = <<>>
    BY <1>2, SlotsAssumption, AlongIs
  <2>. QED
    BY <2>1 DEF Chains, Chain
<1>4. Chains = [b \in Buckets |-> <<>>]
  BY <1>3 DEF Chains
<1>. QED
  BY <1>1, <1>2, <1>3, <1>4 DEF ChainInv, HashInit, HashRules!Init

LEMMA HashStep ==
  ASSUME ChainInv, [HashNext]_hashVars
  PROVE  ChainInv' /\ [HashPromise]_Chains
<1>1. CASE UNCHANGED hashVars
  BY <1>1 DEF hashVars, ChainInv, HashInv, HashTypeOK, HashLinked, hlist_fake, hlist_unhashed,
              Chains, Chain
<1>2. ASSUME NEW n \in Nodes, hlist_del(n) \/ hlist_del_init(n)
      PROVE  ChainInv' /\ [HashPromise]_Chains
  <2>1. n \in hashed \/ UNCHANGED hashVars
    BY <1>2 DEF hlist_del, hlist_del_init, ChainInv, HashInv, HashTypeOK, HashLinked,
                hlist_unhashed
  <2>2. CASE n \in hashed /\ ~ UNCHANGED hashVars
    <3>1. \E back \in {HNULL, HPOISON}: Bypass(n, back, back)
      BY <1>2, <2>2 DEF hlist_del, hlist_del_init
    <3>. QED
      BY <2>2, <3>1, HashBypassed
  <2>. QED
    BY <1>1, <2>1, <2>2
<1>3. ASSUME NEW n \in Nodes, INIT_HLIST_NODE(n) \/ hlist_add_fake(n)
      PROVE  ChainInv' /\ [HashPromise]_Chains
  BY <1>3, HashInitNode
<1>. QED
  BY <1>1, <1>2, <1>3, HashAddHead, HashAddBefore, HashAddBehind, HashMoved DEF HashNext

(* The nodes of every bucket are one chain without repetition, and every    *)
(* node that is on a list is on one chain, or its own predecessor.          *)
THEOREM HashChainInvariant == HashSpec => []ChainInv
BY HashStarts, HashStep, PTL DEF HashSpec

(* Every operation of hlist puts one node somewhere on a bucket, takes one  *)
(* out, or moves a whole bucket to an empty one, in its order.              *)
THEOREM HashAlwaysKeepsSequences == HashSpec => HashKeepsSequences
<1>1. HashInit => HashRules!Init
  BY HashStarts
<1>2. ChainInv /\ [HashNext]_hashVars => [HashPromise]_Chains
  BY HashStep
<1>. QED
  BY <1>1, <1>2, HashChainInvariant, PTL DEF HashSpec, HashKeepsSequences

(* hlist and the exercise's own list: sequences to their callers.           *)
THEOREM ChainsAlwaysKeepSequences == HashSpec /\ NodeSpec => ChainsKeepSequences
BY HashAlwaysKeepsSequences, NodeAlwaysKeepsSequence DEF ChainsKeepSequences

-----------------------------------------------------------------------------
(* A ring that is followed through f, and through b the other way round.    *)
Round(f, b, h, s, n) ==
    \A i \in 0..n: /\ f[Spot(h, s, n, i)] = Spot(h, s, n, i + 1)
                   /\ b[Spot(h, s, n, i + 1)] = Spot(h, s, n, i)

Distinct(h, s, n) ==
    \A i \in 1..n: s[i] # h /\ \A k \in 1..n: s[i] = s[k] => i = k

RingCells(h, s, n) == {h} \cup {s[i]: i \in 1..n}

(* Every spot is a cell of the ring, and only the head is in two of them.   *)
LEMMA SpotFacts ==
  ASSUME NEW n \in Nat, NEW h, NEW s, Distinct(h, s, n)
  PROVE  /\ \A i \in 0..n + 1: Spot(h, s, n, i) \in RingCells(h, s, n)
         /\ \A i \in 0..n + 1, k \in 1..n: Spot(h, s, n, i) = s[k] => i = k
         /\ \A k \in 1..n: Spot(h, s, n, k) = s[k]
         /\ Spot(h, s, n, 0) = h /\ Spot(h, s, n, n + 1) = h
         /\ \A c \in RingCells(h, s, n): \E i \in 0..n: Spot(h, s, n, i) = c
         /\ \A c \in RingCells(h, s, n): \E i \in 0..n: Spot(h, s, n, i + 1) = c
<1>1. \A i \in 0..n + 1: i \in 1..n \/ i = 0 \/ i = n + 1
  OBVIOUS
<1>2. \A k \in 1..n: Spot(h, s, n, k) = s[k]
  BY DEF Spot
<1>3. Spot(h, s, n, 0) = h /\ Spot(h, s, n, n + 1) = h
  BY DEF Spot
<1>4. \A i \in 0..n + 1: Spot(h, s, n, i) \in RingCells(h, s, n)
  BY <1>1, <1>2, <1>3 DEF RingCells
<1>5. \A i \in 0..n + 1, k \in 1..n: Spot(h, s, n, i) = s[k] => i = k
  BY <1>1, <1>2, <1>3 DEF Distinct
<1>6. ASSUME NEW c \in RingCells(h, s, n)
      PROVE  /\ \E i \in 0..n: Spot(h, s, n, i) = c
             /\ \E i \in 0..n: Spot(h, s, n, i + 1) = c
  <2>1. CASE c = h
    <3>1. 0 \in 0..n /\ n \in 0..n
      OBVIOUS
    <3>. QED
      BY <1>3, <2>1, <3>1
  <2>2. CASE c # h
    <3>1. PICK k \in 1..n: c = s[k]
      BY <2>2 DEF RingCells
    <3>2. k \in 0..n /\ k - 1 \in 0..n /\ (k - 1) + 1 = k
      OBVIOUS
    <3>. QED
      BY <1>2, <3>1, <3>2
  <2>. QED
    BY <2>1, <2>2
<1>. QED
  BY <1>2, <1>3, <1>4, <1>5, <1>6

(* On the ring the two directions are inverse to each other.                *)
LEMMA RoundInverse ==
  ASSUME NEW n \in Nat, NEW h, NEW s, Distinct(h, s, n), NEW f, NEW b, Round(f, b, h, s, n)
  PROVE  \A c \in RingCells(h, s, n):
           /\ f[c] \in RingCells(h, s, n) /\ b[f[c]] = c
           /\ b[c] \in RingCells(h, s, n) /\ f[b[c]] = c
<1>. TAKE c \in RingCells(h, s, n)
<1>1. PICK i \in 0..n: Spot(h, s, n, i) = c
  BY SpotFacts
<1>2. PICK k \in 0..n: Spot(h, s, n, k + 1) = c
  BY SpotFacts
<1>3. i + 1 \in 0..n + 1 /\ k \in 0..n + 1
  OBVIOUS
<1>4. f[c] = Spot(h, s, n, i + 1) /\ b[f[c]] = c
  BY <1>1 DEF Round
<1>5. b[c] = Spot(h, s, n, k) /\ f[b[c]] = c
  BY <1>2 DEF Round
<1>. QED
  BY <1>3, <1>4, <1>5, SpotFacts

(* Pointers that are the same on a ring go round it as before.              *)
LEMMA RoundSame ==
  ASSUME NEW n \in Nat, NEW h, NEW s, Distinct(h, s, n), NEW f, NEW b, Round(f, b, h, s, n),
         NEW f2, NEW b2, \A c \in RingCells(h, s, n): f2[c] = f[c] /\ b2[c] = b[c]
  PROVE  Round(f2, b2, h, s, n)
<1>. SUFFICES ASSUME NEW i \in 0..n
              PROVE  /\ f2[Spot(h, s, n, i)] = Spot(h, s, n, i + 1)
                     /\ b2[Spot(h, s, n, i + 1)] = Spot(h, s, n, i)
  BY DEF Round
<1>1. i \in 0..n + 1 /\ i + 1 \in 0..n + 1
  OBVIOUS
<1>. QED
  BY <1>1, SpotFacts DEF Round

(* What a function of pointers is without q, and with q replaced.           *)
Skips(f, f2, h, s, n, q) ==
    \A c \in RingCells(h, s, n) \ {q}: f2[c] = IF f[c] = q THEN f[q] ELSE f[c]

(* The j-th member is taken out of the ring.                                *)
LEMMA RoundOut ==
  ASSUME NEW n \in Nat, NEW h, NEW s, Distinct(h, s, n), NEW f, NEW b, Round(f, b, h, s, n),
         NEW j \in 1..n, NEW q, q = s[j], NEW f2, NEW b2,
         Skips(f, f2, h, s, n, q), Skips(b, b2, h, s, n, q),
         NEW s2, \A i \in 1..n - 1: s2[i] = IF i < j THEN s[i] ELSE s[i + 1]
  PROVE  Round(f2, b2, h, s2, n - 1) /\ Distinct(h, s2, n - 1)
<1>. DEFINE at(i) == Spot(h, s, n, i)
            at2(i) == Spot(h, s2, n - 1, i)
<1>1. \A i \in 0..n: at2(i) = IF i < j THEN at(i) ELSE at(i + 1)
  BY DEF Spot
<1>2. /\ \A i \in 0..n + 1: at(i) \in RingCells(h, s, n)
      /\ \A i \in 0..n + 1: at(i) = q => i = j
      /\ at(j) = q
  BY SpotFacts
<1>3. \A i \in 0..n: f[at(i)] = at(i + 1) /\ b[at(i + 1)] = at(i)
  BY DEF Round
<1>. HIDE DEF at, at2
<1>4. \A i \in 0..n: i + 1 # j /\ i # j => f2[at(i)] = at(i + 1)
  <2>. SUFFICES ASSUME NEW i \in 0..n, i + 1 # j, i # j PROVE f2[at(i)] = at(i + 1)
    OBVIOUS
  <2>1. i \in 0..n + 1 /\ i + 1 \in 0..n + 1
    OBVIOUS
  <2>2. at(i) \in RingCells(h, s, n) \ {q} /\ f[at(i)] = at(i + 1) /\ at(i + 1) # q
    BY <1>2, <1>3, <2>1
  <2>. QED
    BY <2>2 DEF Skips
<1>5. \A i \in 0..n: i + 1 # j /\ i # j => b2[at(i + 1)] = at(i)
  <2>. SUFFICES ASSUME NEW i \in 0..n, i + 1 # j, i # j PROVE b2[at(i + 1)] = at(i)
    OBVIOUS
  <2>1. i \in 0..n + 1 /\ i + 1 \in 0..n + 1
    OBVIOUS
  <2>2. at(i + 1) \in RingCells(h, s, n) \ {q} /\ b[at(i + 1)] = at(i) /\ at(i) # q
    BY <1>2, <1>3, <2>1
  <2>. QED
    BY <2>2 DEF Skips
<1>6. f2[at(j - 1)] = at(j + 1) /\ b2[at(j + 1)] = at(j - 1)
  <2>1. /\ j - 1 \in 0..n + 1 /\ j + 1 \in 0..n + 1 /\ j - 1 # j /\ j + 1 # j
        /\ j - 1 \in 0..n /\ j \in 0..n /\ (j - 1) + 1 = j
    OBVIOUS
  <2>2. /\ at(j - 1) \in RingCells(h, s, n) \ {q} /\ at(j + 1) \in RingCells(h, s, n) \ {q}
    BY <1>2, <2>1
  <2>3. f[at(j - 1)] = q /\ f[q] = at(j + 1) /\ b[at(j + 1)] = q /\ b[q] = at(j - 1)
    BY <1>2, <1>3, <2>1
  <2>. QED
    BY <2>2, <2>3 DEF Skips
<1>7. ASSUME NEW i \in 0..n - 1
      PROVE  f2[at2(i)] = at2(i + 1) /\ b2[at2(i + 1)] = at2(i)
  <2>1. i \in 0..n /\ i + 1 \in 0..n
    OBVIOUS
  <2>2. CASE i + 1 < j
    BY <1>1, <1>4, <1>5, <2>1, <2>2
  <2>3. CASE i + 1 = j
    <3>1. at2(i) = at(j - 1) /\ at2(i + 1) = at(j + 1)
      <4>1. i = j - 1 /\ i < j /\ ~(i + 1 < j) /\ (i + 1) + 1 = j + 1
        BY <2>3
      <4>. QED
        BY <1>1, <2>1, <4>1
    <3>. QED
      BY <1>6, <3>1
  <2>4. CASE i + 1 > j
    <3>1. at2(i) = at(i + 1) /\ at2(i + 1) = at((i + 1) + 1)
      BY <1>1, <2>1, <2>4
    <3>2. (i + 1) + 1 # j /\ i + 1 # j
      BY <2>4
    <3>. QED
      BY <1>4, <1>5, <2>1, <3>1, <3>2
  <2>5. i + 1 < j \/ i + 1 = j \/ i + 1 > j
    OBVIOUS
  <2>. QED
    BY <2>2, <2>3, <2>4, <2>5
<1>8. Round(f2, b2, h, s2, n - 1)
  BY <1>7 DEF Round, at2
<1>9. Distinct(h, s2, n - 1)
  <2>1. \A i \in 1..n - 1: \E k \in 1..n: s2[i] = s[k] /\ k = IF i < j THEN i ELSE i + 1
    OBVIOUS
  <2>. QED
    BY <2>1 DEF Distinct
<1>. QED
  BY <1>8, <1>9

(* The j-th member of the ring becomes e.                                   *)
Stands(f, f2, h, s, n, q, e) ==
    /\ f2[e] = f[q]
    /\ \A c \in RingCells(h, s, n) \ {q}: f2[c] = IF f[c] = q THEN e ELSE f[c]

(* A cell from outside takes the place of the j-th member.                  *)
LEMMA RoundSwap ==
  ASSUME NEW n \in Nat, NEW h, NEW s, Distinct(h, s, n), NEW f, NEW b, Round(f, b, h, s, n),
         NEW j \in 1..n, NEW q, q = s[j], NEW f2, NEW b2, NEW e, e \notin RingCells(h, s, n),
         Stands(f, f2, h, s, n, q, e), Stands(b, b2, h, s, n, q, e),
         NEW s2, \A i \in 1..n: s2[i] = IF i = j THEN e ELSE s[i]
  PROVE  Round(f2, b2, h, s2, n) /\ Distinct(h, s2, n)
<1>. DEFINE at(i) == Spot(h, s, n, i)
            at2(i) == Spot(h, s2, n, i)
<1>1. \A i \in 0..n + 1: at2(i) = IF i = j THEN e ELSE at(i)
  BY DEF Spot
<1>2. /\ \A i \in 0..n + 1: at(i) \in RingCells(h, s, n)
      /\ \A i \in 0..n + 1: at(i) = q => i = j
      /\ at(j) = q
  BY SpotFacts
<1>3. \A i \in 0..n: f[at(i)] = at(i + 1) /\ b[at(i + 1)] = at(i)
  BY DEF Round
<1>. HIDE DEF at, at2
<1>4. ASSUME NEW i \in 0..n
      PROVE  f2[at2(i)] = at2(i + 1) /\ b2[at2(i + 1)] = at2(i)
  <2>1. i \in 0..n + 1 /\ i + 1 \in 0..n + 1
    OBVIOUS
  <2>2. CASE i # j /\ i + 1 # j
    <3>1. at2(i) = at(i) /\ at2(i + 1) = at(i + 1)
      BY <1>1, <2>1, <2>2
    <3>2. at(i) \in RingCells(h, s, n) \ {q} /\ at(i + 1) \in RingCells(h, s, n) \ {q}
      BY <1>2, <2>1, <2>2
    <3>. QED
      BY <1>3, <3>1, <3>2 DEF Stands
  <2>3. CASE i = j
    <3>1. at2(i) = e /\ at2(i + 1) = at(i + 1) /\ i + 1 # j
      BY <1>1, <2>1, <2>3
    <3>2. at(i) = q /\ at(i + 1) \in RingCells(h, s, n) \ {q}
      BY <1>2, <2>1, <2>3, <3>1
    <3>. QED
      BY <1>3, <3>1, <3>2 DEF Stands
  <2>4. CASE i + 1 = j
    <3>1. at2(i + 1) = e /\ at2(i) = at(i) /\ i # j
      BY <1>1, <2>1, <2>4
    <3>2. at(i + 1) = q /\ at(i) \in RingCells(h, s, n) \ {q}
      BY <1>2, <2>1, <2>4, <3>1
    <3>. QED
      BY <1>3, <3>1, <3>2 DEF Stands
  <2>. QED
    BY <2>2, <2>3, <2>4
<1>5. Round(f2, b2, h, s2, n)
  BY <1>4 DEF Round, at2
<1>6. Distinct(h, s2, n)
  BY DEF Distinct, RingCells
<1>. QED
  BY <1>5, <1>6

(* The cells of cs are linked among each other both ways.                   *)
Closed(m, cs) ==
    \A c \in cs: /\ m.next[c] \in cs /\ m.prev[m.next[c]] = c
                 /\ m.prev[c] \in cs /\ m.next[m.prev[c]] = c

(* What two stores of __list_del and two more for q do together.            *)
LEMMA UnlinkStores ==
  ASSUME NEW m \in Memories, NEW cs \in SUBSET Cells, Closed(m, cs),
         NEW q \in cs, m.next[q] # q
  PROVE  /\ list_del_entry(m, q) \in Memories
         /\ \A d \in Cells:
              /\ list_del_entry(m, q).next[d] = IF d = m.prev[q] THEN m.next[q] ELSE m.next[d]
              /\ list_del_entry(m, q).prev[d] = IF d = m.next[q] THEN m.prev[q] ELSE m.prev[d]
         /\ m.prev[q] \in cs \ {q} /\ m.next[q] \in cs \ {q}
         /\ \A c \in cs \ {q}:
              /\ list_del_entry(m, q).next[c] = IF m.next[c] = q THEN m.next[q] ELSE m.next[c]
              /\ list_del_entry(m, q).prev[c] = IF m.prev[c] = q THEN m.prev[q] ELSE m.prev[c]
<1>1. m.prev[q] \in cs \ {q} /\ m.next[q] \in cs \ {q}
  BY DEF Closed
<1>2. PICK m1 \in Memories: m1 = SetPrev(m, m.next[q], m.prev[q])
                            /\ PrevStored(m, m.next[q], m.prev[q], m1)
  BY <1>1, SetPrevStores
<1>3. PICK m2 \in Memories: m2 = SetNext(m1, m.prev[q], m.next[q])
                            /\ NextStored(m1, m.prev[q], m.next[q], m2)
  BY <1>1, SetNextStores
<1>4. m2 = list_del_entry(m, q)
  BY <1>2, <1>3 DEF list_del_entry, list_unlink
<1>5. \A d \in Cells:
        /\ m2.next[d] = IF d = m.prev[q] THEN m.next[q] ELSE m.next[d]
        /\ m2.prev[d] = IF d = m.next[q] THEN m.prev[q] ELSE m.prev[d]
  BY <1>2, <1>3 DEF NextStored, PrevStored
<1>6. \A c \in cs: (c = m.prev[q] <=> m.next[c] = q) /\ (c = m.next[q] <=> m.prev[c] = q)
  BY DEF Closed
<1>. QED
  BY <1>1, <1>3, <1>4, <1>5, <1>6

(* INIT_LIST_HEAD: q points to itself.                                      *)
LEMMA InitStores ==
  ASSUME NEW m \in Memories, NEW q \in Cells
  PROVE  /\ INIT_LIST_HEAD(m, q) \in Memories
         /\ \A d \in Cells: /\ INIT_LIST_HEAD(m, q).next[d] = IF d = q THEN q ELSE m.next[d]
                            /\ INIT_LIST_HEAD(m, q).prev[d] = IF d = q THEN q ELSE m.prev[d]
<1>1. PICK m1 \in Memories: m1 = SetNext(m, q, q) /\ NextStored(m, q, q, m1)
  BY SetNextStores
<1>2. PICK m2 \in Memories: m2 = SetPrev(m1, q, q) /\ PrevStored(m1, q, q, m2)
  BY SetPrevStores
<1>. QED
  BY <1>1, <1>2 DEF NextStored, PrevStored, INIT_LIST_HEAD

(* The first entry behind another head, or that head, is none of cs.        *)
Aside(m, cs) ==
    /\ other \in Cells \ cs
    /\ m.next[other] \in Cells \ cs
    /\ m.next[m.next[other]] # NULL

(* The bodies that take the entry off the list.                             *)
LEMMA RemovedStores ==
  ASSUME NEW m \in Memories, NEW cs \in SUBSET Cells, Closed(m, cs), Aside(m, cs),
         NEW q \in cs, m.next[q] # q,
         NEW m2 \in {list_del(m, q), list_del_init(m, q), list_move(m, q, other)}
  PROVE  /\ m2 \in Memories
         /\ \A c \in cs \ {q}: /\ m2.next[c] = IF m.next[c] = q THEN m.next[q] ELSE m.next[c]
                               /\ m2.prev[c] = IF m.prev[c] = q THEN m.prev[q] ELSE m.prev[c]
         /\ Aside(m2, cs \ {q})
<1>1. PICK m1 \in Memories:
        /\ m1 = list_del_entry(m, q)
        /\ \A c \in cs \ {q}: /\ m1.next[c] = IF m.next[c] = q THEN m.next[q] ELSE m.next[c]
                              /\ m1.prev[c] = IF m.prev[c] = q THEN m.prev[q] ELSE m.prev[c]
        /\ \A d \in Cells \ cs: m1.next[d] = m.next[d] /\ m1.prev[d] = m.prev[d]
  <2>1. m.prev[q] \in cs \ {q} /\ m.next[q] \in cs \ {q}
    BY UnlinkStores
  <2>. QED
    BY <2>1, UnlinkStores
<1>2. PICK o \in Cells \ cs: o = m.next[other] /\ m.next[o] # NULL
  BY DEF Aside
<1>3. /\ q \in Cells /\ other \in Cells \ cs /\ m1.next[other] = o
      /\ m1.next[o] # NULL /\ q # other /\ q # o /\ q # NULL /\ o # NULL
  BY <1>1, <1>2, CellsAssumption DEF Aside
<1>4. CASE m2 = list_del(m, q)
  <2>1. PICK ma \in Memories: ma = SetNext(m1, q, LIST_POISON1)
                              /\ NextStored(m1, q, LIST_POISON1, ma)
    BY <1>3, SetNextStores
  <2>2. m2 = SetPrev(ma, q, LIST_POISON2)
    BY <1>1, <1>4, <2>1 DEF list_del
  <2>3. m2 \in Memories /\ PrevStored(ma, q, LIST_POISON2, m2)
    BY <1>3, <2>2, SetPrevStores
  <2>. QED
    BY <1>1, <1>3, <2>1, <2>3 DEF Aside, NextStored, PrevStored
<1>5. CASE m2 = list_del_init(m, q)
  <2>1. m2 = INIT_LIST_HEAD(m1, q)
    BY <1>1, <1>5 DEF list_del_init
  <2>2. /\ m2 \in Memories
        /\ \A d \in Cells: /\ m2.next[d] = IF d = q THEN q ELSE m1.next[d]
                           /\ m2.prev[d] = IF d = q THEN q ELSE m1.prev[d]
    <3>1. /\ INIT_LIST_HEAD(m1, q) \in Memories
          /\ \A d \in Cells:
               /\ INIT_LIST_HEAD(m1, q).next[d] = IF d = q THEN q ELSE m1.next[d]
               /\ INIT_LIST_HEAD(m1, q).prev[d] = IF d = q THEN q ELSE m1.prev[d]
      BY ONLY m1 \in Memories, <1>3, InitStores
    <3>. QED
      BY ONLY <2>1, <3>1
  <2>. QED
    BY <1>1, <1>3, <2>2 DEF Aside
<1>6. CASE m2 = list_move(m, q, other)
  <2>1. m2 = list_link(m1, q, other, o)
    BY <1>1, <1>3, <1>6 DEF list_move, list_add
  <2>2. /\ m2 \in Memories
        /\ \A d \in Cells:
             /\ m2.next[d] = IF d = other THEN q ELSE IF d = q THEN o ELSE m1.next[d]
             /\ m2.prev[d] = IF d = q THEN other ELSE IF d = o THEN q ELSE m1.prev[d]
    <3>1. /\ list_link(m1, q, other, o) \in Memories
          /\ \A d \in Cells:
               /\ list_link(m1, q, other, o).next[d] =
                    IF d = other THEN q ELSE IF d = q THEN o ELSE m1.next[d]
               /\ list_link(m1, q, other, o).prev[d] =
                    IF d = q THEN other ELSE IF d = o THEN q ELSE m1.prev[d]
      BY ONLY m1 \in Memories, o \in Cells \ cs, <1>3, LinkStores
    <3>. QED
      BY ONLY <2>1, <3>1
  <2>. QED
    BY <1>1, <1>3, <2>2 DEF Aside
<1>. QED
  BY <1>4, <1>5, <1>6

(* What has become of m and of the cells cs with new in the place of q.     *)
Replaces(m, m2, cs, q, new) ==
    /\ m2 \in Memories
    /\ m2.next[new] = m.next[q] /\ m2.prev[new] = m.prev[q]
    /\ \A c \in cs \ {q}: /\ m2.next[c] = IF m.next[c] = q THEN new ELSE m.next[c]
                          /\ m2.prev[c] = IF m.prev[c] = q THEN new ELSE m.prev[c]
    /\ Aside(m2, (cs \ {q}) \cup {new})
    /\ m2 = list_replace(m, q, new) => m2.next[q] = m.next[q] /\ m2.prev[q] = m.prev[q]

(* The bodies that put another entry in the place of q.                     *)
LEMMA ReplacedStores ==
  ASSUME NEW m \in Memories, NEW cs \in SUBSET Cells, Closed(m, cs), Aside(m, cs),
         NEW q \in cs, m.next[q] # q, NEW new \in Cells \ cs, m.next[new] = NULL,
         NEW m2 \in {list_replace(m, q, new), list_del_init(list_replace_init(m, q, new), q)}
  PROVE  Replaces(m, m2, cs, q, new)
<1>. DEFINE mr == list_replace(m, q, new)
            a == m.next[q]
            z == m.prev[q]
<1>1. /\ a \in cs \ {q} /\ z \in cs \ {q} /\ q \in Cells /\ new # q /\ new # a /\ new # z
      /\ a \in Cells /\ z \in Cells /\ other # new /\ m.next[other] # new
      /\ new # NULL
  BY UnlinkStores, CellsAssumption DEF Aside, Closed
<1>2. \A c \in cs: (c = z <=> m.next[c] = q) /\ (c = a <=> m.prev[c] = q)
  BY DEF Closed
<1>. HIDE DEF a, z
<1>3. PICK m3 \in Memories: m3 = SetNext(m, new, a) /\ NextStored(m, new, a, m3)
  BY <1>1, SetNextStores
<1>4. PICK m4 \in Memories: m4 = SetPrev(m3, a, new) /\ PrevStored(m3, a, new, m4)
  BY <1>1, SetPrevStores
<1>5. PICK m5 \in Memories: m5 = SetPrev(m4, new, z) /\ PrevStored(m4, new, z, m5)
  BY <1>1, SetPrevStores
<1>6. PICK m6 \in Memories: m6 = SetNext(m5, z, new) /\ NextStored(m5, z, new, m6)
  BY <1>1, SetNextStores
<1>7. mr = m6
  <2>1. m3.next[new] = a
    BY <1>3 DEF NextStored
  <2>2. m4.prev[q] = z
    BY <1>1, <1>3, <1>4 DEF NextStored, PrevStored, z
  <2>3. m5.prev[new] = z
    BY <1>5 DEF PrevStored
  <2>. QED
    BY <1>3, <1>4, <1>5, <1>6, <2>1, <2>2, <2>3 DEF list_replace, a
<1>8. /\ m6.next[new] = a /\ m6.prev[new] = z
      /\ \A d \in Cells \ {new}: /\ m6.next[d] = IF d = z THEN new ELSE m.next[d]
                                 /\ m6.prev[d] = IF d = a THEN new ELSE m.prev[d]
  BY <1>1, <1>3, <1>4, <1>5, <1>6 DEF NextStored, PrevStored
<1>9. /\ m6.next[q] = m.next[q] /\ m6.prev[q] = m.prev[q]
      /\ m6.next[other] = m.next[other]
      /\ m6.next[m.next[other]] = m.next[m.next[other]]
  BY <1>1, <1>8 DEF Aside
<1>10. m2 \in Memories /\ \A d \in Cells \ {q}: m2.next[d] = m6.next[d] /\ m2.prev[d] = m6.prev[d]
  <2>1. CASE m2 = mr
    BY <1>7, <2>1
  <2>2. CASE m2 = list_del_init(list_replace_init(m, q, new), q)
    <3>1. PICK m7 \in Memories: /\ m7 = INIT_LIST_HEAD(m6, q)
            /\ \A d \in Cells: /\ m7.next[d] = IF d = q THEN q ELSE m6.next[d]
                               /\ m7.prev[d] = IF d = q THEN q ELSE m6.prev[d]
      BY <1>1, InitStores
    <3>2. m7 = list_replace_init(m, q, new)
      BY <1>7, <3>1 DEF list_replace_init
    <3>3. PICK m8 \in Memories: m8 = SetPrev(m7, q, q) /\ PrevStored(m7, q, q, m8)
      BY <1>1, SetPrevStores
    <3>4. PICK m9 \in Memories: m9 = SetNext(m8, q, q) /\ NextStored(m8, q, q, m9)
      BY <1>1, SetNextStores
    <3>5. m9 = list_del_entry(m7, q)
      <4>1. m7.next[q] = q /\ m7.prev[q] = q
        BY <1>1, <3>1
      <4>. QED
        BY <3>3, <3>4, <4>1 DEF list_del_entry, list_unlink
    <3>6. m2 = INIT_LIST_HEAD(m9, q)
      BY <2>2, <3>2, <3>5 DEF list_del_init
    <3>7. /\ m2 \in Memories
          /\ \A d \in Cells: /\ m2.next[d] = IF d = q THEN q ELSE m9.next[d]
                             /\ m2.prev[d] = IF d = q THEN q ELSE m9.prev[d]
      <4>1. /\ INIT_LIST_HEAD(m9, q) \in Memories
            /\ \A d \in Cells:
                 /\ INIT_LIST_HEAD(m9, q).next[d] = IF d = q THEN q ELSE m9.next[d]
                 /\ INIT_LIST_HEAD(m9, q).prev[d] = IF d = q THEN q ELSE m9.prev[d]
        BY ONLY m9 \in Memories, <1>1, InitStores
      <4>. QED
        BY ONLY <3>6, <4>1
    <3>. QED
      BY <3>1, <3>3, <3>4, <3>7 DEF NextStored, PrevStored
  <2>. QED
    BY <2>1, <2>2
<1>11. Aside(m2, (cs \ {q}) \cup {new})
  <2>1. other \in Cells \ cs /\ m.next[other] \in Cells \ cs /\ m.next[m.next[other]] # NULL
    BY DEF Aside
  <2>2. other # q /\ m.next[other] # q
    BY <2>1
  <2>. QED
    BY <1>1, <1>9, <1>10, <2>1, <2>2 DEF Aside
<1>12. m2 = mr => m2.next[q] = m.next[q] /\ m2.prev[q] = m.prev[q]
  BY <1>7, <1>9
<1>13. \A c \in cs \ {q}: /\ m2.next[c] = IF m.next[c] = q THEN new ELSE m.next[c]
                          /\ m2.prev[c] = IF m.prev[c] = q THEN new ELSE m.prev[c]
  BY <1>2, <1>8, <1>10
<1>. QED
  BY <1>1, <1>8, <1>10, <1>11, <1>12, <1>13 DEF a, z, Replaces

-----------------------------------------------------------------------------
(* ListWalk: what is on the list while a loop goes over it.                 *)

(* The ring in the direction of the loop: what the bodies have left, then   *)
(* the entries of t that are still to come, after k of them.                *)
Rest(l, t, k) == Len(l) + Len(t) - k
Whole(l, t, k) ==
    [i \in 1..Rest(l, t, k) |-> IF i <= Len(l) THEN l[i] ELSE t[k + i - Len(l)]]

Forth(m) == IF loop.back THEN m.prev ELSE m.next
Backwards(m) == IF loop.back THEN m.next ELSE m.prev

(* A loop is going over the ring s of n entries in m, at the j-th.          *)
Walking(m, s, n, j) ==
    /\ m \in Memories
    /\ n \in Nat /\ j \in 1..n + 1
    /\ \A i \in 1..n: s[i] \in Entries
    /\ Distinct(class, s, n)
    /\ Round(Forth(m), Backwards(m), class, s, n)
    /\ Aside(m, RingCells(class, s, n))

WalkInv ==
    /\ loop \in [back: BOOLEAN, safe: BOOLEAN]
    /\ planned \in Seq(Entries) /\ seen \in Seq(Entries) /\ left \in Seq(Entries)
    /\ Len(seen) <= Len(planned) /\ \A i \in 1..Len(seen): seen[i] = planned[i]
    /\ Walking(wmem, Whole(left, planned, Len(seen)), Rest(left, planned, Len(seen)),
               Len(left) + 1)
    /\ pos = Spot(class, Whole(left, planned, Len(seen)), Rest(left, planned, Len(seen)),
                  Len(left) + 1)
    /\ nxt = Onward(wmem, pos)

(* The cells of the ring, both ways and whichever way the loop goes.        *)
LEMMA WalkCells ==
  ASSUME NEW m, NEW s, NEW n, NEW j, Walking(m, s, n, j)
  PROVE  /\ RingCells(class, s, n) \in SUBSET Cells
         /\ Closed(m, RingCells(class, s, n))
         /\ \A i \in 1..n: s[i] \in RingCells(class, s, n) /\ m.next[s[i]] # s[i]
<1>. DEFINE cs == RingCells(class, s, n)
<1>1. /\ n \in Nat /\ \A i \in 1..n: s[i] \in Entries
      /\ Distinct(class, s, n) /\ Round(Forth(m), Backwards(m), class, s, n)
  BY DEF Walking
<1>2. cs \in SUBSET Cells
  BY <1>1, WalkAssumption, CellsAssumption DEF RingCells, Cells
<1>. HIDE DEF cs
<1>3. \A c \in cs: /\ Forth(m)[c] \in cs /\ Backwards(m)[Forth(m)[c]] = c
                   /\ Backwards(m)[c] \in cs /\ Forth(m)[Backwards(m)[c]] = c
  BY ONLY <1>1, RoundInverse DEF cs
<1>4. Closed(m, cs)
  BY <1>3 DEF Closed, Forth, Backwards
<1>5. ASSUME NEW i \in 1..n PROVE s[i] \in cs /\ m.next[s[i]] # s[i]
  <2>1. s[i] \in cs
    BY DEF cs, RingCells
  <2>2. Spot(class, s, n, i) = s[i]
    BY DEF Spot
  <2>3. Forth(m)[s[i]] # s[i]
    <3>1. i \in 0..n /\ i + 1 \in 0..n + 1 /\ i + 1 # i
      BY <1>1
    <3>2. Forth(m)[s[i]] = Spot(class, s, n, i + 1)
      BY <1>1, <2>2, <3>1 DEF Round
    <3>3. Spot(class, s, n, i + 1) = s[i] => i + 1 = i
      BY <1>1, <3>1, SpotFacts
    <3>. QED
      BY <3>1, <3>2, <3>3
  <2>4. Backwards(m)[s[i]] # s[i]
    BY <1>3, <2>1, <2>3
  <2>. QED
    BY <2>1, <2>3, <2>4 DEF Forth, Backwards
<1>. QED
  BY <1>2, <1>4, <1>5 DEF cs

(* s2 is s without its j-th entry.                                          *)
Drops(s, n, j, s2) == \A i \in 1..n - 1: s2[i] = IF i < j THEN s[i] ELSE s[i + 1]

(* A body that takes the entry off the list.                                *)
LEMMA WalkRemoves ==
  ASSUME NEW s, NEW n, NEW j \in 1..n, Walking(wmem, s, n, j),
         loop \in [back: BOOLEAN, safe: BOOLEAN], NEW q, q = s[j],
         NEW m \in {list_del(wmem, q), list_del_init(wmem, q), list_move(wmem, q, other)},
         NEW s2, Drops(s, n, j, s2)
  PROVE  Walking(m, s2, n - 1, j)
<1>. DEFINE cs == RingCells(class, s, n)
<1>1. /\ wmem \in Memories /\ n \in Nat /\ \A i \in 1..n: s[i] \in Entries
      /\ Distinct(class, s, n) /\ Round(Forth(wmem), Backwards(wmem), class, s, n)
      /\ Aside(wmem, cs)
  BY DEF Walking
<1>2. cs \in SUBSET Cells /\ Closed(wmem, cs) /\ q \in cs /\ wmem.next[q] # q
  BY WalkCells
<1>3. /\ m \in Memories
      /\ \A c \in cs \ {q}:
           /\ m.next[c] = IF wmem.next[c] = q THEN wmem.next[q] ELSE wmem.next[c]
           /\ m.prev[c] = IF wmem.prev[c] = q THEN wmem.prev[q] ELSE wmem.prev[c]
      /\ Aside(m, cs \ {q})
  <2>1. PICK w: w = wmem
    OBVIOUS
  <2>2. /\ w \in Memories /\ cs \in SUBSET Cells /\ Closed(w, cs) /\ Aside(w, cs)
        /\ q \in cs /\ w.next[q] # q
        /\ m \in {list_del(w, q), list_del_init(w, q), list_move(w, q, other)}
    BY <1>1, <1>2, <2>1
  <2>. HIDE DEF cs
  <2>3. /\ m \in Memories
        /\ \A c \in cs \ {q}: /\ m.next[c] = IF w.next[c] = q THEN w.next[q] ELSE w.next[c]
                              /\ m.prev[c] = IF w.prev[c] = q THEN w.prev[q] ELSE w.prev[c]
        /\ Aside(m, cs \ {q})
    BY ONLY <2>2, RemovedStores, SMTT(60)
  <2>. QED
    BY <2>1, <2>3, ZenonT(60)
<1>4. /\ Skips(Forth(wmem), Forth(m), class, s, n, q)
      /\ Skips(Backwards(wmem), Backwards(m), class, s, n, q)
  BY <1>3 DEF Skips, Forth, Backwards
<1>5. Round(Forth(m), Backwards(m), class, s2, n - 1) /\ Distinct(class, s2, n - 1)
  <2>. DEFINE f == Forth(wmem)
              b == Backwards(wmem)
              f2 == Forth(m)
              b2 == Backwards(m)
  <2>1. /\ n \in Nat /\ Distinct(class, s, n) /\ Round(f, b, class, s, n)
        /\ Skips(f, f2, class, s, n, q) /\ Skips(b, b2, class, s, n, q)
        /\ j \in 1..n /\ q = s[j]
        /\ \A i \in 1..n - 1: s2[i] = IF i < j THEN s[i] ELSE s[i + 1]
    BY <1>1, <1>4 DEF Drops
  <2>. HIDE DEF f, b, f2, b2
  <2>2. Round(f2, b2, class, s2, n - 1) /\ Distinct(class, s2, n - 1)
    BY ONLY <2>1, RoundOut
  <2>. QED
    BY <2>2 DEF f2, b2
<1>6. \A i \in 1..n - 1: \E k \in 1..n: s2[i] = s[k] /\ k # j
  <2>. TAKE i \in 1..n - 1
  <2>1. CASE i < j
    BY <1>1, <2>1 DEF Drops
  <2>2. CASE i >= j
    <3>1. i + 1 \in 1..n /\ i + 1 # j /\ s2[i] = s[i + 1]
      BY <1>1, <2>2 DEF Drops
    <3>. QED
      BY <3>1
  <2>3. i < j \/ i >= j
    BY <1>1
  <2>. QED
    BY <2>1, <2>2, <2>3
<1>7. \A i \in 1..n: i # j => \E k \in 1..n - 1: s2[k] = s[i]
  <2>. SUFFICES ASSUME NEW i \in 1..n, i # j PROVE \E k \in 1..n - 1: s2[k] = s[i]
    OBVIOUS
  <2>1. CASE i < j
    <3>1. i \in 1..n - 1 /\ s2[i] = s[i]
      BY <1>1, <2>1 DEF Drops
    <3>. QED
      BY <3>1
  <2>2. CASE i > j
    <3>1. i - 1 \in 1..n - 1 /\ ~(i - 1 < j) /\ (i - 1) + 1 = i
      BY <1>1, <2>2
    <3>2. s2[i - 1] = s[i]
      BY <3>1 DEF Drops
    <3>. QED
      BY <3>1, <3>2
  <2>3. i < j \/ i > j
    BY <1>1
  <2>. QED
    BY <2>1, <2>2, <2>3
<1>8. RingCells(class, s2, n - 1) = cs \ {q}
  <2>1. \A i \in 1..n: s[i] # class /\ (i # j => s[i] # q)
    BY <1>1 DEF Distinct
  <2>2. q # class
    BY <2>1
  <2>3. \A c: c \in cs \ {q} <=> c = class \/ \E i \in 1..n: i # j /\ c = s[i]
    BY <2>1, <2>2 DEF RingCells
  <2>4. \A c: c \in RingCells(class, s2, n - 1) <=> c = class \/ \E i \in 1..n - 1: c = s2[i]
    BY DEF RingCells
  <2>5. \A c: (\E i \in 1..n: i # j /\ c = s[i]) <=> (\E i \in 1..n - 1: c = s2[i])
    BY <1>6, <1>7
  <2>. HIDE DEF cs
  <2>. QED
    BY <2>3, <2>4, <2>5
<1>9. \A i \in 1..n - 1: s2[i] \in Entries
  BY <1>1, <1>6
<1>10. n - 1 \in Nat /\ j \in 1..(n - 1) + 1
  BY <1>1
<1>. QED
  BY <1>3, <1>5, <1>8, <1>9, <1>10 DEF Walking

(* A body that puts another entry in the place of the one the loop is at.   *)
LEMMA WalkReplaces ==
  ASSUME NEW s, NEW n, NEW j \in 1..n, Walking(wmem, s, n, j),
         loop \in [back: BOOLEAN, safe: BOOLEAN], NEW q, q = s[j], NEW new \in Fresh,
         NEW m \in {list_replace(wmem, q, new), list_del_init(list_replace_init(wmem, q, new), q)},
         NEW s2, \A i \in 1..n: s2[i] = IF i = j THEN new ELSE s[i]
  PROVE  /\ Walking(m, s2, n, j + 1)
         /\ m = list_replace(wmem, q, new) => m.next[q] = wmem.next[q] /\ m.prev[q] = wmem.prev[q]
<1>. DEFINE cs == RingCells(class, s, n)
<1>1. /\ wmem \in Memories /\ n \in Nat /\ \A i \in 1..n: s[i] \in Entries
      /\ Distinct(class, s, n) /\ Round(Forth(wmem), Backwards(wmem), class, s, n)
      /\ Aside(wmem, cs)
  BY DEF Walking
<1>2. cs \in SUBSET Cells /\ Closed(wmem, cs) /\ q \in cs /\ wmem.next[q] # q
  BY WalkCells
<1>3. new \in Entries /\ new \in Cells \ cs /\ wmem.next[new] = NULL
  BY <1>2, CellsAssumption DEF Fresh, Closed, Cells
<1>4. /\ m \in Memories
      /\ m.next[new] = wmem.next[q] /\ m.prev[new] = wmem.prev[q]
      /\ \A c \in cs \ {q}: /\ m.next[c] = IF wmem.next[c] = q THEN new ELSE wmem.next[c]
                            /\ m.prev[c] = IF wmem.prev[c] = q THEN new ELSE wmem.prev[c]
      /\ Aside(m, (cs \ {q}) \cup {new})
      /\ m = list_replace(wmem, q, new) => m.next[q] = wmem.next[q] /\ m.prev[q] = wmem.prev[q]
  <2>1. PICK w: w = wmem
    OBVIOUS
  <2>2. /\ w \in Memories /\ cs \in SUBSET Cells /\ Closed(w, cs) /\ Aside(w, cs)
        /\ q \in cs /\ w.next[q] # q /\ new \in Cells \ cs /\ w.next[new] = NULL
        /\ m \in {list_replace(w, q, new), list_del_init(list_replace_init(w, q, new), q)}
    BY <1>1, <1>2, <1>3, <2>1
  <2>. HIDE DEF cs
  <2>3. Replaces(w, m, cs, q, new)
    BY ONLY <2>2, ReplacedStores
  <2>. QED
    BY <2>1, <2>3 DEF Replaces
<1>5. /\ Stands(Forth(wmem), Forth(m), class, s, n, q, new)
      /\ Stands(Backwards(wmem), Backwards(m), class, s, n, q, new)
  BY <1>4 DEF Stands, Forth, Backwards
<1>6. Round(Forth(m), Backwards(m), class, s2, n) /\ Distinct(class, s2, n)
  <2>. DEFINE f == Forth(wmem)
              b == Backwards(wmem)
              f2 == Forth(m)
              b2 == Backwards(m)
  <2>1. /\ n \in Nat /\ Distinct(class, s, n) /\ Round(f, b, class, s, n)
        /\ Stands(f, f2, class, s, n, q, new) /\ Stands(b, b2, class, s, n, q, new)
        /\ j \in 1..n /\ q = s[j] /\ new \notin RingCells(class, s, n)
        /\ \A i \in 1..n: s2[i] = IF i = j THEN new ELSE s[i]
    BY <1>1, <1>3, <1>5
  <2>. HIDE DEF f, b, f2, b2
  <2>2. Round(f2, b2, class, s2, n) /\ Distinct(class, s2, n)
    BY ONLY <2>1, RoundSwap
  <2>. QED
    BY <2>2 DEF f2, b2
<1>7. RingCells(class, s2, n) = (cs \ {q}) \cup {new}
  <2>1. \A i \in 1..n: s[i] # class /\ (i # j => s[i] # q)
    BY <1>1 DEF Distinct
  <2>2. q # class
    BY <2>1
  <2>3. \A c: c \in (cs \ {q}) \cup {new}
              <=> c = class \/ c = new \/ \E i \in 1..n: i # j /\ c = s[i]
    BY <2>1, <2>2 DEF RingCells
  <2>4. \A c: c \in RingCells(class, s2, n) <=> c = class \/ \E i \in 1..n: c = s2[i]
    BY DEF RingCells
  <2>5. \A c: c = new \/ (\E i \in 1..n: i # j /\ c = s[i]) <=> (\E i \in 1..n: c = s2[i])
    OBVIOUS
  <2>. HIDE DEF cs
  <2>. QED
    BY <2>3, <2>4, <2>5
<1>8. \A i \in 1..n: s2[i] \in Entries
  BY <1>1, <1>3
<1>9. j + 1 \in 1..n + 1
  BY <1>1
<1>. QED
  BY <1>1, <1>4, <1>6, <1>7, <1>8, <1>9 DEF Walking

(* What the entries to come and those left are after one more iteration.    *)
LEMMA WholeNext ==
  ASSUME NEW l \in Seq(Entries), NEW t \in Seq(Entries), NEW k \in Nat, k < Len(t)
  PROVE  /\ Len(l) + 1 \in 1..Rest(l, t, k) /\ Whole(l, t, k)[Len(l) + 1] = t[k + 1]
         /\ Rest(l, t, k + 1) = Rest(l, t, k) - 1
         /\ \A i \in 1..Rest(l, t, k) - 1:
              Whole(l, t, k + 1)[i] = IF i < Len(l) + 1 THEN Whole(l, t, k)[i]
                                                        ELSE Whole(l, t, k)[i + 1]
         /\ \A x \in Entries:
              /\ l \o <<x>> \in Seq(Entries) /\ Len(l \o <<x>>) = Len(l) + 1
              /\ Rest(l \o <<x>>, t, k + 1) = Rest(l, t, k)
              /\ \A i \in 1..Rest(l, t, k):
                   Whole(l \o <<x>>, t, k + 1)[i] = IF i = Len(l) + 1 THEN x
                                                    ELSE Whole(l, t, k)[i]
<1>1. Len(l) \in Nat /\ Len(t) \in Nat
  OBVIOUS
<1>2. Len(l) + 1 \in 1..Rest(l, t, k) /\ Whole(l, t, k)[Len(l) + 1] = t[k + 1]
  <2>1. Len(l) + 1 \in 1..Rest(l, t, k)
    BY <1>1 DEF Rest
  <2>2. ~(Len(l) + 1 <= Len(l)) /\ k + (Len(l) + 1) - Len(l) = k + 1
    BY <1>1
  <2>. QED
    BY <2>1, <2>2 DEF Whole
<1>3. Rest(l, t, k + 1) = Rest(l, t, k) - 1
  BY <1>1 DEF Rest
<1>4. ASSUME NEW i \in 1..Rest(l, t, k) - 1
      PROVE  Whole(l, t, k + 1)[i] = IF i < Len(l) + 1 THEN Whole(l, t, k)[i]
                                                       ELSE Whole(l, t, k)[i + 1]
  <2>1. Rest(l, t, k) \in Int
    BY <1>1 DEF Rest
  <2>2. i \in 1..Rest(l, t, k + 1) /\ i \in 1..Rest(l, t, k) /\ i + 1 \in 1..Rest(l, t, k)
    BY <1>3, <2>1
  <2>3. CASE i < Len(l) + 1
    <3>1. i <= Len(l)
      BY <1>1, <2>1, <2>3
    <3>. QED
      BY <2>2, <2>3, <3>1 DEF Whole
  <2>4. CASE ~(i < Len(l) + 1)
    <3>1. ~(i <= Len(l)) /\ ~(i + 1 <= Len(l)) /\ (k + 1) + i - Len(l) = k + (i + 1) - Len(l)
      BY <1>1, <2>1, <2>4
    <3>. QED
      BY <2>2, <2>4, <3>1 DEF Whole
  <2>. QED
    BY <2>3, <2>4
<1>5. ASSUME NEW x \in Entries
      PROVE  /\ l \o <<x>> \in Seq(Entries) /\ Len(l \o <<x>>) = Len(l) + 1
             /\ Rest(l \o <<x>>, t, k + 1) = Rest(l, t, k)
             /\ \A i \in 1..Rest(l, t, k):
                  Whole(l \o <<x>>, t, k + 1)[i] = IF i = Len(l) + 1 THEN x
                                                   ELSE Whole(l, t, k)[i]
  <2>1. PICK r: r = l \o <<x>>
    OBVIOUS
  <2>2. /\ r \in Seq(Entries) /\ Len(r) = Len(l) + 1
        /\ \A i \in 1..Len(l) + 1: r[i] = IF i = Len(l) + 1 THEN x ELSE l[i]
    BY <2>1
  <2>3. Rest(r, t, k + 1) = Rest(l, t, k)
    BY <1>1, <2>2 DEF Rest
  <2>4. ASSUME NEW i \in 1..Rest(l, t, k)
        PROVE  Whole(r, t, k + 1)[i] = IF i = Len(l) + 1 THEN x ELSE Whole(l, t, k)[i]
    <3>1. Rest(l, t, k) \in Int
      BY <1>1 DEF Rest
    <3>2. i \in 1..Rest(r, t, k + 1)
      BY <2>3
    <3>3. CASE i <= Len(l) + 1
      <4>1. i \in 1..Len(l) + 1 /\ (i # Len(l) + 1 => i <= Len(l))
        BY <1>1, <3>1, <3>3
      <4>. QED
        BY <2>2, <3>2, <3>3, <4>1 DEF Whole
    <3>4. CASE ~(i <= Len(l) + 1)
      <4>1. ~(i <= Len(l)) /\ i # Len(l) + 1 /\ (k + 1) + i - (Len(l) + 1) = k + i - Len(l)
        BY <1>1, <3>1, <3>4
      <4>. QED
        BY <2>2, <3>2, <3>4, <4>1 DEF Whole
    <3>. QED
      BY <3>3, <3>4
  <2>. QED
    BY <2>1, <2>2, <2>3, <2>4
<1>. QED
  BY <1>2, <1>3, <1>4, <1>5

(* Every loop starts on the ring that the entries were threaded into.       *)
LEMMA WalkStarts ==
  ASSUME WalkInit
  PROVE  WalkInv
<1>. DEFINE none == [c \in Cells |-> IF c \in {class, other} THEN c ELSE NULL]
            empty == [next |-> none, prev |-> none]
            Turned(back, ms) == IF back THEN Reverse(ms) ELSE ms
            After(r, k) == IF k = 0 THEN class ELSE r[k]
<1>1. PICK members \in SeqOf(Entries, Cardinality(Entries)), back \in BOOLEAN, safe \in BOOLEAN:
        /\ IsInjective(members)
        /\ loop = [back |-> back, safe |-> safe]
        /\ wmem = ListOf(empty, class, members)
        /\ \E k \in 0..Len(members):
             /\ pos = Onward(wmem, After(Turned(back, members), k))
             /\ nxt = Onward(wmem, pos)
             /\ planned = SubSeq(Turned(back, members), k + 1, Len(Turned(back, members)))
             /\ left = SubSeq(Turned(back, members), 1, k)
        /\ seen = <<>>
  BY DEF WalkInit, Built
<1>2. PICK N \in Nat: members \in [1..N -> Entries]
  <2>1. Cardinality(Entries) \in Nat
    BY FS_CardinalityType, CellsAssumption
  <2>. QED
    BY <2>1 DEF SeqOf
<1>3. Len(members) = N /\ members \in Seq(Entries)
  BY <1>2
<1>4. PICK run: run = Turned(back, members)
  OBVIOUS
<1>5. /\ run \in [1..N -> Entries] /\ Len(run) = N /\ run \in Seq(Entries)
      /\ \A i \in 1..N: run[i] = IF back THEN members[N - i + 1] ELSE members[i]
  BY <1>2, <1>3, <1>4 DEF Reverse
<1>6. PICK k \in 0..N: /\ pos = Onward(wmem, After(run, k))
                       /\ nxt = Onward(wmem, pos)
                       /\ planned = SubSeq(run, k + 1, N)
                       /\ left = SubSeq(run, 1, k)
  BY <1>1, <1>3, <1>4, <1>5
<1>7. /\ empty \in Memories /\ class \in Heads /\ other \in Cells
      /\ empty.next[class] = class /\ empty.prev[class] = class /\ empty.next[other] = other
      /\ class # other /\ other # NULL /\ other \notin Entries /\ class \notin Entries
  BY WalkAssumption, CellsAssumption DEF Memories, Cells, Pointers
<1>. HIDE DEF empty, Turned
<1>8. /\ wmem \in Memories
      /\ Threaded(wmem, class, members, N)
      /\ SameBut(empty, wmem, {class} \cup Range(members))
  <2>1. /\ ListOf(empty, class, members) \in Memories
        /\ Threaded(ListOf(empty, class, members), class, members, N)
        /\ SameBut(empty, ListOf(empty, class, members), {class} \cup Range(members))
    BY <1>1, <1>2, <1>7, ListOfThreads
  <2>. QED
    BY <1>1, <2>1
<1>9. Distinct(class, run, N)
  <2>1. \A a, b \in 1..N: members[a] = members[b] => a = b
    BY <1>1, <1>2 DEF IsInjective
  <2>2. ASSUME NEW a \in 1..N, NEW b \in 1..N, run[a] = run[b] PROVE a = b
    <3>1. CASE ~ back
      BY <1>5, <2>1, <2>2, <3>1
    <3>2. CASE back
      <4>1. N - a + 1 \in 1..N /\ N - b + 1 \in 1..N
        OBVIOUS
      <4>2. members[N - a + 1] = members[N - b + 1]
        BY <1>5, <2>2, <3>2
      <4>3. N - a + 1 = N - b + 1
        BY <2>1, <4>1, <4>2
      <4>. QED
        BY <4>3
    <3>. QED
      BY <3>1, <3>2
  <2>3. \A i \in 1..N: run[i] # class
    BY <1>5, <1>7
  <2>. QED
    BY <2>2, <2>3 DEF Distinct
<1>10. Round(Forth(wmem), Backwards(wmem), class, run, N)
  <2>1. CASE ~ back
    <3>1. \A i \in 0..N + 1: Spot(class, run, N, i) = Spot(class, members, N, i)
      BY <1>5, <2>1 DEF Spot
    <3>2. \A i \in 0..N: i \in 0..N + 1 /\ i + 1 \in 0..N + 1
      OBVIOUS
    <3>3. Forth(wmem) = wmem.next /\ Backwards(wmem) = wmem.prev
      BY <1>1, <2>1 DEF Forth, Backwards
    <3>. QED
      BY <1>8, <3>1, <3>2, <3>3 DEF Round, Threaded
  <2>2. CASE back
    <3>1. \A i \in 0..N + 1: Spot(class, run, N, i) = Spot(class, members, N, N - i + 1)
      BY <1>5, <2>2 DEF Spot
    <3>2. Forth(wmem) = wmem.prev /\ Backwards(wmem) = wmem.next
      BY <1>1, <2>2 DEF Forth, Backwards
    <3>3. ASSUME NEW i \in 0..N
          PROVE  /\ wmem.prev[Spot(class, run, N, i)] = Spot(class, run, N, i + 1)
                 /\ wmem.next[Spot(class, run, N, i + 1)] = Spot(class, run, N, i)
      <4>1. /\ i \in 0..N + 1 /\ i + 1 \in 0..N + 1 /\ N - i \in 0..N
            /\ N - (i + 1) + 1 = N - i /\ N - i + 1 = (N - i) + 1
        OBVIOUS
      <4>2. /\ Spot(class, run, N, i) = Spot(class, members, N, (N - i) + 1)
            /\ Spot(class, run, N, i + 1) = Spot(class, members, N, N - i)
        BY <3>1, <4>1
      <4>. QED
        BY <1>8, <4>1, <4>2 DEF Threaded
    <3>. QED
      BY <3>2, <3>3 DEF Round
  <2>. QED
    BY <2>1, <2>2
<1>11. Aside(wmem, RingCells(class, run, N))
  <2>1. other \notin {class} \cup Range(members)
    BY <1>2, <1>7 DEF Range
  <2>2. wmem.next[other] = other
    BY <1>7, <1>8, <2>1 DEF SameBut
  <2>3. other \notin RingCells(class, run, N)
    BY <1>5, <1>7 DEF RingCells
  <2>. QED
    BY <1>7, <2>2, <2>3 DEF Aside
<1>12. /\ planned \in Seq(Entries) /\ Len(planned) = N - k
       /\ \A i \in 1..N - k: planned[i] = run[k + i]
  <2>1. \A i \in k + 1..N: run[i] \in Entries
    BY <1>5
  <2>2. k + 1 \in Int /\ N \in Int
    OBVIOUS
  <2>3. /\ SubSeq(run, k + 1, N) \in Seq(Entries)
        /\ Len(SubSeq(run, k + 1, N)) = IF k + 1 <= N THEN N - (k + 1) + 1 ELSE 0
        /\ \A i \in 1..N - (k + 1) + 1: SubSeq(run, k + 1, N)[i] = run[(k + 1) + i - 1]
    BY ONLY <2>1, <2>2, SubSeqProperties
  <2>4. N - (k + 1) + 1 = N - k /\ \A i \in 1..N - k: (k + 1) + i - 1 = k + i
    OBVIOUS
  <2>5. (IF k + 1 <= N THEN N - k ELSE 0) = N - k
    OBVIOUS
  <2>. QED
    BY <1>6, <2>3, <2>4, <2>5
<1>13. /\ left \in Seq(Entries) /\ Len(left) = k
       /\ \A i \in 1..k: left[i] = run[i]
  <2>1. \A i \in 1..k: run[i] \in Entries
    BY <1>5
  <2>2. 1 \in Int /\ k \in Int
    OBVIOUS
  <2>3. /\ SubSeq(run, 1, k) \in Seq(Entries)
        /\ Len(SubSeq(run, 1, k)) = IF 1 <= k THEN k - 1 + 1 ELSE 0
        /\ \A i \in 1..k - 1 + 1: SubSeq(run, 1, k)[i] = run[1 + i - 1]
    BY ONLY <2>1, <2>2, SubSeqProperties
  <2>4. k - 1 + 1 = k /\ \A i \in 1..k: 1 + i - 1 = i
    OBVIOUS
  <2>. QED
    BY <1>6, <2>3, <2>4
<1>14. Len(seen) = 0 /\ seen \in Seq(Entries)
  BY <1>1
<1>15. Rest(left, planned, 0) = N /\ Whole(left, planned, 0) = run
  <2>1. Rest(left, planned, 0) = N
    BY <1>12, <1>13 DEF Rest
  <2>2. \A i \in 1..N: (IF i <= Len(left) THEN left[i] ELSE planned[0 + i - Len(left)]) = run[i]
    <3>. TAKE i \in 1..N
    <3>1. CASE i <= k
      BY <1>13, <3>1
    <3>2. CASE ~(i <= k)
      <4>1. i - k \in 1..N - k /\ k + (i - k) = i /\ 0 + i - k = i - k
        BY <3>2
      <4>. QED
        BY <1>12, <1>13, <3>2, <4>1
    <3>. QED
      BY <3>1, <3>2
  <2>3. Whole(left, planned, 0)
          = [i \in 1..N |-> IF i <= Len(left) THEN left[i] ELSE planned[0 + i - Len(left)]]
    BY <2>1 DEF Whole
  <2>. QED
    BY <1>5, <2>1, <2>2, <2>3
<1>16. pos = Spot(class, run, N, k + 1)
  <2>1. After(run, k) = Spot(class, run, N, k)
    BY DEF Spot
  <2>2. Onward(wmem, After(run, k)) = Forth(wmem)[After(run, k)]
    BY DEF Onward, Forth
  <2>. QED
    BY <1>6, <1>10, <2>1, <2>2 DEF Round
<1>17. k + 1 \in 1..N + 1
  OBVIOUS
<1>18. Walking(wmem, run, N, k + 1)
  BY <1>5, <1>8, <1>9, <1>10, <1>11, <1>17 DEF Walking
<1>. QED
  BY <1>1, <1>6, <1>12, <1>13, <1>14, <1>15, <1>16, <1>18 DEF WalkInv

(* Going on from the j-th entry of the ring.                                *)
LEMMA OnwardSpot ==
  ASSUME NEW m, NEW s, NEW n, NEW j, Walking(m, s, n, j), NEW i \in 0..n
  PROVE  Onward(m, Spot(class, s, n, i)) = Spot(class, s, n, i + 1)
BY DEF Walking, Round, Onward, Forth

(* One iteration: the body leaves the entry, takes it off the list or puts  *)
(* another one in its place, and the loop goes on behind it.                *)
LEMMA WalkStep ==
  ASSUME WalkInv, Iterate
  PROVE  WalkInv'
<1>. DEFINE k == Len(seen)
            j == Len(left) + 1
            s == Whole(left, planned, k)
            n == Rest(left, planned, k)
            s2 == Whole(left', planned, k + 1)
            n2 == Rest(left', planned, k + 1)
<1>1. /\ loop \in [back: BOOLEAN, safe: BOOLEAN]
      /\ planned \in Seq(Entries) /\ seen \in Seq(Entries) /\ left \in Seq(Entries)
      /\ k \in Nat /\ k <= Len(planned) /\ \A i \in 1..k: seen[i] = planned[i]
      /\ Walking(wmem, s, n, j)
      /\ pos = Spot(class, s, n, j) /\ nxt = Onward(wmem, pos)
  BY DEF WalkInv
<1>2. PICK body \in Bodies: /\ wmem' = body.mem
                            /\ left' = left \o body.stays
                            /\ Advance(body.mem)
  BY DEF Iterate
<1>3. pos \in Entries /\ seen' = Append(seen, pos) /\ loop' = loop /\ planned' = planned
  BY DEF Iterate
<1>4. k < Len(planned) /\ pos = planned[k + 1] /\ pos = s[j] /\ j \in 1..n
  <2>1. class \notin Entries
    BY WalkAssumption, CellsAssumption
  <2>2. j \in 1..n /\ pos = s[j]
    BY <1>1, <1>3, <2>1 DEF Spot
  <2>3. k < Len(planned)
    BY <1>1, <2>2 DEF Rest
  <2>. HIDE DEF k
  <2>4. s[j] = planned[k + 1]
    BY <1>1, <2>3, WholeNext
  <2>. QED
    BY <2>2, <2>3, <2>4
<1>5. /\ seen' \in Seq(Entries) /\ Len(seen') = k + 1 /\ Len(seen') <= Len(planned')
      /\ \A i \in 1..Len(seen'): seen'[i] = planned'[i]
  <2>1. seen' \in Seq(Entries) /\ Len(seen') = k + 1
    BY <1>1, <1>3
  <2>2. \A i \in 1..k + 1: seen'[i] = IF i = k + 1 THEN pos ELSE seen[i]
    BY <1>1, <1>3
  <2>. HIDE DEF k
  <2>3. \A i \in 1..k + 1: i = k + 1 \/ (i \in 1..k /\ i # k + 1)
    BY <1>1
  <2>4. \A i \in 1..k + 1: seen'[i] = planned[i]
    BY <1>1, <1>4, <2>2, <2>3
  <2>5. k + 1 <= Len(planned)
    BY <1>1, <1>4
  <2>. QED
    BY <1>3, <2>1, <2>4, <2>5
<1>6. /\ n2 = Rest(left', planned', Len(seen')) /\ s2 = Whole(left', planned', Len(seen'))
  BY <1>3, <1>5
<1>7. nxt = Spot(class, s, n, j + 1)
  <2>1. j \in 0..n
    BY <1>4
  <2>. HIDE DEF j, s, n
  <2>2. Onward(wmem, Spot(class, s, n, j)) = Spot(class, s, n, j + 1)
    BY <1>1, <2>1, OnwardSpot
  <2>. QED
    BY <1>1, <2>2
<1>8. /\ \A x \in Entries: left' = left \o <<x>> =>
           /\ left' \in Seq(Entries) /\ Len(left') + 1 = j + 1 /\ n2 = n
           /\ \A i \in 1..n: s2[i] = IF i = j THEN x ELSE s[i]
      /\ left' = left =>
           /\ left' \in Seq(Entries) /\ Len(left') + 1 = j /\ n2 = n - 1
           /\ \A i \in 1..n - 1: s2[i] = IF i < j THEN s[i] ELSE s[i + 1]
  <2>. HIDE DEF k
  <2>1. left \in Seq(Entries) /\ planned \in Seq(Entries) /\ k \in Nat /\ k < Len(planned)
    BY <1>1, <1>4
  <2>2. /\ Rest(left, planned, k + 1) = Rest(left, planned, k) - 1
        /\ \A i \in 1..Rest(left, planned, k) - 1:
             Whole(left, planned, k + 1)[i] =
               IF i < Len(left) + 1 THEN Whole(left, planned, k)[i]
                                    ELSE Whole(left, planned, k)[i + 1]
        /\ \A x \in Entries:
             /\ left \o <<x>> \in Seq(Entries) /\ Len(left \o <<x>>) = Len(left) + 1
             /\ Rest(left \o <<x>>, planned, k + 1) = Rest(left, planned, k)
             /\ \A i \in 1..Rest(left, planned, k):
                  Whole(left \o <<x>>, planned, k + 1)[i] =
                    IF i = Len(left) + 1 THEN x ELSE Whole(left, planned, k)[i]
    BY ONLY <2>1, WholeNext
  <2>4. ASSUME NEW x \in Entries, left' = left \o <<x>>
        PROVE  /\ left' \in Seq(Entries) /\ Len(left') + 1 = j + 1 /\ n2 = n
               /\ \A i \in 1..n: s2[i] = IF i = j THEN x ELSE s[i]
    BY ONLY <2>2, <2>4
  <2>5. ASSUME left' = left
        PROVE  /\ left' \in Seq(Entries) /\ Len(left') + 1 = j /\ n2 = n - 1
               /\ \A i \in 1..n - 1: s2[i] = IF i < j THEN s[i] ELSE s[i + 1]
    BY ONLY <2>1, <2>2, <2>5
  <2>. QED
    BY ONLY <2>4, <2>5
<1>9. n \in Nat /\ j \in Nat
  BY <1>1 DEF Walking
<1>. HIDE DEF k, j, s, n
<1>. DEFINE Goes == /\ left' \in Seq(Entries)
                    /\ Walking(wmem', s2, n2, Len(left') + 1)
                    /\ pos' = Spot(class, s2, n2, Len(left') + 1)
<1>10. ASSUME body = Kept PROVE Goes
  <2>1. wmem' = wmem /\ left' = left \o <<pos>>
    BY <1>2, <1>10 DEF Kept
  <2>2. left' \in Seq(Entries) /\ Len(left') + 1 = j + 1 /\ n2 = n /\ \A i \in 1..n: s2[i] = s[i]
    BY <1>3, <1>4, <1>8, <2>1
  <2>3. s2 = s
    <3>1. s2 = [i \in 1..n |-> s2[i]]
      BY <2>2 DEF Whole
    <3>2. s = [i \in 1..n |-> s[i]]
      BY DEF s, n, Whole
    <3>. HIDE DEF s2
    <3>3. [i \in 1..n |-> s2[i]] = [i \in 1..n |-> s[i]]
      BY <2>2
    <3>. QED
      BY <3>1, <3>2, <3>3
  <2>4. Walking(wmem', s2, n2, Len(left') + 1)
    <3>1. j + 1 \in 1..n + 1
      BY <1>4, <1>9
    <3>. QED
      BY <1>1, <2>1, <2>2, <2>3, <3>1 DEF Walking
  <2>5. pos' = nxt
    BY <1>1, <1>2, <2>1 DEF Advance
  <2>. QED
    BY <1>7, <2>2, <2>3, <2>4, <2>5
<1>11. ASSUME loop.safe, body \in Removed PROVE Goes
  <2>1. PICK m \in {list_del(wmem, pos), list_del_init(wmem, pos), list_move(wmem, pos, other)}:
            wmem' = m /\ left' = left
    <3>1. PICK m \in {list_del(wmem, pos), list_del_init(wmem, pos),
                      list_move(wmem, pos, other)}: body = [mem |-> m, stays |-> <<>>]
      BY <1>11 DEF Removed
    <3>2. body.mem = m /\ body.stays = <<>> /\ left \o <<>> = left
      BY <1>1, <3>1
    <3>. QED
      BY <1>2, <3>2
  <2>2. left' \in Seq(Entries) /\ Len(left') + 1 = j /\ n2 = n - 1
        /\ \A i \in 1..n - 1: s2[i] = IF i < j THEN s[i] ELSE s[i + 1]
    BY <1>8, <2>1
  <2>. HIDE DEF s2, n2
  <2>3. Walking(m, s2, n - 1, j)
    <3>1. PICK q: q = pos
      OBVIOUS
    <3>2. /\ j \in 1..n /\ Walking(wmem, s, n, j) /\ loop \in [back: BOOLEAN, safe: BOOLEAN]
          /\ q = s[j]
          /\ m \in {list_del(wmem, q), list_del_init(wmem, q), list_move(wmem, q, other)}
          /\ Drops(s, n, j, s2)
      BY <1>1, <1>4, <2>2, <3>1 DEF Drops
    <3>. QED
      BY ONLY <3>2, WalkRemoves
  <2>4. Spot(class, s2, n - 1, j) = Spot(class, s, n, j + 1)
    <3>1. CASE j = n
      BY <1>9, <3>1 DEF Spot
    <3>2. CASE j # n
      <4>1. j \in 1..n - 1 /\ j + 1 \in 1..n /\ ~(j < j)
        BY <1>4, <1>9, <3>2
      <4>. QED
        BY <2>2, <4>1 DEF Spot
    <3>. QED
      BY <3>1, <3>2
  <2>5. pos' = nxt
    BY <1>2, <1>11 DEF Advance
  <2>. QED
    BY <1>7, <2>1, <2>2, <2>3, <2>4, <2>5
<1>12. ASSUME NEW new \in Fresh,
              body = Swapped(new) \/ (loop.safe /\ body = Replaced(new))
       PROVE  Goes
  <2>1. PICK m: m = body.mem
    OBVIOUS
  <2>2. /\ m \in {list_replace(wmem, pos, new),
                  list_del_init(list_replace_init(wmem, pos, new), pos)}
        /\ body.stays = <<new>> /\ new \in Entries
        /\ ~ loop.safe => m = list_replace(wmem, pos, new)
    BY <1>12, <2>1 DEF Swapped, Replaced, Fresh
  <2>3. wmem' = m /\ left' = left \o <<new>> /\ Advance(m)
    BY <1>2, <2>1, <2>2
  <2>4. left' \in Seq(Entries) /\ Len(left') + 1 = j + 1 /\ n2 = n
        /\ \A i \in 1..n: s2[i] = IF i = j THEN new ELSE s[i]
    BY <1>8, <2>2, <2>3
  <2>. HIDE DEF s2, n2
  <2>5. /\ Walking(m, s2, n, j + 1)
        /\ m = list_replace(wmem, pos, new)
             => m.next[pos] = wmem.next[pos] /\ m.prev[pos] = wmem.prev[pos]
    <3>1. PICK q: q = pos
      OBVIOUS
    <3>2. /\ j \in 1..n /\ Walking(wmem, s, n, j) /\ loop \in [back: BOOLEAN, safe: BOOLEAN]
          /\ q = s[j] /\ new \in Fresh
          /\ m \in {list_replace(wmem, q, new), list_del_init(list_replace_init(wmem, q, new), q)}
          /\ \A i \in 1..n: s2[i] = IF i = j THEN new ELSE s[i]
      BY <1>1, <1>4, <2>2, <2>4, <3>1
    <3>3. /\ Walking(m, s2, n, j + 1)
          /\ m = list_replace(wmem, q, new)
               => m.next[q] = wmem.next[q] /\ m.prev[q] = wmem.prev[q]
      BY ONLY <3>2, WalkReplaces
    <3>. QED
      BY <3>1, <3>3
  <2>6. pos' = nxt
    <3>1. ~ loop.safe => Onward(m, pos) = Onward(wmem, pos)
      BY <2>2, <2>5 DEF Onward
    <3>. QED
      BY <1>1, <2>3, <3>1 DEF Advance
  <2>7. Spot(class, s2, n, j + 1) = Spot(class, s, n, j + 1)
    <3>1. j + 1 # j
      BY <1>9
    <3>. QED
      BY <2>4, <3>1 DEF Spot
  <2>8. Walking(wmem', s2, n2, Len(left') + 1)
    BY ONLY <2>3, <2>4, <2>5
  <2>9. pos' = Spot(class, s2, n2, Len(left') + 1)
    BY ONLY <1>7, <2>4, <2>6, <2>7
  <2>. QED
    BY ONLY <2>4, <2>8, <2>9
<1>13. Goes
  <2>1. \/ body = Kept
        \/ loop.safe /\ body \in Removed
        \/ \E new \in Fresh: body = Swapped(new) \/ (loop.safe /\ body = Replaced(new))
    BY <1>2 DEF Bodies
  <2>. QED
    BY <1>10, <1>11, <1>12, <2>1
<1>14. nxt' = Onward(wmem', pos')
  BY <1>2 DEF Advance
<1>. HIDE DEF s2, n2
<1>15. Onward(wmem', pos') = Onward(wmem, pos)'
  BY <1>3 DEF Onward
<1>16. Walking(wmem', s2, n2, Len(left') + 1)
         = Walking(wmem, Whole(left, planned, Len(seen)), Rest(left, planned, Len(seen)),
                   Len(left) + 1)'
  BY <1>3, <1>6 DEF Walking, Forth, Backwards
<1>. QED
  BY <1>1, <1>3, <1>5, <1>6, <1>13, <1>14, <1>15, <1>16 DEF WalkInv

(* What the invariant says when the loop has ended is the property.         *)
LEMMA WalkSees ==
  ASSUME WalkInv
  PROVE  WalkSeesEach
<1>. DEFINE k == Len(seen)
            s == Whole(left, planned, k)
            n == Rest(left, planned, k)
<1>1. /\ loop \in [back: BOOLEAN, safe: BOOLEAN]
      /\ planned \in Seq(Entries) /\ seen \in Seq(Entries) /\ left \in Seq(Entries)
      /\ k \in Nat /\ k <= Len(planned) /\ \A i \in 1..k: seen[i] = planned[i]
      /\ Walking(wmem, s, n, Len(left) + 1)
      /\ pos = Spot(class, s, n, Len(left) + 1)
  BY DEF WalkInv
<1>2. IsPrefix(seen, planned)
  <2>. DEFINE u == SubSeq(planned, 1, k)
  <2>1. \A i \in 1..k: planned[i] \in Entries
    BY <1>1
  <2>2. 1 \in Int /\ k \in Int
    BY <1>1
  <2>. HIDE DEF k
  <2>3. /\ u \in Seq(Entries) /\ Len(u) = IF 1 <= k THEN k - 1 + 1 ELSE 0
        /\ \A i \in 1..k - 1 + 1: u[i] = planned[1 + i - 1]
    BY ONLY <2>1, <2>2, SubSeqProperties
  <2>4. k - 1 + 1 = k /\ \A i \in 1..k: 1 + i - 1 = i
    BY <1>1
  <2>5. Len(u) = k /\ \A i \in 1..k: u[i] = planned[i]
    BY <1>1, <2>3, <2>4
  <2>. HIDE DEF u
  <2>6. u = seen
    BY <1>1, <2>3, <2>5 DEF k
  <2>7. SubSeq(seen, 1, Len(seen)) = seen
    <3>1. seen \in Seq(Entries)
      BY <1>1
    <3>. QED
      BY ONLY <3>1, SubSeqFull
  <2>. QED
    BY <1>1, <2>6, <2>7 DEF IsPrefix, u, k
<1>3. pos \in Entries \cup {class}
  BY <1>1 DEF Walking, Spot
<1>4. ASSUME pos = class PROVE seen = planned /\ IsRing(Ordered(left))
  <2>1. \A i \in 1..n: s[i] # class
    BY <1>1 DEF Walking, Distinct
  <2>2. Len(left) + 1 \notin 1..n /\ n \in Nat /\ Len(left) + 1 \in 1..n + 1
    BY <1>1, <1>4, <2>1 DEF Spot, Walking
  <2>3. n = Len(left) /\ k = Len(planned)
    <3>1. n = Len(left) + Len(planned) - k
      BY DEF Rest
    <3>2. Len(left) \in Nat /\ Len(planned) \in Nat /\ k \in Nat
      BY <1>1
    <3>. HIDE DEF n, k
    <3>3. n = Len(left)
      BY <2>2, <3>2
    <3>. QED
      BY ONLY <3>1, <3>2, <3>3
  <2>4. seen = planned
    BY <1>1, <2>3
  <2>5. s = left
    <3>1. \A i \in 1..n: s[i] = left[i]
      BY <2>3 DEF Whole
    <3>2. s = [i \in 1..n |-> s[i]]
      BY DEF Whole
    <3>3. left = [i \in 1..n |-> left[i]]
      BY <1>1, <2>3
    <3>. HIDE DEF s
    <3>. QED
      BY <3>1, <3>2, <3>3
  <2>6. Round(Forth(wmem), Backwards(wmem), class, left, Len(left))
    BY <1>1, <2>3, <2>5 DEF Walking
  <2>7. IsRing(Ordered(left))
    <3>. DEFINE o == Ordered(left)
                N == Len(left)
                ring == <<class>> \o o \o <<class>>
    <3>1. N \in Nat /\ o \in Seq(Entries) /\ Len(o) = N
          /\ \A i \in 1..N: o[i] = IF loop.back THEN left[N - i + 1] ELSE left[i]
      BY <1>1 DEF Ordered, Reverse
    <3>. HIDE DEF o, N
    <3>2. Len(ring) = N + 2 /\ \A i \in 0..N + 1: ring[i + 1] = Spot(class, o, N, i)
      BY <3>1 DEF Spot
    <3>. HIDE DEF ring
    <3>3. ASSUME NEW i \in 0..N
          PROVE  /\ wmem.next[Spot(class, o, N, i)] = Spot(class, o, N, i + 1)
                 /\ wmem.prev[Spot(class, o, N, i + 1)] = Spot(class, o, N, i)
      <4>1. CASE ~ loop.back
        <5>1. \A x \in 0..N + 1: Spot(class, o, N, x) = Spot(class, left, N, x)
          BY <3>1, <4>1 DEF Spot
        <5>2. i \in 0..N + 1 /\ i + 1 \in 0..N + 1
          BY <3>1
        <5>. QED
          BY <2>6, <4>1, <5>1, <5>2 DEF Round, Forth, Backwards, N
      <4>2. CASE loop.back
        <5>1. \A x \in 0..N + 1: Spot(class, o, N, x) = Spot(class, left, N, N - x + 1)
          BY <3>1, <4>2 DEF Spot
        <5>2. /\ i \in 0..N + 1 /\ i + 1 \in 0..N + 1 /\ N - i \in 0..N
              /\ N - (i + 1) + 1 = N - i /\ N - i + 1 = (N - i) + 1
          BY <3>1
        <5>3. /\ Spot(class, o, N, i) = Spot(class, left, N, (N - i) + 1)
              /\ Spot(class, o, N, i + 1) = Spot(class, left, N, N - i)
          BY <5>1, <5>2
        <5>. QED
          BY <2>6, <4>2, <5>2, <5>3 DEF Round, Forth, Backwards, N
      <4>. QED
        BY <4>1, <4>2
    <3>4. ASSUME NEW i \in 1..Len(ring) - 1
          PROVE  wmem.next[ring[i]] = ring[i + 1] /\ wmem.prev[ring[i + 1]] = ring[i]
      <4>1. PICK x \in 0..N: i = x + 1 /\ x \in 0..N + 1 /\ x + 1 \in 0..N + 1
        <5>1. i - 1 \in 0..N /\ i = (i - 1) + 1
              /\ i - 1 \in 0..N + 1 /\ (i - 1) + 1 \in 0..N + 1
          BY <3>1, <3>2
        <5>. QED
          BY <5>1
      <4>2. ring[i] = Spot(class, o, N, x) /\ ring[i + 1] = Spot(class, o, N, x + 1)
        BY <3>2, <4>1
      <4>. QED
        BY <3>3, <4>2
    <3>. QED
      BY <3>4 DEF IsRing, ring, o
  <2>. QED
    BY <2>4, <2>7
<1>. QED
  BY <1>2, <1>3, <1>4 DEF WalkSeesEach

(* The loop is always at the spot of the ring that comes behind what it has *)
(* left, whatever the bodies of list_for_each_safe and its relatives do.    *)
THEOREM WalkInvariant == WalkSpec => []WalkInv
<1>1. WalkInit => WalkInv
  BY WalkStarts
<1>2. WalkInv /\ [WalkNext]_walkVars => WalkInv'
  <2>. SUFFICES ASSUME WalkInv, [WalkNext]_walkVars PROVE WalkInv'
    OBVIOUS
  <2>1. CASE Iterate
    BY <2>1, WalkStep
  <2>2. CASE UNCHANGED walkVars
    BY <2>2 DEF walkVars, WalkInv, Walking, Forth, Backwards, Whole, Rest, Onward
  <2>. QED
    BY <2>1, <2>2 DEF WalkNext
<1>. QED
  BY <1>1, <1>2, PTL DEF WalkSpec

(* list_for_each and its relatives come by each entry once and in order and *)
(* end at the head, and the list is then what the bodies have left.         *)
THEOREM LoopsAlwaysSeeEach == WalkSpec => []WalkSeesEach
<1>1. WalkInv => WalkSeesEach
  BY WalkSees
<1>. QED
  BY <1>1, WalkInvariant, PTL
=============================================================================
