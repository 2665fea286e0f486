----------------------------- MODULE KernelList -----------------------------
(***************************************************************************)
(* Programs that keep their objects on lists of list.h: any sequence of    *)
(* its operations, as long as every caller keeps to the rules of the       *)
(* header's comments.  A cell is live from the moment its pointers are set *)
(* up until an operation leaves them out of date (list_del poisons them,   *)
(* list_replace and list_splice leave the old ones behind) or its owner    *)
(* does not care about it any more.                                        *)
(***************************************************************************)
EXTENDS ListHeap

VARIABLES
    mem,    \* the pointers of all cells
    live    \* the cells whose pointers may be followed

listVars == <<mem, live>>

\* A cell that can be put on a list: never used, taken off, or on its own.
Idle(c) == c \notin live \/ mem.next[c] = c

\* The entries of a list in the order of list_for_each.
ContentsIn(m, h) ==
    LET trail[k \in 0..Cardinality(Entries)] ==
            IF k = 0 THEN <<h>>
            ELSE LET s == trail[k - 1]
                     c == Last(s)
                 IN  IF c \notin Cells \/ m.next[c] = h THEN s ELSE Append(s, m.next[c])
    IN  Tail(trail[Cardinality(Entries)])

Contents(h) == IF h \in live THEN ContentsIn(mem, h) ELSE <<>>

ListInit ==
    /\ mem = [next |-> [c \in Cells |-> IF c \in Heads THEN c ELSE NULL],
              prev |-> [c \in Cells |-> IF c \in Heads THEN c ELSE NULL]]
    /\ live = Heads

Init_(c) ==
    /\ c \notin live
    /\ mem' = INIT_LIST_HEAD(mem, c)
    /\ live' = live \cup {c}

Add(new, head) ==
    /\ Idle(new) /\ head \in live
    /\ mem' \in {list_add(mem, new, head), list_add_tail(mem, new, head)}
    /\ live' = live \cup {new}

Del(entry) ==
    /\ entry \in live
    /\ mem' = list_del(mem, entry)
    /\ live' = live \ {entry}

DelInit(entry) ==
    /\ entry \in live
    /\ mem' = list_del_init(mem, entry)
    /\ UNCHANGED live

Replace(old, new) ==
    /\ old \in live /\ Idle(new) /\ old # new
    /\ \/ /\ mem' = list_replace(mem, old, new)
          /\ live' = (live \ {old}) \cup {new}
       \/ /\ mem' = list_replace_init(mem, old, new)
          /\ live' = live \cup {new}

Move(entry, head) ==
    /\ {entry, head} \subseteq live
    /\ mem' \in {list_move(mem, entry, head), list_move_tail(mem, entry, head)}
    /\ UNCHANGED live

Rotate(head) ==
    /\ head \in live
    /\ mem' = list_rotate_left(mem, head)
    /\ UNCHANGED live

\* The cells list_for_each comes by from begin up to end.
IsRange(range, begin, end) ==
    /\ range \subseteq live \cap Entries
    /\ {begin, end} \subseteq range
    /\ mem.prev[begin] \notin range /\ mem.next[end] \notin range
    /\ \A c \in range: c = end \/ mem.next[c] \in range
    /\ \A part \in SUBSET range:
          begin \in part /\ (\A c \in part: c = end \/ mem.next[c] \in part) => part = range

\* The owner does not care about losing a list with all that hangs on it: the head
\* may be used as if it were new, also as the list that list_cut_position fills.
Forget(list) ==
    /\ \E gone \in SUBSET live:
         /\ gone \cap Heads = {list}
         /\ \A c \in gone: {mem.next[c], mem.prev[c]} \subseteq gone
         /\ live' = live \ gone
    /\ UNCHANGED mem

\* The header's comment asks for an entry of the list; its head means none.
Cut(list, head, entry) ==
    /\ list # head /\ Idle(list) /\ {head, entry} \subseteq live
    /\ \/ entry = head
       \/ \E range \in SUBSET Entries: IsRange(range, mem.next[head], entry)
    /\ mem' = list_cut_position(mem, list, head, entry)
    /\ live' = IF list_empty(mem, head) THEN live ELSE live \cup {list}

Splice(list, head) ==
    /\ list # head /\ {list, head} \subseteq live
    /\ \/ /\ mem' \in {list_splice(mem, list, head), list_splice_tail(mem, list, head)}
          /\ live' = IF list_empty(mem, list) THEN live ELSE live \ {list}
       \/ /\ mem' \in {list_splice_init(mem, list, head), list_splice_tail_init(mem, list, head)}
          /\ UNCHANGED live

DelRange(begin, end) ==
    \E range \in SUBSET Entries:
        /\ IsRange(range, begin, end)
        /\ mem' = list_del_range(mem, begin, end)
        /\ live' = live \ range

ListNext ==
    \/ \E c \in Cells: Init_(c)
    \/ \E new \in Entries, head \in Heads: Add(new, head)
    \/ \E entry \in Entries: Del(entry) \/ DelInit(entry)
    \/ \E old, new \in Entries: Replace(old, new)
    \/ \E entry \in Entries, head \in Heads: Move(entry, head)
    \/ \E head \in Heads: Rotate(head)
    \/ \E list \in Heads: Forget(list)
    \/ \E list, head \in Heads: \E entry \in Cells: Cut(list, head, entry)
    \/ \E list, head \in Heads: Splice(list, head)
    \/ \E begin, end \in Entries: DelRange(begin, end)

ListSpec == ListInit /\ [][ListNext]_listVars
-----------------------------------------------------------------------------
ListTypeOK == mem \in Memories /\ live \in SUBSET Cells

(* Following next and then prev, or prev and then next, leads back to the
   cell one started from, for every cell in use, whichever of the nineteen
   operations were called before in whichever order and on lists of whatever
   length: the stores of __list_add, __list_del, list_replace,
   __list_splice and __list_cut_position are right even when the cells they
   write are the same. *)
DoublyLinked ==
    \A c \in live: /\ mem.next[c] \in live /\ mem.prev[mem.next[c]] = c
                   /\ mem.prev[c] \in live /\ mem.next[mem.prev[c]] = c

(* What each operation does to the list it is called for, whatever the lists
   are: list_add puts the entry first and list_add_tail last, list_splice
   keeps the order of both lists, list_rotate_left sends the first entry to
   the end, and list_cut_position cuts behind the entry it is given. *)
EntriesInPlace ==
    \A head \in Heads \cap live:
      LET s == Contents(head)
      IN  /\ \A new \in Entries: Idle(new) =>
               /\ ContentsIn(list_add(mem, new, head), head) = <<new>> \o s
               /\ ContentsIn(list_add_tail(mem, new, head), head) = Append(s, new)
          /\ s # <<>> => ContentsIn(list_rotate_left(mem, head), head) = Append(Tail(s), s[1])
          /\ \A list \in (Heads \cap live) \ {head}:
               /\ ContentsIn(list_splice_init(mem, list, head), head) = Contents(list) \o s
               /\ ContentsIn(list_splice_tail_init(mem, list, head), head) = s \o Contents(list)
          /\ \A list \in Heads \ {head}, k \in DOMAIN s: Idle(list) =>
               LET m == list_cut_position(mem, list, head, s[k])
               IN  ContentsIn(m, list) \o ContentsIn(m, head) = s /\ Len(ContentsIn(m, list)) = k

Rules == INSTANCE ListRules WITH lists <- [h \in Heads |-> Contents(h)]

(* The pointers implement the sequences the comments of list.h speak of: a
   step changes no other list than the one it is called for, loses no entry
   and never has one on two lists; and the entry is where the operation's
   name says. *)
KeepsSequences == Rules!Spec /\ [][EntriesInPlace]_mem
=============================================================================
