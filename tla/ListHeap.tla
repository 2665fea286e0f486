------------------------------ MODULE ListHeap ------------------------------
(***************************************************************************)
(* The doubly linked lists of list.h.  A list is a ring of cells: a head   *)
(* and the entries threaded on it.  The memory is a record of two          *)
(* functions, the next and the prev pointer of every cell; an operation    *)
(* is an operator from memories to memories that performs the stores of    *)
(* the C function in their order, which matters because prev and next may  *)
(* be the same cell.                                                       *)
(***************************************************************************)
EXTENDS Integers, Sequences, FiniteSets, SequencesExt

CONSTANTS
    Heads,          \* the list heads of the program
    Entries,        \* the struct list_head embedded in its objects
    NULL,           \* a pointer of an object that was never on a list
    LIST_POISON1,   \* what list_del leaves in next
    LIST_POISON2    \* what list_del leaves in prev

Cells == Heads \cup Entries
Pointers == Cells \cup {NULL, LIST_POISON1, LIST_POISON2}

ASSUME CellsAssumption ==
    /\ IsFiniteSet(Entries)
    /\ Heads \cap Entries = {}
    /\ Cells \cap {NULL, LIST_POISON1, LIST_POISON2} = {}

Memories == [next: [Cells -> Pointers], prev: [Cells -> Pointers]]

SetNext(m, c, p) == [m EXCEPT !.next[c] = p]
SetPrev(m, c, p) == [m EXCEPT !.prev[c] = p]

INIT_LIST_HEAD(m, list) == SetPrev(SetNext(m, list, list), list, list)

\* MUTANT: the back pointer of the next cell is forgotten.
list_link_one_way(m, new, prev, next) ==
    SetNext(SetPrev(SetNext(m, new, next), new, prev), prev, new)

list_link(m, new, prev, next) ==
    SetNext(SetPrev(SetNext(SetPrev(m, next, new), new, next), new, prev), prev, new)

list_unlink(m, prev, next) == SetNext(SetPrev(m, next, prev), prev, next)

list_add(m, new, head) == list_link(m, new, head, m.next[head])
list_add_tail(m, new, head) == list_link(m, new, m.prev[head], head)

\* The list of head once list_add_tail has put the members of es on it.
ListOf(m, head, es) ==
    LET built[k \in 0..Len(es)] ==
            IF k = 0 THEN m ELSE list_add_tail(built[k - 1], es[k], head)
    IN  built[Len(es)]

list_del_entry(m, entry) == list_unlink(m, m.prev[entry], m.next[entry])

list_del(m, entry) ==
    SetPrev(SetNext(list_del_entry(m, entry), entry, LIST_POISON1), entry, LIST_POISON2)

list_del_init(m, entry) == INIT_LIST_HEAD(list_del_entry(m, entry), entry)

\* Both neighbours are found through the pointers new has just been given.
list_replace(m, old, new) ==
    LET m1 == SetNext(m, new, m.next[old])
        m2 == SetPrev(m1, m1.next[new], new)
        m3 == SetPrev(m2, new, m2.prev[old])
    IN  SetNext(m3, m3.prev[new], new)

list_replace_init(m, old, new) == INIT_LIST_HEAD(list_replace(m, old, new), old)

list_move(m, list, head) == list_add(list_del_entry(m, list), list, head)
list_move_tail(m, list, head) == list_add_tail(list_del_entry(m, list), list, head)

list_empty(m, head) == m.next[head] = head
list_is_singular(m, head) == ~ list_empty(m, head) /\ m.next[head] = m.prev[head]

list_rotate_left(m, head) ==
    IF list_empty(m, head) THEN m ELSE list_move_tail(m, m.next[head], head)

\* MUTANT: the cut is made in front of the entry.
list_cut_at_before(m, list, head, entry) ==
    LET m1 == SetNext(m, list, m.next[head])
        m2 == SetPrev(m1, m1.next[list], list)
        m3 == SetNext(SetPrev(m2, list, m.prev[entry]), m2.prev[entry], list)
    IN  SetPrev(SetNext(m3, head, entry), entry, head)

list_cut_at(m, list, head, entry) ==
    LET new_first == m.next[entry]
        m1 == SetNext(m, list, m.next[head])
        m2 == SetPrev(m1, m1.next[list], list)
        m3 == SetNext(SetPrev(m2, list, entry), entry, list)
    IN  SetPrev(SetNext(m3, head, new_first), new_first, head)

list_cut_position(m, list, head, entry) ==
    CASE list_empty(m, head) -> m
      [] list_is_singular(m, head) /\ entry \notin {m.next[head], head} -> m
      [] OTHER -> IF entry = head THEN INIT_LIST_HEAD(m, list)
                                  ELSE list_cut_at(m, list, head, entry)

list_splice_between(m, list, prev, next) ==
    LET first == m.next[list]
        last  == m.prev[list]
    IN  SetPrev(SetNext(SetNext(SetPrev(m, first, prev), prev, first), last, next), next, last)

list_splice(m, list, head) ==
    IF list_empty(m, list) THEN m ELSE list_splice_between(m, list, head, m.next[head])

list_splice_tail(m, list, head) ==
    IF list_empty(m, list) THEN m ELSE list_splice_between(m, list, m.prev[head], head)

list_splice_init(m, list, head) ==
    IF list_empty(m, list) THEN m ELSE INIT_LIST_HEAD(list_splice(m, list, head), list)

list_splice_tail_init(m, list, head) ==
    IF list_empty(m, list) THEN m ELSE INIT_LIST_HEAD(list_splice_tail(m, list, head), list)

\* The right-hand side of the second assignment reads the first one's target.
list_del_range(m, begin, end) ==
    LET m1 == SetNext(m, m.prev[begin], m.next[end])
    IN  SetPrev(m1, m1.next[end], m1.prev[begin])
=============================================================================
