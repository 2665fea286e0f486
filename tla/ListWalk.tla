------------------------------ MODULE ListWalk ------------------------------
(***************************************************************************)
(* The loops over a list: list_for_each with its relatives, forward and    *)
(* backward, plain and safe, from the head or from a given entry, while    *)
(* the body of the loop removes, moves or replaces the entry it is at, as  *)
(* list_test.c and sensor_list do.                                         *)
(***************************************************************************)
EXTENDS ListHeap

CONSTANTS
    class,      \* the head of the list that is walked
    other       \* a head the body may move entries to

ASSUME WalkAssumption ==
    /\ class \in Heads /\ other \in Heads /\ class # other

VARIABLES
    wmem,       \* the pointers of all cells
    loop,       \* the macro: its direction and whether it is a safe one
    pos, nxt,   \* the cursors of the loop; a plain loop has no nxt
    planned,    \* the entries it should come by, in order
    seen,       \* those it has come by
    left        \* what should be on the list when it has ended

walkVars == <<wmem, loop, pos, nxt, planned, seen, left>>

Onward(m, c) == IF loop.back THEN m.prev[c] ELSE m.next[c]
Ordered(s) == IF loop.back THEN Reverse(s) ELSE s

Built(members) ==
    LET empty == [next |-> [c \in Cells |-> IF c \in {class, other} THEN c ELSE NULL],
                  prev |-> [c \in Cells |-> IF c \in {class, other} THEN c ELSE NULL]]
    IN  ListOf(empty, class, members)

WalkInit ==
    \E members \in SeqOf(Entries, Cardinality(Entries)), back, safe \in BOOLEAN:
        /\ IsInjective(members)
        /\ loop = [back |-> back, safe |-> safe]
        /\ wmem = Built(members)
        /\ \E k \in 0..Len(members):
             \* after is the head, or the entry a _continue loop goes on from.
             LET run == IF back THEN Reverse(members) ELSE members
                 after == IF k = 0 THEN class ELSE run[k]
             IN  /\ pos = Onward(wmem, after)
                 /\ nxt = Onward(wmem, pos)
                 /\ planned = SubSeq(run, k + 1, Len(run))
                 /\ left = SubSeq(run, 1, k)
        /\ seen = <<>>

\* What a body may do to the entry it is at, and what that leaves in its place.
Kept == [mem |-> wmem, stays |-> <<pos>>]
Removed == {[mem |-> m, stays |-> <<>>]:
              m \in {list_del(wmem, pos), list_del_init(wmem, pos), list_move(wmem, pos, other)}}
\* The second line is the statement that list_test.c keeps as a comment.
Replaced(new) == [mem |-> list_del_init(list_replace_init(wmem, pos, new), pos),
                  stays |-> <<new>>]
Swapped(new) == [mem |-> list_replace(wmem, pos, new), stays |-> <<new>>]

Fresh == {e \in Entries: wmem.next[e] = NULL}

\* A plain loop may only keep the entry or leave its pointers as they are.
Bodies ==
    {Kept} \cup {Swapped(new): new \in Fresh}
           \cup IF loop.safe THEN Removed \cup {Replaced(new): new \in Fresh} ELSE {}

\* MUTANT: the safe loop is written with the plain macro.
Advance_plain(m) ==
    /\ pos' = Onward(m, pos)
    /\ nxt' = IF pos' \in Cells THEN Onward(m, pos') ELSE NULL

\* The third expression of the for: a safe loop goes to the entry it noted.
Advance(m) ==
    /\ pos' = IF loop.safe THEN nxt ELSE Onward(m, pos)
    /\ nxt' = Onward(m, pos')

Iterate ==
    /\ pos \in Entries /\ Len(seen) <= Len(planned)
    /\ \E body \in Bodies:
        /\ wmem' = body.mem
        /\ left' = left \o body.stays
        /\ Advance(body.mem)
    /\ seen' = Append(seen, pos)
    /\ UNCHANGED <<loop, planned>>

WalkNext == Iterate

WalkSpec == WalkInit /\ [][WalkNext]_walkVars
-----------------------------------------------------------------------------
\* The pointers of a sequence of cells, closed through the head.
IsRing(s) ==
    LET ring == <<class>> \o s \o <<class>>
    IN  \A k \in 1..(Len(ring) - 1): /\ wmem.next[ring[k]] = ring[k + 1]
                                     /\ wmem.prev[ring[k + 1]] = ring[k]

(* Every loop comes by each entry of the list once and in order, and ends
   at the head, although the body takes the entry it is at off the list,
   poisons or reinitialises its pointers, moves it to another list or puts a
   new entry in its place.  When the loop has ended, the list is what the
   bodies have left.  The comment of list_test.c:57 says otherwise of one
   case, list_replace in a safe loop, "it will stop": it does not, because
   list_replace leaves the pointers of the old entry as they are and the loop
   has noted where it goes on before its body runs. *)
WalkSeesEach ==
    /\ pos \in Entries \cup {class}
    /\ IsPrefix(seen, planned)
    /\ pos = class => seen = planned /\ IsRing(Ordered(left))
=============================================================================
