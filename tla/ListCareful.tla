----------------------------- MODULE ListCareful -----------------------------
(***************************************************************************)
(* list_empty_careful without the lock: one processor takes entries off a  *)
(* list with list_del_init, a store at a time, while another one asks      *)
(* whether a cell is on its own.                                           *)
(***************************************************************************)
EXTENDS ListHeap

CONSTANT Listed         \* how many entries may be on the list

ASSUME ListedAssumption == Listed \in Nat

VARIABLES
    listed,     \* the head of the list and its entries, in order
    cmem,       \* the pointers of all cells
    stores,     \* the stores list_del_init has still to do, in order
    asked,      \* the cell the reader asks about, or NULL
    half,       \* the next pointer it has loaded
    answer      \* what list_empty_careful returned about asked

carefulVars == <<listed, cmem, stores, asked, half, answer>>

CarefulInit ==
    /\ \E h \in Heads, entries \in SeqOf(Entries, Listed):
          IsInjective(entries) /\ listed = <<h>> \o entries
    /\ cmem = ListOf(INIT_LIST_HEAD([next |-> [c \in Cells |-> NULL],
                                     prev |-> [c \in Cells |-> NULL]], Head(listed)),
                     Head(listed), Tail(listed))
    /\ stores = <<>>
    /\ asked = NULL /\ half = NULL /\ answer = FALSE

Store(field, cell, pointer) == [field |-> field, cell |-> cell, pointer |-> pointer]

\* The deleter, which has the lock, loads both pointers of the entry.
DelInitBegins(entry) ==
    /\ stores = <<>> /\ cmem.next[entry] # entry
    /\ stores' = <<Store("prev", cmem.next[entry], cmem.prev[entry]),
                   Store("next", cmem.prev[entry], cmem.next[entry]),
                   Store("next", entry, entry),
                   Store("prev", entry, entry)>>
    /\ UNCHANGED <<listed, cmem, asked, half, answer>>

DelInitStores ==
    /\ stores # <<>>
    /\ LET s == Head(stores)
       IN  cmem' = IF s.field = "next" THEN SetNext(cmem, s.cell, s.pointer)
                                       ELSE SetPrev(cmem, s.cell, s.pointer)
    /\ stores' = Tail(stores)
    /\ UNCHANGED <<listed, asked, half, answer>>

\* The reader loads next, and prev only later.
AskNext(c) ==
    /\ half = NULL
    /\ asked' = c /\ half' = cmem.next[c] /\ answer' = FALSE
    /\ UNCHANGED <<listed, cmem, stores>>

\* MUTANT: list_empty, which looks at next only.
list_empty_careful_not(c) == half = c

list_empty_careful(c) == half = c /\ half = cmem.prev[c]

AskPrev ==
    /\ half # NULL
    /\ answer' = list_empty_careful(asked)
    /\ half' = NULL
    /\ UNCHANGED <<listed, cmem, stores, asked>>

CarefulNext ==
    \/ \E entry \in Range(Tail(listed)): DelInitBegins(entry)
    \/ DelInitStores
    \/ \E c \in Range(listed): AskNext(c)
    \/ AskPrev

CarefulSpec == CarefulInit /\ [][CarefulNext]_carefulVars
-----------------------------------------------------------------------------
(* When list_empty_careful says that a cell is on its own, no other
   processor is still modifying it: its object may be freed.  The comment of
   list.h claims it for programs that only call list_del_init. *)
CarefulMeansDone ==
    answer => /\ \A k \in DOMAIN stores: stores[k].cell # asked
              /\ cmem.next[asked] = asked /\ cmem.prev[asked] = asked
=============================================================================
