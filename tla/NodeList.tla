------------------------------ MODULE NodeList ------------------------------
(***************************************************************************)
(* The singly linked list of list_operation.c: a head node without data,   *)
(* the creation of the list node by node, and the three ways of adding a   *)
(* node.  The next pointer of a new node is what malloc left there.        *)
(***************************************************************************)
EXTENDS SinglyLinked

CONSTANTS
    head,           \* the head node
    Items,          \* the nodes malloc can return
    NIL,            \* the null pointer
    JUNK            \* a pointer that was never assigned

ASSUME NodeAssumption ==
    /\ IsFiniteSet(Items)
    /\ {head, NIL, JUNK} \cap Items = {}

VARIABLES
    next,           \* the next pointer of every node
    unused,         \* the nodes malloc has not returned yet
    p,              \* the last node while the list is created
    phase           \* "create" until create_list returns, then "ready" or "failed"

nodeVars == <<next, unused, p, phase>>

NodeInit ==
    /\ next = [i \in Items \cup {head} |-> JUNK]
    /\ unused = Items
    /\ p = head
    /\ phase = "create"

\* create_list asks for one node at least, and for more as it is told.
CreateNode(i) ==
    /\ phase = "create" /\ i \in unused
    /\ next' = [next EXCEPT ![p] = i]
    /\ unused' = unused \ {i}
    /\ p' = i
    /\ UNCHANGED phase

CreateEnds ==
    /\ phase = "create" /\ p # head
    /\ next' = [next EXCEPT ![p] = NIL]
    /\ phase' = "ready"
    /\ UNCHANGED <<unused, p>>

\* malloc fails: main gives up, and the list is left without an end.
CreateFails ==
    /\ phase = "create"
    /\ phase' = "failed"
    /\ UNCHANGED <<next, unused, p>>

\* MUTANT: the old successor is read after it has been overwritten.
LinkBehind_late(at, i) ==
    /\ next' = [next EXCEPT ![at] = i, ![i] = i]
    /\ unused' = unused \ {i}
    /\ UNCHANGED <<p, phase>>

LinkBehind(at, i) ==
    /\ next' = [next EXCEPT ![at] = i, ![i] = next[at]]
    /\ unused' = unused \ {i}
    /\ UNCHANGED <<p, phase>>

\* The nodes in order; the creation's unfinished last pointer ends them too.
Content == Along(next, head, Items)

add_to_head(i) == phase = "ready" /\ i \in unused /\ LinkBehind(head, i)

\* The loop stops at the n-th node or at the last one.
add_to_mid(i, n) ==
    /\ phase = "ready" /\ i \in unused
    /\ IF n <= 0 THEN unused' = unused \ {i} /\ UNCHANGED <<next, p, phase>>
                 ELSE LinkBehind(Content[IF n <= Len(Content) THEN n ELSE Len(Content)], i)

add_to_tail(i) ==
    /\ phase = "ready" /\ i \in unused
    /\ next' = [next EXCEPT ![Last(Content)] = i, ![i] = NIL]
    /\ unused' = unused \ {i}
    /\ UNCHANGED <<p, phase>>

add_to_list(i) ==
    \/ add_to_head(i)
    \/ \E n \in 0..(Cardinality(Items) + 1): add_to_mid(i, n)
    \/ add_to_tail(i)

NodeNext ==
    \/ \E i \in Items: CreateNode(i) \/ add_to_list(i)
    \/ CreateEnds \/ CreateFails

NodeSpec == NodeInit /\ [][NodeNext]_nodeVars
-----------------------------------------------------------------------------
(* Once create_list has returned a list, print_list and list_size come to a
   null pointer: no node on the list has a pointer that was never assigned,
   and the list is never empty, which add_to_mid and add_to_tail rely on
   when they follow head->next unchecked. *)
EndsInNull ==
    phase = "ready" => Content # <<>> /\ next[Last(Content)] = NIL

ListOfHead == [h \in {head} |-> Content]
NodeRules == INSTANCE ListRules WITH Heads <- {head}, Entries <- Items, lists <- ListOfHead

(* A node is added somewhere, once, and those that were there before keep
   their order; the list can be followed to its end after each of it. *)
NodeKeepsSequence ==
    /\ NodeRules!Init
    /\ [][\E i \in Items: \E k \in 1..(Len(Content) + 1): NodeRules!PutNew(i, head, k)]_ListOfHead
    /\ [][EndsInNull']_nodeVars
=============================================================================
