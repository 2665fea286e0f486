------------------------------ MODULE HashList ------------------------------
(***************************************************************************)
(* The lists with a single-pointer head of list.h (hlist).  A node points  *)
(* to the next node and, in pprev, to the pointer that points to it: the   *)
(* first of a bucket or the next of another node.  Both kinds of pointer   *)
(* are the field slot of a cell, so pprev is the cell that has it.         *)
(***************************************************************************)
EXTENDS SinglyLinked

CONSTANTS
    Buckets,            \* the struct hlist_head of the program
    Nodes,              \* the struct hlist_node embedded in its objects
    HNULL,              \* the null pointer
    HPOISON             \* LIST_POISON1 and LIST_POISON2

Slots == Buckets \cup Nodes

ASSUME SlotsAssumption ==
    /\ IsFiniteSet(Nodes)
    /\ Buckets \cap Nodes = {}
    /\ HNULL \notin Slots /\ HPOISON \notin Slots /\ HNULL # HPOISON

VARIABLES
    slot,       \* first of a bucket, next of a node
    pprev,      \* the cell whose slot points to the node
    hashed      \* the nodes that are on a list

hashVars == <<slot, pprev, hashed>>

\* hlist_unhashed: never added, or removed by hlist_del_init.
hlist_unhashed(n) == pprev[n] = HNULL

hlist_fake(n) == pprev[n] = n

\* A node that may be added: nothing points to it.
Loose(n) == n \notin hashed

\* The stores to the pprev of a node, if there is one.
SetPprev(f, n, p) == IF n \in Nodes THEN [f EXCEPT ![n] = p] ELSE f

HashInit ==
    /\ slot = [c \in Slots |-> HNULL]
    /\ pprev = [n \in Nodes |-> HNULL]
    /\ hashed = {}

INIT_HLIST_NODE(n) ==
    /\ Loose(n)
    /\ slot' = [slot EXCEPT ![n] = HNULL]
    /\ pprev' = [pprev EXCEPT ![n] = HNULL]
    /\ UNCHANGED hashed

\* MUTANT: the node that was first still believes to be.
hlist_add_head_short(n, h) ==
    /\ Loose(n)
    /\ slot' = [slot EXCEPT ![n] = slot[h], ![h] = n]
    /\ pprev' = [pprev EXCEPT ![n] = h]
    /\ hashed' = hashed \cup {n}

hlist_add_head(n, h) ==
    /\ Loose(n)
    /\ slot' = [slot EXCEPT ![n] = slot[h], ![h] = n]
    /\ pprev' = [SetPprev(pprev, slot[h], n) EXCEPT ![n] = h]
    /\ hashed' = hashed \cup {n}

hlist_add_before(n, next) ==
    /\ Loose(n) /\ next \in hashed /\ ~ hlist_fake(next)
    /\ slot' = [slot EXCEPT ![n] = next, ![pprev[next]] = n]
    /\ pprev' = [pprev EXCEPT ![n] = pprev[next], ![next] = n]
    /\ hashed' = hashed \cup {n}

hlist_add_behind(n, prev) ==
    /\ Loose(n) /\ prev \in hashed /\ ~ hlist_fake(prev)
    /\ slot' = [slot EXCEPT ![n] = slot[prev], ![prev] = n]
    /\ pprev' = [SetPprev(pprev, slot[prev], n) EXCEPT ![n] = prev]
    /\ hashed' = hashed \cup {n}

\* __hlist_del: the slot that points to n takes over what n points to.
Bypass(n, next, back) ==
    /\ slot' = [slot EXCEPT ![pprev[n]] = slot[n], ![n] = next]
    /\ pprev' = [SetPprev(pprev, slot[n], pprev[n]) EXCEPT ![n] = back]
    /\ hashed' = hashed \ {n}

hlist_del(n) == n \in hashed /\ Bypass(n, HPOISON, HPOISON)

\* Does nothing for a node that is not on a list.
hlist_del_init(n) ==
    /\ pprev[n] # HPOISON
    /\ IF hlist_unhashed(n) THEN UNCHANGED hashVars ELSE Bypass(n, HNULL, HNULL)

\* The node pretends to be on a list: its pprev is its own slot.
hlist_add_fake(n) ==
    /\ hlist_unhashed(n)
    /\ pprev' = [pprev EXCEPT ![n] = n]
    /\ hashed' = hashed \cup {n}
    /\ UNCHANGED slot

\* Of one list head to another one, which has no list: its nodes, or those of a
\* list that is moved onto itself, would be on no bucket and think they were.
hlist_move_list(old, new) ==
    /\ slot[new] = HNULL /\ old # new
    /\ slot' = [slot EXCEPT ![new] = slot[old], ![old] = HNULL]
    /\ pprev' = SetPprev(pprev, slot[old], new)
    /\ UNCHANGED hashed

HashNext ==
    \/ \E n \in Nodes, h \in Buckets: hlist_add_head(n, h)
    \/ \E n, next \in Nodes: hlist_add_before(n, next)
    \/ \E n, prev \in Nodes: hlist_add_behind(n, prev)
    \/ \E n \in Nodes: hlist_del(n) \/ hlist_del_init(n) \/ hlist_add_fake(n) \/ INIT_HLIST_NODE(n)
    \/ \E old, new \in Buckets: hlist_move_list(old, new)

HashSpec == HashInit /\ [][HashNext]_hashVars
-----------------------------------------------------------------------------
HashTypeOK ==
    /\ slot \in [Slots -> Nodes \cup {HNULL, HPOISON}]
    /\ pprev \in [Nodes -> Slots \cup {HNULL, HPOISON}]
    /\ hashed \in SUBSET Nodes

(* pprev is the pointer that points to the node: *pprev is the node, and the
   node a pointer points to has that pointer in pprev, so a node can be
   removed without its bucket being known.  hlist_unhashed tells exactly
   the nodes that were never added or that hlist_del_init has removed. *)
HashLinked ==
    /\ \A c \in Buckets \cup hashed:
          slot[c] = HNULL \/ (slot[c] \in hashed /\ pprev[slot[c]] = c)
    /\ \A n \in hashed:
          /\ pprev[n] \in Buckets \cup hashed
          /\ slot[pprev[n]] = n \/ (hlist_fake(n) /\ slot[n] = HNULL)
    /\ \A n \in Nodes: n \notin hashed <=> pprev[n] \in {HNULL, HPOISON}
    /\ \A n \in Nodes: hlist_unhashed(n) => slot[n] = HNULL

\* The nodes of a bucket in the order of hlist_for_each.
Chain(b) == Along(slot, b, Nodes)
Chains == [b \in Buckets |-> Chain(b)]
HashRules == INSTANCE ListRules WITH Heads <- Buckets, Entries <- Nodes, lists <- Chains

HashPromise ==
    \/ \E n \in Nodes, b \in Buckets: \E k \in 1..(Len(Chain(b)) + 1): HashRules!PutNew(n, b, k)
    \/ \E n \in Nodes: HashRules!TakeOut(n)
    \/ \E old, new \in Buckets: Chain(new) = <<>> /\ HashRules!JoinFirst(old, new)

(* The buckets are sequences: a node is put somewhere on one of them or taken
   out, and hlist_move_list moves all of them in their order. *)
HashKeepsSequences == HashRules!Init /\ [][HashPromise]_Chains
=============================================================================
