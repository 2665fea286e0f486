------------------------------ MODULE ListRules ------------------------------
(***************************************************************************)
(* What a linked list promises its callers, whatever its pointers look     *)
(* like: every head has a sequence of entries, an entry is on at most one  *)
(* of them, and an operation puts an entry at a place, takes entries out,  *)
(* swaps one for another, or cuts and joins whole sequences.               *)
(***************************************************************************)
EXTENDS Integers, Sequences, SequencesExt

CONSTANTS Heads, Entries

VARIABLE lists

OnSomeList(e) == \E h \in Heads: e \in Range(lists[h])
Place(e, s) == CHOOSE k \in DOMAIN s: s[k] = e
Without(e) ==
    [h \in Heads |-> IF e \in Range(lists[h]) THEN RemoveAt(lists[h], Place(e, lists[h]))
                                               ELSE lists[h]]

Init == lists = [h \in Heads |-> <<>>]

\* e becomes the k-th entry of h, wherever it was before.
Put(e, h, k) == lists' = [Without(e) EXCEPT ![h] = InsertAt(@, k, e)]

PutNew(e, h, k) == ~ OnSomeList(e) /\ Put(e, h, k)

TakeOut(e) == lists' = Without(e)

Swap(old, new) ==
    /\ ~ OnSomeList(new)
    /\ lists' = [h \in Heads |->
                   [k \in DOMAIN lists[h] |-> IF lists[h][k] = old THEN new ELSE lists[h][k]]]

JoinFirst(from, to) == lists' = [lists EXCEPT ![to] = lists[from] \o @, ![from] = <<>>]
JoinLast(from, to)  == lists' = [lists EXCEPT ![to] = @ \o lists[from], ![from] = <<>>]

CutAfter(n, from, to) ==
    /\ lists[to] = <<>>
    /\ lists' = [lists EXCEPT ![to] = SubSeq(lists[from], 1, n),
                              ![from] = SubSeq(@, n + 1, Len(@))]

TakeOutRange(h, i, j) ==
    lists' = [lists EXCEPT ![h] = SubSeq(@, 1, i - 1) \o SubSeq(@, j + 1, Len(@))]

Next ==
    \/ \E e \in Entries, h \in Heads: \E k \in 1..(Len(Without(e)[h]) + 1): Put(e, h, k)
    \/ \E e \in Entries: TakeOut(e)
    \/ \E old, new \in Entries: Swap(old, new)
    \/ \E from, to \in Heads: from # to /\ (JoinFirst(from, to) \/ JoinLast(from, to))
    \/ \E from, to \in Heads: \E n \in 0..Len(lists[from]): from # to /\ CutAfter(n, from, to)
    \/ \E h \in Heads: \E i, j \in DOMAIN lists[h]: i <= j /\ TakeOutRange(h, i, j)

Spec == Init /\ [][Next]_lists
=============================================================================
