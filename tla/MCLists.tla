------------------------------- MODULE MCLists -------------------------------
(***************************************************************************)
(* The linked lists.  A behaviour is one of five programs, chosen at the   *)
(* start; the others stay in their initial state.                          *)
(***************************************************************************)
EXTENDS KernelList, ListWalk, ListCareful, HashList, NodeList

VARIABLE program

vars == <<program, listVars, walkVars, carefulVars, hashVars, nodeVars>>

Symmetry == Permutations(Entries)

Init ==
    /\ program \in {"lists", "loops", "careful", "hash", "nodes"}
    /\ ListInit /\ HashInit /\ NodeInit
    /\ WalkInit /\ (program # "loops" => planned = <<>> /\ left = <<>> /\ ~ loop.back /\ ~ loop.safe)
    /\ CarefulInit /\ Head(listed) = class /\ (program # "careful" => Tail(listed) = <<>>)

Next ==
    \/ program = "lists" /\ ListNext
       /\ UNCHANGED <<program, walkVars, carefulVars, hashVars, nodeVars>>
    \/ program = "loops" /\ WalkNext
       /\ UNCHANGED <<program, listVars, carefulVars, hashVars, nodeVars>>
    \/ program = "careful" /\ CarefulNext
       /\ UNCHANGED <<program, listVars, walkVars, hashVars, nodeVars>>
    \/ program = "hash" /\ HashNext
       /\ UNCHANGED <<program, listVars, walkVars, carefulVars, nodeVars>>
    \/ program = "nodes" /\ NodeNext
       /\ UNCHANGED <<program, listVars, walkVars, carefulVars, hashVars>>

Spec == Init /\ [][Next]_vars

(* The lists that can be followed in one direction only, too, are sequences
   to their callers. *)
ChainsKeepSequences == HashKeepsSequences /\ NodeKeepsSequence
==============================================================================
