---------------------------- MODULE SinglyLinked ----------------------------
(***************************************************************************)
(* Lists that are followed in one direction only, from a head that is none *)
(* of the nodes, through a pointer per cell.                               *)
(***************************************************************************)
EXTENDS Integers, Sequences, FiniteSets, SequencesExt

\* The nodes in the order of a loop from h along link, until none follows.
Along(link, h, nodes) ==
    LET trail[k \in 0..Cardinality(nodes)] ==
            IF k = 0 THEN <<h>>
            ELSE LET s == trail[k - 1]
                 IN  IF link[Last(s)] \in nodes THEN Append(s, link[Last(s)]) ELSE s
    IN  Tail(trail[Cardinality(nodes)])
=============================================================================
