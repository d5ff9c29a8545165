---------------------------- MODULE MCTreeBudget ----------------------------
(* TreeBudget on a small tree: a turn 0, its child 1 and the child's child   *)
(* 2, with one call of each kind.                                            *)
EXTENDS TreeBudget

MCParent == [t \in 1..2 |-> t - 1]
MCTaskOf == [c \in 1..3 |-> c - 1]
MCKind == [c \in 1..3 |-> IF c = 1 THEN "request" ELSE IF c = 2 THEN "core" ELSE "turn"]
MCQuote == [c \in 1..3 |-> 2]
=============================================================================
