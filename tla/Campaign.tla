------------------------------ MODULE Campaign ------------------------------
(***************************************************************************)
(* What a series of experiments promises: the configurations with a        *)
(* complete result on disk only grow in number, one at a time, whatever    *)
(* stops and restarts the program.                                         *)
(***************************************************************************)
CONSTANT Configs    \* the configurations to measure
VARIABLE measured   \* the configurations with a complete result on disk

Init == measured = {}

Measure(c) == c \notin measured /\ measured' = measured \cup {c}

Next == \E c \in Configs : Measure(c)

Spec == Init /\ [][Next]_measured
=============================================================================
