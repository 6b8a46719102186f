--------------------------- MODULE MCRegexWorker ---------------------------
(* RegexWorker on small instances.                                         *)
EXTENDS RegexWorker, TLC

\* Packets are interchangeable, and so are workers: no action orders them.
Symmetry == Permutations(Mbufs) \cup Permutations(Workers)
=============================================================================
