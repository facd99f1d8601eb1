------------------------------ MODULE MCQuotes ------------------------------
(* Instances of Quotes for TLC. *)
EXTENDS Quotes, TLC

CONSTANTS r1, r2, k1, k2

MCRequest == { r1, r2 }
MCSaved == { "draft" }
MCStep == { k1, k2 }

Symmetry == Permutations(MCRequest) \cup Permutations(MCStep)
=============================================================================
