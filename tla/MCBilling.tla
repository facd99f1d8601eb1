------------------------------ MODULE MCBilling ------------------------------
(* Instances of Billing for TLC.                                           *)
EXTENDS Billing, TLC

Symmetry == Permutations(Request)
\* Subtotals so small that rounding shows in every row.
OddQuotes == { [subtotal |-> 103, vat |-> 20] }
StageFirst == { [deposit |-> 0, stages |-> << 40 >>] }
=============================================================================
