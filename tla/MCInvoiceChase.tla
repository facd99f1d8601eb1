--------------------------- MODULE MCInvoiceChase ---------------------------
(* Instances of InvoiceChase for TLC.                                      *)
EXTENDS InvoiceChase
\* The final step one day after the first: the 0 and 21 of the code, scaled.
OneADay == [k \in Steps |-> k - 1]
=============================================================================
