----------------------------- MODULE PaymentPlan -----------------------------
(***************************************************************************)
(* The arithmetic of a payment plan: which schedule rows a plan becomes    *)
(* and what an invoice for one of them comes to.  Amounts are in pence;    *)
(* the code computes in binary floating point and rounds, so a tie may go  *)
(* either way, and results are sets of the values it can produce.          *)
(***************************************************************************)
EXTENDS Integers, Sequences, SequencesExt

\* Math.round and toFixed(2) of n / d.
Roundings(n, d) ==
  { q \in { n \div d, n \div d + 1 } : 2 * n <= (2 * q + 1) * d /\ 2 * q * d <= 2 * n + d }

WithVat(pence, vat) == Roundings(pence * (100 + vat), 100)

-----------------------------------------------------------------------------
(* Mutated forms: mistakes a change could make.  Nothing uses them.        *)

\* The final row ignores what the other rows take.
FinalRow_Whole(subtotal, consumed) ==
  << [kind |-> "final", percent |-> 0, fixed |-> subtotal] >>

-----------------------------------------------------------------------------
\* The rows given by a percentage: the deposit and the stages that ask for any.
Asking(plan) ==
  << [kind |-> "deposit", percent |-> plan.deposit, fixed |-> 0] >>
    \o [i \in DOMAIN plan.stages |-> [kind |-> "stage", percent |-> plan.stages[i], fixed |-> 0]]

PercentRows(plan) ==
  FoldLeft(LAMBDA kept, row : IF row.percent > 0 THEN Append(kept, row) ELSE kept, << >>, Asking(plan))

\* What rows ask for together, in percent.
Asked(rows) == SumFunctionOnSet([i \in DOMAIN rows |-> rows[i].percent], DOMAIN rows)

\* What they take of the subtotal, each rounded to the penny.
Sums(S, T) == { s + t : s \in S, t \in T }

Consumed(rows, subtotal) ==
  FoldSeq(LAMBDA row, taken : Sums(taken, Roundings(row.percent * subtotal, 100)), {0}, rows)

\* The final row is what is left, never negative; nothing left, no row.
FinalRow(subtotal, consumed) ==
  IF consumed = subtotal THEN << >>
  ELSE << [kind |-> "final", percent |-> 0, fixed |-> IF consumed > subtotal THEN 0 ELSE subtotal - consumed] >>

\* buildScheduleRows.
ScheduleRows(plan, subtotal) ==
  { PercentRows(plan) \o FinalRow(subtotal, c) : c \in Consumed(PercentRows(plan), subtotal) }

\* calculateInvoiceScheduleAmount: VAT on the unrounded base, then rounded.
InvoiceTotals(row, quote) ==
  IF row.percent > 0 THEN Roundings(quote.subtotal * row.percent * (100 + quote.vat), 10000)
  ELSE WithVat(row.fixed, quote.vat)

\* calculateFinalBalanceAmount.
FinalBalance(quoteTotal, paidProgress) ==
  IF paidProgress >= quoteTotal THEN 0 ELSE quoteTotal - paidProgress
=============================================================================
