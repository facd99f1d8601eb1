------------------------------- MODULE Billing -------------------------------
(***************************************************************************)
(* Billing one accepted quote and its job: the payment plan and its        *)
(* schedule rows, the invoices generated from them, the invoice a          *)
(* completed job gets by itself, the conversion of the quote and payment.  *)
(*                                                                         *)
(* A request is a record with the await it is at; nothing is locked and    *)
(* no row is claimed.                                                      *)
(***************************************************************************)
EXTENDS PaymentPlan, FiniteSets

CONSTANTS
  Request,     \* slots for concurrent requests
  Quotes,      \* quotes to start from: subtotal in pence, VAT in percent
  Plans,       \* payment plans an office user may put
  MaxPuts,     \* bound: plans put
  MaxInvoices, \* bound: invoices made
  MaxFaults    \* bound: killed requests and refused calls

ASSUME BillingAssumption ==
  /\ IsFiniteSet(Request)
  /\ Quotes \subseteq [subtotal : Nat \ {0}, vat : 0 .. 100]
  /\ \A p \in Plans : p.deposit \in 0 .. 100 /\ p.stages \in Seq(0 .. 100)
  /\ MaxPuts \in Nat /\ MaxInvoices \in Nat /\ MaxFaults \in Nat

\* paymentPlanSchema refuses a plan that asks for more than the whole.
ASSUME PlansAddUp == \A p \in Plans : Asked(PercentRows(p)) <= 100

VARIABLES
  quote,     \* subtotal, VAT, total; its status is accepted or not
  job,       \* the job's status, as far as billing looks at it
  schedules, \* rows of invoice_schedules in the order of insertion
  invoices,  \* rows of invoices
  req,       \* the running requests
  puts,      \* history: plans put
  autos,     \* history: invoices made by completing the job
  faults

vars == << quote, job, schedules, invoices, req, puts, autos, faults >>
history == << puts, autos >>

Progress == { "deposit", "stage" }
Kinds == Progress \cup { "final", "standard" }
Idle == [pc |-> "idle", at |-> 0, total |-> 0, seen |-> 0]

\* Fresh rows of invoice_schedules, after n others.
Fresh(rows, n) ==
  [k \in DOMAIN rows |->
    [kind |-> rows[k].kind, percent |-> rows[k].percent, fixed |-> rows[k].fixed,
     first |-> n + 1, last |-> n + Len(rows), status |-> "planned", invoice |-> 0]]

\* The quote as it was drafted, with the rows of its first plan.
Init ==
  /\ \E q \in Quotes : \E t \in WithVat(q.subtotal, q.vat) :
       quote = [subtotal |-> q.subtotal, vat |-> q.vat, total |-> t, accepted |-> FALSE]
  /\ job = "open"
  /\ \E plan \in Plans : \E rows \in ScheduleRows(plan, quote.subtotal) : schedules = Fresh(rows, 0)
  /\ invoices = << >>
  /\ req = [r \in Request |-> Idle]
  /\ puts = 0 /\ autos = 0 /\ faults = 0

-----------------------------------------------------------------------------
At(r, pc) == req[r].pc = pc
Goto(r, pc) == req' = [req EXCEPT ![r].pc = pc]
Stop(r) == req' = [req EXCEPT ![r] = Idle]
Fault == faults < MaxFaults /\ faults' = faults + 1

Live == { s \in DOMAIN schedules : schedules[s].status # "deleted" }
Planned == { s \in Live : schedules[s].status = "planned" }
Billed(I) == SumFunctionOnSet([i \in DOMAIN invoices |-> invoices[i].total], I)
Deleted == [kind |-> "final", percent |-> 0, fixed |-> 0, first |-> 0, last |-> 0,
            status |-> "deleted", invoice |-> 0]
Invoice(kind, s, total) == [kind |-> kind, schedule |-> s, total |-> total, status |-> "unpaid"]
Insert(invoice) == Len(invoices) < MaxInvoices /\ invoices' = Append(invoices, invoice)

\* shouldSkipFinalInvoiceForExistingInvoice; nothing sets an invoice void.
FinalExists == \E i \in DOMAIN invoices : invoices[i].kind \notin Progress
OpenProgress == \E i \in DOMAIN invoices : invoices[i].kind \in Progress /\ invoices[i].status # "paid"
\* A mutated form of the next, as the ones below: a mistake a change could make.
PaidProgress_DepositsOnly ==
  { i \in DOMAIN invoices : invoices[i].kind = "deposit" /\ invoices[i].status = "paid" }

PaidProgress == { i \in DOMAIN invoices : invoices[i].kind \in Progress /\ invoices[i].status = "paid" }

-----------------------------------------------------------------------------
(* Mutated forms: mistakes a change could make.  No action uses them.      *)

Select_Again(r) ==
  /\ At(r, "idle")
  /\ \E s \in Live : req' = [req EXCEPT ![r].pc = "genInsert", ![r].at = s]
  /\ UNCHANGED << quote, job, schedules, invoices, history, faults >>

Pay_SchedulesFirst(r) ==
  /\ At(r, "idle")
  /\ \E i \in DOMAIN invoices :
       /\ schedules' = [s \in DOMAIN schedules |->
            IF schedules[s].invoice = i THEN [schedules[s] EXCEPT !.status = "paid"] ELSE schedules[s]]
       /\ req' = [req EXCEPT ![r].pc = "paySchedules", ![r].at = i]
  /\ UNCHANGED << quote, job, invoices, history, faults >>

-----------------------------------------------------------------------------
(* PUT /quotes/[id]/payment-plan and POST /invoice-schedules/[id]/generate *)

PutPlan(r) ==
  /\ At(r, "idle") /\ puts < MaxPuts
  /\ Goto(r, "planDelete")
  /\ puts' = puts + 1
  /\ UNCHANGED << quote, job, schedules, invoices, autos, faults >>

\* The planned rows go; an invoice already made for one loses its reference.
PlanDelete(r) ==
  /\ At(r, "planDelete")
  /\ schedules' = [s \in DOMAIN schedules |->
       IF s \in Planned THEN Deleted ELSE schedules[s]]
  /\ invoices' = [i \in DOMAIN invoices |->
       IF invoices[i].schedule \in Planned THEN [invoices[i] EXCEPT !.schedule = 0] ELSE invoices[i]]
  /\ Goto(r, "planInsert")
  /\ UNCHANGED << quote, job, history, faults >>

\* The rows of the whole plan are inserted, whatever has been invoiced.
PlanInsert(r) ==
  /\ At(r, "planInsert")
  /\ \E plan \in Plans : \E rows \in ScheduleRows(plan, quote.subtotal) :
       schedules' = schedules \o Fresh(rows, Len(schedules))
  /\ Stop(r)
  /\ UNCHANGED << quote, job, invoices, history, faults >>

\* The row is read; one that has an invoice is refused.
Select(r) ==
  /\ At(r, "idle")
  /\ \E s \in Live :
       /\ schedules[s].invoice = 0
       /\ req' = [req EXCEPT ![r].pc = "genInsert", ![r].at = s]
  /\ UNCHANGED << quote, job, schedules, invoices, history, faults >>

\* The invoice refers to the row, which must still exist.
GenInsert(r) ==
  LET s == req[r].at IN
  /\ At(r, "genInsert")
  /\ IF s \in Live
     THEN /\ \E t \in InvoiceTotals(schedules[s], quote) : Insert(Invoice(schedules[s].kind, s, t))
          /\ req' = [req EXCEPT ![r].pc = "genLink", ![r].total = Len(invoices) + 1]
     ELSE Stop(r) /\ UNCHANGED invoices
  /\ UNCHANGED << quote, job, schedules, history, faults >>

GenLink(r) ==
  LET s == req[r].at IN
  /\ At(r, "genLink")
  /\ schedules' = IF s \in Live
                  THEN [schedules EXCEPT ![s].invoice = req[r].total, ![s].status = "invoiced"]
                  ELSE schedules
  /\ Stop(r)
  /\ UNCHANGED << quote, job, invoices, history, faults >>

-----------------------------------------------------------------------------
(* PATCH /jobs/[id] and autoInvoiceCompletedJob                            *)

\* The job is read once; it is reopened, or completed: a transition if it was not then.
PatchJob(r) ==
  /\ At(r, "idle")
  /\ \/ Goto(r, "reopen")
     \/ Goto(r, IF job = "completed" THEN "rewrite" ELSE "complete")
  /\ UNCHANGED << quote, job, schedules, invoices, history, faults >>

Reopen(r) ==
  /\ At(r, "reopen")
  /\ job' = "open"
  /\ Stop(r)
  /\ UNCHANGED << quote, schedules, invoices, history, faults >>

\* Completed once more: no transition, no invoice.
Rewrite(r) ==
  /\ At(r, "rewrite")
  /\ job' = "completed"
  /\ Stop(r)
  /\ UNCHANGED << quote, schedules, invoices, history, faults >>

Complete(r) ==
  /\ At(r, "complete")
  /\ job' = "completed"
  /\ Goto(r, "autoInvoices")
  /\ UNCHANGED << quote, schedules, invoices, history, faults >>

\* The job's invoices: none final, none open, and the balance of the paid ones.
AutoInvoices(r) ==
  LET balance == FinalBalance(quote.total, Billed(PaidProgress)) IN
  /\ At(r, "autoInvoices")
  /\ IF FinalExists \/ OpenProgress \/ balance = 0 THEN Stop(r)
     ELSE req' = [req EXCEPT ![r] = [pc |-> "autoQuote", at |-> 0, total |-> balance, seen |-> Len(invoices)]]
  /\ UNCHANGED << quote, job, schedules, invoices, history, faults >>

\* The accepted quote of the job, if there is one.
AutoQuote(r) ==
  /\ At(r, "autoQuote")
  /\ IF quote.accepted THEN Goto(r, "autoInsert") ELSE Stop(r)
  /\ UNCHANGED << quote, job, schedules, invoices, history, faults >>

AutoInsert(r) ==
  /\ At(r, "autoInsert")
  /\ Insert(Invoice("final", 0, req[r].total))
  /\ autos' = autos + 1
  /\ Stop(r)
  /\ UNCHANGED << quote, job, schedules, puts, faults >>

-----------------------------------------------------------------------------
(* The quote and the payments                                              *)

\* POST /quotes/[id]/accept, as far as billing reads it.
Accept ==
  /\ ~quote.accepted
  /\ quote' = [quote EXCEPT !.accepted = TRUE]
  /\ UNCHANGED << job, schedules, invoices, req, history, faults >>

\* POST /quotes/[id]/convert: the whole total, whatever has been invoiced.
Convert(r) ==
  /\ At(r, "idle")
  /\ Insert(Invoice("standard", 0, quote.total))
  /\ Goto(r, "accept")
  /\ UNCHANGED << quote, job, schedules, history, faults >>

ConvertAccept(r) ==
  /\ At(r, "accept")
  /\ quote' = [quote EXCEPT !.accepted = TRUE]
  /\ Stop(r)
  /\ UNCHANGED << job, schedules, invoices, history, faults >>

\* mark-paid and the providers' webhooks: the invoice first, then its schedule.
Pay(r) ==
  /\ At(r, "idle")
  /\ \E i \in DOMAIN invoices :
       /\ invoices' = [invoices EXCEPT ![i].status = "paid"]
       /\ req' = [req EXCEPT ![r].pc = "paySchedules", ![r].at = i]
  /\ UNCHANGED << quote, job, schedules, history, faults >>

PaySchedules(r) ==
  /\ At(r, "paySchedules")
  /\ schedules' = [s \in DOMAIN schedules |->
       IF schedules[s].invoice = req[r].at
       THEN [schedules[s] EXCEPT !.status = "paid"] ELSE schedules[s]]
  /\ Stop(r)
  /\ UNCHANGED << quote, job, invoices, history, faults >>

\* Killed, or a call refused: what has been written stays written.
Die(r) ==
  /\ ~At(r, "idle")
  /\ Fault
  /\ Stop(r)
  /\ UNCHANGED << quote, job, schedules, invoices, history >>

Plan(r) == PutPlan(r) \/ PlanDelete(r) \/ PlanInsert(r)
Generate(r) == Select(r) \/ GenInsert(r) \/ GenLink(r)
Patch(r) ==
  \/ PatchJob(r) \/ Reopen(r) \/ Rewrite(r) \/ Complete(r)
  \/ AutoInvoices(r) \/ AutoQuote(r) \/ AutoInsert(r)
Payment(r) == Pay(r) \/ PaySchedules(r)
Conversion(r) == Convert(r) \/ ConvertAccept(r)

Next ==
  \/ Accept
  \/ \E r \in Request : Plan(r) \/ Generate(r) \/ Patch(r) \/ Payment(r) \/ Conversion(r) \/ Die(r)

Spec == Init /\ [][Next]_vars

-----------------------------------------------------------------------------
(* Properties.                                                             *)

\* A schedule row is billed twice, and a job invoiced twice, only by requests that
\* overlap or die halfway: once for each, however often they are repeated.
DuplicatesBounded ==
  /\ \A s \in Live : Cardinality({ i \in DOMAIN invoices : invoices[i].schedule = s })
                       <= Cardinality(Request) + faults
  /\ autos <= Cardinality(Request)

\* A row that is not planned names an invoice made for it, and a paid row a paid one,
\* wherever generating, payment and a new plan interleave or break off.
SchedulesTellTruth ==
  \A s \in Live :
    LET i == schedules[s].invoice IN
    /\ schedules[s].status # "planned" => i # 0 /\ invoices[i].schedule = s
    /\ schedules[s].status = "paid" => invoices[i].status = "paid"

\* The invoice a completed job gets brings what is billed to exactly the quote's total,
\* unless another invoice was made after the job's invoices were read.
AutoBalances ==
  \A r \in Request :
    At(r, "autoInsert") /\ Len(invoices) = req[r].seen =>
      Billed(DOMAIN invoices) + req[r].total = quote.total

\* What the rows of one plan were invoiced for, once all of them have been.
PlanBilled(s) ==
  /\ schedules[s].first = s
  /\ \A k \in s .. schedules[s].last : k \in Live /\ schedules[k].invoice # 0
PlanRows(s) == s .. schedules[s].last
PlanTotal(s) == Billed({ schedules[k].invoice : k \in PlanRows(s) })

\* The invoices of a plan differ from the quote's total by at most a penny for each row.
PlanNearlyReconciles ==
  \A s \in DOMAIN schedules :
    PlanBilled(s) => /\ PlanTotal(s) <= quote.total + Cardinality(PlanRows(s))
                     /\ quote.total <= PlanTotal(s) + Cardinality(PlanRows(s))

=============================================================================
