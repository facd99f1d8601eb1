---------------------------- MODULE InvoiceChase ----------------------------
(***************************************************************************)
(* Chasing one overdue invoice: the daily job scheduleDueInvoiceChases,    *)
(* the dispatcher that sends what is due, and the payment that should end  *)
(* it (the providers' webhooks and mark-paid).                             *)
(*                                                                         *)
(* Each step of the sequence is one row of scheduled_notifications under a *)
(* key of its own; NotificationQueue models the dispatcher's failures, so  *)
(* here it only reads, sends and marks.  Names are kept apart from those   *)
(* of Billing, which models the invoices themselves, so that one module    *)
(* can extend both.                                                        *)
(***************************************************************************)
EXTENDS Naturals

CONSTANTS
  NumSteps,      \* steps of the sequence: 0, 7, 14 and 21 days in the code
  DueOn,         \* the day a step's dispatch_at falls on
  MaxDay,        \* bound: days modelled
  MaxChaseFaults \* bound: killed scheduler or payment calls

Steps == 1 .. NumSteps
ASSUME ChaseAssumption ==
  /\ NumSteps \in Nat \ {0}
  /\ DueOn \in [Steps -> Nat]
  /\ MaxDay \in Nat /\ MaxChaseFaults \in Nat

VARIABLES
  day,          \* the date, from the invoice's due date on
  claimed,      \* the cron registry has run the job today
  status,       \* the invoice's status
  rows,         \* status of the row of a step
  sched,        \* the running job: the await it is at, the step it schedules
  payer,        \* the running payment call
  held,         \* rows the dispatcher has read and not come to
  sending,      \* the row it has sent and not yet marked, if any
  requiresCall, \* the customer's requires_call flag
  sent,         \* history: emails sent of a step
  late,         \* history: of them, those sent after the payment call was done
  resets,       \* history: how often a step was scheduled
  finalSent,    \* history: the final reminder has gone out
  afterFinal,   \* history: another reminder followed it
  chaseFaults

chaseVars == << day, claimed, status, rows, sched, payer, held, sending, requiresCall,
                sent, late, resets, finalSent, afterFinal, chaseFaults >>
clock == << day, claimed >>
dispatcher == << held, sending >>
chaseHistory == << sent, late, resets, finalSent, afterFinal >>

ChaseInit ==
  /\ day = 0 /\ claimed = FALSE
  /\ status = "unpaid"
  /\ rows = [k \in Steps |-> "absent"]
  /\ sched = [pc |-> "idle", step |-> 1]
  /\ payer = "none"
  /\ held = {} /\ sending = {}
  /\ requiresCall = FALSE
  /\ sent = [k \in Steps |-> 0] /\ late = [k \in Steps |-> 0] /\ resets = [k \in Steps |-> 0]
  /\ finalSent = FALSE /\ afterFinal = FALSE
  /\ chaseFaults = 0

-----------------------------------------------------------------------------
ChaseFault == chaseFaults < MaxChaseFaults /\ chaseFaults' = chaseFaults + 1
GotoSched(pc) == sched' = [sched EXCEPT !.pc = pc]

\* cancelScheduledNotifications on the invoice's rows.
CancelSequence ==
  rows' = [k \in Steps |-> IF rows[k] = "pending" THEN "cancelled" ELSE rows[k]]

-----------------------------------------------------------------------------
(* Mutated forms: mistakes a change could make.  No action uses them.      *)

SelectDue_All ==
  /\ sched.pc = "idle" /\ ~claimed
  /\ claimed' = TRUE
  /\ sched' = [pc |-> "upsert", step |-> 1]
  /\ UNCHANGED << day, status, rows, payer, dispatcher, requiresCall, chaseHistory, chaseFaults >>

Read_Resends ==
  /\ held = {} /\ sending = {}
  /\ held' = { k \in Steps : rows[k] \in { "pending", "sent" } /\ DueOn[k] <= day }
  /\ UNCHANGED << clock, status, rows, sched, payer, sending, requiresCall, chaseHistory, chaseFaults >>

Flag_Scheduled ==
  /\ sched.pc = "flag"
  /\ requiresCall' = (requiresCall \/ rows[NumSteps] # "absent")
  /\ sched' = [pc |-> "idle", step |-> 1]
  /\ UNCHANGED << clock, status, rows, payer, dispatcher, chaseHistory, chaseFaults >>

-----------------------------------------------------------------------------
NextDay ==
  /\ day < MaxDay
  /\ day' = day + 1 /\ claimed' = FALSE
  /\ UNCHANGED << status, rows, sched, payer, dispatcher, requiresCall, chaseHistory, chaseFaults >>

\* The job, once a day: the list of unpaid invoices past their due date.
SelectDue ==
  /\ sched.pc = "idle" /\ ~claimed
  /\ claimed' = TRUE
  /\ GotoSched(IF status = "unpaid" THEN "load" ELSE "flag")
  /\ UNCHANGED << day, status, rows, payer, dispatcher, requiresCall, chaseHistory, chaseFaults >>

\* The invoice is read again: a paid one has its sequence cancelled.
Load ==
  /\ sched.pc = "load"
  /\ IF status = "unpaid"
     THEN sched' = [pc |-> "upsert", step |-> 1] /\ UNCHANGED rows
     ELSE GotoSched("flag") /\ CancelSequence
  /\ UNCHANGED << clock, status, payer, dispatcher, requiresCall, chaseHistory, chaseFaults >>

\* Each step is upserted: pending again, whatever has become of it.
Upsert ==
  LET k == sched.step IN
  /\ sched.pc = "upsert"
  /\ rows' = [rows EXCEPT ![k] = "pending"]
  /\ resets' = [resets EXCEPT ![k] = @ + 1]
  /\ sched' = IF k = NumSteps THEN [pc |-> "flag", step |-> 1] ELSE [sched EXCEPT !.step = k + 1]
  /\ UNCHANGED << clock, status, payer, dispatcher, requiresCall, sent, late, finalSent, afterFinal, chaseFaults >>

\* flagFinalChaseCustomers: customers whose final reminder is marked sent.
Flag ==
  /\ sched.pc = "flag"
  /\ requiresCall' = (requiresCall \/ rows[NumSteps] = "sent")
  /\ sched' = [pc |-> "idle", step |-> 1]
  /\ UNCHANGED << clock, status, rows, payer, dispatcher, chaseHistory, chaseFaults >>

\* An error of any of its calls ends the job; the window stays claimed.
JobDies ==
  /\ sched.pc # "idle"
  /\ ChaseFault
  /\ sched' = [pc |-> "idle", step |-> 1]
  /\ UNCHANGED << clock, status, rows, payer, dispatcher, requiresCall, chaseHistory >>

\* The payment: the invoice first, its reminders last; a failed webhook is retried.
MarkPaid ==
  /\ payer = "none"
  /\ status' = "paid" /\ payer' = "cancel"
  /\ UNCHANGED << clock, rows, sched, dispatcher, requiresCall, chaseHistory, chaseFaults >>

CancelChase ==
  /\ payer = "cancel"
  /\ CancelSequence
  /\ payer' = "done"
  /\ UNCHANGED << clock, status, sched, dispatcher, requiresCall, chaseHistory, chaseFaults >>

PaymentDies ==
  /\ payer = "cancel"
  /\ ChaseFault
  /\ payer' = "none"
  /\ UNCHANGED << clock, status, rows, sched, dispatcher, requiresCall, chaseHistory >>

\* The dispatcher: read the due rows, then send and mark one after the other.
Read ==
  /\ held = {} /\ sending = {}
  /\ held' = { k \in Steps : rows[k] = "pending" /\ DueOn[k] <= day }
  /\ held' # {}
  /\ UNCHANGED << clock, status, rows, sched, payer, sending, requiresCall, chaseHistory, chaseFaults >>

Send(k) ==
  /\ k \in held /\ sending = {} /\ \A j \in held : k <= j
  /\ held' = held \ {k} /\ sending' = {k}
  /\ sent' = [sent EXCEPT ![k] = @ + 1]
  /\ late' = IF payer = "done" THEN [late EXCEPT ![k] = @ + 1] ELSE late
  /\ finalSent' = (finalSent \/ k = NumSteps)
  /\ afterFinal' = (afterFinal \/ finalSent)
  /\ UNCHANGED << clock, status, rows, sched, payer, requiresCall, resets, chaseFaults >>

MarkSent(k) ==
  /\ sending = {k}
  /\ rows' = [rows EXCEPT ![k] = IF @ = "pending" THEN "sent" ELSE @]
  /\ sending' = {}
  /\ UNCHANGED << clock, status, sched, payer, held, requiresCall, chaseHistory, chaseFaults >>

ChaseJob == SelectDue \/ Load \/ Upsert \/ Flag
ChasePayment == MarkPaid \/ CancelChase
ChaseDispatch == Read \/ \E k \in Steps : Send(k) \/ MarkSent(k)

ChaseNext == NextDay \/ ChaseJob \/ JobDies \/ ChasePayment \/ PaymentDies \/ ChaseDispatch

ChaseSpec == ChaseInit /\ [][ChaseNext]_chaseVars

-----------------------------------------------------------------------------
(* Properties.                                                             *)

\* A reminder goes out at most once each time the job schedules it.
OncePerReset == \A k \in Steps : sent[k] <= resets[k]

\* After the payment has cancelled the sequence a reminder may still go out, but
\* at most twice: the row the dispatcher holds, and the one a job re-creates that
\* read the invoice before it was paid.
LateBounded == \A k \in Steps : late[k] <= 2

\* A customer is flagged for a call only after the final reminder.
FlagIsEarned == requiresCall => finalSent

=============================================================================
