-------------------------- MODULE NotificationQueue --------------------------
(***************************************************************************)
(* The queue of outgoing texts and emails: scheduleNotification, the       *)
(* cancellations, dispatchDueNotifications and the lead alerts, over the   *)
(* table scheduled_notifications.                                          *)
(*                                                                         *)
(* A dispatcher (the cron route, the cron registry's job, a route that     *)
(* sends what it has just scheduled) reads a batch once and works through  *)
(* its copy of the rows.  No row is claimed; the updates that follow a     *)
(* send are conditional on the row still being pending.                    *)
(***************************************************************************)
EXTENDS Naturals, FiniteSets

CONSTANTS
  Notes,        \* notifications, one per idempotency key
  Alerts,       \* lead alerts: sent by the request that reserves the row
  V2Notes,      \* notes of the tenant whose dispatch may be handed to v2
  Dispatchers,  \* dispatchers that may be running at a time
  Limit,        \* rows read by one dispatcher (50 in the code)
  MaxAttempts,  \* max_attempts of a row that is not an alert (3)
  MaxRevisions, \* bound: how often one note is scheduled
  MaxFaults     \* bound: failed sends, lost answers, refused calls, kills

ASSUME QueueAssumption ==
  /\ Alerts \subseteq Notes /\ V2Notes \subseteq Notes /\ IsFiniteSet(Dispatchers)
  /\ Limit \in Nat \ {0} /\ MaxAttempts \in Nat \ {0}
  /\ MaxRevisions \in Nat /\ MaxFaults \in Nat

VARIABLES
  row,       \* the rows: status, attempts, has dispatch_at come, is the retry waiting,
             \* is_test, and how often scheduled
  optedOut,  \* notes whose recipient has opted out of the channel
  owner,     \* v2_dispatcher_owner
  disp,      \* the dispatchers: the await they are at and their copies of rows
  alerter,   \* the request that reserved an alert: the await it is at
  delivered, \* history: messages handed to the carrier for a note
  late,      \* history: of them, those since the recipient last opted out or v2 took over
  faults     \* faults so far

vars == << row, optedOut, owner, disp, alerter, delivered, late, faults >>
sends == << delivered, late >>

Zero == [n \in Notes |-> 0]
Idle == [pc |-> "idle", batch |-> {}, cur |-> {}, attempts |-> Zero, test |-> {}]

Init ==
  /\ row = [n \in Notes |->
       [status |-> "absent", attempts |-> 0, due |-> FALSE, waiting |-> FALSE,
        test |-> FALSE, rev |-> 0]]
  /\ optedOut = {}
  /\ owner = "legacy"
  /\ disp = [d \in Dispatchers |-> Idle]
  /\ alerter = [n \in Alerts |-> "none"]
  /\ delivered = Zero /\ late = Zero
  /\ faults = 0

-----------------------------------------------------------------------------
Fault == faults < MaxFaults /\ faults' = faults + 1

\* d is at the await pc of its loop's body, for the row n.
At(d, n, pc) == disp[d].pc = pc /\ disp[d].cur = {n}
Goto(d, pc) == disp' = [disp EXCEPT ![d].pc = pc]
Stop(d) == disp' = [disp EXCEPT ![d] = Idle]

\* The loop goes on to another row of the batch, or is done.
NextRow(d, n) ==
  IF disp[d].batch = {n} THEN Stop(d)
  ELSE disp' = [disp EXCEPT ![d].pc = "owner", ![d].batch = @ \ {n}, ![d].cur = {}]

MaxOf(n) == IF n \in Alerts THEN 1 ELSE MaxAttempts

\* The row an upsert (or an insert) leaves behind.
Fresh(n, due, test) ==
  [status |-> "pending", attempts |-> 0, due |-> due, waiting |-> FALSE,
   test |-> test, rev |-> row[n].rev + 1]

Due_Anything(S) == { n \in S : row[n].status \in { "pending", "sent" } /\ row[n].due }
Due_Untried(S) == { n \in S : row[n].status = "pending" /\ row[n].due /\ row[n].attempts = 0 }

\* UPDATE ... WHERE id = n AND status = 'pending', from the copy d holds.
SetIfPending(d, n, s, waiting) ==
  row' = IF row[n].status # "pending" THEN row
         ELSE [row EXCEPT ![n].status = s, ![n].attempts = disp[d].attempts[n] + 1,
                          ![n].waiting = waiting]

Barred(n) == n \in optedOut \/ (n \in V2Notes /\ owner = "v2")

\* The carrier takes a message for the note.
Deliver(n) ==
  /\ delivered' = [delivered EXCEPT ![n] = @ + 1]
  /\ late' = IF Barred(n) THEN [late EXCEPT ![n] = @ + 1] ELSE late

Due(S) == { n \in S : row[n].status = "pending" /\ row[n].due }

\* d starts on the rows of S that are not waiting for a retry; of more than Limit
\* due rows the first by dispatch_at are read, here any that many.
Read(d, S) ==
  \E T \in SUBSET S :
    /\ Cardinality(T) = Limit \/ (T = S /\ Cardinality(S) <= Limit)
    /\ LET B == { n \in T : ~row[n].waiting } IN
       disp' = [disp EXCEPT ![d] =
         IF B = {} THEN Idle
         ELSE [ pc |-> "owner", batch |-> B, cur |-> {},
                attempts |-> [n \in Notes |-> IF n \in B THEN row[n].attempts ELSE 0],
                test |-> { n \in B : row[n].test } ]]

-----------------------------------------------------------------------------
(* Mutated forms: mistakes a change could make.  No action uses them.      *)

Check_Once(d, n) ==
  /\ At(d, n, "check")
  /\ Goto(d, IF n \in disp[d].test \/ (n \in optedOut /\ row[n].rev = 1) THEN "cancel" ELSE "send")
  /\ UNCHANGED << row, optedOut, owner, alerter, sends, faults >>

-----------------------------------------------------------------------------
(* What fills, empties and times the queue.                                *)

\* Insert, or reset of the row that has the key, whatever its status.
Schedule(n) ==
  /\ n \notin Alerts /\ row[n].rev < MaxRevisions
  /\ \E due, test \in BOOLEAN : row' = [row EXCEPT ![n] = Fresh(n, due, test)]
  /\ UNCHANGED << optedOut, owner, disp, alerter, sends, faults >>

\* A route that schedules a note for now and dispatches that row itself.
Notify(d, n) ==
  /\ n \notin Alerts /\ row[n].rev < MaxRevisions /\ disp[d] = Idle
  /\ \E test \in BOOLEAN : row' = [row EXCEPT ![n] = Fresh(n, TRUE, test)]
  /\ disp' = [disp EXCEPT ![d].pc = "list", ![d].batch = {n}]
  /\ UNCHANGED << optedOut, owner, alerter, sends, faults >>

Cancel(n) ==
  /\ row[n].status = "pending"
  /\ row' = [row EXCEPT ![n].status = "cancelled"]
  /\ UNCHANGED << optedOut, owner, disp, alerter, sends, faults >>

\* dispatch_at comes, or next_attempt_at does.
Tick(n) ==
  /\ row[n].status = "pending"
  /\ \/ ~row[n].due /\ row' = [row EXCEPT ![n].due = TRUE]
     \/ row[n].waiting /\ row' = [row EXCEPT ![n].waiting = FALSE]
  /\ UNCHANGED << optedOut, owner, disp, alerter, sends, faults >>

\* STOP and START of the recipient.
OptOut(n) ==
  /\ n \notin optedOut
  /\ optedOut' = optedOut \cup {n}
  /\ late' = [late EXCEPT ![n] = 0]
  /\ UNCHANGED << row, owner, disp, alerter, delivered, faults >>

OptIn(n) ==
  /\ n \in optedOut
  /\ optedOut' = optedOut \ {n}
  /\ UNCHANGED << row, owner, disp, alerter, sends, faults >>

HandOver ==
  /\ owner = "legacy"
  /\ owner' = "v2"
  /\ late' = [n \in Notes |-> IF n \in V2Notes THEN 0 ELSE late[n]]
  /\ UNCHANGED << row, optedOut, disp, alerter, delivered, faults >>

-----------------------------------------------------------------------------
(* dispatchDueNotifications, await by await.                               *)

Start(d) ==
  /\ disp[d] = Idle
  /\ disp' = [disp EXCEPT ![d].pc = "list", ![d].batch = Notes]
  /\ UNCHANGED << row, optedOut, owner, alerter, sends, faults >>

List(d) ==
  /\ disp[d].pc = "list"
  /\ Read(d, Due(disp[d].batch))
  /\ UNCHANGED << row, optedOut, owner, alerter, sends, faults >>

\* Rows of the tenant v2 serves are left alone once v2 owns them.
CheckOwner(d, n) ==
  /\ disp[d].pc = "owner" /\ n \in disp[d].batch
  /\ IF n \in V2Notes /\ owner = "v2" THEN NextRow(d, n)
     ELSE disp' = [disp EXCEPT ![d].pc = "check", ![d].cur = {n}]
  /\ UNCHANGED << row, optedOut, owner, alerter, sends, faults >>

Check(d, n) ==
  /\ At(d, n, "check")
  /\ Goto(d, IF n \in disp[d].test \cup optedOut THEN "cancel" ELSE "send")
  /\ UNCHANGED << row, optedOut, owner, alerter, sends, faults >>

CancelRow(d, n) ==
  /\ At(d, n, "cancel")
  /\ SetIfPending(d, n, "cancelled", row[n].waiting)
  /\ NextRow(d, n)
  /\ UNCHANGED << optedOut, owner, alerter, sends, faults >>

\* The carrier takes the message; its answer may be lost.
Send(d, n) ==
  /\ At(d, n, "send")
  /\ Deliver(n)
  /\ \/ Goto(d, "sent") /\ UNCHANGED faults
     \/ Goto(d, "catch") /\ Fault
  /\ UNCHANGED << row, optedOut, owner, alerter >>

SendFails(d, n) ==
  /\ At(d, n, "send")
  /\ Fault
  /\ Goto(d, "catch")
  /\ UNCHANGED << row, optedOut, owner, alerter, sends >>

MarkSent(d, n) ==
  /\ At(d, n, "sent")
  /\ SetIfPending(d, n, "sent", row[n].waiting)
  /\ NextRow(d, n)
  /\ UNCHANGED << optedOut, owner, alerter, sends, faults >>

\* A check or an update inside the try fails.
CallFails(d, n) ==
  /\ At(d, n, "check") \/ At(d, n, "cancel") \/ At(d, n, "sent")
  /\ Fault
  /\ Goto(d, "catch")
  /\ UNCHANGED << row, optedOut, owner, alerter, sends >>

Catch(d, n) ==
  /\ At(d, n, "catch")
  /\ LET terminal == disp[d].attempts[n] + 1 >= MaxOf(n) IN
     SetIfPending(d, n, IF terminal THEN "failed" ELSE "pending", ~terminal)
  /\ NextRow(d, n)
  /\ UNCHANGED << optedOut, owner, alerter, sends, faults >>

\* An error of the list, of the owner's lookup or of the catch's own update ends
\* the dispatcher and the rest of its batch; so does a kill.
Abort(d) ==
  /\ disp[d] # Idle
  /\ Fault
  /\ Stop(d)
  /\ UNCHANGED << row, optedOut, owner, alerter, sends >>

-----------------------------------------------------------------------------
(* Lead alerts: reserve the row, send at once, mark it.                    *)

\* INSERT: a row that has the key already means the alert is somebody else's.
Reserve(n) ==
  /\ row[n].status = "absent"
  /\ row' = [row EXCEPT ![n] = Fresh(n, TRUE, FALSE)]
  /\ alerter' = [alerter EXCEPT ![n] = "send"]
  /\ UNCHANGED << optedOut, owner, disp, sends, faults >>

SendAlert(n) ==
  /\ alerter[n] = "send"
  /\ \/ Deliver(n) /\ alerter' = [alerter EXCEPT ![n] = "markSent"] /\ UNCHANGED faults
     \/ Fault /\ alerter' = [alerter EXCEPT ![n] = "markFailed"] /\ UNCHANGED sends
  /\ UNCHANGED << row, optedOut, owner, disp >>

\* Not conditional on the status; a failure, or a kill, leaves the row pending.
MarkAlert(n) ==
  /\ alerter[n] \in { "markSent", "markFailed" }
  /\ row' = [row EXCEPT ![n].attempts = 1,
                        ![n].status = IF alerter[n] = "markSent" THEN "sent" ELSE "failed"]
  /\ alerter' = [alerter EXCEPT ![n] = "done"]
  /\ UNCHANGED << optedOut, owner, disp, sends, faults >>

AbandonAlert(n) ==
  /\ alerter[n] \in { "send", "markSent", "markFailed" }
  /\ Fault
  /\ alerter' = [alerter EXCEPT ![n] = "done"]
  /\ UNCHANGED << row, optedOut, owner, disp, sends >>

-----------------------------------------------------------------------------
Step(d) ==
  \/ List(d)
  \/ \E n \in Notes :
       \/ CheckOwner(d, n) \/ Check(d, n) \/ CancelRow(d, n)
       \/ Send(d, n) \/ SendFails(d, n) \/ MarkSent(d, n)
       \/ CallFails(d, n) \/ Catch(d, n)

Next ==
  \/ \E d \in Dispatchers :
       \/ Start(d) \/ Step(d) \/ Abort(d)
       \/ \E n \in Notes : Notify(d, n)
  \/ \E n \in Notes : Schedule(n) \/ Cancel(n) \/ Tick(n) \/ OptOut(n) \/ OptIn(n)
  \/ \E n \in Alerts : Reserve(n) \/ SendAlert(n) \/ MarkAlert(n) \/ AbandonAlert(n)
  \/ HandOver

Spec == Init /\ [][Next]_vars

\* The cron starts dispatchers again and again, what is started runs, time passes.
Fairness ==
  /\ \A d \in Dispatchers : WF_vars(Start(d)) /\ WF_vars(Step(d))
  /\ \A n \in Notes : WF_vars(Tick(n))

FairSpec == Spec /\ Fairness

-----------------------------------------------------------------------------
(* Properties.                                                             *)

\* A row is sent only if the carrier took a message for it, whichever of the
\* dispatchers (or the alert's own request) settles it.
SentIsDelivered == \A n \in Notes : row[n].status = "sent" => delivered[n] > 0

\* Once a recipient has opted out, or v2 has taken the tenant over, only what was
\* past its check goes out: at most one message per dispatcher, however often the
\* note is scheduled or retried from then on.
LateBounded ==
  \A n \in Notes : late[n] <= Cardinality(Dispatchers) + (IF n \in Alerts THEN 1 ELSE 0)

\* A note goes out at most once per dispatcher each time it is scheduled, and as
\* often again for every fault; the request behind an alert counts as one more.
DuplicatesBounded ==
  \A n \in Notes : delivered[n] <= Cardinality(Dispatchers) * (row[n].rev + faults)
                                   + (IF n \in Alerts THEN 1 ELSE 0)

\* A pending note is sent, given up or cancelled in the end, or is v2's to send.
EventuallySettled ==
  \A n \in Notes :
    row[n].status = "pending" ~> row[n].status # "pending" \/ (n \in V2Notes /\ owner = "v2")

=============================================================================
