-------------------------------- MODULE Diary --------------------------------
(***************************************************************************)
(* The engineers' diary: appointments made and moved by the office, by     *)
(* customers through their link, by the platform's calendar calls and by   *)
(* its commands; and the reminders kept in step with them.                 *)
(*                                                                         *)
(* A request is a record with the await it is at and its copy of the row   *)
(* it wrote.  No row is locked; some writers bring the reminders up to     *)
(* date and some leave them alone.  A reminder is sent when it is due;     *)
(* how it is claimed and sent is NotificationQueue's.                      *)
(***************************************************************************)
EXTENDS Integers, FiniteSets

CONSTANTS
  Request,     \* slots for concurrent requests
  Office,      \* appointments the office may make
  Platform,    \* appointments of bookings in the platform's calendar
  Slot,        \* times an appointment may have; two never overlap
  Reachable,   \* appointments whose customer can be written to
  None,
  MaxWrites,   \* bound: writes to appointments
  MaxFaults    \* bound: refused calls and killed requests

Appointment == Office \cup Platform

ASSUME DiaryAssumption ==
  /\ Office \cap Platform = {} /\ Reachable \subseteq Appointment
  /\ None \notin Slot \cup Request
  /\ "settled" \notin Request \cup { None }
  /\ IsFiniteSet(Request) /\ MaxWrites \in Nat /\ MaxFaults \in Nat

VARIABLES
  appts,     \* state and time of each appointment
  distance,  \* how far off a time is: more than a day, hours, or less than two
  pending,   \* rows of scheduled_notifications that are waiting
  req,       \* the running requests
  told,      \* history: the reminders that were sent
  repeats,   \* history: reminders sent again
  straddles, \* history: reminders whose time came just before they were written
  keeper,    \* history: the appointment's last writer, until it has seen to the
             \* reminders; nobody if others were still at them when it wrote
  touched,   \* history: appointments written since a request looked for a conflict
  writes, faults

vars == << appts, distance, pending, req, told, repeats, straddles, keeper, touched, writes, faults >>
sending == << told, repeats >>
clock == << distance, straddles >>
counters == << writes, faults >>

States == { "none", "scheduled", "completed", "cancelled" }
\* The day before, two hours before.
Kinds == { "24h", "2h" }
Absent == [state |-> "none", slot |-> None]
Idle == [pc |-> "idle", appt |-> None, slot |-> None, copy |-> Absent]

Init ==
  /\ appts = [a \in Appointment |-> Absent]
  /\ distance = [s \in Slot |-> "days"]
  /\ pending = {}
  /\ req = [r \in Request |-> Idle]
  /\ told = {} /\ repeats = 0 /\ straddles = 0
  /\ keeper = [a \in Appointment |-> None]
  /\ touched = [r \in Request |-> {}]
  /\ writes = 0 /\ faults = 0

-----------------------------------------------------------------------------
At(r, pc) == req[r].pc = pc
Goto(r, pc) == req' = [req EXCEPT ![r].pc = pc]
Stop(r) == req' = [req EXCEPT ![r] = Idle]
Exists(a) == appts[a].state # "none"
Reminder(a, kind, s) == << a, kind, s >>
Of(a) == { a } \X Kinds \X Slot

Syncing(r, a) == req[r].appt = a /\ req[r].pc \in { "sync", "remind24", "remind2" }
Due(kind, s) == distance[s] = "imminent" \/ (kind = "24h" /\ distance[s] = "hours")

\* A row is written, whatever it was.
Write(a, row, by) ==
  /\ writes < MaxWrites /\ writes' = writes + 1
  /\ appts' = [appts EXCEPT ![a] = row]
  /\ keeper' = [keeper EXCEPT ![a] = by]
  /\ touched' = [q \in Request |-> IF At(q, "move") THEN touched[q] \cup { a } ELSE {}]

\* Its writer goes on to the reminders with the row the write returned.
WriteThenSync(r, a, row) ==
  /\ Write(a, row, IF \E q \in Request : Syncing(q, a) THEN None ELSE r)
  /\ req' = [req EXCEPT ![r] = [Idle EXCEPT !.pc = "sync", !.appt = a, !.copy = row]]
  /\ UNCHANGED << pending, clock, sending, faults >>

\* Or the reminders are left alone.
Unattended == UNCHANGED << pending, clock, sending, req, faults >>

\* The request is done with the reminders.
Settle(r) ==
  LET a == req[r].appt IN
  /\ Stop(r)
  /\ keeper' = [keeper EXCEPT ![a] = IF @ = r THEN "settled" ELSE @]

-----------------------------------------------------------------------------
(* Mutated forms: mistakes a change could make.  No action uses them.      *)

Taken_Office(a, s) == \E b \in Office \ { a } : appts[b].state \notin { "none", "cancelled" } /\ appts[b].slot = s

Schedulable_PastToo(row, a) == row.state = "scheduled" /\ a \in Reachable

CancelWaiting_NewTime(a, s) == pending \ { Reminder(a, kind, s) : kind \in Kinds }

-----------------------------------------------------------------------------
(* The office: POST /appointments and PATCH /appointments/[id].            *)

Make(r, a, s) ==
  /\ At(r, "idle") /\ a \in Office /\ ~Exists(a)
  /\ WriteThenSync(r, a, [state |-> "scheduled", slot |-> s])

\* A time, a state, or both are replaced, whatever they were.
Patch(r, a, s, state) ==
  /\ At(r, "idle") /\ Exists(a) /\ state # "none"
  /\ WriteThenSync(r, a, [appts[a] EXCEPT !.slot = s, !.state = state])

-----------------------------------------------------------------------------
(* Customers: /public/bookings/[token]/cancel and reschedule.  A link is   *)
(* not used up by being used.                                              *)

\* The reminders are left waiting.  What is written does not depend on what was
\* read, so that the two are one step; so it is with the calendar calls.
SelfCancel(a) ==
  /\ Exists(a) /\ appts[a].state # "cancelled"
  /\ Write(a, [appts[a] EXCEPT !.state = "cancelled"], None)
  /\ Unattended

\* An active appointment of somebody else's at that time.
Taken(a, s) == \E b \in Appointment \ { a } : appts[b].state \notin { "none", "cancelled" } /\ appts[b].slot = s

\* A cancelled appointment may be moved too.
LookForConflict(r, a, s) ==
  /\ At(r, "idle") /\ Exists(a) /\ ~Taken(a, s)
  /\ req' = [req EXCEPT ![r] = [Idle EXCEPT !.pc = "move", !.appt = a, !.slot = s]]
  /\ touched' = [touched EXCEPT ![r] = {}]
  /\ UNCHANGED << appts, pending, clock, sending, keeper, counters >>

Move(r) ==
  /\ At(r, "move")
  /\ WriteThenSync(r, req[r].appt, [appts[req[r].appt] EXCEPT !.slot = req[r].slot, !.state = "scheduled"])

-----------------------------------------------------------------------------
(* The platform's calendar calls and the executor's commands.              *)

\* createHold and upsertAppointmentFromPlatformBooking find the booking's row or make
\* one, cancelled or not, with no look at the diary.
Hold(a, s) ==
  /\ a \in Platform
  /\ Write(a, [state |-> "scheduled", slot |-> s], None)
  /\ Unattended

\* cancelHold and cancelAppointmentFromPlatformBooking.
Release(a) ==
  /\ a \in Platform /\ Exists(a)
  /\ Write(a, [appts[a] EXCEPT !.state = "cancelled"], None)
  /\ Unattended

\* updateBookingAppointment of a booking that is confirmed or completed.
Rebook(r, a, s, state) ==
  /\ At(r, "idle") /\ a \in Platform /\ Exists(a) /\ state \in { "scheduled", "completed" }
  /\ WriteThenSync(r, a, [appts[a] EXCEPT !.slot = s, !.state = state])

-----------------------------------------------------------------------------
(* syncAppointmentReminders, and the sending of reminders.                 *)

CancelWaiting(a, s) == pending \ Of(a)
Schedulable(row, a) == row.state = "scheduled" /\ distance[row.slot] # "imminent" /\ a \in Reachable

\* What waits for the appointment is cancelled; then the time of this moment
\* decides which reminders to write, and they are written one by one.
Sync(r) ==
  LET a == req[r].appt row == req[r].copy IN
  /\ At(r, "sync")
  /\ pending' = CancelWaiting(a, row.slot)
  /\ IF Schedulable(row, a)
     THEN /\ Goto(r, IF distance[row.slot] = "days" THEN "remind24" ELSE "remind2")
          /\ UNCHANGED keeper
     ELSE Settle(r)
  /\ UNCHANGED << appts, clock, sending, touched, counters >>

\* A row of that key which was sent or cancelled waits again.
WriteReminder(r, kind) ==
  LET a == req[r].appt s == req[r].copy.slot IN
  /\ pending' = pending \cup { Reminder(a, kind, s) }
  /\ UNCHANGED << appts, clock, sending, touched, counters >>

Remind24(r) == At(r, "remind24") /\ WriteReminder(r, "24h") /\ Goto(r, "remind2") /\ UNCHANGED keeper
Remind2(r) == At(r, "remind2") /\ WriteReminder(r, "2h") /\ Settle(r)

Dispatch(k) ==
  /\ k \in pending /\ Due(k[2], k[3])
  /\ pending' = pending \ { k }
  /\ told' = told \cup { k }
  /\ repeats' = repeats + (IF k \in told THEN 1 ELSE 0)
  /\ UNCHANGED << appts, clock, req, keeper, touched, counters >>

\* About to write the reminder that becomes due.
Straddled(s) == { r \in Request : req[r].copy.slot = s
                    /\ (At(r, "remind24") \/ (At(r, "remind2") /\ distance[s] = "hours")) }

Advance(s) ==
  /\ distance[s] # "imminent"
  /\ distance' = [distance EXCEPT ![s] = IF @ = "days" THEN "hours" ELSE "imminent"]
  /\ straddles' = straddles + Cardinality(Straddled(s))
  /\ UNCHANGED << appts, pending, req, sending, keeper, touched, counters >>

\* A call is refused and the handler throws, or the function is killed.
Die(r) ==
  /\ ~At(r, "idle") /\ faults < MaxFaults
  /\ faults' = faults + 1
  /\ Stop(r)
  /\ keeper' = [a \in Appointment |-> IF keeper[a] = r THEN None ELSE keeper[a]]
  /\ UNCHANGED << appts, pending, clock, sending, touched, writes >>

-----------------------------------------------------------------------------
Self(r) == Move(r) \/ \E a \in Appointment, s \in Slot : LookForConflict(r, a, s)
Staff(r) == \E a \in Appointment, s \in Slot :
  Make(r, a, s) \/ \E state \in States : Patch(r, a, s, state) \/ Rebook(r, a, s, state)
Calendar == \E a \in Platform : Release(a) \/ \E s \in Slot : Hold(a, s)
Reminders(r) == Sync(r) \/ Remind24(r) \/ Remind2(r)

Next ==
  \/ \E r \in Request : Self(r) \/ Staff(r) \/ Reminders(r) \/ Die(r)
  \/ Calendar \/ \E a \in Appointment : SelfCancel(a)
  \/ \E s \in Slot : Advance(s)
  \/ \E k \in pending : Dispatch(k)

Spec == Init /\ [][Next]_vars

-----------------------------------------------------------------------------
(* Properties.                                                             *)

TypeOK ==
  /\ appts \in [Appointment -> [state : States, slot : Slot \cup { None }]]
  /\ distance \in [Slot -> { "days", "hours", "imminent" }]
  /\ pending \subseteq Appointment \X Kinds \X Slot /\ told \subseteq Appointment \X Kinds \X Slot
  /\ req \in [Request -> [pc : { "idle", "move", "sync", "remind24", "remind2" },
                         appt : Appointment \cup { None }, slot : Slot \cup { None },
                         copy : [state : States, slot : Slot \cup { None }]]]
  /\ keeper \in [Appointment -> Request \cup { None, "settled" }]
  /\ touched \in [Request -> SUBSET Appointment]
  /\ repeats \in Nat /\ straddles \in Nat /\ writes \in 0 .. MaxWrites /\ faults \in 0 .. MaxFaults

\* Once the last writer of an appointment has brought the reminders up to date,
\* and no other was at them when it wrote, the reminders that wait with their time to
\* come are those of the appointment's own time, all of them if it is still on
\* and none if it is not; and none waits for another time (syncAppointmentReminders).
RemindersMatch ==
  \A a \in Appointment : keeper[a] = "settled" =>
    LET waiting == pending \cap Of(a)
        wanted == IF appts[a].state = "scheduled" /\ a \in Reachable THEN Kinds \X { appts[a].slot } ELSE {}
    IN /\ \A k \in waiting : << k[2], k[3] >> \in wanted
       /\ \A w \in wanted : ~Due(w[1], w[2]) => Reminder(a, w[1], w[2]) \in waiting

\* A customer is reminded twice of one time at most as often as a reminder was
\* written just as its own time came: re-saving, moving away and back, cancelling
\* and reviving an appointment send nothing again (appointment-reminders.ts:131).
RemindedOnce == repeats <= straddles

\* A customer's move lands on the time of another appointment only if that one was
\* written between the look for conflicts and the update
\* (self-service-booking.ts:90-113).
LandsFree ==
  [][\A r \in Request : At(r, "move") /\ req'[r].pc = "sync"
       => \A b \in Appointment \ { req[r].appt } :
            appts[b].state \notin { "none", "cancelled" } /\ appts[b].slot = req[r].slot => b \in touched[r]]_vars

=============================================================================
