------------------------------- MODULE Bookings -------------------------------
(***************************************************************************)
(* What the platform's commands do to the CRM: customers, leads, jobs,     *)
(* diary appointments, and the one row per conversation that links them.   *)
(*                                                                         *)
(* A worker handles one event at a time, one command after the other, one  *)
(* await per step.  Nothing is locked: the link row is read, merged and    *)
(* written back whole, and a customer is looked for and then inserted.     *)
(* A command that was executed to its end is not executed again; one that  *)
(* failed or was killed is, from its start.  All callers here share one    *)
(* telephone number: a lookup by identity finds any customer there is.     *)
(***************************************************************************)
EXTENDS Integers, Sequences, FiniteSets

CONSTANTS
  Worker,       \* function instances that handle events
  Conversation,
  Booking,      \* ids of bookings in the platform's calendar
  NameIn,       \* the name given in a conversation, and with its bookings
  Events,       \* the events to be handled, in any order
  Nothing,         \* no name, no booking
  Known,        \* the name of a customer there may be before
  MaxFailures     \* bound: commands that fail or are killed

Kinds == { "started", "qualified", "confirmed", "completed", "upserted", "cancelled", "recovered" }
\* What a manager may have done with a booking in question.
Recoveries == { "newCustomer", "linkCustomer", "linkJob" }

ASSUME BookingsAssumption ==
  /\ Events \subseteq [kind : Kinds, conv : Conversation, booking : Booking \cup {Nothing}, name : {TRUE, FALSE}]
  /\ Nothing \notin Booking /\ \A e \in Events : e.kind \notin { "started", "qualified" } => e.booking \in Booking
  /\ MaxFailures \in Nat
  /\ IsFiniteSet(Worker) /\ Worker # {} /\ IsFiniteSet(Events) /\ IsFiniteSet(Conversation)

VARIABLES
  customers, \* names of the customers, in the order of insertion
  leads,     \* the customer of each lead, 0 for none
  crmJobs,      \* customer and lead of each job
  appts,     \* diary appointments of the bookings that have one
  link,      \* rows of platform_conversation_links
  status,    \* of each event: waiting, running, failed, done
  acked,     \* commands of each event that need not be executed again
  work,      \* what each worker is doing
  flagged,   \* history: bookings some command put before the office
  switches,  \* history: conversations turned over to another booking
  settled,   \* history: conversations whose last writer booked undisturbed
  failures

bookingVars == << customers, leads, crmJobs, appts, link, status, acked, work, flagged, switches, settled, failures >>
crm == << customers, leads, crmJobs, appts >>
bookkeeping == << status, acked, failures >>
memory == << flagged, switches, settled >>

NoLink == [row |-> FALSE, lead |-> 0, customer |-> 0, job |-> 0, appt |-> Nothing, booking |-> Nothing, review |-> FALSE]
NoPatch == [row |-> TRUE]
Resting == [pc |-> "idle", event |-> {}, step |-> 0, mine |-> NoLink, seen |-> NoLink, patch |-> NoPatch,
         next |-> "idle", ext |-> FALSE, how |-> "none", got |-> 0]

BookingInit ==
  /\ customers \in { << >> } \cup { << n >> : n \in Known }
  /\ leads = << >> /\ crmJobs = << >> /\ appts = << >>
  /\ link = [c \in Conversation |-> NoLink]
  /\ status = [e \in Events |-> "waiting"]
  /\ acked = [e \in Events |-> 0]
  /\ work = [w \in Worker |-> Resting]
  /\ flagged = {} /\ switches = 0 /\ settled = {} /\ failures = 0

-----------------------------------------------------------------------------
(* Events and their commands.                                              *)

IsNonFatal(e) == e.kind \in { "started", "qualified" }

\* derivePlatformCommandsFromEvent, and recoverBookingConfirmedEvent.
Commands(e) ==
  CASE e.kind = "started"   -> << "Match", "Link" >>
    [] e.kind = "qualified" -> << "Lead" >>
    [] e.kind = "confirmed" -> << "Link", "CreateOrUpdate" >>
    [] e.kind = "upserted"  -> << "Upsert" >>
    [] e.kind = "cancelled" -> << "Cancel" >>
    [] OTHER                -> << "CreateOrUpdate" >>

\* Where a command begins, and where a lookup of its customer leads.
FirstStep(cmd) ==
  CASE cmd = "Match" -> "find" [] cmd = "Link" -> "linkStart" [] cmd = "Lead" -> "leadStart"
    [] cmd = "Upsert" -> "find" [] cmd = "Cancel" -> "cancel" [] OTHER -> "lookup"
Found(cmd) == CASE cmd = "Match" -> "matched" [] cmd = "Upsert" -> "upsert" [] OTHER -> "idle"

On(w, pc) == work[w].pc = pc
Event(w) == CHOOSE e \in work[w].event : TRUE
Conv(w) == Event(w).conv
Wanted(w) == Event(w).booking
GoOn(w, pc) == work' = [work EXCEPT ![w].pc = pc]
Put(b, appt) == [k \in DOMAIN appts \cup {b} |-> IF k = b THEN appt ELSE appts[k]]
GotoWith(w, pc, l) == work' = [work EXCEPT ![w].pc = pc, ![w].mine = l]
CommandAt(e, step, how, got) ==
  LET cmd == Commands(e)[step] IN
  [Resting EXCEPT !.pc = FirstStep(cmd), !.event = {e}, !.step = step, !.next = Found(cmd),
                !.how = how, !.got = got]

\* The link row is read, the patch is laid over it, the row is written whole.
WriteLink(w, patch, next) ==
  work' = [work EXCEPT ![w].pc = "linkRead", ![w].patch = patch, ![w].next = next]

Laid(patch, row) ==
  [f \in DOMAIN row |-> IF f = "row" THEN TRUE ELSE IF f \in DOMAIN patch THEN patch[f] ELSE row[f]]

\* Where the executor goes on with the row the write returned.
Returned == { "status", "resolve", "attachLead", "review2", "leadAttach" }

LinkRead(w) ==
  /\ On(w, "linkRead")
  /\ work' = [work EXCEPT ![w].pc = "linkWrite", ![w].seen = link[Conv(w)]]
  /\ UNCHANGED << crm, link, bookkeeping, memory >>

LinkWrite(w) ==
  LET row == Laid(work[w].patch, work[w].seen)
      next == work[w].next
  IN
  /\ On(w, "linkWrite")
  /\ link' = [link EXCEPT ![Conv(w)] = row]
  /\ work' = [work EXCEPT ![w].pc = next, ![w].seen = NoLink, ![w].patch = NoPatch, ![w].next = "idle",
                          ![w].mine = IF next \in Returned THEN row ELSE Laid(work[w].patch, work[w].mine)]
  /\ UNCHANGED << crm, bookkeeping, memory >>

BeginEvent(w, e) ==
  /\ On(w, "idle") /\ status[e] \in { "waiting", "failed" } /\ e.kind # "recovered"
  /\ work' = [work EXCEPT ![w] = CommandAt(e, acked[e] + 1, "none", 0)]
  /\ status' = [status EXCEPT ![e] = "running"]
  /\ settled' = IF e.kind \in { "upserted", "cancelled" } THEN settled ELSE settled \ { e.conv }
  /\ UNCHANGED << crm, link, acked, flagged, switches, failures >>

\* A manager resolves a booking that was tried, naming a customer or a job there is.
Recover(w, e) ==
  /\ On(w, "idle") /\ status[e] \in { "waiting", "failed" } /\ e.kind = "recovered"
  /\ \E f \in Events : f.kind = "confirmed" /\ f.booking = e.booking /\ status[f] \in { "failed", "done" }
  /\ \E how \in Recoveries :
     \E got \in CASE how = "newCustomer" -> {0} [] how = "linkCustomer" -> DOMAIN customers [] OTHER -> DOMAIN crmJobs :
       work' = [work EXCEPT ![w] = CommandAt(e, 1, how, got)]
  /\ status' = [status EXCEPT ![e] = "running"]
  /\ settled' = IF e.kind \in { "upserted", "cancelled" } THEN settled ELSE settled \ {e.conv}
  /\ UNCHANGED << crm, link, acked, flagged, switches, failures >>

\* The next command of the event, or the end of it.
Proceed(w) ==
  LET e == Event(w) IN
  IF work[w].step < Len(Commands(e))
  THEN /\ work' = [work EXCEPT ![w] = CommandAt(e, work[w].step + 1, "none", 0)]
       /\ settled' = settled \ { e.conv }
       /\ UNCHANGED status
  ELSE /\ work' = [work EXCEPT ![w] = Resting]
       /\ status' = [status EXCEPT ![e] = "done"]
       /\ UNCHANGED settled

Acknowledge(w) ==
  /\ On(w, "ack")
  /\ Proceed(w)
  /\ acked' = [acked EXCEPT ![Event(w)] = work[w].step]
  /\ UNCHANGED << crm, link, flagged, switches, failures >>

\* The call of this step is refused or its function killed: the command failed.
FailCommand(w) ==
  /\ ~On(w, "idle") /\ failures < MaxFailures
  /\ failures' = failures + 1
  /\ work' = [work EXCEPT ![w] = Resting]
  /\ status' = [status EXCEPT ![Event(w)] = "failed"]
  /\ UNCHANGED << crm, link, acked, memory >>

\* A refused command of a non-fatal event does not stop the ones after it,
\* and the event is not executed again.
Defer(w) ==
  /\ ~On(w, "idle") /\ failures < MaxFailures /\ IsNonFatal(Event(w))
  /\ failures' = failures + 1
  /\ Proceed(w)
  /\ UNCHANGED << crm, link, acked, flagged, switches >>

-----------------------------------------------------------------------------
(* Mutated forms: mistakes a change could make.  No action uses them.      *)

FindNone_Placeholders(w) ==
  /\ On(w, "find")
  /\ work[w].how = "none" /\ \A k \in DOMAIN customers : customers[k] = Nothing
  /\ GoOn(w, "insert")
  /\ UNCHANGED << crm, link, bookkeeping, memory >>

Conflict_None(w, k) == FALSE

Upsert_Overwrites(w) ==
  LET b == Wanted(w) IN
  /\ On(w, "upsert")
  /\ appts' = Put(b, [customer |-> work[w].got, lead |-> 0, job |-> 0, state |-> "scheduled"])
  /\ GoOn(w, "ack")
  /\ UNCHANGED << customers, leads, crmJobs, link, bookkeeping, memory >>

Attach_AppointmentOnly(w) ==
  LET l == work[w].mine IN
  /\ On(w, "attach")
  /\ appts' = IF l.appt = Nothing \/ l.customer = 0 THEN appts ELSE [appts EXCEPT ![l.appt].customer = l.customer]
  /\ GoOn(w, "job")
  /\ UNCHANGED << customers, leads, crmJobs, link, bookkeeping, memory >>

MakeJob_Always(w) ==
  LET l == work[w].mine IN
  /\ On(w, "job")
  /\ crmJobs' = Append(crmJobs, [customer |-> l.customer, lead |-> l.lead])
  /\ WriteLink(w, [job |-> Len(crmJobs) + 1, review |-> FALSE], "attachJob")
  /\ UNCHANGED << customers, leads, appts, link, bookkeeping, memory >>

AttachJob_NewOnly(w) ==
  /\ On(w, "attachJob")
  /\ GoOn(w, "ack")
  /\ UNCHANGED << crm, link, bookkeeping, memory >>

-----------------------------------------------------------------------------
(* Customers: findCustomerByIdentity, then create or update.               *)

Name(w) == IF Event(w).name THEN NameIn[Conv(w)] ELSE Nothing
\* resolveCustomerForBookingPayload and resolveCustomerForPlatformBooking.
ForBooking(w) == Event(w).kind # "started"
\* detectBookingIdentityConflict: both names are real and they differ.
Conflict(w, k) ==
  ForBooking(w) /\ Name(w) # Nothing /\ customers[k] \notin { Nothing, Name(w) }

Forced(w) == work[w].how = "newCustomer"
Chosen(w) == work[w].how = "linkCustomer"

FindNone(w) ==
  /\ On(w, "find")
  /\ Forced(w) \/ (~Chosen(w) /\ customers = << >>)
  /\ GoOn(w, "insert")
  /\ UNCHANGED << crm, link, bookkeeping, memory >>

FindOne(w) ==
  /\ On(w, "find") /\ ~Forced(w)
  /\ \E k \in DOMAIN customers :
       /\ IF Chosen(w) THEN k = work[w].got ELSE ~Conflict(w, k)
       /\ work' = [work EXCEPT ![w].pc = "update", ![w].got = k]
  /\ UNCHANGED << crm, link, bookkeeping, memory >>

\* No customer is the booking's; it goes to the office, or on without one.
FindConflict(w) ==
  /\ On(w, "find") /\ ~Forced(w) /\ ~Chosen(w)
  /\ \E k \in DOMAIN customers : Conflict(w, k)
  /\ CASE work[w].next = "linked" ->
            /\ WriteLink(w, [customer |-> 0, job |-> 0, booking |-> Wanted(w), review |-> TRUE], "ack")
            /\ flagged' = flagged \cup { Wanted(w) }
       [] work[w].next = "resolved" -> GoOn(w, "review") /\ UNCHANGED flagged
       [] work[w].next = "healed"   -> GoOn(w, "attach") /\ UNCHANGED flagged
       [] work[w].next = "upsert"   -> GoOn(w, "upsert") /\ UNCHANGED flagged
  /\ UNCHANGED << crm, link, bookkeeping, switches, settled >>

InsertCustomer(w) ==
  /\ On(w, "insert")
  /\ customers' = Append(customers, Name(w))
  /\ work' = [work EXCEPT ![w].pc = work[w].next, ![w].got = Len(customers) + 1]
  /\ UNCHANGED << leads, crmJobs, appts, link, bookkeeping, memory >>

\* The latest name that is given stands.
UpdateCustomer(w) ==
  /\ On(w, "update")
  /\ customers' = IF Name(w) = Nothing THEN customers ELSE [customers EXCEPT ![work[w].got] = Name(w)]
  /\ GoOn(w, work[w].next)
  /\ UNCHANGED << leads, crmJobs, appts, link, bookkeeping, memory >>

Matched(w) ==
  /\ On(w, "matched")
  /\ WriteLink(w, [customer |-> work[w].got], "ack")
  /\ UNCHANGED << crm, link, bookkeeping, memory >>

-----------------------------------------------------------------------------
(* LinkConversationToCustomerOrJob                                         *)

LinkStart(w) ==
  LET l == link[Conv(w)] IN
  /\ On(w, "linkStart")
  /\ CASE ~l.row -> WriteLink(w, NoPatch, "ack")
       [] l.row /\ l.customer = 0 ->
            work' = [work EXCEPT ![w].pc = "find", ![w].next = "linked", ![w].mine = l]
       [] OTHER -> GotoWith(w, "findJob", l)
  /\ UNCHANGED << crm, link, bookkeeping, memory >>

Linked(w) ==
  /\ On(w, "linked")
  /\ WriteLink(w, [customer |-> work[w].got], "findJob")
  /\ UNCHANGED << crm, link, bookkeeping, memory >>

\* Of several jobs one may match the payload best, or none does.
FindJob(w) ==
  LET mine == { j \in DOMAIN crmJobs : crmJobs[j].customer = work[w].mine.customer } IN
  /\ On(w, "findJob")
  /\ IF work[w].mine.job # 0 \/ mine = {}
     THEN GoOn(w, "attachAll")
     ELSE \/ \E j \in mine : WriteLink(w, [job |-> j], "attachAll")
          \/ Cardinality(mine) > 1 /\ GoOn(w, "attachAll")
  /\ UNCHANGED << crm, link, bookkeeping, memory >>

Attached(a, l) ==
  [a EXCEPT !.lead = IF l.lead = 0 THEN @ ELSE l.lead,
            !.customer = IF l.customer = 0 THEN @ ELSE l.customer,
            !.job = IF l.job = 0 THEN @ ELSE l.job]
WithCustomer(l) ==
  IF l.lead = 0 \/ l.customer = 0 THEN leads ELSE [leads EXCEPT ![l.lead] = l.customer]

AttachAll(w) ==
  LET l == work[w].mine IN
  /\ On(w, "attachAll")
  /\ appts' = IF l.appt = Nothing THEN appts ELSE [appts EXCEPT ![l.appt] = Attached(@, l)]
  /\ leads' = WithCustomer(l)
  /\ settled' = settled \cup { Conv(w) }
  /\ GoOn(w, "ack")
  /\ UNCHANGED << customers, crmJobs, link, bookkeeping, flagged, switches >>

-----------------------------------------------------------------------------
(* CreateOrUpdateLeadFromConversation                                      *)

LeadStart(w) ==
  LET l == link[Conv(w)] IN
  /\ On(w, "leadStart")
  /\ GotoWith(w, IF l.lead = 0 THEN "leadInsert" ELSE "leadAttach", l)
  /\ UNCHANGED << crm, link, bookkeeping, memory >>

LeadInsert(w) ==
  /\ On(w, "leadInsert")
  /\ leads' = Append(leads, 0)
  /\ WriteLink(w, [lead |-> Len(leads) + 1], "leadAttach")
  /\ UNCHANGED << customers, crmJobs, appts, link, bookkeeping, memory >>

LeadAttach(w) ==
  /\ On(w, "leadAttach")
  /\ leads' = WithCustomer(work[w].mine)
  /\ GoOn(w, "ack")
  /\ UNCHANGED << customers, crmJobs, appts, link, bookkeeping, memory >>

-----------------------------------------------------------------------------
(* CreateOrUpdateAppointment                                               *)

\* Another booking has the conversation and this one is not in the diary.
Duplicate(w, ext, l) == ~ext /\ l.appt # Nothing /\ l.booking # Wanted(w)
Refer(w, l) ==
  /\ WriteLink(w, [appt |-> l.appt, booking |-> l.booking, review |-> TRUE], "ack")
  /\ flagged' = flagged \cup { Wanted(w) }

\* The appointment of the booking is looked up, then the link row is read.
Lookup(w) ==
  LET ext == Wanted(w) \in DOMAIN appts
      l == link[Conv(w)]
  IN
  /\ On(w, "lookup")
  /\ IF Duplicate(w, ext, l)
     THEN Refer(w, l)
     ELSE work' = [work EXCEPT ![w].pc = "ensure", ![w].ext = ext] /\ UNCHANGED flagged
  /\ UNCHANGED << crm, link, bookkeeping, switches, settled >>

Different(w, l) == l.booking \notin { Nothing, Wanted(w) }

\* ensureBookingLeadForConversation: the link's lead serves, or a new one is made.
Ensure(w) ==
  LET l == link[Conv(w)] IN
  /\ On(w, "ensure")
  /\ GotoWith(w, IF l.lead # 0 /\ ~Different(w, l) THEN "status" ELSE "newLead", l)
  /\ UNCHANGED << crm, link, bookkeeping, memory >>

NewLead(w) ==
  LET turn == Different(w, work[w].mine)
      fresh == [lead |-> Len(leads) + 1, booking |-> Wanted(w), review |-> FALSE]
      turned == [lead |-> Len(leads) + 1, booking |-> Wanted(w), review |-> FALSE, customer |-> 0, job |-> 0, appt |-> Nothing]
  IN
  /\ On(w, "newLead")
  /\ leads' = Append(leads, 0)
  /\ WriteLink(w, IF turn THEN turned ELSE fresh, "status")
  /\ switches' = IF turn THEN switches + 1 ELSE switches
  /\ UNCHANGED << customers, crmJobs, appts, link, bookkeeping, flagged, settled >>

\* The lead's status and customer; then the job the office named, if it did.
Status(w) ==
  /\ On(w, "status")
  /\ leads' = WithCustomer(work[w].mine)
  /\ IF work[w].how = "linkJob"
     THEN WriteLink(w, [job |-> work[w].got, customer |-> crmJobs[work[w].got].customer, review |-> FALSE], "resolve")
     ELSE GoOn(w, "resolve")
  /\ UNCHANGED << customers, crmJobs, appts, link, bookkeeping, memory >>

\* Of a conversation with a customer the name on the booking is not looked at.
Resolve(w) ==
  /\ On(w, "resolve")
  /\ work' = IF work[w].mine.customer # 0
             THEN [work EXCEPT ![w].pc = "book"]
             ELSE [work EXCEPT ![w].pc = "find", ![w].next = "resolved"]
  /\ UNCHANGED << crm, link, bookkeeping, memory >>

Resolved(w) ==
  /\ On(w, "resolved")
  /\ WriteLink(w, [customer |-> work[w].got, review |-> FALSE], "attachLead")
  /\ UNCHANGED << crm, link, bookkeeping, memory >>

AttachLead(w) ==
  /\ On(w, "attachLead")
  /\ leads' = WithCustomer([work[w].mine EXCEPT !.customer = work[w].got])
  /\ GoOn(w, "book")
  /\ UNCHANGED << customers, crmJobs, appts, link, bookkeeping, memory >>

Appointment(l, state) == [customer |-> l.customer, lead |-> l.lead, job |-> l.job, state |-> state]
\* The unique index on the external id refuses a second row.
InsertAppointment(w, l) ==
  /\ Wanted(w) \notin DOMAIN appts
  /\ appts' = Put(Wanted(w), Appointment(l, "scheduled"))

\* The customer of the booking is in question: it goes into the diary without.
Review(w) ==
  LET l == work[w].mine IN
  /\ On(w, "review")
  /\ IF work[w].ext
     THEN /\ appts' = [appts EXCEPT ![Wanted(w)].state = "scheduled", ![Wanted(w)].lead = l.lead]
          /\ GoOn(w, "review2")
     ELSE /\ InsertAppointment(w, [l EXCEPT !.customer = 0, !.job = 0])
          /\ WriteLink(w, [appt |-> Wanted(w)], "review2")
  /\ flagged' = flagged \cup { Wanted(w) }
  /\ UNCHANGED << customers, leads, crmJobs, link, bookkeeping, switches, settled >>

Review2(w) ==
  /\ On(w, "review2")
  /\ WriteLink(w, [appt |-> Wanted(w), customer |-> 0, job |-> 0, booking |-> Wanted(w), review |-> TRUE], "ack")
  /\ UNCHANGED << crm, link, bookkeeping, memory >>

\* The second check, then the appointment is made or brought up to date.
Book(w) ==
  LET l == work[w].mine IN
  /\ On(w, "book")
  /\ IF Duplicate(w, work[w].ext, l)
     THEN Refer(w, l) /\ UNCHANGED appts
     ELSE /\ IF work[w].ext
             THEN appts' = [appts EXCEPT ![Wanted(w)] =
                    [Attached(@, l) EXCEPT !.state = IF Event(w).kind = "completed" THEN "completed" ELSE "scheduled"]]
             ELSE InsertAppointment(w, l)
          /\ WriteLink(w, [appt |-> Wanted(w), booking |-> Wanted(w), review |-> FALSE], "refresh")
          /\ UNCHANGED flagged
  /\ UNCHANGED << customers, leads, crmJobs, link, bookkeeping, switches, settled >>

\* A second row is refused: the command fails.
Refused(w) ==
  /\ On(w, "book") \/ On(w, "review")
  /\ ~work[w].ext /\ Wanted(w) \in DOMAIN appts
  /\ ~(On(w, "book") /\ Duplicate(w, FALSE, work[w].mine))
  /\ work' = [work EXCEPT ![w] = Resting]
  /\ status' = [status EXCEPT ![Event(w)] = "failed"]
  /\ UNCHANGED << crm, link, acked, memory, failures >>

Refresh(w) ==
  LET l == link[Conv(w)] IN
  /\ On(w, "refresh")
  /\ work' = IF l.customer # 0
             THEN [work EXCEPT ![w].pc = "attach", ![w].mine = l]
             ELSE [work EXCEPT ![w].pc = "find", ![w].next = "healed", ![w].mine = l]
  /\ UNCHANGED << crm, link, bookkeeping, memory >>

Healed(w) ==
  /\ On(w, "healed")
  /\ WriteLink(w, [customer |-> work[w].got], "reread")
  /\ UNCHANGED << crm, link, bookkeeping, memory >>

Reread(w) ==
  /\ On(w, "reread")
  /\ GotoWith(w, "attach", link[Conv(w)])
  /\ UNCHANGED << crm, link, bookkeeping, memory >>

Attach(w) ==
  LET l == work[w].mine IN
  /\ On(w, "attach")
  /\ appts' = IF l.appt = Nothing \/ l.customer = 0 THEN appts ELSE [appts EXCEPT ![l.appt].customer = l.customer]
  /\ leads' = WithCustomer(l)
  /\ GoOn(w, "job")
  /\ UNCHANGED << customers, crmJobs, link, bookkeeping, memory >>

\* A job for the diary is made, or the link's job is moved to the new slot.
MakeJob(w) ==
  LET l == work[w].mine IN
  /\ On(w, "job")
  /\ CASE l.job # 0 -> WriteLink(w, [review |-> FALSE], "attachJob") /\ UNCHANGED crmJobs
       [] l.job = 0 /\ l.customer # 0 ->
            /\ crmJobs' = Append(crmJobs, [customer |-> l.customer, lead |-> l.lead])
            /\ WriteLink(w, [job |-> Len(crmJobs) + 1, review |-> FALSE], "attachJob")
       [] OTHER -> GoOn(w, "ack") /\ UNCHANGED crmJobs
  /\ UNCHANGED << customers, leads, appts, link, bookkeeping, memory >>

AttachJob(w) ==
  LET l == work[w].mine IN
  /\ On(w, "attachJob")
  /\ appts' = IF l.appt = Nothing THEN appts ELSE [appts EXCEPT ![l.appt].job = l.job]
  /\ settled' = settled \cup { Conv(w) }
  /\ GoOn(w, "ack")
  /\ UNCHANGED << customers, leads, crmJobs, link, bookkeeping, flagged, switches >>

-----------------------------------------------------------------------------
(* UpsertAppointmentFromPlatformBooking, CancelAppointmentFromPlatform-     *)
(* Booking: the platform's calendar, keyed by booking.                     *)

\* Two that both find no row: the index refuses the second and it is retried.
Upsert(w) ==
  LET b == Wanted(w) IN
  /\ On(w, "upsert")
  /\ appts' = IF b \in DOMAIN appts
              THEN [appts EXCEPT ![b].state = "scheduled",
                                 ![b].customer = IF @ = 0 THEN work[w].got ELSE @]
              ELSE Put(b, Appointment([NoLink EXCEPT !.customer = work[w].got], "scheduled"))
  /\ GoOn(w, "ack")
  /\ UNCHANGED << customers, leads, crmJobs, link, bookkeeping, memory >>

\* A booking that is not in the diary is let go.
Cancel(w) ==
  /\ On(w, "cancel")
  /\ appts' = IF Wanted(w) \in DOMAIN appts THEN [appts EXCEPT ![Wanted(w)].state = "cancelled"] ELSE appts
  /\ GoOn(w, "ack")
  /\ UNCHANGED << customers, leads, crmJobs, link, bookkeeping, memory >>

-----------------------------------------------------------------------------
Customers(w) == FindNone(w) \/ FindOne(w) \/ FindConflict(w) \/ InsertCustomer(w) \/ UpdateCustomer(w) \/ Matched(w)
Linking(w) == LinkRead(w) \/ LinkWrite(w) \/ LinkStart(w) \/ Linked(w) \/ FindJob(w) \/ AttachAll(w)
Qualifying(w) == LeadStart(w) \/ LeadInsert(w) \/ LeadAttach(w)
Ensuring(w) == Lookup(w) \/ Ensure(w) \/ NewLead(w) \/ Status(w) \/ Resolve(w) \/ Resolved(w) \/ AttachLead(w)
Booked(w) == Review(w) \/ Review2(w) \/ Book(w) \/ Refused(w) \/ Refresh(w) \/ Healed(w) \/ Reread(w)
             \/ Attach(w) \/ MakeJob(w) \/ AttachJob(w)
Calendar(w) == Upsert(w) \/ Cancel(w)

CommandStep(w) ==
  Customers(w) \/ Linking(w) \/ Qualifying(w) \/ Ensuring(w) \/ Booked(w) \/ Calendar(w) \/ Acknowledge(w)

BookingNext == \E w \in Worker : CommandStep(w) \/ FailCommand(w) \/ Defer(w) \/ \E e \in Events : BeginEvent(w, e) \/ Recover(w, e)

BookingSpec == BookingInit /\ [][BookingNext]_bookingVars

-----------------------------------------------------------------------------
(* Properties                                                              *)

\* With one worker, whatever fails or is killed and retried: a confirmed booking that
\* was handled is in the diary with its customer and its job, unless a command put it
\* before the office.
InDiary ==
  \A e \in Events :
    e.kind = "confirmed" /\ status[e] = "done" /\ e.booking \notin flagged =>
      /\ e.booking \in DOMAIN appts
      /\ appts[e.booking].customer # 0 /\ appts[e.booking].job # 0

\* Commands of one conversation that run side by side overwrite each other's link row
\* and can part an appointment from its job; they never part it from its customer.
NeverLost ==
  \A e \in Events :
    e.kind = "confirmed" /\ status[e] = "done" /\ e.booking \notin flagged =>
      e.booking \in DOMAIN appts /\ appts[e.booking].customer # 0

\* A conversation gets a second job only when it is turned over to another booking or a
\* command dies between the job and the link that would have shown it.
JobsBounded == Len(crmJobs) <= Cardinality(Conversation) + switches + failures

\* Where the last command that attaches rows ran to its end, the appointment, the lead
\* and the link name the same customer, and the appointment the link's job.
SettledAgrees ==
  \A c \in settled :
    LET l == link[c] IN
    l.appt # Nothing /\ l.customer # 0 =>
      /\ appts[l.appt].customer = l.customer
      /\ leads[l.lead] = l.customer
      /\ l.job # 0 => appts[l.appt].job = l.job

\* A booking never gives a customer somebody else's name: the name that was read when
\* the conflict was looked for is the one that is overwritten.
NameStands ==
  [][\A k \in DOMAIN customers :
       customers'[k] # customers[k] /\ customers[k] # Nothing =>
         \E w \in Worker : On(w, "update") /\ (~ForBooking(w) \/ Chosen(w))]_bookingVars

\* Customers are looked for and then inserted without a unique key: as many commands as
\* run at once may each make one for one number, and no more.  A recovery told to make
\* one makes another when the link row loses the first to a command beside it, and one
\* more when its booking came into the diary meanwhile, which refuses the first try.
CustomersBounded ==
  Len(customers) <= Cardinality(Worker) + 3 * Cardinality({ e \in Events : e.kind = "recovered" }) + 2 * failures

=============================================================================
