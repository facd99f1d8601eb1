------------------------- MODULE BookingsInvariants --------------------------
(***************************************************************************)
(* What holds of Bookings between any two awaits: the inductive invariants *)
(* of its proofs, and what they are made of.  They say where a worker can  *)
(* be in its command, what it has read and got by then, and how the rows   *)
(* stand that it or another worker has still to write.                     *)
(***************************************************************************)
EXTENDS Bookings, FiniteSets

-----------------------------------------------------------------------------
(* Types: every id that a row, a worker or a patch holds is a row's.       *)

Names == Known \cup { NameIn[c] : c \in Conversation } \cup {Nothing}
Slots == Booking \cup {Nothing}
CustomerIds == 0 .. Len(customers)
LeadIds == 0 .. Len(leads)
JobIds == 0 .. Len(crmJobs)
ApptIds == DOMAIN appts \cup {Nothing}
Row == [row : BOOLEAN, lead : LeadIds, customer : CustomerIds, job : JobIds, appt : ApptIds, booking : Slots, review : BOOLEAN]
JobRow == [customer : CustomerIds, lead : LeadIds]
Appt == [customer : CustomerIds, lead : LeadIds, job : JobIds, state : { "scheduled", "completed", "cancelled" }]

\* What commands lay over a link row: the review of a booking, then each of the others.
ReviewPatches ==
  [customer : {0}, job : {0}, booking : Slots, review : BOOLEAN]
    \cup [appt : ApptIds, customer : {0}, job : {0}, booking : Slots, review : BOOLEAN]
    \cup [appt : ApptIds, booking : Slots, review : BOOLEAN]
    \cup [appt : ApptIds]
LeadPatches ==
  [lead : LeadIds]
    \cup [lead : LeadIds, booking : Slots, review : BOOLEAN]
    \cup [lead : LeadIds, booking : Slots, review : BOOLEAN, customer : {0}, job : {0}, appt : {Nothing}]
CustomerPatches == [customer : CustomerIds] \cup [customer : CustomerIds, review : BOOLEAN]
JobPatches ==
  [job : JobIds] \cup [job : JobIds, review : BOOLEAN] \cup [review : BOOLEAN]
    \cup [job : JobIds, customer : CustomerIds, review : BOOLEAN]
Patches == {NoPatch} \cup ReviewPatches \cup LeadPatches \cup CustomerPatches \cup JobPatches

Places ==
  { "idle", "find", "insert", "update", "matched", "linkRead", "linkWrite", "linkStart", "linked", "findJob", "attachAll",
    "leadStart", "leadInsert", "leadAttach", "lookup", "ensure", "newLead", "status", "resolve", "resolved", "attachLead",
    "review", "review2", "book", "refresh", "healed", "reread", "attach", "job", "attachJob", "upsert", "cancel", "ack" }
Task == [pc : Places, event : SUBSET Events, step : Nat, mine : Row, seen : Row, patch : Patches, next : Places,
         ext : BOOLEAN, how : Recoveries \cup {"none"}, got : Nat]

RowTypes ==
  /\ customers \in Seq(Names) /\ leads \in Seq(CustomerIds) /\ crmJobs \in Seq(JobRow)
  /\ DOMAIN appts \subseteq Slots /\ appts \in [DOMAIN appts -> Appt]
  /\ link \in [Conversation -> Row]
BookTypes ==
  /\ RowTypes
  /\ work \in [Worker -> Task]
  /\ status \in [Events -> { "waiting", "running", "failed", "done" }] /\ acked \in [Events -> Nat]
  /\ flagged \subseteq Slots /\ switches \in Nat /\ settled \subseteq Conversation /\ failures \in Nat

-----------------------------------------------------------------------------
(* Where a worker can be.                                                  *)

Cmds == { "Match", "Link", "Lead", "Upsert", "Cancel", "CreateOrUpdate" }
Cmd(w) == Commands(Event(w))[work[w].step]
Looking == { "find", "insert", "update" }
Writing == { "linkRead", "linkWrite" }

\* The steps of a command, those a lookup of its customer leads to, and those a write
\* of the link row leads to.
Steps(cmd) ==
  CASE cmd = "Match"  -> { "matched", "ack" }
    [] cmd = "Link"   -> { "linkStart", "linked", "findJob", "attachAll", "ack" }
    [] cmd = "Lead"   -> { "leadStart", "leadInsert", "leadAttach", "ack" }
    [] cmd = "Upsert" -> { "upsert", "ack" }
    [] cmd = "Cancel" -> { "cancel", "ack" }
    [] OTHER -> { "lookup", "ensure", "newLead", "status", "resolve", "resolved", "attachLead", "book", "review",
                  "review2", "refresh", "healed", "reread", "attach", "job", "attachJob", "ack" }
LookupsOf(cmd) ==
  CASE cmd = "Match"  -> { "matched" }
    [] cmd = "Link"   -> { "linked" }
    [] cmd = "Upsert" -> { "upsert" }
    [] cmd = "CreateOrUpdate" -> { "resolved", "healed" }
    [] OTHER -> {}
WritesOf(cmd) ==
  CASE cmd = "Match" -> { "ack" }
    [] cmd = "Link"  -> { "findJob", "attachAll", "ack" }
    [] cmd = "Lead"  -> { "leadAttach" }
    [] cmd = "CreateOrUpdate" -> { "status", "resolve", "attachLead", "review2", "refresh", "reread", "attachJob", "ack" }
    [] OTHER -> {}
PlacedIn(cmd, pc, next) ==
  \/ pc \in Steps(cmd)
  \/ pc \in Looking /\ next \in LookupsOf(cmd)
  \/ pc \in Writing /\ next \in WritesOf(cmd)

\* A worker that is not idle executes one command of one event.
Busy(w) ==
  /\ work[w].event = { Event(w) } /\ Event(w) \in Events
  /\ work[w].step \in 1 .. Len(Commands(Event(w)))
  /\ PlacedIn(Cmd(w), work[w].pc, work[w].next)
  /\ status[Event(w)] = "running"
  /\ work[w].how = "none" \/ Event(w).kind = "recovered"
Vacant(w) == On(w, "idle") /\ work[w].event = {}

\* Nobody else executes it, and it is executed from the first command that was not.
BusyInv ==
  /\ \A w \in Worker : Vacant(w) \/ Busy(w)
  /\ \A v, w \in Worker : work[v].event = work[w].event => v = w \/ Vacant(v)
  /\ \A e \in Events : status[e] # "done" => acked[e] < Len(Commands(e))

-----------------------------------------------------------------------------
(* Whom and what a worker has got.                                         *)

Early(pc, next) == pc \in { "lookup", "ensure", "newLead", "status" } \/ (pc \in Writing /\ next = "status")
HasOne(pc, next) ==
  pc \in { "update", "matched", "linked", "resolved", "healed", "attachLead" } \/ (pc \in Writing /\ next = "attachLead")
InReview(pc, next) == pc = "review2" \/ (pc \in Writing /\ next = "review2")
GotFor(how, pc, next, got, ext, b) ==
  /\ how # "linkJob" => got \in CustomerIds
  /\ how = "linkCustomer" \/ HasOne(pc, next) => got \in DOMAIN customers
  /\ how = "linkJob" /\ Early(pc, next) => got \in DOMAIN crmJobs
  /\ ext \/ InReview(pc, next) => b \in DOMAIN appts
GotBy(w) == GotFor(work[w].how, work[w].pc, work[w].next, work[w].got, work[w].ext, Wanted(w))
GotInv == \A w \in Worker : ~On(w, "idle") => GotBy(w)

BookShape == BookTypes /\ BusyInv /\ GotInv

-----------------------------------------------------------------------------
(* How a worker moves within a command.                                    *)

\* Its event, the command and what the office decided stay.
To(w, pc, next, mine, seen, patch, ext, got) ==
  /\ \A v \in Worker \ {w} : work'[v] = work[v]
  /\ work'[w].event = work[w].event /\ work'[w].step = work[w].step /\ work'[w].how = work[w].how
  /\ work'[w].pc = pc /\ work'[w].next = next /\ work'[w].mine = mine /\ work'[w].seen = seen
  /\ work'[w].patch = patch /\ work'[w].ext = ext /\ work'[w].got = got

\* The row as the executor has it after a write.
Mine(w) ==
  IF work[w].next \in Returned THEN Laid(work[w].patch, work[w].seen) ELSE Laid(work[w].patch, work[w].mine)

-----------------------------------------------------------------------------
(* Rows are added and changed, never removed.                              *)

Grown ==
  /\ Len(customers) <= Len(customers)' /\ Len(leads) <= Len(leads)' /\ Len(crmJobs) <= Len(crmJobs)'
  /\ DOMAIN appts \subseteq DOMAIN appts'

PatchKinds ==
  /\ \A b \in Slots : \A r \in BOOLEAN : [customer |-> 0, job |-> 0, booking |-> b, review |-> r] \in Patches
  /\ \A a \in ApptIds : \A b \in Slots : \A r \in BOOLEAN :
       [appt |-> a, customer |-> 0, job |-> 0, booking |-> b, review |-> r] \in Patches
  /\ \A a \in ApptIds : \A b \in Slots : \A r \in BOOLEAN : [appt |-> a, booking |-> b, review |-> r] \in Patches
  /\ \A a \in ApptIds : [appt |-> a] \in Patches
  /\ \A l \in LeadIds : [lead |-> l] \in Patches
  /\ \A l \in LeadIds : \A b \in Slots : \A r \in BOOLEAN : [lead |-> l, booking |-> b, review |-> r] \in Patches
  /\ \A l \in LeadIds : \A b \in Slots : \A r \in BOOLEAN :
       [lead |-> l, booking |-> b, review |-> r, customer |-> 0, job |-> 0, appt |-> Nothing] \in Patches
  /\ \A k \in CustomerIds : [customer |-> k] \in Patches
  /\ \A k \in CustomerIds : \A r \in BOOLEAN : [customer |-> k, review |-> r] \in Patches
  /\ \A j \in JobIds : [job |-> j] \in Patches
  /\ \A j \in JobIds : \A r \in BOOLEAN : [job |-> j, review |-> r] \in Patches
  /\ \A r \in BOOLEAN : [review |-> r] \in Patches
  /\ \A j \in JobIds : \A k \in CustomerIds : \A r \in BOOLEAN : [job |-> j, customer |-> k, review |-> r] \in Patches

-----------------------------------------------------------------------------
(* The steps of the commands, one by one.                                  *)

Went(w, pc) == To(w, pc, work[w].next, work[w].mine, work[w].seen, work[w].patch, work[w].ext, work[w].got)
Took(w, pc, l) == To(w, pc, work[w].next, l, work[w].seen, work[w].patch, work[w].ext, work[w].got)
Wrote(w, patch, next) == To(w, "linkRead", next, work[w].mine, work[w].seen, patch, work[w].ext, work[w].got)
Looked(w, next, l) == To(w, "find", next, l, work[w].seen, work[w].patch, work[w].ext, work[w].got)
Got(w, pc, k) == To(w, pc, work[w].next, work[w].mine, work[w].seen, work[w].patch, work[w].ext, k)

-----------------------------------------------------------------------------
(* Steps that write rows.                                                  *)

NewRow(w) == [lead |-> Len(leads) + 1, booking |-> Wanted(w), review |-> FALSE]
Turned(w) == [lead |-> Len(leads) + 1, booking |-> Wanted(w), review |-> FALSE, customer |-> 0, job |-> 0, appt |-> Nothing]

\* Of a booking that has an appointment, and of one that has none.
Shown(w) == [Attached(appts[Wanted(w)], work[w].mine) EXCEPT !.state = IF Event(w).kind = "completed" THEN "completed" ELSE "scheduled"]
Held(b) == (b \in DOMAIN appts /\ appts[b].customer # 0) \/ b \in flagged

-----------------------------------------------------------------------------
(* A booking that was handled is in the diary with its customer, or with   *)
(* the office.                                                             *)

\* The appointment is made, or the office was told: it is so at every later step.
Past(pc, next) ==
  \/ pc \in { "refresh", "healed", "reread", "attach", "job", "attachJob", "ack", "review2" }
  \/ pc \in Looking /\ next = "healed"
  \/ pc \in Writing /\ next \in { "refresh", "reread", "attachJob", "ack", "review2" }
HeldFor(cmd, pc, next, mine, patch, b) ==
  cmd = "CreateOrUpdate" =>
    /\ Past(pc, next) => Held(b)
    /\ pc \in { "book", "attachLead" } => mine.customer # 0
    /\ pc \in Writing /\ next = "attachLead" => "customer" \in DOMAIN patch /\ patch.customer # 0
HeldBy(w) == HeldFor(Cmd(w), work[w].pc, work[w].next, work[w].mine, work[w].patch, Wanted(w))
HeldInv ==
  /\ \A w \in Worker : ~On(w, "idle") => HeldBy(w)
  /\ \A e \in Events : e.kind = "confirmed" /\ status[e] = "done" => Held(e.booking)

\* A worker that takes up a command or gives one up: nothing is held by it yet.
Starting(pc, next) ==
  pc \in { "idle", "linkStart", "leadStart", "cancel", "lookup" } \/ (pc = "find" /\ next \in { "matched", "upsert" })

-----------------------------------------------------------------------------
(* How many customers there can be.                                        *)

Recovered == { e \in Events : e.kind = "recovered" }
\* Workers that found no customer and are about to insert one.
Pending == { w \in Worker : On(w, "insert") /\ ~Forced(w) }

\* A recovery told to make a customer has made one, and has made the second.
MadeOne(pc, next) ==
  \/ Past(pc, next)
  \/ pc \in { "resolved", "attachLead", "book" }
  \/ pc \in Writing /\ next = "attachLead"
MadeTwo(pc, next) ==
  \/ pc \in { "healed", "reread", "attach", "job", "attachJob", "ack", "review2" }
  \/ pc \in Writing /\ next \in { "reread", "attachJob", "ack", "review2" }

\* One try counts for a recovery as soon as its booking is in the diary: only then can
\* the unique index have refused it, after it made a customer.
OnceBy(w) ==
  \/ On(w, "lookup") /\ Wanted(w) \in DOMAIN appts
  \/ work[w].ext
  \/ Forced(w) /\ MadeOne(work[w].pc, work[w].next)
TwiceBy(w) == Forced(w) /\ ((MadeOne(work[w].pc, work[w].next) /\ work[w].ext) \/ MadeTwo(work[w].pc, work[w].next))
ThriceBy(w) == Forced(w) /\ MadeTwo(work[w].pc, work[w].next) /\ work[w].ext
Once ==
  { e \in Recovered :
      \/ status[e] = "done"
      \/ status[e] # "running" /\ e.booking \in DOMAIN appts
      \/ \E w \in Worker : work[w].event = {e} /\ OnceBy(w) }
Twice == { e \in Recovered : status[e] = "done" \/ \E w \in Worker : work[w].event = {e} /\ TwiceBy(w) }
Thrice == { e \in Recovered : status[e] = "done" \/ \E w \in Worker : work[w].event = {e} /\ ThriceBy(w) }

\* While there is no customer everyone may be about to insert one; from the first on, only
\* those who looked before, and recoveries.
CountInv ==
  Len(customers) > 0 =>
    Len(customers) + Cardinality(Pending)
      <= Cardinality(Worker) + 2 * failures + Cardinality(Once) + Cardinality(Twice) + Cardinality(Thrice)

\* What a worker has made it has made at every later step.
Onward(p, n, pc, next) == (MadeOne(p, n) => MadeOne(pc, next)) /\ (MadeTwo(p, n) => MadeTwo(pc, next))

-----------------------------------------------------------------------------
(* Names: what a worker reads of a customer before it writes.              *)

Does(w) == CommandStep(w) \/ FailCommand(w) \/ Defer(w) \/ \E e \in Events : BeginEvent(w, e) \/ Recover(w, e)

\* Whom a worker is about to write is the one it was told or does not conflict with it.
NameInv == \A w \in Worker : On(w, "update") => Chosen(w) \/ ~Conflict(w, work[w].got)

-----------------------------------------------------------------------------
(* One worker: the link row is as it was read.                             *)

\* Nobody else is at work.
Alone == \A v, w \in Worker : v = w

\* The worker goes on with the link row as it read it.
Follows(cmd, pc, next) ==
  \/ /\ cmd = "Link"
     /\ pc \in { "linked", "findJob", "attachAll" } \cup Looking \/ (pc \in Writing /\ next \in { "findJob", "attachAll" })
  \/ /\ cmd = "CreateOrUpdate"
     /\ pc \notin { "lookup", "ensure", "ack" } /\ ~(pc \in Writing /\ next = "ack")
  \/ cmd = "Lead" /\ pc = "leadAttach"
TrueFor(cmd, pc, next, mine, seen, row) ==
  /\ pc = "linkWrite" => seen = row
  /\ Follows(cmd, pc, next) => mine = row

\* The row of a conversation, as it is or as it is about to be written.
RowAt(pc, patch, row) == IF pc \in Writing THEN Laid(patch, row) ELSE row
Owned(row) == row.job # 0 => row.customer # 0
JobFor(pc, next, patch, row) ==
  /\ Owned(row) /\ Owned(RowAt(pc, patch, row))
  /\ pc \in Looking /\ next \in { "linked", "resolved" } => row.customer = 0
  /\ InReview(pc, next) \/ pc = "review" => row.job = 0 /\ RowAt(pc, patch, row).job = 0

JobHeld(b) == b \in flagged \/ (b \in DOMAIN appts /\ appts[b].job # 0)
\* From the appointment to its job.
Shown2(pc, next) == pc \in { "refresh", "attach", "job", "attachJob" } \/ (pc \in Writing /\ next \in { "refresh", "attachJob" })
DiaryFor(cmd, pc, next, patch, row, b) ==
  cmd = "CreateOrUpdate" =>
    /\ pc \in { "ack", "review2" } \/ (pc \in Writing /\ next \in { "ack", "review2" }) => JobHeld(b)
    /\ Shown2(pc, next) => RowAt(pc, patch, row).customer # 0 /\ RowAt(pc, patch, row).appt = b
    /\ pc = "attachJob" \/ (pc \in Writing /\ next = "attachJob") => RowAt(pc, patch, row).job # 0
    /\ pc \notin { "healed", "reread" } /\ (pc \in Looking => next # "healed") /\ (pc \in Writing => next # "reread")

OneFor(cmd, pc, next, mine, seen, patch, row, b) ==
  TrueFor(cmd, pc, next, mine, seen, row) /\ JobFor(pc, next, patch, row) /\ DiaryFor(cmd, pc, next, patch, row, b)
OneBy(w) ==
  OneFor(Cmd(w), work[w].pc, work[w].next, work[w].mine, work[w].seen, work[w].patch, link[Conv(w)], Wanted(w))

\* Conversations with a job, written or about to be.
Now(w, c) == IF work[w].pc \in Writing /\ Conv(w) = c THEN Laid(work[w].patch, link[c]) ELSE link[c]
Jobbed == { c \in Conversation : \A w \in Worker : Now(w, c).job # 0 }
OneInv ==
  /\ \A w \in Worker : ~On(w, "idle") => OneBy(w)
  /\ \A c \in Conversation : Owned(link[c])
  /\ \A j \in DOMAIN crmJobs : crmJobs[j].customer # 0
  /\ Len(crmJobs) <= Cardinality(Jobbed) + switches + failures
  /\ \A e \in Events : e.kind = "confirmed" /\ status[e] = "done" => JobHeld(e.booking)

\* A job is paid for by a conversation that had none, by a booking turned over, by a failure.
Paid(old, new) ==
  \/ /\ Len(crmJobs') = Len(crmJobs) /\ switches' = switches /\ failures' = failures
     /\ old # 0 => new # 0
  \/ Len(crmJobs') = Len(crmJobs) + 1 /\ switches' = switches /\ failures' = failures /\ old = 0 /\ new # 0
  \/ Len(crmJobs') = Len(crmJobs) /\ switches' + failures' = switches + failures + 1

-----------------------------------------------------------------------------
(* One worker: what the last writer of a conversation left behind.         *)

\* A booking belongs to one conversation.
OneConversation == \A e, f \in Events : e.booking = f.booking /\ e.booking # Nothing => e.conv = f.conv
Owns(c, b) == \E e \in Events : e.booking = b /\ e.conv = c

\* No row has the lead of another, and one with an appointment has a lead.
Apart(c, l) ==
  /\ l.appt # Nothing => l.lead # 0 /\ Owns(c, l.appt)
  /\ \A d \in Conversation \ {c} : l.lead = link[d].lead => l.lead = 0
Half(l) == l.appt # Nothing /\ l.customer # 0 => appts[l.appt].customer = l.customer /\ leads[l.lead] = l.customer
Agrees(l) == Half(l) /\ (l.appt # Nothing /\ l.customer # 0 /\ l.job # 0 => appts[l.appt].job = l.job)

\* Past the lead of the booking; between the customer on the appointment and the job.
Led(cmd, pc, next) ==
  cmd = "CreateOrUpdate" /\ pc \notin { "lookup", "ensure", "newLead", "ack" } /\ ~(pc \in Writing /\ next = "ack")
Settling(cmd, pc, next) ==
  cmd = "CreateOrUpdate" /\ (pc \in { "job", "attachJob" } \/ (pc \in Writing /\ next = "attachJob"))
PartFor(cmd, pc, next, l, c) ==
  /\ Apart(c, l)
  /\ Led(cmd, pc, next) => l.lead # 0
  /\ Settling(cmd, pc, next) => Half(l)
  /\ cmd \notin { "Upsert", "Cancel" } /\ pc # "ack" => c \notin settled
PartBy(w) == PartFor(Cmd(w), work[w].pc, work[w].next, RowAt(work[w].pc, work[w].patch, link[Conv(w)]), Conv(w))
PartInv ==
  /\ \A w \in Worker : ~On(w, "idle") => PartBy(w)
  /\ \A c \in Conversation : Apart(c, link[c])
  /\ \A c \in settled : Agrees(link[c])

\* What a step leaves alone: the leads of the other conversations and their appointments.
Aside(k) ==
  /\ \A j \in DOMAIN leads : j # link[k].lead => leads'[j] = leads[j]
  /\ \A a \in DOMAIN appts : ~Owns(k, a) => appts'[a] = appts[a]
==============================================================================
