------------------------------ MODULE Enquiries ------------------------------
(***************************************************************************)
(* Enquiries (rows of crm.leads): made by the intake, worked by the        *)
(* office, confirmed as bookings, chased when their next action is due,    *)
(* and asked once more when they were lost.                                *)
(*                                                                         *)
(* A confirmation inserts a job, an appointment and then writes the lead,  *)
(* with no transaction around them: on an error it deletes what it had     *)
(* inserted.  The cron jobs read a list of leads and then work them off    *)
(* one by one.  What is scheduled for a lead is kept here as a history;    *)
(* the rows and their sending are NotificationQueue's, the reminders of    *)
(* the new appointment Diary's, what is told to the platform Outbox's.     *)
(***************************************************************************)
EXTENDS Integers, FiniteSets

CONSTANTS
  Lead,
  Reachable,  \* leads whose customer has a telephone number
  Request,    \* slots for concurrent confirmations
  Chaser,     \* slots for overlapping runs of the lead chase
  Recaller,   \* slots for overlapping runs of the lost-lead re-engagement
  Step,       \* the texts of the chase: at once and after three days
  Limit,      \* leads a run takes
  None,
  Budgets     \* bounds: the leads that enquire and the runs there are; how many
              \* confirmations, writes of the office, and calls or functions that fail

ASSUME EnquiriesAssumption ==
  /\ Reachable \subseteq Lead /\ None \notin Lead /\ Chaser \cap Recaller = {}
  /\ IsFiniteSet(Request) /\ IsFiniteSet(Recaller)
  /\ Limit \in Nat
  /\ Budgets \subseteq [leads : SUBSET Lead, runs : SUBSET (Chaser \cup Recaller),
                       confirmations : Nat, edits : Nat, faults : Nat]

VARIABLES
  lead,     \* status, next action, and whether it was re-engaged
  jobs,     \* jobs made from each lead
  visits,   \* its appointments that are not cancelled
  req,      \* the running confirmations
  run,      \* the running cron jobs
  stale,    \* history: leads the office wrote since a run listed them, and since it
            \* looked at the one it is at
  owed,     \* history: texts a lead that came due is still to be chased with
  asked,    \* history: how often the re-engagement of a lead was scheduled
  booked,   \* history: confirmations that succeeded, and those that booked in full
  opened,   \* history: how often a lead became one that may be booked
  refused,  \* history: calls of confirmations that were refused
  cut,      \* history: confirmations killed, and answers to them lost
  aborted,  \* history: cron runs that threw or were killed
  budget    \* what is left of the bounds

vars == << lead, jobs, visits, req, run, stale, owed, asked, booked, opened, refused, cut, aborted, budget >>
rows == << lead, jobs, visits >>
crons == << run, stale, owed, asked >>
bookings == << jobs, visits, req, booked >>
faults == << refused, cut, aborted >>

\* "new" is new or contacted, "open" any other that may be booked but was not lost,
\* "booked" booked or completed.
Statuses == { "new", "open", "booked", "lost" }
Nexts == { "none", "later", "due" }
Absent == [status |-> "none", next |-> "none", recalled |-> FALSE]
Free == [pc |-> "idle", lead |-> None, full |-> FALSE, job |-> FALSE, visit |-> "none"]
Runs == Chaser \cup Recaller
Asleep == [pc |-> "idle", list |-> {}, cur |-> None, todo |-> {}]
Fresh == [listed |-> {}, looked |-> FALSE]

Init ==
  /\ lead = [l \in Lead |-> Absent]
  /\ jobs = [l \in Lead |-> 0] /\ visits = [l \in Lead |-> 0]
  /\ req = [r \in Request |-> Free]
  /\ run = [c \in Runs |-> Asleep]
  /\ stale = [c \in Runs |-> Fresh]
  /\ owed = [l \in Lead |-> {}] /\ asked = [l \in Lead |-> 0]
  /\ booked = [l \in Lead |-> [all |-> 0, full |-> 0]]
  /\ opened = [l \in Lead |-> 0]
  /\ refused = 0 /\ cut = 0 /\ aborted = 0
  /\ budget \in Budgets

-----------------------------------------------------------------------------
At(r, pc) == req[r].pc = pc
Running(c, pc) == run[c].pc = pc
Exists(l) == lead[l].status # "none"
Spend(bound) == budget[bound] > 0 /\ budget' = [budget EXCEPT ![bound] = @ - 1]
Chaseable(l) == lead[l].status = "new"

\* The status and the next action are written, whatever they were.
Write(l, status, next) ==
  /\ lead' = [lead EXCEPT ![l].status = status, ![l].next = next]
  /\ opened' = [opened EXCEPT ![l] = @ + (IF lead[l].status \in { "none", "booked" } /\ status # "booked" THEN 1 ELSE 0)]
  /\ owed' = [owed EXCEPT ![l] = IF status = "new" /\ next = "due" THEN Step ELSE {}]
  /\ stale' = [c \in Runs |-> [listed |-> stale[c].listed \cup ({ l } \cap run[c].list),
                               looked |-> stale[c].looked \/ run[c].cur = l]]

-----------------------------------------------------------------------------
(* The intake and the office.                                              *)

\* Inbound calls and messages are due at once, the website's enquiries have no next
\* action, the office chooses.
Enquire(l, next) ==
  /\ l \in budget.leads /\ ~Exists(l)
  /\ Write(l, "new", next)
  /\ UNCHANGED << bookings, run, asked, faults, budget >>

\* PATCH, and the executor's commands.
Edit(l, status, next) ==
  /\ Exists(l) /\ Spend("edits")
  /\ Write(l, status, next)
  /\ UNCHANGED << bookings, run, asked, faults >>

\* A lead that is booked is opened by it too.
Snooze(l) == Edit(l, "open", "later")

ComesDue(l) ==
  /\ lead[l].next = "later"
  /\ lead' = [lead EXCEPT ![l].next = "due"]
  /\ owed' = [owed EXCEPT ![l] = IF Chaseable(l) THEN Step ELSE {}]
  /\ UNCHANGED << bookings, run, stale, asked, opened, faults, budget >>

\* An appointment is cancelled, be it of a confirmation that still runs.
CancelVisit(l) ==
  /\ visits[l] > 0 /\ Spend("edits")
  /\ visits' = [visits EXCEPT ![l] = @ - 1]
  /\ \/ /\ visits[l] > Cardinality({ r \in Request : req[r].lead = l /\ req[r].visit = "on" })
        /\ UNCHANGED req
     \/ \E r \in Request :
          /\ req[r].lead = l /\ req[r].visit = "on"
          /\ req' = [req EXCEPT ![r].visit = "off"]
  /\ UNCHANGED << lead, jobs, crons, booked, opened, faults >>

-----------------------------------------------------------------------------
(* Mutated forms: mistakes a change could make.  No action uses them.      *)

Undo_JobOnly(r) == IF At(r, "job") THEN Free ELSE [req[r] EXCEPT !.pc = "undojob", !.visit = "none"]

Bookable_Anyway(l) == Exists(l)

Recallable_Again == { l \in Lead : lead[l].status = "lost" }

MayChase_AsListed(l) == Exists(l)

Leave_Returns(c, l, pc) ==
  run' = [run EXCEPT ![c] = Asleep] /\ stale' = [stale EXCEPT ![c] = Fresh]

-----------------------------------------------------------------------------
(* POST /leads/[id]/confirm-booking.                                       *)

Bookable(l) == lead[l].status \notin { "none", "booked" }

\* A survey leaves the lead open, and open to be confirmed again.
Look(r, l, full) ==
  /\ At(r, "idle") /\ Bookable(l) /\ Spend("confirmations")
  /\ req' = [req EXCEPT ![r] = [Free EXCEPT !.pc = "job", !.lead = l, !.full = full]]
  /\ UNCHANGED << rows, crons, booked, opened, faults >>

InsertJob(r) ==
  LET l == req[r].lead IN
  /\ jobs' = [jobs EXCEPT ![l] = @ + 1]
  /\ UNCHANGED << lead, visits, crons, booked, opened >>

\* The job's engineers, then the appointment.
InsertVisit(r) ==
  LET l == req[r].lead IN
  /\ visits' = [visits EXCEPT ![l] = @ + 1]
  /\ UNCHANGED << lead, jobs, crons, booked, opened >>

WriteLead(r) ==
  /\ Write(req[r].lead, IF req[r].full THEN "booked" ELSE "open", "none")
  /\ UNCHANGED << jobs, visits, run, asked >>

Job(r) ==
  /\ At(r, "job") /\ InsertJob(r)
  /\ req' = [req EXCEPT ![r].pc = "visit", ![r].job = TRUE]
  /\ UNCHANGED << faults, budget >>

Visit(r) ==
  /\ At(r, "visit") /\ InsertVisit(r)
  /\ req' = [req EXCEPT ![r].pc = "lead", ![r].visit = "on"]
  /\ UNCHANGED << faults, budget >>

\* What comes after it may fail, and is not undone.
Commit(r) ==
  /\ At(r, "lead") /\ WriteLead(r)
  /\ req' = [req EXCEPT ![r] = Free]
  /\ booked' = [booked EXCEPT ![req[r].lead] =
       [all |-> @.all + 1, full |-> @.full + (IF req[r].full THEN 1 ELSE 0)]]
  /\ UNCHANGED << faults, budget >>

\* cleanupCreatedRecords: what the request knows it made, the appointment first.
Undo(r) ==
  CASE At(r, "job")   -> Free
    [] At(r, "visit") -> [req[r] EXCEPT !.pc = "undojob"]
    [] OTHER          -> [req[r] EXCEPT !.pc = "undovisit"]

UndoVisit(r) ==
  /\ At(r, "undovisit")
  /\ visits' = [visits EXCEPT ![req[r].lead] = @ - (IF req[r].visit = "on" THEN 1 ELSE 0)]
  /\ req' = [req EXCEPT ![r].pc = "undojob", ![r].visit = "none"]
  /\ UNCHANGED << lead, jobs, crons, booked, opened, faults, budget >>

UndoJob(r) ==
  /\ At(r, "undojob")
  /\ jobs' = [jobs EXCEPT ![req[r].lead] = @ - 1]
  /\ req' = [req EXCEPT ![r] = Free]
  /\ UNCHANGED << lead, visits, crons, booked, opened, faults, budget >>

\* A call is refused; refused deletes are not noticed.
Refuse(r) ==
  /\ ~At(r, "idle") /\ Spend("faults")
  /\ refused' = refused + 1
  /\ req' = [req EXCEPT ![r] =
       CASE At(r, "undovisit") -> [@ EXCEPT !.pc = "undojob", !.visit = "none"]
         [] At(r, "undojob")   -> Free
         [] OTHER              -> Undo(r)]
  /\ UNCHANGED << rows, crons, booked, opened, cut, aborted >>

\* A write is done and its answer lost, so that it is not undone.
LoseAnswer(r) ==
  /\ Spend("faults")
  /\ cut' = cut + 1
  /\ \/ At(r, "job") /\ InsertJob(r)
     \/ At(r, "visit") /\ InsertVisit(r)
     \/ At(r, "lead") /\ WriteLead(r) /\ UNCHANGED booked
  /\ req' = [req EXCEPT ![r] = Undo(r)]
  /\ UNCHANGED << refused, aborted >>

Kill(r) ==
  /\ ~At(r, "idle") /\ Spend("faults")
  /\ cut' = cut + 1
  /\ req' = [req EXCEPT ![r] = Free]
  /\ UNCHANGED << rows, crons, booked, opened, refused, aborted >>

-----------------------------------------------------------------------------
(* Both cron jobs: a list is read once, its leads are taken one by one.    *)

\* The first leads of the list, whichever they are.
List(c, candidates, pc) ==
  /\ Running(c, "idle") /\ candidates # {}
  /\ \E list \in SUBSET candidates :
       /\ list # {} /\ (Cardinality(list) = Limit \/ (list = candidates /\ Cardinality(list) < Limit))
       /\ run' = [run EXCEPT ![c] = [Asleep EXCEPT !.pc = pc, !.list = list]]
  /\ UNCHANGED << rows, stale, owed, asked >>

\* The run goes on to its next lead, or ends.
Leave(c, l, pc) ==
  LET left == run[c].list \ { l } IN
  /\ run' = [run EXCEPT ![c] = IF left = {} THEN Asleep ELSE [Asleep EXCEPT !.pc = pc, !.list = left]]
  /\ stale' = [stale EXCEPT ![c] =
       IF left = {} THEN Fresh ELSE [listed |-> stale[c].listed \ { l }, looked |-> FALSE]]

\* What goes wrong with one lead ends the run.
Abort(c) ==
  /\ ~Running(c, "idle") /\ Spend("faults")
  /\ aborted' = aborted + 1
  /\ run' = [run EXCEPT ![c] = Asleep] /\ stale' = [stale EXCEPT ![c] = Fresh]
  /\ UNCHANGED << rows, req, owed, asked, booked, opened, refused, cut >>

-----------------------------------------------------------------------------
(* scheduleDueLeadChases and scheduleLeadChaseSequence.                    *)

Due == { l \in Lead : Chaseable(l) /\ lead[l].next = "due" }

ListDue(c) == c \in Chaser \cap budget.runs /\ List(c, Due, "chase")

MayChase(l) == Chaseable(l)

\* The status is read again, the next action is not.
LookAtLead(c, l) ==
  /\ Running(c, "chase") /\ l \in run[c].list
  /\ IF MayChase(l)
     THEN /\ run' = [run EXCEPT ![c].pc = "visits", ![c].cur = l]
          /\ UNCHANGED stale
     ELSE Leave(c, l, "chase")
  /\ UNCHANGED << rows, owed, asked >>

\* A lead that has an appointment is not chased; one that cannot be written to stays
\* due, and in the list of the next run.
LookForVisits(c) ==
  LET l == run[c].cur IN
  /\ Running(c, "visits")
  /\ IF visits[l] > 0
     THEN /\ run' = [run EXCEPT ![c].pc = "clear"]
          /\ owed' = [owed EXCEPT ![l] = {}] /\ UNCHANGED stale
     ELSE /\ UNCHANGED owed
          /\ IF l \in Reachable
             THEN run' = [run EXCEPT ![c].pc = "schedule", ![c].todo = Step] /\ UNCHANGED stale
             ELSE Leave(c, l, "chase")
  /\ UNCHANGED << rows, asked >>

\* One text after the other; which comes first does not matter.
Schedule(c, k) ==
  /\ Running(c, "schedule") /\ k \in run[c].todo
  /\ owed' = [owed EXCEPT ![run[c].cur] = @ \ { k }]
  /\ run' = [run EXCEPT ![c].todo = @ \ { k }, ![c].pc = IF run[c].todo = { k } THEN "clear" ELSE "schedule"]
  /\ UNCHANGED << rows, stale, asked >>

Overtaken(c) == stale[c].looked \/ run[c].cur \in stale[c].listed

\* The next action is wiped, whatever it has become.
ClearNextAction(c) ==
  LET l == run[c].cur IN
  /\ Running(c, "clear")
  /\ lead' = [lead EXCEPT ![l].next = "none"]
  /\ owed' = [owed EXCEPT ![l] = IF Overtaken(c) THEN {} ELSE @]
  /\ Leave(c, l, "chase")
  /\ UNCHANGED << jobs, visits, asked >>

-----------------------------------------------------------------------------
(* scheduleDueLostLeadReengagements, of leads that are old enough.         *)

Recallable == { l \in Lead : lead[l].status = "lost" /\ ~lead[l].recalled }

ListLost(c) == c \in Recaller \cap budget.runs /\ List(c, Recallable, "recall")

\* The status is not read again.
Recall(c, l) ==
  /\ Running(c, "recall") /\ l \in run[c].list
  /\ IF l \in Reachable
     THEN /\ asked' = [asked EXCEPT ![l] = @ + 1]
          /\ run' = [run EXCEPT ![c].pc = "mark", ![c].cur = l]
          /\ UNCHANGED stale
     ELSE Leave(c, l, "recall") /\ UNCHANGED asked
  /\ UNCHANGED << rows, owed >>

MarkReengaged(c) ==
  LET l == run[c].cur IN
  /\ Running(c, "mark")
  /\ lead' = [lead EXCEPT ![l].recalled = TRUE]
  /\ Leave(c, l, "recall")
  /\ UNCHANGED << jobs, visits, owed, asked >>

-----------------------------------------------------------------------------
Office == \E l \in Lead :
  \/ ComesDue(l) \/ CancelVisit(l) \/ Snooze(l)
  \/ \E next \in Nexts : Enquire(l, next) \/ \E status \in Statuses : Edit(l, status, next)
Confirm(r) ==
  \/ \E l \in Lead, full \in BOOLEAN : Look(r, l, full)
  \/ Job(r) \/ Visit(r) \/ Commit(r) \/ UndoVisit(r) \/ UndoJob(r)
Chase(c) ==
  /\ \/ ListDue(c) \/ LookForVisits(c) \/ ClearNextAction(c)
     \/ \E l \in Lead : LookAtLead(c, l)
     \/ \E k \in Step : Schedule(c, k)
  /\ UNCHANGED << req, booked, opened, faults, budget >>
Reengage(c) ==
  /\ ListLost(c) \/ MarkReengaged(c) \/ \E l \in Lead : Recall(c, l)
  /\ UNCHANGED << req, booked, opened, faults, budget >>

Next ==
  \/ Office
  \/ \E r \in Request : Confirm(r) \/ Refuse(r) \/ LoseAnswer(r) \/ Kill(r)
  \/ \E c \in Runs : Chase(c) \/ Reengage(c) \/ Abort(c)

Spec == Init /\ [][Next]_vars

\* The cron keeps running, and a run that is not cut short goes on.
FairSpec == Spec /\ \A c \in Chaser : WF_vars(Chase(c))

-----------------------------------------------------------------------------
(* Properties.                                                             *)

\* Leads, requests, runs and counters keep their types.
TypeOK ==
  /\ lead \in [Lead -> [status : Statuses \cup { "none" }, next : Nexts, recalled : BOOLEAN]]
  /\ jobs \in [Lead -> Nat] /\ visits \in [Lead -> Nat]
  /\ req \in [Request -> [pc : { "idle", "job", "visit", "lead", "undovisit", "undojob" },
                         lead : Lead \cup { None }, full : BOOLEAN, job : BOOLEAN,
                         visit : { "none", "on", "off" }]]
  /\ run \in [Runs -> [pc : { "idle", "chase", "visits", "schedule", "clear", "recall", "mark" },
                      list : SUBSET Lead, cur : Lead \cup { None }, todo : SUBSET Step]]
  /\ stale \in [Runs -> [listed : SUBSET Lead, looked : BOOLEAN]]
  /\ owed \in [Lead -> SUBSET Step] /\ asked \in [Lead -> Nat]
  /\ booked \in [Lead -> [all : Nat, full : Nat]] /\ opened \in [Lead -> Nat]
  /\ refused \in Nat /\ cut \in Nat /\ aborted \in Nat
  /\ budget \in [leads : SUBSET Lead, runs : SUBSET Runs, confirmations : Nat, edits : Nat, faults : Nat]

Of(l) == { r \in Request : req[r].lead = l }
Excused == cut + refused \div 2

\* The jobs of a lead are those of its confirmations, done and running, and no
\* appointment is on for anything else: what is left over by confirmations that
\* failed is at most one for each that was killed or had an answer lost, and for
\* each two calls refused, that is, one refused call leaves nothing; and undoing one
\* never takes the job of another (confirm-booking/route.ts:108-118, 471-474).
StraysBounded ==
  \A l \in Lead :
    LET made == booked[l].all + Cardinality({ r \in Of(l) : req[r].job }) IN
    /\ jobs[l] \in made .. made + Excused
    /\ visits[l] <= booked[l].all + Cardinality({ r \in Of(l) : req[r].visit = "on" }) + Excused

\* A lead is booked in full at most once for each time it was open, and each
\* confirmation at a time (confirm-booking/route.ts:265).
BookedBounded == \A l \in Lead : booked[l].full <= opened[l] * Cardinality(Request)

\* However often a lead is lost again, its re-engagement is scheduled once, but for
\* runs that overlap or are cut short (lost-lead-reengagement.ts:73-141).
RecalledOnce == \A l \in Lead : asked[l] <= Cardinality(Recaller) + aborted

\* The chase wipes a next action of a lead that is no longer new or no longer due,
\* and the re-engagement is scheduled for a lead that is no longer lost, only if the
\* lead was written after the run had read it (lead-chase.ts:84-132,
\* lost-lead-reengagement.ts:73-126).
ActsOnWhatItRead ==
  [][/\ \A c \in Chaser : Running(c, "clear") /\ lead' # lead /\ run'[c] # run[c] =>
          LET l == run[c].cur IN
          /\ lead[l].next = "later" => Overtaken(c)
          /\ ~Chaseable(l) => stale[c].looked
     /\ \A c \in Recaller, l \in Lead : asked' # asked /\ run'[c].cur = l /\ run[c].cur # l
          /\ lead[l].status # "lost" => l \in stale[c].listed]_vars

\* As long as fewer leads than a run takes are without a telephone number, a lead that
\* comes due is chased with every text, unless the office writes it or it has an
\* appointment (lead-chase.ts:136-167).
EventuallyChased ==
  Cardinality(Lead \ Reachable) < Limit =>
    \A l \in Reachable : owed[l] # {} /\ budget.runs \cap Chaser # {} ~> owed[l] = {}
=============================================================================
