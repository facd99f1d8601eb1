-------------------------------- MODULE Intake --------------------------------
(***************************************************************************)
(* How enquiries come in: forms from the website, and text messages,       *)
(* e-mails and lead adverts.  Each looks for the customer, makes one if it *)
(* finds none, and makes a lead.  A form that repeats a recent one joins   *)
(* its lead instead; a message joins the thread of its contact.            *)
(*                                                                         *)
(* No table has a unique key for any of this: every request looks, and     *)
(* writes on what it saw, one await per step.  The rows of the notes and   *)
(* how an alert is marked are left out (the latter is NotificationQueue's, *)
(* as are STOP and START); what becomes of a lead is Enquiries'.           *)
(***************************************************************************)
EXTENDS Integers, Sequences, FiniteSets, FiniteSetsExt

CONSTANTS
  Request,     \* function instances
  Forms,       \* what is typed into the website's form
  Messages,    \* what comes in by text, e-mail or advert
  Stored,      \* a telephone number, as typed |-> as it is stored
  None,
  Window,      \* how long a form is taken for a repetition
  MatchLimit,  \* customers a form is compared with
  Budgets      \* bounds: what may be sent, and how many requests, edits, moments and faults
               \* there are

ASSUME IntakeAssumption ==
  /\ \A f \in Forms : f.phone \in DOMAIN Stored /\ << Stored[f.phone], f.issue >> # None
  /\ \A m \in Messages : m.phone # None \/ m.email # None
  /\ None \notin Request /\ IsFiniteSet(Request)
  /\ Window \in Nat /\ MatchLimit \in Nat
  /\ Budgets \subseteq [forms : SUBSET Forms, messages : SUBSET Messages,
                       requests : Nat, edits : Nat, ticks : Nat, faults : Nat]

VARIABLES
  customers, \* name, phone, email, whether archived, and who made the row
  leads,     \* fingerprint, customer, how often and when last submitted, whether open
  alerts,    \* keys of the alerts to the office that were reserved
  threads,   \* the upserts of platform_conversation_links: the last one of an id is its row
  req,       \* the running requests
  now,
  accepted,  \* history: forms answered with success, by lead and time of submission
  bypassed,  \* history: leads that a form which repeats one of theirs did not join
  untold,    \* history: forms accepted without a text to the office
  clobbers,  \* history: e-mail addresses a form has overwritten
  overlaps,  \* history: requests and edits that began while another request ran
  faults,    \* history: calls that failed, functions that were killed
  budget     \* what is left of the bounds

vars == << customers, leads, alerts, threads, req, now, accepted, bypassed, untold, clobbers, overlaps, faults, budget >>
rows == << customers, leads, alerts, threads >>
history == << accepted, bypassed, untold, clobbers, overlaps >>

Idle == [pc |-> "idle", input |-> None, at |-> 0, customer |-> 0, email |-> None,
         lead |-> 0, count |-> 0, thread |-> 0, repeated |-> {}]

Init ==
  /\ customers = << >> /\ leads = << >> /\ alerts = {} /\ threads = << >>
  /\ req = [r \in Request |-> Idle]
  /\ now = 0
  /\ accepted = {} /\ bypassed = {} /\ untold = 0 /\ clobbers = 0 /\ overlaps = 0 /\ faults = 0
  /\ budget \in Budgets

-----------------------------------------------------------------------------
At(r, pc) == req[r].pc = pc
Input(r) == req[r].input
Goto(r, pc) == req' = [req EXCEPT ![r].pc = pc]
Spend(bound) == budget[bound] > 0 /\ budget' = [budget EXCEPT ![bound] = @ - 1]
bounds == << faults, budget >>
Fault == Spend("faults") /\ faults' = faults + 1
Running == { r \in Request : ~At(r, "idle") }
Overlap == overlaps' = overlaps + (IF Running = {} THEN 0 ELSE 1)
Count(truth) == IF truth THEN 1 ELSE 0

\* Blanks and brackets go, a leading plus stays: one person's number may be stored
\* in its national and in its international form.
normalizePhone(typed) == Stored[typed]

Fingerprint(f) == << normalizePhone(f.phone), f.issue >>

\* Mutated forms: mistakes a change could make.  No action uses them.
SamePerson_ByEmail(c, f) == c.email # None /\ c.email = f.email
Filled_Anew(seen, given) == IF given # None THEN given ELSE seen
AlertKey_OfLead(lead, count) == << lead, 1 >>
Stamp_OfLead(r) == leads[req[r].lead].last

\* A customer with the form's number is the one who sent it if the e-mail address or
\* the name is the same too.
SamePerson(c, f) == (c.email # None /\ c.email = f.email) \/ c.name = f.name

\* The customers with the form's number, the newest MatchLimit of them.
Candidates(f) ==
  LET same == { k \in DOMAIN customers : customers[k].phone = normalizePhone(f.phone) } IN
  { k \in same : Cardinality({ j \in same : j > k }) < MatchLimit }

\* What was known of a customer stays, what was blank is filled.
Filled(seen, given) == IF seen # None THEN seen ELSE given

isWithinLeadDedupeWindow(at, last) == at - last <= Window

AlertKey(lead, count) == << lead, count >>

\* A repetition's stamp is the time it was sent.
Stamp(r) == req[r].at

-----------------------------------------------------------------------------
(* A form.                                                                 *)

Submit(r, f) ==
  /\ At(r, "idle") /\ f \in budget.forms /\ Spend("requests")
  /\ req' = [req EXCEPT ![r] =
       [Idle EXCEPT !.pc = "match", !.input = f, !.at = now,
          !.repeated = { a.lead : a \in { b \in accepted : leads[b.lead].fingerprint = Fingerprint(f)
                                                           /\ now - b.at <= Window } }]]
  /\ Overlap
  /\ UNCHANGED << rows, now, accepted, bypassed, untold, clobbers, faults >>

\* determineCustomerMatch; a read that fails counts as one that finds nobody.
Match(r) ==
  LET strict == { k \in Candidates(Input(r)) : SamePerson(customers[k], Input(r)) } IN
  /\ At(r, "match")
  /\ \/ /\ strict # {}
        /\ req' = [req EXCEPT ![r].pc = "fill", ![r].customer = Max(strict), ![r].email = customers[Max(strict)].email]
        /\ UNCHANGED bounds
     \/ strict = {} /\ Goto(r, "create") /\ UNCHANGED bounds
     \/ strict # {} /\ Goto(r, "create") /\ Fault
  /\ UNCHANGED << rows, now, history >>

NewCustomer(r, name, phone, email, source, next) ==
  /\ customers' = Append(customers, [name |-> name, phone |-> phone, email |-> email, archived |-> FALSE, source |-> source])
  /\ req' = [req EXCEPT ![r].pc = next, ![r].customer = Len(customers) + 1]
  /\ UNCHANGED << leads, alerts, threads, now, history, bounds >>

CreateCustomer(r) ==
  /\ At(r, "create")
  /\ NewCustomer(r, Input(r).name, normalizePhone(Input(r).phone), Input(r).email, "form", "recent")

\* The row is written from the copy that was read; whether the call succeeds is not
\* looked at.
FillCustomer(r) ==
  LET k == req[r].customer
      email == Filled(req[r].email, Input(r).email)
  IN
  /\ At(r, "fill")
  /\ Goto(r, "recent")
  /\ \/ /\ customers' = [customers EXCEPT ![k].email = email]
        /\ clobbers' = clobbers + Count(customers[k].email \notin { None, email })
        /\ UNCHANGED bounds
     \/ Fault /\ UNCHANGED << customers, clobbers >>
  /\ UNCHANGED << leads, alerts, threads, now, accepted, bypassed, untold, overlaps >>

\* The open lead of that fingerprint which was submitted last, or, of several, the
\* newest; a read that fails counts as one that finds none.
Recent(r) ==
  LET same == { l \in DOMAIN leads : leads[l].fingerprint = Fingerprint(Input(r)) /\ leads[l].open }
      last == { l \in same : \A k \in same : leads[k].last <= leads[l].last }
      repeats == same # {} /\ isWithinLeadDedupeWindow(req[r].at, leads[Max(last)].last)
  IN
  /\ At(r, "recent")
  /\ \/ /\ repeats
        /\ req' = [req EXCEPT ![r].pc = "join", ![r].lead = Max(last), ![r].count = leads[Max(last)].count + 1]
        /\ UNCHANGED bounds
     \/ ~repeats /\ Goto(r, "open") /\ UNCHANGED bounds
     \/ repeats /\ Goto(r, "open") /\ Fault
  /\ UNCHANGED << rows, now, history >>

NewLead(r, fingerprint, next) ==
  /\ leads' = Append(leads, [fingerprint |-> fingerprint, customer |-> req[r].customer, count |-> 1,
                             last |-> req[r].at, open |-> TRUE])
  /\ req' = [req EXCEPT ![r] = IF next = "idle" THEN Idle
                               ELSE [@ EXCEPT !.pc = next, !.lead = Len(leads) + 1, !.count = 1]]
  /\ UNCHANGED << customers, alerts, threads, now, accepted, untold, clobbers, overlaps, bounds >>

OpenLead(r) ==
  /\ At(r, "open")
  /\ NewLead(r, Fingerprint(Input(r)), "alert")
  /\ bypassed' = bypassed \cup { l \in req[r].repeated : leads[l].open }

\* Whatever has become of the lead since it was read.
JoinLead(r) ==
  /\ At(r, "join")
  /\ leads' = [leads EXCEPT ![req[r].lead].customer = req[r].customer,
                            ![req[r].lead].count = req[r].count,
                            ![req[r].lead].last = Stamp(r)]
  /\ Goto(r, "alert")
  /\ UNCHANGED << customers, alerts, threads, now, history, bounds >>

\* The form is answered with success, whether or not the office was told.
Answer(r, told) ==
  /\ accepted' = accepted \cup { [lead |-> req[r].lead, at |-> req[r].at] }
  /\ untold' = untold + Count(~told)
  /\ req' = [req EXCEPT ![r] = Idle]
  /\ UNCHANGED << customers, leads, threads, now, bypassed, clobbers, overlaps >>

\* An alert under a key that was reserved before is taken for a duplicate.
Reserve(r) ==
  LET key == AlertKey(req[r].lead, req[r].count) IN
  /\ At(r, "alert")
  /\ \/ /\ key \notin alerts
        /\ alerts' = alerts \cup { key }
        /\ Goto(r, "sms")
        /\ UNCHANGED << customers, leads, threads, now, history, bounds >>
     \/ key \in alerts /\ Answer(r, FALSE) /\ UNCHANGED << alerts, bounds >>
     \/ Fault /\ Answer(r, FALSE) /\ UNCHANGED alerts

Sms(r) ==
  /\ At(r, "sms")
  /\ \/ Answer(r, TRUE) /\ UNCHANGED bounds
     \/ Answer(r, FALSE) /\ Fault
  /\ UNCHANGED alerts

-----------------------------------------------------------------------------
(* A message.                                                              *)

Receive(r, m) ==
  /\ At(r, "idle") /\ m \in budget.messages /\ Spend("requests")
  /\ req' = [req EXCEPT ![r] =
       [Idle EXCEPT !.pc = IF m.phone # None THEN "byPhone" ELSE "byEmail", !.input = m, !.at = now]]
  /\ Overlap
  /\ UNCHANGED << rows, now, accepted, bypassed, untold, clobbers, faults >>

\* The one customer of a contact; of several the query makes an error, which is the
\* end of the message.
Found(r, S, otherwise) ==
  /\ \/ Cardinality(S) = 1 /\ req' = [req EXCEPT ![r].pc = "capture", ![r].customer = Max(S)]
     \/ Cardinality(S) > 1 /\ req' = [req EXCEPT ![r] = Idle]
     \/ S = {} /\ Goto(r, otherwise)
  /\ UNCHANGED << rows, now, history, bounds >>

Standing == { k \in DOMAIN customers : ~customers[k].archived }

FindByPhone(r) ==
  /\ At(r, "byPhone")
  /\ Found(r, { k \in Standing : customers[k].phone = Input(r).phone },
           IF Input(r).email # None THEN "byEmail" ELSE "introduce")

FindByEmail(r) ==
  /\ At(r, "byEmail")
  /\ Found(r, { k \in Standing : customers[k].email = Input(r).email }, "introduce")

IntroduceCustomer(r) ==
  /\ At(r, "introduce")
  /\ NewCustomer(r, Input(r).name, Input(r).phone, Input(r).email, "message", "capture")

\* Every message makes a lead; an advert has no thread.
CaptureLead(r) ==
  /\ At(r, "capture")
  /\ NewLead(r, None, IF Input(r).channel = None THEN "idle" ELSE "thread")
  /\ UNCHANGED bypassed

Contact(m) == [channel |-> m.channel, from |-> IF m.channel = "email" THEN m.email ELSE m.phone]

\* The upserts of threads with the contact of r's message.
ThreadsOf(r) == { i \in DOMAIN threads : threads[i].contact = Contact(Input(r)) }

FindThread(r) ==
  /\ At(r, "thread")
  /\ req' = [req EXCEPT ![r].pc = "upsert",
                        ![r].thread = IF ThreadsOf(r) = {} THEN 0 ELSE threads[Max(ThreadsOf(r))].id]
  /\ UNCHANGED << rows, now, history, bounds >>

\* The thread that was found, or one with a new id; the message is then passed on.
UpsertThread(r) ==
  LET known == req[r].thread
      id == IF known = 0 THEN Len(threads) + 1 ELSE known
  IN
  /\ At(r, "upsert")
  /\ threads' = Append(threads, [id |-> id, contact |-> Contact(Input(r)), lead |-> req[r].lead])
  /\ req' = [req EXCEPT ![r] = Idle]
  /\ UNCHANGED << customers, leads, alerts, now, history, bounds >>

-----------------------------------------------------------------------------
(* The office, time, and what goes wrong.                                  *)

EditCustomer(k, email) ==
  /\ k \in DOMAIN customers /\ customers[k].email # email /\ Spend("edits")
  /\ customers' = [customers EXCEPT ![k].email = email]
  /\ Overlap
  /\ UNCHANGED << leads, alerts, threads, req, now, accepted, bypassed, untold, clobbers, faults >>

ArchiveCustomer(k) ==
  /\ k \in Standing /\ Spend("edits")
  /\ customers' = [customers EXCEPT ![k].archived = TRUE]
  /\ UNCHANGED << leads, alerts, threads, req, now, history, faults >>

CloseLead(l) ==
  /\ l \in DOMAIN leads /\ leads[l].open /\ Spend("edits")
  /\ leads' = [leads EXCEPT ![l].open = FALSE]
  /\ UNCHANGED << customers, alerts, threads, req, now, history, faults >>

Tick == Spend("ticks") /\ now' = now + 1 /\ UNCHANGED << rows, req, history, faults >>

\* A call is refused and the request answered with an error, or the function is killed;
\* right after a step it is also the case of a write that is done and reported failed.
Drop(r) ==
  /\ ~At(r, "idle") /\ Fault
  /\ req' = [req EXCEPT ![r] = Idle]
  /\ UNCHANGED << rows, now, history >>

Emails == { f.email : f \in Forms } \cup { m.email : m \in Messages }

FormStep(r) ==
  \/ Match(r) \/ CreateCustomer(r) \/ FillCustomer(r) \/ Recent(r)
  \/ OpenLead(r) \/ JoinLead(r) \/ Reserve(r) \/ Sms(r)

MessageStep(r) ==
  \/ FindByPhone(r) \/ FindByEmail(r) \/ IntroduceCustomer(r) \/ CaptureLead(r)
  \/ FindThread(r) \/ UpsertThread(r)

Next ==
  \/ \E r \in Request :
       \/ \E f \in Forms : Submit(r, f)
       \/ \E m \in Messages : Receive(r, m)
       \/ FormStep(r) \/ MessageStep(r) \/ Drop(r)
  \/ \E k \in DOMAIN customers : ArchiveCustomer(k) \/ \E e \in Emails : EditCustomer(k, e)
  \/ \E l \in DOMAIN leads : CloseLead(l)
  \/ Tick

Spec == Init /\ [][Next]_vars

-----------------------------------------------------------------------------
(* Properties.                                                             *)

Alike(c, d) == c.source = d.source /\ c.phone = d.phone /\ (c.source = "form" => c.name = d.name)
Crowded(phone) == Cardinality({ k \in DOMAIN customers : customers[k].phone = phone }) > MatchLimit
ThreadIds(contact) == { threads[i].id : i \in { j \in DOMAIN threads : threads[j].contact = contact } }

\* One person who fills in forms becomes one customer, as long as the number has no
\* more customers than a form is compared with, one number that writes in one customer,
\* and one contact one thread; each request that begins beside another, and each fault,
\* may make one more.
RecordsBounded ==
  /\ \A k \in Standing :
       customers[k].phone # None /\ (customers[k].source = "form" => ~Crowded(customers[k].phone)) =>
         Cardinality({ j \in Standing : Alike(customers[j], customers[k]) }) <= 1 + overlaps + faults
  /\ \A contact \in { threads[i].contact : i \in DOMAIN threads } :
       Cardinality(ThreadIds(contact)) <= 1 + overlaps + faults

\* A form sent within the window of one that was accepted joins its lead while that is
\* open, though updates that overlap may set a lead's stamp back: each request beside
\* another, and each fault, parts one lead at most from the forms that repeat it.
BypassedBounded == Cardinality(bypassed) <= overlaps + faults

\* The office gets a text about every form that is accepted, but for those that took the
\* same number as another, of which there are no more than requests beside another, and
\* for the faults.
UntoldBounded == untold <= overlaps + faults

\* A form fills in what is blank: an address it overwrites, or wipes, came while it was
\* under way, from another form or from the office.
ClobbersBounded == clobbers <= overlaps

=============================================================================
