------------------------------- MODULE Quotes -------------------------------
(***************************************************************************)
(* A quote, its numbered versions and the texts that chase it: edited,     *)
(* sent, accepted and rejected by the staff, accepted and rejected by the  *)
(* customer through the public link.                                       *)
(*                                                                         *)
(* The staff's routes read the quote, write it whatever it has become, and *)
(* then insert the version under the number after the one they read; the   *)
(* customer's are database functions that lock the row.  A request is a    *)
(* record with the await it is at.  How a text is claimed and sent is      *)
(* NotificationQueue's, how an event is delivered Outbox's, what the       *)
(* acceptance is billed as Billing's.                                      *)
(***************************************************************************)
EXTENDS Integers, FiniteSets

CONSTANTS
  Request,    \* slots for concurrent requests
  Saved,      \* statuses the form of a quote is saved with
  Step,       \* the texts of the chase: after 3, 7 and 14 days
  MaxWrites,  \* bound: writes to the quote
  MaxFaults   \* bound: refused calls and killed requests

Statuses == { "draft", "sent", "accepted", "declined" }

ASSUME QuotesAssumption == Saved \subseteq Statuses /\ MaxWrites \in Nat /\ MaxFaults \in Nat

VARIABLES
  quote,      \* status and current_version_number
  versions,   \* rows of quote_versions: the status that was kept under each number
  record,     \* there is a row of quote_acceptances
  chase,      \* texts of the chase that wait in scheduled_notifications
  req,        \* the running requests
  told,       \* history: QuoteAccepted was enqueued for the platform
  quiet,      \* history: the chase was called off and the quote not sent since
  overtaken,  \* history: how many writes each request overwrote unseen, in all
  collisions, \* history: versions refused because the number was taken
  writes, faults

vars == << quote, versions, record, chase, req, told, quiet, overtaken, collisions, writes, faults >>
history == << told, overtaken, collisions >>
counters == << writes, faults >>

Idle == [pc |-> "idle", op |-> "none", read |-> 0, since |-> 0, status |-> "draft",
         left |-> {}, todo |-> {}, ok |-> TRUE]

Init ==
  /\ quote = [status |-> "none", version |-> 0]
  /\ versions = {} /\ record = FALSE /\ chase = {}
  /\ req = [r \in Request |-> Idle]
  /\ told = FALSE /\ quiet = FALSE
  /\ overtaken = 0 /\ collisions = 0
  /\ writes = 0 /\ faults = 0

-----------------------------------------------------------------------------
At(r, pc) == req[r].pc = pc
Goto(r, pc) == req' = [req EXCEPT ![r].pc = pc]
Stop(r) == req' = [req EXCEPT ![r] = Idle]
Fault == faults < MaxFaults /\ faults' = faults + 1

\* The quote is written, whatever it was.  Once it is "sent", texts may be scheduled.
Write(status, version) ==
  /\ writes < MaxWrites /\ writes' = writes + 1
  /\ quote' = [status |-> status, version |-> version]
  /\ quiet' = (quiet /\ status # "sent")

\* Those that are still to write have missed one write more.
Missed(running) == [q \in Request |->
  IF "quote" \in running[q].left THEN [running[q] EXCEPT !.since = @ + 1] ELSE running[q]]

-----------------------------------------------------------------------------
(* Mutated forms: mistakes a change could make.  No action uses them.      *)

NextVersion_Same(r) == req[r].read

Answered_Unchecked(r, write, ok) ==
  LET q == [req[r] EXCEPT !.left = @ \ { write }, !.since = IF write = "quote" THEN 0 ELSE @] IN
  IF q.left # {} THEN q ELSE [q EXCEPT !.pc = "keep"]

LookAtQuote_Trusting(r) ==
  /\ At(r, "look")
  /\ Goto(r, "clear")
  /\ UNCHANGED << quote, versions, record, chase, history, quiet, counters >>

-----------------------------------------------------------------------------
(* The staff: POST /quotes, PATCH /quotes/[id], send and accept.           *)

Create(r, status) ==
  /\ At(r, "idle") /\ quote.status = "none" /\ status \in Saved
  /\ Write(status, 1)
  /\ req' = [req EXCEPT ![r] = [Idle EXCEPT !.pc = "keep", !.op = "create", !.status = status]]
  /\ UNCHANGED << versions, record, chase, history, faults >>

\* An edit sets the form's status; sending and accepting set their own; whatever it was.
Read(r, op, status) ==
  /\ At(r, "idle") /\ quote.status # "none"
  /\ status \in (CASE op = "edit" -> Saved [] op = "send" -> { "sent" } [] op = "accept" -> { "accepted" })
  /\ req' = [req EXCEPT ![r] =
       [Idle EXCEPT !.pc = "write", !.op = op, !.read = quote.version, !.status = status,
                    !.left = { "quote" } \cup (IF op = "accept" THEN { "record" } ELSE {})]]
  /\ UNCHANGED << quote, versions, record, chase, history, quiet, counters >>

NextVersion(r) == req[r].read + 1

\* One of the request's writes is answered; it goes on after the last, unless one
\* was refused.
Answered(r, write, ok) ==
  LET q == [req[r] EXCEPT !.left = @ \ { write }, !.ok = @ /\ ok, !.since = IF write = "quote" THEN 0 ELSE @] IN
  IF q.left # {} THEN q ELSE IF q.ok THEN [q EXCEPT !.pc = "keep"] ELSE Idle

Update(r) ==
  /\ At(r, "write") /\ "quote" \in req[r].left
  /\ Write(req[r].status, NextVersion(r))
  /\ overtaken' = overtaken + req[r].since
  /\ req' = Missed([req EXCEPT ![r] = Answered(r, "quote", TRUE)])
  /\ UNCHANGED << versions, record, chase, told, collisions, faults >>

UpdateFails(r) ==
  /\ At(r, "write") /\ "quote" \in req[r].left
  /\ Fault
  /\ req' = [req EXCEPT ![r] = Answered(r, "quote", FALSE)]
  /\ UNCHANGED << quote, versions, record, chase, history, quiet, writes >>

\* Accepting writes the acceptance at the same time; either may be refused without
\* the other.
Record(r) ==
  /\ At(r, "write") /\ "record" \in req[r].left
  /\ record' = TRUE
  /\ req' = [req EXCEPT ![r] = Answered(r, "record", TRUE)]
  /\ UNCHANGED << quote, versions, chase, history, quiet, counters >>

RecordFails(r) ==
  /\ At(r, "write") /\ "record" \in req[r].left
  /\ Fault
  /\ req' = [req EXCEPT ![r] = Answered(r, "record", FALSE)]
  /\ UNCHANGED << quote, versions, record, chase, history, quiet, writes >>

After(op) == CASE op = "send" -> "look" [] op = "accept" -> "tell" [] OTHER -> "idle"
Taken(number) == \E v \in versions : v[1] = number

\* snapshotQuoteVersion inserts; a number that is taken ends the request, with the
\* quote written and nothing told, called off or scheduled.
Keep(r) ==
  LET number == NextVersion(r) IN
  /\ At(r, "keep")
  /\ IF Taken(number)
     THEN /\ Stop(r) /\ collisions' = collisions + 1
          /\ UNCHANGED versions
     ELSE /\ versions' = versions \cup { << number, req[r].status >> }
          /\ req' = [req EXCEPT ![r] = [Idle EXCEPT !.pc = After(req[r].op)]]
          /\ UNCHANGED collisions
  /\ UNCHANGED << quote, record, chase, told, overtaken, quiet, counters >>

\* enqueueCrmPlatformEvent swallows what goes wrong.
Tell(r) ==
  /\ At(r, "tell")
  /\ \/ told' = TRUE /\ UNCHANGED faults
     \/ Fault /\ UNCHANGED told
  /\ Goto(r, "calloff")
  /\ UNCHANGED << quote, versions, record, chase, quiet, overtaken, collisions, writes >>

Reject(r) ==
  /\ At(r, "idle") /\ quote.status # "none"
  /\ Write("declined", quote.version)
  /\ req' = [req EXCEPT ![r] = [Idle EXCEPT !.pc = "calloff"]]
  /\ UNCHANGED << versions, record, chase, history, faults >>

Scheduling == { r \in Request : req[r].pc \in { "clear", "schedule" } }

\* cancelQuoteChaseSequence, after a rejection or an acceptance.
CallOff(r) ==
  /\ At(r, "calloff")
  /\ chase' = {}
  /\ quiet' = (quote.status # "sent" /\ Scheduling = {})
  /\ Stop(r)
  /\ UNCHANGED << quote, versions, record, history, counters >>

\* convert accepts the quote when its invoice is in, and does nothing else to it.
Convert ==
  /\ quote.status # "none"
  /\ Write("accepted", quote.version)
  /\ UNCHANGED << versions, record, chase, req, history, faults >>

-----------------------------------------------------------------------------
(* scheduleQuoteChaseSequence, the last part of sending.                   *)

LookAtQuote(r) ==
  /\ At(r, "look")
  /\ IF quote.status = "sent" THEN Goto(r, "clear") ELSE Stop(r)
  /\ UNCHANGED << quote, versions, record, chase, history, quiet, counters >>

Clear(r) ==
  /\ At(r, "clear")
  /\ chase' = {}
  /\ req' = [req EXCEPT ![r].pc = "schedule", ![r].todo = Step]
  /\ UNCHANGED << quote, versions, record, history, quiet, counters >>

\* One text after the other; which comes first does not matter.
Schedule(r, k) ==
  /\ At(r, "schedule") /\ k \in req[r].todo
  /\ chase' = chase \cup { k }
  /\ IF req[r].todo = { k } THEN Stop(r) ELSE req' = [req EXCEPT ![r].todo = @ \ { k }]
  /\ UNCHANGED << quote, versions, record, history, quiet, counters >>

\* The text goes out; nothing looks at the quote again.
Text(k) ==
  /\ k \in chase
  /\ chase' = chase \ { k }
  /\ UNCHANGED << quote, versions, record, req, history, quiet, counters >>

-----------------------------------------------------------------------------
(* The customer: accept_quote_by_token and reject_quote_by_token.          *)

\* Neither keeps a version, tells the platform or calls the chase off.
PublicDecide(status) ==
  /\ quote.status = "sent"
  /\ Write(status, quote.version + 1)
  /\ req' = Missed(req)
  /\ UNCHANGED << versions, chase, history, faults >>

PublicAccept == PublicDecide("accepted") /\ record' = TRUE
PublicReject == PublicDecide("declined") /\ UNCHANGED record

-----------------------------------------------------------------------------
\* A call is refused outside of the acceptance's two, or the function is killed.
Die(r) ==
  /\ ~At(r, "idle")
  /\ Fault
  /\ Stop(r)
  /\ UNCHANGED << quote, versions, record, chase, history, quiet, writes >>

Staff(r) ==
  \/ \E status \in Statuses :
       Create(r, status) \/ \E op \in { "edit", "send", "accept" } : Read(r, op, status)
  \/ Update(r) \/ UpdateFails(r) \/ Record(r) \/ RecordFails(r) \/ Keep(r)
  \/ Tell(r) \/ Reject(r) \/ CallOff(r)
Chasing(r) == LookAtQuote(r) \/ Clear(r) \/ \E k \in Step : Schedule(r, k)

Next ==
  \/ \E r \in Request : Staff(r) \/ Chasing(r) \/ Die(r)
  \/ PublicAccept \/ PublicReject \/ Convert
  \/ \E k \in Step : Text(k)

Spec == Init /\ [][Next]_vars

-----------------------------------------------------------------------------
(* Properties.                                                             *)

\* Tables, requests and counters keep their types.
TypeOK ==
  /\ quote \in [status : Statuses \cup { "none" }, version : Nat]
  /\ versions \subseteq Nat \X Statuses
  /\ record \in BOOLEAN /\ told \in BOOLEAN /\ quiet \in BOOLEAN
  /\ chase \subseteq Step
  /\ req \in [Request -> [pc : { "idle", "write", "keep", "tell", "calloff", "look", "clear", "schedule" },
                         op : { "none", "create", "edit", "send", "accept" },
                         read : Nat, since : Nat, status : Statuses,
                         left : SUBSET { "quote", "record" }, todo : SUBSET Step, ok : BOOLEAN]]
  /\ overtaken \in Nat /\ collisions \in Nat
  /\ writes \in 0 .. MaxWrites /\ faults \in 0 .. MaxFaults

\* A save is refused for its version's number at most as often as writes were
\* overwritten unseen: a stale write sets the number back, each of the saves after it
\* is refused and sets it one forward, and there it ends (quotes/[id]/route.ts:35-74).
RefusalsBounded == collisions <= overtaken

\* When the platform is told of an acceptance, the acceptance is on record and a
\* version was kept as accepted, whatever was refused or overtaken on the way
\* (quotes/[id]/accept/route.ts:69-115).
TellsTruth == told => record /\ \E v \in versions : v[2] = "accepted"

\* Once the staff's acceptance or rejection has called the chase off, no text waits
\* until the quote is sent again, although a request that sends it may still be
\* running (quote-chase.ts:99).
ChaseStops == quiet => chase = {}
=============================================================================
