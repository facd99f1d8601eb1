# A verification project for Empier Home Solutions

Empier Home Solutions is a Next.js application over Supabase/Postgres: landing pages,
a multi-tenant CRM (leads, customers, quotes, appointments, jobs, invoices, payments)
and one half of a *platform bridge* to a separate agent platform that talks to
customers. It runs as serverless functions: any number of requests at a time, each of
which may be killed at its deadline. Almost nothing is done in a database
transaction; the code protects itself with unique keys, upserts, conditional updates
and retries. That is where the modules look: between two awaits of one request and at
what another request, a retry, a refused call or a killed function does there.

Paths are relative to the repository. `src/src/...` is application code,
`src/docs/...` its documents, `src/supabase/migrations/...` its schema.

- [1. Components](#1-components)
- [2. How the components interact](#2-how-the-components-interact)
- [3. Modules and code](#3-modules-and-code)
- [4. Runs](#4-runs)
- [5. Fairness](#5-fairness)
- [6. Proofs](#6-proofs)
- [7. Disagreements with the repository's own words](#7-disagreements-with-the-repositorys-own-words)
- [8. What is left out, and why](#8-what-is-left-out-and-why)
- [9. Plan](#9-plan)

## 1. Components

| Component | State | Operations | What is hard | What makes it correct |
|---|---|---|---|---|
| Platform event intake and processor (`modules/platform/lib/processor.ts`, `integration.ts`, `app/api/platform/events`) | `platform_event_log`, `platform_command_log` | receive, replay, dead-letter, derive and execute commands | overlapping deliveries and replays of one event, kills between execution and ack, swallowed failures | the log and the 2xx never claim more than was done; the alert follows what it is about |
| Platform outbox (`outbox.ts`) | `platform_outbox_events` | enqueue, publish batch, publish one, dead-letter | publishers share rows, lost answers, rows refused for ever | published means delivered; nothing undelivered is lost |
| Notification queue (`modules/crm/notifications/scheduler.ts`, `opt-outs.ts`) | `scheduled_notifications`, opt-outs, `v2_dispatcher_owner` | schedule, cancel, dispatch, opt out, hand over | unclaimed rows, copies older than the row, retries | sent means sent; opt-outs hold but for what is on its way; nothing pends for ever |
| Lead alerts (`lead-alerts.ts`) | rows of the same queue | reserve, send, mark | the reservation is itself a due row | one text per lead |
| Invoice chase (`invoice-chase.ts`) | four rows per invoice, `requires_call` | daily job, payment, dispatch | payment during the job, daily rescheduling | no reminder twice for one scheduling, two at most after payment, the flag is earned |
| Cron registry (`modules/crm/lib/cron-registry.ts`) | `cron_dispatch_log` | claim window, run, finish, fail | overlapping calls, kills, windows passing mid-call | once per window; succeeded means returned |
| Command executor and booking sync, booking recovery (`command-executor.ts`, `booking-recovery.ts`, `booking-identity.ts`) | customers, leads, jobs, appointments, `platform_conversation_links` | the commands of a booking and of a qualified conversation; a manager's three recoveries | a dozen writes without a transaction, retries from the start, one link row read and written whole, lookup before insert | a handled booking is in the diary or before the office; nobody is renamed; no job, no customer beyond what overlap explains |
| Appointments, reminders, self-service booking, platform calendar (`app/api/crm/appointments`, `appointment-reminders.ts`, `self-service-booking.ts`, `app/api/platform/calendar`) | appointments, waiting reminders | make, move, cancel, hold, release, remind | five kinds of writers, of which three leave the reminders alone; look, then write | reminders are those of the time the appointment has; nobody is reminded twice; no move onto a taken time |
| Quotes and quote chase (`lib/quotes.ts`, `quote-chase.ts`, `app/api/crm/quotes`) | quote, versions, acceptance, chase rows | save, send, accept, reject, convert; the customer's link | version numbers from a copy, acceptance from two sides, texts scheduled after a look | the platform hears only of what is on record; a chase called off stays off |
| Invoices and payment plans (`invoicing.ts`, `payment-plan.ts`) | `invoice_schedules`, invoices | put a plan, generate an invoice, convert | a check on a copy, two writes per invoice, pennies | no row billed twice, rows and invoices agree, the amounts add up |
| Job status, compliance closeout (`app/api/crm/jobs/[id]`) | job, invoices | complete, reopen, invoice by itself | preconditions read before the write | one final invoice, for exactly the balance |
| Payments and provider webhooks (`integrations/payments`) | invoice status, schedule rows, chase | mark paid, webhook | duplicates, two writes | a paid row names a paid invoice; the chase ends |
| Enquiries: lifecycle, booking confirmation, chase, lost-lead re-engagement (`app/api/crm/leads`, `lead-chase.ts`, `lost-lead-reengagement.ts`) | `crm.leads`: status, `next_action_at`, `re_engaged_at`; their jobs and appointments; rows of the queue | enquire, edit, snooze, confirm and undo, chase, ask again | a confirmation's three writes undone by hand; runs that work off a list while leads are edited, booked and put off | nothing half-made stays but for what was killed; booked once; whoever is due is chased, and a lost one asked once |
| Review requests | rows of the queue | schedule | the shape of the quote chase | one request per job |
| Customer promises | promises, outbox rows | create, change | event queued and not published | promise and event agree |
| Lead intake (`modules/forms/api/submitLead.ts`, `modules/crm/intake`) | customers, `crm.leads` with fingerprint and submission count, `platform_conversation_links`, the alert's row | submit a form; take a text, an e-mail or an advert in | look, then insert, with no unique key; updates from copies; reads whose errors count as "none" | one customer per person, one thread per contact, one lead per burst of forms, a text to the office about each, but for what overlapped or failed |
| Public webchat | conversations | proxy, submit envelopes | the contract is checked by the processor only | an invalid envelope does nothing |
| Demo console, delete trail, tenants and onboarding, quote automation and AI hub, FSM integrations, authentication, CRUD routes, UI, scripts | various | various | little shared protocol | see section 8 |

`PROJECT.json` lists all of them with their files, and every hazard at its line.

## 2. How the components interact

```
 agent platform --POST /api/platform/events--> processor --commands--> CRM tables
       ^                                        |   \--lead alert--> scheduled_notifications
       |                                        v                             ^   |
       +--POST envelope-- publisher <-- platform_outbox_events                |   v
                              ^                  ^                  sequences |  dispatcher --> carrier
        platform, routes, manager        CRM routes (after their writes)      |   ^
                                                            payment webhooks -+   |
                                cron dispatch route --claims a window, runs jobs--+
```

All interaction is through rows. A producer retries until it has a 2xx; a manager may
replay or give up on failed rows; the dispatcher, the cron registry's jobs and the
routes that dispatch directly read the same notification rows; the request behind a
lead alert sends the row it has inserted, without taking it out of the dispatchers'
reach. The appointments are written by everybody: by the platform's commands
(Bookings), by its calendar calls, the office and the customer (Diary). A quote is
written by its routes and the customer's link (Quotes), read when its plan is billed
and accepted once more when it is converted (Billing). Modules that share a table
each take the others' writes to it as their own actions or as things already there.

## 3. Modules and code

A request that consists of several awaits is a record with a program counter (`pc`)
and the locals that survive the await; each await is one action. A fault is one of a
refused database call, a lost answer, a failed send and a killed function; `faults`
counts them and `MaxFaults` bounds them. Everything called *history* in a module is
observation only: no guard reads it.

Next to each definition stand the *mutated forms* the project uses to see that a
property can fail: the definition with the mistake a change could make (a dropped
status filter, a count off by one). No action uses them.

### PlatformContracts, PlatformEnvelopes

The vocabulary of the bridge: `DerivedCommands` is `deriveCommands`
(`integration.ts`), `NonFatalTypes` the types answered 202 whatever happens
(`processor.ts`), `LeadAlertTypes` those the office is texted about
(`lead-alerts.ts`). `PlatformEnvelopes` declares the envelopes of one workspace as
constants and what the bridge reads off them; a command row is unique per key and
command type (`CommandKey`).

### PlatformEvents

The route, the replay and dead-letter routes and `processPlatformEvent`.

| Module | Code |
|---|---|
| `eventLog` | `platform_event_log.processing_status`, by `event_id` |
| `commandLog` | `platform_command_log.delivery_status`, `attempt_count` |
| `alertLog` | the alert's row in `scheduled_notifications`, as this request sees it |
| `sender` | whether the producer still has the envelope to deliver |
| `Deliver`, `Submit`, `Replay` | POST of the platform; the webchat's in-process call; the manager's replay |
| `Record`, `Reject` | `recordPlatformEvent`; the contract check that follows it |
| `Enqueue`, `Execute`, `Ack`, `MarkFailed` | the loop over the derived commands and its inner catch |
| `Finish`, `ReserveAlert`, `SendAlert`, `MarkAlert` | the final status and `notifyAdminsOfLead` |
| `Catch`, `Respond` | the outer catch, and the caller reading the status code |
| `Throw`, `Crash` | a refused call at any await; a kill or an answer that never arrives |

### PlatformPromise

What the processor promises, without requests, rows or failures: commands are
executed, those of fatal events in order; the producer is told only when they all
are; the office is texted at most once per key and only about what is wholly in the
CRM. `PlatformEvents!KeepsPromise` is this specification under a refinement mapping
(`done` from the executions, `told` from the producers that were answered, `texts`
from the messages).

### Outbox

`enqueueCrmPlatformEvent`, `publishPendingPlatformOutboxEvents`, republishing of one
row and the dead-letter route, for one tenant with the webhook configured. Rows are
named by the rank of `occurred_at`, so "the oldest 25" is `OldestOf`. A publisher
keeps `copy`, the attempt counts it read, and writes `copy + 1` whatever the row says
by then (`SetRow`). `Quiet` events are those whose writer only enqueues (customer
promises); `Poison` ones are those the platform's endpoint always refuses. Names that
PlatformEvents has too are longer here (`OutboxInit`, `EnqueueEvent`, `MarkRowFailed`,
and `lapses` for its `faults`), since `Events_proofs` extends both.

### NotificationQueue

`scheduleNotification`, `cancelScheduledNotifications`, `dispatchDueNotifications`
(all of its callers), opt-out and opt-in, the handover to the v2 dispatcher, and the
alerts of `lead-alerts.ts` against the dispatchers. A dispatcher holds copies of rows
(`batch`, `attempts`, `test`); the updates after a send require the row to be pending
(`SetIfPending`), those of an alert do not (`MarkAlert`). `Tick` is time: a row's
`dispatch_at` or `next_attempt_at` comes.

### InvoiceChase

`scheduleDueInvoiceChases`, `flagFinalChaseCustomers`, the payment's cancellation and
a dispatcher reduced to read, send and mark (its failures are NotificationQueue's
subject). One invoice; a row per step; `claimed` is the job's cron window. Names that
Billing has too are longer here (`ChaseInit`, `ChaseSpec`), since `Invoices_proofs`
extends both.

### CronRegistry

`runDueCronJobs`, `claimCronDispatch`, `finishCronDispatch` and the dispatch route,
with any cadences (`WindowStart` is `getWindowStart`). `InvokeOne` is a call that
names a job. `CronInit`, `CallStep` and the like leave the shorter names to Enquiries,
whose sweeps `Sweeps_proofs` has beside the registry.

### Bookings

What `Execute` of PlatformEvents is one step of: the command executor, await by await.
A worker handles one event at a time and one command after the other; a command that
was executed to its end is not repeated, one that failed or was killed starts again.
Where PlatformEvents has a name too, the one here is longer (`BookingSpec`,
`BeginEvent`, `Acknowledge`, `FailCommand`, `CommandStep`), so that the two can be told
apart where they are spoken of together. `BookingsInvariants` has the inductive
invariants of its proofs and the vocabulary they are stated in.

| Module | Code |
|---|---|
| `customers`, `leads`, `crmJobs`, `appts` | the tables, a row by its place in them; an appointment by the platform's booking id |
| `link` | `platform_conversation_links`, one row per conversation |
| `status`, `acked` | the event's row and its commands' rows, as PlatformEvents has them |
| `BeginEvent`, `Proceed`, `Acknowledge`, `FailCommand`, `Defer` | the processor's loop, reduced to what decides which commands run again |
| `LinkRead`, `LinkWrite` | `upsertPlatformConversationLink`: read, merge in memory, write whole |
| `FindNone`, `FindOne`, `FindConflict`, `InsertCustomer`, `UpdateCustomer` | `findOrCreateCustomer` and the identity conflict that ends it |
| `LeadStart` to `LeadAttach` | the commands of a qualified conversation |
| `Lookup` to `AttachLead` | the first half of `ensureBookingForConversation`: which lead and customer |
| `Review`, `Review2`, `Book`, `Refused`, `Refresh`, `Healed`, `Reread` | a booking put before the office; the appointment inserted or adopted |
| `Attach`, `MakeJob`, `AttachJob`, `AttachAll` | appointment, lead, link and job brought to name each other |
| `Upsert`, `Cancel` | the calendar's own commands |
| `Recover` | a manager's resolution of a booking in question, by a new customer, a chosen one or a chosen job |

### Diary

Everything that writes appointments: the office's routes (`Make`, `Patch`), the
customer's link (`SelfCancel`, `LookForConflict`, `Move`), the platform's calendar
calls (`Hold`, `Release`) and commands (`Rebook`). Only `Make`, `Patch`, `Move` and
`Rebook` go on to `syncAppointmentReminders`, with the row their write returned:
`Sync` cancels what waits, `Remind24` and `Remind2` write the texts anew.
`Dispatch` sends one that is due, `Advance` is time: a slot is days, hours or less
than two hours away. `keeper` is history: the last writer of an appointment until it
has come to the end of the reminders, unless others were still at them.

### Quotes

One quote. A staff request reads it (`Read`), writes it whatever it has become
(`Update`; accepting also writes the acceptance, at the same time: `Record`), keeps
a version under the number after the one it read (`Keep`), and goes on: after
accepting it tells the platform (`Tell`) and calls the chase off (`CallOff`); after
sending it looks at the quote and schedules the chase (`LookAtQuote`, `Clear`,
`Schedule`). `PublicAccept` and `PublicReject` are the database functions behind the
customer's link, which lock the row. `overtaken` is history: for each write, how
many others were made since its request read the quote.

### Enquiries

| Module | Code |
|---|---|
| `lead` | status, `next_action_at` as *none*, *later* or *due*, `re_engaged_at`; statuses the code treats alike are one value |
| `jobs`, `visits` | how many jobs, and appointments not cancelled, each lead has |
| `Enquire`, `Edit`, `Snooze`, `ComesDue`, `CancelVisit` | the intakes' inserts, the PATCH route, the snooze, time, and the cancelling of an appointment |
| `Look`, `Job`, `Visit`, `Commit` | `confirm-booking`: the check of the status, the three writes; a survey leaves the lead open |
| `Undo`, `UndoVisit`, `UndoJob` | the catch and `cleanupCreatedRecords`, which deletes what this request knows it made |
| `Refuse`, `LoseAnswer`, `Kill` | a refused call, a write whose answer is lost, a killed function, at any of these awaits |
| `ListDue`, `LookAtLead`, `LookForVisits`, `Schedule`, `ClearNextAction` | `scheduleDueLeadChases` and `scheduleLeadChaseSequence` |
| `ListLost`, `Recall`, `MarkReengaged` | `scheduleDueLostLeadReengagements` |
| `Abort` | an exception about one lead, which ends the run, or a kill |

What a run schedules is kept as history (`owed`: the texts a due lead is still to get;
`asked`: how often its re-engagement was scheduled); the rows are NotificationQueue's.
`stale` is history too: which leads the office wrote since a run listed them, and since
it looked at the one it is at.

### Intake

What precedes Enquiries: where its leads come from. A form and a message are requests
of one kind, with a program counter and the copies they hold.

| Module | Code |
|---|---|
| `customers`, `leads` | the tables, a row by its place in them; of a lead its fingerprint, customer, submission count, last submission and whether its status is one of the open ones |
| `threads` | the upserts of `platform_conversation_links`; the last one of an id is its row |
| `alerts` | the keys of the office's alerts that were reserved (the row's further life is NotificationQueue's) |
| `Submit`, `Match`, `CreateCustomer`, `FillCustomer` | `submitLeadToCrm` up to the customer: the five newest rows with the number, of which the one with the same e-mail or name is taken, and written from the copy |
| `Recent`, `JoinLead`, `OpenLead` | the open lead of the same fingerprint, joined if it was submitted within the window, or a new one |
| `Reserve`, `Sms`, `Answer` | `sendWebsiteLeadAlertBestEffort`; a key that is taken counts as a duplicate; the form is answered with success in any case |
| `Receive`, `FindByPhone`, `FindByEmail`, `IntroduceCustomer`, `CaptureLead` | `captureInboundLead`; of two customers with one number the query makes an error, and the message ends there |
| `FindThread`, `UpsertThread` | `upsertInboundConversationLink`; a lead advert has no thread |
| `EditCustomer`, `ArchiveCustomer`, `CloseLead`, `Tick`, `Drop` | the office's routes, the clock, a refused call or a kill |

`normalizePhone` is a constant table `Stored`: a number keeps its national or its
international form. A form's `issue` stands for all of the fingerprint but the number.
A read that fails is an alternative of the action that makes it, since the code takes
it for an empty answer. `overlaps` is history: how many requests and edits began beside
a running one; `bypassed`, `untold` and `clobbers` count what went wrong.

### PaymentPlan, Billing

`PaymentPlan` is the arithmetic of `payment-plan.ts` and `invoicing.ts`, in pence.
The code computes in binary floating point, where a tie may be rounded either way:
`Roundings` is the set of results it can produce. `Billing` has one quote and its job:
`PutPlan`, `PlanDelete`, `PlanInsert` replace the planned rows; `Select`, `GenInsert`,
`GenLink` make an invoice for a row; `Complete`, `AutoInvoices`, `AutoQuote`,
`AutoInsert` complete the job and invoice its balance; `Convert` invoices the total;
`Pay`, `PaySchedules` are a payment, the invoice first and then the rows that name
it. A deleted row keeps its place as a tombstone.

### Proof modules and instances

`Events_proofs` (PlatformEvents and Outbox), `Bookings_proofs`,
`NotificationQueue_proofs`, `Invoices_proofs` (Billing and InvoiceChase), `Diary_proofs`, `Quotes_proofs`, `Sweeps_proofs`
(CronRegistry and Enquiries) and `Intake_proofs` hold the theorems; `MC*` modules give
the constants their values for TLC. The type invariant and the inductive ones of
Bookings are in `BookingsInvariants`; Billing, InvoiceChase, Intake and
NotificationQueue have theirs in their proof modules, where they are needed.

## 4. Runs

Each run asks one question; every one of them is to find nothing.

| Run | Instance | What it shows |
|---|---|---|
| `events` | a booking (fatal, two commands, alert), a qualified lead (non-fatal, one command, alert) and an invalid envelope of the CRM's own webchat; two requests; one fault; posts, replays and dead-lettering without limit | `ProcessedIsApplied`: the event row never claims more than was executed. `DeliveredIsSettled`: the row of an event answered 2xx is not stranded at `accepted`. `KeepsPromise`: the processor implements PlatformPromise, so that the producer and the office are told only of what is in the CRM. `EventuallyApplied`: the rows of an interrupted attempt never make a later one skip the work |
| `outbox` | two events, the newer always refused and the older only enqueued by its writer; two publishers that may hold the same batch; one fault | `PublishedIsDelivered`, `DuplicatesBounded`, and `EventuallyDelivered` |
| `notifications` | one note v2 may take over and an alert, two tries; either two dispatchers share the note, which is scheduled twice, with two faults, or one dispatcher has both rows, with one fault; opt-outs, cancellations | `LateBounded`, `DuplicatesBounded`: what goes out after an opt-out or the handover, or twice, is bounded by the dispatchers and the faults. `EventuallySettled`: every pending row is sent, given up, cancelled or left to v2 |
| `invoice_chase` | three steps on consecutive days, four days; the job, the dispatcher and the payment interleaved; one of them killed | `OncePerReset`, `LateBounded`, `FlagIsEarned` |
| `cron` | a job of every tick and one of every other; two overlapping calls; three ticks; one fault | `OncePerWindow`, and, without faults, `EveryJobRuns` |
| `bookings` | one worker; two conversations that share a telephone; three bookings in any order with retries, a recovery; one fault | `InDiary`: a handled booking is in the diary with customer and job or before the office. `JobsBounded`, `SettledAgrees`: what a retry repeats brings the rows to agree and adds at most a job. `NameStands`: no booking renames a customer |
| `bookings_pair` | two workers on the events of one conversation, no fault | `NeverLost`: link rows that overwrite each other do not part the appointment from its customer. `CustomersBounded`: one customer per command that ran at once, one more for each failure, three for each recovery |
| `diary` | one appointment of the office's and one of the platform's, two times, two requests, three writes, one fault | `RemindersMatch`: reminders follow the appointment's last writer. `RemindedOnce`: moving away and back or reviving sends nothing again. `LandsFree`: a move lands on a taken time only inside the window between look and write |
| `quotes` | one quote, two requests and the customer, two texts, five writes, one fault; forms save with the default status | `RefusalsBounded`: how many saves a stale write can have refused. `TellsTruth`, `ChaseStops` |
| `enquiries` | two leads that can be written to and one that cannot, two leads a run, two requests, two runs of each job, and the budgets of five scenarios: one lead confirmed up to four times with an edit and two faults; one confirmed, edited and chased by two runs; one edited twice and chased by two runs; three chased together; two lost and edited three times | `StraysBounded`: one refused call leaves nothing behind, and no confirmation undoes what another made. `BookedBounded`: a lead is booked once per opening and concurrent request. `RecalledOnce`: a lost lead is asked once, but for overlaps and cut runs. `ActsOnWhatItRead`: what a run wipes or schedules rests on what it read, unless the lead was written since. `EventuallyChased`: a due lead is chased with every text |
| `intake` | two requests, a window of one moment, and the budgets of six scenarios: two people at one number, four forms, a fault; one who repeats herself four times over two moments, with an edit of the office's, or three times with a fault; one who leaves her e-mail out at times, beside an edit and a fault; a form, texts and adverts of one number; texts and e-mails with an edit and a fault | `RecordsBounded`: one person is one customer, unless her number has more customers than a form is compared with, and one contact one thread, `BypassedBounded`: a repeat joins the lead it repeats, `UntoldBounded`: the office gets a text about each form, `ClobbersBounded`: no address is overwritten, each but for as many as requests overlapped or calls failed |
| `billing` | a quote of odd pennies, a plan with a stage and what is left; two requests, one new plan, three invoices, one fault | `DuplicatesBounded`, `SchedulesTellTruth`; `AutoBalances`: the balance of a completed job comes to the quote's total; `PlanNearlyReconciles`: a plan's invoices do, to a penny a row |

The type invariants are in no run: they are proved (section 6), and what a run says beyond them is worth more of its time.
In `events` the three events have keys of their own and share the requests' slots and
the fault; `MCPlatformEvents` lets the invalid one meet the booking or the lead. In
`enquiries` and `intake` each scenario is a set of budgets in `Init`: what may be sent, the
runs and the faults that may occur in it, so that they need not multiply. In
`notifications` the two schedules of `MCInit` do the same.
`DeliveredIsApplied`, `AlertIsApplied`, `InvalidIsInert` and `SentIsDelivered` are in no run
either: they are proved.

**Why these bounds are enough to be interesting.** Every hazard listed is a race of
two: two requests for one event, two publishers or dispatchers with one row, the job
and the payment, the staff and the customer. Two of each, with one fault to interrupt
either of them at any await, reach all of them; the mutants confirm it, as each
property is refuted by a mistake in the code the run covers. Two events of different
class are needed because the inner catch treats them differently; two rows because a
batch goes on after a row fails; two tries because the first failure must leave the
row pending and the last must not; two schedulings because a reset row meets a
dispatcher that holds its old copy; three steps because "the final one" differs from
"the next"; two cadences because windows must nest and not coincide; three bookings
because one conversation must be turned over to another and a third conflict with
both; two times and three writes because an appointment must move away, back and be
written once more; five writes because a stale one must be followed by a save that is
refused and one that is not; three invoices because a plan's rows and the automatic
one must meet; four confirmations because a lead must be booked by two at once, opened
and booked by two again; three leads, one of them without a telephone number, and two
a run because that one must take a place in every list without filling it; four forms over two
moments because two must overlap, their updates come in the wrong order, and another come
within the window of the later one and outside that of the earlier; two people at one
number because the number alone must not decide who somebody is. What is proved
(section 6) does not depend on the bounds.

**Symmetry** is used in safety runs only, over requests, workers or dispatchers, which
nothing tells apart, and over times and texts where their order does not matter.
**Deadlock** is checked wherever the system can always go on (the outbox, the
notification queue and the cron registry). It is off for the events processor, whose
producers stop once they are answered, for the invoice chase, which ends with the
last modelled day, and for bookings, diary, quotes, enquiries, intake and billing, which end when their
bounded events and writes are spent.

## 5. Fairness

- *A started request runs on* (`WF` of a request's `Step`): a serverless function
  works until it returns or is killed, and a kill is a fault, of which there are
  finitely many.
- *A producer posts until it is answered 2xx* (`SF` of `Deliver`): the platform's own
  outbox, as the bridge's documents state. The fairness is strong because the slots of
  `Requests` exist only to bound the model: that two replays happen to occupy both of
  them again and again must not keep a post out.
- *Publishing goes on* (`SF` of `Sweep`): every CRM route publishes after it enqueues,
  and the platform calls the publish route; strong for the same reason.
- *The cron keeps starting dispatchers and the dispatch route* (`WF` of `Start`, `SF`
  of `InvokeAll`), *and time passes* (`WF` of `Tick`): the schedule of the
  deployment. *The lead chase keeps being run, and a run that is not cut short goes on*
  (`WF` of a chaser's steps): it is a job of the cron registry. Nothing of the kind is
  assumed of confirmations or of the re-engagement.

`EventuallyChased` asks that fewer leads than a run takes are without a telephone
number: they stay due, at the head of the list, and fifty of them would keep everybody
else out of it for good.

Nothing is assumed of managers, recipients, payments or the handover to v2.
`EventuallySettled` holds with `Limit` at least the number of due rows. With fewer,
rows left to v2 or waiting for a retry can fill the window of 50; this is listed
as a hazard.

## 6. Proofs

TLC checks the instances above; TLAPS proves the following for all values of the
constants (any number of events, requests, publishers, jobs, notes, dispatchers,
appointments, times, calls, writes and faults).

**Events_proofs**, about PlatformEvents from `EnvelopeAssumption` and `EventAssumption`:
`TypeCorrect`, `AckedCorrect`, `ProcessedCorrect`, `DeliveredCorrect`,
`SettledCorrect`, `InertCorrect`, `AlertCorrect`, `AlertOnce` and `Implements`
(`Spec => Promise!Spec`). None of the
invariants is inductive: a row says `processed` because a request came to the end of
its loop, and the request came there because each command it passed was either acked
before or executed by itself. The inductive invariant therefore speaks of the
requests: a request at `ack` has executed its command; a request that has not
deferred anything has executed every command before its index; a request with a 2xx
in hand for a fatal event has executed all of them; one at the alert's awaits has
executed all and holds the key's only reservation while nothing has been sent. For
`DeliveredIsSettled` a request at the loop has found or made the event's row, and one
past it has settled it; for `InvalidIsInert` an invalid envelope never comes to the
loop, and command rows are touched in the loop only. The refinement follows step by step: an `Execute` is a `Do`, a `Respond` with 2xx a
`Tell`, a `SendAlert` a `Text`, and everything else a stutter; the invariant supplies
each one's precondition.

About Outbox from `OutboxAssumption`: `OutboxTypeCorrect`, `PublishedCorrect`,
`AttemptsCorrect` and, for finitely many publishers, `DuplicatesCorrect`
(`DuplicatesBounded`). Publishers write without looking at the row, so the invariant says
of each publisher at `markPublished` that its row has been accepted, and of each copy
that it is less than the POSTs made once it has made its own. For the duplicates
`DuplicatesInv` keeps accounts by row: while it can be read anew, what was accepted is
paid for by publishers about to mark it, and by faults, each of which is worth a POST
of every publisher; when it cannot be, only the copies that are held still go out. A
failure yet to be written down keeps the credit of its fault, which is spent when the
row becomes readable again.

**Bookings_proofs**, from `BookingsAssumption`, over the definitions of
`BookingsInvariants`: `BookingTypesCorrect`, `KeptCorrect`
(`NeverLost`), `CustomersCorrect` (`CustomersBounded`) and, with one worker,
`NameCorrect` (`NameStands`); for any events, conversations, bookings and telephones.
`BookShape` and `BusyInv` tie a worker's place to its command and to what it holds
there; `GotInv` says that every row it holds exists. `HeldInv`: an appointment has a
customer from the moment it is inserted, and no write of the link row takes it back,
whoever overwrites it. `CountInv` weighs the customers there are, and those workers may
still make, against the commands that ran at once, the failures and the recoveries: a
command at `FindNone` has paid for the customer it is about to insert. The proof found
the bound first stated to be too small: a recovery told to make a new customer may make
another when a command beside it overwrites the link row, and one more if its
booking came into the diary meanwhile, so three for each, and two for each failure.
`NameInv`: whoever a worker is about to write was chosen by the manager or does not
conflict with the booking; with one worker no other write comes in between.

With one worker, too, and for any number of failures: `JobsCorrect` (`JobsBounded`), `DiaryCorrect`
(`InDiary`) and, if each booking belongs to one conversation, `AgreesCorrect`
(`SettledAgrees`). `OneInv`: the link row a worker goes on with is the one in the table, a
row with a job has a customer, and from the appointment to its job the row names the
booking and a customer, so there is one to make the job for. Each job is paid for by a
conversation whose row has a job or is about to get one, by a turn-over or by a failure:
a worker that fails while it writes takes with it the one row whose job nobody sees.
`PartInv`: no two conversations have one lead, and an appointment on a row is one of
that conversation's bookings, so what one command attaches never touches what another
has settled; between `Attach` and `AttachJob` the customer already agrees. While a
command runs its conversation is not settled, unless the command is the calendar's,
which fills what is blank and moves the state. Without the hypothesis about bookings
the property fails: two conversations that confirm one booking would share its
appointment.

**NotificationQueue_proofs**, from `QueueAssumption`: `SentCorrect` (`SentIsDelivered`),
`LateCorrect` (`LateBounded`) and `DuplicatesCorrect` (`DuplicatesBounded`). A dispatcher marks a copy, and the row may have been
scheduled anew; `Heard` says that whoever is about to mark has heard from the carrier.
For the bound, late messages are weighed against those that can still become one:
after an opt-out, *late so far + dispatchers past the check + the alert's own request
before its send* never exceeds the number of dispatchers, plus one for an alert. A
send moves one from the second or third to the first; nobody passes the check any more.
`DuplicatesInv`: each schedule of a row and each fault is worth one message of every
dispatcher. While the row is pending every dispatcher may read it again, but those that
have sent it will mark it first (`Pending`); afterwards only copies still go out
(`Settled`). Each step falls into one of five kinds (`Deals`) that keep the balance.

**Invoices_proofs**, about Billing from `BillingAssumption` and `PlansAddUp`:
`TypeCorrect`, `TruthCorrect` (`SchedulesTellTruth`), `DuplicatesCorrect`
(`DuplicatesBounded`), `BalancesCorrect` (`AutoBalances`) and `NearlyCorrect`
(`PlanNearlyReconciles`), for any quote, plans and number of requests.
The amounts of a plan and what is billed are folds over finite sets; that they
stay natural numbers is an induction over the subsets, by a least counterexample, and
the same argument shows that a new invoice adds its total to what is billed. `Truth`:
a row without an invoice is planned or deleted, and the invoice that a row names, or
that a request is about to link to it, was made for it; a request at `paySchedules`
has paid its invoice. `MadeAt`: while a row is free each of its invoices is about to be
linked or was broken off by a fault; once it is taken no request begins another.
`Balance`: what a request holds is what was missing when it read the invoices, and
still is if none was inserted since.

`NearlyCorrect` has one hypothesis more, `RatesInUse`: VAT at 0, 5 or 20 %. At 21 % it
would be false, since a row's net and its gross amount are each rounded and may then be
more than a penny apart: five stages of 19 % of 0.50 come to 0.55, the quote to 0.61. At
the rates there are the distance in hundredths of a penny is at most 100, 102.5 or 110
and a multiple of 100, 5 or 20 (`RowRounds`), so a penny at most. `RowsRound` adds this up over the rows, along the fold that takes their amounts from the subtotal: a sum
over a finite set may take any element first (`SumTakes`), and the fold's own choice is
the one to take. The plan's percentages come to at most the whole (`PlansAddUp`, which
the route's schema checks), which bounds a plan whose rounded rows take more than the
subtotal and leave a final row of nothing. The state's part is three invariants.
`Blocks`: what is left of a plan's rows asks for what its draft did. `Priced`: the invoice
of a row that is still there is of the row's amount. `Quoted`: accepting changes neither
subtotal nor total. `Truth` then says that no two rows name one invoice.

About InvoiceChase from `ChaseAssumption`: `OnceCorrect`, `LateCorrect`,
`FlagCorrect`. `Covered`: each send to come (a waiting row, one the dispatcher holds)
has a scheduling of its own that nothing was sent for. `Spent`: after the payment,
late emails and the ones still possible (of a send to come, of a job that read the
invoice before) never exceed two. `Earned`: a final row is marked sent after its email.

**Diary_proofs**, from `DiaryAssumption`: `TypeCorrect`, `LandsCorrect`,
`MatchCorrect`, `RemindedCorrect` (`RemindedOnce`). `Clear(r)`: a request about to move has found the time free of every
appointment not written since. `Kept(a)`: the appointment's last writer, as long as
it is the keeper, is alone at the reminders, holds the row as it is, and what waits is
what its place in the sequence says. Only this stronger statement survives a step,
since `RemindersMatch` speaks of the end of the sequence alone. `RemindInv`: what was
told was due, and time does not go back, so a reminder that waits again was written by
a request that decided before its time came; each of those was counted when it came.

**Quotes_proofs**, from `QuotesAssumption`: `TypeCorrect`, `TellsCorrect`,
`ChaseCorrect`, `RefusalsCorrect` (`RefusalsBounded`). `Honest`: an accepting request past its two writes has had both
answered, one about to tell has kept its version. `Silent`: while the chase is quiet
nobody is scheduling and the quote is not at `sent`, so whoever looks turns back.
`VersionsInv`: from the quote's version, and from each version a request has read, the
way back has every number: kept, about to be kept, or lost by a call that failed or
by the customer's writes; so a number that is refused was overtaken by another write.

**Sweeps_proofs**, about CronRegistry from `CronAssumption`: `CronTypeCorrect`,
`OnceCorrect`, `SucceededCorrect`. The invariant ties the unique key to the calls: no
run of a window without its row, at most one call between claim and outcome for it, and
a call that is about to run has found no earlier run.

About Enquiries from `EnquiriesAssumption`: `TypeCorrect`, `StraysCorrect`,
`BookedCorrect`, `RecalledCorrect` and `ActsCorrect`. `AccountAt`: the jobs of a lead
are at least those of its confirmations, done and running, and what exceeds them is
paid for, with two for each kill or lost answer and one for each refusal; a
confirmation that is being undone has already been paid for once, which is why a single
refusal leaves nothing. That no count falls below zero (`TypeCorrect`) follows from it.
`BookAt`: while a lead may be booked there is room for a full booking by each request,
so a write that opens it makes room for all and one that books it uses one up.
`RecallAt`: an unmarked lead was asked by the runs about to mark it and by those cut
short; a marked one is in no new list, so what is still to be asked is the runs that
listed it before. `HeedInv`: what a run holds is as it read it, unless `stale` says
otherwise.

**Intake_proofs**, from `IntakeAssumption`: `TypeCorrect`, `ClobbersCorrect`,
`UntoldCorrect`, `RecordsCorrect` and `BypassedCorrect` (the properties
`ClobbersBounded`, `UntoldBounded`, `RecordsBounded`, `BypassedBounded`). What goes wrong here is paid for by the requests
that overlapped and the calls that failed, and each invariant says who still may go
wrong and has paid already. `ApartInv`: of the running requests all but one have
overlapped. `ClobberInv`: a form that has still to write its customer holds a true
copy of its address, or an overlap was counted that nothing was overwritten for.
`UntoldInv`: forms that wait for a lead, but one, have overlapped; of those about to
reserve an alert, each has a number of its own that nobody else will be given, or an
overlap, or another has reserved ahead of its number. `RecordsInv`: the customers of
one kind (those of one person's forms, of one number's messages, the threads of one
contact) and the requests about to make another are together at most one more than the
overlaps and faults: a request comes to make one only if it has found none, and then
all the others about to make one run beside it (`Paid`). A form finds every customer
of its number as long as there are not more than it is compared with.
`BypassedInv`: there is a set of leads, those bypassed and those that may still be (a
lead whose stamp was set back below the time of a form accepted or due; of the leads
of a fingerprint that may be repeated now, all but one; what a form past its look will
bypass), and with the forms that have no lead yet it numbers at most the overlaps and
faults. It may be one more only in a quiet state, in which no such form will set a
stamp back or make a lead beside one that may be repeated (`Quiet`): a single form
alone is always in one. A look that fails puts the lead it missed into the set and
pays for it with its own fault.

**Only model-checked**: all liveness properties, since liveness under fairness is out of
the prover's reach. With several workers the
properties proved for one are not claimed: commands that overlap do part an appointment
from its job, and `BookingsPair` checks what holds then.

## 7. Disagreements with the repository's own words

The models do what the code does, and the properties say what holds of it. In these
places the code does something else than the repository says; the actions named show
it.

| The repository says | The code does | Seen in |
|---|---|---|
| `docs/multi-agent-architecture.md:251`: "Duplicates silently dedupe." | a command is skipped only when it is already acked (`processor.ts:86`); of two overlapping posts both execute it | `PlatformEvents!Execute` |
| `processor.ts:117`: "Deferred for replay." | if the event row cannot be written, the answer is still 202 (`:131`) and there is no row to replay | `PlatformEvents!Catch` |
| `CRM_AGENTIC_AI_TECHNICAL_MANUAL.md:380`: "Outbox guarantees outbound delivery attempts" | the batch is the 25 oldest rows, failed ones included (`repository.ts:709`); 25 refused rows hide all others | `Outbox!OldestOf` |
| `lead-alerts.test.ts:138`: "does not send a duplicate alert when the idempotency row already exists" | the reservation is pending and due (`lead-alerts.ts:135`), so a dispatcher sends it as well | `NotificationQueue!Reserve` |
| `202605260007_crm_invoice_chase.sql:36`: "This is the final automated reminder" | the job resets all steps every day the invoice is unpaid (`invoice-chase.ts:147`), and all go out again | `InvoiceChase` |
| `command-executor.ts:1783`: "we just mark the booking as cancelled on next upsert" | a cancellation without an appointment leaves no trace; the booking that follows is diaried as if it stood | `Bookings!Cancel`, `Upsert` |
| `payment-plan.ts:6`: rows "always reconcile exactly to the quote total to the penny after the invoice generator applies the quote VAT rate" | each invoice rounds its own VAT: of 1.03 at 20 %, 40 % and the rest come to 0.49 + 0.74 = 1.23, not 1.24 | `Billing!PlanNearlyReconciles` |
| `check-availability/route.ts:9`: "holds and 'scheduled' confirmed bookings block the slot" | it compares `assigned_to` with profile ids (`:63`) while a hold stores the engineer's user id (`calendar/events/route.ts:103`) | not modelled; the read has no state |

Also seen while modelling: a dead-lettered event can still be executed by a replay
that read its status earlier; a publisher with an older copy sends a dead-lettered
outbox row; an error of the tenant-alias lookup drops an outgoing event silently
(`EnqueueDrops`); a note rescheduled between a dispatcher's read and its update is
marked sent with the new content unsent; a paid invoice may be chased once or twice
more. A second booking of one conversation goes to review, and the first one's
completion takes it out again; bookings that alternate make a new lead and job at
each switch; with two workers the link row can part an appointment from its job. A
stale write to a quote sets its version back, and the saves after it are refused with
the quote already written; an acceptance or rejection through the customer's link
leaves the chase running, keeps no version and tells the platform nothing; converting
keeps no version either; an edit sets the form's status and does not call the chase
off. A plan put again inserts all its rows although a deposit has been invoiced; a
final row invoiced after the automatic final invoice bills twice; a kill after the
job's update leaves it without its invoice for good, since completing it again is no
transition; a payment between an invoice's insert and its link leaves the schedule row
at `invoiced`. A lead without a telephone number stays due and is listed by every chase;
an exception about one lead ends the run for those behind it. Snoozing a booked lead
opens it, and it can be booked again; a survey leaves it open anyway. A chase that sees
the appointment of a confirmation still running wipes the next action, even if the
confirmation is then undone; a booking does not cancel chase texts that wait. When only
the answer to the lead's update is lost, the lead is booked while job and appointment
are deleted; when what follows the commit fails, the answer is 400 for a booking that
stands, and a survey can then be confirmed again.
The website stores a number as it is typed, "07..." or "+44...", while texts and opt-outs
come from "+44...": a customer who sends STOP is not found under the national form that
notes are addressed to (`inbound.ts:371`, `scheduler.ts:230`), and a text makes a second
customer beside the form's. Once two customers share a number, which forms make on
purpose for two people of one household, `findCustomer`'s `maybeSingle` refuses every text
from it: the message is answered 500 and leaves no row. Forms match archived customers,
messages do not; every message makes a lead. A late update sets a lead's last submission
back; two repeats that overlap share a number, and the office hears of one.

## 8. What is left out, and why

- *Events*: authentication and rate limits of the route, the tenant alias that answers
  404, contents of payloads, the synthetic-number guard and an unset alert recipient
  (nothing is sent then). `Execute` is one step there and await by await in Bookings;
  that two overlapping deliveries execute one command is PlatformEvents' subject, and
  Bookings gives an event to one worker.
- *Outbox*: a tenant without webhook URL or secret (its rows fail like refused ones);
  tenants apart from one another (every query filters by tenant).
- *Notifications*: `dispatch_at` order, for which any `Limit` due rows stand; the
  length of the backoff, which is a flag that time clears; templates, contents,
  test-mode exceptions of the direct routes.
- *Invoice chase*: failures of the dispatcher and several invoices of one customer.
- *Cron*: what a job does, which is modelled where it belongs, and the registry's
  listing for the settings page.
- *Bookings*: all callers share one telephone, so an identity finds any customer there
  is, and whether names conflict is a matter of the names alone; booking ids and lead
  ids that a payload brings along; the awaits that end a link command are one step (`AttachAll`), since each copies an
  id of the one link row that was read. Notes, lead status, test
  flags, the draft quote and usage metering; callback and escalation tasks, which are
  inserts; leads of the platform's own lead events; the session metadata of a link.
- *Diary*: the length of appointments (two times either are the same or do not touch);
  the email that goes with the text of the day before; titles and notes.
- *Quotes*: prices, contents, and tokens: that `quote-chase.ts:47` reuses a token
  however soon it expires, and that making a new one leaves dead links in waiting
  texts, is outside.
- *Enquiries*: customers, their matching and the dedupe of repeated forms, which are
  Intake's; the merging of duplicates by hand; the promise a snooze makes; what follows a confirmation's commit
  (reminders as in Diary's `Make`, event and publishing as in Outbox, messages, the
  draft quote); appointments of the platform's own bookings, which are Bookings'; the
  ages and tenant settings that decide who is listed; a lead entered with another status
  than new, which is `Enquire` and `Edit` in one.
- *Intake*: the choice of the tenant, origin, rate limit and spam checks before anything is
  read; addresses, postcodes, attribution and notes (whose failures the code does not look
  at); the alert's dispatchers; the platform's own writes to
  customers and links, which are Bookings'; the merge of a link's old and new metadata; a
  workspace without an alias, for which a message has no thread.
- *Billing*: schedule rows added one at a time; the providers' calls and links; the
  compliance and receipt checks before completion, which are reads.
- Not modelled at all: *review requests* (the shape of the quote chase, over the queue
  that is modelled); the status of *customer promises* (single-row writes); *authentication, sessions, tenant resolution* (guards
  without state of their own; every action is past them); *CRUD, search, reports,
  exports* (single-row reads and writes); *quote automation and AI hub* (text
  generation); *FSM adapters* and *tenant provisioning* (chains of external calls);
  *landing pages, UI, tracking, SEO; scripts*. These last are most of the repository's
  lines and hold no protocol, which is why the modules stand for about a twentieth of
  it.

## 9. Plan

Modules still to come, most important first:

1. **Promises**: customer promises, their outbox rows and the snooze that makes one.
2. Demo sessions and the kill switch, the delete trail, signup's compensation.

Theorems to come: that Bookings implements `Execute` of PlatformEvents.

`cd tla && tlc -workers 2 -config X.cfg M` repeats a run (the module and the
configuration of each are in `PROJECT.json`), `tlapm M_proofs.tla` the proofs.
