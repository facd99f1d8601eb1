--------------------------- MODULE PlatformEvents ---------------------------
(***************************************************************************)
(* The receiving half of the platform bridge: POST /api/platform/events,   *)
(* the recovery routes and processPlatformEvent, over the tables           *)
(* platform_event_log and platform_command_log.                            *)
(*                                                                         *)
(* No call of the processor runs in a transaction: every await is a point  *)
(* at which another request for the same event may run, the function may   *)
(* be killed, or the database may refuse the call.  A request is a record  *)
(* holding the await it is at (pc) and the locals that survive it.         *)
(***************************************************************************)
EXTENDS PlatformEnvelopes

CONSTANTS
  Requests,        \* concurrently running requests
  InvalidContract, \* envelopes whose payload breaks the event contract
  MaxFaults        \* bound: crashes, refused database calls, failed commands

ASSUME EventAssumption ==
  /\ InvalidContract \subseteq EventIds
  /\ MaxFaults \in Nat

VARIABLES
  eventLog,    \* processing_status of the row of an event_id, or "absent"
  commandLog,  \* delivery_status and attempt_count of (key, command type)
  alertLog,    \* the lead alert reservation of a key, or "absent"
  sender,      \* what the producer of an envelope still has to do with it;
               \* one that is unsent never happens
  req,         \* the requests
  applied,     \* history: completed executions of (key, command type)
  alertsSent,  \* history: alert SMS handed to the carrier for a key
  faults       \* faults so far

vars == << eventLog, commandLog, alertLog, sender, req, applied, alertsSent, faults >>
tables == << eventLog, commandLog, alertLog >>
history == << applied, alertsSent >>

PC == { "record", "reject", "enqueue", "execute", "ack", "markFailed",
        "finish", "alert", "sendAlert", "markAlert", "catch", "respond" }

Idle == [pc |-> "idle"]
Request ==
  [ pc : PC, ev : EventIds, origin : { "sender", "local", "manager" },
    idx : Nat, attempt : Nat, deferred : BOOLEAN, ok : BOOLEAN ]

Init ==
  /\ eventLog   = [e \in EventIds |-> "absent"]
  /\ commandLog = [k \in CommandKeys |-> [status |-> "absent", attempts |-> 0]]
  /\ alertLog   = [k \in Keys |-> "absent"]
  /\ sender     \in [EventIds -> { "pending", "unsent" }]
  /\ req        = [r \in Requests |-> Idle]
  /\ applied    = [k \in CommandKeys |-> 0]
  /\ alertsSent = [k \in Keys |-> 0]
  /\ faults     = 0

-----------------------------------------------------------------------------
(* Helpers of the request steps.                                           *)

\* Request r is at the await p.
At(r, p) == req[r].pc = p
\* Request r goes on at p, its locals kept.
Goto(r, p) == req' = [req EXCEPT ![r].pc = p]
\* Request r has an answer for its caller: ok is any 2xx.
Answer(r, ok) == req' = [req EXCEPT ![r].pc = "respond", ![r].ok = ok]
\* Something goes wrong, if the bound leaves one.
Fault == faults < MaxFaults /\ faults' = faults + 1

CommandOf(r) == CommandKey(req[r].ev, req[r].idx)

\* event_id and (source, key) are unique in the event log.
RowExists(e) ==
  \E f \in EventIds : KeyOf[f] = KeyOf[e] /\ SourceOf[f] = SourceOf[e] /\ eventLog[f] # "absent"

\* An update of the status column, addressed by event_id: no row, no effect.
SetEventStatus(e, s) ==
  eventLog' = [eventLog EXCEPT ![e] = IF @ = "absent" THEN "absent" ELSE s]

\* The next await of the loop over the derived commands.  (LoopAt_StopsShort is the
\* first of the mutated forms: a mistake a change could make, used by no action.)
LoopAt_StopsShort(e, i) == IF i < NumCommands(e) THEN "enqueue" ELSE "finish"
LoopAt(e, i) == IF i <= NumCommands(e) THEN "enqueue" ELSE "finish"
NextCommand(r, deferred) ==
  LET i == req[r].idx + 1
  IN  req' = [req EXCEPT ![r].idx = i, ![r].deferred = deferred,
                         ![r].pc = LoopAt(req[r].ev, i)]

-----------------------------------------------------------------------------
(* Where requests come from.                                               *)

Begin(r, e, origin) ==
  /\ req[r] = Idle
  /\ req' = [req EXCEPT ![r] =
       [ pc |-> "record", ev |-> e, origin |-> origin, idx |-> 1,
         attempt |-> 0, deferred |-> FALSE, ok |-> FALSE ]]

\* The producer posts an envelope it has had no 2xx for; it may do so again
\* while an earlier post is still being worked on.  The route refuses a
\* payload that breaks the contract before anything is written.
Deliver(r, e) ==
  /\ e \notin LocalEvents /\ e \notin InvalidContract
  /\ sender[e] = "pending"
  /\ Begin(r, e, "sender")
  /\ UNCHANGED << tables, sender, history, faults >>

\* The CRM's webchat routes call the processor in process, once.
Submit(r, e) ==
  /\ e \in LocalEvents
  /\ sender[e] = "pending"
  /\ sender' = [sender EXCEPT ![e] = "delivered"]
  /\ Begin(r, e, "local")
  /\ UNCHANGED << tables, history, faults >>

\* A manager replays a failed event; the status is read once, here.
Replay(r, e) ==
  /\ eventLog[e] = "failed"
  /\ Begin(r, e, "manager")
  /\ UNCHANGED << tables, sender, history, faults >>

\* A manager gives up on a failed event or command (guarded updates).
DeadLetterEvent(e) ==
  /\ eventLog[e] = "failed"
  /\ eventLog' = [eventLog EXCEPT ![e] = "dead_letter"]
  /\ UNCHANGED << commandLog, alertLog, sender, req, history, faults >>

DeadLetterCommand(k) ==
  /\ commandLog[k].status = "failed"
  /\ commandLog' = [commandLog EXCEPT ![k].status = "dead_letter"]
  /\ UNCHANGED << eventLog, alertLog, sender, req, history, faults >>

-----------------------------------------------------------------------------
(* Mutated forms of the actions that follow: no action below uses them.    *)

\* The event log taken for the idempotency check: a known event is answered.
Record_Dedups(r) ==
  LET e == req[r].ev IN
  /\ At(r, "record")
  /\ eventLog' = IF RowExists(e) THEN eventLog ELSE [eventLog EXCEPT ![e] = "accepted"]
  /\ IF RowExists(e) THEN Answer(r, TRUE)
     ELSE Goto(r, IF e \in InvalidContract THEN "reject" ELSE LoopAt(e, 1))
  /\ UNCHANGED << commandLog, alertLog, sender, history, faults >>

MarkFailed_Forgets(r) ==
  /\ At(r, "markFailed")
  /\ commandLog' = [commandLog EXCEPT ![CommandOf(r)].status = "failed"]
  /\ IF NonFatal(req[r].ev) THEN NextCommand(r, FALSE) ELSE Goto(r, "catch")
  /\ UNCHANGED << eventLog, alertLog, sender, history, faults >>

\* The status is not written.
Finish_Unrecorded(r) ==
  /\ At(r, "finish")
  /\ IF ~req[r].deferred /\ LeadAlert(req[r].ev) THEN Goto(r, "alert") ELSE Answer(r, TRUE)
  /\ UNCHANGED << tables, sender, history, faults >>

-----------------------------------------------------------------------------
(* processPlatformEvent, await by await.                                   *)

\* INSERT of the event row; a unique violation is ignored.
Record(r) ==
  LET e == req[r].ev IN
  /\ At(r, "record")
  /\ eventLog' = IF RowExists(e) THEN eventLog ELSE [eventLog EXCEPT ![e] = "accepted"]
  /\ Goto(r, IF e \in InvalidContract THEN "reject" ELSE LoopAt(e, 1))
  /\ UNCHANGED << commandLog, alertLog, sender, history, faults >>

\* The processor's own contract check failed: status failed, deferred.
Reject(r) ==
  /\ At(r, "reject")
  /\ SetEventStatus(req[r].ev, "failed")
  /\ Answer(r, TRUE)
  /\ UNCHANGED << commandLog, alertLog, sender, history, faults >>

\* INSERT of the command row, or SELECT of the one that has its key.
Enqueue(r) ==
  LET k   == CommandOf(r)
      row == IF commandLog[k].status = "absent"
             THEN [status |-> "pending", attempts |-> 0] ELSE commandLog[k] IN
  /\ At(r, "enqueue")
  /\ commandLog' = [commandLog EXCEPT ![k] = row]
  /\ IF row.status = "acked"
     THEN NextCommand(r, req[r].deferred)
     ELSE req' = [req EXCEPT ![r].pc = "execute", ![r].attempt = row.attempts + 1]
  /\ UNCHANGED << eventLog, alertLog, sender, history, faults >>

\* executePlatformCommand returns; what it writes is modelled elsewhere.
Execute(r) ==
  /\ At(r, "execute")
  /\ applied' = [applied EXCEPT ![CommandOf(r)] = @ + 1]
  /\ Goto(r, "ack")
  /\ UNCHANGED << tables, sender, alertsSent, faults >>

SetCommandStatus(r, s) ==
  commandLog' = [commandLog EXCEPT ![CommandOf(r)] = [status |-> s, attempts |-> req[r].attempt]]

Ack(r) ==
  /\ At(r, "ack")
  /\ SetCommandStatus(r, "acked")
  /\ NextCommand(r, req[r].deferred)
  /\ UNCHANGED << eventLog, alertLog, sender, history, faults >>

\* The inner catch: the failure is recorded, then rethrown or deferred.
MarkFailed(r) ==
  /\ At(r, "markFailed")
  /\ SetCommandStatus(r, "failed")
  /\ IF NonFatal(req[r].ev) THEN NextCommand(r, TRUE) ELSE Goto(r, "catch")
  /\ UNCHANGED << eventLog, alertLog, sender, history, faults >>

\* After the loop: failed "Deferred for replay.", or processed and the alert.
Finish(r) ==
  /\ At(r, "finish")
  /\ SetEventStatus(req[r].ev, IF req[r].deferred THEN "failed" ELSE "processed")
  /\ IF ~req[r].deferred /\ LeadAlert(req[r].ev) THEN Goto(r, "alert") ELSE Answer(r, TRUE)
  /\ UNCHANGED << commandLog, alertLog, sender, history, faults >>

\* reserveAlertDelivery: an INSERT that loses to an earlier one sends nothing.
ReserveAlert(r) ==
  LET k == KeyOf[req[r].ev] IN
  /\ At(r, "alert")
  /\ IF alertLog[k] = "absent"
     THEN alertLog' = [alertLog EXCEPT ![k] = "pending"] /\ Goto(r, "sendAlert")
     ELSE UNCHANGED alertLog /\ Answer(r, TRUE)
  /\ UNCHANGED << eventLog, commandLog, sender, history, faults >>

SendAlert(r) ==
  /\ At(r, "sendAlert")
  /\ alertsSent' = [alertsSent EXCEPT ![KeyOf[req[r].ev]] = @ + 1]
  /\ Goto(r, "markAlert")
  /\ UNCHANGED << tables, sender, applied, faults >>

MarkAlert(r) ==
  /\ At(r, "markAlert")
  /\ \E s \in { "sent", "failed" } : alertLog' = [alertLog EXCEPT ![KeyOf[req[r].ev]] = s]
  /\ Answer(r, TRUE)
  /\ UNCHANGED << eventLog, commandLog, sender, history, faults >>

\* The outer catch: event failed; 202 for the non-fatal types, else 500.
Catch(r) ==
  /\ At(r, "catch")
  /\ SetEventStatus(req[r].ev, "failed")
  /\ Answer(r, NonFatal(req[r].ev))
  /\ UNCHANGED << commandLog, alertLog, sender, history, faults >>

\* The caller gets its answer; only the producer keeps or drops the envelope.
Respond(r) ==
  /\ At(r, "respond")
  /\ sender' = IF req[r].origin = "sender" /\ req[r].ok
               THEN [sender EXCEPT ![req[r].ev] = "delivered"] ELSE sender
  /\ req' = [req EXCEPT ![r] = Idle]
  /\ UNCHANGED << tables, history, faults >>

-----------------------------------------------------------------------------
(* What goes wrong.                                                        *)

\* A call throws, having done nothing: the command itself or the database.
\* The lead alert is best effort, so its failures are swallowed, and so is a
\* failure of the outer catch's own update.
Throw(r) ==
  /\ Fault
  /\ \/ /\ req[r].pc \in { "record", "reject", "enqueue", "markFailed", "finish" }
        /\ Goto(r, "catch")
     \/ /\ req[r].pc \in { "execute", "ack" }
        /\ Goto(r, "markFailed")
     \/ /\ req[r].pc \in { "alert", "sendAlert", "markAlert" }
        /\ Answer(r, TRUE)
     \/ /\ At(r, "catch")
        /\ Answer(r, NonFatal(req[r].ev))
  /\ UNCHANGED << tables, sender, history >>

\* The function is killed, or its answer never reaches the caller.
Crash(r) ==
  /\ Fault
  /\ req[r].pc # "idle"
  /\ req' = [req EXCEPT ![r] = Idle]
  /\ UNCHANGED << tables, sender, history >>

Step(r) ==
  \/ Record(r) \/ Reject(r) \/ Enqueue(r) \/ Execute(r) \/ Ack(r) \/ MarkFailed(r)
  \/ Finish(r) \/ ReserveAlert(r) \/ SendAlert(r) \/ MarkAlert(r) \/ Catch(r) \/ Respond(r)

Next ==
  \/ \E r \in Requests, e \in EventIds : Deliver(r, e) \/ Submit(r, e) \/ Replay(r, e)
  \/ \E e \in EventIds : DeadLetterEvent(e)
  \/ \E k \in CommandKeys : DeadLetterCommand(k)
  \/ \E r \in Requests : Step(r) \/ Throw(r) \/ Crash(r)

Spec == Init /\ [][Next]_vars

-----------------------------------------------------------------------------
(* Properties.                                                             *)

\* Every table, request and counter keeps its type.
TypeOK ==
  /\ eventLog   \in [EventIds -> { "absent", "accepted", "processed", "failed", "dead_letter" }]
  /\ commandLog \in [CommandKeys ->
                      [ status : { "absent", "pending", "acked", "failed", "dead_letter" },
                        attempts : Nat ]]
  /\ alertLog   \in [Keys -> { "absent", "pending", "sent", "failed" }]
  /\ sender     \in [EventIds -> { "unsent", "pending", "delivered" }]
  /\ req        \in [Requests -> Request \cup { Idle }]
  /\ applied    \in [CommandKeys -> Nat]
  /\ alertsSent \in [Keys -> Nat]
  /\ faults     \in Nat

Applied(e, i) == applied[CommandKey(e, i)] > 0
AllApplied(e) == \A i \in 1 .. NumCommands(e) : Applied(e, i)

\* The log never claims more than was done: an acked command row stands for a
\* completed execution, however deliveries, replays, crashes and dead-lettering
\* interleave.
AckedIsApplied == \A k \in CommandKeys : commandLog[k].status = "acked" => applied[k] > 0

\* ... and a processed event for an execution of each of its commands, though its
\* status and those of the commands are written by different calls.
ProcessedIsApplied == \A e \in EventIds : eventLog[e] = "processed" => AllApplied(e)

\* End to end at least once: when the producer drops an envelope of a type
\* whose failures are fatal, because it was answered 2xx, every command of the
\* event has been executed.
DeliveredIsApplied ==
  \A e \in EventIds \ LocalEvents :
    sender[e] = "delivered" /\ ~NonFatal(e) => AllApplied(e)

\* ... and its row is out of the processor's hands: processed, failed, or given
\* up on, never left at "accepted", which neither the recovery list nor the
\* replay route sees.  (Events that share a key share one row.)
OwnRow(e) == \A f \in EventIds : KeyOf[f] = KeyOf[e] /\ SourceOf[f] = SourceOf[e] => f = e
Settled(e) == eventLog[e] \in { "processed", "failed", "dead_letter" }
DeliveredIsSettled ==
  \A e \in EventIds \ LocalEvents :
    sender[e] = "delivered" /\ ~NonFatal(e) /\ OwnRow(e) => Settled(e)

\* The office is never told of a lead or booking the CRM does not hold: an alert
\* is reserved only once every command of its event has been executed.
AlertIsApplied ==
  \A k \in Keys : alertLog[k] # "absent" =>
    \E e \in EventIds : KeyOf[e] = k /\ LeadAlert(e) /\ AllApplied(e)

\* The processor texts the office at most once about a key, whoever repeats the event
\* and wherever an attempt is interrupted.
AlertAtMostOnce ==
  \A k \in Keys : alertsSent[k] <= 1

\* An event that breaks its contract changes nothing but its own row.
InvalidIsInert ==
  \A e \in InvalidContract :
    (\A f \in EventIds \ InvalidContract : KeyOf[f] # KeyOf[e]) =>
      /\ \A i \in 1 .. NumCommands(e) : commandLog[CommandKey(e, i)].status = "absent" /\ ~Applied(e, i)
      /\ eventLog[e] \in { "absent", "accepted", "failed", "dead_letter" }

\* The whole of it: the processor implements the promise.
Promise == INSTANCE PlatformPromise WITH
  done  <- { k \in CommandKeys : applied[k] > 0 },
  told  <- { e \in EventIds \ LocalEvents : sender[e] = "delivered" /\ ~NonFatal(e) },
  texts <- alertsSent
KeepsPromise == Promise!Spec

-----------------------------------------------------------------------------
(* Progress.                                                               *)

\* A request that is not killed runs on, and a producer with an outbox posts an
\* envelope until it is answered 2xx.  (Strong: the slots of Requests bound the
\* model, and replays of other events that take them do not keep a post out.)
Fairness ==
  /\ \A r \in Requests : WF_vars(Step(r))
  /\ \A e \in EventIds \ LocalEvents : SF_vars(\E r \in Requests : Deliver(r, e))
FairSpec == Spec /\ Fairness

\* Such a producer's event is executed in the end, whatever was lost before:
\* no row left by an interrupted attempt makes a later one skip the work.
EventuallyApplied ==
  \A e \in EventIds \ (LocalEvents \cup InvalidContract) :
    sender[e] = "pending" /\ ~NonFatal(e) => <>AllApplied(e)
=============================================================================
