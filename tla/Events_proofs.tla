---------------------------- MODULE Events_proofs ----------------------------
(***************************************************************************)
(* Proofs about the events that cross the bridge to the platform.          *)
(*                                                                         *)
(* About PlatformEvents, for any events, requests and failures: its tables *)
(* and answers tell what was executed, and it keeps PlatformPromise.       *)
(*                                                                         *)
(* About Outbox, for any number of events, publishers and faults.  A       *)
(* publisher writes what it learned from its own POST over whatever the row*)
(* says by then.  So the invariant follows the publishers: past the answer *)
(* the envelope was accepted (HoldersAccepted), and the copy of the counter*)
(* a publisher holds is behind the POSTs made (CopiesHappened).  What was  *)
(* accepted before and may be posted again is bounded by the publishers and*)
(* the faults (DuplicatesInv).                                             *)
(*                                                                         *)
(* The names of the two are distinct and so are their assumptions.         *)
(***************************************************************************)
EXTENDS PlatformEvents, Outbox, FiniteSetTheorems, SequenceTheorems, TLAPS

-----------------------------------------------------------------------------
(* The processor: what its requests know.                                  *)

(* What a request knows of the commands it has gone past.  A request that   *)
(* has not deferred anything has left each earlier command executed, by     *)
(* itself or by whoever acked the row it read; past the loop that is all.   *)
PastIsApplied(q) ==
  ~q.deferred => \A i \in 1 .. q.idx - 1 : i <= NumCommands(q.ev) => Applied(q.ev, i)

InLoop == { "enqueue", "execute", "ack", "markFailed" }

RequestInv(q) ==
  /\ q.origin = "sender" => q.ev \notin LocalEvents /\ q.ev \notin InvalidContract
  /\ q.pc = "record" => q.idx = 1
  /\ q.pc = "reject" => q.ev \in InvalidContract
  /\ q.deferred => NonFatal(q.ev)
  /\ q.idx >= 1
  /\ q.pc \in InLoop => q.idx <= NumCommands(q.ev) /\ PastIsApplied(q)
  /\ q.pc = "ack" => Applied(q.ev, q.idx)
  /\ q.pc = "finish" => q.idx > NumCommands(q.ev) /\ PastIsApplied(q)
  /\ q.pc \in { "alert", "sendAlert", "markAlert" } => AllApplied(q.ev) /\ LeadAlert(q.ev)
  /\ q.pc = "respond" /\ q.ok /\ ~NonFatal(q.ev) /\ q.ev \notin InvalidContract => AllApplied(q.ev)

RequestsInv == \A r \in Requests : req[r] # Idle => RequestInv(req[r])

(* The reservation row is what makes the alert unique: without it nothing   *)
(* was sent, and only the request that inserted it may send.                *)
AlertInv ==
  /\ \A k \in Keys : alertLog[k] = "absent" => alertsSent[k] = 0
  /\ \A r \in Requests : At(r, "sendAlert") =>
       /\ alertsSent[KeyOf[req[r].ev]] = 0
       /\ alertLog[KeyOf[req[r].ev]] # "absent"
       /\ \A o \in Requests : At(o, "sendAlert") /\ KeyOf[req[o].ev] = KeyOf[req[r].ev] => o = r
  /\ AlertAtMostOnce

(* The inductive invariant: the tables are backed by executions, and so is  *)
(* every request's view of them.                                            *)
IInv ==
  /\ TypeOK
  /\ AckedIsApplied
  /\ ProcessedIsApplied
  /\ DeliveredIsApplied
  /\ AlertIsApplied
  /\ RequestsInv
  /\ AlertInv

-----------------------------------------------------------------------------
(* Facts about the constants.                                              *)

LEMMA DerivedCommandsType ==
  ASSUME NEW s \in SourceSystems, NEW t \in EventTypes
  PROVE  DerivedCommands(s, t) \in Seq(CommandTypes)
<1>1. /\ << >> \in Seq(CommandTypes)
      /\ \A c \in CommandTypes : << c >> \in Seq(CommandTypes)
      /\ \A c, d \in CommandTypes : << c, d >> \in Seq(CommandTypes)
  OBVIOUS
<1> DEFINE Two == { "ConversationStarted", "ConversationRestarted", "BookingConfirmed" }
<1>2. CASE t \in Two
  BY <1>1, <1>2 DEF DerivedCommands, CommandTypes
<1>3. CASE t \notin Two
  BY <1>1, <1>3 DEF DerivedCommands, CommandTypes
<1>4. QED
  BY <1>2, <1>3

LEMMA CommandFacts ==
  ASSUME NEW e \in EventIds
  PROVE  /\ NumCommands(e) \in Nat
         /\ KeyOf[e] \in Keys
         /\ \A i \in 1 .. NumCommands(e) : CommandKey(e, i) \in CommandKeys
<1>1. CommandsOf(e) \in Seq(CommandTypes)
  BY DerivedCommandsType, EnvelopeAssumption DEF CommandsOf
<1>2. KeyOf[e] \in Keys
  BY EnvelopeAssumption
<1>3. \A i \in 1 .. NumCommands(e) : CommandsOf(e)[i] \in CommandTypes
  BY <1>1 DEF NumCommands
<1>4. QED
  BY <1>1, <1>2, <1>3 DEF NumCommands, CommandKey, CommandKeys

-----------------------------------------------------------------------------
(* Type correctness.                                                       *)

LEMMA TypeInit == Init => TypeOK
BY EnvelopeAssumption DEF Init, TypeOK, Idle, CommandKeys

(* A request that is not idle is a full record, its loop index names a      *)
(* command while it is in the loop, and every move keeps it a record.       *)
LEMMA ActiveRequest ==
  ASSUME TypeOK, NEW r \in Requests, req[r].pc # "idle"
  PROVE  /\ req[r] \in Request
         /\ req[r] # Idle
         /\ req[r].ev \in EventIds /\ req[r].idx \in Nat
         /\ RequestsInv /\ req[r].pc \in InLoop => CommandOf(r) \in CommandKeys
<1>1. req[r] \in Request /\ req[r] # Idle
  BY DEF TypeOK, Idle
<1>2. req[r].ev \in EventIds /\ req[r].idx \in Nat
  BY <1>1 DEF Request
<1>3. ASSUME RequestsInv, req[r].pc \in InLoop PROVE CommandOf(r) \in CommandKeys
  <2>1. req[r].idx \in 1 .. NumCommands(req[r].ev)
    BY <1>1, <1>2, <1>3, CommandFacts DEF RequestsInv, RequestInv
  <2>2. QED
    BY <1>2, <2>1, CommandFacts DEF CommandOf
<1>4. QED
  BY <1>1, <1>2, <1>3

LEMMA MoveType ==
  ASSUME TypeOK, NEW r \in Requests, req[r].pc # "idle"
  PROVE  /\ \A p \in PC : Goto(r, p) => req' \in [Requests -> Request \cup { Idle }]
         /\ \A ok \in BOOLEAN : Answer(r, ok) => req' \in [Requests -> Request \cup { Idle }]
         /\ \A d \in BOOLEAN : NextCommand(r, d) => req' \in [Requests -> Request \cup { Idle }]
<1>1. req[r] \in Request /\ req \in [Requests -> Request \cup { Idle }]
  BY ActiveRequest DEF TypeOK
<1>2. \A p \in PC : Goto(r, p) => req' \in [Requests -> Request \cup { Idle }]
  <2>1. \A p \in PC : [req[r] EXCEPT !.pc = p] \in Request
    BY <1>1 DEF Request
  <2>2. QED
    BY <1>1, <2>1 DEF Goto
<1>3. \A ok \in BOOLEAN : Answer(r, ok) => req' \in [Requests -> Request \cup { Idle }]
  <2>1. \A ok \in BOOLEAN : [req[r] EXCEPT !.pc = "respond", !.ok = ok] \in Request
    BY <1>1 DEF Request, PC
  <2>2. QED
    BY <1>1, <2>1 DEF Answer
<1>4. \A d \in BOOLEAN : NextCommand(r, d) => req' \in [Requests -> Request \cup { Idle }]
  <2>1. ASSUME NEW i \in Nat, NEW d \in BOOLEAN, NEW p \in PC
        PROVE  [req[r] EXCEPT !.idx = i, !.deferred = d, !.pc = p] \in Request
    BY <1>1 DEF Request
  <2>2. \A e, i : LoopAt(e, i) \in PC
    BY DEF LoopAt, PC
  <2>3. req[r].idx + 1 \in Nat
    BY ActiveRequest
  <2>4. SUFFICES ASSUME NEW d \in BOOLEAN, NextCommand(r, d)
                 PROVE  req' \in [Requests -> Request \cup { Idle }]
    OBVIOUS
  <2> DEFINE i == req[r].idx + 1
             q == [req[r] EXCEPT !.idx = i, !.deferred = d, !.pc = LoopAt(req[r].ev, i)]
  <2>5. q \in Request
    BY <2>1, <2>2, <2>3
  <2>6. req' = [req EXCEPT ![r] = q]
    BY <1>1, <2>4 DEF NextCommand
  <2>7. QED
    BY <1>1, <2>5, <2>6
<1>5. QED
  BY <1>2, <1>3, <1>4

LEMMA TypeNext == TypeOK /\ RequestsInv /\ [Next]_vars => TypeOK'
<1> SUFFICES ASSUME TypeOK, RequestsInv, [Next]_vars PROVE TypeOK'
  OBVIOUS
<1> USE DEF TypeOK
<1>1. ASSUME NEW r \in Requests, NEW e \in EventIds, Deliver(r, e) \/ Submit(r, e) \/ Replay(r, e)
      PROVE  TypeOK'
  <2>1. PICK o \in { "sender", "local", "manager" } : Begin(r, e, o)
    BY <1>1 DEF Deliver, Submit, Replay
  <2>2. [ pc |-> "record", ev |-> e, origin |-> o, idx |-> 1,
          attempt |-> 0, deferred |-> FALSE, ok |-> FALSE ] \in Request
    BY DEF Request, PC
  <2>3. req' \in [Requests -> Request \cup { Idle }]
    BY <2>1, <2>2 DEF Begin
  <2>4. sender' \in [EventIds -> { "unsent", "pending", "delivered" }]
    BY <1>1 DEF Deliver, Submit, Replay
  <2>5. UNCHANGED << eventLog, commandLog, alertLog, applied, alertsSent, faults >>
    BY <1>1 DEF Deliver, Submit, Replay, tables, history
  <2>6. QED
    BY <2>3, <2>4, <2>5
<1>2. ASSUME NEW e \in EventIds, DeadLetterEvent(e)
      PROVE  TypeOK'
  BY <1>2 DEF DeadLetterEvent, history
<1>3. ASSUME NEW k \in CommandKeys, DeadLetterCommand(k)
      PROVE  TypeOK'
  BY <1>3 DEF DeadLetterCommand, history
<1>4. ASSUME NEW r \in Requests, Record(r)
      PROVE  TypeOK'
  <2>1. req[r].pc # "idle" /\ req[r].ev \in EventIds
    BY <1>4, ActiveRequest DEF Record, At
  <2>2. req' \in [Requests -> Request \cup { Idle }]
    BY <1>4, <2>1, MoveType DEF Record, LoopAt, PC
  <2>3. QED
    BY <1>4, <2>1, <2>2 DEF Record, history
<1>5. ASSUME NEW r \in Requests, Enqueue(r)
      PROVE  TypeOK'
  <2>1. req[r].pc # "idle" /\ req[r] \in Request /\ CommandOf(r) \in CommandKeys
    BY <1>5, ActiveRequest DEF Enqueue, At, InLoop
  <2>2. commandLog' \in [CommandKeys -> [ status : { "absent", "pending", "acked", "failed", "dead_letter" }, attempts : Nat ]]
    BY <1>5, <2>1 DEF Enqueue
  <2>3. req' \in [Requests -> Request \cup { Idle }]
    <3>1. CASE NextCommand(r, req[r].deferred)
      BY <2>1, <3>1, MoveType DEF Request
    <3>2. CASE ~ NextCommand(r, req[r].deferred)
      <4> DEFINE k   == CommandOf(r)
                 row == IF commandLog[k].status = "absent"
                        THEN [status |-> "pending", attempts |-> 0] ELSE commandLog[k]
                 n   == row.attempts + 1
      <4>1. req' = [req EXCEPT ![r].pc = "execute", ![r].attempt = n]
        BY <1>5, <3>2 DEF Enqueue
      <4>3. n \in Nat
        BY <2>1
      <4> HIDE DEF n
      <4>2. [req[r] EXCEPT !.pc = "execute", !.attempt = n] \in Request
        BY <2>1, <4>3 DEF Request, PC
      <4>4. QED
        BY <4>1, <4>2
    <3>3. QED
      BY <3>1, <3>2
  <2>4. QED
    BY <1>5, <2>2, <2>3 DEF Enqueue, history
<1>6. ASSUME NEW r \in Requests, Execute(r)
      PROVE  TypeOK'
  <2>1. req[r].pc # "idle" /\ CommandOf(r) \in CommandKeys
    BY <1>6, ActiveRequest DEF Execute, At, InLoop
  <2>2. req' \in [Requests -> Request \cup { Idle }]
    BY <1>6, <2>1, MoveType DEF Execute, PC
  <2>3. QED
    BY <1>6, <2>1, <2>2 DEF Execute, tables
<1>7. ASSUME NEW r \in Requests, Ack(r) \/ MarkFailed(r)
      PROVE  TypeOK'
  <2>1. req[r].pc # "idle" /\ req[r] \in Request
    BY <1>7, ActiveRequest DEF Ack, MarkFailed, At
  <2>2. PICK s \in { "acked", "failed" } : SetCommandStatus(r, s)
    BY <1>7 DEF Ack, MarkFailed
  <2>3. commandLog' \in [CommandKeys -> [ status : { "absent", "pending", "acked", "failed", "dead_letter" }, attempts : Nat ]]
    BY <2>1, <2>2 DEF SetCommandStatus, Request
  <2>4. req' \in [Requests -> Request \cup { Idle }]
    <3>1. req[r].deferred \in BOOLEAN /\ "catch" \in PC
      BY <2>1 DEF Request, PC
    <3>2. QED
      BY <1>7, <2>1, <3>1, MoveType DEF Ack, MarkFailed
  <2>5. QED
    BY <1>7, <2>3, <2>4 DEF Ack, MarkFailed, history
<1>8. ASSUME NEW r \in Requests, Reject(r) \/ Finish(r) \/ Catch(r)
      PROVE  TypeOK'
  <2>1. req[r].pc # "idle"
    BY <1>8 DEF Reject, Finish, Catch, At
  <2>2. req' \in [Requests -> Request \cup { Idle }]
    <3>1. NonFatal(req[r].ev) \in BOOLEAN /\ "alert" \in PC
      BY DEF NonFatal, PC
    <3>2. QED
      BY <1>8, <2>1, <3>1, MoveType DEF Reject, Finish, Catch
  <2>3. PICK s \in { "failed", "processed" } : SetEventStatus(req[r].ev, s)
    BY <1>8 DEF Reject, Finish, Catch
  <2>4. eventLog' \in [EventIds -> { "absent", "accepted", "processed", "failed", "dead_letter" }]
    BY <2>3 DEF SetEventStatus
  <2>5. QED
    BY <1>8, <2>2, <2>4 DEF Reject, Finish, Catch, history
<1>9. ASSUME NEW r \in Requests, ReserveAlert(r) \/ SendAlert(r) \/ MarkAlert(r)
      PROVE  TypeOK'
  <2>1. req[r].pc # "idle"
    BY <1>9 DEF ReserveAlert, SendAlert, MarkAlert, At
  <2>2. KeyOf[req[r].ev] \in Keys
    BY <2>1, ActiveRequest, CommandFacts
  <2>3. req' \in [Requests -> Request \cup { Idle }]
    <3>1. "sendAlert" \in PC /\ "markAlert" \in PC
      BY DEF PC
    <3>2. QED
      BY <1>9, <2>1, <3>1, MoveType DEF ReserveAlert, SendAlert, MarkAlert
  <2>4. CASE ReserveAlert(r)
    BY <2>2, <2>3, <2>4 DEF ReserveAlert, history
  <2>5. CASE SendAlert(r)
    BY <2>2, <2>3, <2>5 DEF SendAlert, tables
  <2>6. CASE MarkAlert(r)
    BY <2>2, <2>3, <2>6 DEF MarkAlert, history
  <2>7. QED
    BY <1>9, <2>4, <2>5, <2>6
<1>10. ASSUME NEW r \in Requests, Respond(r) \/ Crash(r)
      PROVE  TypeOK'
  BY <1>10 DEF Respond, Crash, Fault, tables, history
<1>11. ASSUME NEW r \in Requests, Throw(r)
      PROVE  TypeOK'
  <2>1. req[r].pc # "idle"
    BY <1>11 DEF Throw, At
  <2>2. req' \in [Requests -> Request \cup { Idle }]
    <3>1. NonFatal(req[r].ev) \in BOOLEAN /\ "catch" \in PC /\ "markFailed" \in PC
      BY DEF NonFatal, PC
    <3>2. QED
      BY <1>11, <2>1, <3>1, MoveType DEF Throw
  <2>3. QED
    BY <1>11, <2>2 DEF Throw, Fault, tables, history
<1>12. CASE UNCHANGED vars
  BY <1>12 DEF vars
<1>13. QED
  BY <1>1, <1>2, <1>3, <1>4, <1>5, <1>6, <1>7, <1>8, <1>9, <1>10, <1>11, <1>12 DEF Next, Step

-----------------------------------------------------------------------------
(* What was executed stays executed.                                       *)

LEMMA AppliedGrows ==
  ASSUME TypeOK, RequestsInv, [Next]_vars
  PROVE  /\ \A k \in CommandKeys : applied[k] > 0 => applied'[k] > 0
         /\ \A e \in EventIds : \A i \in 1 .. NumCommands(e) : Applied(e, i) => Applied(e, i)'
         /\ \A e \in EventIds : AllApplied(e) => AllApplied(e)'
<1>1. applied' = applied \/ \E r \in Requests : Execute(r)
  BY DEF Next, Step, vars, tables, history, Deliver, Submit, Replay, DeadLetterEvent,
         DeadLetterCommand, Record, Reject, Enqueue, Ack, MarkFailed, Finish, ReserveAlert,
         SendAlert, MarkAlert, Catch, Respond, Throw, Crash
<1>2. \A k \in CommandKeys : applied[k] > 0 => applied'[k] > 0
  BY <1>1 DEF TypeOK, Execute
<1>3. \A e \in EventIds : \A i \in 1 .. NumCommands(e) : Applied(e, i) => Applied(e, i)'
  BY <1>2, CommandFacts DEF Applied
<1>4. QED
  BY <1>2, <1>3 DEF AllApplied

(* A request that did not move keeps what it knows.                        *)
LEMMA RequestInvKept ==
  ASSUME TypeOK, RequestsInv, [Next]_vars, NEW q \in Request, RequestInv(q)
  PROVE  RequestInv(q)'
<1>1. q.ev \in EventIds /\ q.idx \in Nat
  BY DEF Request
<1>2. PastIsApplied(q) => PastIsApplied(q)'
  BY <1>1, AppliedGrows, CommandFacts DEF PastIsApplied
<1>3. AllApplied(q.ev) => AllApplied(q.ev)'
  BY <1>1, AppliedGrows
<1>4. q.idx \in 1 .. NumCommands(q.ev) /\ Applied(q.ev, q.idx) => Applied(q.ev, q.idx)'
  BY <1>1, AppliedGrows
<1>5. q.pc = "ack" => q.idx \in 1 .. NumCommands(q.ev)
  BY <1>1, CommandFacts DEF RequestInv, InLoop
<1>6. QED
  BY <1>2, <1>3, <1>4, <1>5 DEF RequestInv

(* So only the request that moved has to be looked at.                     *)
LEMMA OnlyTheMover ==
  ASSUME TypeOK, RequestsInv, [Next]_vars, NEW r \in Requests,
         \A o \in Requests : o # r => req'[o] = req[o],
         req'[r] = Idle \/ RequestInv(req[r])'
  PROVE  RequestsInv'
<1> SUFFICES ASSUME NEW o \in Requests, req'[o] # Idle PROVE RequestInv(req[o])'
  BY DEF RequestsInv
<1>1. CASE o = r
  BY <1>1
<1>2. CASE o # r
  <2>1. req'[o] = req[o] /\ req[o] \in Request /\ RequestInv(req[o])
    BY <1>2 DEF TypeOK, RequestsInv
  <2> DEFINE q == req[o]
  <2>2. \A x \in Request : RequestInv(x) => RequestInv(x)'
    BY RequestInvKept
  <2>3. QED
    BY <2>1, <2>2
<1>3. QED
  BY <1>1, <1>2

(* What a move changes of the request, and of nobody else.                 *)
LEMMA MoveFields ==
  ASSUME TypeOK, NEW r \in Requests, req[r].pc # "idle"
  PROVE  /\ \A p : Goto(r, p) =>
              /\ req'[r] = [req[r] EXCEPT !.pc = p]
              /\ \A o \in Requests : o # r => req'[o] = req[o]
         /\ \A ok : Answer(r, ok) =>
              /\ req'[r] = [req[r] EXCEPT !.pc = "respond", !.ok = ok]
              /\ \A o \in Requests : o # r => req'[o] = req[o]
         /\ \A d : NextCommand(r, d) =>
              /\ req'[r] = [req[r] EXCEPT !.idx = req[r].idx + 1, !.deferred = d,
                                          !.pc = LoopAt(req[r].ev, req[r].idx + 1)]
              /\ \A o \in Requests : o # r => req'[o] = req[o]
BY DEF TypeOK, Goto, Answer, NextCommand

-----------------------------------------------------------------------------
(* Every step of a request preserves what requests know.                   *)

LEMMA RequestsNext ==
  ASSUME TypeOK, AckedIsApplied, RequestsInv, [Next]_vars
  PROVE  RequestsInv'
<1>1. ASSUME NEW r \in Requests, NEW e \in EventIds, Deliver(r, e) \/ Submit(r, e) \/ Replay(r, e)
      PROVE  RequestsInv'
  <2>1. PICK o \in { "sender", "local", "manager" } :
          Begin(r, e, o) /\ (o = "sender" => e \notin LocalEvents /\ e \notin InvalidContract)
    BY <1>1 DEF Deliver, Submit, Replay
  <2> DEFINE q == [ pc |-> "record", ev |-> e, origin |-> o, idx |-> 1,
                    attempt |-> 0, deferred |-> FALSE, ok |-> FALSE ]
  <2>2. req'[r] = q /\ \A x \in Requests : x # r => req'[x] = req[x]
    BY <2>1 DEF Begin, TypeOK
  <2>3. RequestInv(req[r])'
    BY <2>1, <2>2 DEF RequestInv, InLoop
  <2>4. QED
    BY <2>2, <2>3, OnlyTheMover
<1>2. ASSUME NEW r \in Requests, Step(r) \/ Throw(r), req[r].pc # "idle"
      PROVE  RequestsInv'
  <2>1. PICK q \in Request : q = req[r]
    BY <1>2, ActiveRequest
  <2> DEFINE e == q.ev
             i == q.idx
  <2>2. /\ RequestInv(q)
        /\ e \in EventIds /\ i \in Nat /\ NumCommands(e) \in Nat
        /\ q.deferred \in BOOLEAN
    BY <1>2, <2>1, CommandFacts DEF RequestsInv, Idle, Request
  <2>3. /\ \A j \in 1 .. NumCommands(e) : Applied(e, j) => Applied(e, j)'
        /\ AllApplied(e) => AllApplied(e)'
    BY <2>2, AppliedGrows
  <2> DEFINE PastApplied == ~q.deferred => \A j \in 1 .. i - 1 : j <= NumCommands(e) => Applied(e, j)'
  <2>30. PastIsApplied(q) => PastApplied
    BY <2>2, <2>3 DEF PastIsApplied
  \* Going on with the loop is sound when this command was executed or deferred.
  <2>4. ASSUME NEW d \in BOOLEAN, NextCommand(r, d), PastApplied,
               \/ d = q.deferred /\ (i <= NumCommands(e) => Applied(e, i)')
               \/ d = TRUE /\ NonFatal(e)
        PROVE  RequestsInv'
    <3> DEFINE n == [q EXCEPT !.idx = i + 1, !.deferred = d, !.pc = LoopAt(e, i + 1)]
    <3>1. req'[r] = n /\ \A o \in Requests : o # r => req'[o] = req[o]
      BY <1>2, <2>1, <2>4, MoveFields, ZenonT(60)
    <3>2. /\ n.origin = q.origin /\ n.ev = e /\ n.idx = i + 1 /\ n.deferred = d
          /\ n.pc = IF i + 1 <= NumCommands(e) THEN "enqueue" ELSE "finish"
      BY <2>1 DEF Request, LoopAt
    <3>3. ~d => \A j \in 1 .. i : j <= NumCommands(e) => Applied(e, j)'
      BY <2>2, <2>4
    <3>4. RequestInv(req[r])'
      BY <2>2, <2>4, <3>1, <3>2, <3>3 DEF RequestInv, InLoop, PastIsApplied
    <3>5. QED
      BY <3>1, <3>4, OnlyTheMover
  \* An answer is sound when it is not 2xx, may be deferred, or all is in.
  <2>5. ASSUME NEW ok \in BOOLEAN, Answer(r, ok),
               ok => NonFatal(e) \/ e \in InvalidContract \/ AllApplied(e)'
        PROVE  RequestsInv'
    <3> DEFINE n == [q EXCEPT !.pc = "respond", !.ok = ok]
    <3>1. req'[r] = n /\ \A o \in Requests : o # r => req'[o] = req[o]
      BY <1>2, <2>1, <2>5, MoveFields
    <3>2. /\ n.origin = q.origin /\ n.ev = e /\ n.idx = i /\ n.deferred = q.deferred
          /\ n.pc = "respond" /\ n.ok = ok
      BY <2>1 DEF Request
    <3>3. RequestInv(req[r])'
      BY <2>2, <2>5, <3>1, <3>2 DEF RequestInv, InLoop
    <3>4. QED
      BY <3>1, <3>3, OnlyTheMover
  \* Moving to p needs what the invariant says of p.
  <2>6. ASSUME NEW p \in PC \ { "record", "respond" }, Goto(r, p),
               p = "reject" => e \in InvalidContract,
               p \in InLoop => i <= NumCommands(e) /\ PastApplied,
               p = "ack" => Applied(e, i)',
               p = "finish" => i > NumCommands(e) /\ PastApplied,
               p \in { "alert", "sendAlert", "markAlert" } => AllApplied(e)' /\ LeadAlert(e)
        PROVE  RequestsInv'
    <3> DEFINE n == [q EXCEPT !.pc = p]
    <3>1. req'[r] = n /\ \A o \in Requests : o # r => req'[o] = req[o]
      BY <1>2, <2>1, <2>6, MoveFields
    <3>2. n.origin = q.origin /\ n.ev = e /\ n.idx = i /\ n.deferred = q.deferred /\ n.pc = p
      BY <2>1 DEF Request
    <3>3. RequestInv(req[r])'
      BY <2>2, <2>6, <3>1, <3>2 DEF RequestInv, PastIsApplied
    <3>4. QED
      BY <3>1, <3>3, OnlyTheMover
  <2>7. CASE Record(r)
    <3>1. q.pc = "record" /\ i = 1 /\ PastApplied
      BY <2>1, <2>2, <2>7 DEF Record, At, RequestInv
    <3>2. CASE e \in InvalidContract
      <4>1. Goto(r, "reject")
        BY <2>1, <2>7, <3>2 DEF Record
      <4>2. QED
        BY <2>6, <3>2, <4>1 DEF PC, InLoop
    <3>3. CASE e \notin InvalidContract
      <4>1. Goto(r, LoopAt(e, 1))
        BY <2>1, <2>7, <3>3 DEF Record
      <4>2. CASE 1 <= NumCommands(e)
        <5>1. Goto(r, "enqueue")
          BY <4>1, <4>2 DEF LoopAt
        <5>2. QED
          BY <2>6, <3>1, <4>2, <5>1 DEF PC, InLoop
      <4>3. CASE ~(1 <= NumCommands(e))
        <5>1. Goto(r, "finish")
          BY <4>1, <4>3 DEF LoopAt
        <5>2. QED
          BY <2>2, <2>6, <3>1, <4>3, <5>1 DEF PC, InLoop
      <4>4. QED
        BY <4>2, <4>3
    <3>4. QED
      BY <3>2, <3>3
  <2>8. CASE Reject(r)
    BY <2>1, <2>2, <2>5, <2>8 DEF Reject, At, RequestInv
  <2>9. CASE Enqueue(r)
    <3>1. i <= NumCommands(e) /\ PastIsApplied(q) /\ PastApplied
      BY <2>1, <2>2, <2>30, <2>9 DEF Enqueue, At, RequestInv, InLoop
    <3>2. CommandOf(r) = CommandKey(e, i) /\ CommandKey(e, i) \in CommandKeys
      BY <2>1, <2>2, <3>1, CommandFacts DEF CommandOf, RequestInv
    <3>3. CASE commandLog[CommandOf(r)].status = "acked"
      <4>1. NextCommand(r, q.deferred)
        BY <2>1, <2>9, <3>3 DEF Enqueue
      <4>2. Applied(e, i)
        BY <3>2, <3>3 DEF AckedIsApplied, Applied
      <4>3. Applied(e, i)'
        BY <2>2, <2>3, <3>1, <4>2 DEF RequestInv
      <4>4. QED
        BY <2>2, <2>4, <3>1, <4>1, <4>3
    <3>4. CASE commandLog[CommandOf(r)].status # "acked"
      <4>1. PICK a : req' = [req EXCEPT ![r].pc = "execute", ![r].attempt = a]
        BY <2>9, <3>4 DEF Enqueue
      <4> DEFINE n == [q EXCEPT !.pc = "execute", !.attempt = a]
      <4>2. req'[r] = n /\ \A o \in Requests : o # r => req'[o] = req[o]
        BY <2>1, <4>1 DEF TypeOK
      <4>3. /\ n.origin = q.origin /\ n.ev = e /\ n.idx = i /\ n.deferred = q.deferred
            /\ n.pc = "execute"
        BY <2>1 DEF Request
      <4>4. RequestInv(req[r])'
        BY <2>2, <3>1, <4>2, <4>3 DEF RequestInv, PastIsApplied, InLoop
      <4>5. QED
        BY <4>2, <4>4, OnlyTheMover
    <3>5. QED
      BY <3>3, <3>4
  <2>10. CASE Execute(r)
    <3>1. i <= NumCommands(e) /\ PastApplied
      BY <2>1, <2>2, <2>30, <2>10 DEF Execute, At, RequestInv, InLoop
    <3>2. CommandOf(r) = CommandKey(e, i) /\ CommandKey(e, i) \in CommandKeys
      BY <2>1, <2>2, <3>1, CommandFacts DEF CommandOf, RequestInv
    <3>3. Applied(e, i)'
      BY <2>10, <3>2 DEF Execute, Applied, TypeOK
    <3>4. QED
      BY <2>6, <2>10, <3>1, <3>3 DEF Execute, PC
  <2>11. CASE Ack(r)
    <3>1. i <= NumCommands(e) /\ PastApplied /\ Applied(e, i)
      BY <2>1, <2>2, <2>30, <2>11 DEF Ack, At, RequestInv, InLoop
    <3>2. Applied(e, i)' /\ NextCommand(r, q.deferred)
      BY <2>1, <2>2, <2>3, <2>11, <3>1 DEF Ack, RequestInv
    <3>3. QED
      BY <2>2, <2>4, <3>1, <3>2
  <2>12. CASE MarkFailed(r)
    <3>1. i <= NumCommands(e) /\ PastApplied
      BY <2>1, <2>2, <2>30, <2>12 DEF MarkFailed, At, RequestInv, InLoop
    <3>2. CASE NonFatal(e)
      BY <2>1, <2>4, <2>12, <3>1, <3>2 DEF MarkFailed
    <3>3. CASE ~NonFatal(e)
      BY <2>1, <2>6, <2>12, <3>3 DEF MarkFailed, PC, InLoop
    <3>4. QED
      BY <3>2, <3>3
  <2>13. CASE Finish(r)
    <3>1. i > NumCommands(e) /\ PastIsApplied(q)
      BY <2>1, <2>2, <2>13 DEF Finish, At, RequestInv
    <3>2. ~q.deferred => AllApplied(e)'
      BY <2>2, <2>3, <3>1 DEF PastIsApplied, AllApplied
    <3>3. CASE ~q.deferred /\ LeadAlert(e)
      <4>1. Goto(r, "alert")
        BY <2>1, <2>13, <3>3 DEF Finish
      <4>2. QED
        BY <2>6, <3>2, <3>3, <4>1 DEF PC, InLoop
    <3>4. CASE ~(~q.deferred /\ LeadAlert(e))
      <4>1. Answer(r, TRUE)
        BY <2>1, <2>13, <3>4 DEF Finish
      <4>2. q.deferred => NonFatal(e)
        BY <2>2 DEF RequestInv
      <4>3. QED
        BY <2>2, <2>5, <3>2, <4>1, <4>2
    <3>5. QED
      BY <3>3, <3>4
  \* The alert steps keep AllApplied, whatever becomes of the message.
  <2>14. ASSUME q.pc \in { "alert", "sendAlert", "markAlert" }
         PROVE  LeadAlert(e) /\ AllApplied(e)'
    BY <2>2, <2>3, <2>14 DEF RequestInv
  <2>15. CASE ReserveAlert(r)
    <3>1. LeadAlert(e) /\ AllApplied(e)'
      BY <2>1, <2>14, <2>15 DEF ReserveAlert, At
    <3>2. Goto(r, "sendAlert") \/ Answer(r, TRUE)
      BY <2>15 DEF ReserveAlert
    <3>3. QED
      BY <2>5, <2>6, <3>1, <3>2 DEF PC, InLoop
  <2>16. CASE SendAlert(r)
    <3>1. LeadAlert(e) /\ AllApplied(e)' /\ Goto(r, "markAlert")
      BY <2>1, <2>14, <2>16 DEF SendAlert, At
    <3>2. QED
      BY <2>6, <3>1 DEF PC, InLoop
  <2>17. CASE MarkAlert(r)
    <3>1. AllApplied(e)' /\ Answer(r, TRUE)
      BY <2>1, <2>14, <2>17 DEF MarkAlert, At
    <3>2. QED
      BY <2>5, <3>1
  <2>18. CASE Catch(r)
    <3>1. Answer(r, NonFatal(e)) /\ NonFatal(e) \in BOOLEAN
      BY <2>1, <2>18 DEF Catch, NonFatal
    <3>2. QED
      BY <2>5, <3>1
  <2>19. CASE Throw(r)
    <3>1. CASE Goto(r, "catch")
      BY <2>6, <3>1 DEF PC, InLoop
    <3>2. CASE q.pc \in { "execute", "ack" } /\ Goto(r, "markFailed")
      <4>1. i <= NumCommands(e) /\ PastApplied
        BY <2>2, <2>30, <3>2 DEF RequestInv, InLoop
      <4>2. QED
        BY <2>6, <3>2, <4>1 DEF PC, InLoop
    <3>3. CASE q.pc \in { "alert", "sendAlert", "markAlert" } /\ Answer(r, TRUE)
      BY <2>5, <2>14, <3>3
    <3>4. CASE Answer(r, NonFatal(e))
      <4>1. NonFatal(e) \in BOOLEAN
        BY DEF NonFatal
      <4>2. QED
        BY <2>5, <3>4, <4>1
    <3>5. QED
      BY <2>1, <2>19, <3>1, <3>2, <3>3, <3>4 DEF Throw, At
  <2>20. CASE Respond(r)
    BY <2>20, OnlyTheMover DEF Respond, TypeOK
  <2>21. QED
    BY <1>2, <2>7, <2>8, <2>9, <2>10, <2>11, <2>12, <2>13, <2>15, <2>16, <2>17, <2>18,
       <2>19, <2>20 DEF Step
<1>3. ASSUME UNCHANGED req
      PROVE  RequestsInv'
  <2> SUFFICES ASSUME NEW r \in Requests, req'[r] # Idle PROVE RequestInv(req[r])'
    BY DEF RequestsInv
  <2>1. PICK q \in Request : q = req[r]
    BY <1>3 DEF TypeOK
  <2>2. RequestInv(q)'
    BY <1>3, <2>1, RequestInvKept DEF RequestsInv
  <2>3. QED
    BY <1>3, <2>1, <2>2
<1>4. ASSUME NEW r \in Requests, Crash(r)
      PROVE  RequestsInv'
  BY <1>4, OnlyTheMover DEF Crash, TypeOK
<1>5. ASSUME NEW r \in Requests, Step(r) \/ Throw(r)
      PROVE  req[r].pc # "idle"
  BY <1>5 DEF Step, Throw, At, Record, Reject, Enqueue, Execute, Ack, MarkFailed, Finish,
              ReserveAlert, SendAlert, MarkAlert, Catch, Respond
<1>6. QED
  BY <1>1, <1>2, <1>3, <1>4, <1>5 DEF Next, vars, DeadLetterEvent, DeadLetterCommand
-----------------------------------------------------------------------------
(* The tables are backed by executions, step by step.                      *)

LEMMA AckedNext ==
  ASSUME TypeOK, RequestsInv, AckedIsApplied, [Next]_vars
  PROVE  AckedIsApplied'
<1> SUFFICES ASSUME NEW k \in CommandKeys, commandLog'[k].status = "acked"
             PROVE  applied'[k] > 0
  BY DEF AckedIsApplied
<1>1. CASE commandLog[k].status = "acked"
  BY <1>1, AppliedGrows DEF AckedIsApplied
<1>2. CASE \E r \in Requests : Ack(r) /\ CommandOf(r) = k
  <2>1. PICK r \in Requests : Ack(r) /\ CommandOf(r) = k
    BY <1>2
  <2>2. PICK q \in Request : q = req[r]
    BY <2>1, ActiveRequest DEF Ack, At
  <2>3. RequestInv(q) /\ q.pc = "ack"
    BY <2>1, <2>2 DEF RequestsInv, Ack, At, Idle
  <2>4. Applied(q.ev, q.idx) /\ k = CommandKey(q.ev, q.idx)
    BY <2>1, <2>2, <2>3 DEF RequestInv, CommandOf
  <2>5. QED
    BY <2>4, AppliedGrows DEF Applied
<1>3. commandLog[k].status # "acked" =>
        \/ commandLog' = commandLog
        \/ \E r \in Requests : Ack(r) /\ CommandOf(r) = k
  <2>1. ASSUME NEW r \in Requests, Enqueue(r), commandLog[k].status # "acked"
        PROVE  FALSE
    BY <2>1 DEF Enqueue, TypeOK
  <2>2. ASSUME NEW r \in Requests, MarkFailed(r), commandLog[k].status # "acked"
        PROVE  FALSE
    BY <2>2 DEF MarkFailed, SetCommandStatus, TypeOK
  <2>3. ASSUME NEW c \in CommandKeys, DeadLetterCommand(c), commandLog[k].status # "acked"
        PROVE  FALSE
    BY <2>3 DEF DeadLetterCommand, TypeOK
  <2>4. ASSUME NEW r \in Requests, Ack(r), commandLog[k].status # "acked"
        PROVE  CommandOf(r) = k
    BY <2>4 DEF Ack, SetCommandStatus, TypeOK
  <2>5. QED
    BY <2>1, <2>2, <2>3, <2>4
       DEF Next, Step, vars, tables, Deliver, Submit, Replay, DeadLetterEvent, Record, Reject,
           Execute, Finish, ReserveAlert, SendAlert, MarkAlert, Catch, Respond, Throw, Crash
<1>4. QED
  BY <1>1, <1>2, <1>3

LEMMA ProcessedNext ==
  ASSUME TypeOK, RequestsInv, ProcessedIsApplied, [Next]_vars
  PROVE  ProcessedIsApplied'
<1> SUFFICES ASSUME NEW e \in EventIds, eventLog'[e] = "processed"
             PROVE  AllApplied(e)'
  BY DEF ProcessedIsApplied
<1>1. CASE eventLog[e] = "processed"
  BY <1>1, AppliedGrows DEF ProcessedIsApplied
<1>2. CASE \E r \in Requests : Finish(r) /\ req[r].ev = e /\ ~req[r].deferred
  <2>1. PICK r \in Requests : Finish(r) /\ req[r].ev = e /\ ~req[r].deferred
    BY <1>2
  <2>2. PICK q \in Request : q = req[r]
    BY <2>1, ActiveRequest DEF Finish, At
  <2>3. RequestInv(q) /\ q.pc = "finish" /\ q.ev = e /\ ~q.deferred
    BY <2>1, <2>2 DEF RequestsInv, Finish, At, Idle
  <2>4. NumCommands(e) \in Nat /\ q.idx \in Nat
    BY CommandFacts DEF Request
  <2>5. AllApplied(e)
    BY <2>3, <2>4 DEF RequestInv, PastIsApplied, AllApplied
  <2>6. QED
    BY <2>5, AppliedGrows
<1>3. eventLog[e] # "processed" =>
        \/ eventLog' = eventLog
        \/ \E r \in Requests : Finish(r) /\ req[r].ev = e /\ ~req[r].deferred
  <2>1. ASSUME NEW r \in Requests, Record(r), eventLog[e] # "processed"
        PROVE  eventLog' = eventLog
    BY <2>1 DEF Record, TypeOK
  <2>2. ASSUME NEW r \in Requests, Reject(r) \/ Catch(r), eventLog[e] # "processed"
        PROVE  FALSE
    BY <2>2 DEF Reject, Catch, SetEventStatus, TypeOK
  <2>3. ASSUME NEW f \in EventIds, DeadLetterEvent(f), eventLog[e] # "processed"
        PROVE  FALSE
    BY <2>3 DEF DeadLetterEvent, TypeOK
  <2>4. ASSUME NEW r \in Requests, Finish(r), eventLog[e] # "processed"
        PROVE  req[r].ev = e /\ ~req[r].deferred
    BY <2>4 DEF Finish, SetEventStatus, TypeOK
  <2>5. QED
    BY <2>1, <2>2, <2>3, <2>4
       DEF Next, Step, vars, tables, Deliver, Submit, Replay, DeadLetterCommand, Enqueue,
           Execute, Ack, MarkFailed, ReserveAlert, SendAlert, MarkAlert, Respond, Throw, Crash
<1>4. QED
  BY <1>1, <1>2, <1>3

LEMMA DeliveredNext ==
  ASSUME TypeOK, RequestsInv, DeliveredIsApplied, [Next]_vars
  PROVE  DeliveredIsApplied'
<1> SUFFICES ASSUME NEW e \in EventIds \ LocalEvents, sender'[e] = "delivered", ~NonFatal(e)
             PROVE  AllApplied(e)'
  BY DEF DeliveredIsApplied, NonFatal
<1>1. CASE sender[e] = "delivered"
  BY <1>1, AppliedGrows DEF DeliveredIsApplied
<1>2. ASSUME NEW r \in Requests, Respond(r), req[r].origin = "sender", req[r].ok, req[r].ev = e
      PROVE  AllApplied(e)'
  <2>1. PICK q \in Request : q = req[r]
    BY <1>2, ActiveRequest DEF Respond, At
  <2>2. RequestInv(q) /\ q.pc = "respond" /\ q.ok /\ q.origin = "sender" /\ q.ev = e
    BY <1>2, <2>1 DEF RequestsInv, Respond, At, Idle
  <2>3. AllApplied(e)
    BY <2>2 DEF RequestInv
  <2>4. QED
    BY <2>3, AppliedGrows
<1>3. sender[e] # "delivered" =>
        \/ sender' = sender
        \/ \E r \in Requests :
             Respond(r) /\ req[r].origin = "sender" /\ req[r].ok /\ req[r].ev = e
  <2>1. ASSUME NEW r \in Requests, NEW f \in EventIds, Submit(r, f), sender[e] # "delivered"
        PROVE  FALSE
    BY <2>1 DEF Submit, TypeOK
  <2>2. ASSUME NEW r \in Requests, Respond(r), sender[e] # "delivered", sender' # sender
        PROVE  req[r].origin = "sender" /\ req[r].ok /\ req[r].ev = e
    BY <2>2 DEF Respond, TypeOK
  <2>3. QED
    BY <2>1, <2>2
       DEF Next, Step, vars, tables, Deliver, Replay, DeadLetterEvent, DeadLetterCommand, Record,
           Reject, Enqueue, Execute, Ack, MarkFailed, Finish, ReserveAlert, SendAlert, MarkAlert,
           Catch, Throw, Crash
<1>4. QED
  BY <1>1, <1>2, <1>3

LEMMA AlertIsAppliedNext ==
  ASSUME TypeOK, RequestsInv, AlertIsApplied, [Next]_vars
  PROVE  AlertIsApplied'
<1> SUFFICES ASSUME NEW k \in Keys, alertLog'[k] # "absent"
             PROVE  \E e \in EventIds : KeyOf[e] = k /\ LeadAlert(e) /\ AllApplied(e)'
  BY DEF AlertIsApplied, LeadAlert
<1>1. CASE alertLog[k] # "absent"
  BY <1>1, AppliedGrows DEF AlertIsApplied
<1>2. ASSUME NEW r \in Requests, ReserveAlert(r) \/ MarkAlert(r), KeyOf[req[r].ev] = k
      PROVE  LeadAlert(req[r].ev) /\ AllApplied(req[r].ev) /\ req[r].ev \in EventIds
  <2>0. req[r].pc \in { "alert", "markAlert" }
    BY <1>2 DEF ReserveAlert, MarkAlert, At
  <2>1. PICK q \in Request : q = req[r]
    BY <2>0, ActiveRequest
  <2>2. RequestInv(q) /\ q.pc \in { "alert", "markAlert" }
    BY <2>0, <2>1 DEF RequestsInv, Idle
  <2>3. QED
    BY <2>1, <2>2 DEF RequestInv, Request
<1>3. alertLog[k] = "absent" =>
        \/ alertLog' = alertLog
        \/ \E r \in Requests : (ReserveAlert(r) \/ MarkAlert(r)) /\ KeyOf[req[r].ev] = k
  <2>1. ASSUME NEW r \in Requests, ReserveAlert(r) \/ MarkAlert(r), alertLog' # alertLog,
               alertLog[k] = "absent"
        PROVE  KeyOf[req[r].ev] = k
    BY <2>1 DEF ReserveAlert, MarkAlert, TypeOK
  <2>2. QED
    BY <2>1
       DEF Next, Step, vars, tables, Deliver, Submit, Replay, DeadLetterEvent, DeadLetterCommand,
           Record, Reject, Enqueue, Execute, Ack, MarkFailed, Finish, SendAlert, Catch, Respond,
           Throw, Crash
<1>4. CASE alertLog[k] = "absent"
  <2>1. PICK r \in Requests : (ReserveAlert(r) \/ MarkAlert(r)) /\ KeyOf[req[r].ev] = k
    BY <1>3, <1>4
  <2>2. PICK e \in EventIds : e = req[r].ev
    BY <1>2, <2>1
  <2>3. LeadAlert(e) /\ AllApplied(e) /\ KeyOf[e] = k
    BY <1>2, <2>1, <2>2
  <2>4. QED
    BY <2>3, AppliedGrows
<1>5. QED
  BY <1>1, <1>4

-----------------------------------------------------------------------------
(* The alert is sent once, because its reservation row is inserted once.   *)

LEMMA AlertInvNext ==
  ASSUME TypeOK, AlertInv, [Next]_vars
  PROVE  AlertInv'
<1>1. ASSUME UNCHANGED << alertLog, alertsSent >>,
             \A o \in Requests : At(o, "sendAlert")' => At(o, "sendAlert") /\ req'[o] = req[o]
      PROVE  AlertInv'
  BY <1>1 DEF AlertInv, AlertAtMostOnce, At
<1>2. ASSUME NEW r \in Requests, ReserveAlert(r)
      PROVE  AlertInv'
  <2> DEFINE k == KeyOf[req[r].ev]
  <2>1. req[r].pc # "idle" /\ req[r] \in Request /\ k \in Keys
    BY <1>2, ActiveRequest, CommandFacts DEF ReserveAlert, At
  <2>2. CASE alertLog[k] # "absent"
    <3>1. UNCHANGED << alertLog, alertsSent >> /\ Answer(r, TRUE)
      BY <1>2, <2>2 DEF ReserveAlert, history
    <3>2. \A o \in Requests : At(o, "sendAlert")' => At(o, "sendAlert") /\ req'[o] = req[o]
      BY <2>1, <3>1 DEF Answer, At, TypeOK
    <3>3. QED
      BY <1>1, <3>1, <3>2
  <2>3. CASE alertLog[k] = "absent"
    <3>1. /\ alertLog' = [alertLog EXCEPT ![k] = "pending"]
          /\ alertsSent' = alertsSent
          /\ Goto(r, "sendAlert")
      BY <1>2, <2>3 DEF ReserveAlert, history
    <3>2. /\ req'[r].ev = req[r].ev
          /\ \A o \in Requests : o # r => req'[o] = req[o]
      BY <2>1, <3>1 DEF Goto, TypeOK, Request
    <3>3. \A o \in Requests : At(o, "sendAlert") => KeyOf[req[o].ev] # k
      BY <2>3 DEF AlertInv
    <3>4. \A x \in Keys : alertLog'[x] = "absent" => alertLog[x] = "absent"
      BY <3>1 DEF TypeOK
    <3>5. \A x \in Keys : alertLog[x] # "absent" => alertLog'[x] # "absent"
      BY <3>1 DEF TypeOK
    <3>6. alertLog'[k] # "absent" /\ alertsSent[k] = 0
      BY <2>1, <2>3, <3>1 DEF TypeOK, AlertInv
    <3>7. \A o \in Requests : At(o, "sendAlert") => KeyOf[req[o].ev] \in Keys
      BY ActiveRequest, CommandFacts DEF At
    <3>8. ASSUME NEW o \in Requests, At(o, "sendAlert")'
          PROVE  /\ alertsSent'[KeyOf[req'[o].ev]] = 0
                 /\ alertLog'[KeyOf[req'[o].ev]] # "absent"
                 /\ \A p \in Requests :
                      At(p, "sendAlert")' /\ KeyOf[req'[p].ev] = KeyOf[req'[o].ev] => p = o
      <4>1. CASE o = r
        BY <3>1, <3>2, <3>3, <3>6, <4>1 DEF At
      <4>2. CASE o # r
        <5>1. At(o, "sendAlert") /\ req'[o] = req[o] /\ KeyOf[req[o].ev] # k
          BY <3>2, <3>3, <3>8, <4>2 DEF At
        <5>2. \A p \in Requests : At(p, "sendAlert") /\ KeyOf[req[p].ev] = KeyOf[req[o].ev] => p = o
          BY <5>1 DEF AlertInv
        <5>3. QED
          BY <3>1, <3>2, <3>5, <3>7, <5>1, <5>2 DEF At, AlertInv
      <4>3. QED
        BY <4>1, <4>2
    <3>9. QED
      BY <3>1, <3>4, <3>8 DEF AlertInv, AlertAtMostOnce
  <2>4. QED
    BY <2>2, <2>3
<1>3. ASSUME NEW r \in Requests, SendAlert(r)
      PROVE  AlertInv'
  <2> DEFINE k == KeyOf[req[r].ev]
  <2>1. req[r].pc # "idle" /\ k \in Keys /\ At(r, "sendAlert")
    BY <1>3, ActiveRequest, CommandFacts DEF SendAlert, At
  <2>2. /\ alertsSent' = [alertsSent EXCEPT ![k] = @ + 1]
        /\ alertLog' = alertLog
        /\ Goto(r, "markAlert")
    BY <1>3 DEF SendAlert, tables
  <2>3. alertsSent[k] = 0 /\ alertLog[k] # "absent"
    BY <2>1 DEF AlertInv
  <2>4. /\ \A o \in Requests : o # r => req'[o] = req[o]
        /\ ~At(r, "sendAlert")'
    <3>1. req[r] \in Request
      BY <2>1, ActiveRequest
    <3>2. QED
      BY <2>2, <3>1 DEF Goto, At, TypeOK, Request
  <2>5. \A o \in Requests : o # r /\ At(o, "sendAlert") => KeyOf[req[o].ev] # k /\ KeyOf[req[o].ev] \in Keys
    BY <2>1, ActiveRequest, CommandFacts DEF AlertInv, At
  <2>6. \A x \in Keys : x # k => alertsSent'[x] = alertsSent[x]
    BY <2>2 DEF TypeOK
  <2>7. alertsSent'[k] = 1
    BY <2>1, <2>2, <2>3 DEF TypeOK
  <2>8. AlertAtMostOnce'
    BY <2>6, <2>7 DEF AlertInv, AlertAtMostOnce
  <2>9. \A x \in Keys : alertLog'[x] = "absent" => alertsSent'[x] = 0
    BY <2>2, <2>3, <2>6 DEF AlertInv
  <2>10. ASSUME NEW o \in Requests, At(o, "sendAlert")'
         PROVE  /\ alertsSent'[KeyOf[req'[o].ev]] = 0
                /\ alertLog'[KeyOf[req'[o].ev]] # "absent"
                /\ \A p \in Requests :
                     At(p, "sendAlert")' /\ KeyOf[req'[p].ev] = KeyOf[req'[o].ev] => p = o
    <3>1. o # r /\ req'[o] = req[o] /\ At(o, "sendAlert")
      BY <2>4, <2>10 DEF At
    <3>2. alertsSent[KeyOf[req[o].ev]] = 0 /\ alertLog[KeyOf[req[o].ev]] # "absent"
      BY <3>1 DEF AlertInv
    <3>3. \A p \in Requests : At(p, "sendAlert")' => At(p, "sendAlert") /\ req'[p] = req[p]
      BY <2>4 DEF At
    <3>4. QED
      BY <2>2, <2>5, <2>6, <3>1, <3>2, <3>3 DEF AlertInv
  <2>11. QED
    BY <2>8, <2>9, <2>10 DEF AlertInv
<1>4. ASSUME NEW r \in Requests, MarkAlert(r)
      PROVE  AlertInv'
  <2> DEFINE k == KeyOf[req[r].ev]
  <2>1. req[r].pc # "idle" /\ k \in Keys
    BY <1>4, ActiveRequest, CommandFacts DEF MarkAlert, At
  <2>2. /\ alertsSent' = alertsSent
        /\ Answer(r, TRUE)
        /\ \A x \in Keys : alertLog'[x] = alertLog[x] \/ alertLog'[x] # "absent"
    BY <1>4, <2>1 DEF MarkAlert, history, TypeOK
  <2>3. \A o \in Requests : At(o, "sendAlert")' => At(o, "sendAlert") /\ req'[o] = req[o]
    <3>1. req[r] \in Request
      BY <2>1, ActiveRequest
    <3>2. QED
      BY <2>2, <3>1 DEF Answer, At, TypeOK, Request
  <2>4. \A o \in Requests : At(o, "sendAlert") => KeyOf[req[o].ev] \in Keys
    BY ActiveRequest, CommandFacts DEF At
  <2>5. QED
    BY <2>2, <2>3, <2>4 DEF AlertInv, AlertAtMostOnce, At
<1>5. ASSUME NEW r \in Requests,
             \/ \E e \in EventIds : Deliver(r, e) \/ Submit(r, e) \/ Replay(r, e)
             \/ Respond(r) \/ Crash(r)
      PROVE  AlertInv'
  <2>1. UNCHANGED << alertLog, alertsSent >>
    BY <1>5 DEF Deliver, Submit, Replay, Respond, Crash, tables, history
  <2>2. \A o \in Requests : At(o, "sendAlert")' => At(o, "sendAlert") /\ req'[o] = req[o]
    BY <1>5 DEF Deliver, Submit, Replay, Respond, Crash, Begin, Idle, At, TypeOK
  <2>3. QED
    BY <1>1, <2>1, <2>2
<1>6. ASSUME NEW r \in Requests,
             \/ Record(r) \/ Reject(r) \/ Enqueue(r) \/ Execute(r) \/ Ack(r) \/ MarkFailed(r)
             \/ Finish(r) \/ Catch(r) \/ Throw(r)
      PROVE  AlertInv'
  <2>1. UNCHANGED << alertLog, alertsSent >>
    BY <1>6 DEF Record, Reject, Enqueue, Execute, Ack, MarkFailed, Finish, Catch, Throw,
                tables, history
  <2>2. req[r].pc # "idle"
    BY <1>6 DEF Record, Reject, Enqueue, Execute, Ack, MarkFailed, Finish, Catch, Throw, At
  <2>3. req[r] \in Request
    BY <2>2, ActiveRequest
  <2>4. req'[r].pc # "sendAlert" /\ \A o \in Requests : o # r => req'[o] = req[o]
    <3>1. CASE \E d : NextCommand(r, d)
      BY <2>2, <2>3, <3>1, MoveFields, ZenonT(60) DEF Request, LoopAt
    <3>2. CASE \E ok : Answer(r, ok)
      BY <2>3, <3>2 DEF Answer, TypeOK, Request
    <3>3. CASE \E p : p # "sendAlert" /\ Goto(r, p)
      BY <2>3, <3>3 DEF Goto, TypeOK, Request
    <3>4. CASE Enqueue(r) /\ ~ \E d : NextCommand(r, d)
      BY <2>2, <2>3, <3>4 DEF Enqueue, TypeOK, Request
    <3>5. Record(r) => \E p : p # "sendAlert" /\ Goto(r, p)
      BY DEF Record, LoopAt
    <3>6. QED
      BY <1>6, <3>1, <3>2, <3>3, <3>4, <3>5
         DEF Reject, Execute, Ack, MarkFailed, Finish, Catch, Throw
  <2>5. QED
    BY <1>1, <2>1, <2>4 DEF At
<1>7. CASE UNCHANGED << alertLog, alertsSent, req >>
  BY <1>1, <1>7 DEF At
<1>8. QED
  BY <1>2, <1>3, <1>4, <1>5, <1>6, <1>7
     DEF Next, Step, vars, history, DeadLetterEvent, DeadLetterCommand

-----------------------------------------------------------------------------
(* The inductive invariant and the theorems.                               *)

LEMMA IInvInit == Init => IInv
<1> SUFFICES ASSUME Init PROVE IInv
  OBVIOUS
<1>1. TypeOK
  BY TypeInit
<1>2. \A r \in Requests : req[r] = Idle /\ req[r].pc = "idle"
  BY DEF Init, Idle
<1>3. AckedIsApplied /\ ProcessedIsApplied /\ DeliveredIsApplied /\ AlertIsApplied
  BY DEF Init, AckedIsApplied, ProcessedIsApplied, DeliveredIsApplied, AlertIsApplied
<1>4. RequestsInv /\ AlertInv
  BY <1>2 DEF Init, RequestsInv, AlertInv, AlertAtMostOnce, At
<1>5. QED
  BY <1>1, <1>3, <1>4 DEF IInv

LEMMA IInvNext == IInv /\ [Next]_vars => IInv'
BY TypeNext, RequestsNext, AckedNext, ProcessedNext, DeliveredNext, AlertIsAppliedNext,
   AlertInvNext DEF IInv

LEMMA IInvAlways == Spec => []IInv
BY IInvInit, IInvNext, PTL DEF Spec

(* Every table, request and counter keeps its type.                        *)
THEOREM TypeCorrect == Spec => []TypeOK
<1>1. IInv => TypeOK
  BY DEF IInv
<1>2. QED
  BY <1>1, IInvAlways, PTL

(* The command log never claims an execution that did not happen.          *)
THEOREM AckedCorrect == Spec => []AckedIsApplied
<1>1. IInv => AckedIsApplied
  BY DEF IInv
<1>2. QED
  BY <1>1, IInvAlways, PTL

(* A processed event has had every one of its commands executed.           *)
THEOREM ProcessedCorrect == Spec => []ProcessedIsApplied
<1>1. IInv => ProcessedIsApplied
  BY DEF IInv
<1>2. QED
  BY <1>1, IInvAlways, PTL

(* An envelope the producer may drop was executed: at least once.          *)
THEOREM DeliveredCorrect == Spec => []DeliveredIsApplied
<1>1. IInv => DeliveredIsApplied
  BY DEF IInv
<1>2. QED
  BY <1>1, IInvAlways, PTL

(* The office is told only of what the CRM holds.                          *)
THEOREM AlertCorrect == Spec => []AlertIsApplied
<1>1. IInv => AlertIsApplied
  BY DEF IInv
<1>2. QED
  BY <1>1, IInvAlways, PTL

(* The processor texts the office about a key at most once.                *)
THEOREM AlertOnce == Spec => []AlertAtMostOnce
<1>1. IInv => AlertAtMostOnce
  BY DEF IInv, AlertInv
<1>2. QED
  BY <1>1, IInvAlways, PTL
-----------------------------------------------------------------------------
(* The processor implements the promise: every step of it is a step of     *)
(* PlatformPromise or changes nothing a caller was promised.               *)

Done == { k \in CommandKeys : applied[k] > 0 }
Told == { e \in EventIds \ LocalEvents : sender[e] = "delivered" /\ ~NonFatal(e) }

LEMMA PromiseInit == Init => Promise!Init
<1> SUFFICES ASSUME Init PROVE Promise!Init
  OBVIOUS
<1>1. { k \in CommandKeys : applied[k] > 0 } = {}
  BY DEF Init
<1>2. { e \in EventIds \ LocalEvents : sender[e] = "delivered" /\ ~NonFatal(e) } = {}
  BY DEF Init
<1>3. QED
  BY <1>1, <1>2 DEF Init, Promise!Init

(* The promise reads envelopes as the processor does.                       *)
LEMMA SameVocabulary ==
  ASSUME NEW e
  PROVE  /\ Promise!NonFatal(e) = NonFatal(e)
         /\ Promise!LeadAlert(e) = LeadAlert(e)
         /\ Promise!NumCommands(e) = NumCommands(e)
         /\ \A i : Promise!CommandKey(e, i) = CommandKey(e, i)
         /\ Promise!CommandKeysOf(e) = CommandKeysOf(e)
<1>1. Promise!NonFatal(e) = NonFatal(e)
  BY DEF Promise!NonFatal, NonFatal, Promise!NonFatalTypes, NonFatalTypes
<1>2. Promise!LeadAlert(e) = LeadAlert(e)
  BY DEF Promise!LeadAlert, LeadAlert, Promise!LeadAlertTypes, LeadAlertTypes
<1>3. Promise!CommandsOf(e) = CommandsOf(e)
  BY DEF Promise!CommandsOf, CommandsOf, Promise!DerivedCommands, DerivedCommands
<1>4. Promise!NumCommands(e) = NumCommands(e)
  BY <1>3 DEF Promise!NumCommands, NumCommands
<1>5. \A i : Promise!CommandKey(e, i) = CommandKey(e, i)
  BY <1>3 DEF Promise!CommandKey, CommandKey
<1>6. Promise!CommandKeysOf(e) = CommandKeysOf(e)
  BY <1>4, <1>5 DEF Promise!CommandKeysOf, CommandKeysOf
<1>7. QED
  BY <1>1, <1>2, <1>4, <1>5, <1>6

LEMMA AllAppliedIsDone ==
  ASSUME NEW e \in EventIds, AllApplied(e)
  PROVE  CommandKeysOf(e) \subseteq Done
BY CommandFacts DEF AllApplied, Applied, CommandKeysOf, Done

LEMMA PromiseNext ==
  IInv /\ [Next]_vars => [Promise!Next]_<< Done, Told, alertsSent >>
<1> SUFFICES ASSUME IInv, [Next]_vars, << Done, Told, alertsSent >>' # << Done, Told, alertsSent >>
             PROVE  Promise!Next
  OBVIOUS
<1>0. TypeOK /\ RequestsInv
  BY DEF IInv
<1>1. ASSUME NEW r \in Requests, Execute(r)
      PROVE  Promise!Next
  <2>1. PICK q \in Request : q = req[r]
    BY <1>0, <1>1, ActiveRequest DEF Execute, At
  <2> DEFINE e == q.ev
             i == q.idx
  <2>2. RequestInv(q) /\ q.pc = "execute"
    BY <1>0, <1>1, <2>1 DEF RequestsInv, Execute, At, Idle
  <2>3. /\ e \in EventIds /\ i \in 1 .. NumCommands(e)
        /\ CommandOf(r) = CommandKey(e, i) /\ CommandKey(e, i) \in CommandKeys
    BY <2>1, <2>2, CommandFacts DEF RequestInv, InLoop, CommandOf, Request
  <2>4. Done' = Done \cup { CommandKey(e, i) }
    BY <1>0, <1>1, <2>3 DEF Execute, Done, TypeOK
  <2>5. Told' = Told /\ alertsSent' = alertsSent
    BY <1>1 DEF Execute, Told, NonFatal
  <2>6. NonFatal(e) \/ \A j \in 1 .. i - 1 : CommandKey(e, j) \in Done
    BY <2>2, <2>3, CommandFacts DEF RequestInv, InLoop, PastIsApplied, Applied, Done
  <2>7. Promise!Do(e, i)
    BY <2>4, <2>5, <2>6, SameVocabulary DEF Promise!Do, Done, Told
  <2>8. QED
    BY <2>3, <2>7, SameVocabulary DEF Promise!Next
<1>2. ASSUME NEW r \in Requests, Respond(r), Told' # Told
      PROVE  Promise!Next
  <2>1. PICK q \in Request : q = req[r]
    BY <1>0, <1>2, ActiveRequest DEF Respond, At
  <2> DEFINE e == q.ev
  <2>2. RequestInv(q) /\ q.pc = "respond" /\ e \in EventIds
    BY <1>0, <1>2, <2>1 DEF RequestsInv, Respond, At, Idle, Request
  <2>3. /\ q.origin = "sender" /\ q.ok
        /\ sender' = [sender EXCEPT ![e] = "delivered"]
    BY <1>2, <2>1 DEF Respond, Told, NonFatal
  <2>4. ~NonFatal(e) /\ Told' = Told \cup { e }
    BY <1>0, <1>2, <2>2, <2>3 DEF Told, TypeOK, RequestInv, NonFatal
  <2>5. AllApplied(e)
    BY <2>2, <2>3, <2>4 DEF RequestInv
  <2>6. UNCHANGED << Done, alertsSent >>
    BY <1>2 DEF Respond, history, Done
  <2>7. Promise!Tell(e)
    BY <2>2, <2>4, <2>5, <2>6, AllAppliedIsDone, SameVocabulary DEF Promise!Tell, Done, Told
  <2>8. QED
    BY <2>2, <2>7 DEF Promise!Next
<1>3. ASSUME NEW r \in Requests, SendAlert(r)
      PROVE  Promise!Next
  <2>1. PICK q \in Request : q = req[r]
    BY <1>0, <1>3, ActiveRequest DEF SendAlert, At
  <2> DEFINE e == q.ev
  <2>2. RequestInv(q) /\ q.pc = "sendAlert" /\ e \in EventIds
    BY <1>0, <1>3, <2>1 DEF RequestsInv, SendAlert, At, Idle, Request
  <2>3. AllApplied(e) /\ LeadAlert(e)
    BY <2>2 DEF RequestInv
  <2>4. alertsSent[KeyOf[e]] = 0
    BY <1>3, <2>1 DEF IInv, AlertInv, SendAlert
  <2>5. alertsSent' = [alertsSent EXCEPT ![KeyOf[e]] = 1]
    BY <1>3, <2>1, <2>4 DEF SendAlert
  <2>6. UNCHANGED << Done, Told >>
    BY <1>3 DEF SendAlert, Done, Told, NonFatal
  <2>7. Promise!Text(e)
    BY <2>2, <2>3, <2>4, <2>5, <2>6, AllAppliedIsDone, SameVocabulary DEF Promise!Text, Done, Told
  <2>8. QED
    BY <2>2, <2>7 DEF Promise!Next
<1>4. ASSUME NEW r \in Requests, NEW e \in EventIds, Submit(r, e)
      PROVE  FALSE
  <2>1. Told' = Told
    BY <1>0, <1>4 DEF Submit, Told, TypeOK, NonFatal
  <2>2. UNCHANGED << Done, alertsSent >>
    BY <1>4 DEF Submit, history, Done
  <2>3. QED
    BY <2>1, <2>2
<1>5. ASSUME UNCHANGED << applied, sender >>
      PROVE  UNCHANGED << Done, Told >>
  BY <1>5 DEF Done, Told, NonFatal
<1>6. UNCHANGED << applied, sender, alertsSent >> \/ \E r \in Requests :
        \/ Execute(r) \/ Respond(r) \/ SendAlert(r)
        \/ \E e \in EventIds : Submit(r, e)
  BY DEF Next, Step, vars, history, Deliver, Replay, DeadLetterEvent, DeadLetterCommand,
         Record, Reject, Enqueue, Ack, MarkFailed, Finish, ReserveAlert, MarkAlert, Catch, Throw, Crash
<1>7. ASSUME NEW r \in Requests, Respond(r), Told' = Told
      PROVE  FALSE
  BY <1>7 DEF Respond, history, Done
<1>8. QED
  BY <1>1, <1>2, <1>3, <1>4, <1>5, <1>6, <1>7

(* The processor keeps the promise, for every set of envelopes and any      *)
(* number of requests and failures.                                         *)
THEOREM Implements == Spec => KeepsPromise
<1>1. Init => Promise!Init
  BY PromiseInit
<1>2. IInv /\ [Next]_vars => [Promise!Next]_<< Done, Told, alertsSent >>
  BY PromiseNext
<1>3. QED
  BY <1>1, <1>2, IInvAlways, PTL DEF Spec, KeepsPromise, Promise!Spec, Done, Told

-----------------------------------------------------------------------------
(* Where the row of an event stands.  A request that has come to the loop   *)
(* has found or made a row, and one that is past it has settled it; one for *)
(* an envelope that breaks its contract never comes there.                  *)
AfterLoop == { "alert", "sendAlert", "markAlert" }
Noted(e) == OwnRow(e) => eventLog[e] # "absent"
Closed(e) == OwnRow(e) => Settled(e)

RowInv(q) ==
  /\ q.pc \in InLoop \cup { "finish" } => Noted(q.ev) /\ q.ev \notin InvalidContract
  /\ q.pc \in AfterLoop => Closed(q.ev) /\ q.ev \notin InvalidContract
  /\ q.pc = "respond" /\ q.ok /\ ~NonFatal(q.ev) /\ q.ev \notin InvalidContract => Closed(q.ev)
RowsInv == \A r \in Requests : req[r] # Idle => RowInv(req[r])

\* A row is never removed, and one that is settled never taken back to accepted.
LEMMA RowStays ==
  ASSUME TypeOK, [Next]_vars, NEW e \in EventIds
  PROVE  /\ Noted(e) => Noted(e)'
         /\ Closed(e) => Closed(e)'
<1>1. ASSUME eventLog[e] # "absent" PROVE eventLog'[e] = eventLog[e] \/ Settled(e)'
  <2>1. ASSUME NEW r \in Requests, Record(r) PROVE eventLog'[e] = eventLog[e]
    <3>1. req[r].ev \in EventIds BY <2>1, ActiveRequest DEF Record, At
    <3>2. CASE e = req[r].ev BY <1>1, <2>1, <3>2 DEF Record, RowExists
    <3>3. CASE e # req[r].ev BY <2>1, <3>1, <3>3 DEF Record, TypeOK
    <3> QED BY <3>2, <3>3
  <2>2. ASSUME NEW r \in Requests, Reject(r) \/ Catch(r) \/ Finish(r) PROVE eventLog'[e] = eventLog[e] \/ Settled(e)'
    BY <1>1, <2>2 DEF Reject, Catch, Finish, SetEventStatus, Settled, TypeOK
  <2>3. ASSUME NEW f \in EventIds, DeadLetterEvent(f) PROVE eventLog'[e] = eventLog[e] \/ Settled(e)'
    BY <2>3 DEF DeadLetterEvent, Settled, TypeOK
  <2> QED
    BY <2>1, <2>2, <2>3
       DEF Next, Step, vars, tables, Deliver, Submit, Replay, DeadLetterCommand, Enqueue,
           Execute, Ack, MarkFailed, ReserveAlert, SendAlert, MarkAlert, Respond, Throw, Crash
<1>2. Settled(e) => Settled(e)' BY <1>1 DEF Settled
<1>3. Settled(e)' => eventLog'[e] # "absent" BY DEF Settled
<1> QED BY <1>1, <1>2, <1>3 DEF Noted, Closed, OwnRow

\* So only the request that moved has to be looked at.
LEMMA OnlyTheMoverOfRows ==
  ASSUME TypeOK, RowsInv, [Next]_vars, NEW r \in Requests,
         \A o \in Requests : o # r => req'[o] = req[o],
         req'[r] = Idle \/ RowInv(req[r])'
  PROVE  RowsInv'
<1> SUFFICES ASSUME NEW o \in Requests, o # r, req'[o] # Idle PROVE RowInv(req[o])'
  BY DEF RowsInv
<1>1. req'[o] = req[o] OBVIOUS
<1>2. req[o] \in Request /\ RowInv(req[o]) BY <1>1 DEF TypeOK, RowsInv
<1>3. PICK q \in Request : q = req[o] BY <1>2
<1>4. q.ev \in EventIds /\ RowInv(q) BY <1>2, <1>3 DEF Request
<1>5. RowInv(q)' BY <1>4, RowStays DEF RowInv
<1>6. q' = q /\ req'[o] = q BY <1>1, <1>3
<1> QED BY <1>5, <1>6 DEF RowInv

LEMMA RowsNext ==
  ASSUME TypeOK, RequestsInv, RowsInv, [Next]_vars
  PROVE  RowsInv'
<1>1. ASSUME NEW r \in Requests, NEW e \in EventIds, Deliver(r, e) \/ Submit(r, e) \/ Replay(r, e) PROVE RowsInv'
  <2>1. PICK o \in { "sender", "local", "manager" } : Begin(r, e, o) BY <1>1 DEF Deliver, Submit, Replay
  <2>2. req'[r].pc = "record" /\ \A x \in Requests : x # r => req'[x] = req[x] BY <2>1 DEF Begin, TypeOK
  <2>3. RowInv(req[r])' BY <2>2 DEF RowInv, InLoop, AfterLoop
  <2> QED BY <2>2, <2>3, OnlyTheMoverOfRows
<1>2. ASSUME NEW r \in Requests, Step(r) \/ Throw(r), req[r].pc # "idle" PROVE RowsInv'
  <2>1. req[r] \in Request /\ req[r] # Idle /\ req[r].ev \in EventIds BY <1>2, ActiveRequest
  <2>2. PICK e \in EventIds : e = req[r].ev BY <2>1
  <2>3. RowInv(req[r]) /\ (req[r].pc = "reject" => e \in InvalidContract)
    BY <2>1, <2>2 DEF RowsInv, RequestsInv, RequestInv
  <2>4. (Noted(e) => Noted(e)') /\ (Closed(e) => Closed(e)') BY RowStays
  <2>5. ASSUME NEW p \in PC \ { "respond" }, Goto(r, p),
               p \in InLoop \cup { "finish" } => Noted(e)' /\ e \notin InvalidContract,
               p \in AfterLoop => Closed(e)' /\ e \notin InvalidContract
        PROVE  RowsInv'
    <3>1. req'[r] = [req[r] EXCEPT !.pc = p] /\ \A o \in Requests : o # r => req'[o] = req[o]
      BY <1>2, <2>5, MoveFields
    <3>2. req'[r].pc = p /\ req'[r].ev = e BY <2>1, <2>2, <3>1 DEF Request
    <3>3. RowInv(req[r])' BY <2>5, <3>2 DEF RowInv
    <3> QED BY <3>1, <3>3, OnlyTheMoverOfRows
  <2>6. ASSUME NEW ok \in BOOLEAN, Answer(r, ok), ok /\ ~NonFatal(e) /\ e \notin InvalidContract => Closed(e)'
        PROVE  RowsInv'
    <3>1. req'[r] = [req[r] EXCEPT !.pc = "respond", !.ok = ok] /\ \A o \in Requests : o # r => req'[o] = req[o]
      BY <1>2, <2>6, MoveFields
    <3>2. req'[r].pc = "respond" /\ req'[r].ev = e /\ req'[r].ok = ok BY <2>1, <2>2, <3>1 DEF Request
    <3>3. RowInv(req[r])' BY <2>6, <3>2 DEF RowInv, InLoop, AfterLoop
    <3> QED BY <3>1, <3>3, OnlyTheMoverOfRows
  <2>7. ASSUME NEW d \in BOOLEAN, NextCommand(r, d), Noted(e), e \notin InvalidContract
        PROVE  RowsInv'
    <3>1. /\ req'[r] = [req[r] EXCEPT !.idx = req[r].idx + 1, !.deferred = d, !.pc = LoopAt(req[r].ev, req[r].idx + 1)]
          /\ \A o \in Requests : o # r => req'[o] = req[o]
      BY <1>2, <2>7, MoveFields
    <3>2. req'[r].pc \in { "enqueue", "finish" } /\ req'[r].ev = e BY <2>1, <2>2, <3>1 DEF Request, LoopAt
    <3>3. RowInv(req[r])' BY <2>4, <2>7, <3>2 DEF RowInv, InLoop, AfterLoop
    <3> QED BY <3>1, <3>3, OnlyTheMoverOfRows
  <2>8. req[r].deferred \in BOOLEAN BY <2>1 DEF Request
  <2>9. CASE Record(r)
    <3>1. Noted(e)' BY <2>2, <2>9 DEF Record, RowExists, Noted, OwnRow, TypeOK
    <3>2. PICK p \in { "reject", "enqueue", "finish" } : Goto(r, p) /\ (p # "reject" => e \notin InvalidContract)
      BY <2>2, <2>9 DEF Record, LoopAt
    <3> QED BY <2>5, <3>1, <3>2 DEF PC, InLoop, AfterLoop
  <2>10. CASE Reject(r) BY <2>3, <2>6, <2>10 DEF Reject, At
  <2>11. CASE Enqueue(r)
    <3>1. Noted(e) /\ e \notin InvalidContract BY <2>2, <2>3, <2>11 DEF Enqueue, At, RowInv, InLoop
    <3>2. CASE NextCommand(r, req[r].deferred) BY <2>7, <2>8, <3>1, <3>2
    <3>3. CASE ~NextCommand(r, req[r].deferred)
      <4>1. PICK a : req' = [req EXCEPT ![r].pc = "execute", ![r].attempt = a] BY <2>11, <3>3 DEF Enqueue
      <4>2. req'[r].pc = "execute" /\ req'[r].ev = e BY <2>1, <2>2, <4>1 DEF Request, TypeOK
      <4>3. \A o \in Requests : o # r => req'[o] = req[o] BY <4>1 DEF TypeOK
      <4>4. RowInv(req[r])' BY <2>4, <3>1, <4>2 DEF RowInv, InLoop, AfterLoop
      <4> QED BY <4>3, <4>4, OnlyTheMoverOfRows
    <3> QED BY <3>2, <3>3
  <2>12. CASE Execute(r)
    <3>1. Noted(e)' /\ e \notin InvalidContract BY <2>2, <2>3, <2>4, <2>12 DEF Execute, At, RowInv, InLoop
    <3> QED BY <2>5, <2>12, <3>1 DEF Execute, PC, InLoop, AfterLoop
  <2>13. CASE Ack(r)
    <3>1. Noted(e) /\ e \notin InvalidContract BY <2>2, <2>3, <2>13 DEF Ack, At, RowInv, InLoop
    <3> QED BY <2>7, <2>8, <2>13, <3>1 DEF Ack
  <2>14. CASE MarkFailed(r)
    <3>1. Noted(e) /\ e \notin InvalidContract BY <2>2, <2>3, <2>14 DEF MarkFailed, At, RowInv, InLoop
    <3>2. NextCommand(r, TRUE) \/ Goto(r, "catch") BY <2>14 DEF MarkFailed
    <3> QED BY <2>5, <2>7, <3>1, <3>2 DEF PC, InLoop, AfterLoop
  <2>15. CASE Finish(r)
    <3>1. Noted(e) /\ e \notin InvalidContract BY <2>2, <2>3, <2>15 DEF Finish, At, RowInv
    <3>2. Closed(e)' BY <2>2, <2>15, <3>1 DEF Finish, SetEventStatus, Noted, Closed, OwnRow, Settled, TypeOK
    <3>3. Goto(r, "alert") \/ Answer(r, TRUE) BY <2>15 DEF Finish
    <3> QED BY <2>5, <2>6, <3>1, <3>2, <3>3 DEF PC, InLoop, AfterLoop
  <2>16. CASE ReserveAlert(r) \/ SendAlert(r) \/ MarkAlert(r)
    <3>1. Closed(e)' /\ e \notin InvalidContract
      BY <2>2, <2>3, <2>4, <2>16 DEF ReserveAlert, SendAlert, MarkAlert, At, RowInv, AfterLoop
    <3>2. Goto(r, "sendAlert") \/ Goto(r, "markAlert") \/ Answer(r, TRUE) BY <2>16 DEF ReserveAlert, SendAlert, MarkAlert
    <3> QED BY <2>5, <2>6, <3>1, <3>2 DEF PC, InLoop, AfterLoop
  <2>17. CASE Catch(r)
    <3>1. Answer(r, NonFatal(e)) BY <2>2, <2>17 DEF Catch
    <3>2. NonFatal(e) \in BOOLEAN BY DEF NonFatal
    <3> QED BY <2>6, <3>1, <3>2
  <2>18. CASE Respond(r)
    <3>1. req'[r] = Idle /\ \A o \in Requests : o # r => req'[o] = req[o] BY <2>18 DEF Respond, TypeOK
    <3> QED BY <3>1, OnlyTheMoverOfRows
  <2>19. CASE Throw(r)
    <3>1. CASE Goto(r, "catch") BY <2>5, <3>1 DEF PC, InLoop, AfterLoop
    <3>2. CASE req[r].pc \in { "execute", "ack" } /\ Goto(r, "markFailed")
      <4>1. Noted(e)' /\ e \notin InvalidContract BY <2>2, <2>3, <2>4, <3>2 DEF RowInv, InLoop
      <4> QED BY <2>5, <3>2, <4>1 DEF PC, InLoop, AfterLoop
    <3>3. CASE req[r].pc \in AfterLoop /\ Answer(r, TRUE)
      <4>1. Closed(e)' BY <2>2, <2>3, <2>4, <3>3 DEF RowInv
      <4> QED BY <2>6, <3>3, <4>1
    <3>4. CASE Answer(r, NonFatal(e))
      <4>1. NonFatal(e) \in BOOLEAN BY DEF NonFatal
      <4> QED BY <2>6, <3>4, <4>1
    <3> QED BY <2>2, <2>19, <3>1, <3>2, <3>3, <3>4 DEF Throw, AfterLoop
  <2> QED
    BY <1>2, <2>9, <2>10, <2>11, <2>12, <2>13, <2>14, <2>15, <2>16, <2>17, <2>18, <2>19 DEF Step
<1>3. ASSUME NEW r \in Requests, Crash(r) PROVE RowsInv'
  <2>1. req'[r] = Idle /\ \A o \in Requests : o # r => req'[o] = req[o] BY <1>3 DEF Crash, TypeOK
  <2> QED BY <2>1, OnlyTheMoverOfRows
<1>4. CASE req' = req
  <2> SUFFICES ASSUME NEW o \in Requests, req[o] # Idle PROVE RowInv(req[o])' BY <1>4 DEF RowsInv
  <2>1. req'[o] = req[o] /\ req[o] \in Request /\ RowInv(req[o]) BY <1>4 DEF TypeOK, RowsInv
  <2>2. req[o].ev \in EventIds BY <2>1 DEF Request
  <2> QED BY <2>1, <2>2, RowStays DEF RowInv
<1>5. ASSUME NEW r \in Requests, Step(r) \/ Throw(r) PROVE req[r].pc # "idle"
  BY <1>5 DEF Step, Throw, At, Record, Reject, Enqueue, Execute, Ack, MarkFailed, Finish, ReserveAlert,
              SendAlert, MarkAlert, Catch, Respond
<1> QED
  BY <1>1, <1>2, <1>3, <1>4, <1>5 DEF Next, vars, DeadLetterEvent, DeadLetterCommand

\* Only the request that is answered lets its producer drop the envelope.
LEMMA SettledNext ==
  ASSUME TypeOK, RequestsInv, RowsInv, DeliveredIsSettled, [Next]_vars
  PROVE  DeliveredIsSettled'
<1> SUFFICES ASSUME NEW e \in EventIds \ LocalEvents, sender'[e] = "delivered", ~NonFatal(e), OwnRow(e)
             PROVE  Settled(e)'
  BY DEF DeliveredIsSettled, NonFatal, OwnRow
<1>1. CASE sender[e] = "delivered"
  BY <1>1, RowStays DEF DeliveredIsSettled, Closed, OwnRow
<1>2. ASSUME NEW r \in Requests, Respond(r), req[r].origin = "sender", req[r].ok, req[r].ev = e
      PROVE  Settled(e)'
  <2>1. req[r] # Idle /\ req[r].pc = "respond" BY <1>2 DEF Respond, At, Idle
  <2>2. e \notin InvalidContract BY <1>2, <2>1 DEF RequestsInv, RequestInv
  <2>3. Closed(e) BY <1>2, <2>1, <2>2 DEF RowsInv, RowInv
  <2> QED BY <2>3, RowStays DEF Closed, OwnRow
<1>3. sender[e] # "delivered" =>
        \/ sender' = sender
        \/ \E r \in Requests : Respond(r) /\ req[r].origin = "sender" /\ req[r].ok /\ req[r].ev = e
  <2>1. ASSUME NEW r \in Requests, NEW f \in EventIds, Submit(r, f), sender[e] # "delivered"
        PROVE  FALSE
    BY <2>1 DEF Submit, TypeOK
  <2>2. ASSUME NEW r \in Requests, Respond(r), sender[e] # "delivered", sender' # sender
        PROVE  req[r].origin = "sender" /\ req[r].ok /\ req[r].ev = e
    BY <2>2 DEF Respond, TypeOK
  <2> QED
    BY <2>1, <2>2
       DEF Next, Step, vars, tables, Deliver, Replay, DeadLetterEvent, DeadLetterCommand, Record,
           Reject, Enqueue, Execute, Ack, MarkFailed, Finish, ReserveAlert, SendAlert, MarkAlert,
           Catch, Throw, Crash
<1> QED BY <1>1, <1>2, <1>3

\* A command row is touched by requests in the loop only, and their envelopes are valid:
\* they have keys of their own.
LEMMA InertNext ==
  ASSUME TypeOK, RequestsInv, RowsInv, InvalidIsInert, [Next]_vars
  PROVE  InvalidIsInert'
<1>a. TypeOK' BY TypeNext
<1> SUFFICES ASSUME NEW e \in InvalidContract, \A f \in EventIds \ InvalidContract : KeyOf[f] # KeyOf[e]
             PROVE  /\ \A i \in 1 .. NumCommands(e) :
                         commandLog'[CommandKey(e, i)].status = "absent" /\ ~Applied(e, i)'
                    /\ eventLog'[e] # "processed"
  BY <1>a, EventAssumption DEF InvalidIsInert, TypeOK, NumCommands, CommandKey, CommandsOf
<1>0. e \in EventIds /\ eventLog[e] # "processed" BY EventAssumption DEF InvalidIsInert
<1>1. ASSUME NEW r \in Requests, req[r] # Idle, req[r].pc \in InLoop \cup { "finish" }
      PROVE  req[r].ev # e /\ req[r].ev \in EventIds /\ \A i \in 1 .. NumCommands(e) : CommandKey(e, i) # CommandOf(r)
  <2>1. req[r].ev \notin InvalidContract BY <1>1 DEF RowsInv, RowInv
  <2>2. req[r].ev \in EventIds BY <1>1 DEF TypeOK, Request
  <2>3. KeyOf[req[r].ev] # KeyOf[e] BY <2>1, <2>2
  <2> QED BY <2>1, <2>2, <2>3 DEF CommandOf, CommandKey
<1>2. ASSUME NEW i \in 1 .. NumCommands(e)
      PROVE  commandLog'[CommandKey(e, i)].status = "absent" /\ ~Applied(e, i)'
  <2> DEFINE k == CommandKey(e, i)
  <2>1. k \in CommandKeys BY <1>0, CommandFacts
  <2>2. commandLog[k].status = "absent" /\ ~(applied[k] > 0) BY DEF InvalidIsInert, Applied
  <2> HIDE DEF k
  <2>3. ASSUME NEW r \in Requests, Enqueue(r) \/ Execute(r) \/ Ack(r) \/ MarkFailed(r)
        PROVE  commandLog'[k] = commandLog[k] /\ applied'[k] = applied[k]
    <3>0. req[r].pc \in InLoop BY <2>3 DEF Enqueue, Execute, Ack, MarkFailed, At, InLoop
    <3>1. req[r].pc \in InLoop /\ req[r] # Idle BY <3>0 DEF InLoop, Idle
    <3>2. CommandOf(r) # k BY <1>1, <3>1 DEF k
    <3> QED
      BY <2>1, <2>3, <3>2 DEF Enqueue, Execute, Ack, MarkFailed, SetCommandStatus, history, tables, TypeOK
  <2>4. ASSUME NEW c \in CommandKeys, DeadLetterCommand(c)
        PROVE  commandLog'[k] = commandLog[k] /\ applied'[k] = applied[k]
    BY <2>1, <2>2, <2>4 DEF DeadLetterCommand, history, TypeOK
  <2>5. commandLog'[k] = commandLog[k] /\ applied'[k] = applied[k]
    BY <2>3, <2>4
       DEF Next, Step, vars, tables, history, Deliver, Submit, Replay, DeadLetterEvent, Record, Reject,
           Finish, ReserveAlert, SendAlert, MarkAlert, Catch, Respond, Throw, Crash
  <2> QED BY <2>2, <2>5 DEF k, Applied
<1>3. eventLog'[e] # "processed"
  <2>1. ASSUME NEW r \in Requests, Record(r) \/ Reject(r) \/ Catch(r) PROVE eventLog'[e] # "processed"
    BY <1>0, <2>1 DEF Record, Reject, Catch, SetEventStatus, TypeOK
  <2>2. ASSUME NEW r \in Requests, Finish(r) PROVE eventLog'[e] # "processed"
    <3>1. req[r].pc = "finish" /\ req[r] # Idle BY <2>2 DEF Finish, At, Idle
    <3>2. req[r].ev # e BY <1>1, <3>1
    <3> QED BY <1>0, <2>2, <3>2 DEF Finish, SetEventStatus, TypeOK
  <2>3. ASSUME NEW f \in EventIds, DeadLetterEvent(f) PROVE eventLog'[e] # "processed"
    BY <1>0, <2>3 DEF DeadLetterEvent, TypeOK
  <2> QED
    BY <1>0, <2>1, <2>2, <2>3
       DEF Next, Step, vars, tables, Deliver, Submit, Replay, DeadLetterCommand, Enqueue,
           Execute, Ack, MarkFailed, ReserveAlert, SendAlert, MarkAlert, Respond, Throw, Crash
<1> QED BY <1>2, <1>3

RowIInv == IInv /\ RowsInv /\ DeliveredIsSettled /\ InvalidIsInert

LEMMA RowIInvAlways == Spec => []RowIInv
<1>1. Init => RowIInv
  <2> SUFFICES ASSUME Init PROVE RowIInv OBVIOUS
  <2>1. RowsInv /\ DeliveredIsSettled BY DEF Init, RowsInv, DeliveredIsSettled
  <2>2. InvalidIsInert
    <3>1. \A e \in InvalidContract : e \in EventIds BY EventAssumption
    <3>2. \A e \in EventIds : eventLog[e] = "absent" BY DEF Init
    <3>3. \A k \in CommandKeys : commandLog[k].status = "absent" /\ ~(applied[k] > 0) BY DEF Init
    <3> QED BY <3>1, <3>2, <3>3, CommandFacts DEF InvalidIsInert, Applied
  <2> QED BY <2>1, <2>2, IInvInit DEF RowIInv
<1>2. RowIInv /\ [Next]_vars => RowIInv'
  BY IInvNext, RowsNext, SettledNext, InertNext DEF RowIInv, IInv
<1> QED BY <1>1, <1>2, PTL DEF Spec

(* The row of an envelope its producer may drop is out of the processor's   *)
(* hands: processed, failed or given up on, never stranded at accepted.     *)
THEOREM SettledCorrect == Spec => []DeliveredIsSettled
<1>1. RowIInv => DeliveredIsSettled
  BY DEF RowIInv
<1>2. QED
  BY <1>1, RowIInvAlways, PTL

(* An envelope that breaks its contract executes nothing and marks nothing  *)
(* processed, however often it is submitted and replayed.                   *)
THEOREM InertCorrect == Spec => []InvalidIsInert
<1>1. RowIInv => InvalidIsInert
  BY DEF RowIInv
<1>2. QED
  BY <1>1, RowIInvAlways, PTL

-----------------------------------------------------------------------------
(* The outbox: what its publishers hold.                                   *)

\* A publisher about to mark a row published has had it accepted.
HoldersAccepted ==
  \A p \in Publishers : \A e \in Events :
    PublisherAt(p, "markPublished") /\ Current(p, e) => accepted[e] > 0

\* The attempts a publisher will write for a row have been made.
CopiesHappened ==
  \A p \in Publishers : \A e \in Events :
    /\ pub[p].copy[e] <= posts[e]
    /\ PublisherAt(p, "markPublished") \/ PublisherAt(p, "markFailed")
         => (Current(p, e) => Incr(pub[p].copy[e]) <= posts[e])

OutboxInv ==
  /\ OutboxTypes
  /\ PublishedIsDelivered
  /\ AttemptsHappened
  /\ HoldersAccepted
  /\ CopiesHappened

-----------------------------------------------------------------------------
(* Type correctness.                                                       *)

LEMMA IncrType == \A n \in 0 .. MaxCount : Incr(n) \in 0 .. MaxCount /\ Incr(n) >= n
BY OutboxAssumption DEF Incr

LEMMA IncrMonotone ==
  \A m, n \in 0 .. MaxCount : (m <= n => Incr(m) <= Incr(n)) /\ (n > 0 => Incr(n) > 0)
BY OutboxAssumption DEF Incr

LEMMA IdleType == NotPublishing \in Publisher
BY OutboxAssumption DEF NotPublishing, Publisher, NoCopy, PublisherPC

LEMMA OutboxTypesInit == OutboxInit => OutboxTypes
BY OutboxAssumption, IdleType DEF OutboxInit, OutboxTypes, Statuses

(* Every move of a publisher leaves it a record of the right type.          *)
LEMMA PublisherMoves ==
  ASSUME OutboxTypes, NEW p \in Publishers
  PROVE  /\ \A pc \in PublisherPC : PublisherGoto(p, pc) => pub' \in [Publishers -> Publisher]
         /\ Stop(p) => pub' \in [Publishers -> Publisher]
         /\ \A S \in SUBSET Events : Work(p, S) => pub' \in [Publishers -> Publisher]
         /\ \A e \in Events : NextRow(p, e) => pub' \in [Publishers -> Publisher]
         /\ \A pc \in PublisherPC, S \in SUBSET Events :
              pub' = [pub EXCEPT ![p].pc = pc, ![p].batch = S] => pub' \in [Publishers -> Publisher]
<1>1. pub \in [Publishers -> Publisher] /\ pub[p] \in Publisher
  BY DEF OutboxTypes
<1>2. \A pc \in PublisherPC : [pub[p] EXCEPT !.pc = pc] \in Publisher
  BY <1>1 DEF Publisher
<1>3. \A pc \in PublisherPC, S \in SUBSET Events : [pub[p] EXCEPT !.pc = pc, !.batch = S] \in Publisher
  BY <1>1 DEF Publisher
<1>4. \A S \in SUBSET Events :
        [ pc |-> "post", batch |-> S,
          copy |-> [e \in Events |-> IF e \in S THEN outbox[e].attempts ELSE 0] ] \in Publisher
  BY OutboxAssumption DEF OutboxTypes, Publisher, PublisherPC
<1>5. \A pc \in PublisherPC : PublisherGoto(p, pc) => pub' \in [Publishers -> Publisher]
  BY <1>1, <1>2 DEF PublisherGoto
<1>6. Stop(p) => pub' \in [Publishers -> Publisher]
  BY <1>1, IdleType DEF Stop
<1>7. ASSUME NEW S \in SUBSET Events, Work(p, S) PROVE pub' \in [Publishers -> Publisher]
  BY <1>1, <1>4, <1>7, IdleType DEF Work
<1>8. ASSUME NEW pc \in PublisherPC, NEW S \in SUBSET Events,
             pub' = [pub EXCEPT ![p].pc = pc, ![p].batch = S]
      PROVE  pub' \in [Publishers -> Publisher]
  BY <1>1, <1>3, <1>8
<1>9. ASSUME NEW e \in Events, NextRow(p, e) PROVE pub' \in [Publishers -> Publisher]
  <2>1. "post" \in PublisherPC /\ pub[p].batch \ {e} \in SUBSET Events
    BY <1>1 DEF PublisherPC, Publisher
  <2>2. QED
    BY <1>6, <1>8, <1>9, <2>1 DEF NextRow
<1>10. QED
  BY <1>5, <1>6, <1>7, <1>8, <1>9

LEMMA RowType ==
  ASSUME OutboxTypes, NEW p \in Publishers, NEW e \in Events, NEW s \in Statuses, SetRow(p, e, s)
  PROVE  outbox' \in [Events -> [status : Statuses, attempts : 0 .. MaxCount]]
<1>1. pub[p].copy[e] \in 0 .. MaxCount
  BY DEF OutboxTypes, Publisher
<1>2. Incr(pub[p].copy[e]) \in 0 .. MaxCount
  BY <1>1, IncrType
<1>3. QED
  BY <1>2 DEF OutboxTypes, SetRow

LEMMA FaultType == lapses \in 0 .. MaxOutboxFaults /\ OutboxFault => lapses' \in 0 .. MaxOutboxFaults
BY OutboxAssumption DEF OutboxFault

LEMMA ReturnType ==
  ASSUME OutboxTypes, NEW p \in Publishers, NEW e \in Events, Return(p, e)
  PROVE  returned' \subseteq Events /\ pub' \in [Publishers -> Publisher]
<1>1. "list" \in PublisherPC /\ {} \in SUBSET Events
  BY DEF PublisherPC
<1>2. CASE e \in Quiet
  BY <1>2, PublisherMoves DEF Return, OutboxTypes
<1>3. CASE e \notin Quiet
  <2>1. pub' = [pub EXCEPT ![p].pc = "list", ![p].batch = {}]
    BY <1>3 DEF Return
  <2>2. pub' \in [Publishers -> Publisher]
    BY <1>1, <2>1, PublisherMoves
  <2>3. QED
    BY <2>2 DEF Return, OutboxTypes
<1>4. QED
  BY <1>2, <1>3

LEMMA TypeStep == OutboxTypes /\ [OutboxNext]_outboxVars => OutboxTypes'
<1> SUFFICES ASSUME OutboxTypes, [OutboxNext]_outboxVars PROVE OutboxTypes'
  OBVIOUS
<1> USE DEF OutboxTypes
<1>0. /\ { "list", "post", "markPublished", "markFailed", "enqueue" } \subseteq PublisherPC
      /\ { "pending", "published", "failed", "dead_letter" } \subseteq Statuses
  BY DEF PublisherPC, Statuses
<1>1. ASSUME NEW p \in Publishers, NEW e \in Events, Write(p, e) PROVE OutboxTypes'
  <2>1. "enqueue" \in PublisherPC /\ {e} \in SUBSET Events
    BY <1>0
  <2>2. pub' = [pub EXCEPT ![p].pc = "enqueue", ![p].batch = {e}]
    BY <1>1 DEF Write
  <2>3. pub' \in [Publishers -> Publisher]
    BY <2>1, <2>2, PublisherMoves
  <2>4. QED
    BY <1>1, <2>3 DEF Write
<1>2. ASSUME NEW p \in Publishers, NEW e \in Events, EnqueueEvent(p, e) PROVE OutboxTypes'
  <2>1. outbox' \in [Events -> [status : Statuses, attempts : 0 .. MaxCount]]
    BY <1>0, <1>2, OutboxAssumption DEF EnqueueEvent
  <2>2. QED
    BY <1>2, <2>1, ReturnType DEF EnqueueEvent
<1>3. ASSUME NEW p \in Publishers, NEW e \in Events, EnqueueDrops(p, e) PROVE OutboxTypes'
  BY <1>3, ReturnType, FaultType DEF EnqueueDrops
<1>4. ASSUME NEW p \in Publishers, Sweep(p) PROVE OutboxTypes'
  BY <1>0, <1>4, PublisherMoves DEF Sweep
<1>5. ASSUME NEW p \in Publishers, NEW e \in Events, Republish(p, e) PROVE OutboxTypes'
  <2>1. {e} \in SUBSET Events
    OBVIOUS
  <2>2. QED
    BY <1>5, <2>1, PublisherMoves DEF Republish
<1>6. ASSUME NEW p \in Publishers, List(p) PROVE OutboxTypes'
  <2>1. OldestOf(Ready) \in SUBSET Events
    BY DEF OldestOf, Ready
  <2>2. QED
    BY <1>6, <2>1, PublisherMoves DEF List
<1>7. ASSUME NEW p \in Publishers, NEW e \in Events, Accept(p, e) PROVE OutboxTypes'
  <2>1. posts' \in [Events -> 0 .. MaxCount] /\ accepted' \in [Events -> 0 .. MaxCount]
    BY <1>7, IncrType DEF Accept
  <2>2. pub' \in [Publishers -> Publisher] /\ lapses' \in 0 .. MaxOutboxFaults
    BY <1>0, <1>7, PublisherMoves, FaultType DEF Accept
  <2>3. QED
    BY <1>7, <2>1, <2>2 DEF Accept
<1>8. ASSUME NEW p \in Publishers, NEW e \in Events, Refuse(p, e) PROVE OutboxTypes'
  <2>1. posts' \in [Events -> 0 .. MaxCount]
    BY <1>8, IncrType DEF Refuse
  <2>2. pub' \in [Publishers -> Publisher] /\ lapses' \in 0 .. MaxOutboxFaults
    BY <1>0, <1>8, PublisherMoves, FaultType DEF Refuse
  <2>3. QED
    BY <1>8, <2>1, <2>2 DEF Refuse
<1>9. ASSUME NEW p \in Publishers, NEW e \in Events, MarkPublished(p, e) PROVE OutboxTypes'
  <2>1. CASE SetRow(p, e, "published") /\ NextRow(p, e) /\ UNCHANGED lapses
    BY <1>0, <1>9, <2>1, RowType, PublisherMoves DEF MarkPublished
  <2>2. CASE OutboxFault /\ PublisherGoto(p, "markFailed") /\ UNCHANGED outbox
    BY <1>0, <1>9, <2>2, PublisherMoves, FaultType DEF MarkPublished
  <2>3. QED
    BY <1>9, <2>1, <2>2 DEF MarkPublished
<1>10. ASSUME NEW p \in Publishers, NEW e \in Events, MarkRowFailed(p, e) PROVE OutboxTypes'
  BY <1>0, <1>10, RowType, PublisherMoves DEF MarkRowFailed
<1>11. ASSUME NEW p \in Publishers, Abort(p) PROVE OutboxTypes'
  BY <1>11, PublisherMoves, FaultType DEF Abort
<1>12. ASSUME NEW e \in Events, DeadLetter(e) PROVE OutboxTypes'
  <2>1. outbox' \in [Events -> [status : Statuses, attempts : 0 .. MaxCount]]
    BY <1>0, <1>12 DEF DeadLetter
  <2>2. QED
    BY <1>12, <2>1 DEF DeadLetter
<1>13. CASE UNCHANGED outboxVars
  BY <1>13 DEF outboxVars
<1>14. QED
  BY <1>1, <1>2, <1>3, <1>4, <1>5, <1>6, <1>7, <1>8, <1>9, <1>10, <1>11, <1>12, <1>13
     DEF OutboxNext, PublisherStep

\* The tables, the publishers and the counters keep their types.
THEOREM OutboxTypeCorrect == OutboxSpec => []OutboxTypes
<1>1. QED
  BY OutboxTypesInit, TypeStep, PTL DEF OutboxSpec

-----------------------------------------------------------------------------
(* The invariant.                                                          *)

LEMMA OutboxInvInit == OutboxInit => OutboxInv
<1> SUFFICES ASSUME OutboxInit PROVE OutboxInv
  OBVIOUS
<1>1. OutboxTypes
  BY OutboxTypesInit
<1>2. PublishedIsDelivered /\ AttemptsHappened
  BY DEF OutboxInit, PublishedIsDelivered, AttemptsHappened
<1>3. \A p \in Publishers : \A e \in Events : pub[p].pc = "idle" /\ pub[p].copy[e] = 0
  BY DEF OutboxInit, NotPublishing, NoCopy
<1>4. HoldersAccepted /\ CopiesHappened
  BY <1>3 DEF OutboxInit, HoldersAccepted, CopiesHappened, PublisherAt
<1>5. QED
  BY <1>1, <1>2, <1>4 DEF OutboxInv

(* What one publisher contributes to the invariant.                         *)
HolderInv(p) ==
  \A e \in Events :
    /\ PublisherAt(p, "markPublished") /\ Current(p, e) => accepted[e] > 0
    /\ pub[p].copy[e] <= posts[e]
    /\ (PublisherAt(p, "markPublished") \/ PublisherAt(p, "markFailed")) /\ Current(p, e)
         => Incr(pub[p].copy[e]) <= posts[e]

LEMMA HoldersInv == OutboxInv <=> /\ OutboxTypes /\ PublishedIsDelivered /\ AttemptsHappened
                             /\ \A p \in Publishers : HolderInv(p)
BY DEF OutboxInv, HolderInv, HoldersAccepted, CopiesHappened

(* The history only grows.                                                  *)
LEMMA HistoryGrows ==
  ASSUME OutboxTypes, [OutboxNext]_outboxVars
  PROVE  \A e \in Events : posts[e] <= posts'[e] /\ (accepted[e] > 0 => accepted'[e] > 0)
<1>0. \A e \in Events : posts[e] \in 0 .. MaxCount /\ accepted[e] \in 0 .. MaxCount
  BY DEF OutboxTypes
<1>1. ASSUME NEW p \in Publishers, NEW f \in Events, Accept(p, f)
      PROVE  \A e \in Events : posts[e] <= posts'[e] /\ (accepted[e] > 0 => accepted'[e] > 0)
  BY <1>0, <1>1, IncrType, IncrMonotone DEF Accept, OutboxTypes
<1>2. ASSUME NEW p \in Publishers, NEW f \in Events, Refuse(p, f)
      PROVE  \A e \in Events : posts[e] <= posts'[e] /\ (accepted[e] > 0 => accepted'[e] > 0)
  BY <1>0, <1>2, IncrType, IncrMonotone DEF Refuse, OutboxTypes
<1>3. CASE UNCHANGED << posts, accepted >>
  BY <1>0, <1>3
<1>4. QED
  BY <1>1, <1>2, <1>3
     DEF OutboxNext, PublisherStep, outboxVars, Write, EnqueueEvent, EnqueueDrops, Sweep, Republish, List,
         MarkPublished, MarkRowFailed, Abort, DeadLetter

(* So a publisher that does not move keeps what it contributes.             *)
LEMMA OthersKeep ==
  ASSUME OutboxTypes, [OutboxNext]_outboxVars, NEW p \in Publishers, HolderInv(p), pub'[p] = pub[p]
  PROVE  HolderInv(p)'
<1> SUFFICES ASSUME NEW e \in Events
             PROVE  /\ (PublisherAt(p, "markPublished") /\ Current(p, e) => accepted[e] > 0)'
                    /\ (pub[p].copy[e] <= posts[e])'
                    /\ ((PublisherAt(p, "markPublished") \/ PublisherAt(p, "markFailed")) /\ Current(p, e)
                         => Incr(pub[p].copy[e]) <= posts[e])'
  BY DEF HolderInv
<1>1. posts[e] <= posts'[e] /\ (accepted[e] > 0 => accepted'[e] > 0)
  BY HistoryGrows
<1>2. /\ pub[p].copy[e] \in Nat /\ Incr(pub[p].copy[e]) \in Nat
      /\ posts[e] \in Nat /\ posts'[e] \in Nat
  <2>1. pub[p].copy[e] \in 0 .. MaxCount /\ posts[e] \in 0 .. MaxCount
    BY DEF OutboxTypes, Publisher
  <2>2. posts'[e] \in 0 .. MaxCount
    BY TypeStep DEF OutboxTypes
  <2>3. QED
    BY <2>1, <2>2, IncrType, OutboxAssumption
<1>3. PublisherAt(p, "markPublished")' = PublisherAt(p, "markPublished") /\ PublisherAt(p, "markFailed")' = PublisherAt(p, "markFailed")
  BY DEF PublisherAt
<1>4. Current(p, e)' = Current(p, e)
  BY DEF Current
<1>5. QED
  BY <1>1, <1>2, <1>3, <1>4 DEF HolderInv

(* A publisher that stops or begins a batch has no answer to remember.      *)
LEMMA StoppedHolder ==
  ASSUME OutboxTypes, [OutboxNext]_outboxVars, NEW p \in Publishers, pub'[p] = NotPublishing
  PROVE  HolderInv(p)'
<1>1. \A e \in Events : posts'[e] \in Nat /\ NotPublishing.copy[e] = 0
  BY TypeStep DEF OutboxTypes, NotPublishing, NoCopy
<1>2. QED
  BY <1>1 DEF HolderInv, PublisherAt, NotPublishing

LEMMA MovedHolder ==
  ASSUME OutboxTypes, [OutboxNext]_outboxVars, NEW p \in Publishers, HolderInv(p),
         pub'[p].copy = pub[p].copy, pub'[p].pc \notin { "markPublished", "markFailed" }
  PROVE  HolderInv(p)'
<1> SUFFICES ASSUME NEW e \in Events PROVE pub'[p].copy[e] <= posts'[e]
  BY DEF HolderInv, PublisherAt
<1>1. posts[e] <= posts'[e] /\ pub[p].copy[e] <= posts[e]
  BY HistoryGrows DEF HolderInv
<1>2. pub[p].copy[e] \in Nat /\ posts[e] \in Nat /\ posts'[e] \in Nat
  BY TypeStep DEF OutboxTypes, Publisher
<1>3. QED
  BY <1>1, <1>2

LEMMA WorkingHolder ==
  ASSUME OutboxTypes, AttemptsHappened, [OutboxNext]_outboxVars, NEW p \in Publishers,
         NEW S \in SUBSET Events, Work(p, S)
  PROVE  HolderInv(p)'
<1>1. pub[p] \in Publisher /\ pub \in [Publishers -> Publisher]
  BY DEF OutboxTypes
<1>2. CASE S = {}
  <2>1. pub'[p] = NotPublishing
    BY <1>1, <1>2 DEF Work
  <2>2. QED
    BY <2>1, StoppedHolder
<1>3. CASE S # {}
  <2>1. pub'[p] = [ pc |-> "post", batch |-> S,
                    copy |-> [e \in Events |-> IF e \in S THEN outbox[e].attempts ELSE 0] ]
    BY <1>1, <1>3 DEF Work
  <2> SUFFICES ASSUME NEW e \in Events PROVE pub'[p].copy[e] <= posts'[e]
    BY <2>1 DEF HolderInv, PublisherAt
  <2>2. posts[e] <= posts'[e] /\ outbox[e].attempts <= posts[e]
    BY HistoryGrows DEF AttemptsHappened
  <2>3. outbox[e].attempts \in Nat /\ posts[e] \in Nat /\ posts'[e] \in Nat
    BY TypeStep DEF OutboxTypes
  <2>4. pub'[p].copy[e] = IF e \in S THEN outbox[e].attempts ELSE 0
    BY <2>1
  <2>5. QED
    BY <2>2, <2>3, <2>4
<1>4. QED
  BY <1>2, <1>3

(* Past a POST that counted for e: the copy is behind it by one.            *)
LEMMA PostedHolder ==
  ASSUME OutboxTypes, [OutboxNext]_outboxVars, NEW p \in Publishers, NEW e \in Events, HolderInv(p), Current(p, e),
         posts' = [posts EXCEPT ![e] = Incr(@)],
         NEW pc \in { "markPublished", "markFailed" }, PublisherGoto(p, pc),
         pc = "markPublished" => accepted'[e] > 0
  PROVE  HolderInv(p)'
<1>1. pub[p] \in Publisher /\ pub \in [Publishers -> Publisher] /\ posts \in [Events -> 0 .. MaxCount]
  BY DEF OutboxTypes
<1>2. pub'[p].pc = pc /\ pub'[p].copy = pub[p].copy /\ pub'[p].batch = pub[p].batch
  BY <1>1 DEF PublisherGoto, Publisher
<1>3. \A f \in Events : Current(p, f)' => f = e
  BY <1>2 DEF Current, Events
<1> SUFFICES ASSUME NEW f \in Events
             PROVE  /\ (PublisherAt(p, "markPublished") /\ Current(p, f) => accepted[f] > 0)'
                    /\ (pub[p].copy[f] <= posts[f])'
                    /\ ((PublisherAt(p, "markPublished") \/ PublisherAt(p, "markFailed")) /\ Current(p, f)
                         => Incr(pub[p].copy[f]) <= posts[f])'
  BY DEF HolderInv
<1>4. (PublisherAt(p, "markPublished") /\ Current(p, f) => accepted[f] > 0)'
  BY <1>2, <1>3 DEF PublisherAt
<1>5. pub[p].copy[f] \in 0 .. MaxCount /\ posts[f] \in 0 .. MaxCount /\ posts'[f] \in 0 .. MaxCount
  BY TypeStep DEF OutboxTypes, Publisher
<1>6. pub[p].copy[f] <= posts[f] /\ posts[f] <= posts'[f]
  BY HistoryGrows DEF HolderInv
<1>7. (pub[p].copy[f] <= posts[f])'
  BY <1>2, <1>5, <1>6
<1>8. f = e => Incr(pub[p].copy[f]) <= posts'[f]
  BY <1>1, <1>5, <1>6, IncrMonotone
<1>9. QED
  BY <1>2, <1>3, <1>4, <1>7, <1>8

(* An update that a publisher makes from what it knows keeps the rows right. *)
LEMMA RowKept ==
  ASSUME OutboxTypes, PublishedIsDelivered, AttemptsHappened, NEW p \in Publishers, NEW e \in Events,
         HolderInv(p), PublisherAt(p, "markPublished") \/ PublisherAt(p, "markFailed"), Current(p, e),
         NEW s \in { "published", "failed" }, s = "published" => accepted[e] > 0,
         SetRow(p, e, s), UNCHANGED << posts, accepted >>
  PROVE  PublishedIsDelivered' /\ AttemptsHappened'
<1>1. outbox \in [Events -> [status : Statuses, attempts : 0 .. MaxCount]]
  BY DEF OutboxTypes
<1>2. outbox'[e] = [status |-> s, attempts |-> Incr(pub[p].copy[e])]
      /\ \A f \in Events \ {e} : outbox'[f] = outbox[f]
  BY <1>1 DEF SetRow
<1>3. Incr(pub[p].copy[e]) <= posts[e]
  BY DEF HolderInv
<1>4. PublishedIsDelivered'
  BY <1>2 DEF PublishedIsDelivered
<1>5. AttemptsHappened'
  BY <1>2, <1>3 DEF AttemptsHappened
<1>6. QED
  BY <1>4, <1>5

(* The rows, when nothing but the history changes.                          *)
LEMMA RowsUntouched ==
  ASSUME OutboxTypes, PublishedIsDelivered, AttemptsHappened, [OutboxNext]_outboxVars, UNCHANGED outbox
  PROVE  PublishedIsDelivered' /\ AttemptsHappened'
<1>1. PublishedIsDelivered'
  BY HistoryGrows DEF PublishedIsDelivered
<1>2. \A e \in Events : outbox[e].attempts \in Nat /\ posts[e] \in Nat /\ posts'[e] \in Nat
  BY TypeStep DEF OutboxTypes
<1>3. AttemptsHappened'
  BY <1>2, HistoryGrows DEF AttemptsHappened
<1>4. QED
  BY <1>1, <1>3

LEMMA IInvStep == OutboxInv /\ [OutboxNext]_outboxVars => OutboxInv'
<1> SUFFICES ASSUME OutboxTypes, PublishedIsDelivered, AttemptsHappened,
                    \A p \in Publishers : HolderInv(p), [OutboxNext]_outboxVars
             PROVE  /\ PublishedIsDelivered' /\ AttemptsHappened'
                    /\ \A p \in Publishers : HolderInv(p)'
  BY HoldersInv, TypeStep DEF OutboxInv, HolderInv, HoldersAccepted, CopiesHappened
<1> DEFINE Goal == /\ PublishedIsDelivered' /\ AttemptsHappened'
                   /\ \A p \in Publishers : HolderInv(p)'
<1>0. pub \in [Publishers -> Publisher]
  BY DEF OutboxTypes
\* It is enough to look at the publisher that moves.
<1>m. ASSUME NEW p \in Publishers, HolderInv(p)', PublishedIsDelivered', AttemptsHappened',
             \A o \in Publishers \ {p} : pub'[o] = pub[o]
      PROVE  Goal
  BY <1>m, OthersKeep
<1>1. ASSUME NEW p \in Publishers, NEW e \in Events, Write(p, e) PROVE Goal
  <2>1. /\ pub'[p].copy = pub[p].copy /\ pub'[p].pc = "enqueue"
        /\ \A o \in Publishers \ {p} : pub'[o] = pub[o]
    <3>1. pub' = [pub EXCEPT ![p].pc = "enqueue", ![p].batch = {e}]
      BY <1>1 DEF Write
    <3>2. QED
      BY <1>0, <3>1 DEF Publisher
  <2>2. HolderInv(p)'
    BY <2>1, MovedHolder
  <2>3. QED
    BY <1>1, <2>1, <2>2, <1>m, RowsUntouched DEF Write
<1>r. ASSUME NEW p \in Publishers, NEW e \in Events, Return(p, e)
      PROVE  HolderInv(p)' /\ \A o \in Publishers \ {p} : pub'[o] = pub[o]
  <2>1. CASE e \in Quiet
    <3>1. pub' = [pub EXCEPT ![p] = NotPublishing]
      BY <1>r, <2>1 DEF Return, Stop
    <3>2. QED
      BY <1>0, <3>1, StoppedHolder
  <2>2. CASE e \notin Quiet
    <3>1. pub' = [pub EXCEPT ![p].pc = "list", ![p].batch = {}]
      BY <1>r, <2>2 DEF Return
    <3>2. /\ pub'[p].copy = pub[p].copy /\ pub'[p].pc = "list"
          /\ \A o \in Publishers \ {p} : pub'[o] = pub[o]
      BY <1>0, <3>1 DEF Publisher
    <3>3. QED
      BY <3>2, MovedHolder
  <2>3. QED
    BY <2>1, <2>2
<1>2. ASSUME NEW p \in Publishers, NEW e \in Events, EnqueueEvent(p, e) PROVE Goal
  <2>1. HolderInv(p)' /\ \A o \in Publishers \ {p} : pub'[o] = pub[o]
    BY <1>2, <1>r DEF EnqueueEvent
  <2>2. PublishedIsDelivered'
    BY <1>2 DEF EnqueueEvent, PublishedIsDelivered, OutboxTypes
  <2>3. \A f \in Events : outbox'[f].attempts = outbox[f].attempts \/ outbox'[f].attempts = 0
    BY <1>2 DEF EnqueueEvent, OutboxTypes
  <2>4. AttemptsHappened'
    <3>1. \A f \in Events : posts[f] \in Nat /\ posts'[f] = posts[f]
      BY <1>2 DEF OutboxTypes, EnqueueEvent
    <3>2. QED
      BY <2>3, <3>1 DEF AttemptsHappened
  <2>5. QED
    BY <2>1, <2>2, <2>4, <1>m
<1>3. ASSUME NEW p \in Publishers, NEW e \in Events, EnqueueDrops(p, e) PROVE Goal
  BY <1>3, <1>r, <1>m, RowsUntouched DEF EnqueueDrops
<1>4. ASSUME NEW p \in Publishers, Sweep(p) PROVE Goal
  <2>1. /\ pub'[p].copy = pub[p].copy /\ pub'[p].pc = "list"
        /\ \A o \in Publishers \ {p} : pub'[o] = pub[o]
    BY <1>0, <1>4 DEF Sweep, PublisherGoto, Publisher
  <2>2. QED
    BY <1>4, <2>1, MovedHolder, <1>m, RowsUntouched DEF Sweep
<1>w. ASSUME NEW p \in Publishers, NEW S \in SUBSET Events, Work(p, S), UNCHANGED outbox PROVE Goal
  <2>1. \A o \in Publishers \ {p} : pub'[o] = pub[o]
    BY <1>0, <1>w DEF Work
  <2>2. QED
    BY <1>w, <2>1, WorkingHolder, <1>m, RowsUntouched
<1>5. ASSUME NEW p \in Publishers, NEW e \in Events, Republish(p, e) PROVE Goal
  <2>1. {e} \in SUBSET Events
    OBVIOUS
  <2>2. QED
    BY <1>5, <1>w, <2>1 DEF Republish
<1>6. ASSUME NEW p \in Publishers, List(p) PROVE Goal
  <2>1. OldestOf(Ready) \in SUBSET Events
    BY DEF OldestOf, Ready
  <2>2. QED
    BY <1>6, <1>w, <2>1 DEF List
<1>g. ASSUME NEW p \in Publishers, NEW pc \in PublisherPC, PublisherGoto(p, pc)
      PROVE  \A o \in Publishers \ {p} : pub'[o] = pub[o]
  BY <1>0, <1>g DEF PublisherGoto
<1>n. ASSUME NEW p \in Publishers, NEW e \in Events, NextRow(p, e)
      PROVE  HolderInv(p)' /\ \A o \in Publishers \ {p} : pub'[o] = pub[o]
  <2>1. CASE pub[p].batch = {e}
    <3>1. pub' = [pub EXCEPT ![p] = NotPublishing]
      BY <1>n, <2>1 DEF NextRow, Stop
    <3>2. QED
      BY <1>0, <3>1, StoppedHolder
  <2>2. CASE pub[p].batch # {e}
    <3>1. pub' = [pub EXCEPT ![p].pc = "post", ![p].batch = @ \ {e}]
      BY <1>n, <2>2 DEF NextRow
    <3>2. /\ pub'[p].copy = pub[p].copy /\ pub'[p].pc = "post"
          /\ \A o \in Publishers \ {p} : pub'[o] = pub[o]
      BY <1>0, <3>1 DEF Publisher
    <3>3. QED
      BY <3>2, MovedHolder
  <2>3. QED
    BY <2>1, <2>2
<1>7. ASSUME NEW p \in Publishers, NEW e \in Events, Accept(p, e) PROVE Goal
  <2>1. accepted'[e] > 0
    <3>1. accepted[e] \in 0 .. MaxCount /\ MaxCount \in Nat \ {0}
      BY OutboxAssumption DEF OutboxTypes
    <3>2. Incr(accepted[e]) > 0
      BY <3>1 DEF Incr
    <3>3. QED
      BY <1>7, <3>2 DEF Accept, OutboxTypes
  <2>2. PICK pc \in { "markPublished", "markFailed" } : PublisherGoto(p, pc)
    BY <1>7 DEF Accept
  <2>3. HolderInv(p)'
    BY <1>7, <2>1, <2>2, PostedHolder DEF Accept
  <2>4. QED
    BY <1>7, <2>2, <2>3, <1>g, <1>m, RowsUntouched DEF Accept, PublisherPC
<1>8. ASSUME NEW p \in Publishers, NEW e \in Events, Refuse(p, e) PROVE Goal
  <2>1. HolderInv(p)'
    BY <1>8, PostedHolder DEF Refuse
  <2>2. QED
    BY <1>8, <2>1, <1>g, <1>m, RowsUntouched DEF Refuse, PublisherPC
<1>9. ASSUME NEW p \in Publishers, NEW e \in Events, MarkPublished(p, e) PROVE Goal
  <2>1. CASE SetRow(p, e, "published") /\ NextRow(p, e)
    <3>1. accepted[e] > 0
      BY <1>9 DEF MarkPublished, HolderInv
    <3>2. PublishedIsDelivered' /\ AttemptsHappened'
      BY <1>9, <2>1, <3>1, RowKept DEF MarkPublished
    <3>3. QED
      BY <2>1, <3>2, <1>n, <1>m
  <2>2. CASE PublisherGoto(p, "markFailed") /\ UNCHANGED outbox
    <3>1. pub'[p].pc = "markFailed" /\ pub'[p].copy = pub[p].copy /\ pub'[p].batch = pub[p].batch
      BY <1>0, <2>2 DEF PublisherGoto, Publisher
    <3>2. HolderInv(p)'
      BY <1>9, <3>1 DEF MarkPublished, HolderInv, PublisherAt, Current
    <3>3. QED
      BY <2>2, <3>2, <1>g, <1>m, RowsUntouched DEF PublisherPC
  <2>3. QED
    BY <1>9, <2>1, <2>2 DEF MarkPublished
<1>10. ASSUME NEW p \in Publishers, NEW e \in Events, MarkRowFailed(p, e) PROVE Goal
  <2>1. PublishedIsDelivered' /\ AttemptsHappened'
    BY <1>10, RowKept DEF MarkRowFailed
  <2>2. QED
    BY <1>10, <2>1, <1>n, <1>m DEF MarkRowFailed
<1>11. ASSUME NEW p \in Publishers, Abort(p) PROVE Goal
  <2>1. pub' = [pub EXCEPT ![p] = NotPublishing]
    BY <1>11 DEF Abort, Stop
  <2>2. QED
    BY <1>0, <1>11, <2>1, StoppedHolder, <1>m, RowsUntouched DEF Abort
<1>12. ASSUME NEW e \in Events, DeadLetter(e) PROVE Goal
  <2>1. \A f \in Events : /\ outbox'[f].attempts = outbox[f].attempts
                          /\ outbox'[f].status = "published" => outbox[f].status = "published"
    BY <1>12 DEF DeadLetter, OutboxTypes
  <2>2. QED
    BY <1>12, <2>1, OthersKeep DEF DeadLetter, PublishedIsDelivered, AttemptsHappened
<1>13. CASE UNCHANGED outboxVars
  BY <1>13, RowsUntouched, OthersKeep DEF outboxVars
<1>14. QED
  BY <1>1, <1>2, <1>3, <1>4, <1>5, <1>6, <1>7, <1>8, <1>9, <1>10, <1>11, <1>12, <1>13
     DEF OutboxNext, PublisherStep

LEMMA Invariance == OutboxSpec => []OutboxInv
<1>1. QED
  BY OutboxInvInit, IInvStep, PTL DEF OutboxSpec

\* No publisher, however late, marks a row published that the platform refused.
THEOREM PublishedCorrect == OutboxSpec => []PublishedIsDelivered
<1>1. OutboxInv => PublishedIsDelivered
  BY DEF OutboxInv
<1>2. QED
  BY <1>1, Invariance, PTL

\* The attempt counter of a row never runs ahead of the POSTs.
THEOREM AttemptsCorrect == OutboxSpec => []AttemptsHappened
<1>1. OutboxInv => AttemptsHappened
  BY DEF OutboxInv
<1>2. QED
  BY <1>1, Invariance, PTL

-----------------------------------------------------------------------------
(* How often one envelope is taken.                                        *)
(*                                                                         *)
(* What publisher p still does with event e: it may POST it, it is about   *)
(* to write that it was accepted or that it failed, or it does not hold it. *)
Awaits == { "post", "markPublished", "markFailed" }

Role(p, e) ==
  IF pub[p].pc \notin Awaits \/ e \notin pub[p].batch THEN "none"
  ELSE IF Current(p, e) THEN pub[p].pc ELSE "post"

Count(r, e) == Cardinality({ p \in Publishers : Role(p, e) = r })

\* A row is ready to be read; the requests that run at a time.
IsReady(e) == outbox[e].status \in { "pending", "failed" }
Slots == Cardinality(Publishers)

\* A row nobody enqueued was not accepted and is held by nobody.
AbsentUntouched ==
  \A e \in Events : outbox[e].status = "absent" =>
    accepted[e] = 0 /\ \A p \in Publishers : Role(p, e) = "none"

\* Every failure yet to be written down has the credit of its fault untouched.  While
\* the row can be read anew, only those about to write were accepted; when it cannot,
\* only those that hold a copy can still POST it.
DuplicatesInv ==
  \A e \in Events :
    IF e \in Poison THEN accepted[e] = 0
    ELSE IF IsReady(e)
    THEN accepted[e] + Slots * Count("markFailed", e)
           <= Slots * lapses + Count("markPublished", e) + Count("markFailed", e)
    ELSE accepted[e] + Count("post", e) + Slots * Count("markFailed", e)
           <= Slots * (1 + lapses)

\* Two sets that differ at most in one element.
LEMMA OneMoves ==
  ASSUME NEW U, IsFiniteSet(U), NEW S \in SUBSET U, NEW T \in SUBSET U, NEW p \in U,
         \A o \in U \ {p} : o \in S <=> o \in T
  PROVE  /\ Cardinality(S) \in Nat /\ Cardinality(T) \in Nat
         /\ Cardinality(T) + (IF p \in S THEN 1 ELSE 0) = Cardinality(S) + (IF p \in T THEN 1 ELSE 0)
<1>1. IsFiniteSet(S) /\ IsFiniteSet(T)
  BY FS_Subset
<1>2. Cardinality(S) \in Nat /\ Cardinality(T) \in Nat
  BY <1>1, FS_CardinalityType
<1>3. CASE p \in S <=> p \in T
  <2>1. S = T
    BY <1>3
  <2>2. QED
    BY <1>2, <2>1
<1>4. CASE p \in S /\ p \notin T
  <2>1. T = S \ {p}
    BY <1>4
  <2>2. Cardinality(T) = Cardinality(S) - 1
    BY <1>1, <1>4, <2>1, FS_RemoveElement
  <2>3. QED
    BY <1>2, <1>4, <2>2
<1>5. CASE p \notin S /\ p \in T
  <2>1. T = S \cup {p}
    BY <1>5
  <2>2. Cardinality(T) = Cardinality(S) + 1
    BY <1>1, <1>5, <2>1, FS_AddElement
  <2>3. QED
    BY <1>2, <1>5, <2>2
<1>6. QED
  BY <1>3, <1>4, <1>5

\* A publisher has one role for an event, so the roles never outnumber the publishers.
LEMMA CountsAre ==
  ASSUME NEW e \in Events
  PROVE  /\ Slots \in Nat /\ \A r : Count(r, e) \in Nat
         /\ Count("post", e) + Count("markPublished", e) + Count("markFailed", e) <= Slots
<1> DEFINE Of(r) == { p \in Publishers : Role(p, e) = r }
<1>1. IsFiniteSet(Publishers) /\ Slots \in Nat
  BY OutboxAssumption, FS_CardinalityType DEF Slots
<1>2. \A r : IsFiniteSet(Of(r)) /\ Count(r, e) = Cardinality(Of(r))
  BY <1>1, FS_Subset DEF Count
<1>3. \A r : Count(r, e) \in Nat
  BY <1>2, FS_CardinalityType
<1>4. \A r, q : r # q => Of(r) \cap Of(q) = {}
  OBVIOUS
<1> HIDE DEF Of
<1>5. /\ IsFiniteSet(Of("post") \cup Of("markPublished"))
      /\ Cardinality(Of("post") \cup Of("markPublished")) = Count("post", e) + Count("markPublished", e)
  <2>1. Cardinality(Of("post") \cap Of("markPublished")) = 0
    BY <1>4, FS_EmptySet
  <2>2. Cardinality(Of("post") \cup Of("markPublished"))
          = Cardinality(Of("post")) + Cardinality(Of("markPublished"))
            - Cardinality(Of("post") \cap Of("markPublished"))
    BY <1>2, FS_Union
  <2>3. QED
    BY <1>2, <1>3, <2>1, <2>2, FS_Union
<1>6. /\ IsFiniteSet((Of("post") \cup Of("markPublished")) \cup Of("markFailed"))
      /\ Cardinality((Of("post") \cup Of("markPublished")) \cup Of("markFailed"))
           = Count("post", e) + Count("markPublished", e) + Count("markFailed", e)
  <2>1. (Of("post") \cup Of("markPublished")) \cap Of("markFailed") = {}
    BY <1>4
  <2>2. Cardinality((Of("post") \cup Of("markPublished")) \cap Of("markFailed")) = 0
    BY <2>1, FS_EmptySet
  <2>3. Cardinality((Of("post") \cup Of("markPublished")) \cup Of("markFailed"))
          = Cardinality(Of("post") \cup Of("markPublished")) + Cardinality(Of("markFailed"))
            - Cardinality((Of("post") \cup Of("markPublished")) \cap Of("markFailed"))
    BY <1>2, <1>5, FS_Union
  <2>4. QED
    BY <1>2, <1>3, <1>5, <2>2, <2>3, FS_Union
<1>7. (Of("post") \cup Of("markPublished")) \cup Of("markFailed") \in SUBSET Publishers
  BY DEF Of
<1>8. QED
  BY <1>1, <1>3, <1>6, <1>7, FS_Subset DEF Slots

\* How the counts change when one publisher moves.
LEMMA CountsMove ==
  ASSUME NEW p \in Publishers, \A o \in Publishers \ {p} : pub'[o] = pub[o], NEW e \in Events
  PROVE  \A r : /\ Count(r, e)' \in Nat
                /\ Count(r, e)' + (IF Role(p, e) = r THEN 1 ELSE 0)
                     = Count(r, e) + (IF Role(p, e)' = r THEN 1 ELSE 0)
<1> SUFFICES ASSUME NEW r
             PROVE  /\ Count(r, e)' \in Nat
                    /\ Count(r, e)' + (IF Role(p, e) = r THEN 1 ELSE 0)
                         = Count(r, e) + (IF Role(p, e)' = r THEN 1 ELSE 0)
  OBVIOUS
<1> DEFINE S == { o \in Publishers : Role(o, e) = r }
           T == { o \in Publishers : Role(o, e)' = r }
<1>1. \A o \in Publishers \ {p} : Role(o, e)' = Role(o, e)
  BY DEF Role, Current
<1>2. S \in SUBSET Publishers /\ T \in SUBSET Publishers
      /\ (p \in S <=> Role(p, e) = r) /\ (p \in T <=> Role(p, e)' = r)
      /\ \A o \in Publishers \ {p} : o \in S <=> o \in T
  BY <1>1
<1>3. Count(r, e) = Cardinality(S) /\ Count(r, e)' = Cardinality(T)
  BY DEF Count
<1> HIDE DEF S, T
<1>4. QED
  BY <1>2, <1>3, OneMoves, OutboxAssumption

(* What a step of publisher p does to event e.                              *)
Same(e) == outbox'[e].status = outbox[e].status /\ accepted'[e] = accepted[e]
RoleGoes(p, e, r, q) == Role(p, e) = r /\ Role(p, e)' = q

Stays(p, e) == /\ Same(e) /\ lapses' \in { lapses, lapses + 1 }
               /\ Role(p, e)' = Role(p, e)
Picks(p, e) == /\ Same(e) /\ lapses' = lapses
               /\ IsReady(e) /\ RoleGoes(p, e, "none", "post")
Takes(p, e) == /\ e \notin Poison /\ outbox'[e].status = outbox[e].status
               /\ accepted'[e] = Incr(accepted[e])
               /\ \/ RoleGoes(p, e, "post", "markPublished") /\ lapses' = lapses
                  \/ RoleGoes(p, e, "post", "markFailed") /\ lapses' = lapses + 1
Fails(p, e) == /\ Same(e)
               /\ \/ RoleGoes(p, e, "post", "markFailed")
                  \/ RoleGoes(p, e, "markPublished", "markFailed")
               /\ lapses' = lapses + 1 \/ (e \in Poison /\ lapses' = lapses)
Quits(p, e) == Same(e) /\ lapses' = lapses + 1 /\ Role(p, e)' = "none"
Marks(p, e) == /\ UNCHANGED << accepted, lapses >>
               /\ \/ RoleGoes(p, e, "markPublished", "none") /\ outbox'[e].status = "published"
                  \/ RoleGoes(p, e, "markFailed", "none") /\ outbox'[e].status = "failed"
Files(p, e) == /\ UNCHANGED << accepted, lapses >> /\ RoleGoes(p, e, "none", "none")
               /\ outbox[e].status = "absent" /\ outbox'[e].status = "pending"

Deals(p, e) == \/ Stays(p, e) \/ Picks(p, e) \/ Takes(p, e) \/ Fails(p, e)
               \/ Quits(p, e) \/ Marks(p, e) \/ Files(p, e)

\* One row at a time: a publisher is at a single row of its batch.
LEMMA OneCurrent ==
  ASSUME NEW p \in Publishers, NEW e \in Events, NEW f \in Events, Current(p, e), Current(p, f)
  PROVE  e = f
<1>1. e \in Nat /\ f \in Nat
  BY OutboxAssumption DEF Events
<1>2. e <= f /\ f <= e
  BY DEF Current
<1>3. QED
  BY <1>1, <1>2

LEMMA RoleGoto ==
  ASSUME OutboxTypes, NEW p \in Publishers, NEW f \in Events, NEW r \in Awaits, NEW q \in Awaits,
         PublisherAt(p, r), Current(p, f), PublisherGoto(p, q)
  PROVE  RoleGoes(p, f, r, q) /\ \A e \in Events \ {f} : Role(p, e)' = Role(p, e)
<1>1. pub'[p].pc = q /\ pub'[p].batch = pub[p].batch /\ pub[p].pc = r
  BY DEF OutboxTypes, PublisherGoto, PublisherAt, Publisher
<1>2. \A e \in Events : Current(p, e)' = Current(p, e)
  BY <1>1 DEF Current
<1>3. \A e \in Events \ {f} : ~ Current(p, e)
  BY OneCurrent
<1>4. f \in pub[p].batch
  BY DEF Current
<1>5. QED
  BY <1>1, <1>2, <1>3, <1>4 DEF RoleGoes, Role

LEMMA RoleNext ==
  ASSUME OutboxTypes, NEW p \in Publishers, NEW f \in Events, NEW r \in Awaits,
         PublisherAt(p, r), Current(p, f), NextRow(p, f)
  PROVE  RoleGoes(p, f, r, "none") /\ \A e \in Events \ {f} : Role(p, e)' = Role(p, e)
<1>1. \A e \in Events \ {f} : ~ Current(p, e)
  BY OneCurrent
<1>2. f \in pub[p].batch /\ pub[p].pc = r
  BY DEF Current, PublisherAt
<1>3. \A e \in Events \ {f} : Role(p, e) = IF e \in pub[p].batch THEN "post" ELSE "none"
  BY <1>1, <1>2 DEF Role
<1>4. Role(p, f) = r
  BY <1>2 DEF Role
<1>5. CASE pub[p].batch = {f}
  <2>1. pub'[p] = NotPublishing
    BY <1>5 DEF NextRow, Stop, OutboxTypes
  <2>2. \A e \in Events : Role(p, e)' = "none"
    BY <2>1 DEF Role, NotPublishing, Awaits
  <2>3. QED
    BY <1>3, <1>4, <1>5, <2>2 DEF RoleGoes
<1>6. CASE pub[p].batch # {f}
  <2>1. pub' = [pub EXCEPT ![p].pc = "post", ![p].batch = @ \ {f}]
    BY <1>6 DEF NextRow
  <2>2. pub'[p].pc = "post" /\ pub'[p].batch = pub[p].batch \ {f}
    BY <2>1 DEF OutboxTypes, Publisher
  <2>3. \A e \in Events : Role(p, e)' = IF e \in pub[p].batch \ {f} THEN "post" ELSE "none"
    BY <2>2 DEF Role, Awaits
  <2>4. QED
    BY <1>3, <1>4, <2>3 DEF RoleGoes
<1>7. QED
  BY <1>5, <1>6

LEMMA RoleWork ==
  ASSUME OutboxTypes, NEW p \in Publishers, pub[p].pc \notin Awaits, NEW S \in SUBSET Ready, Work(p, S)
  PROVE  \A e \in Events : \/ Role(p, e)' = Role(p, e)
                           \/ IsReady(e) /\ RoleGoes(p, e, "none", "post")
<1>1. \A e \in Events : Role(p, e) = "none"
  BY DEF Role
<1>2. CASE S = {}
  <2>1. pub'[p] = NotPublishing
    BY <1>2 DEF Work, OutboxTypes
  <2>2. QED
    BY <1>1, <2>1 DEF Role, NotPublishing, Awaits
<1>3. CASE S # {}
  <2>1. pub'[p].pc = "post" /\ pub'[p].batch = S
    BY <1>3 DEF Work, OutboxTypes
  <2>2. \A e \in Events : Role(p, e)' = IF e \in S THEN "post" ELSE "none"
    BY <2>1 DEF Role, Awaits
  <2>3. \A e \in S : IsReady(e)
    BY DEF Ready, IsReady
  <2>4. QED
    BY <1>1, <2>2, <2>3 DEF RoleGoes
<1>4. QED
  BY <1>2, <1>3

LEMMA FaultCounts == OutboxTypes /\ OutboxFault => lapses' = lapses + 1
BY DEF OutboxFault

\* The update of one row leaves the status of the others.
LEMMA SetRowOne ==
  ASSUME OutboxTypes, NEW p \in Publishers, NEW f \in Events, NEW s, SetRow(p, f, s)
  PROVE  outbox'[f].status = s /\ \A e \in Events \ {f} : outbox'[e] = outbox[e]
BY DEF SetRow, OutboxTypes

LEMMA DealsNext ==
  ASSUME OutboxTypes, OutboxNext
  PROVE  \/ \E p \in Publishers : /\ \A o \in Publishers \ {p} : pub'[o] = pub[o]
                                  /\ \A e \in Events : Deals(p, e)
         \/ \E e \in Events : DeadLetter(e)
<1> DEFINE Goal == \E p \in Publishers : /\ \A o \in Publishers \ {p} : pub'[o] = pub[o]
                                         /\ \A e \in Events : Deals(p, e)
<1>0. pub \in [Publishers -> Publisher] /\ outbox \in [Events -> [status : Statuses, attempts : 0 .. MaxCount]]
      /\ accepted \in [Events -> 0 .. MaxCount]
  BY DEF OutboxTypes
<1>1. ASSUME NEW p \in Publishers, NEW e \in Events, Write(p, e) PROVE Goal
  <2>1. pub[p].pc \notin Awaits /\ pub'[p].pc \notin Awaits /\ \A o \in Publishers \ {p} : pub'[o] = pub[o]
    <3>1. pub' = [pub EXCEPT ![p].pc = "enqueue", ![p].batch = {e}] /\ pub[p] = NotPublishing
      BY <1>1 DEF Write
    <3>2. pub'[p].pc = "enqueue" /\ pub[p].pc = "idle"
      BY <1>0, <3>1 DEF Publisher, NotPublishing
    <3>3. QED
      BY <1>0, <3>1, <3>2 DEF Awaits
  <2>2. \A f \in Events : Stays(p, f)
    BY <1>1, <2>1 DEF Write, Stays, Same, Role
  <2>3. QED
    BY <2>1, <2>2 DEF Deals
<1>r. ASSUME NEW p \in Publishers, NEW e \in Events, PublisherAt(p, "enqueue"), Return(p, e)
      PROVE  pub[p].pc \notin Awaits /\ pub'[p].pc \notin Awaits /\ \A o \in Publishers \ {p} : pub'[o] = pub[o]
  <2>1. pub[p].pc \notin Awaits
    BY <1>r DEF PublisherAt, Awaits
  <2>2. CASE e \in Quiet
    <3>1. pub' = [pub EXCEPT ![p] = NotPublishing]
      BY <1>r, <2>2 DEF Return, Stop
    <3>2. QED
      BY <1>0, <2>1, <3>1 DEF NotPublishing, Awaits
  <2>3. CASE e \notin Quiet
    <3>1. pub' = [pub EXCEPT ![p].pc = "list", ![p].batch = {}]
      BY <1>r, <2>3 DEF Return
    <3>2. pub'[p].pc = "list" /\ \A o \in Publishers \ {p} : pub'[o] = pub[o]
      BY <1>0, <3>1 DEF Publisher
    <3>3. QED
      BY <2>1, <3>2 DEF Awaits
  <2>4. QED
    BY <2>2, <2>3
<1>2. ASSUME NEW p \in Publishers, NEW e \in Events, EnqueueEvent(p, e) PROVE Goal
  <2>1. pub[p].pc \notin Awaits /\ pub'[p].pc \notin Awaits /\ \A o \in Publishers \ {p} : pub'[o] = pub[o]
    BY <1>2, <1>r DEF EnqueueEvent
  <2>2. \A f \in Events : RoleGoes(p, f, "none", "none")
    BY <2>1 DEF RoleGoes, Role
  <2>3. \A f \in Events : \/ outbox'[f].status = outbox[f].status
                          \/ outbox[f].status = "absent" /\ outbox'[f].status = "pending"
    BY <1>0, <1>2 DEF EnqueueEvent
  <2>4. \A f \in Events : Stays(p, f) \/ Files(p, f)
    BY <1>2, <2>2, <2>3 DEF EnqueueEvent, Stays, Files, Same, RoleGoes
  <2>5. QED
    BY <2>1, <2>4 DEF Deals
<1>3. ASSUME NEW p \in Publishers, NEW e \in Events, EnqueueDrops(p, e) PROVE Goal
  <2>1. pub[p].pc \notin Awaits /\ pub'[p].pc \notin Awaits /\ \A o \in Publishers \ {p} : pub'[o] = pub[o]
    BY <1>3, <1>r DEF EnqueueDrops
  <2>2. \A f \in Events : Quits(p, f)
    BY <1>3, <2>1, FaultCounts DEF EnqueueDrops, Quits, Same, Role
  <2>3. QED
    BY <2>1, <2>2 DEF Deals
<1>4. ASSUME NEW p \in Publishers, Sweep(p) PROVE Goal
  <2>1. pub[p].pc \notin Awaits /\ pub'[p].pc \notin Awaits /\ \A o \in Publishers \ {p} : pub'[o] = pub[o]
    <3>1. pub'[p].pc = "list" /\ pub[p].pc = "idle" /\ \A o \in Publishers \ {p} : pub'[o] = pub[o]
      BY <1>0, <1>4 DEF Sweep, PublisherGoto, Publisher, NotPublishing
    <3>2. QED
      BY <3>1 DEF Awaits
  <2>2. \A f \in Events : Stays(p, f)
    BY <1>4, <2>1 DEF Sweep, Stays, Same, Role
  <2>3. QED
    BY <2>1, <2>2 DEF Deals
<1>w. ASSUME NEW p \in Publishers, pub[p].pc \notin Awaits, NEW S \in SUBSET Ready, Work(p, S),
             UNCHANGED << outbox, accepted, lapses >>
      PROVE  Goal
  <2>1. \A o \in Publishers \ {p} : pub'[o] = pub[o]
    BY <1>0, <1>w DEF Work
  <2>2. \A f \in Events : Stays(p, f) \/ Picks(p, f)
    BY <1>w, RoleWork DEF Stays, Picks, Same
  <2>3. QED
    BY <2>1, <2>2 DEF Deals
<1>5. ASSUME NEW p \in Publishers, NEW e \in Events, Republish(p, e) PROVE Goal
  <2>1. {e} \in SUBSET Ready /\ pub[p].pc \notin Awaits
    BY <1>5 DEF Republish, NotPublishing, Awaits
  <2>2. QED
    BY <1>5, <2>1, <1>w DEF Republish
<1>6. ASSUME NEW p \in Publishers, List(p) PROVE Goal
  <2>1. OldestOf(Ready) \in SUBSET Ready /\ pub[p].pc \notin Awaits
    BY <1>6 DEF List, PublisherAt, Awaits, OldestOf
  <2>2. QED
    BY <1>6, <2>1, <1>w DEF List
<1>g. ASSUME NEW p \in Publishers, NEW pc, PublisherGoto(p, pc)
      PROVE  \A o \in Publishers \ {p} : pub'[o] = pub[o]
  BY <1>0, <1>g DEF PublisherGoto
<1>n. ASSUME NEW p \in Publishers, NEW e \in Events, NextRow(p, e)
      PROVE  \A o \in Publishers \ {p} : pub'[o] = pub[o]
  BY <1>0, <1>n DEF NextRow, Stop
<1>a. "post" \in Awaits /\ "markPublished" \in Awaits /\ "markFailed" \in Awaits
  BY DEF Awaits
<1>7. ASSUME NEW p \in Publishers, NEW e \in Events, Accept(p, e) PROVE Goal
  <2>1. accepted'[e] = Incr(accepted[e]) /\ \A f \in Events \ {e} : accepted'[f] = accepted[f]
    BY <1>0, <1>7 DEF Accept
  <2>2. \/ PublisherGoto(p, "markPublished") /\ lapses' = lapses
        \/ PublisherGoto(p, "markFailed") /\ lapses' = lapses + 1
    BY <1>7, FaultCounts DEF Accept
  <2>3. \A f \in Events \ {e} : Stays(p, f)
    <3>1. \A f \in Events \ {e} : Role(p, f)' = Role(p, f)
      BY <1>7, <1>a, <2>2, RoleGoto DEF Accept
    <3>2. QED
      BY <1>7, <2>1, <2>2, <3>1 DEF Stays, Same, Accept
  <2>4. Takes(p, e)
    BY <1>7, <1>a, <2>1, <2>2, RoleGoto DEF Accept, Takes
  <2>5. QED
    BY <1>g, <2>2, <2>3, <2>4 DEF Deals
<1>8. ASSUME NEW p \in Publishers, NEW e \in Events, Refuse(p, e) PROVE Goal
  <2>1. lapses' = lapses + 1 \/ (e \in Poison /\ lapses' = lapses)
    BY <1>8, FaultCounts DEF Refuse
  <2>2. RoleGoes(p, e, "post", "markFailed") /\ \A f \in Events \ {e} : Role(p, f)' = Role(p, f)
    BY <1>8, <1>a, RoleGoto DEF Refuse
  <2>3. Fails(p, e) /\ \A f \in Events \ {e} : Stays(p, f)
    BY <1>8, <2>1, <2>2 DEF Refuse, Fails, Stays, Same
  <2>4. QED
    BY <1>8, <1>g, <2>3 DEF Refuse, Deals
<1>9. ASSUME NEW p \in Publishers, NEW e \in Events, MarkPublished(p, e) PROVE Goal
  <2>1. CASE SetRow(p, e, "published") /\ NextRow(p, e) /\ UNCHANGED lapses
    <3>1. RoleGoes(p, e, "markPublished", "none") /\ \A f \in Events \ {e} : Role(p, f)' = Role(p, f)
      BY <1>9, <1>a, <2>1, RoleNext DEF MarkPublished
    <3>2. Marks(p, e) /\ \A f \in Events \ {e} : Stays(p, f)
      BY <1>9, <2>1, <3>1, SetRowOne DEF MarkPublished, Marks, Stays, Same
    <3>3. QED
      BY <1>n, <2>1, <3>2 DEF Deals
  <2>2. CASE OutboxFault /\ PublisherGoto(p, "markFailed") /\ UNCHANGED outbox
    <3>1. RoleGoes(p, e, "markPublished", "markFailed") /\ \A f \in Events \ {e} : Role(p, f)' = Role(p, f)
      BY <1>9, <1>a, <2>2, RoleGoto DEF MarkPublished
    <3>2. Fails(p, e) /\ \A f \in Events \ {e} : Stays(p, f)
      BY <1>9, <2>2, <3>1, FaultCounts DEF MarkPublished, Fails, Stays, Same
    <3>3. QED
      BY <1>g, <2>2, <3>2 DEF Deals
  <2>3. QED
    BY <1>9, <2>1, <2>2 DEF MarkPublished
<1>10. ASSUME NEW p \in Publishers, NEW e \in Events, MarkRowFailed(p, e) PROVE Goal
  <2>1. RoleGoes(p, e, "markFailed", "none") /\ \A f \in Events \ {e} : Role(p, f)' = Role(p, f)
    BY <1>10, <1>a, RoleNext DEF MarkRowFailed
  <2>2. Marks(p, e) /\ \A f \in Events \ {e} : Stays(p, f)
    BY <1>10, <2>1, SetRowOne DEF MarkRowFailed, Marks, Stays, Same
  <2>3. QED
    BY <1>10, <1>n, <2>2 DEF MarkRowFailed, Deals
<1>11. ASSUME NEW p \in Publishers, Abort(p) PROVE Goal
  <2>1. pub'[p] = NotPublishing /\ \A o \in Publishers \ {p} : pub'[o] = pub[o]
    BY <1>0, <1>11 DEF Abort, Stop
  <2>2. \A f \in Events : Quits(p, f)
    BY <1>11, <2>1, FaultCounts DEF Abort, Quits, Same, Role, NotPublishing, Awaits
  <2>3. QED
    BY <2>1, <2>2 DEF Deals
<1>12. QED
  BY <1>1, <1>2, <1>3, <1>4, <1>5, <1>6, <1>7, <1>8, <1>9, <1>10, <1>11 DEF OutboxNext, PublisherStep

\* Products of the bound, for the provers.
LEMMA Times ==
  ASSUME NEW k \in Nat, NEW n \in Nat
  PROVE  k * n \in Nat /\ k * (n + 1) = k * n + k /\ k * (1 + n) = k * n + k
OBVIOUS

AbsentAt(e) == outbox[e].status = "absent" =>
                 accepted[e] = 0 /\ \A p \in Publishers : Role(p, e) = "none"
Open(e) == accepted[e] + Slots * Count("markFailed", e)
             <= Slots * lapses + Count("markPublished", e) + Count("markFailed", e)
Shut(e) == accepted[e] + Count("post", e) + Slots * Count("markFailed", e)
             <= Slots * (1 + lapses)
DuplicatesAt(e) == IF e \in Poison THEN accepted[e] = 0
                   ELSE IF IsReady(e) THEN Open(e) ELSE Shut(e)

LEMMA DuplicatesAre ==
  /\ AbsentUntouched <=> \A e \in Events : AbsentAt(e)
  /\ DuplicatesInv <=> \A e \in Events : DuplicatesAt(e)
BY DEF AbsentUntouched, AbsentAt, DuplicatesInv, DuplicatesAt, Open, Shut

LEMMA DealsAbsent ==
  ASSUME OutboxTypes, NEW p \in Publishers, \A o \in Publishers \ {p} : pub'[o] = pub[o],
         NEW e \in Events, AbsentAt(e), Deals(p, e)
  PROVE  AbsentAt(e)'
<1> SUFFICES ASSUME outbox'[e].status = "absent"
             PROVE  accepted'[e] = 0 /\ \A o \in Publishers : Role(o, e)' = "none"
  BY DEF AbsentAt
<1>1. \A o \in Publishers \ {p} : Role(o, e)' = Role(o, e)
  BY DEF Role, Current
<1>2. CASE Stays(p, e) \/ Quits(p, e)
  BY <1>1, <1>2 DEF Stays, Quits, Same, AbsentAt
<1>3. ~ Picks(p, e) /\ ~ Files(p, e) /\ ~ Marks(p, e)
  BY DEF Picks, Files, Marks, Same, IsReady
<1>4. ~ Takes(p, e) /\ ~ Fails(p, e)
  BY DEF Takes, Fails, Same, AbsentAt, RoleGoes
<1>5. QED
  BY <1>2, <1>3, <1>4 DEF Deals

LEMMA DealsBalance ==
  ASSUME OutboxTypes, NEW p \in Publishers, \A o \in Publishers \ {p} : pub'[o] = pub[o],
         NEW e \in Events, AbsentAt(e), DuplicatesAt(e), Deals(p, e)
  PROVE  DuplicatesAt(e)'
<1> DEFINE h == Count("post", e)          h2 == Count("post", e)'
           m == Count("markPublished", e) m2 == Count("markPublished", e)'
           f == Count("markFailed", e)    f2 == Count("markFailed", e)'
           a == accepted[e]               a2 == accepted'[e]
<1>0. CASE e \in Poison
  BY <1>0 DEF Deals, Stays, Picks, Takes, Fails, Quits, Marks, Files, Same, DuplicatesAt
<1>p. SUFFICES ASSUME e \notin Poison PROVE DuplicatesAt(e)'
  BY <1>0
<1>1. /\ Slots \in Nat /\ h \in Nat /\ m \in Nat /\ f \in Nat /\ h + m + f <= Slots
      /\ h2 \in Nat /\ m2 \in Nat /\ f2 \in Nat
  BY CountsAre, CountsMove
<1>2. Slots >= 1
  <2>1. Publishers # {} /\ IsFiniteSet(Publishers)
    BY OutboxAssumption
  <2>2. Slots # 0
    BY <2>1, FS_EmptySet DEF Slots
  <2>3. QED
    BY <1>1, <2>2
<1>3. a \in Nat /\ lapses \in Nat /\ (Deals(p, e) => a2 \in Nat /\ a2 <= a + 1)
  <2>1. a \in 0 .. MaxCount /\ Incr(a) \in 0 .. MaxCount /\ Incr(a) <= a + 1 /\ lapses \in 0 .. MaxOutboxFaults
    BY IncrType, OutboxAssumption DEF OutboxTypes, Incr
  <2>2. a2 = a \/ a2 = Incr(a)
    BY DEF Deals, Stays, Picks, Takes, Fails, Quits, Marks, Files, Same
  <2>3. QED
    BY <2>1, <2>2, OutboxAssumption
<1>4. lapses' \in { lapses, lapses + 1 }
  BY DEF Deals, Stays, Picks, Takes, Fails, Quits, Marks, Files
<1>5. /\ Slots * f \in Nat /\ Slots * f2 \in Nat /\ Slots * lapses \in Nat
      /\ (f2 = f + 1 => Slots * f2 = Slots * f + Slots)
      /\ (f = f2 + 1 => Slots * f = Slots * f2 + Slots)
      /\ Slots * (1 + lapses) = Slots * lapses + Slots
      /\ Slots * lapses' \in Nat
      /\ (lapses' = lapses + 1 => Slots * lapses' = Slots * lapses + Slots)
      /\ Slots * (1 + lapses') = Slots * lapses' + Slots
  BY <1>1, <1>3, <1>4, Times
<1>6. /\ h2 + (IF Role(p, e) = "post" THEN 1 ELSE 0) = h + (IF Role(p, e)' = "post" THEN 1 ELSE 0)
      /\ m2 + (IF Role(p, e) = "markPublished" THEN 1 ELSE 0) = m + (IF Role(p, e)' = "markPublished" THEN 1 ELSE 0)
      /\ f2 + (IF Role(p, e) = "markFailed" THEN 1 ELSE 0) = f + (IF Role(p, e)' = "markFailed" THEN 1 ELSE 0)
  BY CountsMove
<1>7. /\ Open(e) <=> a + Slots * f <= Slots * lapses + m + f
      /\ Shut(e) <=> a + h + Slots * f <= Slots * lapses + Slots
      /\ Open(e)' <=> a2 + Slots * f2 <= Slots * lapses' + m2 + f2
      /\ Shut(e)' <=> a2 + h2 + Slots * f2 <= Slots * lapses' + Slots
  <2>1. Slots' = Slots
    BY DEF Slots
  <2>2. QED
    BY <2>1, <1>5 DEF Open, Shut
<1>8. DuplicatesAt(e)' <=> IF IsReady(e)' THEN Open(e)' ELSE Shut(e)'
  BY <1>p DEF DuplicatesAt
<1>9. IF IsReady(e) THEN Open(e) ELSE Shut(e)
  BY <1>p DEF DuplicatesAt
<1> HIDE DEF h, h2, m, m2, f, f2, a, a2
<1>s. Same(e) => a2 = a /\ (IsReady(e)' <=> IsReady(e))
  BY DEF Same, IsReady, a, a2
<1>10. CASE Stays(p, e)
  <2>0. Role(p, e)' = Role(p, e)
    BY <1>10 DEF Stays
  <2>1. h2 = h /\ m2 = m /\ f2 = f
    <3>1. ASSUME NEW x \in Nat, NEW x2 \in Nat, NEW b \in {0, 1}, x2 + b = x + b PROVE x2 = x
      BY <3>1
    <3>2. /\ h2 + (IF Role(p, e) = "post" THEN 1 ELSE 0) = h + (IF Role(p, e) = "post" THEN 1 ELSE 0)
          /\ m2 + (IF Role(p, e) = "markPublished" THEN 1 ELSE 0) = m + (IF Role(p, e) = "markPublished" THEN 1 ELSE 0)
          /\ f2 + (IF Role(p, e) = "markFailed" THEN 1 ELSE 0) = f + (IF Role(p, e) = "markFailed" THEN 1 ELSE 0)
      BY <2>0, <1>6, Zenon
    <3>3. h \in Nat /\ h2 \in Nat /\ m \in Nat /\ m2 \in Nat /\ f \in Nat /\ f2 \in Nat
      BY <1>1
    <3>4. QED
      <4>1. h2 = h BY <3>1, <3>2, <3>3
      <4>2. m2 = m BY <3>1, <3>2, <3>3
      <4>3. f2 = f BY <3>1, <3>2, <3>3
      <4> QED BY <4>1, <4>2, <4>3
  <2>2. a2 = a /\ (IsReady(e)' <=> IsReady(e)) /\ lapses' \in { lapses, lapses + 1 }
    BY <1>s, <1>10 DEF Stays
  <2> DEFINE F == Slots * f       F2 == Slots * f2
             L == Slots * lapses  L2 == Slots * lapses'
  <2>3. F2 = F BY <2>1
  <2>4. L2 = L \/ L2 = L + Slots
    <3>1. CASE lapses' = lapses BY <3>1
    <3>2. CASE lapses' = lapses + 1 BY <3>2, <1>5
    <3> QED BY <3>1, <3>2, <2>2
  <2>5. F \in Nat /\ L \in Nat BY <1>5
  <2>6. /\ Open(e) <=> a + F <= L + m + f
        /\ Shut(e) <=> a + h + F <= L + Slots
        /\ Open(e)' <=> a2 + F2 <= L2 + m2 + f2
        /\ Shut(e)' <=> a2 + h2 + F2 <= L2 + Slots
    BY <1>7, Zenon
  <2> HIDE DEF F, F2, L, L2
  <2>7. (Open(e) => Open(e)') /\ (Shut(e) => Shut(e)')
    BY <1>1, <1>3, <2>1, <2>2, <2>3, <2>4, <2>5, <2>6
  <2>8. QED
    BY <2>2, <2>7, <1>8, <1>9
<1>11. CASE Picks(p, e)
  <2>1. m2 = m /\ f2 = f
    BY <1>1, <1>6, <1>11 DEF Picks, RoleGoes
  <2>2. a2 = a /\ IsReady(e)' /\ IsReady(e) /\ lapses' = lapses
    BY <1>s, <1>11 DEF Picks
  <2>3. QED
    BY <2>1, <2>2, <1>7, <1>8, <1>9
<1>12. CASE Takes(p, e)
  <2>1. IsReady(e)' <=> IsReady(e)
    BY <1>12 DEF Takes, IsReady
  <2>2. CASE RoleGoes(p, e, "post", "markPublished") /\ lapses' = lapses
    <3>1. h = h2 + 1 /\ m2 = m + 1 /\ f2 = f
      BY <1>1, <1>6, <2>2 DEF RoleGoes
    <3>2. QED
      BY <2>1, <2>2, <3>1, <1>1, <1>3, <1>5, <1>7, <1>8, <1>9
  <2>3. CASE RoleGoes(p, e, "post", "markFailed") /\ lapses' = lapses + 1
    <3>1. h = h2 + 1 /\ m2 = m /\ f2 = f + 1
      BY <1>1, <1>6, <2>3 DEF RoleGoes
    <3>2. QED
      BY <2>1, <2>3, <3>1, <1>1, <1>3, <1>5, <1>7, <1>8, <1>9
  <2>4. QED
    BY <1>12, <2>2, <2>3 DEF Takes
<1>13. CASE Fails(p, e)
  <2>1. a2 = a /\ (IsReady(e)' <=> IsReady(e)) /\ lapses' = lapses + 1
    BY <1>s, <1>p, <1>13 DEF Fails
  <2>2. f2 = f + 1 /\ ((h = h2 + 1 /\ m2 = m) \/ (h2 = h /\ m = m2 + 1))
    BY <1>1, <1>6, <1>13 DEF Fails, RoleGoes
  <2>3. QED
    BY <2>1, <2>2, <1>1, <1>3, <1>5, <1>7, <1>8, <1>9
<1>14. CASE Quits(p, e)
  <2>1. a2 = a /\ (IsReady(e)' <=> IsReady(e)) /\ lapses' = lapses + 1
    BY <1>s, <1>14 DEF Quits
  <2>2. \/ h2 = h /\ m2 = m /\ f2 = f
        \/ h = h2 + 1 /\ m2 = m /\ f2 = f
        \/ h2 = h /\ m = m2 + 1 /\ f2 = f
        \/ h2 = h /\ m2 = m /\ f = f2 + 1
    BY <1>1, <1>6, <1>14 DEF Quits
  <2>3. QED
    BY <2>1, <2>2, <1>1, <1>2, <1>3, <1>5, <1>7, <1>8, <1>9
<1>15. CASE Marks(p, e)
  <2>1. a2 = a /\ lapses' = lapses
    BY <1>15 DEF Marks, a, a2
  <2>2. CASE RoleGoes(p, e, "markPublished", "none") /\ outbox'[e].status = "published"
    <3>1. h2 = h /\ m = m2 + 1 /\ f2 = f
      BY <1>1, <1>6, <2>2 DEF RoleGoes
    <3>2. ~ IsReady(e)'
      BY <2>2 DEF IsReady
    <3>3. QED
      BY <2>1, <3>1, <3>2, <1>1, <1>3, <1>5, <1>7, <1>8, <1>9
  <2>3. CASE RoleGoes(p, e, "markFailed", "none") /\ outbox'[e].status = "failed"
    <3>1. h2 = h /\ m2 = m /\ f = f2 + 1
      BY <1>1, <1>6, <2>3 DEF RoleGoes
    <3>2. IsReady(e)'
      BY <2>3 DEF IsReady
    <3>3. QED
      BY <2>1, <3>1, <3>2, <1>1, <1>2, <1>3, <1>5, <1>7, <1>8, <1>9
  <2>4. QED
    BY <1>15, <2>2, <2>3 DEF Marks
<1>16. CASE Files(p, e)
  <2>1. a2 = a /\ lapses' = lapses /\ IsReady(e)'
    BY <1>16 DEF Files, IsReady, a, a2
  <2>2. h2 = h /\ m2 = m /\ f2 = f
    BY <1>1, <1>6, <1>16 DEF Files, RoleGoes
  <2>3. a = 0 /\ f = 0
    <3>1. accepted[e] = 0 /\ { o \in Publishers : Role(o, e) = "markFailed" } = {}
      BY <1>16 DEF Files, AbsentAt
    <3>2. QED
      BY <3>1, FS_EmptySet DEF a, f, Count
  <2>4. Slots * f = 0
    BY <2>3, <1>1
  <2>5. QED
    BY <2>1, <2>2, <2>3, <2>4, <1>1, <1>5, <1>7, <1>8
<1>17. QED
  BY <1>10, <1>11, <1>12, <1>13, <1>14, <1>15, <1>16 DEF Deals

DInv == OutboxTypes /\ AbsentUntouched /\ DuplicatesInv

LEMMA DInvInit == OutboxInit => DInv
<1> SUFFICES ASSUME OutboxInit, NEW e \in Events PROVE AbsentAt(e) /\ DuplicatesAt(e)
  BY OutboxTypesInit, DuplicatesAre DEF DInv
<1>1. \A p \in Publishers : Role(p, e) = "none"
  BY DEF OutboxInit, NotPublishing, Role, Awaits
<1>2. AbsentAt(e) /\ accepted[e] = 0 /\ lapses = 0 /\ ~ IsReady(e)
  BY <1>1 DEF OutboxInit, AbsentAt, IsReady
<1>3. Count("post", e) = 0 /\ Count("markFailed", e) = 0
  <2>1. { p \in Publishers : Role(p, e) = "post" } = {} /\ { p \in Publishers : Role(p, e) = "markFailed" } = {}
    BY <1>1
  <2>2. QED
    BY <2>1, FS_EmptySet DEF Count
<1>4. Slots * 0 = 0 /\ Slots * (1 + 0) \in Nat
  BY CountsAre, Times
<1>5. QED
  BY <1>2, <1>3, <1>4 DEF DuplicatesAt, Shut

LEMMA DInvStep == DInv /\ [OutboxNext]_outboxVars => DInv'
<1> SUFFICES ASSUME DInv, [OutboxNext]_outboxVars PROVE AbsentUntouched' /\ DuplicatesInv'
  BY TypeStep DEF DInv
<1>0. OutboxTypes /\ \A e \in Events : AbsentAt(e) /\ DuplicatesAt(e)
  BY DuplicatesAre DEF DInv
<1> SUFFICES ASSUME NEW e \in Events PROVE AbsentAt(e)' /\ DuplicatesAt(e)'
  BY DEF AbsentUntouched, AbsentAt, DuplicatesInv, DuplicatesAt, Open, Shut
<1>1. ASSUME NEW p \in Publishers, \A o \in Publishers \ {p} : pub'[o] = pub[o], Deals(p, e)
      PROVE  AbsentAt(e)' /\ DuplicatesAt(e)'
  BY <1>0, <1>1, DealsAbsent, DealsBalance
\* Nobody moves, and the row at most stops being ready.
<1>2. ASSUME pub' = pub, lapses' = lapses, accepted' = accepted,
             \/ outbox'[e].status = outbox[e].status
             \/ outbox[e].status = "failed" /\ outbox'[e].status = "dead_letter"
      PROVE  AbsentAt(e)' /\ DuplicatesAt(e)'
  <2>1. \A p, f : Role(p, f)' = Role(p, f)
    BY <1>2 DEF Role, Current
  <2>2. Slots' = Slots /\ \A r : Count(r, e)' = Count(r, e)
    BY <2>1 DEF Slots, Count
  <2>3. AbsentAt(e)'
    BY <1>0, <1>2, <2>1 DEF AbsentAt
  <2>4. (Open(e)' <=> Open(e)) /\ (Shut(e)' <=> Shut(e))
    BY <1>2, <2>2 DEF Open, Shut
  <2>5. (IsReady(e)' <=> IsReady(e)) \/ (IsReady(e) /\ ~ IsReady(e)')
    BY <1>2 DEF IsReady
  <2>6. Open(e) => Shut(e)
    <3>1. /\ Slots \in Nat /\ accepted[e] \in Nat /\ lapses \in Nat
          /\ Count("post", e) \in Nat /\ Count("markPublished", e) \in Nat /\ Count("markFailed", e) \in Nat
          /\ Count("post", e) + Count("markPublished", e) + Count("markFailed", e) <= Slots
      BY <1>0, CountsAre DEF OutboxTypes
    <3>2. /\ Slots * Count("markFailed", e) \in Nat /\ Slots * lapses \in Nat
          /\ Slots * (1 + lapses) = Slots * lapses + Slots
      BY <3>1, Times
    <3>3. QED
      BY <3>1, <3>2 DEF Open, Shut
  <2>7. QED
    BY <1>0, <1>2, <2>3, <2>4, <2>5, <2>6 DEF DuplicatesAt
<1>3. CASE OutboxNext
  <2>1. ASSUME NEW f \in Events, DeadLetter(f) PROVE AbsentAt(e)' /\ DuplicatesAt(e)'
    <3>1. \/ outbox'[e].status = outbox[e].status
          \/ outbox[e].status = "failed" /\ outbox'[e].status = "dead_letter"
      BY <1>0, <2>1 DEF DeadLetter, OutboxTypes
    <3>2. QED
      BY <2>1, <3>1, <1>2 DEF DeadLetter
  <2>2. QED
    BY <1>0, <1>1, <1>3, <2>1, DealsNext
<1>4. CASE UNCHANGED outboxVars
  BY <1>2, <1>4 DEF outboxVars
<1>5. QED
  BY <1>3, <1>4

LEMMA DInvBounds == DInv => DuplicatesBounded
<1> SUFFICES ASSUME DInv, NEW e \in Events PROVE accepted[e] <= Slots * (1 + lapses)
  BY DEF DuplicatesBounded, Slots
<1>1. DuplicatesAt(e) /\ accepted[e] \in Nat /\ lapses \in Nat
  BY DuplicatesAre DEF DInv, OutboxTypes
<1>2. /\ Slots \in Nat
      /\ Count("post", e) \in Nat /\ Count("markPublished", e) \in Nat /\ Count("markFailed", e) \in Nat
      /\ Count("post", e) + Count("markPublished", e) + Count("markFailed", e) <= Slots
  BY CountsAre
<1>3. /\ Slots * Count("markFailed", e) \in Nat /\ Slots * lapses \in Nat
      /\ Slots * (1 + lapses) = Slots * lapses + Slots
  BY <1>1, <1>2, Times
<1>4. QED
  BY <1>1, <1>2, <1>3 DEF DuplicatesAt, Open, Shut

\* Publishers that share a row and answers that get lost make the platform take an
\* envelope no more than once per publisher, and as often again for every fault.
THEOREM DuplicatesCorrect == OutboxSpec => []DuplicatesBounded
<1>1. QED
  BY DInvInit, DInvStep, DInvBounds, PTL DEF OutboxSpec
==============================================================================
