---------------------------- MODULE Quotes_proofs ----------------------------
(***************************************************************************)
(* Proofs of the type invariant of Quotes, of what the platform is told,   *)
(* of the chase that was called off and of the saves that are refused, for *)
(* any number of requests, writes, faults and texts.                       *)
(***************************************************************************)
EXTENDS Quotes, FiniteSetTheorems, TLAPS

Row == [pc : { "idle", "write", "keep", "tell", "calloff", "look", "clear", "schedule" },
        op : { "none", "create", "edit", "send", "accept" },
        read : Nat, since : Nat, status : Statuses,
        left : SUBSET { "quote", "record" }, todo : SUBSET Step, ok : BOOLEAN]

\* The acceptance is on record and a version was kept as accepted.
Recorded == record /\ \E v \in versions : v[2] = "accepted"

\* What a request that accepts has seen to, by the await it is at.
HonestAt(r) ==
  /\ At(r, "tell") => Recorded
  /\ At(r, "write") /\ req[r].op = "accept" =>
       req[r].status = "accepted" /\ (req[r].ok /\ "record" \notin req[r].left => record)
  /\ At(r, "keep") /\ req[r].op = "accept" => req[r].status = "accepted" /\ record
Honest == (told => Recorded) /\ \A r \in Request : HonestAt(r)

\* While all is quiet nobody can schedule and the quote is not to be chased.
Silent == quiet => chase = {} /\ Scheduling = {} /\ quote.status # "sent"

-----------------------------------------------------------------------------
\* A request that is replaced by one of its type.
LEMMA Moves ==
  ASSUME TypeOK, NEW r \in Request, NEW q \in Row, req' = [req EXCEPT ![r] = q]
  PROVE  req' \in [Request -> Row] /\ req'[r] = q /\ \A p \in Request \ {r} : req'[p] = req[p]
BY DEF TypeOK, Row

LEMMA IdleIsRow == Idle \in Row
BY DEF Idle, Row, Statuses

LEMMA StopMoves ==
  ASSUME TypeOK, NEW r \in Request, Stop(r)
  PROVE  req' \in [Request -> Row] /\ req'[r] = Idle /\ \A p \in Request \ {r} : req'[p] = req[p]
BY Moves, IdleIsRow DEF Stop

LEMMA GotoMoves ==
  ASSUME TypeOK, NEW r \in Request,
         NEW pc \in { "idle", "write", "keep", "tell", "calloff", "look", "clear", "schedule" }, Goto(r, pc)
  PROVE  req' \in [Request -> Row] /\ req'[r].pc = pc /\ \A p \in Request \ {r} : req'[p] = req[p]
<1>1. req[r] \in Row BY DEF TypeOK, Row
<1>2. [req[r] EXCEPT !.pc = pc] \in Row /\ [req[r] EXCEPT !.pc = pc].pc = pc BY <1>1 DEF Row
<1>3. req' = [req EXCEPT ![r] = [req[r] EXCEPT !.pc = pc]] BY DEF Goto
<1> QED BY <1>2, <1>3, Moves

\* A write to the quote that the others have missed.
LEMMA MissedMoves ==
  ASSUME NEW running \in [Request -> Row]
  PROVE  /\ Missed(running) \in [Request -> Row]
         /\ \A p \in Request : /\ Missed(running)[p].pc = running[p].pc
                               /\ Missed(running)[p].op = running[p].op
                               /\ Missed(running)[p].status = running[p].status
                               /\ Missed(running)[p].left = running[p].left
                               /\ Missed(running)[p].ok = running[p].ok
<1>1. \A p \in Request : running[p] \in Row OBVIOUS
<1>2. \A p \in Request : [running[p] EXCEPT !.since = @ + 1] \in Row BY <1>1 DEF Row
<1> QED BY <1>1, <1>2 DEF Missed, Row

\* An answered write leaves the request waiting, at the version, or at its end.
LEMMA AnsweredIsRow ==
  ASSUME TypeOK, NEW r \in Request, At(r, "write"), NEW write, NEW ok \in BOOLEAN
  PROVE  LET q == Answered(r, write, ok) IN
         /\ q \in Row
         /\ \/ q = Idle
            \/ /\ q.op = req[r].op /\ q.status = req[r].status /\ q.left = req[r].left \ {write}
               /\ q.ok = (req[r].ok /\ ok)
               /\ q.pc = "write" \/ (q.pc = "keep" /\ q.left = {} /\ req[r].ok /\ ok)
<1> DEFINE s == [req[r] EXCEPT !.left = @ \ { write }, !.ok = @ /\ ok, !.since = IF write = "quote" THEN 0 ELSE @]
<1>1. req[r] \in Row BY DEF TypeOK, Row
<1>2. s \in Row /\ s.pc = "write" /\ s.op = req[r].op /\ s.status = req[r].status
      /\ s.left = req[r].left \ {write} /\ s.ok = (req[r].ok /\ ok)
  BY <1>1 DEF Row, At
<1>3. Answered(r, write, ok) = IF s.left # {} THEN s ELSE IF s.ok THEN [s EXCEPT !.pc = "keep"] ELSE Idle
  BY DEF Answered
<1> HIDE DEF s
<1>4. [s EXCEPT !.pc = "keep"] \in Row BY <1>2 DEF Row
<1>5. CASE s.left # {} BY <1>2, <1>3, <1>5
<1>6. CASE s.left = {} /\ s.ok
  <2> DEFINE k == [s EXCEPT !.pc = "keep"]
  <2>1. k.pc = "keep" /\ k.op = s.op /\ k.status = s.status /\ k.left = s.left /\ k.ok = s.ok BY <1>2 DEF Row
  <2>2. Answered(r, write, ok) = k BY <1>3, <1>6
  <2> HIDE DEF k
  <2> QED BY <2>1, <2>2, <1>2, <1>4, <1>6 DEF k
<1>7. CASE s.left = {} /\ ~s.ok BY <1>2, <1>3, <1>7, IdleIsRow
<1> QED BY <1>5, <1>6, <1>7

-----------------------------------------------------------------------------
\* The tables keep their types: one step for each action.
LEMMA TypeStep == TypeOK /\ [Next]_vars => TypeOK'
<1> SUFFICES ASSUME TypeOK, [Next]_vars PROVE TypeOK' OBVIOUS
<1> USE QuotesAssumption
<1>0. req \in [Request -> Row] /\ \A r \in Request : req[r] \in Row BY DEF TypeOK, Row
<1>a. ASSUME NEW status \in Statuses, NEW version \in Nat, Write(status, version)
      PROVE  quote' \in [status : Statuses \cup { "none" }, version : Nat] /\ writes' \in 0 .. MaxWrites /\ quiet' \in BOOLEAN
  BY <1>a DEF TypeOK, Write
<1>b. ASSUME req' \in [Request -> Row]
      PROVE  req' \in [Request -> [pc : { "idle", "write", "keep", "tell", "calloff", "look", "clear", "schedule" },
                         op : { "none", "create", "edit", "send", "accept" },
                         read : Nat, since : Nat, status : Statuses,
                         left : SUBSET { "quote", "record" }, todo : SUBSET Step, ok : BOOLEAN]]
  BY <1>b DEF Row
<1>c. ASSUME Fault PROVE faults' \in 0 .. MaxFaults BY <1>c DEF Fault, TypeOK
<1>1. ASSUME NEW r \in Request, NEW status \in Statuses, Create(r, status) PROVE TypeOK'
  <2>1. [Idle EXCEPT !.pc = "keep", !.op = "create", !.status = status] \in Row BY DEF Idle, Row, Statuses
  <2>2. req' \in [Request -> Row] BY <1>1, <2>1, Moves DEF Create
  <2> QED BY <1>1, <1>a, <1>b, <2>2 DEF Create, TypeOK, history
<1>2. ASSUME NEW r \in Request, NEW op \in { "edit", "send", "accept" }, NEW status \in Statuses, Read(r, op, status)
      PROVE TypeOK'
  <2> DEFINE q == [Idle EXCEPT !.pc = "write", !.op = op, !.read = quote.version, !.status = status,
                    !.left = { "quote" } \cup (IF op = "accept" THEN { "record" } ELSE {})]
  <2>1. quote.version \in Nat BY DEF TypeOK
  <2>2. q \in Row BY <2>1 DEF Idle, Row, Statuses
  <2>3. req' \in [Request -> Row] BY <1>2, <2>2, Moves DEF Read
  <2> QED BY <1>2, <1>b, <2>3 DEF Read, TypeOK, history, counters
<1>3. ASSUME NEW r \in Request, Update(r) PROVE TypeOK'
  <2>1. Answered(r, "quote", TRUE) \in Row BY <1>3, AnsweredIsRow DEF Update
  <2>2. [req EXCEPT ![r] = Answered(r, "quote", TRUE)] \in [Request -> Row] BY <1>0, <2>1
  <2>3. req' \in [Request -> Row] BY <1>3, <2>2, MissedMoves DEF Update
  <2>4. req[r].status \in Statuses /\ NextVersion(r) \in Nat /\ req[r].since \in Nat BY <1>0 DEF Row, NextVersion
  <2>5. overtaken' \in Nat BY <1>3, <2>4 DEF Update, TypeOK
  <2>6. Write(req[r].status, NextVersion(r)) BY <1>3 DEF Update
  <2> QED BY <1>3, <1>a, <1>b, <2>3, <2>4, <2>5, <2>6 DEF Update, TypeOK
<1>4. ASSUME NEW r \in Request, UpdateFails(r) PROVE TypeOK'
  <2>1. Answered(r, "quote", FALSE) \in Row BY <1>4, AnsweredIsRow DEF UpdateFails
  <2>2. req' \in [Request -> Row] BY <1>4, <2>1, Moves DEF UpdateFails
  <2> QED BY <1>4, <1>b, <1>c, <2>2 DEF UpdateFails, TypeOK, history
<1>5. ASSUME NEW r \in Request, Record(r) PROVE TypeOK'
  <2>1. Answered(r, "record", TRUE) \in Row BY <1>5, AnsweredIsRow DEF Record
  <2>2. req' \in [Request -> Row] BY <1>5, <2>1, Moves DEF Record
  <2> QED BY <1>5, <1>b, <2>2 DEF Record, TypeOK, history, counters
<1>6. ASSUME NEW r \in Request, RecordFails(r) PROVE TypeOK'
  <2>1. Answered(r, "record", FALSE) \in Row BY <1>6, AnsweredIsRow DEF RecordFails
  <2>2. req' \in [Request -> Row] BY <1>6, <2>1, Moves DEF RecordFails
  <2> QED BY <1>6, <1>b, <1>c, <2>2 DEF RecordFails, TypeOK, history
<1>7. ASSUME NEW r \in Request, Keep(r) PROVE TypeOK'
  <2>1. NextVersion(r) \in Nat /\ req[r].status \in Statuses /\ After(req[r].op) \in { "look", "tell", "idle" }
    BY <1>0 DEF Row, NextVersion, After
  <2>2. [Idle EXCEPT !.pc = After(req[r].op)] \in Row BY <2>1 DEF Idle, Row, Statuses
  <2>3. CASE Taken(NextVersion(r)) BY <1>7, <1>b, <2>3, StopMoves DEF Keep, TypeOK, counters
  <2>4. CASE ~Taken(NextVersion(r))
    <3>1. req' \in [Request -> Row] BY <1>7, <2>2, <2>4, Moves DEF Keep
    <3>2. versions' \subseteq Nat \X Statuses BY <1>7, <2>1, <2>4 DEF Keep, TypeOK
    <3> QED BY <1>7, <1>b, <2>4, <3>1, <3>2 DEF Keep, TypeOK, counters
  <2> QED BY <2>3, <2>4
<1>8. ASSUME NEW r \in Request, Tell(r) PROVE TypeOK'
  BY <1>8, <1>b, <1>c, GotoMoves DEF Tell, TypeOK
<1>9. ASSUME NEW r \in Request, Reject(r) PROVE TypeOK'
  <2>1. [Idle EXCEPT !.pc = "calloff"] \in Row BY DEF Idle, Row, Statuses
  <2>2. req' \in [Request -> Row] BY <1>9, <2>1, Moves DEF Reject
  <2>3. "declined" \in Statuses /\ quote.version \in Nat BY DEF Statuses, TypeOK
  <2> QED BY <1>9, <1>a, <1>b, <2>2, <2>3 DEF Reject, TypeOK, history
<1>10. ASSUME NEW r \in Request, CallOff(r) PROVE TypeOK'
  BY <1>10, <1>b, StopMoves DEF CallOff, TypeOK, history, counters
<1>11. ASSUME NEW r \in Request, LookAtQuote(r) PROVE TypeOK'
  BY <1>11, <1>b, StopMoves, GotoMoves DEF LookAtQuote, TypeOK, history, counters
<1>12. ASSUME NEW r \in Request, Clear(r) PROVE TypeOK'
  <2>1. [req[r] EXCEPT !.pc = "schedule", !.todo = Step] \in Row BY <1>0 DEF Row
  <2>2. req' = [req EXCEPT ![r] = [req[r] EXCEPT !.pc = "schedule", !.todo = Step]] BY <1>12 DEF Clear
  <2>3. req' \in [Request -> Row] BY <2>1, <2>2, Moves
  <2> QED BY <1>12, <1>b, <2>3 DEF Clear, TypeOK, history, counters
<1>13. ASSUME NEW r \in Request, NEW k \in Step, Schedule(r, k) PROVE TypeOK'
  <2>1. [req[r] EXCEPT !.todo = @ \ { k }] \in Row BY <1>0 DEF Row
  <2>2. Stop(r) \/ req' = [req EXCEPT ![r] = [req[r] EXCEPT !.todo = @ \ { k }]] BY <1>13 DEF Schedule
  <2>3. req' \in [Request -> Row] BY <2>1, <2>2, Moves, StopMoves
  <2> QED BY <1>13, <1>b, <2>3 DEF Schedule, TypeOK, history, counters
<1>14. ASSUME NEW r \in Request, Die(r) PROVE TypeOK'
  BY <1>14, <1>b, <1>c, StopMoves DEF Die, TypeOK, history
<1>15. ASSUME NEW status \in Statuses, PublicDecide(status), record' \in BOOLEAN PROVE TypeOK'
  <2>1. req' \in [Request -> Row] BY <1>15, <1>0, MissedMoves DEF PublicDecide
  <2>2. quote.version + 1 \in Nat BY DEF TypeOK
  <2> QED BY <1>15, <1>a, <1>b, <2>1, <2>2 DEF PublicDecide, TypeOK, history
<1>16. CASE PublicAccept BY <1>15, <1>16 DEF PublicAccept, Statuses
<1>17. CASE PublicReject BY <1>15, <1>17 DEF PublicReject, Statuses, TypeOK
<1>18. CASE Convert
  <2>1. "accepted" \in Statuses /\ quote.version \in Nat BY DEF Statuses, TypeOK
  <2> QED BY <1>18, <1>a, <2>1 DEF Convert, TypeOK, history
<1>19. ASSUME NEW k \in Step, Text(k) PROVE TypeOK' BY <1>19 DEF Text, TypeOK, history, counters
<1>20. CASE UNCHANGED vars BY <1>20 DEF vars, TypeOK
<1>21. ASSUME NEW r \in Request, Staff(r) PROVE TypeOK'
  BY <1>21, <1>1, <1>2, <1>3, <1>4, <1>5, <1>6, <1>7, <1>8, <1>9, <1>10, Zenon DEF Staff
<1>22. ASSUME NEW r \in Request, Chasing(r) PROVE TypeOK'
  BY <1>22, <1>11, <1>12, <1>13, Zenon DEF Chasing
<1>23. CASE Next BY <1>14, <1>16, <1>17, <1>18, <1>19, <1>21, <1>22, <1>23, Zenon DEF Next
<1> QED BY <1>20, <1>23

LEMMA TypeInit == Init => TypeOK
<1> SUFFICES ASSUME Init PROVE TypeOK OBVIOUS
<1>1. req \in [Request -> Row]
  <2>1. Idle \in Row BY IdleIsRow
  <2>2. req = [r \in Request |-> Idle] BY DEF Init
  <2> QED BY <2>1, <2>2
<1>2. quote \in [status : Statuses \cup { "none" }, version : Nat] BY DEF Init
<1>3. writes \in 0 .. MaxWrites /\ faults \in 0 .. MaxFaults /\ overtaken \in Nat /\ collisions \in Nat
  BY QuotesAssumption DEF Init
<1>4. versions \subseteq Nat \X Statuses /\ chase \subseteq Step BY DEF Init
<1>5. record \in BOOLEAN /\ told \in BOOLEAN /\ quiet \in BOOLEAN BY DEF Init
<1> QED BY <1>1, <1>2, <1>3, <1>4, <1>5 DEF TypeOK, Row

\* The quote, its versions, the requests and the counters keep their types, for any
\* numbers of requests, writes and faults (quotes routes and quote-chase.ts).
THEOREM TypeCorrect == Spec => []TypeOK
BY TypeInit, TypeStep, PTL DEF Spec

-----------------------------------------------------------------------------
\* What the honesty of a request is read off stands still, and nothing is taken back.
Same(p) == /\ req'[p].pc = req[p].pc /\ req'[p].op = req[p].op /\ req'[p].status = req[p].status
           /\ req'[p].left = req[p].left /\ req'[p].ok = req[p].ok
Grows == (record => record') /\ versions \subseteq versions'

\* The requests that do not move stay honest.
LEMMA Others ==
  ASSUME NEW p \in Request, HonestAt(p), Same(p), Grows
  PROVE  HonestAt(p)'
<1>1. Recorded => Recorded' BY DEF Recorded, Grows
<1> QED BY <1>1 DEF HonestAt, Same, Grows, At

\* One request moves and is honest still; the platform is told nothing new.
LEMMA OneMoves ==
  ASSUME Honest, Grows, told' = told, NEW r \in Request, HonestAt(r)',
         \A p \in Request \ {r} : Same(p)
  PROVE  Honest'
<1>1. told' => Recorded' BY DEF Honest, Recorded, Grows
<1>2. \A p \in Request \ {r} : HonestAt(p)' BY Others DEF Honest
<1> QED BY <1>1, <1>2 DEF Honest

\* The acceptance's row, the versions kept and what the platform is told agree.
LEMMA HonestStep == TypeOK /\ Honest /\ [Next]_vars => Honest'
<1> SUFFICES ASSUME TypeOK, Honest, [Next]_vars PROVE Honest' OBVIOUS
<1>0. \A r \in Request : req[r] \in Row /\ HonestAt(r) BY DEF TypeOK, Row, Honest
<1>a. ASSUME NEW r \in Request, Grows, told' = told, \A p \in Request \ {r} : req'[p] = req[p], HonestAt(r)'
      PROVE  Honest'
  BY <1>a, OneMoves DEF Same
<1>b. ASSUME NEW r \in Request, req'[r].pc \notin { "tell", "write", "keep" } PROVE HonestAt(r)'
  BY <1>b DEF HonestAt, At
\* After an answer: req'[r] may only differ from q in what it has missed.
<1>c. ASSUME NEW r \in Request, At(r, "write"), NEW write \in { "quote", "record" }, NEW ok \in BOOLEAN,
             req'[r].pc = Answered(r, write, ok).pc, req'[r].op = Answered(r, write, ok).op,
             req'[r].status = Answered(r, write, ok).status, req'[r].left = Answered(r, write, ok).left,
             req'[r].ok = Answered(r, write, ok).ok,
             record => record', write = "record" /\ ok => record'
      PROVE  HonestAt(r)'
  <2> DEFINE q == Answered(r, write, ok)
  <2>1. \/ q = Idle
        \/ /\ q.op = req[r].op /\ q.status = req[r].status /\ q.left = req[r].left \ {write}
           /\ q.ok = (req[r].ok /\ ok)
           /\ q.pc = "write" \/ (q.pc = "keep" /\ q.left = {} /\ req[r].ok /\ ok)
    BY <1>c, AnsweredIsRow
  <2>2. HonestAt(r) /\ req[r].ok \in BOOLEAN BY <1>0 DEF Row
  <2>3. req'[r].pc = q.pc /\ req'[r].op = q.op /\ req'[r].status = q.status /\ req'[r].left = q.left /\ req'[r].ok = q.ok
    BY <1>c
  <2> HIDE DEF q
  <2>4. CASE q = Idle BY <1>b, <2>3, <2>4 DEF Idle
  <2>5. CASE /\ q.op = req[r].op /\ q.status = req[r].status /\ q.left = req[r].left \ {write}
             /\ q.ok = (req[r].ok /\ ok)
             /\ q.pc = "write" \/ (q.pc = "keep" /\ q.left = {} /\ req[r].ok /\ ok)
    <3>1. req[r].op = "accept" => req[r].status = "accepted" /\ (req[r].ok /\ "record" \notin req[r].left => record)
      BY <1>c, <2>2 DEF HonestAt
    <3>2. req[r].op = "accept" /\ req[r].ok /\ ok /\ "record" \notin q.left => record'
      BY <1>c, <2>5, <3>1
    <3> QED BY <2>3, <2>5, <3>1, <3>2 DEF HonestAt, At
  <2> QED BY <2>1, <2>4, <2>5
<1>1. ASSUME NEW r \in Request, NEW status \in Statuses, Create(r, status) PROVE Honest'
  <2> DEFINE q == [Idle EXCEPT !.pc = "keep", !.op = "create", !.status = status]
  <2>1. q \in Row /\ q.pc = "keep" /\ q.op = "create" BY DEF Idle, Row, Statuses
  <2>2. req'[r] = q /\ \A p \in Request \ {r} : req'[p] = req[p] BY <1>1, <2>1, Moves DEF Create
  <2> HIDE DEF q
  <2>3. HonestAt(r)' BY <2>1, <2>2 DEF HonestAt, At
  <2> QED BY <1>1, <1>a, <2>2, <2>3 DEF Create, Grows, history
<1>2. ASSUME NEW r \in Request, NEW op \in { "edit", "send", "accept" }, NEW status \in Statuses, Read(r, op, status)
      PROVE Honest'
  <2> DEFINE left == { "quote" } \cup (IF op = "accept" THEN { "record" } ELSE {})
             q == [Idle EXCEPT !.pc = "write", !.op = op, !.read = quote.version, !.status = status, !.left = left]
  <2>1. quote.version \in Nat /\ left \in SUBSET { "quote", "record" } BY DEF TypeOK
  <2>2. op = "accept" => "record" \in left OBVIOUS
  <2> HIDE DEF left
  <2>3. q \in Row /\ q.pc = "write" /\ q.op = op /\ q.status = status /\ q.left = left BY <2>1 DEF Idle, Row, Statuses
  <2>4. req' = [req EXCEPT ![r] = q] BY <1>2 DEF Read, left
  <2>5. op = "accept" => status = "accepted" BY <1>2 DEF Read
  <2> HIDE DEF q
  <2>6. req'[r] = q /\ \A p \in Request \ {r} : req'[p] = req[p] BY <2>3, <2>4, Moves
  <2>7. HonestAt(r)' BY <2>2, <2>3, <2>5, <2>6 DEF HonestAt, At
  <2> QED BY <1>2, <1>a, <2>6, <2>7 DEF Read, Grows, history, counters
<1>3. ASSUME NEW r \in Request, Update(r) PROVE Honest'
  <2> DEFINE q == Answered(r, "quote", TRUE)
             running == [req EXCEPT ![r] = q]
  <2>1. q \in Row BY <1>3, AnsweredIsRow DEF Update
  <2> HIDE DEF q
  <2>2. running \in [Request -> Row] /\ running[r] = q /\ \A p \in Request \ {r} : running[p] = req[p]
    BY <1>0, <2>1 DEF TypeOK, Row
  <2>3. req' = Missed(running) BY <1>3 DEF Update, q
  <2> HIDE DEF running
  <2>4. \A p \in Request : /\ req'[p].pc = running[p].pc /\ req'[p].op = running[p].op
                           /\ req'[p].status = running[p].status
                           /\ req'[p].left = running[p].left /\ req'[p].ok = running[p].ok
    BY <2>2, <2>3, MissedMoves
  <2>5. \A p \in Request \ {r} : Same(p) BY <2>2, <2>4 DEF Same
  <2>6. HonestAt(r)' BY <1>3, <1>c, <2>2, <2>4 DEF Update, q
  <2> QED BY <1>3, <2>5, <2>6, OneMoves DEF Update, Grows
<1>4. ASSUME NEW r \in Request, UpdateFails(r) PROVE Honest'
  <2>1. Answered(r, "quote", FALSE) \in Row BY <1>4, AnsweredIsRow DEF UpdateFails
  <2>2. req'[r] = Answered(r, "quote", FALSE) /\ \A p \in Request \ {r} : req'[p] = req[p]
    BY <1>4, <2>1, Moves DEF UpdateFails
  <2>3. HonestAt(r)' BY <1>4, <1>c, <2>2 DEF UpdateFails
  <2> QED BY <1>4, <1>a, <2>2, <2>3 DEF UpdateFails, Grows, history
<1>5. ASSUME NEW r \in Request, Record(r) PROVE Honest'
  <2>1. Answered(r, "record", TRUE) \in Row BY <1>5, AnsweredIsRow DEF Record
  <2>2. req'[r] = Answered(r, "record", TRUE) /\ \A p \in Request \ {r} : req'[p] = req[p]
    BY <1>5, <2>1, Moves DEF Record
  <2>3. HonestAt(r)' BY <1>5, <1>c, <2>2 DEF Record
  <2> QED BY <1>5, <1>a, <2>2, <2>3 DEF Record, Grows, history
<1>6. ASSUME NEW r \in Request, RecordFails(r) PROVE Honest'
  <2>1. Answered(r, "record", FALSE) \in Row BY <1>6, AnsweredIsRow DEF RecordFails
  <2>2. req'[r] = Answered(r, "record", FALSE) /\ \A p \in Request \ {r} : req'[p] = req[p]
    BY <1>6, <2>1, Moves DEF RecordFails
  <2>3. HonestAt(r)' BY <1>6, <1>c, <2>2 DEF RecordFails
  <2> QED BY <1>6, <1>a, <2>2, <2>3 DEF RecordFails, Grows, history
<1>7. ASSUME NEW r \in Request, Keep(r) PROVE Honest'
  <2>1. CASE Taken(NextVersion(r))
    <3>1. Stop(r) BY <1>7, <2>1 DEF Keep
    <3>2. HonestAt(r)' BY <1>b, <3>1, StopMoves DEF Idle
    <3> QED BY <1>7, <1>a, <2>1, <3>1, <3>2, StopMoves DEF Keep, Grows
  <2>2. CASE ~Taken(NextVersion(r))
    <3> DEFINE q == [Idle EXCEPT !.pc = After(req[r].op)]
    <3>1. After(req[r].op) \in { "look", "tell", "idle" } /\ (After(req[r].op) = "tell" => req[r].op = "accept")
      BY <1>0 DEF Row, After
    <3>2. q \in Row /\ q.pc = After(req[r].op) BY <3>1 DEF Idle, Row, Statuses
    <3>3. req' = [req EXCEPT ![r] = q] BY <1>7, <2>2 DEF Keep
    <3> HIDE DEF q
    <3>4. req'[r] = q /\ \A p \in Request \ {r} : req'[p] = req[p] BY <3>2, <3>3, Moves
    <3>5. versions' = versions \cup { << NextVersion(r), req[r].status >> } /\ record' = record /\ told' = told
      BY <1>7, <2>2 DEF Keep
    <3>6. req[r].op = "accept" => req[r].status = "accepted" /\ record BY <1>0, <1>7 DEF HonestAt, Keep
    <3>7. ASSUME req[r].op = "accept" PROVE Recorded'
      <4> DEFINE row == << NextVersion(r), req[r].status >>
      <4>1. row \in versions' /\ row[2] = "accepted" BY <3>5, <3>6, <3>7
      <4> HIDE DEF row
      <4> QED BY <3>5, <3>6, <3>7, <4>1 DEF Recorded
    <3>8. HonestAt(r)' BY <3>1, <3>2, <3>4, <3>7 DEF HonestAt, At
    <3> QED BY <1>a, <3>4, <3>5, <3>8 DEF Grows
  <2> QED BY <2>1, <2>2
<1>8. ASSUME NEW r \in Request, Tell(r) PROVE Honest'
  <2>1. req'[r].pc = "calloff" /\ \A p \in Request \ {r} : req'[p] = req[p] BY <1>8, GotoMoves DEF Tell
  <2>2. HonestAt(r)' BY <1>b, <2>1
  <2>3. Grows BY <1>8 DEF Tell, Grows
  <2>4. \A p \in Request \ {r} : HonestAt(p)' BY <1>0, <2>1, <2>3, Others DEF Same
  <2>5. Recorded BY <1>0, <1>8 DEF HonestAt, Tell
  <2>6. Recorded' BY <2>3, <2>5 DEF Recorded, Grows
  <2> QED BY <2>2, <2>4, <2>6 DEF Honest
<1>9. ASSUME NEW r \in Request, Reject(r) PROVE Honest'
  <2>1. [Idle EXCEPT !.pc = "calloff"] \in Row /\ [Idle EXCEPT !.pc = "calloff"].pc = "calloff"
    BY DEF Idle, Row, Statuses
  <2>2. req'[r].pc = "calloff" /\ \A p \in Request \ {r} : req'[p] = req[p] BY <1>9, <2>1, Moves DEF Reject
  <2> QED BY <1>9, <1>a, <1>b, <2>2 DEF Reject, Grows, history
<1>10. ASSUME NEW r \in Request, CallOff(r) \/ Die(r) PROVE Honest'
  <2>1. HonestAt(r)' BY <1>10, <1>b, StopMoves DEF CallOff, Die, Idle
  <2> QED BY <1>10, <1>a, <2>1, StopMoves DEF CallOff, Die, Grows, history
<1>11. ASSUME NEW r \in Request, LookAtQuote(r) PROVE Honest'
  <2>1. req'[r].pc \in { "clear", "idle" } /\ \A p \in Request \ {r} : req'[p] = req[p]
    BY <1>11, StopMoves, GotoMoves DEF LookAtQuote, Idle
  <2>2. HonestAt(r)' BY <1>b, <2>1
  <2> QED BY <1>11, <1>a, <2>1, <2>2 DEF LookAtQuote, Grows, history
<1>12. ASSUME NEW r \in Request, Clear(r) PROVE Honest'
  <2> DEFINE q == [req[r] EXCEPT !.pc = "schedule", !.todo = Step]
  <2>1. q \in Row /\ q.pc = "schedule" BY <1>0 DEF Row
  <2>2. req' = [req EXCEPT ![r] = q] BY <1>12 DEF Clear
  <2> HIDE DEF q
  <2>3. req'[r] = q /\ \A p \in Request \ {r} : req'[p] = req[p] BY <2>1, <2>2, Moves
  <2>4. HonestAt(r)' BY <1>b, <2>1, <2>3
  <2> QED BY <1>12, <1>a, <2>3, <2>4 DEF Clear, Grows, history
<1>13. ASSUME NEW r \in Request, NEW k \in Step, Schedule(r, k) PROVE Honest'
  <2> DEFINE q == [req[r] EXCEPT !.todo = @ \ { k }]
  <2>1. q \in Row /\ q.pc = "schedule" BY <1>0, <1>13 DEF Row, Schedule, At
  <2>2. Stop(r) \/ req' = [req EXCEPT ![r] = q] BY <1>13 DEF Schedule
  <2> HIDE DEF q
  <2>3. req'[r].pc \in { "idle", "schedule" } /\ \A p \in Request \ {r} : req'[p] = req[p]
    BY <2>1, <2>2, Moves, StopMoves DEF Idle
  <2>4. HonestAt(r)' BY <1>b, <2>3
  <2> QED BY <1>13, <1>a, <2>3, <2>4 DEF Schedule, Grows, history
<1>14. ASSUME Grows, told' = told, \A p \in Request : Same(p) PROVE Honest'
  <2>1. told' => Recorded' BY <1>14 DEF Honest, Recorded, Grows
  <2> QED BY <1>14, <2>1, Others DEF Honest
<1>15. CASE PublicAccept \/ PublicReject
  <2>1. req' = Missed(req) BY <1>15 DEF PublicAccept, PublicReject, PublicDecide
  <2>2. \A p \in Request : Same(p) BY <2>1, MissedMoves DEF Same, TypeOK, Row
  <2>3. versions' = versions /\ told' = told /\ (record => record')
    BY <1>15 DEF PublicAccept, PublicReject, PublicDecide, history
  <2> QED BY <1>14, <2>2, <2>3 DEF Grows
<1>16. CASE Convert BY <1>14, <1>16 DEF Convert, Same, Grows, history
<1>17. ASSUME NEW k \in Step, Text(k) PROVE Honest' BY <1>14, <1>17 DEF Text, Same, Grows, history
<1>18. CASE UNCHANGED vars BY <1>14, <1>18 DEF vars, Same, Grows
<1>19. ASSUME NEW r \in Request, Staff(r) \/ Chasing(r) \/ Die(r) PROVE Honest'
  <2>1. CASE Staff(r)
    BY <2>1, <1>1, <1>2, <1>3, <1>4, <1>5, <1>6, <1>7, <1>8, <1>9, <1>10, Zenon DEF Staff
  <2>2. CASE Chasing(r) BY <2>2, <1>11, <1>12, <1>13, Zenon DEF Chasing
  <2> QED BY <1>19, <1>10, <2>1, <2>2
<1>20. CASE Next BY <1>15, <1>16, <1>17, <1>19, <1>20, Zenon DEF Next
<1> QED BY <1>18, <1>20

\* Whatever is refused, overtaken or killed, the platform is told of an acceptance
\* only when the acceptance is on record and a version was kept as accepted: the two
\* writes of the acceptance must both have been answered before the version is kept,
\* and the version before the event is enqueued (quotes/[id]/accept/route.ts:69-115).
THEOREM TellsCorrect == Spec => []TellsTruth
<1>1. Init => Honest
  <2>1. Init => \A r \in Request : req[r].pc = "idle" BY DEF Init, Idle
  <2> QED BY <2>1 DEF Init, Honest, HonestAt, At
<1>2. Honest => TellsTruth BY DEF Honest, Recorded, TellsTruth
<1> QED BY <1>1, <1>2, TypeInit, TypeStep, HonestStep, PTL DEF Spec

-----------------------------------------------------------------------------
\* Nobody begins to schedule, no text is added, and the quote is not sent.
LEMMA StaysSilent ==
  ASSUME Silent, quiet' => quiet /\ quote'.status # "sent" /\ chase' \subseteq chase,
         \A p \in Request : req'[p].pc \in { "clear", "schedule" } => req[p].pc \in { "clear", "schedule" }
  PROVE  Silent'
BY DEF Silent, Scheduling

\* The chase that was called off stays silent: one step for each group of actions.
LEMMA SilentStep == TypeOK /\ Silent /\ [Next]_vars => Silent'
<1> SUFFICES ASSUME TypeOK, Silent, [Next]_vars PROVE Silent' OBVIOUS
<1>0. \A r \in Request : req[r] \in Row BY DEF TypeOK, Row
<1>a. ASSUME NEW r \in Request, \A p \in Request \ {r} : req'[p] = req[p],
             req'[r].pc \notin { "clear", "schedule" }, chase' = chase,
             quiet' = (quiet /\ quote'.status # "sent") \/ (quiet' = quiet /\ quote' = quote)
      PROVE  Silent'
  BY <1>a, StaysSilent DEF Silent
<1>b. ASSUME NEW status, NEW version, Write(status, version)
      PROVE  quiet' = (quiet /\ quote'.status # "sent")
  BY <1>b DEF Write
<1>1. ASSUME NEW r \in Request, NEW status \in Statuses, Create(r, status) PROVE Silent'
  <2>1. [Idle EXCEPT !.pc = "keep", !.op = "create", !.status = status] \in Row
        /\ [Idle EXCEPT !.pc = "keep", !.op = "create", !.status = status].pc = "keep"
    BY DEF Idle, Row, Statuses
  <2>2. req'[r].pc = "keep" /\ \A p \in Request \ {r} : req'[p] = req[p] BY <1>1, <2>1, Moves DEF Create
  <2> QED BY <1>1, <1>a, <1>b, <2>2 DEF Create
<1>2. ASSUME NEW r \in Request, NEW op \in { "edit", "send", "accept" }, NEW status \in Statuses, Read(r, op, status)
      PROVE Silent'
  <2> DEFINE q == [Idle EXCEPT !.pc = "write", !.op = op, !.read = quote.version, !.status = status,
                    !.left = { "quote" } \cup (IF op = "accept" THEN { "record" } ELSE {})]
  <2>1. quote.version \in Nat BY DEF TypeOK
  <2>2. q \in Row /\ q.pc = "write" BY <2>1 DEF Idle, Row, Statuses
  <2>3. req' = [req EXCEPT ![r] = q] BY <1>2 DEF Read
  <2> HIDE DEF q
  <2>4. req'[r] = q /\ \A p \in Request \ {r} : req'[p] = req[p] BY <2>2, <2>3, Moves
  <2> QED BY <1>2, <1>a, <2>2, <2>4 DEF Read
\* The request that is answered waits, keeps its version or is at its end.
<1>c. ASSUME NEW r \in Request, At(r, "write"), NEW write, NEW ok \in BOOLEAN
      PROVE  Answered(r, write, ok) \in Row /\ Answered(r, write, ok).pc \in { "write", "keep", "idle" }
  BY <1>c, AnsweredIsRow DEF Idle
<1>3. ASSUME NEW r \in Request, Update(r) PROVE Silent'
  <2> DEFINE q == Answered(r, "quote", TRUE)
             running == [req EXCEPT ![r] = q]
  <2>1. q \in Row /\ q.pc \in { "write", "keep", "idle" } BY <1>3, <1>c DEF Update
  <2> HIDE DEF q
  <2>2. running \in [Request -> Row] /\ running[r] = q /\ \A p \in Request \ {r} : running[p] = req[p]
    BY <1>0, <2>1 DEF TypeOK, Row
  <2>3. req' = Missed(running) BY <1>3 DEF Update, q
  <2> HIDE DEF running
  <2>4. \A p \in Request : req'[p].pc = running[p].pc BY <2>2, <2>3, MissedMoves
  <2>5. quiet' = (quiet /\ quote'.status # "sent") BY <1>3, <1>b DEF Update
  <2> QED BY <1>3, <2>1, <2>2, <2>4, <2>5, StaysSilent DEF Update
<1>4. ASSUME NEW r \in Request, UpdateFails(r) \/ Record(r) \/ RecordFails(r) PROVE Silent'
  <2>1. PICK write \in { "quote", "record" }, ok \in BOOLEAN : req' = [req EXCEPT ![r] = Answered(r, write, ok)]
    BY <1>4 DEF UpdateFails, Record, RecordFails
  <2>2. Answered(r, write, ok) \in Row /\ Answered(r, write, ok).pc \in { "write", "keep", "idle" }
    BY <1>4, <1>c DEF UpdateFails, Record, RecordFails
  <2>3. req'[r] = Answered(r, write, ok) /\ \A p \in Request \ {r} : req'[p] = req[p] BY <2>1, <2>2, Moves
  <2>4. quiet' = quiet /\ quote' = quote /\ chase' = chase BY <1>4 DEF UpdateFails, Record, RecordFails
  <2> QED BY <1>a, <2>2, <2>3, <2>4
<1>5. ASSUME NEW r \in Request, Keep(r) PROVE Silent'
  <2>1. quiet' = quiet /\ quote' = quote /\ chase' = chase BY <1>5 DEF Keep
  <2>2. CASE Taken(NextVersion(r))
    <3>1. Stop(r) BY <1>5, <2>2 DEF Keep
    <3> QED BY <1>a, <2>1, <3>1, StopMoves DEF Idle
  <2>3. CASE ~Taken(NextVersion(r))
    <3> DEFINE q == [Idle EXCEPT !.pc = After(req[r].op)]
    <3>1. After(req[r].op) \in { "look", "tell", "idle" } BY <1>0 DEF Row, After
    <3>2. q \in Row /\ q.pc = After(req[r].op) BY <3>1 DEF Idle, Row, Statuses
    <3>3. req' = [req EXCEPT ![r] = q] BY <1>5, <2>3 DEF Keep
    <3> HIDE DEF q
    <3>4. req'[r] = q /\ \A p \in Request \ {r} : req'[p] = req[p] BY <3>2, <3>3, Moves
    <3> QED BY <1>a, <2>1, <3>1, <3>2, <3>4
  <2> QED BY <2>2, <2>3
<1>6. ASSUME NEW r \in Request, Tell(r) PROVE Silent'
  <2>1. req'[r].pc = "calloff" /\ \A p \in Request \ {r} : req'[p] = req[p] BY <1>6, GotoMoves DEF Tell
  <2> QED BY <1>6, <1>a, <2>1 DEF Tell
<1>7. ASSUME NEW r \in Request, Reject(r) PROVE Silent'
  <2>1. [Idle EXCEPT !.pc = "calloff"] \in Row /\ [Idle EXCEPT !.pc = "calloff"].pc = "calloff"
    BY DEF Idle, Row, Statuses
  <2>2. req'[r].pc = "calloff" /\ \A p \in Request \ {r} : req'[p] = req[p] BY <1>7, <2>1, Moves DEF Reject
  <2> QED BY <1>7, <1>a, <1>b, <2>2 DEF Reject
<1>8. ASSUME NEW r \in Request, CallOff(r) PROVE Silent'
  <2>1. req'[r].pc = "idle" /\ \A p \in Request \ {r} : req'[p] = req[p] BY <1>8, StopMoves DEF CallOff, Idle
  <2>2. chase' = {} /\ quote' = quote /\ (quiet' => quote.status # "sent" /\ Scheduling = {}) BY <1>8 DEF CallOff
  <2> QED BY <2>1, <2>2 DEF Silent, Scheduling
<1>9. ASSUME NEW r \in Request, LookAtQuote(r) PROVE Silent'
  <2>1. CASE quote.status = "sent" BY <1>9, <2>1 DEF LookAtQuote, Silent
  <2>2. CASE quote.status # "sent" BY <1>9, <1>a, <2>2, StopMoves DEF LookAtQuote, Idle
  <2> QED BY <2>1, <2>2
<1>10. ASSUME NEW r \in Request, NEW k, Clear(r) \/ Schedule(r, k) PROVE Silent'
  <2>1. r \in Scheduling BY <1>10 DEF Clear, Schedule, At, Scheduling
  <2> QED BY <1>10, <2>1 DEF Silent, Clear, Schedule
<1>11. ASSUME NEW r \in Request, Die(r) PROVE Silent'
  BY <1>11, <1>a, StopMoves DEF Die, Idle
<1>12. CASE PublicAccept \/ PublicReject
  <2>1. PICK status \in { "accepted", "declined" } : PublicDecide(status)
    BY <1>12 DEF PublicAccept, PublicReject
  <2>2. \A p \in Request : req'[p].pc = req[p].pc BY <2>1, MissedMoves DEF PublicDecide, TypeOK, Row
  <2>3. quiet' = (quiet /\ quote'.status # "sent") /\ chase' = chase BY <2>1, <1>b DEF PublicDecide
  <2> QED BY <2>2, <2>3, StaysSilent
<1>13. CASE Convert BY <1>13, <1>b, StaysSilent DEF Convert
<1>14. ASSUME NEW k \in Step, Text(k) PROVE Silent' BY <1>14, StaysSilent DEF Text, Silent
<1>15. CASE UNCHANGED vars BY <1>15, StaysSilent DEF vars, Silent
<1>16. ASSUME NEW r \in Request, Staff(r) \/ Chasing(r) PROVE Silent'
  <2>1. CASE Staff(r) BY <2>1, <1>1, <1>2, <1>3, <1>4, <1>5, <1>6, <1>7, <1>8, Zenon DEF Staff
  <2>2. CASE Chasing(r) BY <2>2, <1>9, <1>10, Zenon DEF Chasing
  <2> QED BY <1>16, <2>1, <2>2
<1>17. CASE Next BY <1>11, <1>12, <1>13, <1>14, <1>16, <1>17, Zenon DEF Next
<1> QED BY <1>15, <1>17

\* Once the staff's acceptance or rejection has called the chase off with nobody
\* scheduling, no text waits until the quote is sent again, even if a request that
\* sends it looks at it later: it looks before it schedules (quote-chase.ts:99).
THEOREM ChaseCorrect == Spec => []ChaseStops
<1>1. Init => Silent BY DEF Init, Silent
<1>2. Silent => ChaseStops BY DEF Silent, ChaseStops
<1> QED BY <1>1, <1>2, TypeInit, TypeStep, SilentStep, PTL DEF Spec

-----------------------------------------------------------------------------
(* Versions that are refused.                                              *)
(*                                                                         *)
(* Writes to the quote form a tree: each is numbered one more than the     *)
(* write it read.  The writes on the way from the first to the quote's own *)
(* are as many as its number, and all others were overwritten unseen by    *)
(* one on that way.  So there are at most as many writes as the number and *)
(* the overtaken ones together; the numbers up to it were each used by one *)
(* of them, and only those that are left can be refused.                   *)

\* The requests that will write the quote, and those that wrote it and will keep it.
Writing == { r \in Request : At(r, "write") /\ "quote" \in req[r].left }
Keeping == { r \in Request : At(r, "keep") \/ (At(r, "write") /\ "quote" \notin req[r].left /\ req[r].ok) }

\* The numbers that were written: kept, to be kept, or lost (not kept by the customer's
\* writes and by requests that failed or were killed).
Numbered(lost) == lost \cup { v[1] : v \in versions } \cup { NextVersion(r) : r \in Keeping }
\* As many writes as these at least.
Uses(lost) == Cardinality(lost) + Cardinality(versions) + Cardinality(Keeping) + collisions

\* From the quote, and from what a request has read, the way back has every number.
Chain(lost) ==
  /\ 1 .. quote.version \subseteq Numbered(lost)
  /\ Uses(lost) <= quote.version + overtaken
  /\ \A r \in Writing : /\ 1 .. req[r].read \subseteq Numbered(lost)
                        /\ Uses(lost) <= req[r].read + req[r].since + overtaken

VersionsInv ==
  /\ IsFiniteSet(versions) /\ IsFiniteSet(Keeping)
  /\ quote.status = "none" => quote.version = 0 /\ Writing = {}
  /\ \E lost \in SUBSET Nat : IsFiniteSet(lost) /\ Chain(lost)

-----------------------------------------------------------------------------
\* What a missed write and an answer leave of the numbers of a request.
LEMMA MissedReads ==
  ASSUME NEW running \in [Request -> Row], NEW p \in Request
  PROVE  /\ Missed(running)[p].read = running[p].read
         /\ "quote" \in running[p].left => Missed(running)[p].since = running[p].since + 1
<1>1. running[p] \in Row OBVIOUS
<1>2. [running[p] EXCEPT !.since = @ + 1].since = running[p].since + 1
      /\ [running[p] EXCEPT !.since = @ + 1].read = running[p].read
  BY <1>1 DEF Row
<1> QED BY <1>2 DEF Missed

LEMMA AnsweredReads ==
  ASSUME TypeOK, NEW r \in Request, NEW write, NEW ok \in BOOLEAN
  PROVE  LET q == Answered(r, write, ok) IN
         q = Idle \/ (q.read = req[r].read /\ (write # "quote" => q.since = req[r].since))
<1> DEFINE s == [req[r] EXCEPT !.left = @ \ { write }, !.ok = @ /\ ok, !.since = IF write = "quote" THEN 0 ELSE @]
<1>1. req[r] \in Row BY DEF TypeOK, Row
<1>2. s \in Row /\ s.read = req[r].read /\ (write # "quote" => s.since = req[r].since) BY <1>1 DEF Row
<1>3. Answered(r, write, ok) = IF s.left # {} THEN s ELSE IF s.ok THEN [s EXCEPT !.pc = "keep"] ELSE Idle
  BY DEF Answered
<1> HIDE DEF s
<1>4. [s EXCEPT !.pc = "keep"].read = s.read /\ [s EXCEPT !.pc = "keep"].since = s.since BY <1>2 DEF Row
<1> QED BY <1>2, <1>3, <1>4

LEMMA NumbersAre == TypeOK => \A r \in Request : /\ req[r].read \in Nat /\ req[r].since \in Nat
                                                 /\ NextVersion(r) \in Nat
BY DEF TypeOK, NextVersion

\* One more, and one less.
LEMMA OneMore ==
  ASSUME NEW S, NEW x, IsFiniteSet(S)
  PROVE  /\ IsFiniteSet(S \cup {x}) /\ Cardinality(S) \in Nat /\ Cardinality(S \cup {x}) \in Nat
         /\ Cardinality(S \cup {x}) <= Cardinality(S) + 1
         /\ x \notin S => Cardinality(S \cup {x}) = Cardinality(S) + 1
<1>1. Cardinality(S) \in Nat BY FS_CardinalityType
<1>2. IsFiniteSet(S \cup {x}) BY FS_AddElement
<1>3. Cardinality(S \cup {x}) \in Nat BY <1>2, FS_CardinalityType
<1>4. CASE x \in S
  <2>1. S \cup {x} = S BY <1>4
  <2> QED BY <1>1, <1>2, <1>4, <2>1
<1>5. CASE x \notin S BY <1>1, <1>2, <1>5, FS_AddElement
<1> QED BY <1>1, <1>2, <1>3, <1>4, <1>5

LEMMA OneLess ==
  ASSUME NEW S, NEW x \in S, IsFiniteSet(S)
  PROVE  /\ IsFiniteSet(S \ {x}) /\ Cardinality(S) \in Nat /\ Cardinality(S \ {x}) \in Nat
         /\ Cardinality(S) = Cardinality(S \ {x}) + 1
<1>1. Cardinality(S) \in Nat BY FS_CardinalityType
<1>2. IsFiniteSet(S \ {x}) /\ Cardinality(S \ {x}) = Cardinality(S) - 1 BY FS_RemoveElement
<1>3. Cardinality(S \ {x}) \in Nat BY <1>2, FS_CardinalityType
<1> QED BY <1>1, <1>2, <1>3

LEMMA UnionCount ==
  ASSUME NEW S, NEW T, IsFiniteSet(S), IsFiniteSet(T)
  PROVE  /\ IsFiniteSet(S \cup T) /\ Cardinality(S \cup T) \in Nat
         /\ Cardinality(S \cup T) <= Cardinality(S) + Cardinality(T)
<1>1. IsFiniteSet(S \cup T) /\ Cardinality(S \cup T) = Cardinality(S) + Cardinality(T) - Cardinality(S \cap T)
  BY FS_Union
<1>2. IsFiniteSet(S \cap T) BY FS_Subset
<1>3. Cardinality(S) \in Nat /\ Cardinality(T) \in Nat /\ Cardinality(S \cap T) \in Nat /\ Cardinality(S \cup T) \in Nat
  BY <1>1, <1>2, FS_CardinalityType
<1> QED BY <1>1, <1>3

LEMMA UsesCount ==
  ASSUME TypeOK, VersionsInv, NEW lost, IsFiniteSet(lost)
  PROVE  /\ Cardinality(lost) \in Nat /\ Cardinality(versions) \in Nat /\ Cardinality(Keeping) \in Nat
         /\ Uses(lost) \in Nat
BY FS_CardinalityType DEF VersionsInv, Uses, TypeOK

\* Nothing is written: the numbers are accounted for as before.
LEMMA ChainStays ==
  ASSUME TypeOK, NEW lost, Chain(lost), NEW other,
         quote'.version = quote.version, overtaken' = overtaken,
         Uses(lost) \in Nat, Uses(other)' \in Nat, Uses(other)' <= Uses(lost), Numbered(lost) \subseteq Numbered(other)',
         \A r \in Writing' : \/ r \in Writing /\ req'[r].read = req[r].read /\ req'[r].since = req[r].since
                             \/ req'[r].read = quote.version /\ req'[r].since = 0
  PROVE  Chain(other)'
<1>1. overtaken \in Nat /\ quote.version \in Nat BY DEF TypeOK
<1>2. 1 .. quote'.version \subseteq Numbered(other)' /\ Uses(other)' <= quote'.version + overtaken' BY <1>1 DEF Chain
<1>3. ASSUME NEW r \in Writing'
      PROVE  1 .. req'[r].read \subseteq Numbered(other)' /\ Uses(other)' <= req'[r].read + req'[r].since + overtaken'
  <2>1. CASE r \in Writing /\ req'[r].read = req[r].read /\ req'[r].since = req[r].since
    <3>1. req[r].read \in Nat /\ req[r].since \in Nat BY <2>1, NumbersAre DEF Writing
    <3>2. Uses(lost) <= req[r].read + req[r].since + overtaken /\ 1 .. req[r].read \subseteq Numbered(lost)
      BY <2>1 DEF Chain
    <3>3. Uses(other)' <= req[r].read + req[r].since + overtaken BY <1>1, <3>1, <3>2
    <3> QED BY <2>1, <3>2, <3>3
  <2>2. CASE req'[r].read = quote.version /\ req'[r].since = 0
    <3>1. Uses(other)' <= quote.version + 0 + overtaken BY <1>1, <1>2
    <3> QED BY <1>2, <2>2, <3>1
  <2> QED BY <1>3, <2>1, <2>2
<1> QED BY <1>2, <1>3 DEF Chain

\* A number is written by one who knows the way back from the number before it.
LEMMA ChainGrows ==
  ASSUME TypeOK, NEW lost, Chain(lost), NEW other, NEW read \in Nat,
         1 .. read \subseteq Numbered(lost), Uses(lost) <= read + overtaken',
         quote'.version = read + 1, overtaken' \in Nat, overtaken <= overtaken',
         Uses(lost) \in Nat, Uses(other)' \in Nat, Uses(other)' <= Uses(lost) + 1,
         Numbered(lost) \cup { read + 1 } \subseteq Numbered(other)',
         \A r \in Writing' : r \in Writing /\ req'[r].read = req[r].read /\ req'[r].since = req[r].since + 1
  PROVE  Chain(other)'
<1>1. overtaken \in Nat BY DEF TypeOK
<1>2. Uses(other)' <= quote'.version + overtaken' OBVIOUS
<1>3. 1 .. quote'.version \subseteq Numbered(other)'
  <2>1. \A n \in 1 .. (read + 1) : n \in 1 .. read \/ n = read + 1 OBVIOUS
  <2> QED BY <2>1
<1>4. ASSUME NEW r \in Writing'
      PROVE  1 .. req'[r].read \subseteq Numbered(other)' /\ Uses(other)' <= req'[r].read + req'[r].since + overtaken'
  <2>1. r \in Writing /\ req'[r].read = req[r].read /\ req'[r].since = req[r].since + 1 BY <1>4
  <2>2. req[r].read \in Nat /\ req[r].since \in Nat BY <2>1, NumbersAre DEF Writing
  <2>3. Uses(lost) <= req[r].read + req[r].since + overtaken /\ 1 .. req[r].read \subseteq Numbered(lost)
    BY <2>1 DEF Chain
  <2>4. Uses(other)' <= req[r].read + (req[r].since + 1) + overtaken' BY <1>1, <2>2, <2>3
  <2> QED BY <2>1, <2>3, <2>4
<1> QED BY <1>2, <1>3, <1>4 DEF Chain

\* A request goes on without writing: it keeps the number it wrote, or that number is
\* lost; if it is to write, it has just read or read before.
LEMMA VersionsQuiet ==
  ASSUME TypeOK, TypeOK', VersionsInv, NEW r \in Request, \A p \in Request \ {r} : req'[p] = req[p],
         UNCHANGED << versions, collisions, overtaken >>, quote'.version = quote.version,
         quote'.status = "none" => quote.status = "none",
         r \in Keeping' => r \in Keeping /\ req'[r].read = req[r].read,
         r \in Writing' => \/ r \in Writing /\ req'[r].read = req[r].read /\ req'[r].since = req[r].since
                           \/ quote.status # "none" /\ req'[r].read = quote.version /\ req'[r].since = 0
  PROVE  VersionsInv'
<1>1. PICK lost \in SUBSET Nat : IsFiniteSet(lost) /\ Chain(lost) BY DEF VersionsInv
<1>2. IsFiniteSet(versions) /\ IsFiniteSet(Keeping) BY DEF VersionsInv
<1>3. \A p \in Request \ {r} : /\ p \in Keeping' <=> p \in Keeping
                               /\ p \in Writing' <=> p \in Writing
                               /\ NextVersion(p)' = NextVersion(p)
  BY DEF Keeping, Writing, At, NextVersion
<1>4. Keeping \subseteq Request /\ Keeping' \subseteq Request /\ Writing \subseteq Request /\ Writing' \subseteq Request
  BY DEF Keeping, Writing
<1>5. NextVersion(r) \in Nat BY NumbersAre
<1>6. Uses(lost) \in Nat /\ Cardinality(lost) \in Nat /\ Cardinality(versions) \in Nat
      /\ Cardinality(Keeping) \in Nat /\ collisions \in Nat
  BY <1>1, UsesCount DEF TypeOK
<1>7. \A p \in Writing' : \/ p \in Writing /\ req'[p].read = req[p].read /\ req'[p].since = req[p].since
                          \/ req'[p].read = quote.version /\ req'[p].since = 0
  BY <1>3, <1>4
<1>8. quote'.status = "none" => quote'.version = 0 /\ Writing' = {} BY <1>3, <1>4 DEF VersionsInv
<1>9. CASE r \in Keeping => r \in Keeping'
  <2>1. Keeping' = Keeping BY <1>3, <1>4, <1>9
  <2>2. \A p \in Keeping : NextVersion(p)' = NextVersion(p) BY <1>3, <1>4, <1>9 DEF NextVersion
  <2>3. Numbered(lost) \subseteq Numbered(lost)' BY <2>1, <2>2 DEF Numbered
  <2>4. Uses(lost)' = Uses(lost) BY <2>1 DEF Uses
  <2>5. Chain(lost)' BY <1>1, <1>6, <1>7, <2>3, <2>4, ChainStays
  <2> QED BY <1>1, <1>2, <1>8, <2>1, <2>5 DEF VersionsInv
<1>10. CASE r \in Keeping /\ r \notin Keeping'
  <2>0. PICK number \in Nat : number = NextVersion(r) BY <1>5
  <2> DEFINE other == lost \cup {number}
  <2>1. Keeping' = Keeping \ {r} BY <1>3, <1>4, <1>10
  <2>2. \A p \in Keeping : p = r \/ (p \in Keeping' /\ NextVersion(p)' = NextVersion(p)) BY <1>3, <1>4, <2>1
  <2>3. Numbered(lost) \subseteq Numbered(other)' BY <2>0, <2>2 DEF Numbered
  <2>4. /\ IsFiniteSet(other) /\ other \in SUBSET Nat
        /\ Cardinality(other) \in Nat /\ Cardinality(other) <= Cardinality(lost) + 1
    BY <1>1, OneMore
  <2>5. IsFiniteSet(Keeping') /\ Cardinality(Keeping') \in Nat /\ Cardinality(Keeping) = Cardinality(Keeping') + 1
    BY <1>2, <1>10, <2>1, OneLess
  <2> HIDE DEF other
  <2>6. Uses(other)' = Cardinality(other) + Cardinality(versions) + Cardinality(Keeping') + collisions BY DEF Uses
  <2>7. Uses(lost) = Cardinality(lost) + Cardinality(versions) + Cardinality(Keeping) + collisions BY DEF Uses
  <2>8. Uses(other)' \in Nat /\ Uses(other)' <= Uses(lost) BY <1>6, <2>4, <2>5, <2>6, <2>7
  <2>9. Chain(other)' BY <1>1, <1>6, <1>7, <2>3, <2>8, ChainStays
  <2> QED BY <1>2, <1>8, <2>4, <2>5, <2>9 DEF VersionsInv
<1> QED BY <1>9, <1>10

\* The quote is written with the number after one that was read; whoever wrote it will
\* keep that number, or it is lost.
LEMMA VersionsGrow ==
  ASSUME TypeOK, TypeOK', VersionsInv, NEW read \in Nat, NEW R \in SUBSET Request, R = {} \/ \E r \in Request : R = {r},
         \A p \in Request \ R : /\ p \in Keeping' <=> p \in Keeping
                                /\ p \in Writing' => p \in Writing /\ req'[p].since = req[p].since + 1
                                /\ req'[p].read = req[p].read,
         \A p \in R : p \notin Keeping /\ p \notin Writing' /\ (p \in Keeping' => req'[p].read = read),
         UNCHANGED << versions, collisions >>, quote'.status # "none",
         quote'.version = read + 1, overtaken <= overtaken',
         \A lost \in SUBSET Nat : IsFiniteSet(lost) /\ Chain(lost) =>
           1 .. read \subseteq Numbered(lost) /\ Uses(lost) <= read + overtaken'
  PROVE  VersionsInv'
<1>1. PICK lost \in SUBSET Nat : IsFiniteSet(lost) /\ Chain(lost) BY DEF VersionsInv
<1>2. IsFiniteSet(versions) /\ IsFiniteSet(Keeping) BY DEF VersionsInv
<1>3. Keeping \subseteq Request /\ Keeping' \subseteq Request /\ Writing \subseteq Request /\ Writing' \subseteq Request
  BY DEF Keeping, Writing
<1>4. Uses(lost) \in Nat /\ Cardinality(lost) \in Nat /\ Cardinality(versions) \in Nat
      /\ Cardinality(Keeping) \in Nat /\ collisions \in Nat
  BY <1>1, UsesCount DEF TypeOK
<1>5. overtaken' \in Nat BY DEF TypeOK
<1>6. 1 .. read \subseteq Numbered(lost) /\ Uses(lost) <= read + overtaken' BY <1>1
<1>7. \A p \in Writing' : p \in Writing /\ req'[p].read = req[p].read /\ req'[p].since = req[p].since + 1 BY <1>3
<1>8. \A p \in Keeping : p \in Keeping' /\ NextVersion(p)' = NextVersion(p) BY <1>3 DEF NextVersion
<1>9. CASE \E r \in R : r \in Keeping'
  <2>1. PICK r \in R : r \in Keeping' BY <1>9
  <2>2. Keeping' = Keeping \cup {r} /\ r \notin Keeping BY <1>3, <2>1
  <2>3. NextVersion(r)' = read + 1 BY <2>1 DEF NextVersion
  <2>4. Numbered(lost) \cup { read + 1 } \subseteq Numbered(lost)' BY <1>8, <2>1, <2>3 DEF Numbered
  <2>5. IsFiniteSet(Keeping') /\ Cardinality(Keeping') = Cardinality(Keeping) + 1 BY <1>2, <2>2, OneMore
  <2>6. Uses(lost)' = Cardinality(lost) + Cardinality(versions) + Cardinality(Keeping') + collisions BY DEF Uses
  <2>7. Uses(lost) = Cardinality(lost) + Cardinality(versions) + Cardinality(Keeping) + collisions BY DEF Uses
  <2>8. Uses(lost)' \in Nat /\ Uses(lost)' <= Uses(lost) + 1 BY <1>4, <2>5, <2>6, <2>7
  <2>9. Chain(lost)' BY <1>1, <1>4, <1>5, <1>6, <1>7, <2>4, <2>8, ChainGrows
  <2> QED BY <1>1, <1>2, <2>5, <2>9 DEF VersionsInv
<1>10. CASE ~ \E r \in R : r \in Keeping'
  <2> DEFINE other == lost \cup { read + 1 }
  <2>1. Keeping' = Keeping BY <1>3, <1>10
  <2>2. Numbered(lost) \cup { read + 1 } \subseteq Numbered(other)' BY <1>8 DEF Numbered
  <2>3. /\ IsFiniteSet(other) /\ other \in SUBSET Nat
        /\ Cardinality(other) \in Nat /\ Cardinality(other) <= Cardinality(lost) + 1
    BY <1>1, OneMore
  <2> HIDE DEF other
  <2>4. Uses(other)' = Cardinality(other) + Cardinality(versions) + Cardinality(Keeping) + collisions BY <2>1 DEF Uses
  <2>5. Uses(lost) = Cardinality(lost) + Cardinality(versions) + Cardinality(Keeping) + collisions BY DEF Uses
  <2>6. Uses(other)' \in Nat /\ Uses(other)' <= Uses(lost) + 1 BY <1>4, <2>3, <2>4, <2>5
  <2>7. Chain(other)' BY <1>1, <1>4, <1>5, <1>6, <1>7, <2>2, <2>6, ChainGrows
  <2> QED BY <1>2, <2>1, <2>3, <2>7 DEF VersionsInv
<1> QED BY <1>9, <1>10

\* A request that is replaced by one that neither writes nor keeps.
LEMMA VersionsLeft ==
  ASSUME TypeOK, TypeOK', VersionsInv, NEW r \in Request, \A p \in Request \ {r} : req'[p] = req[p],
         req'[r].pc \notin { "write", "keep" },
         UNCHANGED << versions, collisions, overtaken >>, quote'.version = quote.version,
         quote'.status = "none" => quote.status = "none"
  PROVE  VersionsInv'
<1>1. r \notin Keeping' /\ r \notin Writing' BY DEF Keeping, Writing, At
<1> QED BY <1>1, VersionsQuiet

\* Nothing that the numbers are counted from changes.
LEMMA VersionsStill ==
  ASSUME VersionsInv, UNCHANGED << versions, collisions, overtaken, req >>, quote'.version = quote.version,
         quote'.status = "none" => quote.status = "none"
  PROVE  VersionsInv'
<1>1. Keeping' = Keeping /\ Writing' = Writing BY DEF Keeping, Writing, At
<1>2. \A lost : Numbered(lost)' = Numbered(lost) BY <1>1 DEF Numbered, NextVersion
<1>3. \A lost : Uses(lost)' = Uses(lost) BY <1>1 DEF Uses
<1>4. \A lost : Chain(lost)' <=> Chain(lost) BY <1>1, <1>2, <1>3 DEF Chain
<1> QED BY <1>1, <1>4 DEF VersionsInv

\* A version is kept, or refused because its number is.
LEMMA VersionsKept ==
  ASSUME TypeOK, TypeOK', VersionsInv, NEW r \in Request, Keep(r)
  PROVE  VersionsInv'
<1>0. \A p \in Request : req[p] \in Row BY DEF TypeOK, Row
<1>1. PICK lost \in SUBSET Nat : IsFiniteSet(lost) /\ Chain(lost) BY DEF VersionsInv
<1>2. IsFiniteSet(versions) /\ IsFiniteSet(Keeping) BY DEF VersionsInv
<1>3. quote' = quote /\ overtaken' = overtaken BY DEF Keep
<1>4. (\A p \in Request \ {r} : req'[p] = req[p]) /\ req'[r].pc \notin { "write", "keep" }
  <2>1. CASE Taken(NextVersion(r)) BY <2>1, StopMoves DEF Keep, Idle
  <2>2. CASE ~Taken(NextVersion(r))
    <3> DEFINE q == [Idle EXCEPT !.pc = After(req[r].op)]
    <3>1. After(req[r].op) \in { "look", "tell", "idle" } BY <1>0 DEF Row, After
    <3>2. q \in Row /\ q.pc = After(req[r].op) BY <3>1 DEF Idle, Row, Statuses
    <3>3. req' = [req EXCEPT ![r] = q] BY <2>2 DEF Keep
    <3> HIDE DEF q
    <3>4. req'[r] = q /\ \A p \in Request \ {r} : req'[p] = req[p] BY <3>2, <3>3, Moves
    <3> QED BY <3>1, <3>2, <3>4
  <2> QED BY <2>1, <2>2
<1>5. r \in Keeping BY DEF Keep, Keeping
<1>6. Keeping' = Keeping \ {r} BY <1>4 DEF Keeping, At
<1>7. Writing' \subseteq Writing /\ \A p \in Writing' : req'[p] = req[p] BY <1>4 DEF Writing, At
<1>8. \A p \in Keeping' : NextVersion(p)' = NextVersion(p) BY <1>4, <1>6 DEF NextVersion, Keeping
<1>9. IsFiniteSet(Keeping') /\ Cardinality(Keeping') \in Nat /\ Cardinality(Keeping) = Cardinality(Keeping') + 1
  BY <1>2, <1>5, <1>6, OneLess
<1>10. Uses(lost) \in Nat /\ Cardinality(lost) \in Nat /\ Cardinality(versions) \in Nat /\ collisions \in Nat
  BY <1>1, UsesCount DEF TypeOK
<1>11. Uses(lost) = Cardinality(lost) + Cardinality(versions) + Cardinality(Keeping) + collisions BY DEF Uses
<1>12. Uses(lost)' = Cardinality(lost) + Cardinality(versions') + Cardinality(Keeping') + collisions' BY DEF Uses
<1>13. /\ IsFiniteSet(versions') /\ Uses(lost)' \in Nat /\ Uses(lost)' <= Uses(lost)
       /\ versions \subseteq versions' /\ \E v \in versions' : v[1] = NextVersion(r)
  <2>1. CASE Taken(NextVersion(r))
    <3>1. versions' = versions /\ collisions' = collisions + 1 BY <2>1 DEF Keep
    <3> QED BY <1>2, <1>9, <1>10, <1>11, <1>12, <2>1, <3>1 DEF Taken
  <2>2. CASE ~Taken(NextVersion(r))
    <3> DEFINE row == << NextVersion(r), req[r].status >>
    <3>1. versions' = versions \cup {row} /\ collisions' = collisions BY <2>2 DEF Keep
    <3>2. row[1] = NextVersion(r) OBVIOUS
    <3> HIDE DEF row
    <3>3. IsFiniteSet(versions') /\ Cardinality(versions') \in Nat /\ Cardinality(versions') <= Cardinality(versions) + 1
      BY <1>2, <3>1, OneMore
    <3> QED BY <1>9, <1>10, <1>11, <1>12, <3>1, <3>2, <3>3
  <2> QED BY <2>1, <2>2
<1>14. Numbered(lost) \subseteq Numbered(lost)'
  <2>1. \A p \in Keeping : p = r \/ p \in Keeping' BY <1>6
  <2> QED BY <1>8, <1>13, <2>1 DEF Numbered
<1>15. Chain(lost)' BY <1>1, <1>3, <1>7, <1>10, <1>13, <1>14, ChainStays
<1>16. quote'.status = "none" => quote'.version = 0 /\ Writing' = {} BY <1>3, <1>7 DEF VersionsInv
<1> QED BY <1>1, <1>9, <1>13, <1>15, <1>16 DEF VersionsInv

\* The first write of the quote, when nobody can have read it.
LEMMA VersionsBegin ==
  ASSUME TypeOK, TypeOK', VersionsInv, NEW r \in Request, NEW status \in Statuses, Create(r, status)
  PROVE  VersionsInv'
<1> DEFINE q == [Idle EXCEPT !.pc = "keep", !.op = "create", !.status = status]
<1>1. q \in Row /\ q.pc = "keep" /\ q.read = 0 BY DEF Idle, Row, Statuses
<1>2. req' = [req EXCEPT ![r] = q] BY DEF Create
<1> HIDE DEF q
<1>3. req'[r] = q /\ \A p \in Request \ {r} : req'[p] = req[p] BY <1>1, <1>2, Moves
<1>4. quote.version = 0 /\ Writing = {} BY DEF VersionsInv, Create
<1>5. quote'.version = 1 /\ quote'.status # "none" BY DEF Create, Write, Statuses
<1>6. UNCHANGED << versions, collisions, overtaken >> BY DEF Create, history
<1>7. PICK R \in SUBSET Request, read \in Nat : R = {r} /\ read = 0 OBVIOUS
<1>8. \A p \in Request \ R : /\ p \in Keeping' <=> p \in Keeping
                             /\ p \in Writing' => p \in Writing /\ req'[p].since = req[p].since + 1
                             /\ req'[p].read = req[p].read
  BY <1>3, <1>4, <1>7 DEF Keeping, Writing, At
<1>9. \A p \in R : p \notin Keeping /\ p \notin Writing' /\ (p \in Keeping' => req'[p].read = read)
  BY <1>1, <1>3, <1>7 DEF Keeping, Writing, At, Create
<1>10. \A lost \in SUBSET Nat : IsFiniteSet(lost) /\ Chain(lost) =>
         1 .. read \subseteq Numbered(lost) /\ Uses(lost) <= read + overtaken'
  BY <1>4, <1>6, <1>7 DEF Chain
<1>11. overtaken <= overtaken' BY <1>6 DEF TypeOK
<1>12. quote'.version = read + 1 BY <1>5, <1>7
<1>13. \E p \in Request : R = {p} BY <1>7
<1> QED BY <1>5, <1>6, <1>8, <1>9, <1>10, <1>11, <1>12, <1>13, VersionsGrow

\* A request writes the quote with the number after the one it read, over what it has
\* missed since.
LEMMA VersionsUpdate ==
  ASSUME TypeOK, TypeOK', VersionsInv, NEW r \in Request, Update(r)
  PROVE  VersionsInv'
<1>0. req \in [Request -> Row] /\ req[r] \in Row BY DEF TypeOK, Row
<1> DEFINE q == Answered(r, "quote", TRUE)
           running == [req EXCEPT ![r] = q]
<1>1. q \in Row BY AnsweredIsRow DEF Update
<1>2. q.pc \notin { "write", "keep" } \/ (q.read = req[r].read /\ "quote" \notin q.left)
  <2>1. q = Idle \/ q.read = req[r].read BY AnsweredReads
  <2>2. q = Idle \/ q.left = req[r].left \ {"quote"} BY AnsweredIsRow DEF Update
  <2> HIDE DEF q
  <2> QED BY <2>1, <2>2 DEF Idle
<1> HIDE DEF q
<1>3. running \in [Request -> Row] /\ running[r] = q /\ \A p \in Request \ {r} : running[p] = req[p]
  BY <1>0, <1>1
<1>4. req' = Missed(running) BY DEF Update, q
<1> HIDE DEF running
<1>5. \A p \in Request : /\ req'[p].pc = running[p].pc /\ req'[p].left = running[p].left
                         /\ req'[p].ok = running[p].ok /\ req'[p].read = running[p].read
                         /\ "quote" \in running[p].left => req'[p].since = running[p].since + 1
  BY <1>3, <1>4, MissedMoves, MissedReads
<1>c. PICK R \in SUBSET Request, read \in Nat : R = {r} /\ read = req[r].read BY NumbersAre
<1>6. \A p \in Request \ R : /\ p \in Keeping' <=> p \in Keeping
                             /\ p \in Writing' => p \in Writing /\ req'[p].since = req[p].since + 1
                             /\ req'[p].read = req[p].read
  BY <1>3, <1>5, <1>c DEF Keeping, Writing, At
<1>7. r \notin Keeping /\ r \in Writing BY DEF Keeping, Writing, At, Update
<1>8. \A p \in R : p \notin Keeping /\ p \notin Writing' /\ (p \in Keeping' => req'[p].read = read)
  <2>1. r \notin Writing' /\ (r \in Keeping' => req'[r].read = req[r].read)
    BY <1>2, <1>3, <1>5 DEF Keeping, Writing, At
  <2> QED BY <1>7, <1>c, <2>1
<1>9. quote'.version = read + 1 /\ quote'.status # "none"
  BY <1>0, <1>c DEF Update, Write, NextVersion, Row, Statuses
<1>10. UNCHANGED << versions, collisions >> /\ overtaken' = overtaken + req[r].since BY DEF Update
<1>11. req[r].read \in Nat /\ req[r].since \in Nat /\ overtaken \in Nat BY NumbersAre DEF TypeOK
<1>12. \A lost \in SUBSET Nat : IsFiniteSet(lost) /\ Chain(lost) =>
         1 .. read \subseteq Numbered(lost) /\ Uses(lost) <= read + overtaken'
  <2> SUFFICES ASSUME NEW lost \in SUBSET Nat, IsFiniteSet(lost), Chain(lost)
               PROVE  1 .. read \subseteq Numbered(lost) /\ Uses(lost) <= read + overtaken'
    OBVIOUS
  <2>1. 1 .. read \subseteq Numbered(lost) /\ Uses(lost) <= read + req[r].since + overtaken
    BY <1>7, <1>c DEF Chain
  <2>2. Uses(lost) \in Nat BY UsesCount
  <2> QED BY <1>10, <1>11, <2>1, <2>2
<1>13. overtaken <= overtaken' BY <1>10, <1>11
<1>14. \E p \in Request : R = {p} BY <1>c
<1> QED BY <1>6, <1>8, <1>9, <1>10, <1>12, <1>13, <1>14, VersionsGrow

\* The customer writes the quote with the number after its own, and keeps no version.
LEMMA VersionsPublic ==
  ASSUME TypeOK, TypeOK', VersionsInv, NEW status \in Statuses, PublicDecide(status)
  PROVE  VersionsInv'
<1>0. req \in [Request -> Row] BY DEF TypeOK, Row
<1>1. req' = Missed(req) BY DEF PublicDecide
<1>2. \A p \in Request : /\ req'[p].pc = req[p].pc /\ req'[p].left = req[p].left
                         /\ req'[p].ok = req[p].ok /\ req'[p].read = req[p].read
                         /\ "quote" \in req[p].left => req'[p].since = req[p].since + 1
  BY <1>0, <1>1, MissedMoves, MissedReads
<1>3. PICK R \in SUBSET Request, read \in Nat : R = {} /\ read = quote.version BY DEF TypeOK
<1>4. \A p \in Request \ R : /\ p \in Keeping' <=> p \in Keeping
                             /\ p \in Writing' => p \in Writing /\ req'[p].since = req[p].since + 1
                             /\ req'[p].read = req[p].read
  BY <1>2 DEF Keeping, Writing, At
<1>5. quote'.version = read + 1 /\ quote'.status # "none" BY <1>3 DEF PublicDecide, Write, Statuses
<1>6. UNCHANGED << versions, collisions, overtaken >> BY DEF PublicDecide, history
<1>7. \A lost \in SUBSET Nat : IsFiniteSet(lost) /\ Chain(lost) =>
        1 .. read \subseteq Numbered(lost) /\ Uses(lost) <= read + overtaken'
  BY <1>6, <1>3 DEF Chain
<1>8. overtaken <= overtaken' BY <1>6 DEF TypeOK
<1>9. \A p \in R : p \notin Keeping /\ p \notin Writing' /\ (p \in Keeping' => req'[p].read = read) BY <1>3
<1> QED BY <1>4, <1>5, <1>6, <1>7, <1>8, <1>9, <1>3, VersionsGrow

-----------------------------------------------------------------------------
\* The accounts of the numbers survive every step: one step for each action.
LEMMA VersionsStep == TypeOK /\ VersionsInv /\ [Next]_vars => VersionsInv'
<1> SUFFICES ASSUME TypeOK, VersionsInv, [Next]_vars PROVE VersionsInv' OBVIOUS
<1>0. TypeOK' BY TypeStep
<1>1. \A r \in Request : req[r] \in Row BY DEF TypeOK, Row
\* A request goes on to where it neither writes nor keeps.
<1>a. ASSUME NEW r \in Request, \A p \in Request \ {r} : req'[p] = req[p], req'[r].pc \notin { "write", "keep" },
             UNCHANGED << quote, versions, collisions, overtaken >>
      PROVE  VersionsInv'
  BY <1>a, <1>0, VersionsLeft
<1>b. ASSUME NEW r \in Request, NEW write \in { "quote", "record" }, NEW ok \in BOOLEAN, At(r, "write"),
             write = "quote" => ~ok, write \in req[r].left,
             req' = [req EXCEPT ![r] = Answered(r, write, ok)],
             UNCHANGED << quote, versions, collisions, overtaken >>
      PROVE  VersionsInv'
  <2> DEFINE q == Answered(r, write, ok)
  <2>1. /\ q \in Row
        /\ \/ q = Idle
           \/ /\ q.left = req[r].left \ {write} /\ q.ok = (req[r].ok /\ ok)
              /\ q.pc = "write" \/ (q.pc = "keep" /\ q.left = {} /\ req[r].ok /\ ok)
    BY <1>b, AnsweredIsRow
  <2>2. q = Idle \/ (q.read = req[r].read /\ (write # "quote" => q.since = req[r].since)) BY <1>b, AnsweredReads
  <2> HIDE DEF q
  <2>3. req'[r] = q /\ \A p \in Request \ {r} : req'[p] = req[p] BY <1>b, <2>1, Moves DEF q
  <2>4. CASE q = Idle BY <1>a, <1>b, <2>3, <2>4 DEF Idle
  <2>5. CASE q # Idle
    <3>1. r \in Writing' => r \in Writing /\ q.since = req[r].since
      BY <1>b, <2>1, <2>2, <2>3, <2>5 DEF Writing, At
    <3>2. r \in Keeping' => r \in Keeping
      <4> SUFFICES ASSUME r \in Keeping' PROVE r \in Keeping OBVIOUS
      <4>1. q.ok \/ (req[r].ok /\ ok) BY <2>1, <2>3, <2>5 DEF Keeping, At
      <4>2. req[r].ok /\ ok BY <2>1, <2>5, <4>1
      <4>3. "quote" \notin q.left BY <2>1, <2>3, <2>5 DEF Keeping, At
      <4>4. write # "quote" BY <1>b, <4>2
      <4>5. "quote" \notin req[r].left BY <2>1, <2>5, <4>3, <4>4
      <4> QED BY <1>b, <4>2, <4>5 DEF Keeping
    <3> QED BY <1>0, <1>b, <2>2, <2>3, <2>5, <3>1, <3>2, VersionsQuiet
  <2> QED BY <2>4, <2>5
<1>2. ASSUME NEW r \in Request, NEW status \in Statuses, Create(r, status) PROVE VersionsInv'
  BY <1>0, <1>2, VersionsBegin
<1>3. ASSUME NEW r \in Request, NEW op \in { "edit", "send", "accept" }, NEW status \in Statuses, Read(r, op, status)
      PROVE  VersionsInv'
  <2> DEFINE q == [Idle EXCEPT !.pc = "write", !.op = op, !.read = quote.version, !.status = status,
                    !.left = { "quote" } \cup (IF op = "accept" THEN { "record" } ELSE {})]
  <2>1. quote.version \in Nat BY DEF TypeOK
  <2>2. q \in Row /\ q.pc = "write" /\ q.read = quote.version /\ q.since = 0 /\ "quote" \in q.left
    BY <2>1 DEF Idle, Row, Statuses
  <2>3. req' = [req EXCEPT ![r] = q] BY <1>3 DEF Read
  <2> HIDE DEF q
  <2>4. req'[r] = q /\ \A p \in Request \ {r} : req'[p] = req[p] BY <2>2, <2>3, Moves
  <2>5. r \notin Keeping' BY <2>2, <2>4 DEF Keeping, At
  <2>6. quote.status # "none" /\ UNCHANGED << quote, versions, collisions, overtaken >> BY <1>3 DEF Read, history
  <2> QED BY <1>0, <2>2, <2>4, <2>5, <2>6, VersionsQuiet
<1>4. ASSUME NEW r \in Request, Update(r) PROVE VersionsInv' BY <1>0, <1>4, VersionsUpdate
<1>5. ASSUME NEW r \in Request, UpdateFails(r) PROVE VersionsInv' BY <1>5, <1>b DEF UpdateFails, history
<1>6. ASSUME NEW r \in Request, Record(r) PROVE VersionsInv' BY <1>6, <1>b DEF Record, history
<1>7. ASSUME NEW r \in Request, RecordFails(r) PROVE VersionsInv' BY <1>7, <1>b DEF RecordFails, history
<1>8. ASSUME NEW r \in Request, Keep(r) PROVE VersionsInv' BY <1>0, <1>8, VersionsKept
<1>9. ASSUME NEW r \in Request, Tell(r) PROVE VersionsInv'
  <2>1. req'[r].pc = "calloff" /\ \A p \in Request \ {r} : req'[p] = req[p] BY <1>9, GotoMoves DEF Tell
  <2> QED BY <1>9, <1>a, <2>1 DEF Tell
<1>10. ASSUME NEW r \in Request, Reject(r) PROVE VersionsInv'
  <2> DEFINE q == [Idle EXCEPT !.pc = "calloff"]
  <2>1. q \in Row /\ q.pc = "calloff" BY DEF Idle, Row, Statuses
  <2>2. req' = [req EXCEPT ![r] = q] BY <1>10 DEF Reject
  <2> HIDE DEF q
  <2>3. req'[r] = q /\ \A p \in Request \ {r} : req'[p] = req[p] BY <2>1, <2>2, Moves
  <2>4. quote'.version = quote.version /\ quote'.status # "none" BY <1>10 DEF Reject, Write
  <2> QED BY <1>0, <1>10, <2>1, <2>3, <2>4, VersionsLeft DEF Reject, history
<1>11. ASSUME NEW r \in Request, CallOff(r) \/ Die(r) PROVE VersionsInv'
  <2>1. req'[r].pc = "idle" /\ \A p \in Request \ {r} : req'[p] = req[p]
    BY <1>11, StopMoves DEF CallOff, Die, Idle
  <2> QED BY <1>11, <1>a, <2>1 DEF CallOff, Die, history
<1>12. ASSUME NEW r \in Request, LookAtQuote(r) PROVE VersionsInv'
  <2>1. req'[r].pc \in { "clear", "idle" } /\ \A p \in Request \ {r} : req'[p] = req[p]
    BY <1>12, StopMoves, GotoMoves DEF LookAtQuote, Idle
  <2> QED BY <1>12, <1>a, <2>1 DEF LookAtQuote, history
<1>13. ASSUME NEW r \in Request, Clear(r) PROVE VersionsInv'
  <2> DEFINE q == [req[r] EXCEPT !.pc = "schedule", !.todo = Step]
  <2>1. q \in Row /\ q.pc = "schedule" BY <1>1 DEF Row
  <2>2. req' = [req EXCEPT ![r] = q] BY <1>13 DEF Clear
  <2> HIDE DEF q
  <2>3. req'[r] = q /\ \A p \in Request \ {r} : req'[p] = req[p] BY <2>1, <2>2, Moves
  <2> QED BY <1>13, <1>a, <2>1, <2>3 DEF Clear, history
<1>14. ASSUME NEW r \in Request, NEW k \in Step, Schedule(r, k) PROVE VersionsInv'
  <2> DEFINE q == [req[r] EXCEPT !.todo = @ \ { k }]
  <2>1. q \in Row /\ q.pc = "schedule" BY <1>1, <1>14 DEF Row, Schedule, At
  <2>2. Stop(r) \/ req' = [req EXCEPT ![r] = q] BY <1>14 DEF Schedule
  <2> HIDE DEF q
  <2>3. req'[r].pc \in { "idle", "schedule" } /\ \A p \in Request \ {r} : req'[p] = req[p]
    BY <2>1, <2>2, Moves, StopMoves DEF Idle
  <2> QED BY <1>14, <1>a, <2>3 DEF Schedule, history
<1>15. CASE PublicAccept \/ PublicReject
  <2>1. PICK status \in Statuses : PublicDecide(status) BY <1>15 DEF PublicAccept, PublicReject, Statuses
  <2> QED BY <1>0, <2>1, VersionsPublic
<1>16. CASE Convert
  <2>1. quote'.version = quote.version /\ quote'.status # "none" BY <1>16 DEF Convert, Write
  <2> QED BY <1>16, <2>1, VersionsStill DEF Convert, history
<1>17. ASSUME NEW k \in Step, Text(k) PROVE VersionsInv' BY <1>17, VersionsStill DEF Text, history
<1>18. CASE UNCHANGED vars BY <1>18, VersionsStill DEF vars
<1>19. ASSUME NEW r \in Request, Staff(r) \/ Chasing(r) \/ Die(r) PROVE VersionsInv'
  <2>1. CASE Staff(r)
    BY <2>1, <1>2, <1>3, <1>4, <1>5, <1>6, <1>7, <1>8, <1>9, <1>10, <1>11, Zenon DEF Staff
  <2>2. CASE Chasing(r) BY <2>2, <1>12, <1>13, <1>14, Zenon DEF Chasing
  <2> QED BY <1>19, <1>11, <2>1, <2>2
<1>20. CASE Next BY <1>15, <1>16, <1>17, <1>19, <1>20, Zenon DEF Next
<1> QED BY <1>18, <1>20

LEMMA VersionsInit == Init => VersionsInv
<1> SUFFICES ASSUME Init PROVE VersionsInv OBVIOUS
<1>1. Writing = {} /\ Keeping = {} /\ versions = {} BY DEF Init, Writing, Keeping, At, Idle
<1>2. IsFiniteSet({}) /\ Cardinality({}) = 0 BY FS_EmptySet
<1>3. Uses({}) = 0 BY <1>1, <1>2 DEF Uses, Init
<1>4. Chain({}) BY <1>1, <1>3 DEF Chain, Init
<1>5. quote.version = 0 BY DEF Init
<1> QED BY <1>1, <1>2, <1>4, <1>5 DEF VersionsInv

\* The numbers up to the quote's own are no more than what they are counted by.
LEMMA NumbersFit ==
  ASSUME TypeOK, VersionsInv, NEW lost \in SUBSET Nat, IsFiniteSet(lost), Chain(lost)
  PROVE  quote.version <= Cardinality(lost) + Cardinality(versions) + Cardinality(Keeping)
<1> DEFINE kept == { v[1] : v \in versions }
           written == { NextVersion(r) : r \in Keeping }
<1>1. IsFiniteSet(versions) /\ IsFiniteSet(Keeping) BY DEF VersionsInv
<1>2. IsFiniteSet(kept) /\ Cardinality(kept) <= Cardinality(versions)
  <2> DEFINE f == [v \in versions |-> v[1]]
  <2>1. f \in Surjection(versions, kept) BY DEF Surjection
  <2> QED BY <1>1, <2>1, FS_Surjection
<1>3. IsFiniteSet(written) /\ Cardinality(written) <= Cardinality(Keeping)
  <2> DEFINE f == [r \in Keeping |-> NextVersion(r)]
  <2>1. f \in Surjection(Keeping, written) BY DEF Surjection
  <2> QED BY <1>1, <2>1, FS_Surjection
<1>4. Numbered(lost) = (lost \cup kept) \cup written BY DEF Numbered
<1> HIDE DEF kept, written
<1>5. Cardinality(lost) \in Nat /\ Cardinality(kept) \in Nat /\ Cardinality(written) \in Nat
      /\ Cardinality(versions) \in Nat /\ Cardinality(Keeping) \in Nat
  BY <1>1, <1>2, <1>3, FS_CardinalityType
<1>6. IsFiniteSet(lost \cup kept) /\ Cardinality(lost \cup kept) <= Cardinality(lost) + Cardinality(kept)
      /\ Cardinality(lost \cup kept) \in Nat
  BY <1>2, UnionCount
<1>7. IsFiniteSet(Numbered(lost)) /\ Cardinality(Numbered(lost)) <= Cardinality(lost \cup kept) + Cardinality(written)
      /\ Cardinality(Numbered(lost)) \in Nat
  BY <1>3, <1>4, <1>6, UnionCount
<1>8. quote.version \in Nat BY DEF TypeOK
<1>9. Cardinality(1 .. quote.version) = quote.version BY <1>8, FS_Interval
<1>10. Cardinality(1 .. quote.version) <= Cardinality(Numbered(lost)) BY <1>7, FS_Subset DEF Chain
<1> QED BY <1>2, <1>3, <1>5, <1>6, <1>7, <1>8, <1>9, <1>10

\* However many requests edit, send and accept the quote while the customer decides:
\* a save is refused for its version's number at most as often as writes were
\* overwritten unseen (quotes/[id]/route.ts:35-74).
THEOREM RefusalsCorrect == Spec => []RefusalsBounded
<1>1. TypeOK /\ VersionsInv => RefusalsBounded
  <2> SUFFICES ASSUME TypeOK, VersionsInv PROVE collisions <= overtaken BY DEF RefusalsBounded
  <2>1. PICK lost \in SUBSET Nat : IsFiniteSet(lost) /\ Chain(lost) BY DEF VersionsInv
  <2>2. quote.version <= Cardinality(lost) + Cardinality(versions) + Cardinality(Keeping) BY <2>1, NumbersFit
  <2>3. Cardinality(lost) + Cardinality(versions) + Cardinality(Keeping) + collisions <= quote.version + overtaken
    BY <2>1 DEF Chain, Uses
  <2>4. Cardinality(lost) \in Nat /\ Cardinality(versions) \in Nat /\ Cardinality(Keeping) \in Nat BY <2>1, UsesCount
  <2>5. collisions \in Nat /\ overtaken \in Nat /\ quote.version \in Nat BY DEF TypeOK
  <2> QED BY <2>2, <2>3, <2>4, <2>5
<1> QED BY <1>1, VersionsInit, VersionsStep, TypeInit, TypeStep, PTL DEF Spec

=============================================================================
