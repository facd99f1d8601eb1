----------------------- MODULE NotificationQueue_proofs -----------------------
(***************************************************************************)
(* Proofs about the notification queue, for any numbers of notes, alerts,  *)
(* dispatchers, attempts and faults: what is marked sent was delivered,    *)
(* how much still goes out to a recipient who has opted out, and how often *)
(* a scheduling is sent more than once.                                    *)
(***************************************************************************)
EXTENDS NotificationQueue, FiniteSetTheorems, TLAPS

Statuses == { "absent", "pending", "sent", "failed", "cancelled" }
PCs == { "idle", "list", "owner", "check", "cancel", "send", "sent", "catch" }
Entry == [status : Statuses, attempts : Nat, due : BOOLEAN, waiting : BOOLEAN, test : BOOLEAN, rev : Nat]
Copy == [pc : PCs, batch : SUBSET Notes, cur : SUBSET Notes, attempts : [Notes -> Nat], test : SUBSET Notes]

TypeOK ==
  /\ row \in [Notes -> Entry]
  /\ optedOut \subseteq Notes
  /\ owner \in { "legacy", "v2" }
  /\ disp \in [Dispatchers -> Copy]
  /\ alerter \in [Alerts -> { "none", "send", "markSent", "markFailed", "done" }]
  /\ delivered \in [Notes -> Nat] /\ late \in [Notes -> Nat]

-----------------------------------------------------------------------------
LEMMA IdleIsCopy == Idle \in Copy /\ Idle.pc = "idle"
BY DEF Idle, Zero, Copy, PCs

\* A dispatcher is replaced by one of its type.
LEMMA Moves ==
  ASSUME TypeOK, NEW d \in Dispatchers, NEW c \in Copy, disp' = [disp EXCEPT ![d] = c]
  PROVE  disp' \in [Dispatchers -> Copy] /\ disp'[d] = c /\ \A e \in Dispatchers \ {d} : disp'[e] = disp[e]
BY DEF TypeOK

LEMMA StopMoves ==
  ASSUME TypeOK, NEW d \in Dispatchers, Stop(d)
  PROVE  /\ disp' \in [Dispatchers -> Copy] /\ disp'[d].pc = "idle"
         /\ \A e \in Dispatchers \ {d} : disp'[e] = disp[e]
BY Moves, IdleIsCopy DEF Stop

LEMMA GotoMoves ==
  ASSUME TypeOK, NEW d \in Dispatchers, NEW pc \in PCs, Goto(d, pc)
  PROVE  /\ disp' \in [Dispatchers -> Copy] /\ disp'[d].pc = pc /\ disp'[d].cur = disp[d].cur
         /\ \A e \in Dispatchers \ {d} : disp'[e] = disp[e]
<1> DEFINE c == [disp[d] EXCEPT !.pc = pc]
<1>1. disp[d] \in Copy BY DEF TypeOK
<1>2. c \in Copy /\ c.pc = pc /\ c.cur = disp[d].cur BY <1>1 DEF Copy
<1>3. disp' = [disp EXCEPT ![d] = c] BY DEF Goto
<1> HIDE DEF c
<1>4. disp' \in [Dispatchers -> Copy] /\ disp'[d] = c /\ \A e \in Dispatchers \ {d} : disp'[e] = disp[e]
  BY <1>2, <1>3, Moves
<1> QED BY <1>2, <1>4

LEMMA NextRowMoves ==
  ASSUME TypeOK, NEW d \in Dispatchers, NEW n \in Notes, NextRow(d, n)
  PROVE  /\ disp' \in [Dispatchers -> Copy] /\ disp'[d].pc \in { "idle", "owner" }
         /\ \A e \in Dispatchers \ {d} : disp'[e] = disp[e]
<1>1. CASE disp[d].batch = {n} BY <1>1, StopMoves DEF NextRow
<1>2. CASE disp[d].batch # {n}
  <2> DEFINE c == [disp[d] EXCEPT !.pc = "owner", !.batch = @ \ {n}, !.cur = {}]
  <2>1. disp[d] \in Copy BY DEF TypeOK
  <2>2. c \in Copy /\ c.pc = "owner" BY <2>1 DEF Copy, PCs
  <2>3. disp' = [disp EXCEPT ![d] = c] BY <1>2 DEF NextRow
  <2> HIDE DEF c
  <2> QED BY <2>2, <2>3, Moves
<1> QED BY <1>1, <1>2

\* A batch that is read: the dispatcher goes on to the owner's check, or is done.
LEMMA ReadMoves ==
  ASSUME TypeOK, NEW d \in Dispatchers, List(d)
  PROVE  /\ disp' \in [Dispatchers -> Copy] /\ disp'[d].pc \in { "idle", "owner" }
         /\ \A e \in Dispatchers \ {d} : disp'[e] = disp[e]
<1>1. PICK T \in SUBSET Due(disp[d].batch) :
        LET B == { n \in T : ~row[n].waiting } IN
        disp' = [disp EXCEPT ![d] =
          IF B = {} THEN Idle
          ELSE [ pc |-> "owner", batch |-> B, cur |-> {},
                 attempts |-> [n \in Notes |-> IF n \in B THEN row[n].attempts ELSE 0],
                 test |-> { n \in B : row[n].test } ]]
  BY DEF List, Read
<1> DEFINE B == { n \in T : ~row[n].waiting }
           a == [n \in Notes |-> IF n \in B THEN row[n].attempts ELSE 0]
           t == { n \in B : row[n].test }
           c == [ pc |-> "owner", batch |-> B, cur |-> {}, attempts |-> a, test |-> t ]
<1>2. disp[d].batch \subseteq Notes BY DEF TypeOK, Copy
<1>3. B \subseteq Notes /\ t \subseteq Notes BY <1>2 DEF Due
<1>4. \A n \in Notes : row[n].attempts \in Nat BY DEF TypeOK, Entry
<1>5. a \in [Notes -> Nat] BY <1>4
<1>6. disp' = [disp EXCEPT ![d] = IF B = {} THEN Idle ELSE c] BY <1>1
<1> HIDE DEF B, a, t
<1>7. c \in Copy /\ c.pc = "owner" BY <1>3, <1>5 DEF Copy, PCs
<1> HIDE DEF c
<1>8. CASE B = {}
  <2>1. disp' = [disp EXCEPT ![d] = Idle] BY <1>6, <1>8
  <2> QED BY <2>1, Moves, IdleIsCopy
<1>9. CASE B # {}
  <2>1. disp' = [disp EXCEPT ![d] = c] BY <1>6, <1>9
  <2> QED BY <2>1, <1>7, Moves
<1> QED BY <1>8, <1>9

\* An update on the condition that the row is pending.
LEMMA SetType ==
  ASSUME TypeOK, NEW d \in Dispatchers, NEW n \in Notes, NEW s \in Statuses, NEW waiting \in BOOLEAN,
         SetIfPending(d, n, s, waiting)
  PROVE  /\ row' \in [Notes -> Entry] /\ \A m \in Notes \ {n} : row'[m] = row[m]
         /\ row'[n] = row[n] \/ (row[n].status = "pending" /\ row'[n].status = s)
<1>1. row \in [Notes -> Entry] /\ row[n] \in Entry /\ disp[d].attempts[n] + 1 \in Nat BY DEF TypeOK, Copy
<1>2. CASE row[n].status # "pending" BY <1>1, <1>2 DEF SetIfPending
<1>3. CASE row[n].status = "pending"
  <2> DEFINE e == [row[n] EXCEPT !.status = s, !.attempts = disp[d].attempts[n] + 1, !.waiting = waiting]
  <2>1. e \in Entry /\ e.status = s BY <1>1 DEF Entry
  <2>2. row' = [row EXCEPT ![n] = e] BY <1>3 DEF SetIfPending
  <2> HIDE DEF e
  <2> QED BY <1>1, <1>3, <2>1, <2>2
<1> QED BY <1>2, <1>3

LEMMA FreshIsEntry ==
  ASSUME TypeOK, NEW n \in Notes, NEW due \in BOOLEAN, NEW test \in BOOLEAN
  PROVE  Fresh(n, due, test) \in Entry /\ Fresh(n, due, test).status = "pending"
<1>1. row[n].rev + 1 \in Nat BY DEF TypeOK, Entry
<1> QED BY <1>1 DEF Fresh, Entry, Statuses

-----------------------------------------------------------------------------
\* Rows, dispatchers, alerts and counters keep their types: one step for each action.
LEMMA TypeStep == TypeOK /\ [Next]_vars => TypeOK'
<1> SUFFICES ASSUME TypeOK, [Next]_vars PROVE TypeOK' OBVIOUS
<1>0. \A n \in Notes : row[n] \in Entry BY DEF TypeOK
<1>a. ASSUME NEW n \in Notes, Deliver(n)
      PROVE  delivered' \in [Notes -> Nat] /\ late' \in [Notes -> Nat]
  BY <1>a DEF Deliver, TypeOK
<1>b. ASSUME NEW n \in Notes, NEW e \in Entry, row' = [row EXCEPT ![n] = e] PROVE row' \in [Notes -> Entry]
  BY <1>b DEF TypeOK
<1>c. \A n \in Notes : row[n].waiting \in BOOLEAN BY <1>0 DEF Entry
<1>1. ASSUME NEW n \in Notes, Schedule(n) PROVE TypeOK'
  <2>1. PICK due \in BOOLEAN, test \in BOOLEAN : row' = [row EXCEPT ![n] = Fresh(n, due, test)] BY <1>1 DEF Schedule
  <2> QED BY <1>1, <1>b, <2>1, FreshIsEntry DEF Schedule, TypeOK, sends
<1>2. ASSUME NEW d \in Dispatchers, NEW n \in Notes, Notify(d, n) PROVE TypeOK'
  <2>1. PICK test \in BOOLEAN : row' = [row EXCEPT ![n] = Fresh(n, TRUE, test)] BY <1>2 DEF Notify
  <2> DEFINE c == [disp[d] EXCEPT !.pc = "list", !.batch = {n}]
  <2>2. disp[d] \in Copy BY DEF TypeOK
  <2>3. c \in Copy BY <2>2 DEF Copy, PCs
  <2>4. disp' = [disp EXCEPT ![d] = c] BY <1>2 DEF Notify
  <2> HIDE DEF c
  <2> QED BY <1>2, <1>b, <2>1, <2>3, <2>4, Moves, FreshIsEntry DEF Notify, TypeOK, sends
<1>3. ASSUME NEW n \in Notes, Cancel(n) PROVE TypeOK'
  <2>1. [row[n] EXCEPT !.status = "cancelled"] \in Entry BY <1>0 DEF Entry, Statuses
  <2> QED BY <1>3, <1>b, <2>1 DEF Cancel, TypeOK, sends
<1>4. ASSUME NEW n \in Notes, Tick(n) PROVE TypeOK'
  <2>1. [row[n] EXCEPT !.due = TRUE] \in Entry /\ [row[n] EXCEPT !.waiting = FALSE] \in Entry BY <1>0 DEF Entry
  <2>2. row' = [row EXCEPT ![n] = [row[n] EXCEPT !.due = TRUE]] \/ row' = [row EXCEPT ![n] = [row[n] EXCEPT !.waiting = FALSE]]
    BY <1>4 DEF Tick
  <2> QED BY <1>4, <1>b, <2>1, <2>2 DEF Tick, TypeOK, sends
<1>5. ASSUME NEW n \in Notes, OptOut(n) \/ OptIn(n) PROVE TypeOK' BY <1>5 DEF OptOut, OptIn, TypeOK, sends
<1>6. CASE HandOver BY <1>6 DEF HandOver, TypeOK
<1>7. ASSUME NEW d \in Dispatchers, Start(d) PROVE TypeOK'
  <2> DEFINE c == [disp[d] EXCEPT !.pc = "list", !.batch = Notes]
  <2>1. disp[d] \in Copy BY DEF TypeOK
  <2>2. c \in Copy BY <2>1 DEF Copy, PCs
  <2>3. disp' = [disp EXCEPT ![d] = c] BY <1>7 DEF Start
  <2> HIDE DEF c
  <2> QED BY <1>7, <2>2, <2>3, Moves DEF Start, TypeOK, sends
<1>8. ASSUME NEW d \in Dispatchers, List(d) PROVE TypeOK' BY <1>8, ReadMoves DEF List, TypeOK, sends
<1>9. ASSUME NEW d \in Dispatchers, NEW n \in Notes, CheckOwner(d, n) PROVE TypeOK'
  <2> DEFINE c == [disp[d] EXCEPT !.pc = "check", !.cur = {n}]
  <2>1. disp[d] \in Copy BY DEF TypeOK
  <2>2. c \in Copy BY <2>1 DEF Copy, PCs
  <2>3. NextRow(d, n) \/ disp' = [disp EXCEPT ![d] = c] BY <1>9 DEF CheckOwner
  <2> HIDE DEF c
  <2> QED BY <1>9, <2>2, <2>3, Moves, NextRowMoves DEF CheckOwner, TypeOK, sends
<1>10. ASSUME NEW d \in Dispatchers, NEW n \in Notes, Check(d, n) PROVE TypeOK'
  BY <1>10, GotoMoves DEF Check, TypeOK, sends, PCs
<1>11. ASSUME NEW d \in Dispatchers, NEW n \in Notes, CancelRow(d, n) PROVE TypeOK'
  BY <1>11, <1>c, NextRowMoves, SetType DEF CancelRow, TypeOK, sends, Statuses
<1>12. ASSUME NEW d \in Dispatchers, NEW n \in Notes, Send(d, n) PROVE TypeOK'
  <2>1. Goto(d, "sent") \/ Goto(d, "catch") BY <1>12 DEF Send
  <2> QED BY <1>12, <1>a, <2>1, GotoMoves DEF Send, TypeOK, PCs
<1>13. ASSUME NEW d \in Dispatchers, NEW n \in Notes, SendFails(d, n) \/ CallFails(d, n) PROVE TypeOK'
  BY <1>13, GotoMoves DEF SendFails, CallFails, TypeOK, sends, PCs
<1>14. ASSUME NEW d \in Dispatchers, NEW n \in Notes, MarkSent(d, n) PROVE TypeOK'
  BY <1>14, <1>c, NextRowMoves, SetType DEF MarkSent, TypeOK, sends, Statuses
<1>15. ASSUME NEW d \in Dispatchers, NEW n \in Notes, Catch(d, n) PROVE TypeOK'
  <2>1. PICK s \in { "failed", "pending" }, waiting \in BOOLEAN : SetIfPending(d, n, s, waiting) BY <1>15 DEF Catch
  <2>2. row' \in [Notes -> Entry] BY <2>1, SetType DEF Statuses
  <2> QED BY <1>15, <2>2, NextRowMoves DEF Catch, TypeOK, sends
<1>16. ASSUME NEW d \in Dispatchers, Abort(d) PROVE TypeOK' BY <1>16, StopMoves DEF Abort, TypeOK, sends
<1>17. ASSUME NEW n \in Alerts, Reserve(n) PROVE TypeOK'
  <2>1. n \in Notes BY QueueAssumption
  <2> QED BY <1>17, <1>b, <2>1, FreshIsEntry DEF Reserve, TypeOK, sends
<1>18. ASSUME NEW n \in Alerts, SendAlert(n) PROVE TypeOK'
  <2>1. n \in Notes BY QueueAssumption
  <2>2. CASE Deliver(n) /\ alerter' = [alerter EXCEPT ![n] = "markSent"]
    BY <1>18, <1>a, <2>1, <2>2 DEF SendAlert, TypeOK
  <2>3. CASE alerter' = [alerter EXCEPT ![n] = "markFailed"] /\ UNCHANGED sends
    BY <1>18, <2>3 DEF SendAlert, TypeOK, sends
  <2> QED BY <1>18, <2>2, <2>3 DEF SendAlert
<1>19. ASSUME NEW n \in Alerts, MarkAlert(n) PROVE TypeOK'
  <2>1. n \in Notes BY QueueAssumption
  <2> DEFINE e == [row[n] EXCEPT !.attempts = 1, !.status = IF alerter[n] = "markSent" THEN "sent" ELSE "failed"]
  <2>2. e \in Entry BY <1>0, <2>1 DEF Entry, Statuses
  <2>3. row' = [row EXCEPT ![n] = e] BY <1>19 DEF MarkAlert
  <2> HIDE DEF e
  <2> QED BY <1>19, <1>b, <2>1, <2>2, <2>3 DEF MarkAlert, TypeOK, sends
<1>20. ASSUME NEW n \in Alerts, AbandonAlert(n) PROVE TypeOK' BY <1>20 DEF AbandonAlert, TypeOK, sends
<1>21. CASE UNCHANGED vars BY <1>21 DEF vars, TypeOK
<1>22. CASE Next
  <2>1. ASSUME NEW d \in Dispatchers, Step(d) PROVE TypeOK'
    BY <2>1, <1>8, <1>9, <1>10, <1>11, <1>12, <1>13, <1>14, <1>15, Zenon DEF Step
  <2> QED BY <1>22, <1>1, <1>2, <1>3, <1>4, <1>5, <1>6, <1>7, <1>16, <1>17, <1>18, <1>19, <1>20, <2>1, Zenon DEF Next
<1> QED BY <1>21, <1>22

LEMMA TypeInit == Init => TypeOK
<1> SUFFICES ASSUME Init PROVE TypeOK OBVIOUS
<1>1. disp \in [Dispatchers -> Copy]
  <2>1. Idle \in Copy BY IdleIsCopy
  <2>2. disp = [d \in Dispatchers |-> Idle] BY DEF Init
  <2> QED BY <2>1, <2>2
<1>2. row \in [Notes -> Entry]
  <2> DEFINE e == [status |-> "absent", attempts |-> 0, due |-> FALSE, waiting |-> FALSE, test |-> FALSE, rev |-> 0]
  <2>1. e \in Entry BY DEF Entry, Statuses
  <2>2. row = [n \in Notes |-> e] BY DEF Init
  <2> HIDE DEF e
  <2> QED BY <2>1, <2>2
<1>3. delivered \in [Notes -> Nat] /\ late \in [Notes -> Nat] BY DEF Init, Zero
<1> QED BY <1>1, <1>2, <1>3 DEF Init, TypeOK

-----------------------------------------------------------------------------
\* Whoever is about to mark a note sent has had its message taken.
Heard ==
  /\ \A n \in Notes : row[n].status = "sent" => delivered[n] > 0
  /\ \A d \in Dispatchers, n \in Notes : At(d, n, "sent") => delivered[n] > 0
  /\ \A n \in Alerts : alerter[n] = "markSent" => delivered[n] > 0

LEMMA HeardStep == TypeOK /\ Heard /\ [Next]_vars => Heard'
<1> SUFFICES ASSUME TypeOK, Heard, [Next]_vars PROVE Heard' OBVIOUS
<1>0. \A n \in Notes : row[n] \in Entry BY DEF TypeOK
\* Nobody comes to the mark, and no row is marked.
<1>a. ASSUME \A n \in Notes : delivered'[n] >= delivered[n],
             \A n \in Notes : row'[n].status = "sent" => row[n].status = "sent",
             \A d \in Dispatchers, n \in Notes : At(d, n, "sent")' => At(d, n, "sent"),
             \A n \in Alerts : alerter'[n] = "markSent" => alerter[n] = "markSent"
      PROVE  Heard'
  <2>1. \A n \in Notes : delivered[n] > 0 => delivered'[n] > 0
    <3>1. \A n \in Notes : delivered[n] \in Nat /\ delivered'[n] \in Nat BY TypeStep DEF TypeOK
    <3> QED BY <1>a, <3>1
  <2> QED BY <1>a, <2>1, QueueAssumption DEF Heard
<1>b. ASSUME delivered' = delivered PROVE \A n \in Notes : delivered'[n] >= delivered[n]
  BY <1>b DEF TypeOK
<1>c. ASSUME NEW n \in Notes, Deliver(n) PROVE delivered'[n] > 0 /\ \A m \in Notes : delivered'[m] >= delivered[m]
  BY <1>c DEF Deliver, TypeOK
\* The dispatcher that moves does not come to the mark; the others stay.
<1>d. ASSUME NEW d \in Dispatchers, \A e \in Dispatchers \ {d} : disp'[e] = disp[e], disp'[d].pc # "sent"
      PROVE  \A e \in Dispatchers, n \in Notes : At(e, n, "sent")' => At(e, n, "sent")
  BY <1>d DEF At
<1>e. ASSUME NEW n \in Notes, NEW due \in BOOLEAN, NEW test \in BOOLEAN, row' = [row EXCEPT ![n] = Fresh(n, due, test)]
      PROVE  \A m \in Notes : row'[m].status = "sent" => row[m].status = "sent"
  BY <1>e, FreshIsEntry DEF TypeOK
<1>1. ASSUME NEW n \in Notes, Schedule(n) PROVE Heard'
  <2>1. PICK due \in BOOLEAN, test \in BOOLEAN : row' = [row EXCEPT ![n] = Fresh(n, due, test)] BY <1>1 DEF Schedule
  <2>2. UNCHANGED << delivered, disp, alerter >> BY <1>1 DEF Schedule, sends
  <2> QED BY <1>a, <1>b, <1>e, <2>1, <2>2 DEF At
<1>2. ASSUME NEW d \in Dispatchers, NEW n \in Notes, Notify(d, n) PROVE Heard'
  <2>1. PICK test \in BOOLEAN : row' = [row EXCEPT ![n] = Fresh(n, TRUE, test)] BY <1>2 DEF Notify
  <2> DEFINE c == [disp[d] EXCEPT !.pc = "list", !.batch = {n}]
  <2>2. disp[d] \in Copy BY DEF TypeOK
  <2>3. c \in Copy /\ c.pc = "list" BY <2>2 DEF Copy, PCs
  <2>4. disp' = [disp EXCEPT ![d] = c] BY <1>2 DEF Notify
  <2> HIDE DEF c
  <2>5. \A e \in Dispatchers, m \in Notes : At(e, m, "sent")' => At(e, m, "sent") BY <1>d, <2>3, <2>4, Moves
  <2>6. UNCHANGED << delivered, alerter >> BY <1>2 DEF Notify, sends
  <2>7. \A m \in Notes : row'[m].status = "sent" => row[m].status = "sent" BY <1>e, <2>1
  <2> QED BY <1>a, <1>b, <2>5, <2>6, <2>7
<1>3. ASSUME NEW n \in Notes, Cancel(n) \/ Tick(n) PROVE Heard'
  <2>1. \A m \in Notes : row'[m].status = "sent" => row[m].status = "sent" BY <1>0, <1>3 DEF Cancel, Tick, TypeOK, Entry
  <2>2. UNCHANGED << delivered, disp, alerter >> BY <1>3 DEF Cancel, Tick, sends
  <2> QED BY <1>a, <1>b, <2>1, <2>2 DEF At
<1>4. CASE HandOver \/ \E n \in Notes : OptOut(n) \/ OptIn(n)
  <2>1. UNCHANGED << delivered, row, disp, alerter >> BY <1>4 DEF HandOver, OptOut, OptIn, sends
  <2> QED BY <1>a, <1>b, <2>1 DEF At
<1>5. ASSUME NEW d \in Dispatchers, Start(d) \/ List(d) \/ Abort(d) PROVE Heard'
  <2>1. disp'[d].pc # "sent" /\ \A e \in Dispatchers \ {d} : disp'[e] = disp[e]
    <3>1. CASE Start(d)
      <4> DEFINE c == [disp[d] EXCEPT !.pc = "list", !.batch = Notes]
      <4>1. disp[d] \in Copy BY DEF TypeOK
      <4>2. c \in Copy /\ c.pc = "list" BY <4>1 DEF Copy, PCs
      <4>3. disp' = [disp EXCEPT ![d] = c] BY <3>1 DEF Start
      <4> HIDE DEF c
      <4> QED BY <4>2, <4>3, Moves
    <3>2. CASE List(d) BY <3>2, ReadMoves
    <3>3. CASE Abort(d) BY <3>3, StopMoves DEF Abort
    <3> QED BY <1>5, <3>1, <3>2, <3>3
  <2>2. UNCHANGED << delivered, row, alerter >> BY <1>5 DEF Start, List, Abort, sends
  <2> QED BY <1>a, <1>b, <1>d, <2>1, <2>2
<1>6. ASSUME NEW d \in Dispatchers, NEW n \in Notes, CheckOwner(d, n) \/ Check(d, n) \/ SendFails(d, n) \/ CallFails(d, n)
      PROVE  Heard'
  <2>1. disp'[d].pc # "sent" /\ \A e \in Dispatchers \ {d} : disp'[e] = disp[e]
    <3>1. CASE CheckOwner(d, n)
      <4> DEFINE c == [disp[d] EXCEPT !.pc = "check", !.cur = {n}]
      <4>1. disp[d] \in Copy BY DEF TypeOK
      <4>2. c \in Copy /\ c.pc = "check" BY <4>1 DEF Copy, PCs
      <4>3. NextRow(d, n) \/ disp' = [disp EXCEPT ![d] = c] BY <3>1 DEF CheckOwner
      <4> HIDE DEF c
      <4> QED BY <4>2, <4>3, Moves, NextRowMoves
    <3>2. CASE Check(d, n) BY <3>2, GotoMoves DEF Check, PCs
    <3>3. CASE SendFails(d, n) \/ CallFails(d, n) BY <3>3, GotoMoves DEF SendFails, CallFails, PCs
    <3> QED BY <1>6, <3>1, <3>2, <3>3
  <2>2. UNCHANGED << delivered, row, alerter >> BY <1>6 DEF CheckOwner, Check, SendFails, CallFails, sends
  <2> QED BY <1>a, <1>b, <1>d, <2>1, <2>2
<1>7. ASSUME NEW d \in Dispatchers, NEW n \in Notes, CancelRow(d, n) \/ Catch(d, n) PROVE Heard'
  <2>1. PICK s \in { "cancelled", "failed", "pending" }, waiting \in BOOLEAN : SetIfPending(d, n, s, waiting)
    <3>1. row[n].waiting \in BOOLEAN BY <1>0 DEF Entry
    <3> QED BY <1>7, <3>1 DEF CancelRow, Catch
  <2>2. \A m \in Notes : row'[m].status = "sent" => row[m].status = "sent" BY <2>1, SetType DEF Statuses
  <2>3. disp'[d].pc # "sent" /\ \A e \in Dispatchers \ {d} : disp'[e] = disp[e]
    BY <1>7, NextRowMoves DEF CancelRow, Catch
  <2>4. UNCHANGED << delivered, alerter >> BY <1>7 DEF CancelRow, Catch, sends
  <2> QED BY <1>a, <1>b, <1>d, <2>2, <2>3, <2>4
<1>8. ASSUME NEW d \in Dispatchers, NEW n \in Notes, Send(d, n) PROVE Heard'
  <2>1. Goto(d, "sent") \/ Goto(d, "catch") BY <1>8 DEF Send
  <2>2. disp'[d].cur = disp[d].cur /\ \A e \in Dispatchers \ {d} : disp'[e] = disp[e] BY <2>1, GotoMoves DEF PCs
  <2>3. delivered'[n] > 0 /\ \A m \in Notes : delivered'[m] >= delivered[m] BY <1>8, <1>c DEF Send
  <2>4. UNCHANGED << row, alerter >> /\ disp[d].cur = {n} BY <1>8 DEF Send, At
  <2>5. \A m \in Notes : delivered[m] > 0 => delivered'[m] > 0
    <3>1. \A m \in Notes : delivered[m] \in Nat /\ delivered'[m] \in Nat BY TypeStep DEF TypeOK
    <3> QED BY <2>3, <3>1
  <2>6. ASSUME NEW e \in Dispatchers, NEW m \in Notes, At(e, m, "sent")' PROVE delivered'[m] > 0
    <3>1. CASE e = d
      <4>1. m = n BY <2>2, <2>4, <2>6, <3>1 DEF At
      <4> QED BY <2>3, <4>1
    <3>2. CASE e # d BY <2>2, <2>5, <2>6, <3>2 DEF Heard, At
    <3> QED BY <3>1, <3>2
  <2> QED BY <2>4, <2>5, <2>6, QueueAssumption DEF Heard
<1>9. ASSUME NEW d \in Dispatchers, NEW n \in Notes, MarkSent(d, n) PROVE Heard'
  <2>1. delivered[n] > 0 BY <1>9 DEF MarkSent, Heard
  <2>2. row[n].waiting \in BOOLEAN BY <1>0 DEF Entry
  <2>3. \A m \in Notes \ {n} : row'[m] = row[m] BY <1>9, <2>2, SetType DEF MarkSent, Statuses
  <2>4. disp'[d].pc # "sent" /\ \A e \in Dispatchers \ {d} : disp'[e] = disp[e] BY <1>9, NextRowMoves DEF MarkSent
  <2>5. UNCHANGED << delivered, alerter >> BY <1>9 DEF MarkSent, sends
  <2>6. \A e \in Dispatchers, m \in Notes : At(e, m, "sent")' => At(e, m, "sent") BY <1>d, <2>4
  <2> QED BY <2>1, <2>3, <2>5, <2>6 DEF Heard
<1>10. ASSUME NEW n \in Alerts, Reserve(n) PROVE Heard'
  <2>1. n \in Notes BY QueueAssumption
  <2>2. \A m \in Notes : row'[m].status = "sent" => row[m].status = "sent" BY <1>10, <1>e, <2>1 DEF Reserve
  <2>3. \A m \in Alerts : alerter'[m] = "markSent" => alerter[m] = "markSent" BY <1>10 DEF Reserve, TypeOK
  <2>4. UNCHANGED << delivered, disp >> BY <1>10 DEF Reserve, sends
  <2> QED BY <1>a, <1>b, <2>2, <2>3, <2>4 DEF At
<1>11. ASSUME NEW n \in Alerts, SendAlert(n) PROVE Heard'
  <2>1. n \in Notes BY QueueAssumption
  <2>2. UNCHANGED << row, disp >> BY <1>11 DEF SendAlert
  <2>3. CASE Deliver(n) /\ alerter' = [alerter EXCEPT ![n] = "markSent"]
    <3>1. delivered'[n] > 0 /\ \A m \in Notes : delivered'[m] >= delivered[m] BY <1>c, <2>1, <2>3
    <3>2. \A m \in Notes : delivered[m] > 0 => delivered'[m] > 0
      <4>1. \A m \in Notes : delivered[m] \in Nat /\ delivered'[m] \in Nat BY TypeStep DEF TypeOK
      <4> QED BY <3>1, <4>1
    <3>3. \A m \in Alerts \ {n} : alerter'[m] = alerter[m] BY <2>3 DEF TypeOK
    <3> QED BY <2>2, <3>1, <3>2, <3>3, QueueAssumption DEF Heard, At
  <2>4. CASE alerter' = [alerter EXCEPT ![n] = "markFailed"] /\ UNCHANGED sends
    BY <1>a, <1>b, <2>2, <2>4 DEF TypeOK, At, sends
  <2> QED BY <1>11, <2>3, <2>4 DEF SendAlert
<1>12. ASSUME NEW n \in Alerts, MarkAlert(n) PROVE Heard'
  <2>1. n \in Notes /\ row[n] \in Entry BY <1>0, QueueAssumption
  <2>2. alerter[n] = "markSent" => delivered[n] > 0 BY DEF Heard
  <2>3. alerter[n] # "markSent" => row'[n].status = "failed" BY <1>12, <2>1 DEF MarkAlert, TypeOK, Entry
  <2>4. \A m \in Notes \ {n} : row'[m] = row[m] BY <1>12 DEF MarkAlert, TypeOK
  <2>5. \A m \in Alerts : alerter'[m] = "markSent" => alerter[m] = "markSent" BY <1>12 DEF MarkAlert, TypeOK
  <2>6. UNCHANGED << delivered, disp >> BY <1>12 DEF MarkAlert, sends
  <2> QED BY <2>2, <2>3, <2>4, <2>5, <2>6, QueueAssumption DEF Heard, At
<1>13. ASSUME NEW n \in Alerts, AbandonAlert(n) PROVE Heard'
  <2>1. \A m \in Alerts : alerter'[m] = "markSent" => alerter[m] = "markSent" BY <1>13 DEF AbandonAlert, TypeOK
  <2>2. UNCHANGED << delivered, row, disp >> BY <1>13 DEF AbandonAlert, sends
  <2> QED BY <1>a, <1>b, <2>1, <2>2 DEF At
<1>14. CASE UNCHANGED vars BY <1>14, <1>a, <1>b DEF vars, At
<1>15. CASE Next
  <2>1. ASSUME NEW d \in Dispatchers, Step(d) PROVE Heard'
    BY <2>1, <1>5, <1>6, <1>7, <1>8, <1>9, Zenon DEF Step
  <2> QED BY <1>15, <1>1, <1>2, <1>3, <1>4, <1>5, <1>10, <1>11, <1>12, <1>13, <2>1, Zenon DEF Next
<1> QED BY <1>14, <1>15

\* A row is sent only if the carrier took a message for it, although dispatchers work
\* through copies of rows, several may hold one row, rows are rescheduled meanwhile and
\* an alert's own request marks without looking (scheduler.ts, lead-alerts.ts).
THEOREM SentCorrect == Spec => []SentIsDelivered
<1>1. Init => Heard BY QueueAssumption DEF Init, Heard, At, Idle
<1>2. Heard => SentIsDelivered BY DEF Heard, SentIsDelivered
<1> QED BY <1>1, <1>2, TypeInit, TypeStep, HeardStep, PTL DEF Spec

-----------------------------------------------------------------------------
\* Whether v2 bars a note, and the dispatchers that are past the check that does.
ByV2(n) == n \in V2Notes /\ owner = "v2"
Risk(n) == { d \in Dispatchers : At(d, n, "send") \/ (At(d, n, "check") /\ ByV2(n)) }

\* The alert's own request: one message, until it is out or given up.
Extra(n) == IF n \in Alerts THEN 1 ELSE 0
Token(n) == IF n \in Alerts /\ alerter[n] \in { "none", "send" } THEN 1 ELSE 0
Most(n) == Cardinality(Dispatchers) + Extra(n)

\* What has gone out late, and what still may.
LateInv(n) ==
  /\ late[n] <= Most(n)
  /\ Barred(n) => late[n] + Cardinality(Risk(n)) + Token(n) <= Most(n)

\* The key of an alert is reserved once.
ReservedOnce == \A n \in Alerts : alerter[n] # "none" => row[n].status # "absent"

LEMMA Counts ==
  ASSUME NEW n \in Notes
  PROVE  /\ Cardinality(Risk(n)) \in Nat /\ IsFiniteSet(Risk(n))
         /\ Cardinality(Risk(n)) <= Cardinality(Dispatchers) /\ Cardinality(Dispatchers) \in Nat
         /\ Token(n) \in Nat /\ Extra(n) \in Nat /\ Token(n) <= Extra(n) /\ Most(n) \in Nat
<1>1. Risk(n) \subseteq Dispatchers BY DEF Risk
<1>2. Cardinality(Dispatchers) \in Nat BY QueueAssumption, FS_CardinalityType
<1>3. IsFiniteSet(Risk(n)) /\ Cardinality(Risk(n)) <= Cardinality(Dispatchers) BY <1>1, QueueAssumption, FS_Subset
<1>4. Cardinality(Risk(n)) \in Nat BY <1>3, FS_CardinalityType
<1>5. Token(n) \in Nat /\ Extra(n) \in Nat /\ Token(n) <= Extra(n) BY DEF Token, Extra
<1> QED BY <1>2, <1>3, <1>4, <1>5 DEF Most

\* Nothing has gone out, nobody has come past the check, nothing was barred anew.
LEMMA LateStill ==
  ASSUME TypeOK, NEW n \in Notes, LateInv(n), late'[n] = late[n], Risk(n)' \subseteq Risk(n),
         Token(n)' <= Token(n), Token(n)' \in Nat, Barred(n)' => Barred(n)
  PROVE  LateInv(n)'
<1>1. IsFiniteSet(Risk(n)) /\ Cardinality(Risk(n)) \in Nat /\ Token(n) \in Nat /\ Most(n) \in Nat BY Counts
<1>2. IsFiniteSet(Risk(n)') /\ Cardinality(Risk(n)') <= Cardinality(Risk(n)) BY <1>1, FS_Subset
<1>3. Cardinality(Risk(n)') \in Nat BY <1>2, FS_CardinalityType
<1>4. late[n] \in Nat BY DEF TypeOK
<1>5. Most(n)' = Most(n) BY DEF Most, Extra
<1> QED BY <1>1, <1>2, <1>3, <1>4, <1>5 DEF LateInv

\* A dispatcher that does not come to the check or past it adds nothing to the risk.
LEMMA RiskOthers ==
  ASSUME NEW d \in Dispatchers, \A e \in Dispatchers \ {d} : disp'[e] = disp[e],
         NEW n \in Notes, owner' = owner, d \notin Risk(n)'
  PROVE  Risk(n)' \subseteq Risk(n)
BY DEF Risk, At, ByV2

LEMMA LateStep ==
  TypeOK /\ ReservedOnce /\ (\A n \in Notes : LateInv(n)) /\ [Next]_vars => ReservedOnce' /\ \A n \in Notes : LateInv(n)'
<1> SUFFICES ASSUME TypeOK, ReservedOnce, \A n \in Notes : LateInv(n), [Next]_vars
             PROVE  ReservedOnce' /\ \A n \in Notes : LateInv(n)'
  OBVIOUS
<1>0. \A n \in Notes : row[n] \in Entry /\ late[n] \in Nat BY DEF TypeOK
\* No row disappears, and only a reservation starts an alert.
<1>r. ASSUME \A n \in Notes : row[n].status # "absent" => row'[n].status # "absent",
             \A n \in Alerts : alerter'[n] # "none" => alerter[n] # "none"
      PROVE  ReservedOnce'
  BY <1>r, QueueAssumption DEF ReservedOnce
\* Nothing goes out, nobody comes past the check, the alerts and what bars stand still.
<1>a. ASSUME late' = late, \A n \in Notes : Risk(n)' \subseteq Risk(n), alerter' = alerter, optedOut' = optedOut,
             owner' = owner
      PROVE  \A n \in Notes : LateInv(n)'
  <2> SUFFICES ASSUME NEW n \in Notes PROVE LateInv(n)' OBVIOUS
  <2>1. Token(n)' = Token(n) /\ Token(n) \in Nat BY <1>a, Counts DEF Token
  <2>2. Barred(n)' => Barred(n) BY <1>a DEF Barred
  <2> QED BY <1>a, <2>1, <2>2, LateStill
<1>b. ASSUME disp' = disp, owner' = owner PROVE \A n \in Notes : Risk(n)' = Risk(n)
  BY <1>b DEF Risk, At, ByV2
<1>c. ASSUME NEW d \in Dispatchers, \A e \in Dispatchers \ {d} : disp'[e] = disp[e],
             disp'[d].pc \notin { "check", "send" }, owner' = owner
      PROVE  \A n \in Notes : Risk(n)' \subseteq Risk(n)
  <2>1. \A n \in Notes : d \notin Risk(n)' BY <1>c DEF Risk, At
  <2> QED BY <1>c, <2>1, RiskOthers
<1>1. ASSUME NEW n \in Notes, Schedule(n) \/ Cancel(n) \/ Tick(n) PROVE ReservedOnce' /\ \A m \in Notes : LateInv(m)'
  <2>1. UNCHANGED << late, alerter, optedOut, owner, disp >> BY <1>1 DEF Schedule, Cancel, Tick, sends
  <2>2. \A m \in Notes : row[m].status # "absent" => row'[m].status # "absent"
    <3>1. CASE Schedule(n)
      <4>1. PICK due \in BOOLEAN, test \in BOOLEAN : row' = [row EXCEPT ![n] = Fresh(n, due, test)] BY <3>1 DEF Schedule
      <4> QED BY <4>1, FreshIsEntry DEF TypeOK
    <3>2. CASE Cancel(n) BY <1>0, <3>2 DEF Cancel, TypeOK, Entry
    <3>3. CASE Tick(n) BY <1>0, <3>3 DEF Tick, TypeOK, Entry
    <3> QED BY <1>1, <3>1, <3>2, <3>3
  <2> QED BY <1>a, <1>b, <1>r, <2>1, <2>2
<1>2. ASSUME NEW d \in Dispatchers, NEW n \in Notes, Notify(d, n) PROVE ReservedOnce' /\ \A m \in Notes : LateInv(m)'
  <2>1. PICK test \in BOOLEAN : row' = [row EXCEPT ![n] = Fresh(n, TRUE, test)] BY <1>2 DEF Notify
  <2>2. \A m \in Notes : row[m].status # "absent" => row'[m].status # "absent" BY <2>1, FreshIsEntry DEF TypeOK
  <2> DEFINE c == [disp[d] EXCEPT !.pc = "list", !.batch = {n}]
  <2>3. disp[d] \in Copy BY DEF TypeOK
  <2>4. c \in Copy /\ c.pc = "list" BY <2>3 DEF Copy, PCs
  <2>5. disp' = [disp EXCEPT ![d] = c] BY <1>2 DEF Notify
  <2> HIDE DEF c
  <2>6. disp'[d].pc = "list" /\ \A e \in Dispatchers \ {d} : disp'[e] = disp[e] BY <2>4, <2>5, Moves
  <2>7. UNCHANGED << late, alerter, optedOut, owner >> BY <1>2 DEF Notify, sends
  <2> QED BY <1>a, <1>c, <1>r, <2>2, <2>6, <2>7
\* Those who are barred now begin to count: at most every dispatcher, and the alert.
<1>d. ASSUME NEW n \in Notes, late'[n] = 0 PROVE LateInv(n)'
  <2>1. /\ Cardinality(Risk(n)') \in Nat /\ Cardinality(Risk(n)') <= Cardinality(Dispatchers)
        /\ Cardinality(Dispatchers) \in Nat
    <3>1. Risk(n)' \subseteq Dispatchers BY DEF Risk
    <3>2. IsFiniteSet(Risk(n)') /\ Cardinality(Risk(n)') <= Cardinality(Dispatchers)
      BY <3>1, QueueAssumption, FS_Subset
    <3> QED BY <3>2, QueueAssumption, FS_CardinalityType
  <2>2. Token(n)' \in Nat /\ Extra(n)' \in Nat /\ Token(n)' <= Extra(n)' BY DEF Token, Extra
  <2> QED BY <1>d, <2>1, <2>2 DEF LateInv, Most
<1>3. ASSUME NEW n \in Notes, OptOut(n) PROVE ReservedOnce' /\ \A m \in Notes : LateInv(m)'
  <2>1. late'[n] = 0 /\ \A m \in Notes \ {n} : late'[m] = late[m] BY <1>3 DEF OptOut, TypeOK
  <2>2. UNCHANGED << row, alerter, owner, disp >> /\ optedOut' = optedOut \cup {n} BY <1>3 DEF OptOut
  <2>3. ReservedOnce' BY <2>2 DEF ReservedOnce
  <2>4. ASSUME NEW m \in Notes \ {n} PROVE LateInv(m)'
    <3>1. Token(m)' = Token(m) /\ Token(m) \in Nat BY <2>2, Counts DEF Token
    <3>2. Barred(m)' => Barred(m) BY <2>2 DEF Barred
    <3>3. Risk(m)' = Risk(m) BY <1>b, <2>2
    <3> QED BY <2>1, <3>1, <3>2, <3>3, LateStill
  <2> QED BY <1>d, <2>1, <2>3, <2>4
<1>4. ASSUME NEW n \in Notes, OptIn(n) PROVE ReservedOnce' /\ \A m \in Notes : LateInv(m)'
  <2>1. UNCHANGED << row, alerter, owner, disp, late >> /\ optedOut' = optedOut \ {n} BY <1>4 DEF OptIn, sends
  <2>2. ReservedOnce' BY <2>1 DEF ReservedOnce
  <2>3. ASSUME NEW m \in Notes PROVE LateInv(m)'
    <3>1. Token(m)' = Token(m) /\ Token(m) \in Nat BY <2>1, Counts DEF Token
    <3>2. Barred(m)' => Barred(m) BY <2>1 DEF Barred
    <3>3. Risk(m)' = Risk(m) BY <1>b, <2>1
    <3> QED BY <2>1, <3>1, <3>2, <3>3, LateStill
  <2> QED BY <2>2, <2>3
<1>5. CASE HandOver
  <2>1. \A m \in Notes : late'[m] = IF m \in V2Notes THEN 0 ELSE late[m] BY <1>5 DEF HandOver
  <2>2. UNCHANGED << row, alerter, optedOut, disp >> BY <1>5 DEF HandOver
  <2>3. ReservedOnce' BY <2>2 DEF ReservedOnce
  <2>4. ASSUME NEW m \in Notes, m \notin V2Notes PROVE LateInv(m)'
    <3>1. Token(m)' = Token(m) /\ Token(m) \in Nat BY <2>2, Counts DEF Token
    <3>2. Barred(m)' => Barred(m) BY <2>2, <2>4 DEF Barred
    <3>3. Risk(m)' = Risk(m) BY <2>2, <2>4 DEF Risk, At, ByV2
    <3> QED BY <2>1, <2>4, <3>1, <3>2, <3>3, LateStill
  <2> QED BY <1>d, <2>1, <2>3, <2>4
<1>6. ASSUME NEW d \in Dispatchers, Start(d) \/ List(d) \/ Abort(d) PROVE ReservedOnce' /\ \A m \in Notes : LateInv(m)'
  <2>1. disp'[d].pc \notin { "check", "send" } /\ \A e \in Dispatchers \ {d} : disp'[e] = disp[e]
    <3>1. CASE Start(d)
      <4> DEFINE c == [disp[d] EXCEPT !.pc = "list", !.batch = Notes]
      <4>1. disp[d] \in Copy BY DEF TypeOK
      <4>2. c \in Copy /\ c.pc = "list" BY <4>1 DEF Copy, PCs
      <4>3. disp' = [disp EXCEPT ![d] = c] BY <3>1 DEF Start
      <4> HIDE DEF c
      <4> QED BY <4>2, <4>3, Moves
    <3>2. CASE List(d) BY <3>2, ReadMoves
    <3>3. CASE Abort(d) BY <3>3, StopMoves DEF Abort
    <3> QED BY <1>6, <3>1, <3>2, <3>3
  <2>2. UNCHANGED << late, row, alerter, optedOut, owner >> BY <1>6 DEF Start, List, Abort, sends
  <2> QED BY <1>a, <1>c, <1>r, <2>1, <2>2
<1>7. ASSUME NEW d \in Dispatchers, NEW n \in Notes, CheckOwner(d, n) PROVE ReservedOnce' /\ \A m \in Notes : LateInv(m)'
  <2>1. UNCHANGED << late, row, alerter, optedOut, owner >> BY <1>7 DEF CheckOwner, sends
  <2>2. CASE ByV2(n)
    <3>1. NextRow(d, n) BY <1>7, <2>2 DEF CheckOwner, ByV2
    <3> QED BY <1>a, <1>c, <1>r, <2>1, <3>1, NextRowMoves
  <2>3. CASE ~ByV2(n)
    <3> DEFINE c == [disp[d] EXCEPT !.pc = "check", !.cur = {n}]
    <3>1. disp[d] \in Copy BY DEF TypeOK
    <3>2. c \in Copy /\ c.pc = "check" /\ c.cur = {n} BY <3>1 DEF Copy, PCs
    <3>3. disp' = [disp EXCEPT ![d] = c] BY <1>7, <2>3 DEF CheckOwner, ByV2
    <3> HIDE DEF c
    <3>4. disp'[d].pc = "check" /\ disp'[d].cur = {n} /\ \A e \in Dispatchers \ {d} : disp'[e] = disp[e]
      BY <3>2, <3>3, Moves
    <3>5. \A m \in Notes : d \notin Risk(m)' BY <2>1, <2>3, <3>4 DEF Risk, At, ByV2
    <3>6. \A m \in Notes : Risk(m)' \subseteq Risk(m) BY <2>1, <3>4, <3>5, RiskOthers
    <3> QED BY <1>a, <1>r, <2>1, <3>6
  <2> QED BY <2>2, <2>3
<1>8. ASSUME NEW d \in Dispatchers, NEW n \in Notes, Check(d, n) PROVE ReservedOnce' /\ \A m \in Notes : LateInv(m)'
  <2>1. UNCHANGED << late, row, alerter, optedOut, owner >> BY <1>8 DEF Check, sends
  <2>2. At(d, n, "check") /\ (Goto(d, "cancel") \/ (Goto(d, "send") /\ n \notin optedOut)) BY <1>8 DEF Check
  <2>3. disp'[d].cur = {n} /\ \A e \in Dispatchers \ {d} : disp'[e] = disp[e] BY <2>2, GotoMoves DEF PCs, At
  <2>4. ReservedOnce' BY <1>r, <2>1
  <2>5. ASSUME NEW m \in Notes, m # n \/ ByV2(n) \/ n \in optedOut PROVE LateInv(m)'
    <3>1. d \in Risk(m)' => d \in Risk(m)
      <4>1. CASE m # n BY <2>3, <4>1 DEF Risk, At
      <4>2. CASE m = n /\ ByV2(n) BY <2>2, <4>2 DEF Risk
      <4>3. CASE m = n /\ n \in optedOut
        <5>1. disp'[d].pc = "cancel" BY <2>2, <4>3, GotoMoves DEF PCs
        <5> QED BY <5>1 DEF Risk, At
      <4> QED BY <2>5, <4>1, <4>2, <4>3
    <3>2. Risk(m)' \subseteq Risk(m) BY <2>1, <2>3, <3>1 DEF Risk, At, ByV2
    <3>3. Token(m)' = Token(m) /\ Token(m) \in Nat BY <2>1, Counts DEF Token
    <3>4. Barred(m)' => Barred(m) BY <2>1 DEF Barred
    <3> QED BY <2>1, <3>2, <3>3, <3>4, LateStill
  <2>6. ASSUME ~ByV2(n), n \notin optedOut PROVE LateInv(n)'
    <3>1. ~Barred(n)' BY <2>1, <2>6 DEF Barred, ByV2
    <3>2. late'[n] <= Most(n)' BY <2>1 DEF LateInv, Most, Extra
    <3> QED BY <3>1, <3>2 DEF LateInv
  <2> QED BY <2>4, <2>5, <2>6
<1>9. ASSUME NEW d \in Dispatchers, NEW n \in Notes, CancelRow(d, n) \/ MarkSent(d, n) \/ Catch(d, n)
      PROVE  ReservedOnce' /\ \A m \in Notes : LateInv(m)'
  <2>1. PICK s \in { "cancelled", "sent", "failed", "pending" }, waiting \in BOOLEAN : SetIfPending(d, n, s, waiting)
    <3>1. row[n].waiting \in BOOLEAN BY <1>0 DEF Entry
    <3> QED BY <1>9, <3>1 DEF CancelRow, MarkSent, Catch
  <2>2. \A m \in Notes : row[m].status # "absent" => row'[m].status # "absent" BY <2>1, SetType DEF Statuses
  <2>3. disp'[d].pc \notin { "check", "send" } /\ \A e \in Dispatchers \ {d} : disp'[e] = disp[e]
    BY <1>9, NextRowMoves DEF CancelRow, MarkSent, Catch
  <2>4. UNCHANGED << late, alerter, optedOut, owner >> BY <1>9 DEF CancelRow, MarkSent, Catch, sends
  <2> QED BY <1>a, <1>c, <1>r, <2>2, <2>3, <2>4
<1>10. ASSUME NEW d \in Dispatchers, NEW n \in Notes, SendFails(d, n) \/ CallFails(d, n)
       PROVE  ReservedOnce' /\ \A m \in Notes : LateInv(m)'
  <2>1. disp'[d].pc \notin { "check", "send" } /\ \A e \in Dispatchers \ {d} : disp'[e] = disp[e]
    BY <1>10, GotoMoves DEF SendFails, CallFails, PCs
  <2>2. UNCHANGED << late, row, alerter, optedOut, owner >> BY <1>10 DEF SendFails, CallFails, sends
  <2> QED BY <1>a, <1>c, <1>r, <2>1, <2>2
<1>11. ASSUME NEW d \in Dispatchers, NEW n \in Notes, Send(d, n) PROVE ReservedOnce' /\ \A m \in Notes : LateInv(m)'
  <2>1. UNCHANGED << row, alerter, optedOut, owner >> /\ Deliver(n) /\ At(d, n, "send") BY <1>11 DEF Send
  <2>2. Goto(d, "sent") \/ Goto(d, "catch") BY <1>11 DEF Send
  <2>3. disp'[d].pc \notin { "check", "send" } /\ \A e \in Dispatchers \ {d} : disp'[e] = disp[e]
    BY <2>2, GotoMoves DEF PCs
  <2>4. \A m \in Notes : Risk(m)' \subseteq Risk(m) BY <1>c, <2>1, <2>3
  <2>5. \A m \in Notes : Token(m)' = Token(m) /\ Token(m) \in Nat BY <2>1, Counts DEF Token
  <2>6. \A m \in Notes : Barred(m)' <=> Barred(m) BY <2>1 DEF Barred
  <2>7. ASSUME NEW m \in Notes, m # n \/ ~Barred(n) PROVE LateInv(m)'
    <3>1. late'[m] = late[m] BY <2>1, <2>7 DEF Deliver, TypeOK
    <3> QED BY <2>4, <2>5, <2>6, <3>1, LateStill
  <2>8. ASSUME Barred(n) PROVE LateInv(n)'
    <3>1. late'[n] = late[n] + 1 BY <2>1, <2>8 DEF Deliver, TypeOK
    <3>2. d \in Risk(n) /\ d \notin Risk(n)' BY <2>1, <2>3 DEF Risk, At
    <3>3. Risk(n)' \subseteq Risk(n) \ {d} BY <2>4, <3>2
    <3>4. /\ IsFiniteSet(Risk(n)) /\ Cardinality(Risk(n)) \in Nat
          /\ IsFiniteSet(Risk(n) \ {d}) /\ Cardinality(Risk(n) \ {d}) = Cardinality(Risk(n)) - 1
      BY <3>2, Counts, FS_RemoveElement
    <3>5. IsFiniteSet(Risk(n)') /\ Cardinality(Risk(n)') <= Cardinality(Risk(n)) - 1 BY <3>3, <3>4, FS_Subset
    <3>6. Cardinality(Risk(n)') \in Nat BY <3>5, FS_CardinalityType
    <3>7. late[n] + Cardinality(Risk(n)) + Token(n) <= Most(n) BY <2>8 DEF LateInv
    <3>8. Most(n)' = Most(n) /\ Most(n) \in Nat BY Counts DEF Most, Extra
    <3>9. late'[n] + Cardinality(Risk(n)') + Token(n)' <= Most(n)' /\ late'[n] <= Most(n)'
      BY <1>0, <2>5, <3>1, <3>4, <3>5, <3>6, <3>7, <3>8
    <3> QED BY <3>9 DEF LateInv
  <2>9. ReservedOnce' BY <1>r, <2>1
  <2> QED BY <2>7, <2>8, <2>9
<1>12. ASSUME NEW n \in Alerts, Reserve(n) PROVE ReservedOnce' /\ \A m \in Notes : LateInv(m)'
  <2>1. n \in Notes BY QueueAssumption
  <2>2. row' = [row EXCEPT ![n] = Fresh(n, TRUE, FALSE)] /\ alerter' = [alerter EXCEPT ![n] = "send"]
    BY <1>12 DEF Reserve
  <2>3. alerter[n] = "none" BY <1>12 DEF Reserve, ReservedOnce
  <2>4. \A m \in Notes : row[m].status # "absent" => row'[m].status # "absent"
    BY <2>1, <2>2, FreshIsEntry DEF TypeOK
  <2>5. row'[n].status # "absent" BY <2>1, <2>2, FreshIsEntry DEF TypeOK
  <2>6. \A m \in Alerts \ {n} : alerter'[m] = alerter[m] BY <2>2 DEF TypeOK
  <2>7. ReservedOnce' BY <2>4, <2>5, <2>6, QueueAssumption DEF ReservedOnce
  <2>8. UNCHANGED << late, disp, owner, optedOut >> BY <1>12 DEF Reserve, sends
  <2>9. alerter'[n] = "send" BY <2>2 DEF TypeOK
  <2>10. \A m \in Notes : Token(m)' = Token(m) /\ Token(m) \in Nat BY <2>3, <2>6, <2>9, Counts DEF Token
  <2>11. \A m \in Notes : Barred(m)' => Barred(m) BY <2>8 DEF Barred
  <2> QED BY <1>b, <2>7, <2>8, <2>10, <2>11, LateStill
<1>13. ASSUME NEW n \in Alerts, SendAlert(n) PROVE ReservedOnce' /\ \A m \in Notes : LateInv(m)'
  <2>1. n \in Notes /\ alerter[n] = "send" BY <1>13, QueueAssumption DEF SendAlert
  <2>2. UNCHANGED << row, disp, owner, optedOut >> BY <1>13 DEF SendAlert
  <2>3. PICK pc \in { "markSent", "markFailed" } : alerter' = [alerter EXCEPT ![n] = pc] BY <1>13 DEF SendAlert
  <2>4. alerter'[n] = pc /\ \A m \in Alerts \ {n} : alerter'[m] = alerter[m] BY <2>3 DEF TypeOK
  <2>5. ReservedOnce' BY <2>1, <2>2, <2>4 DEF ReservedOnce
  <2>6. Token(n) = 1 /\ Token(n)' = 0 /\ \A m \in Notes \ {n} : Token(m)' = Token(m) /\ Token(m) \in Nat
    BY <2>1, <2>4, Counts DEF Token
  <2>7. \A m \in Notes : (Barred(m)' <=> Barred(m)) /\ Risk(m)' = Risk(m) BY <1>b, <2>2 DEF Barred
  <2>8. ASSUME NEW m \in Notes, m # n \/ late'[m] = late[m] PROVE LateInv(m)'
    <3>1. late'[m] = late[m] BY <1>13, <2>1, <2>8 DEF SendAlert, Deliver, sends, TypeOK
    <3>2. Token(m)' <= Token(m) /\ Token(m)' \in Nat BY <2>6
    <3> QED BY <2>7, <3>1, <3>2, LateStill
  <2>9. ASSUME late'[n] # late[n] PROVE LateInv(n)'
    <3>1. late'[n] = late[n] + 1 /\ Barred(n) BY <1>13, <2>1, <2>9 DEF SendAlert, Deliver, sends, TypeOK
    <3>2. late[n] + Cardinality(Risk(n)) + Token(n) <= Most(n) BY <1>0, <2>1, <3>1 DEF LateInv
    <3>3. Most(n)' = Most(n) /\ Most(n) \in Nat /\ Cardinality(Risk(n)) \in Nat BY <2>1, Counts DEF Most, Extra
    <3>4. late'[n] + Cardinality(Risk(n)') + Token(n)' <= Most(n)' /\ late'[n] <= Most(n)'
      BY <1>0, <2>1, <2>6, <2>7, <3>1, <3>2, <3>3
    <3> QED BY <3>4 DEF LateInv
  <2> QED BY <2>5, <2>8, <2>9
<1>14. ASSUME NEW n \in Alerts, MarkAlert(n) \/ AbandonAlert(n) PROVE ReservedOnce' /\ \A m \in Notes : LateInv(m)'
  <2>1. n \in Notes /\ row[n] \in Entry BY <1>0, QueueAssumption
  <2>2. UNCHANGED << late, disp, owner, optedOut >> BY <1>14 DEF MarkAlert, AbandonAlert, sends
  <2>3. alerter'[n] = "done" /\ alerter[n] # "none" /\ \A m \in Alerts \ {n} : alerter'[m] = alerter[m]
    BY <1>14 DEF MarkAlert, AbandonAlert, TypeOK
  <2>4. \A m \in Notes : row[m].status # "absent" => row'[m].status # "absent"
    BY <1>14, <2>1 DEF MarkAlert, AbandonAlert, TypeOK, Entry
  <2>5. ReservedOnce' BY <1>r, <2>3, <2>4
  <2>6. \A m \in Notes : Token(m)' <= Token(m) /\ Token(m)' \in Nat BY <2>3, Counts DEF Token
  <2>7. \A m \in Notes : Barred(m)' => Barred(m) BY <2>2 DEF Barred
  <2> QED BY <1>b, <2>2, <2>5, <2>6, <2>7, LateStill
<1>15. CASE UNCHANGED vars BY <1>15, <1>a, <1>b, <1>r DEF vars
<1>16. CASE Next
  <2>1. ASSUME NEW d \in Dispatchers, Step(d) PROVE ReservedOnce' /\ \A m \in Notes : LateInv(m)'
    BY <2>1, <1>6, <1>7, <1>8, <1>9, <1>10, <1>11, Zenon DEF Step
  <2> QED BY <1>16, <1>1, <1>2, <1>3, <1>4, <1>5, <1>6, <1>12, <1>13, <1>14, <2>1, Zenon DEF Next
<1> QED BY <1>15, <1>16

LEMMA LateInit == Init => ReservedOnce /\ \A n \in Notes : LateInv(n)
<1> SUFFICES ASSUME Init PROVE ReservedOnce /\ (\A n \in Notes : LateInv(n)) OBVIOUS
<1>1. ReservedOnce BY DEF Init, ReservedOnce
<1>2. ASSUME NEW n \in Notes PROVE LateInv(n)
  <2>1. late[n] = 0 BY <1>2 DEF Init, Zero
  <2>2. /\ Cardinality(Risk(n)) \in Nat /\ Cardinality(Risk(n)) <= Cardinality(Dispatchers)
        /\ Cardinality(Dispatchers) \in Nat
        /\ Token(n) \in Nat /\ Extra(n) \in Nat /\ Token(n) <= Extra(n)
    BY Counts
  <2>3. late[n] <= Most(n) /\ late[n] + Cardinality(Risk(n)) + Token(n) <= Most(n) BY <2>1, <2>2 DEF Most
  <2> QED BY <2>3 DEF LateInv
<1> QED BY <1>1, <1>2

\* Once a recipient has opted out, or v2 has taken the tenant over, at most one
\* message for each dispatcher still goes out, and one more for an alert that is on
\* its way, however often the note is scheduled, retried, opted in and out
\* (scheduler.ts:246-283).
THEOREM LateCorrect == Spec => []LateBounded
<1> DEFINE AllLate == \A n \in Notes : LateInv(n)
<1>1. Init => ReservedOnce /\ AllLate BY LateInit
<1>2. TypeOK /\ ReservedOnce /\ AllLate /\ [Next]_vars => ReservedOnce' /\ AllLate' BY LateStep
<1>3. AllLate => LateBounded BY DEF LateInv, LateBounded, Most, Extra
<1> QED BY <1>1, <1>2, <1>3, TypeInit, TypeStep, PTL DEF Spec

-----------------------------------------------------------------------------
(* How often one note goes out.                                            *)
(*                                                                         *)
(* What dispatcher d still does with note n: it may send it, it has sent   *)
(* it and marks it next, or it has nothing more to send for it.            *)
Loop == { "owner", "check", "cancel", "send", "sent", "catch" }

Role(d, n) ==
  IF disp[d].pc \notin Loop THEN "none"
  ELSE IF disp[d].pc # "owner" /\ disp[d].cur = {n}
  THEN IF disp[d].pc \in { "check", "send" } THEN "hold"
       ELSE IF disp[d].pc = "sent" THEN "sent" ELSE "none"
  ELSE IF n \in disp[d].batch THEN "hold" ELSE "none"

Held(n) == Cardinality({ d \in Dispatchers : Role(d, n) = "hold" })
Marking(n) == Cardinality({ d \in Dispatchers : Role(d, n) = "sent" })
Slots == Cardinality(Dispatchers)
Rounds(n) == row[n].rev + faults

\* While a row is pending every dispatcher may read it again, but those that have sent
\* it mark it first; once it is not, only the copies that are held still go out.  Each
\* schedule and each fault is worth one message of every dispatcher.
Pending(n) == delivered[n] + Token(n) + Slots <= Slots * Rounds(n) + Marking(n) + Extra(n)
Settled(n) == delivered[n] + Token(n) + Held(n) <= Slots * Rounds(n) + Extra(n)
DuplicatesAt(n) == IF row[n].status = "pending" THEN Pending(n) ELSE Settled(n)
DuplicatesInv == faults \in Nat /\ \A n \in Notes : DuplicatesAt(n)

\* Two sets that differ at most in one element.
LEMMA OneMoves ==
  ASSUME NEW U, IsFiniteSet(U), NEW S \in SUBSET U, NEW T \in SUBSET U, NEW d \in U,
         \A e \in U \ {d} : e \in S <=> e \in T
  PROVE  /\ Cardinality(S) \in Nat /\ Cardinality(T) \in Nat
         /\ Cardinality(T) + (IF d \in S THEN 1 ELSE 0) = Cardinality(S) + (IF d \in T THEN 1 ELSE 0)
<1>1. IsFiniteSet(S) /\ IsFiniteSet(T) BY FS_Subset
<1>2. Cardinality(S) \in Nat /\ Cardinality(T) \in Nat BY <1>1, FS_CardinalityType
<1>3. CASE d \in S <=> d \in T
  <2>1. S = T BY <1>3
  <2> QED BY <1>2, <2>1
<1>4. CASE d \in S /\ d \notin T
  <2>1. T = S \ {d} BY <1>4
  <2>2. Cardinality(T) = Cardinality(S) - 1 BY <1>1, <1>4, <2>1, FS_RemoveElement
  <2> QED BY <1>2, <1>4, <2>2
<1>5. CASE d \notin S /\ d \in T
  <2>1. T = S \cup {d} BY <1>5
  <2>2. Cardinality(T) = Cardinality(S) + 1 BY <1>1, <1>5, <2>1, FS_AddElement
  <2> QED BY <1>2, <1>5, <2>2
<1> QED BY <1>3, <1>4, <1>5

\* A dispatcher either holds a note or marks it.
LEMMA RolesCount ==
  ASSUME NEW n \in Notes
  PROVE  Slots \in Nat /\ Held(n) \in Nat /\ Marking(n) \in Nat /\ Held(n) + Marking(n) <= Slots
<1> DEFINE S == { d \in Dispatchers : Role(d, n) = "hold" }
           T == { d \in Dispatchers : Role(d, n) = "sent" }
<1>1. IsFiniteSet(Dispatchers) BY QueueAssumption
<1>2. S \in SUBSET Dispatchers /\ T \in SUBSET Dispatchers /\ S \cup T \in SUBSET Dispatchers /\ S \cap T = {} OBVIOUS
<1>3. Held(n) = Cardinality(S) /\ Marking(n) = Cardinality(T) BY DEF Held, Marking
<1> HIDE DEF S, T
<1>4. IsFiniteSet(S) /\ IsFiniteSet(T) BY <1>1, <1>2, FS_Subset
<1>5. Cardinality(S) \in Nat /\ Cardinality(T) \in Nat /\ Slots \in Nat BY <1>1, <1>4, FS_CardinalityType DEF Slots
<1>6. Cardinality(S \cup T) = Cardinality(S) + Cardinality(T)
  <2>1. Cardinality(S \cup T) = Cardinality(S) + Cardinality(T) - Cardinality(S \cap T) BY <1>4, FS_Union
  <2>2. Cardinality(S \cap T) = 0 BY <1>2, FS_EmptySet
  <2> QED BY <1>5, <2>1, <2>2
<1>7. Cardinality(S \cup T) <= Slots BY <1>1, <1>2, FS_Subset DEF Slots
<1> QED BY <1>3, <1>5, <1>6, <1>7

\* How the counts change when one dispatcher goes on.
LEMMA RolesMove ==
  ASSUME NEW d \in Dispatchers, \A e \in Dispatchers \ {d} : disp'[e] = disp[e], NEW n \in Notes
  PROVE  /\ Held(n)' \in Nat /\ Marking(n)' \in Nat
         /\ Held(n)' + (IF Role(d, n) = "hold" THEN 1 ELSE 0) = Held(n) + (IF Role(d, n)' = "hold" THEN 1 ELSE 0)
         /\ Marking(n)' + (IF Role(d, n) = "sent" THEN 1 ELSE 0)
              = Marking(n) + (IF Role(d, n)' = "sent" THEN 1 ELSE 0)
<1> DEFINE S(r) == { e \in Dispatchers : Role(e, n) = r }
           T(r) == { e \in Dispatchers : Role(e, n)' = r }
<1>1. \A e \in Dispatchers \ {d} : Role(e, n)' = Role(e, n) BY DEF Role
<1>2. \A r : /\ S(r) \in SUBSET Dispatchers /\ T(r) \in SUBSET Dispatchers
             /\ (d \in S(r) <=> Role(d, n) = r) /\ (d \in T(r) <=> Role(d, n)' = r)
             /\ \A e \in Dispatchers \ {d} : e \in S(r) <=> e \in T(r)
  BY <1>1
<1>3. /\ Held(n) = Cardinality(S("hold")) /\ Held(n)' = Cardinality(T("hold"))
      /\ Marking(n) = Cardinality(S("sent")) /\ Marking(n)' = Cardinality(T("sent"))
  BY DEF Held, Marking
<1> HIDE DEF S, T
<1>4. IsFiniteSet(Dispatchers) BY QueueAssumption
<1>5. \A r : /\ Cardinality(T(r)) \in Nat
             /\ Cardinality(T(r)) + (IF d \in S(r) THEN 1 ELSE 0) = Cardinality(S(r)) + (IF d \in T(r) THEN 1 ELSE 0)
  BY <1>2, <1>4, OneMoves
<1> QED BY <1>2, <1>3, <1>5

LEMMA RolesStay ==
  ASSUME NEW n \in Notes, disp' = disp
  PROVE  Held(n)' = Held(n) /\ Marking(n)' = Marking(n) /\ \A d \in Dispatchers : Role(d, n)' = Role(d, n)
BY DEF Held, Marking, Role

\* The role of a dispatcher that works on n, past the check of the owner.
Of(pc) == IF pc \in { "check", "send" } THEN "hold" ELSE IF pc = "sent" THEN "sent" ELSE "none"

LEMMA RoleGoto ==
  ASSUME TypeOK, NEW d \in Dispatchers, NEW n \in Notes, NEW pc \in Loop \ { "owner" }, NEW qc \in Loop \ { "owner" },
         At(d, n, pc), Goto(d, qc)
  PROVE  /\ Role(d, n) = Of(pc) /\ Role(d, n)' = Of(qc) /\ \A m \in Notes \ {n} : Role(d, m)' = Role(d, m)
         /\ \A e \in Dispatchers \ {d} : disp'[e] = disp[e]
<1>1. disp[d].pc = pc /\ disp[d].cur = {n} BY DEF At
<1>2. disp'[d].pc = qc /\ disp'[d].cur = {n} /\ disp'[d].batch = disp[d].batch
  BY <1>1 DEF Goto, TypeOK, Copy
<1>3. \A m \in Notes \ {n} : {n} # {m} OBVIOUS
<1>4. \A e \in Dispatchers \ {d} : disp'[e] = disp[e] BY DEF Goto, TypeOK
<1> QED BY <1>1, <1>2, <1>3, <1>4 DEF Role, Of

LEMMA RoleNext ==
  ASSUME TypeOK, NEW d \in Dispatchers, NEW n \in Notes, disp[d].pc \in Loop,
         disp[d].pc = "owner" \/ disp[d].cur = {n}, NextRow(d, n)
  PROVE  /\ Role(d, n)' = "none" /\ \A m \in Notes \ {n} : Role(d, m)' = Role(d, m)
         /\ \A e \in Dispatchers \ {d} : disp'[e] = disp[e]
<1>0. \A m \in Notes \ {n} : {n} # {m} OBVIOUS
<1>1. \A m \in Notes \ {n} : Role(d, m) = IF m \in disp[d].batch THEN "hold" ELSE "none" BY <1>0 DEF Role
<1>2. \A e \in Dispatchers \ {d} : disp'[e] = disp[e] BY DEF NextRow, Stop, TypeOK
<1>3. CASE disp[d].batch = {n}
  <2>1. disp'[d] = Idle BY <1>3 DEF NextRow, Stop, TypeOK
  <2>2. \A m \in Notes : Role(d, m)' = "none" BY <2>1 DEF Role, Idle, Loop
  <2> QED BY <1>1, <1>2, <1>3, <2>2
<1>4. CASE disp[d].batch # {n}
  <2>1. disp' = [disp EXCEPT ![d].pc = "owner", ![d].batch = @ \ {n}, ![d].cur = {}] BY <1>4 DEF NextRow
  <2>2. disp'[d].pc = "owner" /\ disp'[d].batch = disp[d].batch \ {n} BY <2>1 DEF TypeOK, Copy
  <2>3. \A m \in Notes : Role(d, m)' = IF m \in disp[d].batch \ {n} THEN "hold" ELSE "none" BY <2>2 DEF Role, Loop
  <2> QED BY <1>1, <1>2, <2>3
<1> QED BY <1>3, <1>4

-----------------------------------------------------------------------------
(* What a step does to a note, in numbers.                                 *)
IsPending(n) == row[n].status = "pending"
NoMore(n) == delivered'[n] + Token(n)' <= delivered[n] + Token(n)

Calm(n) == /\ IsPending(n)' <=> IsPending(n)
           /\ Rounds(n)' = Rounds(n) /\ NoMore(n) /\ Marking(n)' = Marking(n)
           /\ IsPending(n) \/ Held(n)' <= Held(n)
Sends(n) == /\ IsPending(n)' <=> IsPending(n)
            /\ Rounds(n)' = Rounds(n) /\ delivered'[n] = delivered[n] + 1 /\ Token(n)' = Token(n)
            /\ Marking(n)' = Marking(n) + 1 /\ Held(n) = Held(n)' + 1
Loses(n) == /\ IsPending(n)' <=> IsPending(n)
            /\ Rounds(n)' = Rounds(n) + 1 /\ delivered'[n] = delivered[n] + 1 /\ Token(n)' = Token(n)
            /\ Marking(n)' = Marking(n) /\ Held(n)' <= Held(n) /\ Slots >= 1
Earns(n) == /\ IsPending(n) => IsPending(n)'
            /\ Rounds(n)' = Rounds(n) + 1 /\ NoMore(n) /\ Held(n)' <= Held(n)
Settles(n) == /\ ~IsPending(n)'
              /\ Rounds(n)' = Rounds(n) /\ NoMore(n) /\ Held(n)' <= Held(n)

Deals(n) == Calm(n) \/ Sends(n) \/ Loses(n) \/ Earns(n) \/ Settles(n)

\* Products of the bound, for the provers.
LEMMA Times ==
  ASSUME NEW k \in Nat, NEW r \in Nat
  PROVE  k * r \in Nat /\ k * (r + 1) = k * r + k
OBVIOUS

LEMMA NumbersAre ==
  ASSUME TypeOK, faults \in Nat, NEW n \in Notes
  PROVE  delivered[n] \in Nat /\ Token(n) \in Nat /\ Extra(n) \in Nat /\ Rounds(n) \in Nat
<1>1. row[n].rev \in Nat /\ delivered[n] \in Nat BY DEF TypeOK, Entry
<1> QED BY <1>1, Counts DEF Rounds

LEMMA DealsBalance ==
  ASSUME TypeOK, TypeOK', faults \in Nat, faults' \in Nat, NEW n \in Notes, DuplicatesAt(n), Deals(n),
         Held(n)' \in Nat, Marking(n)' \in Nat
  PROVE  DuplicatesAt(n)'
<1> DEFINE k == Slots  r == Rounds(n)  r2 == Rounds(n)'  h == Held(n)  h2 == Held(n)'
           m == Marking(n)  m2 == Marking(n)'  g == delivered[n]  g2 == delivered'[n]
           t == Token(n)  t2 == Token(n)'  x == Extra(n)
<1>1. k \in Nat /\ h \in Nat /\ m \in Nat /\ h + m <= k /\ h2 \in Nat /\ m2 \in Nat BY RolesCount
<1>2. g \in Nat /\ t \in Nat /\ x \in Nat /\ r \in Nat BY NumbersAre
<1>3. g2 \in Nat /\ t2 \in Nat /\ r2 \in Nat
  <2>1. row'[n].rev \in Nat /\ delivered'[n] \in Nat BY DEF TypeOK, Entry
  <2>2. Token(n)' \in Nat BY DEF Token
  <2> QED BY <2>1, <2>2 DEF Rounds
<1>4. k * r \in Nat /\ k * r2 \in Nat /\ (r2 = r + 1 => k * r2 = k * r + k) BY <1>1, <1>2, <1>3, Times
<1>5. /\ Pending(n) <=> g + t + k <= k * r + m + x
      /\ Settled(n) <=> g + t + h <= k * r + x
      /\ Pending(n)' <=> g2 + t2 + k <= k * r2 + m2 + x
      /\ Settled(n)' <=> g2 + t2 + h2 <= k * r2 + x
  <2>1. Slots' = Slots /\ Extra(n)' = Extra(n) BY DEF Slots, Extra
  <2> QED BY <2>1 DEF Pending, Settled
<1>6. /\ IF IsPending(n) THEN Pending(n) ELSE Settled(n)
      /\ DuplicatesAt(n)' <=> IF IsPending(n)' THEN Pending(n)' ELSE Settled(n)'
  BY DEF DuplicatesAt, IsPending
<1>7. NoMore(n) <=> g2 + t2 <= g + t BY DEF NoMore
<1>8. /\ Calm(n) => /\ IsPending(n)' <=> IsPending(n)
                    /\ r2 = r /\ g2 + t2 <= g + t /\ m2 = m /\ (IsPending(n) \/ h2 <= h)
      /\ Sends(n) => /\ IsPending(n)' <=> IsPending(n)
                     /\ r2 = r /\ g2 = g + 1 /\ t2 = t /\ m2 = m + 1 /\ h = h2 + 1
      /\ Loses(n) => /\ IsPending(n)' <=> IsPending(n)
                     /\ r2 = r + 1 /\ g2 = g + 1 /\ t2 = t /\ m2 = m /\ h2 <= h /\ k >= 1
      /\ Earns(n) => /\ IsPending(n) => IsPending(n)'
                     /\ r2 = r + 1 /\ g2 + t2 <= g + t /\ h2 <= h
      /\ Settles(n) => ~IsPending(n)' /\ r2 = r /\ g2 + t2 <= g + t /\ h2 <= h
  BY <1>7 DEF Calm, Sends, Loses, Earns, Settles
<1> HIDE DEF k, r, r2, h, h2, m, m2, g, g2, t, t2, x
<1>9. CASE Calm(n) BY <1>1, <1>2, <1>3, <1>4, <1>5, <1>6, <1>8, <1>9
<1>10. CASE Sends(n) BY <1>1, <1>2, <1>3, <1>4, <1>5, <1>6, <1>8, <1>10
<1>11. CASE Loses(n) BY <1>1, <1>2, <1>3, <1>4, <1>5, <1>6, <1>8, <1>11
<1>12. CASE Earns(n) BY <1>1, <1>2, <1>3, <1>4, <1>5, <1>6, <1>8, <1>12
<1>13. CASE Settles(n) BY <1>1, <1>2, <1>3, <1>4, <1>5, <1>6, <1>8, <1>13
<1> QED BY <1>9, <1>10, <1>11, <1>12, <1>13 DEF Deals

\* An update on the condition that the row is pending is not a schedule.
LEMMA SetRev ==
  ASSUME TypeOK, NEW d \in Dispatchers, NEW n \in Notes, NEW s, NEW waiting, SetIfPending(d, n, s, waiting)
  PROVE  /\ \A m \in Notes : row'[m].rev = row[m].rev
         /\ \A m \in Notes \ {n} : row'[m] = row[m]
         /\ IF row[n].status = "pending" THEN row'[n].status = s ELSE row'[n] = row[n]
<1>1. row \in [Notes -> Entry] BY DEF TypeOK
<1>2. CASE row[n].status # "pending" BY <1>1, <1>2 DEF SetIfPending
<1>3. CASE row[n].status = "pending"
  <2> DEFINE e == [row[n] EXCEPT !.status = s, !.attempts = disp[d].attempts[n] + 1, !.waiting = waiting]
  <2>1. e.status = s /\ e.rev = row[n].rev BY <1>1 DEF Entry
  <2>2. row' = [row EXCEPT ![n] = e] BY <1>3 DEF SetIfPending
  <2> HIDE DEF e
  <2> QED BY <1>1, <1>3, <2>1, <2>2
<1> QED BY <1>2, <1>3

LEMMA DealsNext ==
  ASSUME TypeOK, ReservedOnce, faults \in Nat, Next
  PROVE  /\ faults' \in Nat
         /\ \A n \in Notes : Deals(n) /\ Held(n)' \in Nat /\ Marking(n)' \in Nat
<1> DEFINE Counted == \A n \in Notes : Held(n)' \in Nat /\ Marking(n)' \in Nat
           Goal == faults' \in Nat /\ Counted /\ \A n \in Notes : Deals(n)
<1>0. /\ row \in [Notes -> Entry] /\ disp \in [Dispatchers -> Copy] /\ delivered \in [Notes -> Nat]
      /\ \A n \in Notes : row[n] \in Entry /\ row[n].rev \in Nat /\ delivered[n] \in Nat /\ Held(n) \in Nat
                          /\ Marking(n) \in Nat /\ Token(n) \in Nat
  BY RolesCount, Counts DEF TypeOK, Entry
<1>f. Fault => faults' \in Nat /\ faults' = faults + 1 BY DEF Fault
<1>k. alerter' = alerter => \A n \in Notes : Token(n)' = Token(n) BY DEF Token
<1>m. alerter' = alerter /\ delivered' = delivered => \A n \in Notes : NoMore(n) BY <1>0, <1>k DEF NoMore
\* Nobody moves.
<1>s. ASSUME disp' = disp PROVE Counted /\ \A n \in Notes : Held(n)' = Held(n) /\ Marking(n)' = Marking(n)
  BY <1>s, <1>0, RolesStay
\* A row that is left alone.
<1>r. ASSUME NEW n \in Notes, row'[n].status = row[n].status, row'[n].rev = row[n].rev
      PROVE  /\ IsPending(n)' <=> IsPending(n)
             /\ faults' = faults => Rounds(n)' = Rounds(n)
             /\ faults' = faults + 1 => Rounds(n)' = Rounds(n) + 1
  <2>1. row[n].rev \in Nat BY <1>0
  <2> QED BY <1>r, <2>1 DEF IsPending, Rounds
<1>c. ASSUME NEW n \in Notes, row'[n].status = row[n].status, row'[n].rev = row[n].rev, faults' = faults,
             NoMore(n), Marking(n)' = Marking(n), IsPending(n) \/ Held(n)' <= Held(n)
      PROVE  Deals(n)
  BY <1>c, <1>r DEF Deals, Calm
<1>e. ASSUME NEW n \in Notes, row'[n].status = row[n].status, row'[n].rev = row[n].rev, faults' = faults + 1,
             NoMore(n), Held(n)' <= Held(n)
      PROVE  Deals(n)
  BY <1>e, <1>r DEF Deals, Earns
\* One note is scheduled, and nobody holds it anew.
<1>x. ASSUME NEW n \in Notes, NEW due \in BOOLEAN, NEW test \in BOOLEAN, row' = [row EXCEPT ![n] = Fresh(n, due, test)],
             faults' = faults, \A m \in Notes : NoMore(m) /\ Held(m)' = Held(m) /\ Marking(m)' = Marking(m)
      PROVE  \A m \in Notes : Deals(m)
  <2>1. row'[n] = Fresh(n, due, test) /\ \A m \in Notes \ {n} : row'[m] = row[m] BY <1>0, <1>x
  <2>2. row'[n].status = "pending" /\ row'[n].rev = row[n].rev + 1 BY <2>1 DEF Fresh
  <2>3. Earns(n) BY <1>0, <1>x, <2>2 DEF Earns, IsPending, Rounds
  <2>4. ASSUME NEW m \in Notes \ {n} PROVE Deals(m) BY <1>0, <1>c, <1>x, <2>1
  <2> QED BY <2>3, <2>4 DEF Deals
\* One row is no longer pending.
<1>y. ASSUME NEW n \in Notes, row'[n].status # "pending", row'[n].rev = row[n].rev,
             \A m \in Notes \ {n} : row'[m] = row[m],
             faults' = faults, \A m \in Notes : NoMore(m) /\ Held(m)' <= Held(m),
             \A m \in Notes \ {n} : Marking(m)' = Marking(m)
      PROVE  \A m \in Notes : Deals(m)
  <2>1. Settles(n) BY <1>0, <1>y DEF Settles, IsPending, Rounds
  <2>2. ASSUME NEW m \in Notes \ {n} PROVE Deals(m) BY <1>c, <1>y
  <2> QED BY <2>1, <2>2 DEF Deals
\* The dispatcher that moves has nothing in hand, before and after.
<1>i. ASSUME NEW d \in Dispatchers, \A e \in Dispatchers \ {d} : disp'[e] = disp[e],
             disp[d].pc \notin Loop, disp'[d].pc \notin Loop
      PROVE  Counted /\ \A n \in Notes : Held(n)' = Held(n) /\ Marking(n)' = Marking(n)
  <2>1. \A n \in Notes : Role(d, n) = "none" /\ Role(d, n)' = "none" BY <1>i DEF Role
  <2> QED BY <1>0, <1>i, <2>1, RolesMove
<1>1. ASSUME NEW n \in Notes, Schedule(n) PROVE Goal
  <2>1. PICK due \in BOOLEAN, test \in BOOLEAN : row' = [row EXCEPT ![n] = Fresh(n, due, test)] BY <1>1 DEF Schedule
  <2>2. UNCHANGED << disp, alerter, delivered, faults >> BY <1>1 DEF Schedule, sends
  <2> QED BY <1>m, <1>s, <1>x, <2>1, <2>2
<1>2. ASSUME NEW d \in Dispatchers, NEW n \in Notes, Notify(d, n) PROVE Goal
  <2>1. PICK test \in BOOLEAN : row' = [row EXCEPT ![n] = Fresh(n, TRUE, test)] BY <1>2 DEF Notify
  <2>2. UNCHANGED << alerter, delivered, faults >> BY <1>2 DEF Notify, sends
  <2>3. disp[d] = Idle /\ disp' = [disp EXCEPT ![d].pc = "list", ![d].batch = {n}] BY <1>2 DEF Notify
  <2>4. disp[d].pc = "idle" /\ disp'[d].pc = "list" /\ \A e \in Dispatchers \ {d} : disp'[e] = disp[e]
    BY <1>0, <2>3 DEF Copy, Idle
  <2>5. Counted /\ \A m \in Notes : Held(m)' = Held(m) /\ Marking(m)' = Marking(m) BY <1>i, <2>4 DEF Loop
  <2> QED BY <1>m, <1>x, <2>1, <2>2, <2>5
<1>3. ASSUME NEW n \in Notes, Cancel(n) PROVE Goal
  <2>1. UNCHANGED << disp, alerter, delivered, faults >> /\ row' = [row EXCEPT ![n].status = "cancelled"]
    BY <1>3 DEF Cancel, sends
  <2>2. row'[n].status = "cancelled" /\ row'[n].rev = row[n].rev /\ \A m \in Notes \ {n} : row'[m] = row[m]
    BY <1>0, <2>1 DEF Entry
  <2> QED BY <1>0, <1>m, <1>s, <1>y, <2>1, <2>2
<1>4. ASSUME NEW n \in Notes, Tick(n) PROVE Goal
  <2>1. UNCHANGED << disp, alerter, delivered, faults >> BY <1>4 DEF Tick, sends
  <2>2. \A m \in Notes : row'[m].status = row[m].status /\ row'[m].rev = row[m].rev BY <1>0, <1>4 DEF Tick, Entry
  <2> QED BY <1>0, <1>c, <1>m, <1>s, <2>1, <2>2
<1>5. ASSUME UNCHANGED << row, disp, alerter, delivered, faults >> PROVE Goal BY <1>0, <1>5, <1>c, <1>m, <1>s
<1>6. ASSUME NEW d \in Dispatchers, Start(d) PROVE Goal
  <2>1. UNCHANGED << row, alerter, delivered, faults >> BY <1>6 DEF Start, sends
  <2>2. disp[d].pc = "idle" /\ disp'[d].pc = "list" /\ \A e \in Dispatchers \ {d} : disp'[e] = disp[e]
    BY <1>0, <1>6 DEF Start, Copy, Idle
  <2>3. Counted /\ \A m \in Notes : Held(m)' = Held(m) /\ Marking(m)' = Marking(m) BY <1>i, <2>2 DEF Loop
  <2> QED BY <1>0, <1>c, <1>m, <2>1, <2>3
<1>7. ASSUME NEW d \in Dispatchers, List(d) PROVE Goal
  <2>1. UNCHANGED << row, alerter, delivered, faults >> /\ disp[d].pc = "list" BY <1>7 DEF List, sends
  <2>2. /\ \A e \in Dispatchers \ {d} : disp'[e] = disp[e]
        /\ \A n \in Notes : Role(d, n)' = "none" \/ (Role(d, n)' = "hold" /\ IsPending(n))
    <3>1. PICK T \in SUBSET Due(disp[d].batch) :
            LET B == { n \in T : ~row[n].waiting } IN
            disp' = [disp EXCEPT ![d] =
              IF B = {} THEN Idle
              ELSE [ pc |-> "owner", batch |-> B, cur |-> {},
                     attempts |-> [n \in Notes |-> IF n \in B THEN row[n].attempts ELSE 0],
                     test |-> { n \in B : row[n].test } ]]
      BY <1>7 DEF List, Read
    <3> DEFINE B == { n \in T : ~row[n].waiting }
               a == [n \in Notes |-> IF n \in B THEN row[n].attempts ELSE 0]
               t == { n \in B : row[n].test }
               c == [ pc |-> "owner", batch |-> B, cur |-> {}, attempts |-> a, test |-> t ]
    <3>2. disp' = [disp EXCEPT ![d] = IF B = {} THEN Idle ELSE c] BY <3>1
    <3>3. \A n \in B : IsPending(n) BY DEF Due, IsPending
    <3>4. c.pc = "owner" /\ c.batch = B OBVIOUS
    <3> HIDE DEF B, c
    <3>5. disp'[d] = Idle \/ disp'[d] = c BY <1>0, <3>2
    <3>6. \A n \in Notes : Role(d, n)' = "none" \/ (Role(d, n)' = "hold" /\ n \in B)
      BY <3>4, <3>5 DEF Role, Idle, Loop
    <3> QED BY <1>0, <3>2, <3>3, <3>6
  <2>3. \A n \in Notes : Role(d, n) = "none" BY <2>1 DEF Role, Loop
  <2>4. \A n \in Notes : /\ Held(n)' \in Nat /\ Marking(n)' = Marking(n)
                         /\ IsPending(n) \/ Held(n)' = Held(n)
    BY <1>0, <2>2, <2>3, RolesMove
  <2> QED BY <1>0, <1>c, <1>m, <2>1, <2>4
\* The dispatcher that moves holds what it held or less, and sends nothing.
<1>h. ASSUME NEW d \in Dispatchers, \A e \in Dispatchers \ {d} : disp'[e] = disp[e],
             \A n \in Notes : Role(d, n)' \in { Role(d, n), "none" }
      PROVE  /\ Counted /\ \A n \in Notes : Held(n)' <= Held(n)
             /\ \A n \in Notes : Role(d, n) # "sent" \/ Role(d, n)' = Role(d, n) => Marking(n)' = Marking(n)
  <2> SUFFICES ASSUME NEW n \in Notes
               PROVE  /\ Held(n)' \in Nat /\ Marking(n)' \in Nat /\ Held(n)' <= Held(n)
                      /\ Role(d, n) # "sent" \/ Role(d, n)' = Role(d, n) => Marking(n)' = Marking(n)
    OBVIOUS
  <2>1. CASE Role(d, n)' = "none" BY <1>0, <1>h, <2>1, RolesMove
  <2>2. CASE Role(d, n)' = Role(d, n)
    <3>1. Held(n)' = Held(n) BY <1>0, <1>h, <2>2, RolesMove
    <3>2. Marking(n)' = Marking(n) BY <1>0, <1>h, <2>2, RolesMove
    <3> QED BY <1>0, <3>1, <3>2
  <2> QED BY <1>h, <2>1, <2>2
<1>8. ASSUME NEW d \in Dispatchers, NEW n \in Notes, CheckOwner(d, n) PROVE Goal
  <2>1. UNCHANGED << row, alerter, delivered, faults >> /\ disp[d].pc = "owner" /\ n \in disp[d].batch
    BY <1>8 DEF CheckOwner, sends
  <2>2. \A m \in Notes : Role(d, m) # "sent" BY <2>1 DEF Role
  <2>3. \A e \in Dispatchers \ {d} : disp'[e] = disp[e]
    <3>1. CASE NextRow(d, n) BY <2>1, <3>1, RoleNext DEF Loop
    <3>2. CASE disp' = [disp EXCEPT ![d].pc = "check", ![d].cur = {n}] BY <1>0, <3>2
    <3> QED BY <1>8, <3>1, <3>2 DEF CheckOwner
  <2>4. \A m \in Notes : Role(d, m)' \in { Role(d, m), "none" }
    <3>1. CASE NextRow(d, n) BY <2>1, <3>1, RoleNext DEF Loop
    <3>2. CASE disp' = [disp EXCEPT ![d].pc = "check", ![d].cur = {n}]
      <4>1. disp'[d].pc = "check" /\ disp'[d].cur = {n} /\ disp'[d].batch = disp[d].batch
        BY <1>0, <3>2 DEF Copy
      <4>2. \A m \in Notes : Role(d, m)' = Role(d, m) BY <2>1, <4>1 DEF Role, Loop
      <4> QED BY <4>2
    <3> QED BY <1>8, <3>1, <3>2 DEF CheckOwner
  <2>5. Counted /\ \A m \in Notes : Held(m)' <= Held(m) /\ Marking(m)' = Marking(m) BY <1>h, <2>2, <2>3, <2>4
  <2> QED BY <1>c, <1>m, <2>1, <2>5
<1>9. ASSUME NEW d \in Dispatchers, NEW n \in Notes, Check(d, n) PROVE Goal
  <2>1. UNCHANGED << row, alerter, delivered, faults >> /\ At(d, n, "check") BY <1>9 DEF Check, sends
  <2>2. PICK qc \in { "cancel", "send" } : Goto(d, qc) BY <1>9 DEF Check
  <2>3. /\ Role(d, n) = "hold" /\ Role(d, n)' \in { "hold", "none" } /\ \A m \in Notes \ {n} : Role(d, m)' = Role(d, m)
        /\ \A e \in Dispatchers \ {d} : disp'[e] = disp[e]
    BY <2>1, <2>2, RoleGoto DEF Loop, Of
  <2>4. Counted /\ \A m \in Notes : Held(m)' <= Held(m) /\ Marking(m)' = Marking(m) BY <1>h, <2>3
  <2> QED BY <1>c, <1>m, <2>1, <2>4
<1>10. ASSUME NEW d \in Dispatchers, NEW n \in Notes, CancelRow(d, n) \/ MarkSent(d, n) PROVE Goal
  <2>1. UNCHANGED << alerter, delivered, faults >> /\ NextRow(d, n) /\ (At(d, n, "cancel") \/ At(d, n, "sent"))
    BY <1>10 DEF CancelRow, MarkSent, sends
  <2>2. PICK s \in { "cancelled", "sent" }, w \in { row[n].waiting } : SetIfPending(d, n, s, w) BY <1>10 DEF CancelRow, MarkSent
  <2>3. row'[n].status # "pending" /\ row'[n].rev = row[n].rev /\ \A m \in Notes \ {n} : row'[m] = row[m]
    BY <2>2, SetRev
  <2>4. /\ Role(d, n)' = "none" /\ \A m \in Notes \ {n} : Role(d, m)' = Role(d, m)
        /\ \A e \in Dispatchers \ {d} : disp'[e] = disp[e]
    BY <2>1, RoleNext DEF At, Loop
  <2>5. /\ Counted /\ \A m \in Notes : Held(m)' <= Held(m)
        /\ \A m \in Notes \ {n} : Marking(m)' = Marking(m)
    BY <1>h, <2>4
  <2> QED BY <1>m, <1>y, <2>1, <2>3, <2>5
<1>11. ASSUME NEW d \in Dispatchers, NEW n \in Notes, Catch(d, n) PROVE Goal
  <2>1. UNCHANGED << alerter, delivered, faults >> /\ NextRow(d, n) /\ At(d, n, "catch")
    BY <1>11 DEF Catch, sends
  <2>2. PICK s \in { "failed", "pending" }, waiting \in BOOLEAN : SetIfPending(d, n, s, waiting) BY <1>11 DEF Catch
  <2>3. /\ Role(d, n)' = "none" /\ \A m \in Notes \ {n} : Role(d, m)' = Role(d, m)
        /\ \A e \in Dispatchers \ {d} : disp'[e] = disp[e]
    BY <2>1, RoleNext DEF At, Loop
  <2>4. Role(d, n) = "none" BY <2>1 DEF Role, At, Loop
  <2>5. Counted /\ \A m \in Notes : Held(m)' <= Held(m) /\ Marking(m)' = Marking(m) BY <1>h, <2>3, <2>4
  <2>6. /\ \A m \in Notes : row'[m].rev = row[m].rev
        /\ \A m \in Notes \ {n} : row'[m] = row[m]
        /\ row'[n].status # "pending" \/ row'[n].status = row[n].status
    BY <2>2, SetRev
  <2>7. CASE row'[n].status # "pending" BY <1>m, <1>y, <2>1, <2>5, <2>6, <2>7
  <2>8. CASE row'[n].status = row[n].status BY <1>c, <1>m, <2>1, <2>5, <2>6, <2>8
  <2> QED BY <2>6, <2>7, <2>8
<1>12. ASSUME NEW d \in Dispatchers, NEW n \in Notes, Send(d, n) PROVE Goal
  <2>1. UNCHANGED << row, alerter >> /\ Deliver(n) /\ At(d, n, "send") BY <1>12 DEF Send
  <2>2. delivered'[n] = delivered[n] + 1 /\ \A m \in Notes \ {n} : delivered'[m] = delivered[m]
    BY <1>0, <2>1 DEF Deliver
  <2>3. \A m \in Notes : Token(m)' = Token(m) BY <1>k, <2>1
  <2>4. \A m \in Notes \ {n} : NoMore(m) BY <1>0, <2>2, <2>3 DEF NoMore
  <2>5. Slots >= 1
    <3>1. Slots \in Nat /\ Slots # 0 BY FS_EmptySet, FS_CardinalityType, QueueAssumption DEF Slots
    <3> QED BY <3>1
  <2>6. CASE Goto(d, "sent") /\ faults' = faults
    <3>1. /\ Role(d, n) = "hold" /\ Role(d, n)' = "sent" /\ \A m \in Notes \ {n} : Role(d, m)' = Role(d, m)
          /\ \A e \in Dispatchers \ {d} : disp'[e] = disp[e]
      BY <2>1, <2>6, RoleGoto DEF Loop, Of
    <3>2. /\ Held(n)' \in Nat /\ Marking(n)' \in Nat /\ Held(n) = Held(n)' + 1 /\ Marking(n)' = Marking(n) + 1
      BY <1>0, <3>1, RolesMove
    <3>3. ASSUME NEW m \in Notes \ {n}
          PROVE  Held(m)' \in Nat /\ Marking(m)' \in Nat /\ Held(m)' = Held(m) /\ Marking(m)' = Marking(m)
      <4>1. Held(m)' \in Nat /\ Held(m)' = Held(m) BY <1>0, <3>1, RolesMove
      <4>2. Marking(m)' \in Nat /\ Marking(m)' = Marking(m) BY <1>0, <3>1, RolesMove
      <4> QED BY <4>1, <4>2
    <3>4. Sends(n) BY <1>r, <2>1, <2>2, <2>3, <2>6, <3>2 DEF Sends
    <3>5. \A m \in Notes \ {n} : Deals(m) BY <1>0, <1>c, <2>1, <2>4, <2>6, <3>3
    <3> QED BY <2>6, <3>2, <3>3, <3>4, <3>5 DEF Deals
  <2>7. CASE Goto(d, "catch") /\ Fault
    <3>1. /\ Role(d, n) = "hold" /\ Role(d, n)' = "none" /\ \A m \in Notes \ {n} : Role(d, m)' = Role(d, m)
          /\ \A e \in Dispatchers \ {d} : disp'[e] = disp[e]
      BY <2>1, <2>7, RoleGoto DEF Loop, Of
    <3>2. Counted /\ \A m \in Notes : Held(m)' <= Held(m) /\ Marking(m)' = Marking(m) BY <1>h, <3>1
    <3>3. Loses(n) BY <1>f, <1>r, <2>1, <2>2, <2>3, <2>5, <2>7, <3>2 DEF Loses
    <3>4. \A m \in Notes \ {n} : Deals(m) BY <1>e, <1>f, <2>1, <2>4, <2>7, <3>2
    <3> QED BY <1>f, <2>7, <3>2, <3>3, <3>4 DEF Deals
  <2> QED BY <1>12, <2>6, <2>7 DEF Send
<1>13. ASSUME NEW d \in Dispatchers, NEW n \in Notes, SendFails(d, n) \/ CallFails(d, n) PROVE Goal
  <2>1. UNCHANGED << row, alerter, delivered >> /\ Fault /\ Goto(d, "catch") BY <1>13 DEF SendFails, CallFails, sends
  <2>2. PICK pc \in { "check", "cancel", "send", "sent" } : At(d, n, pc) BY <1>13 DEF SendFails, CallFails
  <2>3. /\ Role(d, n)' = "none" /\ \A m \in Notes \ {n} : Role(d, m)' = Role(d, m)
        /\ \A e \in Dispatchers \ {d} : disp'[e] = disp[e]
    BY <2>1, <2>2, RoleGoto DEF Loop, Of
  <2>4. Counted /\ \A m \in Notes : Held(m)' <= Held(m) BY <1>h, <2>3
  <2> QED BY <1>e, <1>f, <1>m, <2>1, <2>4
<1>14. ASSUME NEW d \in Dispatchers, Abort(d) PROVE Goal
  <2>1. UNCHANGED << row, alerter, delivered >> /\ Fault /\ Stop(d) BY <1>14 DEF Abort, sends
  <2>2. disp'[d] = Idle /\ \A e \in Dispatchers \ {d} : disp'[e] = disp[e] BY <1>0, <2>1 DEF Stop
  <2>3. \A m \in Notes : Role(d, m)' = "none" BY <2>2 DEF Role, Idle, Loop
  <2>4. Counted /\ \A m \in Notes : Held(m)' <= Held(m) BY <1>h, <2>2, <2>3
  <2> QED BY <1>e, <1>f, <1>m, <2>1, <2>4
<1>15. ASSUME NEW n \in Alerts, Reserve(n) PROVE Goal
  <2>1. n \in Notes BY QueueAssumption
  <2>2. /\ UNCHANGED << disp, delivered, faults >> /\ row' = [row EXCEPT ![n] = Fresh(n, TRUE, FALSE)]
        /\ alerter' = [alerter EXCEPT ![n] = "send"] /\ alerter[n] = "none"
    BY <1>15 DEF Reserve, sends, ReservedOnce
  <2>3. alerter'[n] = "send" /\ \A m \in Alerts \ {n} : alerter'[m] = alerter[m] BY <2>2 DEF TypeOK
  <2>4. \A m \in Notes : Token(m)' = Token(m) BY <2>2, <2>3 DEF Token
  <2>5. \A m \in Notes : NoMore(m) BY <1>0, <2>2, <2>4 DEF NoMore
  <2> QED BY <1>s, <1>x, <2>1, <2>2, <2>5
<1>16. ASSUME NEW n \in Alerts, SendAlert(n) PROVE Goal
  <2>1. n \in Notes /\ alerter[n] = "send" /\ UNCHANGED << row, disp >> BY <1>16, QueueAssumption DEF SendAlert
  <2>2. PICK pc \in { "markSent", "markFailed" } : alerter' = [alerter EXCEPT ![n] = pc] BY <1>16 DEF SendAlert
  <2>3. alerter'[n] = pc /\ \A m \in Alerts \ {n} : alerter'[m] = alerter[m] BY <2>2 DEF TypeOK
  <2>4. Token(n) = 1 /\ Token(n)' = 0 /\ \A m \in Notes \ {n} : Token(m)' = Token(m) BY <2>1, <2>3 DEF Token
  <2>5. delivered'[n] <= delivered[n] + 1 /\ \A m \in Notes \ {n} : delivered'[m] = delivered[m]
    BY <1>0, <1>16, <2>1 DEF SendAlert, Deliver, sends
  <2>6. delivered'[n] = delivered[n] \/ delivered'[n] = delivered[n] + 1
    BY <1>0, <1>16, <2>1 DEF SendAlert, Deliver, sends
  <2>7. \A m \in Notes : NoMore(m) BY <1>0, <2>4, <2>5, <2>6 DEF NoMore
  <2>8. faults' = faults \/ Fault BY <1>16 DEF SendAlert
  <2>9. CASE faults' = faults BY <1>0, <1>c, <1>s, <2>1, <2>7, <2>9
  <2>10. CASE Fault BY <1>0, <1>e, <1>f, <1>s, <2>1, <2>7, <2>10
  <2> QED BY <2>8, <2>9, <2>10
<1>17. ASSUME NEW n \in Alerts, MarkAlert(n) \/ AbandonAlert(n) PROVE Goal
  <2>1. n \in Notes /\ UNCHANGED << disp, delivered >> BY <1>17, QueueAssumption DEF MarkAlert, AbandonAlert, sends
  <2>2. alerter'[n] = "done" /\ \A m \in Alerts \ {n} : alerter'[m] = alerter[m]
    BY <1>17 DEF MarkAlert, AbandonAlert, TypeOK
  <2>3. \A m \in Notes : Token(m)' <= Token(m)
    <3>1. Token(n)' = 0 /\ Token(n) >= 0 /\ \A m \in Notes \ {n} : Token(m)' = Token(m) BY <1>0, <2>1, <2>2 DEF Token
    <3> QED BY <1>0, <3>1
  <2>4. \A m \in Notes : NoMore(m)
    <3>1. \A m \in Notes : Token(m)' \in Nat BY DEF Token
    <3> QED BY <1>0, <2>1, <2>3, <3>1 DEF NoMore
  <2>5. CASE MarkAlert(n)
    <3>1. row'[n].status # "pending" /\ row'[n].rev = row[n].rev /\ \A m \in Notes \ {n} : row'[m] = row[m]
      BY <1>0, <2>1, <2>5 DEF MarkAlert, Entry
    <3>2. faults' = faults BY <2>5 DEF MarkAlert
    <3> QED BY <1>0, <1>s, <1>y, <2>1, <2>4, <3>1, <3>2
  <2>6. CASE AbandonAlert(n)
    <3>1. row' = row /\ Fault BY <2>6 DEF AbandonAlert
    <3> QED BY <1>0, <1>e, <1>f, <1>s, <2>1, <2>4, <3>1
  <2> QED BY <1>17, <2>5, <2>6
<1>18. ASSUME NEW n \in Notes, OptOut(n) \/ OptIn(n) PROVE Goal BY <1>5, <1>18 DEF OptOut, OptIn, sends
<1>19. ASSUME HandOver PROVE Goal BY <1>5, <1>19 DEF HandOver
<1>20. ASSUME NEW d \in Dispatchers, Step(d) PROVE Goal
  BY <1>20, <1>7, <1>8, <1>9, <1>10, <1>11, <1>12, <1>13, Zenon DEF Step
<1>21. Goal
  BY <1>1, <1>2, <1>3, <1>4, <1>6, <1>14, <1>15, <1>16, <1>17, <1>18, <1>19, <1>20, Zenon DEF Next
<1> QED BY <1>21

LEMMA DuplicatesInit == Init => DuplicatesInv
<1> SUFFICES ASSUME Init, NEW n \in Notes PROVE DuplicatesAt(n)
  BY DEF DuplicatesInv, Init
<1>1. row[n].status = "absent" /\ row[n].rev = 0 /\ faults = 0 /\ delivered[n] = 0 BY DEF Init, Zero
<1>2. Held(n) = 0
  <2>1. \A d \in Dispatchers : Role(d, n) = "none" BY DEF Init, Idle, Role, Loop
  <2>2. { d \in Dispatchers : Role(d, n) = "hold" } = {} BY <2>1
  <2> QED BY <2>2, FS_EmptySet DEF Held
<1>3. Token(n) \in Nat /\ Extra(n) \in Nat /\ Token(n) <= Extra(n) BY Counts
<1>4. Slots * Rounds(n) \in Nat BY <1>1, RolesCount, Times DEF Rounds
<1> QED BY <1>1, <1>2, <1>3, <1>4 DEF DuplicatesAt, Settled

LEMMA DuplicatesStep == TypeOK /\ ReservedOnce /\ DuplicatesInv /\ [Next]_vars => DuplicatesInv'
<1> SUFFICES ASSUME TypeOK, ReservedOnce, DuplicatesInv, [Next]_vars PROVE DuplicatesInv' OBVIOUS
<1>1. faults \in Nat /\ \A n \in Notes : DuplicatesAt(n) BY DEF DuplicatesInv
<1>2. CASE Next
  <2>1. faults' \in Nat /\ \A n \in Notes : Deals(n) /\ Held(n)' \in Nat /\ Marking(n)' \in Nat BY <1>1, <1>2, DealsNext
  <2>2. TypeOK' BY TypeStep
  <2>3. \A n \in Notes : DuplicatesAt(n)' BY <1>1, <2>1, <2>2, DealsBalance
  <2> QED BY <2>1, <2>3 DEF DuplicatesInv
<1>3. CASE UNCHANGED vars
  <2>1. UNCHANGED << row, disp, alerter, delivered, faults >> BY <1>3 DEF vars
  <2>2. \A n \in Notes : /\ Held(n)' = Held(n) /\ Marking(n)' = Marking(n) /\ Token(n)' = Token(n)
                         /\ Rounds(n)' = Rounds(n) /\ Slots' = Slots /\ Extra(n)' = Extra(n)
    BY <2>1, RolesStay DEF Token, Rounds, Slots, Extra
  <2> QED BY <1>1, <2>1, <2>2 DEF DuplicatesInv, DuplicatesAt, Pending, Settled
<1> QED BY <1>2, <1>3

LEMMA DuplicatesBound == TypeOK /\ DuplicatesInv => DuplicatesBounded
<1> SUFFICES ASSUME TypeOK, DuplicatesInv, NEW n \in Notes
             PROVE  delivered[n] <= Slots * Rounds(n) + Extra(n)
  BY DEF DuplicatesBounded, Slots, Rounds, Extra
<1>1. faults \in Nat /\ DuplicatesAt(n) BY DEF DuplicatesInv
<1>2. delivered[n] \in Nat /\ Token(n) \in Nat /\ Extra(n) \in Nat /\ Rounds(n) \in Nat BY <1>1, NumbersAre
<1>3. Slots \in Nat /\ Held(n) \in Nat /\ Marking(n) \in Nat /\ Held(n) + Marking(n) <= Slots BY RolesCount
<1>4. Slots * Rounds(n) \in Nat BY <1>2, <1>3, Times
<1> QED BY <1>1, <1>2, <1>3, <1>4 DEF DuplicatesAt, Pending, Settled

\* However many dispatchers hold copies of a row nobody claims, and whatever send or
\* update fails between them, a note goes out at most once per dispatcher for each time
\* it is scheduled and for each fault (scheduler.ts:190-330).
THEOREM DuplicatesCorrect == Spec => []DuplicatesBounded
<1> DEFINE AllLate == \A n \in Notes : LateInv(n)
<1>1. Init => ReservedOnce /\ AllLate BY LateInit
<1>2. TypeOK /\ ReservedOnce /\ AllLate /\ [Next]_vars => ReservedOnce' /\ AllLate' BY LateStep
<1>3. TypeOK /\ ReservedOnce /\ DuplicatesInv /\ [Next]_vars => DuplicatesInv' BY DuplicatesStep
<1>4. TypeOK /\ DuplicatesInv => DuplicatesBounded BY DuplicatesBound
<1> QED BY <1>1, <1>2, <1>3, <1>4, DuplicatesInit, TypeInit, TypeStep, PTL DEF Spec
=============================================================================
