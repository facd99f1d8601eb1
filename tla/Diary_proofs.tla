---------------------------- MODULE Diary_proofs ----------------------------
(***************************************************************************)
(* Proofs about Diary, for any numbers of requests, appointments, times,   *)
(* writes and faults: its type invariant, that a customer's move lands on  *)
(* a free time or on one taken since the look, that the reminders that     *)
(* wait are those of the appointment, and that none is sent again.         *)
(***************************************************************************)
EXTENDS Diary, FiniteSetTheorems, TLAPS

AtReminders == { "sync", "remind24", "remind2" }
PCs == { "idle", "move" } \cup AtReminders
Entry == [state : States, slot : Slot \cup { None }]
Row == [pc : PCs, appt : Appointment \cup { None }, slot : Slot \cup { None }, copy : Entry]

\* A request that moves or reminds has an appointment and a time to do it with.
Equipped(r) ==
  /\ At(r, "move") => req[r].appt \in Appointment /\ req[r].slot \in Slot
  /\ req[r].pc \in AtReminders => req[r].appt \in Appointment /\ req[r].copy.slot \in Slot

\* The type invariant as it is inductive.
TypeInv ==
  /\ TypeOK
  /\ \A r \in Request : Equipped(r)
  /\ \A a \in Appointment : Exists(a) => appts[a].slot \in Slot

-----------------------------------------------------------------------------
\* A request that is replaced by one of its type.
LEMMA Moves ==
  ASSUME TypeOK, NEW r \in Request, NEW q \in Row, req' = [req EXCEPT ![r] = q]
  PROVE  req' \in [Request -> Row] /\ req'[r] = q /\ \A p \in Request \ {r} : req'[p] = req[p]
BY DEF TypeOK, Row, PCs, AtReminders, Entry

LEMMA IdleIsRow == Idle \in Row
BY DEF Idle, Row, PCs, Entry, States, Absent

LEMMA StopMoves ==
  ASSUME TypeOK, NEW r \in Request, Stop(r)
  PROVE  req' \in [Request -> Row] /\ req'[r] = Idle /\ \A p \in Request \ {r} : req'[p] = req[p]
BY Moves, IdleIsRow DEF Stop

LEMMA RowsAre == TypeOK => req \in [Request -> Row] /\ \A r \in Request : req[r] \in Row
BY DEF TypeOK, Row, PCs, AtReminders, Entry

LEMMA GotoMoves ==
  ASSUME TypeOK, NEW r \in Request, NEW pc \in PCs, Goto(r, pc)
  PROVE  /\ req' \in [Request -> Row] /\ \A p \in Request \ {r} : req'[p] = req[p]
         /\ req'[r].pc = pc /\ req'[r].appt = req[r].appt /\ req'[r].slot = req[r].slot
         /\ req'[r].copy = req[r].copy
<1> DEFINE q == [req[r] EXCEPT !.pc = pc]
<1>1. req[r] \in Row BY RowsAre
<1>2. q \in Row /\ q.pc = pc /\ q.appt = req[r].appt /\ q.slot = req[r].slot /\ q.copy = req[r].copy BY <1>1 DEF Row
<1>3. req' = [req EXCEPT ![r] = q] BY DEF Goto
<1> HIDE DEF q
<1>4. req' \in [Request -> Row] /\ req'[r] = q /\ \A p \in Request \ {r} : req'[p] = req[p] BY <1>2, <1>3, Moves
<1> QED BY <1>2, <1>4

\* A write replaces one appointment and nothing of the others.
LEMMA Writes ==
  ASSUME TypeOK, NEW a \in Appointment, NEW row \in Entry, NEW by \in Request \cup { None }, Write(a, row, by)
  PROVE  /\ appts' \in [Appointment -> Entry] /\ appts'[a] = row
         /\ keeper' \in [Appointment -> Request \cup { None, "settled" }] /\ keeper'[a] = by
         /\ \A b \in Appointment \ {a} : appts'[b] = appts[b] /\ keeper'[b] = keeper[b]
         /\ touched' \in [Request -> SUBSET Appointment] /\ writes' \in 0 .. MaxWrites
         /\ \A q \in Request : At(q, "move") => touched'[q] = touched[q] \cup { a }
<1>1. appts \in [Appointment -> Entry] BY DEF TypeOK, Entry
<1>2. appts' \in [Appointment -> Entry] /\ appts'[a] = row /\ \A b \in Appointment \ {a} : appts'[b] = appts[b]
  BY <1>1 DEF Write
<1>3. /\ keeper' \in [Appointment -> Request \cup { None, "settled" }] /\ keeper'[a] = by
      /\ \A b \in Appointment \ {a} : keeper'[b] = keeper[b]
  BY DEF Write, TypeOK
<1>4. touched' \in [Request -> SUBSET Appointment] /\ \A q \in Request : At(q, "move") => touched'[q] = touched[q] \cup { a }
  BY DEF Write, TypeOK
<1>5. writes' \in 0 .. MaxWrites BY DiaryAssumption DEF Write, TypeOK
<1> QED BY <1>2, <1>3, <1>4, <1>5

\* And takes the writer to the reminders with the row.
LEMMA WritesThenSyncs ==
  ASSUME TypeOK, NEW r \in Request, NEW a \in Appointment, NEW row \in Entry, WriteThenSync(r, a, row)
  PROVE  /\ \E by \in { r, None } : Write(a, row, by) /\ (by = r => \A q \in Request : ~Syncing(q, a))
         /\ req' \in [Request -> Row] /\ \A p \in Request \ {r} : req'[p] = req[p]
         /\ req'[r].pc = "sync" /\ req'[r].appt = a /\ req'[r].copy = row
<1> DEFINE q == [Idle EXCEPT !.pc = "sync", !.appt = a, !.copy = row]
<1>1. q \in Row /\ q.pc = "sync" /\ q.appt = a /\ q.copy = row BY DEF Idle, Row, PCs, AtReminders, Entry
<1>2. req' = [req EXCEPT ![r] = q] BY DEF WriteThenSync
<1> HIDE DEF q
<1>3. req' \in [Request -> Row] /\ req'[r] = q /\ \A p \in Request \ {r} : req'[p] = req[p] BY <1>1, <1>2, Moves
<1>4. Write(a, row, IF \E p \in Request : Syncing(p, a) THEN None ELSE r) BY DEF WriteThenSync
<1>5. CASE \E p \in Request : Syncing(p, a) BY <1>1, <1>3, <1>4, <1>5, DiaryAssumption
<1>6. CASE ~ \E p \in Request : Syncing(p, a) BY <1>1, <1>3, <1>4, <1>6
<1> QED BY <1>5, <1>6

\* Every write that is followed by the reminders is such a write, by a request that
\* was not at reminders, of a row with a time.
LEMMA StaffWrites ==
  ASSUME TypeInv, NEW r \in Request, NEW a \in Appointment, NEW s \in Slot, NEW state \in States,
         Make(r, a, s) \/ Patch(r, a, s, state) \/ Rebook(r, a, s, state)
  PROVE  At(r, "idle") /\ \E row \in Entry : row.slot \in Slot /\ row.state # "none" /\ WriteThenSync(r, a, row)
<1>1. appts[a] \in Entry BY DEF TypeInv, TypeOK, Entry
<1>2. [appts[a] EXCEPT !.slot = s, !.state = state] \in Entry
      /\ [appts[a] EXCEPT !.slot = s, !.state = state].slot = s
      /\ [appts[a] EXCEPT !.slot = s, !.state = state].state = state
  BY <1>1 DEF Entry
<1>3. [state |-> "scheduled", slot |-> s] \in Entry BY DEF Entry, States
<1>4. CASE Make(r, a, s) BY <1>3, <1>4 DEF Make
<1>5. CASE Patch(r, a, s, state) BY <1>2, <1>5 DEF Patch
<1>6. CASE Rebook(r, a, s, state) BY <1>2, <1>6 DEF Rebook
<1> QED BY <1>4, <1>5, <1>6

LEMMA MoveWrites ==
  ASSUME TypeInv, NEW r \in Request, Move(r)
  PROVE  /\ At(r, "move") /\ req[r].appt \in Appointment
         /\ \E row \in Entry : row.slot \in Slot /\ row.state # "none" /\ WriteThenSync(r, req[r].appt, row)
<1> DEFINE a == req[r].appt
           row == [appts[a] EXCEPT !.slot = req[r].slot, !.state = "scheduled"]
<1>1. At(r, "move") /\ a \in Appointment /\ req[r].slot \in Slot BY DEF Move, TypeInv, Equipped
<1>2. appts[a] \in Entry BY <1>1 DEF TypeInv, TypeOK, Entry
<1>3. row \in Entry /\ row.slot = req[r].slot /\ row.state = "scheduled" BY <1>1, <1>2 DEF Entry, States
<1>4. WriteThenSync(r, a, row) BY DEF Move
<1> QED BY <1>1, <1>3, <1>4

\* The writes that leave the reminders alone.
LEMMA UnattendedWrites ==
  ASSUME TypeInv, NEW a \in Appointment, SelfCancel(a) \/ Release(a) \/ \E s \in Slot : Hold(a, s)
  PROVE  Unattended /\ \E row \in Entry : row.slot \in Slot /\ Write(a, row, None)
<1>1. appts[a] \in Entry /\ (Exists(a) => appts[a].slot \in Slot) BY DEF TypeInv, TypeOK, Entry
<1>2. [appts[a] EXCEPT !.state = "cancelled"] \in Entry
      /\ [appts[a] EXCEPT !.state = "cancelled"].slot = appts[a].slot
  BY <1>1 DEF Entry, States
<1>3. \A s \in Slot : [state |-> "scheduled", slot |-> s] \in Entry BY DEF Entry, States
<1>4. CASE SelfCancel(a) BY <1>1, <1>2, <1>4 DEF SelfCancel
<1>5. CASE Release(a) BY <1>1, <1>2, <1>5 DEF Release
<1>6. CASE \E s \in Slot : Hold(a, s) BY <1>3, <1>6 DEF Hold
<1> QED BY <1>4, <1>5, <1>6

-----------------------------------------------------------------------------
\* Tables, clocks and requests keep their types: one step for each kind of action.
LEMMA TypeStep == TypeInv /\ [Next]_vars => TypeInv'
<1> SUFFICES ASSUME TypeInv, [Next]_vars PROVE TypeInv' OBVIOUS
<1>0. TypeOK /\ \A r \in Request : Equipped(r) BY DEF TypeInv
<1>a. ASSUME NEW r \in Request, \A p \in Request \ {r} : req'[p] = req[p], Equipped(r)'
      PROVE  \A p \in Request : Equipped(p)'
  BY <1>0, <1>a DEF Equipped, At
<1>b. ASSUME req' \in [Request -> Row]
      PROVE  req' \in [Request -> [pc : { "idle", "move", "sync", "remind24", "remind2" },
                         appt : Appointment \cup { None }, slot : Slot \cup { None },
                         copy : [state : States, slot : Slot \cup { None }]]]
  BY <1>b DEF Row, PCs, AtReminders, Entry
<1>c. ASSUME NEW r \in Request, NEW a \in Appointment, NEW row \in Entry, row.slot \in Slot, WriteThenSync(r, a, row)
      PROVE  TypeInv'
  <2>1. PICK by \in { r, None } : Write(a, row, by) BY <1>0, <1>c, WritesThenSyncs
  <2>2. /\ req' \in [Request -> Row] /\ \A p \in Request \ {r} : req'[p] = req[p]
        /\ req'[r].pc = "sync" /\ req'[r].appt = a /\ req'[r].copy = row
    BY <1>0, <1>c, WritesThenSyncs
  <2>3. Equipped(r)' BY <1>c, <2>2 DEF Equipped, At
  <2>4. /\ appts' \in [Appointment -> Entry] /\ appts'[a] = row
        /\ keeper' \in [Appointment -> Request \cup { None, "settled" }]
        /\ \A b \in Appointment \ {a} : appts'[b] = appts[b]
        /\ touched' \in [Request -> SUBSET Appointment] /\ writes' \in 0 .. MaxWrites
    BY <1>0, <2>1, Writes
  <2>5. \A b \in Appointment : Exists(b)' => appts'[b].slot \in Slot BY <1>c, <2>4 DEF TypeInv, Exists
  <2>6. TypeOK' BY <1>0, <1>b, <1>c, <2>2, <2>4 DEF WriteThenSync, clock, sending, TypeOK, Entry
  <2> QED BY <1>a, <2>2, <2>3, <2>5, <2>6 DEF TypeInv
<1>d. ASSUME NEW a \in Appointment, NEW row \in Entry, row.slot \in Slot, Write(a, row, None), Unattended
      PROVE  TypeInv'
  <2>1. /\ appts' \in [Appointment -> Entry] /\ appts'[a] = row
        /\ keeper' \in [Appointment -> Request \cup { None, "settled" }]
        /\ \A b \in Appointment \ {a} : appts'[b] = appts[b]
        /\ touched' \in [Request -> SUBSET Appointment] /\ writes' \in 0 .. MaxWrites
    BY <1>0, <1>d, Writes
  <2>2. \A b \in Appointment : Exists(b)' => appts'[b].slot \in Slot BY <1>d, <2>1 DEF TypeInv, Exists
  <2>3. TypeOK' BY <1>0, <1>d, <2>1 DEF Unattended, clock, sending, TypeOK, Entry
  <2>4. \A r \in Request : Equipped(r)' BY <1>0, <1>d DEF Unattended, Equipped, At
  <2> QED BY <2>2, <2>3, <2>4 DEF TypeInv
<1>e. ASSUME appts' = appts PROVE \A a \in Appointment : Exists(a)' => appts'[a].slot \in Slot
  BY <1>e DEF TypeInv, Exists
<1>1. ASSUME NEW r \in Request, Staff(r) PROVE TypeInv'
  <2>1. PICK a \in Appointment, row \in Entry : row.slot \in Slot /\ WriteThenSync(r, a, row)
    <3>1. PICK a \in Appointment, s \in Slot : Make(r, a, s) \/ \E state \in States : Patch(r, a, s, state) \/ Rebook(r, a, s, state)
      BY <1>1 DEF Staff
    <3>2. PICK state \in States : Make(r, a, s) \/ Patch(r, a, s, state) \/ Rebook(r, a, s, state)
      BY <3>1 DEF States
    <3> QED BY <3>2, StaffWrites
  <2> QED BY <1>c, <2>1
<1>2. ASSUME NEW r \in Request, Move(r) PROVE TypeInv' BY <1>2, <1>c, MoveWrites
<1>3. ASSUME NEW a \in Appointment, SelfCancel(a) \/ Release(a) \/ \E s \in Slot : Hold(a, s) PROVE TypeInv'
  BY <1>3, <1>d, UnattendedWrites
<1>4. ASSUME NEW r \in Request, NEW a \in Appointment, NEW s \in Slot, LookForConflict(r, a, s) PROVE TypeInv'
  <2> DEFINE q == [Idle EXCEPT !.pc = "move", !.appt = a, !.slot = s]
  <2>1. q \in Row /\ q.pc = "move" /\ q.appt = a /\ q.slot = s
    BY DEF Idle, Row, PCs, AtReminders, Entry, Absent, States
  <2>2. req' = [req EXCEPT ![r] = q] BY <1>4 DEF LookForConflict
  <2> HIDE DEF q
  <2>3. req' \in [Request -> Row] /\ req'[r] = q /\ \A p \in Request \ {r} : req'[p] = req[p]
    BY <1>0, <2>1, <2>2, Moves
  <2>4. Equipped(r)' BY <2>1, <2>3 DEF Equipped, At, AtReminders
  <2>5. TypeOK' BY <1>0, <1>4, <1>b, <2>3 DEF LookForConflict, TypeOK, clock, sending, counters
  <2>6. appts' = appts BY <1>4 DEF LookForConflict
  <2> QED BY <1>a, <1>e, <2>3, <2>4, <2>5, <2>6 DEF TypeInv
<1>f. ASSUME NEW r \in Request, NEW a \in Appointment, keeper' = [keeper EXCEPT ![a] = IF @ = r THEN "settled" ELSE @]
      PROVE  keeper' \in [Appointment -> Request \cup { None, "settled" }]
  BY <1>0, <1>f DEF TypeOK
<1>5. ASSUME NEW r \in Request, Sync(r) PROVE TypeInv'
  <2>1. req[r].appt \in Appointment /\ req[r].copy.slot \in Slot BY <1>0, <1>5 DEF Equipped, Sync, At, AtReminders
  <2>2. pending' \subseteq Appointment \X Kinds \X Slot BY <1>0, <1>5 DEF Sync, CancelWaiting, TypeOK
  <2>3. CASE (Goto(r, "remind24") \/ Goto(r, "remind2")) /\ UNCHANGED keeper
    <3>1. /\ req' \in [Request -> Row] /\ \A p \in Request \ {r} : req'[p] = req[p]
          /\ req'[r].pc \in { "remind24", "remind2" } /\ req'[r].appt = req[r].appt /\ req'[r].copy = req[r].copy
      BY <1>0, <2>3, GotoMoves DEF PCs, AtReminders
    <3>2. Equipped(r)' BY <2>1, <3>1 DEF Equipped, At
    <3>3. TypeOK' BY <1>0, <1>5, <1>b, <2>2, <2>3, <3>1 DEF Sync, TypeOK, clock, sending, counters
    <3> QED BY <1>5, <1>a, <1>e, <3>1, <3>2, <3>3 DEF TypeInv, Sync
  <2>4. CASE Settle(r)
    <3>1. req' \in [Request -> Row] /\ req'[r] = Idle /\ \A p \in Request \ {r} : req'[p] = req[p]
      BY <1>0, <2>4, StopMoves DEF Settle
    <3>2. Equipped(r)' BY <3>1 DEF Equipped, At, Idle, AtReminders
    <3>3. keeper' \in [Appointment -> Request \cup { None, "settled" }] BY <1>f, <2>1, <2>4 DEF Settle
    <3>4. TypeOK' BY <1>0, <1>5, <1>b, <2>2, <3>1, <3>3 DEF Sync, TypeOK, clock, sending, counters
    <3> QED BY <1>5, <1>a, <1>e, <3>1, <3>2, <3>4 DEF TypeInv, Sync
  <2> QED BY <1>5, <2>3, <2>4 DEF Sync
<1>6. ASSUME NEW r \in Request, Remind24(r) PROVE TypeInv'
  <2>1. req[r].appt \in Appointment /\ req[r].copy.slot \in Slot
    BY <1>0, <1>6 DEF Equipped, Remind24, At, AtReminders
  <2>2. pending' \subseteq Appointment \X Kinds \X Slot
    BY <1>0, <1>6, <2>1 DEF Remind24, WriteReminder, Reminder, Kinds, TypeOK
  <2>3. /\ req' \in [Request -> Row] /\ \A p \in Request \ {r} : req'[p] = req[p]
        /\ req'[r].pc = "remind2" /\ req'[r].appt = req[r].appt /\ req'[r].copy = req[r].copy
    BY <1>0, <1>6, GotoMoves DEF Remind24, PCs, AtReminders
  <2>4. Equipped(r)' BY <2>1, <2>3 DEF Equipped, At
  <2>5. TypeOK' BY <1>0, <1>6, <1>b, <2>2, <2>3 DEF Remind24, WriteReminder, TypeOK, clock, sending, counters
  <2> QED BY <1>6, <1>a, <1>e, <2>3, <2>4, <2>5 DEF TypeInv, Remind24, WriteReminder
<1>7. ASSUME NEW r \in Request, Remind2(r) PROVE TypeInv'
  <2>1. req[r].appt \in Appointment /\ req[r].copy.slot \in Slot
    BY <1>0, <1>7 DEF Equipped, Remind2, At, AtReminders
  <2>2. pending' \subseteq Appointment \X Kinds \X Slot
    BY <1>0, <1>7, <2>1 DEF Remind2, WriteReminder, Reminder, Kinds, TypeOK
  <2>3. req' \in [Request -> Row] /\ req'[r] = Idle /\ \A p \in Request \ {r} : req'[p] = req[p]
    BY <1>0, <1>7, StopMoves DEF Remind2, Settle
  <2>4. Equipped(r)' BY <2>3 DEF Equipped, At, Idle, AtReminders
  <2>5. keeper' \in [Appointment -> Request \cup { None, "settled" }] BY <1>7, <1>f, <2>1 DEF Remind2, Settle
  <2>6. TypeOK' BY <1>0, <1>7, <1>b, <2>2, <2>3, <2>5 DEF Remind2, WriteReminder, TypeOK, clock, sending, counters
  <2> QED BY <1>7, <1>a, <1>e, <2>3, <2>4, <2>6 DEF TypeInv, Remind2, WriteReminder
<1>8. ASSUME NEW k \in pending, Dispatch(k) PROVE TypeInv'
  <2>1. TypeOK' BY <1>0, <1>8 DEF Dispatch, TypeOK, clock, counters
  <2> QED BY <1>0, <1>8, <1>e, <2>1 DEF Dispatch, TypeInv, Equipped, At
<1>9. ASSUME NEW s \in Slot, Advance(s) PROVE TypeInv'
  <2>1. distance' \in [Slot -> { "days", "hours", "imminent" }] BY <1>0, <1>9 DEF Advance, TypeOK
  <2>2. straddles' \in Nat
    <3>1. straddles' = straddles + Cardinality(Straddled(s)) BY <1>9 DEF Advance
    <3>2. Straddled(s) \subseteq Request BY DEF Straddled
    <3>3. Cardinality(Straddled(s)) \in Nat BY <3>2, DiaryAssumption, FS_Subset, FS_CardinalityType
    <3> QED BY <1>0, <3>1, <3>3 DEF TypeOK
  <2>3. TypeOK' BY <1>0, <1>9, <2>1, <2>2 DEF Advance, TypeOK, sending, counters
  <2> QED BY <1>0, <1>9, <1>e, <2>3 DEF Advance, TypeInv, Equipped, At
<1>10. ASSUME NEW r \in Request, Die(r) PROVE TypeInv'
  <2>1. req' \in [Request -> Row] /\ req'[r] = Idle /\ \A p \in Request \ {r} : req'[p] = req[p]
    BY <1>0, <1>10, StopMoves DEF Die
  <2>2. Equipped(r)' BY <2>1 DEF Equipped, At, Idle, AtReminders
  <2>3. keeper' \in [Appointment -> Request \cup { None, "settled" }] BY <1>0, <1>10 DEF Die, TypeOK
  <2>4. faults' \in 0 .. MaxFaults BY <1>0, <1>10, DiaryAssumption DEF Die, TypeOK
  <2>5. TypeOK' BY <1>0, <1>10, <1>b, <2>1, <2>3, <2>4 DEF Die, TypeOK, clock, sending
  <2> QED BY <1>10, <1>a, <1>e, <2>1, <2>2, <2>5 DEF TypeInv, Die
<1>11. CASE UNCHANGED vars
  <2>1. TypeOK' BY <1>0, <1>11 DEF vars, TypeOK
  <2> QED BY <1>0, <1>11, <1>e, <2>1 DEF vars, TypeInv, Equipped, At
<1>12. CASE Next
  <2>1. ASSUME NEW r \in Request, Self(r) \/ Staff(r) \/ Reminders(r) \/ Die(r) PROVE TypeInv'
    BY <2>1, <1>1, <1>2, <1>4, <1>5, <1>6, <1>7, <1>10, Zenon DEF Self, Reminders
  <2>2. CASE Calendar
    <3>1. PICK a \in Platform : Release(a) \/ \E s \in Slot : Hold(a, s) BY <2>2 DEF Calendar
    <3>2. a \in Appointment BY DEF Appointment
    <3> QED BY <1>3, <3>1, <3>2
  <2> QED BY <1>12, <1>3, <1>8, <1>9, <2>1, <2>2 DEF Next
<1> QED BY <1>11, <1>12

LEMMA TypeInit == Init => TypeInv
<1> SUFFICES ASSUME Init PROVE TypeInv OBVIOUS
<1>1. req \in [Request -> Row]
  <2>1. Idle \in Row BY IdleIsRow
  <2>2. req = [r \in Request |-> Idle] BY DEF Init
  <2> QED BY <2>1, <2>2
<1>2. appts \in [Appointment -> Entry] BY DEF Init, Entry, Absent, States
<1>3. distance \in [Slot -> { "days", "hours", "imminent" }] BY DEF Init
<1>4. keeper \in [Appointment -> Request \cup { None, "settled" }] BY DEF Init
<1>5. touched \in [Request -> SUBSET Appointment] BY DEF Init
<1>6. repeats \in Nat /\ straddles \in Nat /\ writes \in 0 .. MaxWrites /\ faults \in 0 .. MaxFaults
  BY DiaryAssumption DEF Init
<1>7. pending \subseteq Appointment \X Kinds \X Slot /\ told \subseteq Appointment \X Kinds \X Slot BY DEF Init
<1>8. TypeOK BY <1>1, <1>2, <1>3, <1>4, <1>5, <1>6, <1>7 DEF TypeOK, Row, PCs, AtReminders, Entry
<1>9. \A r \in Request : Equipped(r) BY DEF Init, Idle, Equipped, At, AtReminders
<1>10. \A a \in Appointment : ~Exists(a) BY DEF Init, Absent, Exists
<1> QED BY <1>8, <1>9, <1>10 DEF TypeInv

\* Appointments, clocks, reminders, requests and counters keep their types, for any
\* numbers of them (appointment and public-booking routes, appointment-reminders.ts).
THEOREM TypeCorrect == Spec => []TypeOK
<1>1. TypeInv => TypeOK BY DEF TypeInv
<1> QED BY <1>1, TypeInit, TypeStep, PTL DEF Spec

-----------------------------------------------------------------------------
\* A move that is on its way found the time free of all that was not written since.
Clear(r) == At(r, "move") =>
  \A b \in Appointment \ { req[r].appt } :
    appts[b].state \notin { "none", "cancelled" } /\ appts[b].slot = req[r].slot => b \in touched[r]

\* A write is among what the moves on their way know of.
LEMMA ClearWrite ==
  ASSUME TypeOK, NEW a \in Appointment, NEW row \in Entry, NEW by \in Request \cup { None }, Write(a, row, by),
         NEW q \in Request, Clear(q), req'[q] = req[q] \/ ~At(q, "move")'
  PROVE  Clear(q)'
<1> SUFFICES ASSUME At(q, "move")', req'[q] = req[q],
                    NEW b \in Appointment \ { req[q].appt },
                    appts'[b].state \notin { "none", "cancelled" }, appts'[b].slot = req[q].slot
             PROVE  b \in touched'[q]
  BY DEF Clear
<1>1. At(q, "move") BY DEF At
<1>2. touched'[q] = touched[q] \cup { a } /\ \A c \in Appointment \ {a} : appts'[c] = appts[c] BY <1>1, Writes
<1>3. CASE b = a BY <1>2, <1>3
<1>4. CASE b # a BY <1>1, <1>2, <1>4 DEF Clear
<1> QED BY <1>3, <1>4

\* Nor do the steps that write nothing.
LEMMA ClearKept ==
  ASSUME NEW q \in Request, Clear(q), req'[q] = req[q] \/ ~At(q, "move")', appts' = appts, touched' = touched
  PROVE  Clear(q)'
BY DEF Clear, At

LEMMA ClearStep == TypeInv /\ (\A r \in Request : Clear(r)) /\ [Next]_vars => (\A r \in Request : Clear(r))'
<1> SUFFICES ASSUME TypeInv, \A r \in Request : Clear(r), [Next]_vars, NEW q \in Request PROVE Clear(q)'
  OBVIOUS
<1>0. TypeOK BY DEF TypeInv
<1>a. ASSUME NEW r \in Request, NEW a \in Appointment, NEW row \in Entry, WriteThenSync(r, a, row) PROVE Clear(q)'
  <2>1. PICK by \in { r, None } : Write(a, row, by) BY <1>0, <1>a, WritesThenSyncs
  <2>2. req'[q] = req[q] \/ ~At(q, "move")' BY <1>0, <1>a, WritesThenSyncs DEF At
  <2> QED BY <1>0, <2>1, <2>2, ClearWrite
<1>1. ASSUME NEW r \in Request, Staff(r) PROVE Clear(q)'
  <2>1. PICK a \in Appointment, s \in Slot : Make(r, a, s) \/ \E state \in States : Patch(r, a, s, state) \/ Rebook(r, a, s, state)
    BY <1>1 DEF Staff
  <2>2. PICK state \in States : Make(r, a, s) \/ Patch(r, a, s, state) \/ Rebook(r, a, s, state)
    BY <2>1 DEF States
  <2> QED BY <1>a, <2>2, StaffWrites
<1>2. ASSUME NEW r \in Request, Move(r) PROVE Clear(q)' BY <1>2, <1>a, MoveWrites
<1>3. ASSUME NEW a \in Appointment, SelfCancel(a) \/ Release(a) \/ \E s \in Slot : Hold(a, s) PROVE Clear(q)'
  <2>1. Unattended /\ \E row \in Entry : Write(a, row, None) BY <1>3, UnattendedWrites
  <2>2. req' = req BY <2>1 DEF Unattended
  <2> QED BY <1>0, <2>1, <2>2, ClearWrite
<1>4. ASSUME NEW r \in Request, NEW a \in Appointment, NEW s \in Slot, LookForConflict(r, a, s) PROVE Clear(q)'
  <2> DEFINE m == [Idle EXCEPT !.pc = "move", !.appt = a, !.slot = s]
  <2>1. m \in Row /\ m.pc = "move" /\ m.appt = a /\ m.slot = s
    BY DEF Idle, Row, PCs, AtReminders, Entry, Absent, States
  <2>2. req' = [req EXCEPT ![r] = m] BY <1>4 DEF LookForConflict
  <2> HIDE DEF m
  <2>3. req'[r] = m /\ \A p \in Request \ {r} : req'[p] = req[p] BY <1>0, <2>1, <2>2, Moves
  <2>4. appts' = appts /\ ~Taken(a, s) BY <1>4 DEF LookForConflict
  <2>5. CASE q = r BY <2>1, <2>3, <2>4, <2>5 DEF Clear, Taken
  <2>6. CASE q # r
    <3>1. touched'[q] = touched[q] BY <1>0, <1>4, <2>6 DEF LookForConflict, TypeOK
    <3> QED BY <2>3, <2>4, <2>6, <3>1 DEF Clear, At
  <2> QED BY <2>5, <2>6
<1>5. ASSUME NEW r \in Request, Reminders(r) PROVE Clear(q)'
  <2>1. req'[q] = req[q] \/ ~At(q, "move")'
    <3>1. CASE Stop(r) BY <1>0, <3>1, StopMoves DEF At, Idle
    <3>2. CASE Goto(r, "remind24") \/ Goto(r, "remind2") BY <1>0, <3>2, GotoMoves DEF At, PCs, AtReminders
    <3> QED BY <1>5, <3>1, <3>2 DEF Reminders, Sync, Remind24, Remind2, Settle
  <2>2. appts' = appts /\ touched' = touched BY <1>5 DEF Reminders, Sync, Remind24, Remind2, WriteReminder
  <2> QED BY <2>1, <2>2, ClearKept
<1>6. ASSUME NEW r \in Request, Die(r) PROVE Clear(q)'
  <2>1. req'[q] = req[q] \/ ~At(q, "move")' BY <1>0, <1>6, StopMoves DEF Die, At, Idle
  <2> QED BY <1>6, <2>1, ClearKept DEF Die
<1>7. CASE (\E s \in Slot : Advance(s)) \/ (\E k \in pending : Dispatch(k))
  BY <1>7, ClearKept DEF Advance, Dispatch
<1>8. CASE UNCHANGED vars BY <1>8, ClearKept DEF vars
<1>9. CASE Next
  <2>1. ASSUME NEW r \in Request, Self(r) \/ Staff(r) \/ Reminders(r) \/ Die(r) PROVE Clear(q)'
    BY <2>1, <1>1, <1>2, <1>4, <1>5, <1>6, Zenon DEF Self
  <2>2. CASE Calendar
    <3>1. PICK a \in Platform : Release(a) \/ \E s \in Slot : Hold(a, s) BY <2>2 DEF Calendar
    <3>2. a \in Appointment BY DEF Appointment
    <3> QED BY <1>3, <3>1, <3>2
  <2> QED BY <1>9, <1>3, <1>7, <2>1, <2>2 DEF Next
<1> QED BY <1>8, <1>9

\* A customer's move lands on another appointment's time only if that appointment
\* was written between the look for conflicts and the update, whoever else is at the
\* diary (self-service-booking.ts:90-113).
THEOREM LandsCorrect == Spec => LandsFree
<1> DEFINE AllClear == \A r \in Request : Clear(r)
<1>1. Init => AllClear BY DEF Init, Idle, Clear, At
<1>2. TypeInv /\ AllClear /\ [Next]_vars => AllClear' BY ClearStep
<1>3. AllClear =>
        [\A r \in Request : At(r, "move") /\ req'[r].pc = "sync"
           => \A b \in Appointment \ { req[r].appt } :
                appts[b].state \notin { "none", "cancelled" } /\ appts[b].slot = req[r].slot => b \in touched[r]]_vars
  BY DEF Clear
<1> QED BY <1>1, <1>2, <1>3, TypeInit, TypeStep, PTL DEF Spec, LandsFree

-----------------------------------------------------------------------------
\* The reminders of an appointment, by the row that waits.
Waits(a, kind, s) == Reminder(a, kind, s) \in pending
Calm(a) == appts[a].state = "scheduled" /\ a \in Reachable

\* RemindersMatch for one appointment.
Match(a) ==
  /\ \A kind \in Kinds, s \in Slot : Waits(a, kind, s) => Calm(a) /\ s = appts[a].slot
  /\ Calm(a) => \A kind \in Kinds : ~Due(kind, appts[a].slot) => Waits(a, kind, appts[a].slot)

\* The last writer is alone at the reminders, with the row as it is, and has written
\* those before the one it is at.
Keeping(r, a) ==
  /\ Syncing(r, a) /\ req[r].copy = appts[a]
  /\ \A q \in Request \ {r} : ~Syncing(q, a)
  /\ At(r, "remind24") => Calm(a) /\ \A kind \in Kinds, s \in Slot : ~Waits(a, kind, s)
  /\ At(r, "remind2") =>
       /\ Calm(a) /\ \A kind \in Kinds, s \in Slot : Waits(a, kind, s) => s = appts[a].slot
       /\ ~Due("24h", appts[a].slot) => Waits(a, "24h", appts[a].slot)

Kept(a) ==
  /\ \A r \in Request : keeper[a] = r => Keeping(r, a)
  /\ keeper[a] = "settled" => Match(a) /\ \A q \in Request : ~Syncing(q, a)

\* Rows of two appointments are two.
LEMMA OwnRows ==
  ASSUME NEW a \in Appointment, NEW kind, NEW s, NEW b, NEW k2, NEW s2
  PROVE  /\ Reminder(a, kind, s) = Reminder(b, k2, s2) => a = b /\ kind = k2 /\ s = s2
         /\ kind \in Kinds /\ s \in Slot => (Reminder(a, kind, s) \in Of(b) <=> a = b)
BY DEF Reminder, Of

\* An appointment whose row, reminders, writers and clock stand still stays as it is.
LEMMA KeptStill ==
  ASSUME NEW a \in Appointment, Kept(a), keeper'[a] = keeper[a], appts'[a] = appts[a], distance' = distance,
         \A kind \in Kinds, s \in Slot : Waits(a, kind, s)' <=> Waits(a, kind, s),
         Calm(a) => appts[a].slot \in Slot,
         \A q \in Request : Syncing(q, a) \/ Syncing(q, a)' => req'[q] = req[q]
  PROVE  Kept(a)'
<1>1. \A q \in Request : Syncing(q, a)' <=> Syncing(q, a) BY DEF Syncing
<1>2. Calm(a)' <=> Calm(a) BY DEF Calm
<1>3. \A kind, s : Due(kind, s)' <=> Due(kind, s) BY DEF Due
<1>4. ASSUME NEW r \in Request, keeper'[a] = r PROVE Keeping(r, a)'
  <2>1. Keeping(r, a) BY <1>4 DEF Kept
  <2>2. req'[r] = req[r] BY <2>1 DEF Keeping
  <2> QED BY <1>1, <1>2, <1>3, <2>1, <2>2 DEF Keeping, At, Kinds
<1>5. ASSUME keeper'[a] = "settled" PROVE Match(a)' /\ \A q \in Request : ~Syncing(q, a)'
  <2>1. Match(a) /\ \A q \in Request : ~Syncing(q, a) BY <1>5 DEF Kept
  <2> QED BY <1>1, <1>2, <1>3, <2>1 DEF Match
<1> QED BY <1>4, <1>5 DEF Kept

\* A new word on an appointment, with its writer at the beginning of the reminders.
LEMMA KeptWriteSync ==
  ASSUME TypeInv, \A a \in Appointment : Kept(a), NEW r \in Request, ~(req[r].pc \in AtReminders),
         NEW a \in Appointment, NEW row \in Entry, WriteThenSync(r, a, row), NEW b \in Appointment
  PROVE  Kept(b)'
<1>0. TypeOK BY DEF TypeInv
<1>1. PICK by \in { r, None } : Write(a, row, by) /\ (by = r => \A q \in Request : ~Syncing(q, a))
  BY <1>0, WritesThenSyncs
<1>2. /\ \A p \in Request \ {r} : req'[p] = req[p]
      /\ req'[r].pc = "sync" /\ req'[r].appt = a /\ req'[r].copy = row
  BY <1>0, WritesThenSyncs
<1>3. /\ appts'[a] = row /\ keeper'[a] = by
      /\ \A c \in Appointment \ {a} : appts'[c] = appts[c] /\ keeper'[c] = keeper[c]
  BY <1>0, <1>1, Writes
<1>4. distance' = distance /\ pending' = pending BY DEF WriteThenSync, clock
<1>5. CASE b = a
  <2>1. by # "settled" BY DiaryAssumption
  <2>2. ASSUME NEW p \in Request, by = p PROVE Keeping(p, a)'
    <3>1. p = r BY <2>2, DiaryAssumption
    <3>2. \A q \in Request : ~Syncing(q, a) BY <1>1, <2>2, <3>1
    <3>3. \A q \in Request \ {r} : ~Syncing(q, a)' BY <1>2, <3>2 DEF Syncing
    <3> QED BY <1>2, <1>3, <3>1, <3>3 DEF Keeping, Syncing, At
  <2> QED BY <1>3, <1>5, <2>1, <2>2 DEF Kept
<1>6. CASE b # a
  <2>1. ~Syncing(r, b) /\ ~Syncing(r, b)' BY <1>2, <1>6 DEF Syncing, AtReminders
  <2>2. Calm(b) => appts[b].slot \in Slot BY DEF TypeInv, Calm, Exists
  <2>3. \A kind \in Kinds, s \in Slot : Waits(b, kind, s)' <=> Waits(b, kind, s) BY <1>4 DEF Waits
  <2>4. \A q \in Request : Syncing(q, b) \/ Syncing(q, b)' => req'[q] = req[q] BY <1>2, <2>1
  <2>5. keeper'[b] = keeper[b] /\ appts'[b] = appts[b] BY <1>3, <1>6
  <2> QED BY <1>4, <2>2, <2>3, <2>4, <2>5, KeptStill
<1> QED BY <1>5, <1>6

\* The request sees to the reminders of its appointment only.
LEMMA KeptElsewhere ==
  ASSUME TypeInv, NEW r \in Request, Syncing(r, req[r].appt), NEW b \in Appointment \ { req[r].appt }, Kept(b),
         keeper'[b] = keeper[b], appts' = appts, distance' = distance,
         \A p \in Request \ {r} : req'[p] = req[p], ~Syncing(r, b)',
         \A kind \in Kinds, s \in Slot : Waits(b, kind, s)' <=> Waits(b, kind, s)
  PROVE  Kept(b)'
<1>1. ~Syncing(r, b) BY DEF Syncing
<1>2. Calm(b) => appts[b].slot \in Slot BY DEF TypeInv, Calm, Exists
<1>3. \A q \in Request : Syncing(q, b) \/ Syncing(q, b)' => req'[q] = req[q] BY <1>1
<1> QED BY <1>2, <1>3, KeptStill

LEMMA KeptSync ==
  ASSUME TypeInv, \A a \in Appointment : Kept(a), NEW r \in Request, Sync(r), NEW b \in Appointment
  PROVE  Kept(b)'
<1>9. TypeOK /\ req[r].appt \in Appointment /\ req[r].copy.slot \in Slot
  BY DEF TypeInv, Equipped, Sync, At, AtReminders
<1>10. PICK a \in Appointment, s \in Slot : a = req[r].appt /\ s = req[r].copy.slot BY <1>9
<1>0. TypeOK /\ a = req[r].appt /\ s = req[r].copy.slot BY <1>9, <1>10
<1>1. Syncing(r, a) /\ At(r, "sync") BY <1>0 DEF Syncing, Sync, At
<1>2. appts' = appts /\ distance' = distance BY DEF Sync, clock
<1>3. pending' = pending \ Of(a) BY <1>0 DEF Sync, CancelWaiting
<1>4. \A kind \in Kinds, t \in Slot : ~Waits(a, kind, t)' BY <1>3, OwnRows DEF Waits
<1>6. CASE b # a
  <2>1. \A kind \in Kinds, t \in Slot : Waits(b, kind, t)' <=> Waits(b, kind, t)
    BY <1>0, <1>3, <1>6, OwnRows DEF Waits
  <2>2. keeper'[b] = keeper[b] BY <1>0, <1>6 DEF Sync, Settle, TypeOK
  <2>3. (\A p \in Request \ {r} : req'[p] = req[p]) /\ ~Syncing(r, b)'
    <3>1. CASE Goto(r, "remind24") \/ Goto(r, "remind2")
      BY <1>0, <1>6, <3>1, GotoMoves DEF PCs, AtReminders, Syncing
    <3>2. CASE Stop(r) BY <1>0, <3>2, StopMoves DEF Syncing, Idle
    <3> QED BY <3>1, <3>2 DEF Sync, Settle
  <2> QED BY <1>0, <1>1, <1>2, <1>6, <2>1, <2>2, <2>3, KeptElsewhere
<1>7. ASSUME keeper[a] = r, b = a PROVE Kept(b)'
  <2>1. req[r].copy = appts[a] /\ \A q \in Request \ {r} : ~Syncing(q, a) BY <1>0, <1>7 DEF Kept, Keeping
  <2>2. r # "settled" BY DiaryAssumption
  <2>3. CASE Schedulable(req[r].copy, a)
    <3>0. PICK pc : pc = (IF distance[s] = "days" THEN "remind24" ELSE "remind2") OBVIOUS
    <3>1. Goto(r, pc) /\ keeper' = keeper BY <1>0, <2>3, <3>0 DEF Sync
    <3>2. pc \in PCs BY <3>0 DEF PCs, AtReminders
    <3>3. /\ \A p \in Request \ {r} : req'[p] = req[p]
          /\ req'[r].pc = pc /\ req'[r].appt = a /\ req'[r].copy = appts[a]
      BY <1>0, <2>1, <3>1, <3>2, GotoMoves
    <3>4. Calm(a)' BY <1>2, <2>1, <2>3 DEF Schedulable, Calm
    <3>5. pc = "remind2" => Due("24h", s)
      BY <1>0, <2>3, <3>0 DEF Schedulable, Due, TypeOK
    <3>6. \A q \in Request \ {r} : ~Syncing(q, a)' BY <2>1, <3>3 DEF Syncing
    <3>7. Syncing(r, a)' BY <3>0, <3>3 DEF Syncing
    <3>8. pc = "remind2" => Due("24h", appts[a].slot)' BY <1>0, <1>2, <2>1, <3>5 DEF Due
    <3>9. Keeping(r, a)' BY <1>2, <1>4, <3>0, <3>3, <3>4, <3>6, <3>7, <3>8 DEF Keeping, At
    <3> QED BY <1>7, <2>2, <3>1, <3>9 DEF Kept
  <2>4. CASE ~Schedulable(req[r].copy, a)
    <3>1. Settle(r) BY <1>0, <2>4 DEF Sync
    <3>2. (\A p \in Request \ {r} : req'[p] = req[p]) /\ req'[r] = Idle BY <1>0, <3>1, StopMoves DEF Settle
    <3>3. keeper'[a] = "settled" BY <1>0, <1>7, <3>1 DEF Settle, TypeOK
    <3>4. \A q \in Request : ~Syncing(q, a)' BY <2>1, <3>2 DEF Syncing, Idle
    <3>5. Calm(a) => distance[appts[a].slot] = "imminent" BY <2>1, <2>4 DEF Schedulable, Calm
    <3>6. Calm(a)' => \A kind \in Kinds : Due(kind, appts[a].slot)' BY <1>2, <3>5 DEF Due, Calm
    <3>7. Match(a)' BY <1>4, <3>6 DEF Match
    <3> QED BY <1>7, <3>3, <3>4, <3>7, DiaryAssumption DEF Kept
  <2> QED BY <2>3, <2>4
<1>8. ASSUME keeper[a] # r, b = a PROVE Kept(b)'
  <2>1. keeper[a] = None
    <3>1. keeper[a] # "settled" BY <1>0, <1>1 DEF Kept
    <3>2. \A q \in Request \ {r} : keeper[a] # q BY <1>0, <1>1 DEF Kept, Keeping
    <3> QED BY <1>0, <1>8, <3>1, <3>2 DEF TypeOK
  <2>2. keeper'[a] = None BY <1>0, <1>8, <2>1 DEF Sync, Settle, TypeOK
  <2> QED BY <1>8, <2>2, DiaryAssumption DEF Kept
<1> QED BY <1>6, <1>7, <1>8

\* What the request at the reminders knows of them, and the row it is about to write.
LEMMA KeptRemind ==
  ASSUME TypeInv, \A a \in Appointment : Kept(a), NEW r \in Request, Remind24(r) \/ Remind2(r), NEW b \in Appointment
  PROVE  Kept(b)'
<1>9. TypeOK /\ req[r].appt \in Appointment /\ req[r].copy.slot \in Slot
  BY DEF TypeInv, Equipped, Remind24, Remind2, At, AtReminders
<1>10. PICK a \in Appointment, s \in Slot : a = req[r].appt /\ s = req[r].copy.slot BY <1>9
<1>0. TypeOK /\ a = req[r].appt /\ s = req[r].copy.slot BY <1>9, <1>10
<1>1. Syncing(r, a) BY <1>0 DEF Syncing, Remind24, Remind2, At
<1>2. appts' = appts /\ distance' = distance BY DEF Remind24, Remind2, WriteReminder, clock
<1>3. PICK kind \in Kinds : /\ pending' = pending \cup { Reminder(a, kind, s) }
                            /\ kind = (IF At(r, "remind24") THEN "24h" ELSE "2h")
  BY <1>0 DEF Remind24, Remind2, WriteReminder, Kinds, At
<1>4. CASE b # a
  <2>1. \A k2 \in Kinds, t \in Slot : Waits(b, k2, t)' <=> Waits(b, k2, t)
    BY <1>3, <1>4, OwnRows DEF Waits
  <2>2. keeper'[b] = keeper[b] BY <1>0, <1>4 DEF Remind24, Remind2, Settle, TypeOK
  <2>3. (\A p \in Request \ {r} : req'[p] = req[p]) /\ ~Syncing(r, b)'
    <3>1. CASE Goto(r, "remind2") BY <1>0, <1>4, <3>1, GotoMoves DEF PCs, AtReminders, Syncing
    <3>2. CASE Stop(r) BY <1>0, <3>2, StopMoves DEF Syncing, Idle
    <3> QED BY <3>1, <3>2 DEF Remind24, Remind2, Settle
  <2> QED BY <1>0, <1>1, <1>2, <1>4, <2>1, <2>2, <2>3, KeptElsewhere
<1>5. ASSUME keeper[a] = r, b = a PROVE Kept(b)'
  <2>1. Keeping(r, a) BY <1>5 DEF Kept
  <2>2. s = appts[a].slot /\ Calm(a) /\ \A q \in Request \ {r} : ~Syncing(q, a)
    BY <1>0, <2>1 DEF Keeping, Remind24, Remind2
  <2>3. Calm(a)' BY <1>2, <2>2 DEF Calm
  <2>4. \A k2 \in Kinds, t \in Slot : Waits(a, k2, t)' => t = appts[a].slot
    BY <1>3, <2>1, <2>2, OwnRows DEF Keeping, Waits, Remind24, Remind2
  <2>5. Waits(a, kind, s)' /\ \A k2 \in Kinds : Waits(a, k2, s) => Waits(a, k2, s)' BY <1>3 DEF Waits
  <2>6. CASE Remind24(r)
    <3>1. /\ \A p \in Request \ {r} : req'[p] = req[p]
          /\ req'[r].pc = "remind2" /\ req'[r].appt = a /\ req'[r].copy = appts[a]
      BY <1>0, <2>1, <2>6, GotoMoves DEF Remind24, PCs, AtReminders, Keeping
    <3>2. Waits(a, "24h", s)' BY <1>3, <2>5, <2>6 DEF Remind24
    <3>3. Syncing(r, a)' /\ \A q \in Request \ {r} : ~Syncing(q, a)' BY <2>2, <3>1 DEF Syncing
    <3>4. Keeping(r, a)' BY <1>2, <2>2, <2>3, <2>4, <3>1, <3>2, <3>3 DEF Keeping, At
    <3>5. keeper' = keeper BY <2>6 DEF Remind24
    <3> QED BY <1>5, <3>4, <3>5, DiaryAssumption DEF Kept
  <2>7. CASE Remind2(r)
    <3>1. (\A p \in Request \ {r} : req'[p] = req[p]) /\ req'[r] = Idle BY <1>0, <2>7, StopMoves DEF Remind2, Settle
    <3>2. keeper'[a] = "settled" BY <1>0, <1>5, <2>7 DEF Remind2, Settle, TypeOK
    <3>3. \A q \in Request : ~Syncing(q, a)' BY <2>2, <3>1 DEF Syncing, Idle
    <3>4. Waits(a, "2h", s)' BY <1>3, <2>5, <2>7 DEF Remind2, At
    <3>5. ~Due("24h", s) => Waits(a, "24h", s)' BY <2>1, <2>2, <2>5, <2>7 DEF Keeping, Remind2, Kinds
    <3>6. \A k2 \in Kinds : ~Due(k2, s)' => Waits(a, k2, s)' BY <1>2, <3>4, <3>5 DEF Due, Kinds
    <3>7. Match(a)' BY <1>2, <2>2, <2>3, <2>4, <3>6 DEF Match
    <3> QED BY <1>5, <3>2, <3>3, <3>7, DiaryAssumption DEF Kept
  <2> QED BY <2>6, <2>7
<1>6. ASSUME keeper[a] # r, b = a PROVE Kept(b)'
  <2>1. keeper[a] = None
    <3>1. keeper[a] # "settled" BY <1>0, <1>1 DEF Kept
    <3>2. \A q \in Request \ {r} : keeper[a] # q BY <1>0, <1>1 DEF Kept, Keeping
    <3> QED BY <1>0, <1>6, <3>1, <3>2 DEF TypeOK
  <2>2. keeper'[a] = None BY <1>0, <1>6, <2>1 DEF Remind24, Remind2, Settle, TypeOK
  <2> QED BY <1>6, <2>2, DiaryAssumption DEF Kept
<1> QED BY <1>4, <1>5, <1>6

\* A reminder that is due goes out, or a time comes nearer: of what waited for later
\* nothing is gone, and what is due stays due.
LEMMA KeptLater ==
  ASSUME TypeInv, NEW a \in Appointment, Kept(a), UNCHANGED << appts, req, keeper >>,
         \A kind \in Kinds, s \in Slot : Waits(a, kind, s)' => Waits(a, kind, s),
         \A kind \in Kinds, s \in Slot : ~Due(kind, s)' => ~Due(kind, s),
         \A kind \in Kinds, s \in Slot : ~Due(kind, s)' /\ Waits(a, kind, s) => Waits(a, kind, s)'
  PROVE  Kept(a)'
<1>1. \A q \in Request : Syncing(q, a)' <=> Syncing(q, a) BY DEF Syncing
<1>2. (Calm(a)' <=> Calm(a)) /\ (Calm(a) => appts[a].slot \in Slot) BY DEF Calm, TypeInv, Exists
<1>3. ASSUME NEW r \in Request, keeper'[a] = r PROVE Keeping(r, a)'
  <2>1. Keeping(r, a) BY <1>3 DEF Kept
  <2> QED BY <1>1, <1>2, <2>1 DEF Keeping, At, Kinds
<1>4. ASSUME keeper'[a] = "settled" PROVE Match(a)' /\ \A q \in Request : ~Syncing(q, a)'
  <2>1. Match(a) /\ \A q \in Request : ~Syncing(q, a) BY <1>4 DEF Kept
  <2> QED BY <1>1, <1>2, <2>1 DEF Match
<1> QED BY <1>3, <1>4 DEF Kept

LEMMA KeptStep ==
  TypeInv /\ (\A a \in Appointment : Kept(a)) /\ [Next]_vars => (\A a \in Appointment : Kept(a))'
<1> SUFFICES ASSUME TypeInv, \A a \in Appointment : Kept(a), [Next]_vars, NEW b \in Appointment PROVE Kept(b)'
  OBVIOUS
<1>0. TypeOK /\ (Calm(b) => appts[b].slot \in Slot) BY DEF TypeInv, Calm, Exists
<1>1. ASSUME NEW r \in Request, Staff(r) PROVE Kept(b)'
  <2>1. PICK a \in Appointment, s \in Slot : Make(r, a, s) \/ \E state \in States : Patch(r, a, s, state) \/ Rebook(r, a, s, state)
    BY <1>1 DEF Staff
  <2>2. PICK state \in States : Make(r, a, s) \/ Patch(r, a, s, state) \/ Rebook(r, a, s, state)
    BY <2>1 DEF States
  <2>3. ~(req[r].pc \in AtReminders) BY <2>2, StaffWrites DEF At, AtReminders
  <2> QED BY <2>2, <2>3, StaffWrites, KeptWriteSync
<1>2. ASSUME NEW r \in Request, Move(r) PROVE Kept(b)'
  <2>1. ~(req[r].pc \in AtReminders) BY <1>2 DEF Move, At, AtReminders
  <2> QED BY <1>2, <2>1, MoveWrites, KeptWriteSync
<1>3. ASSUME NEW a \in Appointment, SelfCancel(a) \/ Release(a) \/ \E s \in Slot : Hold(a, s) PROVE Kept(b)'
  <2>1. PICK row \in Entry : Write(a, row, None) BY <1>3, UnattendedWrites
  <2>2. Unattended BY <1>3, UnattendedWrites
  <2>3. keeper'[a] = None /\ \A c \in Appointment \ {a} : appts'[c] = appts[c] /\ keeper'[c] = keeper[c]
    BY <1>0, <2>1, Writes
  <2>4. CASE b = a BY <2>3, <2>4, DiaryAssumption DEF Kept
  <2>5. CASE b # a
    <3>1. keeper'[b] = keeper[b] /\ appts'[b] = appts[b] BY <2>3, <2>5
    <3>2. distance' = distance /\ pending' = pending /\ req' = req BY <2>2 DEF Unattended, clock
    <3>3. \A kind \in Kinds, s \in Slot : Waits(b, kind, s)' <=> Waits(b, kind, s) BY <3>2 DEF Waits
    <3> QED BY <1>0, <3>1, <3>2, <3>3, KeptStill
  <2> QED BY <2>4, <2>5
<1>4. ASSUME NEW r \in Request, NEW a \in Appointment, NEW s \in Slot, LookForConflict(r, a, s) PROVE Kept(b)'
  <2> DEFINE m == [Idle EXCEPT !.pc = "move", !.appt = a, !.slot = s]
  <2>1. m \in Row /\ m.pc = "move" BY DEF Idle, Row, PCs, AtReminders, Entry, Absent, States
  <2>2. req' = [req EXCEPT ![r] = m] BY <1>4 DEF LookForConflict
  <2> HIDE DEF m
  <2>3. req'[r] = m /\ \A p \in Request \ {r} : req'[p] = req[p] BY <1>0, <2>1, <2>2, Moves
  <2>4. ~Syncing(r, b) /\ ~Syncing(r, b)' BY <1>4, <2>1, <2>3 DEF LookForConflict, Syncing, At
  <2>5. \A q \in Request : Syncing(q, b) \/ Syncing(q, b)' => req'[q] = req[q] BY <2>3, <2>4
  <2>6. UNCHANGED << appts, pending, distance, keeper >> BY <1>4 DEF LookForConflict, clock
  <2>7. \A kind \in Kinds, t \in Slot : Waits(b, kind, t)' <=> Waits(b, kind, t) BY <2>6 DEF Waits
  <2> QED BY <1>0, <2>5, <2>6, <2>7, KeptStill
<1>5. ASSUME NEW r \in Request, Reminders(r) PROVE Kept(b)' BY <1>5, KeptSync, KeptRemind DEF Reminders
<1>6. ASSUME NEW k \in pending, Dispatch(k) PROVE Kept(b)'
  <2>1. Due(k[2], k[3]) /\ pending' = pending \ {k} /\ UNCHANGED << appts, distance, req, keeper >>
    BY <1>6 DEF Dispatch, clock
  <2>2. \A kind \in Kinds, s \in Slot : Waits(b, kind, s)' => Waits(b, kind, s) BY <2>1 DEF Waits
  <2>3. \A kind \in Kinds, s \in Slot : Due(kind, s)' <=> Due(kind, s) BY <2>1 DEF Due
  <2>4. ASSUME NEW kind \in Kinds, NEW s \in Slot, ~Due(kind, s), Waits(b, kind, s) PROVE Waits(b, kind, s)'
    <3>1. Reminder(b, kind, s) # k BY <2>1, <2>4 DEF Reminder
    <3> QED BY <2>1, <2>4, <3>1 DEF Waits
  <2> QED BY <2>1, <2>2, <2>3, <2>4, KeptLater
<1>7. ASSUME NEW s \in Slot, Advance(s) PROVE Kept(b)'
  <2>1. UNCHANGED << appts, req, keeper, pending >> BY <1>7 DEF Advance
  <2>2. \A kind \in Kinds, t \in Slot : ~Due(kind, t)' => ~Due(kind, t)
    <3>1. \A t \in Slot : distance[t] = "imminent" => distance'[t] = "imminent" BY <1>0, <1>7 DEF Advance, TypeOK
    <3>2. \A t \in Slot : distance[t] = "hours" => distance'[t] \in { "hours", "imminent" }
      BY <1>0, <1>7 DEF Advance, TypeOK
    <3> QED BY <3>1, <3>2 DEF Due
  <2>3. \A kind \in Kinds, t \in Slot : Waits(b, kind, t)' <=> Waits(b, kind, t) BY <2>1 DEF Waits
  <2> QED BY <2>1, <2>2, <2>3, KeptLater
<1>8. ASSUME NEW r \in Request, Die(r) PROVE Kept(b)'
  <2>1. (\A p \in Request \ {r} : req'[p] = req[p]) /\ req'[r] = Idle BY <1>0, <1>8, StopMoves DEF Die
  <2>2. UNCHANGED << appts, distance, pending >> BY <1>8 DEF Die, clock
  <2>3. CASE keeper[b] = r
    <3>1. keeper'[b] = None BY <1>8, <2>3 DEF Die
    <3> QED BY <3>1, DiaryAssumption DEF Kept
  <2>4. CASE keeper[b] # r
    <3>1. keeper'[b] = keeper[b] BY <1>8, <2>4 DEF Die
    <3>2. \A q \in Request : Syncing(q, b)' => Syncing(q, b) /\ req'[q] = req[q] BY <2>1 DEF Syncing, Idle
    <3>3. Calm(b)' <=> Calm(b) BY <2>2 DEF Calm
    <3>4. \A kind, s : (Due(kind, s)' <=> Due(kind, s)) /\ (Waits(b, kind, s)' <=> Waits(b, kind, s))
      BY <2>2 DEF Due, Waits
    <3>5. ASSUME NEW p \in Request, keeper'[b] = p PROVE Keeping(p, b)'
      <4>1. Keeping(p, b) /\ p # r BY <2>4, <3>1, <3>5 DEF Kept
      <4>2. req'[p] = req[p] BY <2>1, <4>1
      <4>3. Syncing(p, b)' BY <4>1, <4>2 DEF Keeping, Syncing
      <4> QED BY <2>2, <3>2, <3>3, <3>4, <4>1, <4>2, <4>3 DEF Keeping, At
    <3>6. ASSUME keeper'[b] = "settled" PROVE Match(b)' /\ \A q \in Request : ~Syncing(q, b)'
      <4>1. Match(b) /\ \A q \in Request : ~Syncing(q, b) BY <3>1, <3>6 DEF Kept
      <4> QED BY <2>2, <3>2, <3>3, <3>4, <4>1 DEF Match
    <3> QED BY <3>5, <3>6 DEF Kept
  <2> QED BY <2>3, <2>4
<1>9. CASE UNCHANGED vars
  <2>1. \A kind \in Kinds, s \in Slot : Waits(b, kind, s)' <=> Waits(b, kind, s) BY <1>9 DEF Waits, vars
  <2> QED BY <1>0, <1>9, <2>1, KeptStill DEF vars
<1>10. CASE Next
  <2>1. ASSUME NEW r \in Request, Self(r) \/ Staff(r) \/ Reminders(r) \/ Die(r) PROVE Kept(b)'
    BY <2>1, <1>1, <1>2, <1>4, <1>5, <1>8, Zenon DEF Self
  <2>2. CASE Calendar
    <3>1. PICK a \in Platform : Release(a) \/ \E s \in Slot : Hold(a, s) BY <2>2 DEF Calendar
    <3>2. a \in Appointment BY DEF Appointment
    <3> QED BY <1>3, <3>1, <3>2
  <2> QED BY <1>10, <1>3, <1>6, <1>7, <2>1, <2>2 DEF Next
<1> QED BY <1>9, <1>10

\* The property, row by row, is the property of the run.
LEMMA MatchMeans ==
  ASSUME TypeInv, \A a \in Appointment : Kept(a)
  PROVE  RemindersMatch
<1> SUFFICES ASSUME NEW a \in Appointment, keeper[a] = "settled"
             PROVE  LET waiting == pending \cap Of(a)
                        wanted == IF Calm(a) THEN Kinds \X { appts[a].slot } ELSE {}
                    IN /\ \A k \in waiting : << k[2], k[3] >> \in wanted
                       /\ \A w \in wanted : ~Due(w[1], w[2]) => Reminder(a, w[1], w[2]) \in waiting
  BY DEF RemindersMatch, Calm
<1> DEFINE wanted == IF Calm(a) THEN Kinds \X { appts[a].slot } ELSE {}
<1>1. Match(a) BY DEF Kept
<1>2. ASSUME NEW k \in pending \cap Of(a) PROVE << k[2], k[3] >> \in wanted
  <2>1. PICK kind \in Kinds, s \in Slot : k = << a, kind, s >> BY <1>2 DEF Of
  <2>2. Waits(a, kind, s) BY <1>2, <2>1 DEF Waits, Reminder
  <2> QED BY <1>1, <2>1, <2>2 DEF Match
<1>3. ASSUME NEW w \in wanted, ~Due(w[1], w[2]) PROVE Reminder(a, w[1], w[2]) \in pending \cap Of(a)
  <2>1. Calm(a) BY <1>3
  <2>2. PICK kind \in Kinds : w = << kind, appts[a].slot >> BY <1>3, <2>1
  <2>3. appts[a].slot \in Slot BY <2>1 DEF TypeInv, Exists, Calm
  <2>4. Waits(a, kind, appts[a].slot) BY <1>1, <1>3, <2>1, <2>2 DEF Match
  <2> QED BY <2>2, <2>3, <2>4 DEF Waits, Reminder, Of
<1> QED BY <1>2, <1>3

\* Whoever writes an appointment and whatever is sent, refused or killed: when its
\* last writer was alone at the reminders and has come to their end, those that wait
\* with their time to come are those of the appointment's own time, and all of them
\* (syncAppointmentReminders).
THEOREM MatchCorrect == Spec => []RemindersMatch
<1> DEFINE AllKept == \A a \in Appointment : Kept(a)
<1>1. Init => AllKept BY DiaryAssumption DEF Init, Kept
<1>2. TypeInv /\ AllKept /\ [Next]_vars => AllKept' BY KeptStep
<1>3. TypeInv /\ AllKept => RemindersMatch BY MatchMeans
<1> QED BY <1>1, <1>2, <1>3, TypeInit, TypeStep, PTL DEF Spec

-----------------------------------------------------------------------------
(* Reminders sent again.                                                   *)
(*                                                                         *)
(* The requests that will write a reminder which is due by now, although   *)
(* it was not when they decided to; and the reminders that wait again.     *)
Late24 == { r \in Request : At(r, "remind24") /\ Due("24h", req[r].copy.slot) }
Late2 == { r \in Request : (At(r, "remind24") \/ At(r, "remind2")) /\ Due("2h", req[r].copy.slot) }
Again == pending \cap told

\* What was told was due, and time does not go back: so a reminder waits again only if
\* a request wrote it late, and each of those was counted when its time came.
RemindInv ==
  /\ IsFiniteSet(pending)
  /\ \A k \in told : Due(k[2], k[3])
  /\ repeats + Cardinality(Again) + Cardinality(Late24) + Cardinality(Late2) <= straddles

-----------------------------------------------------------------------------
LEMMA RequestsCount == \A S \in SUBSET Request : IsFiniteSet(S) /\ Cardinality(S) \in Nat
BY DiaryAssumption, FS_Subset, FS_CardinalityType

LEMMA LateCount ==
  /\ Late24 \subseteq Request /\ Cardinality(Late24) \in Nat
  /\ Late2 \subseteq Request /\ Cardinality(Late2) \in Nat
BY RequestsCount DEF Late24, Late2

LEMMA LateCountNext ==
  /\ Late24' \subseteq Request /\ Cardinality(Late24') \in Nat
  /\ Late2' \subseteq Request /\ Cardinality(Late2') \in Nat
<1>1. Late24' \subseteq Request /\ Late2' \subseteq Request BY DEF Late24, Late2
<1> QED BY <1>1, RequestsCount

LEMMA AgainCount ==
  ASSUME NEW P, NEW T, IsFiniteSet(P)
  PROVE  IsFiniteSet(P \cap T) /\ Cardinality(P \cap T) \in Nat
BY FS_Subset, FS_CardinalityType

LEMMA Shrinks ==
  ASSUME NEW S, NEW T \in SUBSET S, IsFiniteSet(S)
  PROVE  Cardinality(T) <= Cardinality(S)
BY FS_Subset

LEMMA OneLess ==
  ASSUME NEW S, NEW x, IsFiniteSet(S)
  PROVE  /\ IsFiniteSet(S \ {x})
         /\ Cardinality(S \ {x}) = Cardinality(S) - (IF x \in S THEN 1 ELSE 0)
<1>1. Cardinality(S) \in Nat BY FS_CardinalityType
<1>2. CASE x \in S BY <1>2, FS_RemoveElement
<1>3. CASE x \notin S
  <2>1. S \ {x} = S BY <1>3
  <2> QED BY <1>1, <1>3, <2>1
<1> QED BY <1>2, <1>3

\* Nothing is told, nothing waits anew and nobody comes to be late.
LEMMA RemindQuiet ==
  ASSUME TypeOK, RemindInv, pending' \subseteq pending, UNCHANGED << clock, sending >>,
         Late24' \subseteq Late24, Late2' \subseteq Late2
  PROVE  RemindInv'
<1>1. IsFiniteSet(pending) /\ IsFiniteSet(pending') BY FS_Subset DEF RemindInv
<1>2. Again' \subseteq Again BY DEF Again, sending
<1>3. /\ IsFiniteSet(Again) /\ Cardinality(Again) \in Nat
      /\ IsFiniteSet(Again') /\ Cardinality(Again') \in Nat
  BY <1>1, AgainCount DEF Again
<1>4. Cardinality(Again') <= Cardinality(Again) BY <1>2, <1>3, Shrinks
<1>5. IsFiniteSet(Late24) /\ IsFiniteSet(Late2) BY LateCount, RequestsCount
<1>6. Cardinality(Late24') <= Cardinality(Late24) /\ Cardinality(Late2') <= Cardinality(Late2) BY <1>5, Shrinks
<1>7. \A k \in told' : Due(k[2], k[3])' BY DEF RemindInv, clock, sending, Due
<1>8. repeats' = repeats /\ straddles' = straddles /\ repeats \in Nat /\ straddles \in Nat
  BY DEF clock, sending, TypeOK
<1>9. repeats + Cardinality(Again) + Cardinality(Late24) + Cardinality(Late2) <= straddles BY DEF RemindInv
<1>10. repeats' + Cardinality(Again') + Cardinality(Late24') + Cardinality(Late2') <= straddles'
  BY <1>3, <1>4, <1>6, <1>8, <1>9, LateCount, LateCountNext
<1> QED BY <1>1, <1>7, <1>10 DEF RemindInv

\* A request that goes on, to something it is not late for.
LEMMA LateMover ==
  ASSUME NEW r \in Request, \A p \in Request \ {r} : req'[p] = req[p], distance' = distance,
         r \notin Late24', r \notin Late2'
  PROVE  Late24' \subseteq Late24 /\ Late2' \subseteq Late2
BY DEF Late24, Late2, At, Due

LEMMA OffReminders ==
  ASSUME NEW r \in Request, req'[r].pc \notin { "remind24", "remind2" }
  PROVE  r \notin Late24' /\ r \notin Late2'
BY DEF Late24, Late2, At

\* A reminder is written by a request: if it was told before, the request is late.
LEMMA RemindWritten ==
  ASSUME TypeInv, RemindInv, NEW r \in Request, Remind24(r) \/ Remind2(r)
  PROVE  RemindInv'
<1>0. TypeOK /\ req[r].appt \in Appointment /\ req[r].copy.slot \in Slot
  BY DEF TypeInv, Equipped, Remind24, Remind2, At, AtReminders
<1>1. PICK k : /\ pending' = pending \cup {k}
               /\ Remind24(r) => k[2] = "24h" /\ k[3] = req[r].copy.slot
               /\ Remind2(r) => k[2] = "2h" /\ k[3] = req[r].copy.slot
  <2>1. CASE Remind24(r)
    <3>1. ~Remind2(r) BY <2>1 DEF Remind24, Remind2, At
    <3> DEFINE j == << req[r].appt, "24h", req[r].copy.slot >>
    <3>2. pending' = pending \cup {j} BY <2>1 DEF Remind24, WriteReminder, Reminder
    <3>3. j[2] = "24h" /\ j[3] = req[r].copy.slot OBVIOUS
    <3> HIDE DEF j
    <3> QED BY <3>1, <3>2, <3>3
  <2>2. CASE Remind2(r)
    <3>1. ~Remind24(r) BY <2>2 DEF Remind24, Remind2, At
    <3> DEFINE j == << req[r].appt, "2h", req[r].copy.slot >>
    <3>2. pending' = pending \cup {j} BY <2>2 DEF Remind2, WriteReminder, Reminder
    <3>3. j[2] = "2h" /\ j[3] = req[r].copy.slot OBVIOUS
    <3> HIDE DEF j
    <3> QED BY <3>1, <3>2, <3>3
  <2> QED BY <2>1, <2>2
<1>2. UNCHANGED << distance, straddles, told, repeats >> BY DEF Remind24, Remind2, WriteReminder, clock, sending
<1>3. IsFiniteSet(pending) /\ IsFiniteSet(pending') BY <1>1, FS_AddElement DEF RemindInv
<1>4. /\ IsFiniteSet(Again) /\ Cardinality(Again) \in Nat
      /\ IsFiniteSet(Again') /\ Cardinality(Again') \in Nat
  BY <1>3, AgainCount DEF Again
<1>5. Cardinality(Again') <= Cardinality(Again) + (IF k \in told THEN 1 ELSE 0)
  <2>1. CASE k \in told
    <3>1. Again' = Again \cup {k} BY <1>1, <1>2, <2>1 DEF Again
    <3> QED BY <1>4, <2>1, <3>1, FS_AddElement
  <2>2. CASE k \notin told
    <3>1. Again' = Again BY <1>1, <1>2, <2>2 DEF Again
    <3> QED BY <1>4, <2>2, <3>1
  <2> QED BY <2>1, <2>2
<1>6. \A j \in told : Due(j[2], j[3]) BY DEF RemindInv
<1>7. \A j \in told' : Due(j[2], j[3])' BY <1>2, <1>6 DEF Due
<1>8. repeats + Cardinality(Again) + Cardinality(Late24) + Cardinality(Late2) <= straddles
      /\ repeats \in Nat /\ straddles \in Nat
  BY <1>0 DEF RemindInv, TypeOK
<1>9. IsFiniteSet(Late24) /\ IsFiniteSet(Late2) BY LateCount, RequestsCount
<1>10. CASE Remind24(r)
  <2>1. /\ \A p \in Request \ {r} : req'[p] = req[p]
        /\ req'[r].pc = "remind2" /\ req'[r].copy = req[r].copy /\ At(r, "remind24")
    BY <1>0, <1>10, GotoMoves DEF Remind24, PCs, AtReminders
  <2>2. Late24' \subseteq Late24 \ {r} BY <1>2, <2>1 DEF Late24, At, Due
  <2>3. Late2' \subseteq Late2 BY <1>2, <2>1 DEF Late2, At, Due
  <2>4. k \in told => r \in Late24
    BY <1>1, <1>6, <1>10, <2>1 DEF Late24
  <2>5. Cardinality(Late24 \ {r}) = Cardinality(Late24) - (IF r \in Late24 THEN 1 ELSE 0)
        /\ IsFiniteSet(Late24 \ {r})
    BY <1>9, OneLess
  <2>6. Cardinality(Late24') <= Cardinality(Late24 \ {r}) BY <2>2, <2>5, Shrinks
  <2>7. Cardinality(Late24') + (IF k \in told THEN 1 ELSE 0) <= Cardinality(Late24)
    <3>1. CASE k \in told BY <2>4, <2>5, <2>6, <3>1, LateCount, LateCountNext
    <3>2. CASE k \notin told
      <4>1. Cardinality(Late24') <= Cardinality(Late24) BY <1>9, <2>2, Shrinks
      <4> QED BY <3>2, <4>1, LateCount, LateCountNext
    <3> QED BY <3>1, <3>2
  <2>8. Cardinality(Late2') <= Cardinality(Late2) BY <1>9, <2>3, Shrinks
  <2>9. repeats' + Cardinality(Again') + Cardinality(Late24') + Cardinality(Late2') <= straddles'
    BY <1>2, <1>4, <1>5, <1>8, <2>7, <2>8, LateCount, LateCountNext
  <2> QED BY <1>3, <1>7, <2>9 DEF RemindInv
<1>11. CASE Remind2(r)
  <2>1. /\ \A p \in Request \ {r} : req'[p] = req[p]
        /\ req'[r] = Idle /\ At(r, "remind2")
    BY <1>0, <1>11, StopMoves DEF Remind2, Settle
  <2>2. Late2' \subseteq Late2 \ {r} BY <1>2, <2>1 DEF Late2, At, Due, Idle
  <2>3. Late24' \subseteq Late24 BY <1>2, <2>1 DEF Late24, At, Due, Idle
  <2>4. k \in told => r \in Late2
    BY <1>1, <1>6, <1>11, <2>1 DEF Late2
  <2>5. Cardinality(Late2 \ {r}) = Cardinality(Late2) - (IF r \in Late2 THEN 1 ELSE 0)
        /\ IsFiniteSet(Late2 \ {r})
    BY <1>9, OneLess
  <2>6. Cardinality(Late2') <= Cardinality(Late2 \ {r}) BY <2>2, <2>5, Shrinks
  <2>7. Cardinality(Late2') + (IF k \in told THEN 1 ELSE 0) <= Cardinality(Late2)
    <3>1. CASE k \in told BY <2>4, <2>5, <2>6, <3>1, LateCount, LateCountNext
    <3>2. CASE k \notin told
      <4>1. Cardinality(Late2') <= Cardinality(Late2) BY <1>9, <2>2, Shrinks
      <4> QED BY <3>2, <4>1, LateCount, LateCountNext
    <3> QED BY <3>1, <3>2
  <2>8. Cardinality(Late24') <= Cardinality(Late24) BY <1>9, <2>3, Shrinks
  <2>9. repeats' + Cardinality(Again') + Cardinality(Late24') + Cardinality(Late2') <= straddles'
    BY <1>2, <1>4, <1>5, <1>8, <2>7, <2>8, LateCount, LateCountNext
  <2> QED BY <1>3, <1>7, <2>9 DEF RemindInv
<1> QED BY <1>10, <1>11

\* A reminder goes out: if it went out before, it was among those that wait again.
LEMMA RemindTold ==
  ASSUME TypeInv, RemindInv, NEW k \in pending, Dispatch(k)
  PROVE  RemindInv'
<1>0. TypeOK BY DEF TypeInv
<1>1. /\ pending' = pending \ {k} /\ told' = told \cup {k} /\ Due(k[2], k[3])
      /\ repeats' = repeats + (IF k \in told THEN 1 ELSE 0)
      /\ UNCHANGED << distance, straddles, req >>
  BY DEF Dispatch, clock
<1>2. IsFiniteSet(pending) /\ IsFiniteSet(pending') BY <1>1, FS_RemoveElement DEF RemindInv
<1>3. IsFiniteSet(Again) /\ Cardinality(Again) \in Nat BY <1>2, AgainCount DEF Again
<1>4. Again' = Again \ {k} BY <1>1 DEF Again
<1>5. Cardinality(Again') = Cardinality(Again) - (IF k \in told THEN 1 ELSE 0)
  <2>1. k \in Again <=> k \in told BY DEF Again
  <2> QED BY <1>3, <1>4, <2>1, OneLess
<1>6. Late24' = Late24 /\ Late2' = Late2 BY <1>1 DEF Late24, Late2, At, Due
<1>7. \A j \in told' : Due(j[2], j[3])' BY <1>1 DEF RemindInv, Due
<1>8. repeats + Cardinality(Again) + Cardinality(Late24) + Cardinality(Late2) <= straddles
      /\ repeats \in Nat /\ straddles \in Nat
  BY <1>0 DEF RemindInv, TypeOK
<1>9. repeats' + Cardinality(Again') + Cardinality(Late24') + Cardinality(Late2') <= straddles'
  BY <1>1, <1>3, <1>5, <1>6, <1>8, LateCount
<1> QED BY <1>2, <1>7, <1>9 DEF RemindInv

\* A time comes nearer: those who become late are those who are counted.
LEMMA RemindAdvance ==
  ASSUME TypeInv, RemindInv, NEW s \in Slot, Advance(s)
  PROVE  RemindInv'
<1>0. TypeOK /\ \A r \in Request : At(r, "remind24") \/ At(r, "remind2") => req[r].copy.slot \in Slot
  BY DEF TypeInv, Equipped, At, AtReminders
<1>1. UNCHANGED << pending, req, told, repeats >> BY DEF Advance, sending
<1>2. /\ distance[s] \in { "days", "hours" }
      /\ distance'[s] = (IF distance[s] = "days" THEN "hours" ELSE "imminent")
      /\ \A t \in Slot \ {s} : distance'[t] = distance[t]
  BY <1>0 DEF Advance, TypeOK
<1>3. /\ Straddled(s) \subseteq Request /\ IsFiniteSet(Straddled(s)) /\ Cardinality(Straddled(s)) \in Nat
      /\ straddles' = straddles + Cardinality(Straddled(s))
  BY RequestsCount DEF Straddled, Advance
<1>4. \A k \in told : Due(k[2], k[3])' 
  <2>1. \A k \in told : k[3] \in Slot /\ Due(k[2], k[3]) BY <1>0 DEF RemindInv, TypeOK
  <2> QED BY <1>2, <2>1 DEF Due
<1>5. Again' = Again BY <1>1 DEF Again
<1>6. Cardinality(Again) \in Nat BY AgainCount DEF Again, RemindInv
<1>7. IsFiniteSet(Late24) /\ IsFiniteSet(Late2) BY LateCount, RequestsCount
<1>8. repeats + Cardinality(Again) + Cardinality(Late24) + Cardinality(Late2) <= straddles
      /\ repeats \in Nat /\ straddles \in Nat
  BY <1>0 DEF RemindInv, TypeOK
<1>9. Cardinality(Late24') + Cardinality(Late2') <= Cardinality(Late24) + Cardinality(Late2) + Cardinality(Straddled(s))
  <2>1. CASE distance[s] = "days"
    <3>1. Late24' \subseteq Late24 \cup Straddled(s)
      BY <1>0, <1>1, <1>2, <2>1 DEF Late24, Straddled, At, Due
    <3>2. Late2' \subseteq Late2 BY <1>0, <1>1, <1>2, <2>1 DEF Late2, At, Due
    <3>3. Cardinality(Late2') <= Cardinality(Late2) BY <1>7, <3>2, Shrinks
    <3>4. /\ IsFiniteSet(Late24 \cup Straddled(s)) /\ Cardinality(Late24 \cap Straddled(s)) \in Nat
          /\ Cardinality(Late24 \cup Straddled(s))
               = Cardinality(Late24) + Cardinality(Straddled(s)) - Cardinality(Late24 \cap Straddled(s))
      BY <1>3, <1>7, FS_Union, AgainCount
    <3>5. Cardinality(Late24') <= Cardinality(Late24 \cup Straddled(s)) BY <3>1, <3>4, Shrinks
    <3> QED BY <1>3, <3>3, <3>4, <3>5, LateCount, LateCountNext
  <2>2. CASE distance[s] = "hours"
    <3>1. Late2' \subseteq Late2 \cup Straddled(s)
      BY <1>0, <1>1, <1>2, <2>2 DEF Late2, Straddled, At, Due
    <3>2. Late24' \subseteq Late24 BY <1>0, <1>1, <1>2, <2>2 DEF Late24, At, Due
    <3>3. Cardinality(Late24') <= Cardinality(Late24) BY <1>7, <3>2, Shrinks
    <3>4. /\ IsFiniteSet(Late2 \cup Straddled(s)) /\ Cardinality(Late2 \cap Straddled(s)) \in Nat
          /\ Cardinality(Late2 \cup Straddled(s))
               = Cardinality(Late2) + Cardinality(Straddled(s)) - Cardinality(Late2 \cap Straddled(s))
      BY <1>3, <1>7, FS_Union, AgainCount
    <3>5. Cardinality(Late2') <= Cardinality(Late2 \cup Straddled(s)) BY <3>1, <3>4, Shrinks
    <3> QED BY <1>3, <3>3, <3>4, <3>5, LateCount, LateCountNext
  <2> QED BY <1>2, <2>1, <2>2
<1>10. repeats' + Cardinality(Again') + Cardinality(Late24') + Cardinality(Late2') <= straddles'
  BY <1>1, <1>3, <1>5, <1>6, <1>8, <1>9, LateCount, LateCountNext
<1> QED BY <1>1, <1>4, <1>10 DEF RemindInv

LEMMA RemindStep == TypeInv /\ RemindInv /\ [Next]_vars => RemindInv'
<1> SUFFICES ASSUME TypeInv, RemindInv, [Next]_vars PROVE RemindInv' OBVIOUS
<1>0. TypeOK BY DEF TypeInv
<1>a. ASSUME NEW r \in Request, \A p \in Request \ {r} : req'[p] = req[p],
             r \notin Late24', r \notin Late2', pending' \subseteq pending, UNCHANGED << clock, sending >>
      PROVE  RemindInv'
  <2>1. Late24' \subseteq Late24 /\ Late2' \subseteq Late2 BY <1>a, LateMover DEF clock
  <2> QED BY <1>0, <1>a, <2>1, RemindQuiet
<1>b. ASSUME UNCHANGED << pending, req, clock, sending >> PROVE RemindInv'
  <2>1. Late24' = Late24 /\ Late2' = Late2 BY <1>b DEF Late24, Late2, At, Due, clock
  <2> QED BY <1>0, <1>b, <2>1, RemindQuiet
<1>c. ASSUME NEW r \in Request, NEW a \in Appointment, NEW row \in Entry, WriteThenSync(r, a, row)
      PROVE  RemindInv'
  <2>1. (\A p \in Request \ {r} : req'[p] = req[p]) /\ req'[r].pc = "sync" BY <1>0, <1>c, WritesThenSyncs
  <2>2. r \notin Late24' /\ r \notin Late2' BY <2>1, OffReminders
  <2>3. pending' = pending /\ UNCHANGED << clock, sending >> BY <1>c DEF WriteThenSync
  <2> QED BY <1>a, <2>1, <2>2, <2>3
<1>1. ASSUME NEW r \in Request, Staff(r) PROVE RemindInv'
  <2>1. PICK a \in Appointment, s \in Slot : Make(r, a, s) \/ \E state \in States : Patch(r, a, s, state) \/ Rebook(r, a, s, state)
    BY <1>1 DEF Staff
  <2>2. PICK state \in States : Make(r, a, s) \/ Patch(r, a, s, state) \/ Rebook(r, a, s, state)
    BY <2>1 DEF States
  <2> QED BY <1>c, <2>2, StaffWrites
<1>2. ASSUME NEW r \in Request, Move(r) PROVE RemindInv' BY <1>2, <1>c, MoveWrites
<1>3. ASSUME NEW a \in Appointment, SelfCancel(a) \/ Release(a) \/ \E s \in Slot : Hold(a, s) PROVE RemindInv'
  <2>1. Unattended BY <1>3, UnattendedWrites
  <2> QED BY <1>b, <2>1 DEF Unattended
<1>4. ASSUME NEW r \in Request, NEW a \in Appointment, NEW s \in Slot, LookForConflict(r, a, s) PROVE RemindInv'
  <2> DEFINE q == [Idle EXCEPT !.pc = "move", !.appt = a, !.slot = s]
  <2>1. q \in Row /\ q.pc = "move" BY DEF Idle, Row, PCs, AtReminders, Entry, Absent, States
  <2>2. req' = [req EXCEPT ![r] = q] BY <1>4 DEF LookForConflict
  <2> HIDE DEF q
  <2>3. req'[r] = q /\ \A p \in Request \ {r} : req'[p] = req[p] BY <1>0, <2>1, <2>2, Moves
  <2>4. r \notin Late24' /\ r \notin Late2' BY <2>1, <2>3, OffReminders
  <2>5. pending' = pending /\ UNCHANGED << clock, sending >> BY <1>4 DEF LookForConflict
  <2> QED BY <1>a, <2>3, <2>4, <2>5
<1>5. ASSUME NEW r \in Request, Sync(r) PROVE RemindInv'
  <2>1. pending' \subseteq pending /\ UNCHANGED << clock, sending >> BY <1>5 DEF Sync, CancelWaiting
  <2>2. CASE Schedulable(req[r].copy, req[r].appt)
    <3>1. Goto(r, IF distance[req[r].copy.slot] = "days" THEN "remind24" ELSE "remind2")
      BY <1>5, <2>2 DEF Sync
    <3>2. CASE distance[req[r].copy.slot] = "days"
      <4>1. /\ \A p \in Request \ {r} : req'[p] = req[p]
            /\ req'[r].pc = "remind24" /\ req'[r].copy = req[r].copy
        BY <1>0, <3>1, <3>2, GotoMoves DEF PCs, AtReminders
      <4>2. r \notin Late24' /\ r \notin Late2' BY <2>1, <3>2, <4>1 DEF Late24, Late2, At, Due, clock
      <4> QED BY <1>a, <2>1, <4>1, <4>2
    <3>3. CASE distance[req[r].copy.slot] # "days"
      <4>1. /\ \A p \in Request \ {r} : req'[p] = req[p]
            /\ req'[r].pc = "remind2" /\ req'[r].copy = req[r].copy
        BY <1>0, <3>1, <3>3, GotoMoves DEF PCs, AtReminders
      <4>2. distance[req[r].copy.slot] # "imminent" BY <2>2 DEF Schedulable
      <4>3. r \notin Late24' /\ r \notin Late2' BY <2>1, <4>1, <4>2 DEF Late24, Late2, At, Due, clock
      <4> QED BY <1>a, <2>1, <4>1, <4>3
    <3> QED BY <3>2, <3>3
  <2>3. CASE ~Schedulable(req[r].copy, req[r].appt)
    <3>1. Stop(r) BY <1>5, <2>3 DEF Sync, Settle
    <3>2. (\A p \in Request \ {r} : req'[p] = req[p]) /\ req'[r].pc = "idle" BY <1>0, <3>1, StopMoves DEF Idle
    <3>3. r \notin Late24' /\ r \notin Late2' BY <3>2, OffReminders
    <3> QED BY <1>a, <2>1, <3>2, <3>3
  <2> QED BY <2>2, <2>3
<1>6. ASSUME NEW r \in Request, Reminders(r) PROVE RemindInv' BY <1>5, <1>6, RemindWritten DEF Reminders
<1>7. ASSUME NEW r \in Request, Die(r) PROVE RemindInv'
  <2>1. (\A p \in Request \ {r} : req'[p] = req[p]) /\ req'[r].pc = "idle"
    BY <1>0, <1>7, StopMoves DEF Die, Idle
  <2>2. r \notin Late24' /\ r \notin Late2' BY <2>1, OffReminders
  <2>3. pending' = pending /\ UNCHANGED << clock, sending >> BY <1>7 DEF Die
  <2> QED BY <1>a, <2>1, <2>2, <2>3
<1>8. CASE UNCHANGED vars BY <1>8, <1>b DEF vars, clock, sending
<1>9. CASE Next
  <2>1. ASSUME NEW r \in Request, Self(r) \/ Staff(r) \/ Reminders(r) \/ Die(r) PROVE RemindInv'
    BY <2>1, <1>1, <1>2, <1>4, <1>6, <1>7, Zenon DEF Self
  <2>2. CASE Calendar
    <3>1. PICK a \in Platform : Release(a) \/ \E s \in Slot : Hold(a, s) BY <2>2 DEF Calendar
    <3>2. a \in Appointment BY DEF Appointment
    <3> QED BY <1>3, <3>1, <3>2
  <2> QED BY <1>9, <1>3, <2>1, <2>2, RemindTold, RemindAdvance DEF Next
<1> QED BY <1>8, <1>9

LEMMA RemindInit == Init => RemindInv
<1> SUFFICES ASSUME Init PROVE RemindInv OBVIOUS
<1>1. Late24 = {} /\ Late2 = {} /\ Again = {} BY DEF Init, Late24, Late2, Again, At, Idle
<1>2. IsFiniteSet({}) /\ Cardinality({}) = 0 BY FS_EmptySet
<1> QED BY <1>1, <1>2 DEF Init, RemindInv

\* However appointments are re-saved, moved away and back, cancelled and revived, by
\* any number of requests at once: a customer is reminded twice of one time at most as
\* often as a request was caught between its choice of reminders and its write of one
\* by that reminder's own time (appointment-reminders.ts:131).
THEOREM RemindedCorrect == Spec => []RemindedOnce
<1>1. TypeInv /\ RemindInv => RemindedOnce
  <2> SUFFICES ASSUME TypeInv, RemindInv PROVE repeats <= straddles BY DEF RemindedOnce
  <2>1. repeats \in Nat /\ straddles \in Nat BY DEF TypeInv, TypeOK
  <2>2. Cardinality(Again) \in Nat BY AgainCount DEF Again, RemindInv
  <2>3. repeats + Cardinality(Again) + Cardinality(Late24) + Cardinality(Late2) <= straddles BY DEF RemindInv
  <2> QED BY <2>1, <2>2, <2>3, LateCount
<1> QED BY <1>1, RemindInit, RemindStep, TypeInit, TypeStep, PTL DEF Spec

=============================================================================
